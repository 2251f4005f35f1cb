SPECIFICATION Spec
CHECK_DEADLOCK FALSE
CONSTANTS
  TiltBufMax = 3
  Slack = 2
  TiltLate = 1
  TiltGap = 1
  PingLate = 3
  Horizon = 3
  MaxRewinds = 1
  Startup <- MCStartup
  Requests <- MCRequests
  MaxSets = 2
  Rows = 7
  Cells = {0, 1, 3}
  Tau = 1
  Threshold = 0
  MaxOsCells = 2
INVARIANTS
  TiltBufSearchable
  JudgedByItsTime
  TuningIsAtomic
  TwinsAgree
