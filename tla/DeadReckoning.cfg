SPECIFICATION Spec
CHECK_DEADLOCK FALSE
CONSTANTS
  Horizon = 7
  MaxGap = 3
  DvlCoast = 2
  RewindSpan = 3
  MaxLate = 2
  MaxRewinds = 1
INVARIANTS
  NeverDoubleCounted
  NothingLeftOut
  NoSpikeCarried
