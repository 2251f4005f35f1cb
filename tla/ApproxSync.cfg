SPECIFICATION SyncSpec
CHECK_DEADLOCK FALSE
CONSTANTS
  Secondary = {b, c}
  Slop = 1
  QueueSize = 2
  MaxSecondary = 4
  LastStamp = 3
  Lag = 1
  MaxRestarts = 1
  MaxMessages = 9
INVARIANTS
  NearestIsFinal
  NoFalseStarvation
  WaitsOnlyWhenBehind
  Accounted
