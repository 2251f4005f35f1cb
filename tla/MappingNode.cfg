SPECIFICATION Spec
CHECK_DEADLOCK FALSE
CONSTANTS
  Horizon = 5
  LastKey = 2
  Lag = 1
  Grace = 1
  BufMax = 2
  TrajDepth = 2
  MaxMoves = 1
  MaxRestarts = 1
INVARIANTS
  NothingHeldBack
  TilesFollowGraph
  SkippedOnlyIfGone
PROPERTIES
  EveryKeyframeSettles
