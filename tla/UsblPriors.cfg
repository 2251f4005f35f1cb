SPECIFICATION Spec
CHECK_DEADLOCK FALSE
CONSTANTS
  MaxDelta = 2
  KeyDuration = 2
  MaxLate = 2
  Horizon = 4
  MaxKeys = 5
  MaxPasses = 1
INVARIANTS
  OneFixPerKeyframe
  NearestOfItsPass
  MotionIsLocal
