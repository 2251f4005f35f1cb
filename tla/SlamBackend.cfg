SPECIFICATION Spec
CHECK_DEADLOCK FALSE
CONSTANTS
  MaxKeys = 4
  LoadSizes = {1}
  MinStSep = 1
  MinRevisitSep = 1
  PcmQueueSize = 1
  MinPcm = 2
  MaxManual = 2
  MaxFixes = 1
  LateThrows = FALSE
INVARIANTS
  NothingLeftBehind
  EstimatorMirrors
  PosesMatchGraph
  LoopBooks
  QuarantineHolds
  RevertsAreBounded
  ChainIsIntact
  UndoStackIsLive
  MapFrameGate
PROPERTIES
  ImplementsLedger
