SPECIFICATION Spec
CHECK_DEADLOCK FALSE
CONSTANTS
  LoadedKeys = 1
  MaxLinks = 2
  MaxTear = 5
  Bound = 1
  Gate = 1
  Jitter = 1
  Guesses = 4
  Workers = 2
  MinSamples = 2
  MinStSep = 2
  MinRevisitSep = 3
  RevisitGap = 1
  CandidatePoints = 1
  MinPoints = 3
  Initialization = TRUE
  MinPcm = 3
  PcmQueueSize = 4
  Sources = {5, 7}
  Counts = {0, 1, 2, 3}
INVARIANTS
  BlamedOnlyIfWorse
