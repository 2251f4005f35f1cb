SPECIFICATION VizSpec
CONSTANTS
  VizPeriod = 1
  RepublishPeriod = 2
  MaxAge = 2
  Jump = 2
  MaxVersions = 6
  MaxJumps = 2
PROPERTIES
  NewestWins
  TopicSettles
