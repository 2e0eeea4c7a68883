SPECIFICATION FairSpec
CHECK_DEADLOCK FALSE
CONSTANTS
  Workers = {w1}
  Conns = {c1}
  NoConn = NoConn
  QueueLimit = 1
  MaxStops = 1
  MaxUpdates = 2
PROPERTIES
  UpdateIsTaken
  StopEndsRun
