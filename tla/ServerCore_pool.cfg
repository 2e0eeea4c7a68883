SPECIFICATION FairSpec
CHECK_DEADLOCK FALSE
CONSTANTS
  Workers = {w1, w2}
  Conns = {c1, c2}
  NoConn = NoConn
  QueueLimit = 1
  MaxStops = 0
  MaxUpdates = 0
PROPERTIES
  QueuedIsTaken
