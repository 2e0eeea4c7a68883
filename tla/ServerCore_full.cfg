SPECIFICATION FairSpec
CHECK_DEADLOCK FALSE
CONSTANTS
  Workers = {w1}
  Conns = {c1}
  NoConn = NoConn
  QueueLimit = 1
  MaxStops = 0
  MaxUpdates = 0
PROPERTIES
  AcceptorComesBack
