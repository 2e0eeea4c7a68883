SPECIFICATION Spec
CHECK_DEADLOCK FALSE
CONSTANTS
  Workers = {w1, w2}
  Conns = {c1, c2}
  NoConn = NoConn
  QueueLimit = 2
  MaxStops = 1
  MaxUpdates = 1
SYMMETRY Symmetry
INVARIANTS
  TypeOK
  ConnectionInOnePlace
  WorkingCountsBusy
  UpdateIsQuiescent
  TeardownIsLast
  SleeperIsAlone
  UpdatesAreRequested
  AcceptsOnlyWhenNotFull
  CoreInv
  EventInv
PROPERTIES
  ImplementsPool
