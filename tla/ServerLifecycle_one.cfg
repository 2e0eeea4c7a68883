SPECIFICATION Spec
CHECK_DEADLOCK FALSE
CONSTANTS
  Procs = {p1,p2}
  Commands = {"start"}
  MaxAccidents = 0
INVARIANTS
  OneServer
