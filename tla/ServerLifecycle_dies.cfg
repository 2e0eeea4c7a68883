SPECIFICATION Spec
CHECK_DEADLOCK FALSE
CONSTANTS
  Procs = {p1}
  Commands = {"start"}
  MaxAccidents = 0
INVARIANTS
  NobodyDies
