SPECIFICATION Spec
CHECK_DEADLOCK FALSE
CONSTANTS
  Procs = {p1, p2, p3}
  Commands = {"start", "force", "restart", "kill", "update"}
  MaxAccidents = 1
SYMMETRY Symmetry
INVARIANTS
  TypeOK
  MutexExcludes
  WaitsForAHolder
  LoneServerIsFound
  NamesAreGone
  LockInv
