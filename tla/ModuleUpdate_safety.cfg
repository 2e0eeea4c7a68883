SPECIFICATION Spec
CONSTANTS
  Apps = {a1, a2}
  Libs = {l1, l2}
  Updates = {u1, u2}
  Sizes = {1, 2}
  MaxVersions = 3
  MaxTime = 2
SYMMETRY Symmetry
INVARIANTS
  TypeOK
  FunctionsAreLoaded
  RunningIsOnDisk
  UpdatedUnlessAlike
  UpdateInv
  AgeInv
PROPERTIES
  NoNeedlessUnload
