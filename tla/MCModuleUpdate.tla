--------------------------- MODULE MCModuleUpdate ---------------------------
(* ModuleUpdate on small instances. *)
EXTENDS ModuleUpdate, TLC

Symmetry == Permutations(Apps) \union Permutations(Libs) \union Permutations(Updates)
=============================================================================
