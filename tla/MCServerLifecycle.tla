------------------------- MODULE MCServerLifecycle -------------------------
(* ServerLifecycle on small instances. *)
EXTENDS ServerLifecycle, TLC

Symmetry == Permutations(Procs)
=============================================================================
