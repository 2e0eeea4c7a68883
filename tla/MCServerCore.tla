---------------------------- MODULE MCServerCore ----------------------------
(* ServerCore on small instances. *)
EXTENDS ServerCore, TLC

Symmetry == Permutations(Workers) \union Permutations(Conns)
=============================================================================
