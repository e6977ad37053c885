-------------------------- MODULE MCTodoReplication --------------------------
(***************************************************************************)
(* Small instances of TodoReplication for TLC.                             *)
(***************************************************************************)
EXTENDS TodoReplication, TLC

CONSTANTS t1, t2, k1

Symmetry == Permutations(Writers)
=============================================================================
