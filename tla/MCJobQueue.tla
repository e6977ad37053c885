----------------------------- MODULE MCJobQueue -----------------------------
(***************************************************************************)
(* Small instances of JobQueue for TLC: one definition per constant that   *)
(* is not a plain value in the configurations.                             *)
(***************************************************************************)
EXTENDS JobQueue, TLC

CONSTANTS j1, j2, w1, w2

\* Workers are interchangeable; jobs are too (no action names one).
Symmetry == Permutations(Workers) \cup Permutations(Jobs)
=============================================================================
