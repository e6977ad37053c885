-------------------------- MODULE MCPublicCompletion --------------------------
(***************************************************************************)
(* Small instances of PublicCompletion for TLC.                            *)
(***************************************************************************)
EXTENDS PublicCompletion, TLC

CONSTANTS r1, r2, c1, c2, wrong, right

\* Requests and webhook calls are interchangeable.
Symmetry == Permutations(Requests) \cup Permutations(Callbacks)
=============================================================================
