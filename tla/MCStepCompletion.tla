-------------------------- MODULE MCStepCompletion --------------------------
(***************************************************************************)
(* Small instances of StepCompletion for TLC.                              *)
(***************************************************************************)
EXTENDS StepCompletion, TLC

CONSTANTS r1, r2, r3, form, item, alice, guest

\* Requests are interchangeable: each chooses its to-do and its user.
Symmetry == Permutations(Requests)
=============================================================================
