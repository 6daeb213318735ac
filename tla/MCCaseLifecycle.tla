-------------------------- MODULE MCCaseLifecycle --------------------------
(***************************************************************************)
(* Model-checking instances of CaseLifecycle.                              *)
(***************************************************************************)
EXTENDS CaseLifecycle, TLC

WorkerSymmetry == Permutations(Workers)

=============================================================================
