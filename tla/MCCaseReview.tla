---------------------------- MODULE MCCaseReview ----------------------------
(***************************************************************************)
(* Model-checking instances of CaseReview.                                 *)
(***************************************************************************)
EXTENDS CaseReview, TLC

WorkerSymmetry == Permutations(Workers)

=============================================================================
