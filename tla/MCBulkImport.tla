---------------------------- MODULE MCBulkImport ----------------------------
(***************************************************************************)
(* Model-checking instance of BulkImport.                                  *)
(***************************************************************************)
EXTENDS BulkImport, TLC

ImportSymmetry == Permutations(Callers) \cup Permutations(Keys)

=============================================================================
