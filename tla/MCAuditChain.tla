---------------------------- MODULE MCAuditChain ----------------------------
(***************************************************************************)
(* Model-checking instance of AuditChain.                                  *)
(***************************************************************************)
EXTENDS AuditChain, TLC

ChainSymmetry == Permutations(Callers)

=============================================================================
