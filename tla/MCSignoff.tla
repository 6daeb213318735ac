----------------------------- MODULE MCSignoff -----------------------------
(***************************************************************************)
(* Model-checking instances of Signoff.                                    *)
(***************************************************************************)
EXTENDS Signoff, TLC

HandlerSymmetry == Permutations(Handlers)

=============================================================================
