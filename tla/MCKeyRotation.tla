--------------------------- MODULE MCKeyRotation ----------------------------
(***************************************************************************)
(* Model-checking instances of KeyRotation.                                *)
(***************************************************************************)
EXTENDS KeyRotation, TLC

RotationSymmetry == Permutations(Providers) \cup Permutations(Clients)

=============================================================================
