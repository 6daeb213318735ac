-------------------------- MODULE MCReasoningRun ---------------------------
(***************************************************************************)
(* Model-checking instances of ReasoningRun.                               *)
(***************************************************************************)
EXTENDS ReasoningRun, TLC

DriverSymmetry == Permutations(Drivers)

=============================================================================
