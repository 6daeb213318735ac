---------------------------- MODULE MCIngestion -----------------------------
(***************************************************************************)
(* Model-checking instance of Ingestion.                                   *)
(***************************************************************************)
EXTENDS Ingestion

=============================================================================
