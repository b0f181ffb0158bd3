------------------------------- MODULE MCBatch -------------------------------
(***************************************************************************)
(* Batch for TLC: four items through two slots.                            *)
(***************************************************************************)
EXTENDS Batch
=============================================================================
