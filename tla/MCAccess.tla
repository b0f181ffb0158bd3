------------------------------ MODULE MCAccess ------------------------------
(***************************************************************************)
(* Access for TLC.                                                         *)
(***************************************************************************)
EXTENDS Access, TLC

Interchangeable == Permutations(Handlers)
=============================================================================
