---------------------------- MODULE MCAdmission -----------------------------
(***************************************************************************)
(* Admission for TLC.                                                      *)
(***************************************************************************)
EXTENDS Admission, TLC

Interchangeable == Permutations(Handlers)
=============================================================================
