----------------------------- MODULE MCWorkQueue -----------------------------
(***************************************************************************)
(* WorkQueue for TLC: two tasks that may be retried, two workers, and a    *)
(* channel of one token, so that tokens are dropped too.                   *)
(***************************************************************************)
EXTENDS WorkQueue
=============================================================================
