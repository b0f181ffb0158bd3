--------------------------- MODULE MCTaskLifecycle ---------------------------
(***************************************************************************)
(* TaskLifecycle for TLC.  One object, one retry and one stop of the       *)
(* process are enough for a run, its retry and a restart of either kind    *)
(* after another; two objects and no stop are enough for /recover to make  *)
(* a second object while the first one still runs.                         *)
(***************************************************************************)
EXTENDS TaskLifecycle, TLC

\* The task objects differ in nothing but their identity.
Interchangeable == Permutations(Objs)
=============================================================================
