------------------------------ MODULE TaskState ------------------------------
(* What an engine and an uploader see of the task they work for.           *)
EXTENDS Naturals

VARIABLES
  status,     \* task.Status
  stopped     \* task.Ctx is cancelled

taskVars == <<status, stopped>>

Terminal == {"completed", "failed", "cancelled"}

\* SetStatus and SetError: a cancelled task keeps its status.
SetStatus(s) == status' = IF status = "cancelled" THEN status ELSE s
=============================================================================
