---------------------------- MODULE TaskContract ----------------------------
(***************************************************************************)
(* What somebody who hands in a link may rely on, whatever goroutines,     *)
(* backoffs, saves, recoveries, shutdowns and crashes lie behind it: what  *)
(* is stored about the task, and how often it is tried.  TaskLifecycle     *)
(* implements it (TaskLifecycle!KeepsContract).                            *)
(***************************************************************************)
EXTENDS Naturals

CONSTANT MaxRetries   \* cfg.MaxRetries

VARIABLES
  stored,     \* what the database has: "none", "open" or how the task ended
  attempts,   \* failed attempts so far
  restarts,   \* shutdowns and crashes so far
  asked,      \* the user has asked for a cancel
  late        \* a progress report of a finished yt-dlp was written last

vars == <<stored, attempts, restarts, asked, late>>

Undisturbed == ~asked /\ ~late

Init ==
  /\ stored = "none" /\ attempts = 0 /\ restarts = 0
  /\ asked = FALSE /\ late = FALSE

\* The task is stored before it is first tried ...
Accept ==
  /\ stored = "none"
  /\ stored' = "open"
  /\ UNCHANGED <<attempts, restarts, asked, late>>

\* ... and tried once, once more for each retry, and once more for each restart.
AttemptFails ==
  /\ Undisturbed => stored = "open" /\ attempts <= MaxRetries + restarts
  /\ attempts' = attempts + 1
  /\ UNCHANGED <<stored, restarts, asked, late>>

\* It ends once, and stays as it ended.
End ==
  /\ stored = "open"
  /\ stored' \in {"completed", "failed"}
  /\ UNCHANGED <<attempts, restarts, asked, late>>

Restart ==
  /\ restarts' = restarts + 1
  /\ UNCHANGED <<stored, attempts, asked, late>>

Ask ==
  /\ asked' = TRUE
  /\ UNCHANGED <<stored, attempts, restarts, late>>

\* A late report can reopen the task, and with it begins whatever a second run of it
\* does; what it can never do is cancel the task.
Disturb ==
  /\ late' \in {late, TRUE}
  /\ asked \/ late'
  /\ stored' \in {"open", "completed", "failed"} \cup (IF asked THEN {"cancelled"} ELSE {})
  /\ UNCHANGED <<attempts, restarts, asked>>

Next == Accept \/ AttemptFails \/ End \/ Restart \/ Ask \/ Disturb

Spec == Init /\ [][Next]_vars
=============================================================================
