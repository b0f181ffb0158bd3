------------------------------ MODULE TaskPool ------------------------------
(***************************************************************************)
(* What the task manager promises of many tasks, whatever heap, channel,   *)
(* tokens, semaphore, counters, workers and timers lie behind it: a task   *)
(* is in one place at a time, at most Size of them run, the most urgent    *)
(* one that waits is next, a failed one comes back a bounded number of     *)
(* times, and none that is owed another run is given up but by its user or *)
(* the shutdown.  WorkQueue implements it (WorkQueue!KeepsPool).           *)
(***************************************************************************)
EXTENDS Naturals, FiniteSets

CONSTANTS
  Tasks,
  Size,         \* MaxConcurrentDownloads
  MaxRetries    \* cfg.MaxRetries

VARIABLES
  place,        \* [Tasks -> "none", "created", "waiting", "running", "backoff", "gone"]
  urgency,      \* [Tasks -> Urgency]: counts while the task waits
  tries,        \* [Tasks -> Nat]: how often it came back
  recalled,     \* tasks the user has cancelled or that were there at the shutdown
  stage         \* "open", "closing" or "closed"

vars == <<place, urgency, tries, recalled, stage>>

Urgency == {0, 50, 100}

At(p) == {t \in Tasks : place[t] = p}

Init ==
  /\ place = [t \in Tasks |-> "none"]
  /\ urgency = [t \in Tasks |-> 0]
  /\ tries = [t \in Tasks |-> 0]
  /\ recalled = {} /\ stage = "open"

Move(t, from, to) == place[t] = from /\ place' = [place EXCEPT ![t] = to]

Create(t) ==
  /\ Move(t, "none", "created")
  /\ \E u \in Urgency : urgency' = [urgency EXCEPT ![t] = u]
  /\ UNCHANGED <<tries, recalled, stage>>

Queue(t) ==
  /\ Move(t, "created", "waiting")
  /\ UNCHANGED <<urgency, tries, recalled, stage>>

Start(t) ==
  /\ Move(t, "waiting", "running")
  /\ \A u \in At("waiting") : urgency[u] <= urgency[t]
  /\ Cardinality(At("running")) < Size
  /\ UNCHANGED <<urgency, tries, recalled, stage>>

End(t) ==
  /\ Move(t, "running", "gone")
  /\ UNCHANGED <<urgency, tries, recalled, stage>>

\* A failed run is owed another one.
Fail(t) ==
  /\ Move(t, "running", "backoff")
  /\ tries[t] < MaxRetries
  /\ tries' = [tries EXCEPT ![t] = @ + 1]
  /\ UNCHANGED <<urgency, recalled, stage>>

\* It comes back behind all that is more urgent than the least.
Return(t) ==
  /\ Move(t, "backoff", "waiting")
  /\ urgency' = [urgency EXCEPT ![t] = 0]
  /\ UNCHANGED <<tries, recalled, stage>>

\* It is given up only for a reason.
Abandon(t) ==
  /\ Move(t, "backoff", "gone")
  /\ t \in recalled \/ stage = "closed"
  /\ UNCHANGED <<urgency, tries, recalled, stage>>

Pending == {t \in Tasks : place[t] \notin {"none", "gone"}}

Recall(t) ==
  /\ t \in Pending
  /\ recalled' = recalled \cup {t}
  /\ UNCHANGED <<place, urgency, tries, stage>>

Close ==
  /\ \/ stage = "open" /\ stage' = "closing" /\ recalled' = recalled \cup Pending
     \/ stage = "closing" /\ stage' = "closed" /\ UNCHANGED recalled
  /\ UNCHANGED <<place, urgency, tries>>

Next ==
  \/ \E t \in Tasks :
       \/ Create(t) \/ Queue(t) \/ Start(t) \/ End(t)
       \/ Fail(t) \/ Return(t) \/ Abandon(t) \/ Recall(t)
  \/ Close

Spec == Init /\ [][Next]_vars
=============================================================================
