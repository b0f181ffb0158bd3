------------------------------ MODULE WorkQueue ------------------------------
(***************************************************************************)
(* The download queue of the task manager: producers put task objects into *)
(* the priority queue and then post one token on QueueSignal, a bounded    *)
(* channel; MaxConcurrent workers each take a token, dequeue one task, run *)
(* it and go back to waiting.  A failed run may put its task back after a  *)
(* backoff.  Shutdown cancels the contexts of the active tasks, closes     *)
(* ShutdownChan and waits on the WaitGroup of the running tasks.           *)
(*                                                                         *)
(*   internal/queue/priority_queue.go, internal/service/task_manager.go    *)
(*   (CreateTask, CreatePlaylistSubTask, worker), task_processor.go        *)
(*   (retryTask), bot_service.go (Shutdown)                                *)
(*                                                                         *)
(* What a run does with its task is TaskLifecycle's subject: here it is    *)
(* one step that returns, asks for a retry, or never comes.                *)
(***************************************************************************)
EXTENDS Integers, FiniteSets

CONSTANTS
  Tasks,       \* task objects
  Workers,     \* the goroutines of tm.worker, MaxConcurrentDownloads of them
  SignalCap,   \* capacity of QueueSignal (1000 in the code)
  MaxRetries,  \* cfg.MaxRetries
  None         \* "no task"

ASSUME QueueAssumption ==
  /\ IsFiniteSet(Tasks)
  /\ IsFiniteSet(Workers) /\ Workers # {}
  /\ SignalCap \in Nat \ {0}
  /\ MaxRetries \in Nat
  /\ None \notin Tasks

VARIABLES
  phase,     \* [Tasks -> Phase]: where the task's current producer stands
  prio,      \* [Tasks -> Priority]: priority of its latest queue entry
  retries,   \* [Tasks -> 0..MaxRetries]: task.RetryCount
  heap,      \* the tasks with an entry in PriorityQueue.items
  owing,     \* goroutines between Enqueue and the send on QueueSignal
  signals,   \* tokens in QueueSignal
  dropped,   \* tokens the non-blocking send gave up on (history)
  pc,        \* [Workers -> WorkerPC]
  held,      \* [Workers -> Tasks \cup {None}]: the task a worker dequeued
  sem,       \* tokens in tm.Semaphore, whose capacity is the number of workers
  active,    \* tm.ActiveCount
  wg,        \* counter of tm.Wg
  ctxDone,   \* tasks whose context CancelTask or Shutdown has cancelled
  shut       \* how far BotService.Shutdown is

queueVars  == <<heap, owing, signals, dropped>>
workerVars == <<pc, held, sem, active, wg>>
taskVars   == <<phase, prio, retries>>
vars       == <<taskVars, queueVars, workerVars, ctxDone, shut>>

\* PriorityLow, PriorityNormal, PriorityHigh.
Priority == {0, 50, 100}

\* none: not created; created: in tm.Tasks, not enqueued yet; submitted: enqueued
\* or with a worker; backoff: the retry goroutine is waiting; gone: no more runs.
Phase == {"none", "created", "submitted", "backoff", "gone"}

WorkerPC == {"idle", "signalled", "holding", "admitted", "counted",
             "processing", "failing", "done", "released", "stopped"}

MaxConcurrent == Cardinality(Workers)

InPC(P) == {w \in Workers : pc[w] \in P}

Init ==
  /\ phase = [t \in Tasks |-> "none"]
  /\ prio = [t \in Tasks |-> 0]
  /\ retries = [t \in Tasks |-> 0]
  /\ heap = {} /\ owing = 0 /\ signals = 0 /\ dropped = 0
  /\ pc = [w \in Workers |-> "idle"]
  /\ held = [w \in Workers |-> None]
  /\ sem = 0 /\ active = 0 /\ wg = 0
  /\ ctxDone = {}
  /\ shut = "running"

-----------------------------------------------------------------------------
(* Producers.                                                              *)

\* The task object enters tm.Tasks with the priority it will be enqueued with.
CreateTask(t) ==
  /\ phase[t] = "none"
  /\ phase' = [phase EXCEPT ![t] = "created"]
  /\ \E p \in Priority : prio' = [prio EXCEPT ![t] = p]
  /\ UNCHANGED <<retries, queueVars, workerVars, ctxDone, shut>>

\* Queue.Enqueue; the goroutine now owes QueueSignal one token.
Enqueue(t) ==
  /\ phase[t] = "created"
  /\ phase' = [phase EXCEPT ![t] = "submitted"]
  /\ heap' = heap \cup {t}
  /\ owing' = owing + 1
  /\ UNCHANGED <<prio, retries, signals, dropped, workerVars, ctxDone, shut>>

\* A forgotten wake-up: the retry goroutine enqueues and posts no token.
BackoffElapsedNoSignal(t) ==
  /\ phase[t] = "backoff"
  /\ phase' = [phase EXCEPT ![t] = "submitted"]
  /\ prio' = [prio EXCEPT ![t] = 0]
  /\ heap' = heap \cup {t}
  /\ UNCHANGED <<retries, owing, signals, dropped, workerVars, ctxDone, shut>>

\* A ticker in place of time.After: the goroutine comes back for another round.
BackoffElapsedTwice(t) ==
  /\ phase[t] = "backoff"
  /\ prio' = [prio EXCEPT ![t] = 0]
  /\ heap' = heap \cup {t}
  /\ owing' = owing + 1
  /\ UNCHANGED <<phase, retries, signals, dropped, workerVars, ctxDone, shut>>

\* The retry goroutine's timer fires: Enqueue at PriorityLow.  Go's select picks
\* any ready case, so this may happen even after the context or ShutdownChan.
BackoffElapsed(t) ==
  /\ phase[t] = "backoff"
  /\ phase' = [phase EXCEPT ![t] = "submitted"]
  /\ prio' = [prio EXCEPT ![t] = 0]
  /\ heap' = heap \cup {t}
  /\ owing' = owing + 1
  /\ UNCHANGED <<retries, signals, dropped, workerVars, ctxDone, shut>>

BackoffAborted(t) ==
  /\ phase[t] = "backoff"
  /\ t \in ctxDone \/ shut \in {"closed", "stopped"}
  /\ phase' = [phase EXCEPT ![t] = "gone"]
  /\ UNCHANGED <<prio, retries, queueVars, workerVars, ctxDone, shut>>

\* select { case QueueSignal <- struct{}{}: default: }
PostSignal ==
  /\ owing > 0
  /\ owing' = owing - 1
  /\ IF signals < SignalCap
       THEN signals' = signals + 1 /\ UNCHANGED dropped
       ELSE dropped' = dropped + 1 /\ UNCHANGED signals
  /\ UNCHANGED <<taskVars, heap, workerVars, ctxDone, shut>>

-----------------------------------------------------------------------------
(* Workers.                                                                *)

Goto(w, from, to) == pc[w] = from /\ pc' = [pc EXCEPT ![w] = to]

TakeSignal(w) ==
  /\ Goto(w, "idle", "signalled")
  /\ signals > 0
  /\ signals' = signals - 1
  /\ UNCHANGED <<taskVars, heap, owing, dropped, held, sem, active, wg, ctxDone, shut>>

WorkerStop(w) ==
  /\ Goto(w, "idle", "stopped")
  /\ shut \in {"closed", "stopped"}
  /\ UNCHANGED <<taskVars, queueVars, held, sem, active, wg, ctxDone, shut>>

\* A min-heap for a max-heap.
LastOut(t) == \A u \in heap : prio[u] >= prio[t]

\* Less: an entry of the highest priority present leaves first; which one of equals is
\* the heap's business.
FirstOut(t) == \A u \in heap : prio[u] <= prio[t]

\* DequeueNonBlocking: the first entry, or nil and back to the select.
Dequeue(w) ==
  /\ pc[w] = "signalled"
  /\ IF heap = {}
       THEN /\ pc' = [pc EXCEPT ![w] = "idle"]
            /\ UNCHANGED <<heap, held>>
       ELSE /\ pc' = [pc EXCEPT ![w] = "holding"]
            /\ \E t \in heap :
                 /\ FirstOut(t)
                 /\ heap' = heap \ {t}
                 /\ held' = [held EXCEPT ![w] = t]
  /\ UNCHANGED <<taskVars, owing, signals, dropped, sem, active, wg, ctxDone, shut>>

\* tm.Semaphore <- struct{}{} blocks while the channel is full.
Acquire(w) ==
  /\ Goto(w, "holding", "admitted")
  /\ sem < MaxConcurrent
  /\ sem' = sem + 1
  /\ UNCHANGED <<taskVars, queueVars, held, active, wg, ctxDone, shut>>

CountUp(w) ==
  /\ Goto(w, "admitted", "counted")
  /\ active' = active + 1
  /\ UNCHANGED <<taskVars, queueVars, held, sem, wg, ctxDone, shut>>

\* Wg.Add(1) and the call of ProcessTaskFunc.
StartProcessing(w) ==
  /\ Goto(w, "counted", "processing")
  /\ wg' = wg + 1
  /\ UNCHANGED <<taskVars, queueVars, held, sem, active, ctxDone, shut>>

\* The engine fails, and executeDownloadEngine, finding ShutdownChan open, goes on to
\* ask for a retry.
EngineFails(w) ==
  /\ Goto(w, "processing", "failing")
  /\ shut \notin {"closed", "stopped"}
  /\ UNCHANGED <<taskVars, queueVars, held, sem, active, wg, ctxDone, shut>>

\* One retry too many.
MayRetryOffByOne(t) == retries[t] <= MaxRetries

\* The count of retryTask.  Its other condition, a status that is not cancelled, is
\* TaskLifecycle's: here a cancelled task may retry or not.
MayRetry(t) == retries[t] < MaxRetries

\* A return that skips Wg.Done.
WgDoneSkipped == UNCHANGED wg

WgDone == wg' = wg - 1

\* retryTask counts the attempt and starts the retry goroutine, whatever ShutdownChan
\* has become meanwhile; ProcessTaskFunc returns, then Wg.Done.
Retry(w) ==
  /\ Goto(w, "failing", "done")
  /\ MayRetry(held[w])
  /\ retries' = [retries EXCEPT ![held[w]] = @ + 1]
  /\ phase' = [phase EXCEPT ![held[w]] = "backoff"]
  /\ WgDone
  /\ held' = [held EXCEPT ![w] = None]
  /\ UNCHANGED <<prio, queueVars, sem, active, ctxDone, shut>>

\* ProcessTaskFunc returns with the task over; then Wg.Done.
ProcessReturn(w) ==
  /\ pc[w] \in {"processing", "failing"}
  /\ pc' = [pc EXCEPT ![w] = "done"]
  /\ phase' = [phase EXCEPT ![held[w]] = "gone"]
  /\ WgDone
  /\ held' = [held EXCEPT ![w] = None]
  /\ UNCHANGED <<retries, prio, queueVars, sem, active, ctxDone, shut>>

Release(w) ==
  /\ Goto(w, "done", "released")
  /\ sem' = sem - 1
  /\ UNCHANGED <<taskVars, queueVars, held, active, wg, ctxDone, shut>>

CountDown(w) ==
  /\ Goto(w, "released", "idle")
  /\ active' = active - 1
  /\ UNCHANGED <<taskVars, queueVars, held, sem, wg, ctxDone, shut>>

-----------------------------------------------------------------------------
(* CancelTask and BotService.Shutdown.                                     *)

\* The user's cancel ends the task's context; an entry in the queue stays there.
CancelTask(t) ==
  /\ phase[t] \notin {"none", "gone"} /\ t \notin ctxDone
  /\ ctxDone' = ctxDone \cup {t}
  /\ UNCHANGED <<taskVars, queueVars, workerVars, shut>>

\* GetActiveTasks and the loop over CancelFunc.  A task created after the
\* snapshot keeps its context.
ShutdownCancel ==
  /\ shut = "running"
  /\ shut' = "cancelled"
  /\ ctxDone' = ctxDone \cup {t \in Tasks : phase[t] \notin {"none", "gone"}}
  /\ UNCHANGED <<taskVars, queueVars, workerVars>>

ShutdownClose ==
  /\ shut = "cancelled"
  /\ shut' = "closed"
  /\ UNCHANGED <<taskVars, queueVars, workerVars, ctxDone>>

\* Wg.Wait returns: "All tasks stopped."  The database is closed next.
ShutdownWaitReturns ==
  /\ shut = "closed"
  /\ wg = 0
  /\ shut' = "stopped"
  /\ UNCHANGED <<taskVars, queueVars, workerVars, ctxDone>>

\* Every goroutine has come to rest.
Halted ==
  /\ shut = "stopped"
  /\ \A w \in Workers : pc[w] = "stopped"
  /\ owing = 0
  /\ UNCHANGED vars

-----------------------------------------------------------------------------
Producer(t) ==
  CreateTask(t) \/ Enqueue(t) \/ BackoffElapsed(t) \/ BackoffAborted(t) \/ CancelTask(t)

Worker(w) ==
  \/ TakeSignal(w) \/ WorkerStop(w) \/ Dequeue(w) \/ Acquire(w) \/ CountUp(w)
  \/ StartProcessing(w) \/ EngineFails(w) \/ Retry(w) \/ ProcessReturn(w)
  \/ Release(w) \/ CountDown(w)

Shutdown == ShutdownCancel \/ ShutdownClose \/ ShutdownWaitReturns

Next ==
  \/ \E t \in Tasks : Producer(t)
  \/ PostSignal
  \/ \E w \in Workers : Worker(w)
  \/ Shutdown
  \/ Halted

\* A worker's own steps between two selects are ordinary straight-line code.
WorkerMechanics(w) ==
  \/ TakeSignal(w) \/ WorkerStop(w) \/ Dequeue(w) \/ Acquire(w) \/ CountUp(w)
  \/ StartProcessing(w) \/ Release(w) \/ CountDown(w)
  \/ pc[w] = "failing" /\ (Retry(w) \/ ProcessReturn(w))

\* Goroutines that can run are scheduled.  Nothing obliges a run to return, not even
\* a cancelled context: an upload to Telegram does not look at it.  Users owe no
\* tasks and nobody owes a shutdown, but one that began is carried through.
Fairness ==
  /\ \A w \in Workers : WF_vars(WorkerMechanics(w))
  /\ \A t \in Tasks :
       WF_vars(Enqueue(t) \/ BackoffElapsed(t) \/ BackoffAborted(t))
  /\ WF_vars(PostSignal)
  /\ WF_vars(ShutdownClose \/ ShutdownWaitReturns)

Spec == Init /\ [][Next]_vars /\ Fairness

-----------------------------------------------------------------------------
(* Properties.                                                             *)

TypeOK ==
  /\ phase \in [Tasks -> Phase]
  /\ prio \in [Tasks -> Priority]
  /\ retries \in [Tasks -> 0..MaxRetries]
  /\ heap \in SUBSET Tasks
  /\ owing \in Nat /\ signals \in 0..SignalCap /\ dropped \in Nat
  /\ pc \in [Workers -> WorkerPC]
  /\ held \in [Workers -> Tasks \cup {None}]
  /\ sem \in Nat /\ active \in Nat /\ wg \in Nat
  /\ ctxDone \in SUBSET Tasks
  /\ shut \in {"running", "cancelled", "closed", "stopped"}

\* Tokens and entries never come apart (task_manager.go 447-451, 688-692): every
\* queued entry is matched by exactly one token - in the channel, in a worker's
\* hand, still owed by its producer, or dropped on a full channel.  So a worker
\* never wakes up to an empty queue, and once the channel has drained the entries
\* left behind are exactly as many as the tokens that were dropped.
SignalAccounting ==
  Cardinality(heap)
    = signals + owing + dropped + Cardinality(InPC({"signalled"}))

\* With producers, retries and workers interleaving, no task object is ever in two
\* hands: two workers never hold the same task, and a task that is queued or
\* waiting for its backoff is with no worker.
OneHolder ==
  /\ \A v, w \in Workers : held[v] = held[w] /\ held[v] # None => v = w
  /\ \A w \in Workers : held[w] # None =>
       held[w] \notin heap /\ phase[held[w]] = "submitted"
  /\ \A t \in heap : phase[t] = "submitted"

\* Where the pool's user sees a task: a submitted one with an entry waits, one without
\* is with a worker.
PlaceOf(t) ==
  IF phase[t] # "submitted" THEN phase[t] ELSE IF t \in heap THEN "waiting" ELSE "running"

Pool == INSTANCE TaskPool WITH
  Size     <- MaxConcurrent,
  place    <- [t \in Tasks |-> PlaceOf(t)],
  urgency  <- prio,
  tries    <- retries,
  recalled <- ctxDone,
  stage    <- CASE shut = "running"   -> "open"
                [] shut = "cancelled" -> "closing"
                [] OTHER              -> "closed"

\* Producers, the channel, retries and workers together are a pool of MaxConcurrent
\* runs (task_manager.go 675-719, priority_queue.go): entries and tokens may cross in
\* any order, yet no task is in two places, none is lost or given up that nobody called
\* back, the most urgent one starts, and no more run at once than there are workers.
KeepsPool == Pool!Spec

\* The semaphore is as wide as the pool of workers, so taking a slot (line 698)
\* never blocks a worker that already holds a task, whatever the others are doing.
SlotIsFree == \A w \in Workers : pc[w] = "holding" => sem < MaxConcurrent

\* No lost wake-up: while the system runs, no token has been dropped and at least
\* one worker keeps coming back from its runs, every queued task is picked up.
QueuedTaskStarts ==
  (/\ []<>(InPC({"processing"}) # Workers)
   /\ [](dropped = 0 /\ shut = "running"))
  => \A t \in Tasks : t \in heap ~> t \notin heap

\* Shutdown ends (bot_service.go 161-163), unless a run never returns: neither tasks
\* that wait, nor retries, nor workers that start late can hold Wg.Wait up.
ShutdownEnds ==
  shut = "closed" ~> shut = "stopped" \/ \E w \in Workers : [](pc[w] = "processing")

\* The log line that follows Wg.Wait, "All tasks stopped." (bot_service.go 163):
\* from then on no worker is running a task.
AllTasksStopped == shut = "stopped" => InPC({"processing", "failing"}) = {}
=============================================================================
