--------------------------- MODULE WorkQueueProofs ---------------------------
(***************************************************************************)
(* Proofs about WorkQueue for any number of tasks, workers, retries and    *)
(* channel slots.  The three counters of the code (semaphore tokens,       *)
(* ActiveCount, WaitGroup) each count the workers in a segment of their    *)
(* loop; with that, typing and the token accounting are inductive.         *)
(***************************************************************************)
EXTENDS WorkQueue, FiniteSetTheorems, TLAPS

Running == {"processing", "failing"}
Slots   == {"admitted", "counted", "done"} \cup Running
Counted == {"counted", "done", "released"} \cup Running
Holding == {"holding", "admitted", "counted"} \cup Running

\* Each counter equals the number of workers between its up and its down step.
Counters ==
  /\ sem = Cardinality(InPC(Slots))
  /\ active = Cardinality(InPC(Counted))
  /\ wg = Cardinality(InPC(Running))

\* A worker holds a task exactly between its dequeue and the run's return.
HeldWhileWorking == \A w \in Workers : held[w] # None <=> pc[w] \in Holding

IInv == TypeOK /\ Counters /\ SignalAccounting /\ HeldWhileWorking /\ OneHolder

-----------------------------------------------------------------------------
(* Counting lemmas.                                                        *)

LEMMA WorkerSetFinite ==
  ASSUME NEW S \in SUBSET Workers
  PROVE  /\ IsFiniteSet(S)
         /\ Cardinality(S) \in Nat
         /\ Cardinality(S) <= MaxConcurrent
BY QueueAssumption, FS_Subset, FS_CardinalityType DEF MaxConcurrent

LEMMA InPCFinite ==
  ASSUME NEW P
  PROVE  /\ IsFiniteSet(InPC(P))
         /\ Cardinality(InPC(P)) \in Nat
         /\ Cardinality(InPC(P)) <= MaxConcurrent
         /\ Cardinality(InPC(P)') \in Nat
<1>1. InPC(P) \in SUBSET Workers /\ InPC(P)' \in SUBSET Workers
  BY DEF InPC
<1> QED
  BY <1>1, WorkerSetFinite

\* Moving one worker from one program point to another changes the number of
\* workers in a segment by its entering minus its leaving.
LEMMA CountMove ==
  ASSUME TypeOK, NEW w \in Workers, NEW to \in WorkerPC, NEW P,
         pc' = [pc EXCEPT ![w] = to]
  PROVE  Cardinality(InPC(P)') = Cardinality(InPC(P))
            + (IF to \in P THEN 1 ELSE 0) - (IF pc[w] \in P THEN 1 ELSE 0)
<1>0. pc \in [Workers -> WorkerPC]
  BY DEF TypeOK
<1> DEFINE before == {v \in Workers : pc[v] \in P}
           after  == {v \in Workers : pc'[v] \in P}
<1>1. IsFiniteSet(before) /\ Cardinality(before) \in Nat
  BY InPCFinite DEF InPC
<1>a. Cardinality(after) = Cardinality(before)
            + (IF to \in P THEN 1 ELSE 0) - (IF pc[w] \in P THEN 1 ELSE 0)
  <2>1. CASE to \in P /\ pc[w] \notin P
    <3>1. after = before \cup {w} /\ w \notin before
      BY <1>0, <2>1
    <3> HIDE DEF before, after
    <3>2. Cardinality(after) = Cardinality(before) + 1
      BY <1>1, <3>1, FS_AddElement
    <3> QED
      BY <1>1, <2>1, <3>2
  <2>2. CASE to \notin P /\ pc[w] \in P
    <3>1. after = before \ {w} /\ w \in before
      BY <1>0, <2>2
    <3> HIDE DEF before, after
    <3>2. Cardinality(after) = Cardinality(before) - 1
      BY <1>1, <3>1, FS_RemoveElement
    <3> QED
      BY <1>1, <2>2, <3>2
  <2>3. CASE (to \in P) <=> (pc[w] \in P)
    <3>1. after = before
      BY <1>0, <2>3
    <3> HIDE DEF before, after
    <3> QED
      BY <1>1, <2>3, <3>1
  <2> QED
    BY <2>1, <2>2, <2>3
<1> QED
  BY <1>a DEF InPC

LEMMA HeapFinite ==
  ASSUME TypeOK
  PROVE  IsFiniteSet(heap) /\ Cardinality(heap) \in Nat
BY QueueAssumption, FS_Subset, FS_CardinalityType DEF TypeOK

LEMMA HeapPush ==
  ASSUME TypeOK, NEW t \in Tasks, t \notin heap, heap' = heap \cup {t}
  PROVE  Cardinality(heap') = Cardinality(heap) + 1
BY HeapFinite, FS_AddElement

LEMMA HeapPop ==
  ASSUME TypeOK, NEW t \in heap, heap' = heap \ {t}
  PROVE  Cardinality(heap') = Cardinality(heap) - 1
BY HeapFinite, FS_RemoveElement

-----------------------------------------------------------------------------
(* The invariant holds initially.                                          *)

LEMMA InitIInv == Init => IInv
<1> SUFFICES ASSUME Init PROVE IInv
  OBVIOUS
<1>1. TypeOK
  BY QueueAssumption DEF Init, TypeOK, Priority, Phase, WorkerPC
<1>2. \A P : "idle" \notin P => Cardinality(InPC(P)) = 0
  <2>1. \A P : "idle" \notin P => InPC(P) = {}
    BY DEF Init, InPC
  <2> QED
    BY <2>1, FS_EmptySet
<1>3. Counters
  BY <1>2 DEF Init, Counters, Slots, Counted, Running
<1>4. SignalAccounting
  BY <1>2, FS_EmptySet DEF Init, SignalAccounting
<1>5. HeldWhileWorking /\ OneHolder
  BY DEF Init, HeldWhileWorking, OneHolder, Holding, Running
<1> QED
  BY <1>1, <1>3, <1>4, <1>5 DEF IInv

-----------------------------------------------------------------------------
(* Producers and shutdown leave every worker where it is.                  *)

LEMMA WorkersStay ==
  ASSUME IInv, UNCHANGED workerVars
  PROVE  /\ Counters'
         /\ Cardinality(InPC({"signalled"}))' = Cardinality(InPC({"signalled"}))
         /\ HeldWhileWorking'
BY DEF IInv, workerVars, Counters, InPC, HeldWhileWorking

LEMMA CreateTaskIInv ==
  ASSUME IInv, NEW t \in Tasks, CreateTask(t)
  PROVE  IInv'
<1> USE DEF CreateTask, queueVars, workerVars
<1>1. TypeOK'
  BY DEF IInv, TypeOK, Phase
<1>2. OneHolder'
  BY DEF IInv, TypeOK, OneHolder
<1>3. SignalAccounting'
  BY WorkersStay DEF IInv, SignalAccounting
<1> QED
  BY <1>1, <1>2, <1>3, WorkersStay DEF IInv

\* Enqueue and BackoffElapsed: an entry appears, and with it one owed token.
LEMMA PushIInv ==
  ASSUME IInv, NEW t \in Tasks,
         phase[t] # "submitted",
         phase' = [phase EXCEPT ![t] = "submitted"],
         prio' \in [Tasks -> Priority],
         heap' = heap \cup {t}, owing' = owing + 1,
         UNCHANGED <<retries, signals, dropped, workerVars, ctxDone, shut>>
  PROVE  IInv'
<1>1. TypeOK'
  <2>1. heap' \in SUBSET Tasks /\ phase' \in [Tasks -> Phase]
    BY DEF IInv, TypeOK, Phase
  <2>2. pc' = pc /\ held' = held /\ sem' = sem /\ active' = active /\ wg' = wg
    BY DEF workerVars
  <2> QED
    BY <2>1, <2>2 DEF IInv, TypeOK
<1>2. OneHolder'
  BY DEF IInv, TypeOK, OneHolder, workerVars
<1>3. t \notin heap
  BY DEF IInv, OneHolder
<1>4. Cardinality(heap') = Cardinality(heap) + 1
  BY <1>3, HeapPush DEF IInv
<1>5. SignalAccounting'
  BY <1>4, WorkersStay, HeapFinite, InPCFinite DEF IInv, TypeOK, SignalAccounting
<1> QED
  BY <1>1, <1>2, <1>5, WorkersStay DEF IInv

LEMMA EnqueueIInv ==
  ASSUME IInv, NEW t \in Tasks, Enqueue(t)
  PROVE  IInv'
BY PushIInv DEF Enqueue, IInv, TypeOK

LEMMA BackoffElapsedIInv ==
  ASSUME IInv, NEW t \in Tasks, BackoffElapsed(t)
  PROVE  IInv'
<1>1. prio' \in [Tasks -> Priority]
  BY DEF BackoffElapsed, IInv, TypeOK, Priority
<1> QED
  BY <1>1, PushIInv DEF BackoffElapsed

LEMMA BackoffAbortedIInv ==
  ASSUME IInv, NEW t \in Tasks, BackoffAborted(t)
  PROVE  IInv'
<1> USE DEF BackoffAborted, queueVars, workerVars
<1>1. TypeOK'
  BY DEF IInv, TypeOK, Phase
<1>2. OneHolder'
  BY DEF IInv, TypeOK, OneHolder
<1>3. SignalAccounting'
  BY WorkersStay DEF IInv, SignalAccounting
<1> QED
  BY <1>1, <1>2, <1>3, WorkersStay DEF IInv

LEMMA CancelTaskIInv ==
  ASSUME IInv, NEW t \in Tasks, CancelTask(t)
  PROVE  IInv'
<1> USE DEF CancelTask, taskVars, queueVars, workerVars
<1>1. TypeOK'
  BY DEF IInv, TypeOK
<1>2. OneHolder' /\ SignalAccounting'
  BY WorkersStay DEF IInv, OneHolder, SignalAccounting
<1> QED
  BY <1>1, <1>2, WorkersStay DEF IInv

LEMMA PostSignalIInv ==
  ASSUME IInv, PostSignal
  PROVE  IInv'
<1> USE DEF PostSignal, taskVars, workerVars
<1>1. TypeOK'
  BY QueueAssumption DEF IInv, TypeOK
<1>2. OneHolder'
  BY DEF IInv, TypeOK, OneHolder
<1>3. SignalAccounting'
  BY WorkersStay, InPCFinite DEF IInv, TypeOK, SignalAccounting
<1> QED
  BY <1>1, <1>2, <1>3, WorkersStay DEF IInv

LEMMA ShutdownIInv ==
  ASSUME IInv, Shutdown
  PROVE  IInv'
<1> USE DEF Shutdown, ShutdownCancel, ShutdownClose, ShutdownWaitReturns,
            taskVars, queueVars, workerVars
<1>1. TypeOK'
  BY DEF IInv, TypeOK
<1>2. OneHolder'
  BY DEF IInv, OneHolder
<1>3. SignalAccounting'
  BY WorkersStay DEF IInv, SignalAccounting
<1> QED
  BY <1>1, <1>2, <1>3, WorkersStay DEF IInv

-----------------------------------------------------------------------------
(* One worker moves.                                                       *)

\* Worker w moves to program point "to", and each counter follows.
CountedMove(w, to) ==
  /\ pc' = [pc EXCEPT ![w] = to]
  /\ sem' = sem + (IF to \in Slots THEN 1 ELSE 0)
                - (IF pc[w] \in Slots THEN 1 ELSE 0)
  /\ active' = active + (IF to \in Counted THEN 1 ELSE 0)
                      - (IF pc[w] \in Counted THEN 1 ELSE 0)
  /\ wg' = wg + (IF to \in Running THEN 1 ELSE 0)
              - (IF pc[w] \in Running THEN 1 ELSE 0)

\* What a move does to the three counters and to the number of tokens in hand.
LEMMA WorkerMoves ==
  ASSUME IInv, NEW w \in Workers, NEW to \in WorkerPC, CountedMove(w, to)
  PROVE  /\ Counters'
         /\ sem' \in Nat /\ active' \in Nat /\ wg' \in Nat
         /\ Cardinality(InPC({"signalled"}))' =
              Cardinality(InPC({"signalled"}))
                + (IF to = "signalled" THEN 1 ELSE 0)
                - (IF pc[w] = "signalled" THEN 1 ELSE 0)
<1>1. TypeOK /\ Counters
  BY DEF IInv
<1>2. /\ Cardinality(InPC(Slots)') = Cardinality(InPC(Slots))
            + (IF to \in Slots THEN 1 ELSE 0) - (IF pc[w] \in Slots THEN 1 ELSE 0)
      /\ Cardinality(InPC(Counted)') = Cardinality(InPC(Counted))
            + (IF to \in Counted THEN 1 ELSE 0) - (IF pc[w] \in Counted THEN 1 ELSE 0)
      /\ Cardinality(InPC(Running)') = Cardinality(InPC(Running))
            + (IF to \in Running THEN 1 ELSE 0) - (IF pc[w] \in Running THEN 1 ELSE 0)
      /\ Cardinality(InPC({"signalled"})') = Cardinality(InPC({"signalled"}))
            + (IF to \in {"signalled"} THEN 1 ELSE 0)
            - (IF pc[w] \in {"signalled"} THEN 1 ELSE 0)
  BY <1>1, CountMove DEF CountedMove
<1>3. Counters'
  BY <1>1, <1>2, InPCFinite DEF CountedMove, Counters, InPC, TypeOK
<1>4. sem' \in Nat /\ active' \in Nat /\ wg' \in Nat
  BY <1>3, InPCFinite DEF Counters, InPC
<1>5. Cardinality(InPC({"signalled"}))' = Cardinality(InPC({"signalled"})')
  BY DEF InPC
<1> QED
  BY <1>2, <1>3, <1>4, <1>5

\* A move between two points of the loop that holds no task and leaves the tasks
\* and the queue alone, tokens in hand aside.
LEMMA StepIInv ==
  ASSUME IInv, NEW w \in Workers, NEW to \in WorkerPC, CountedMove(w, to),
         to # "signalled", pc[w] # "signalled",
         to \in Holding <=> pc[w] \in Holding,
         UNCHANGED <<taskVars, queueVars, held, ctxDone, shut>>
  PROVE  IInv'
<1> USE DEF taskVars, queueVars
<1>1. /\ Counters'
      /\ sem' \in Nat /\ active' \in Nat /\ wg' \in Nat
      /\ Cardinality(InPC({"signalled"}))' = Cardinality(InPC({"signalled"}))
  <2>1. Cardinality(InPC({"signalled"})) \in Nat
    BY InPCFinite
  <2> QED
    BY <2>1, WorkerMoves
<1>2. pc' = [pc EXCEPT ![w] = to]
  BY DEF CountedMove
<1>3. TypeOK'
  BY <1>1, <1>2 DEF IInv, TypeOK
<1>4. SignalAccounting'
  BY <1>1 DEF IInv, SignalAccounting
<1>5. HeldWhileWorking'
  BY <1>2 DEF IInv, TypeOK, HeldWhileWorking
<1>6. OneHolder'
  BY DEF IInv, OneHolder
<1> QED
  BY <1>1, <1>3, <1>4, <1>5, <1>6 DEF IInv

LEMMA TakeSignalIInv ==
  ASSUME IInv, NEW w \in Workers, TakeSignal(w)
  PROVE  IInv'
<1>0. CountedMove(w, "signalled") /\ "signalled" \in WorkerPC /\ pc[w] = "idle"
  BY DEF TakeSignal, Goto, CountedMove, Slots, Counted, Running, WorkerPC, IInv, TypeOK
<1>1. /\ Counters'
      /\ Cardinality(InPC({"signalled"}))' = Cardinality(InPC({"signalled"})) + 1
  <2>1. Cardinality(InPC({"signalled"})) \in Nat
    BY InPCFinite
  <2> QED
    BY <1>0, <2>1, WorkerMoves
<1> USE DEF TakeSignal, Goto, taskVars
<1>2. TypeOK'
  <2>1. signals' \in 0..SignalCap
    BY QueueAssumption DEF IInv, TypeOK
  <2>2. pc' \in [Workers -> WorkerPC]
    BY <1>0 DEF IInv, TypeOK
  <2> QED
    BY <2>1, <2>2 DEF IInv, TypeOK
<1>3. SignalAccounting'
  BY <1>1, InPCFinite DEF IInv, TypeOK, SignalAccounting
<1>4. HeldWhileWorking'
  BY DEF IInv, TypeOK, HeldWhileWorking, Holding, Running
<1>5. OneHolder'
  BY DEF IInv, OneHolder
<1> QED
  BY <1>1, <1>2, <1>3, <1>4, <1>5 DEF IInv

\* A worker that took a token finds the queue non-empty.
LEMMA SignalledFindsEntry ==
  ASSUME IInv, NEW w \in Workers, pc[w] = "signalled"
  PROVE  heap # {}
<1>1. w \in InPC({"signalled"})
  BY DEF InPC
<1>2. Cardinality(InPC({"signalled"})) # 0
  BY <1>1, InPCFinite, FS_EmptySet
<1>3. Cardinality(heap) # 0
  BY <1>2, InPCFinite DEF IInv, SignalAccounting, TypeOK
<1> QED
  BY <1>3, FS_EmptySet

LEMMA DequeueIInv ==
  ASSUME IInv, NEW w \in Workers, Dequeue(w)
  PROVE  IInv'
<1>1. PICK t \in heap :
        /\ pc' = [pc EXCEPT ![w] = "holding"]
        /\ heap' = heap \ {t}
        /\ held' = [held EXCEPT ![w] = t]
  BY SignalledFindsEntry DEF Dequeue
<1>2. /\ pc[w] = "signalled"
      /\ UNCHANGED <<taskVars, owing, signals, dropped, sem, active, wg, ctxDone, shut>>
  BY DEF Dequeue
<1> USE DEF taskVars
<1>3. /\ Counters'
      /\ Cardinality(InPC({"signalled"}))' = Cardinality(InPC({"signalled"})) - 1
  <2>1. CountedMove(w, "holding") /\ "holding" \in WorkerPC
    BY <1>1, <1>2 DEF CountedMove, Slots, Counted, Running, WorkerPC, IInv, TypeOK
  <2>2. Cardinality(InPC({"signalled"})) \in Nat
    BY InPCFinite
  <2> QED
    BY <1>2, <2>1, <2>2, WorkerMoves
<1>4. t \in Tasks /\ t # None
  BY QueueAssumption DEF IInv, TypeOK
<1>5. TypeOK'
  BY <1>1, <1>2, <1>4 DEF IInv, TypeOK, WorkerPC
<1>6. Cardinality(heap') = Cardinality(heap) - 1
  BY <1>1, HeapPop DEF IInv
<1>7. SignalAccounting'
  BY <1>2, <1>3, <1>6, HeapFinite, InPCFinite DEF IInv, TypeOK, SignalAccounting
<1>8. HeldWhileWorking'
  BY <1>1, <1>2, <1>4 DEF IInv, TypeOK, HeldWhileWorking, Holding, Running
<1>9. OneHolder'
  <2>1. \A v \in Workers : held[v] # t
    BY <1>4 DEF IInv, OneHolder
  <2> QED
    BY <1>1, <1>2, <1>4, <2>1 DEF IInv, TypeOK, OneHolder
<1> QED
  BY <1>3, <1>5, <1>7, <1>8, <1>9 DEF IInv

LEMMA ProcessReturnIInv ==
  ASSUME IInv, NEW w \in Workers, Retry(w) \/ ProcessReturn(w)
  PROVE  IInv'
<1>1. /\ pc[w] \in Running
      /\ pc' = [pc EXCEPT ![w] = "done"]
      /\ wg' = wg - 1
      /\ held' = [held EXCEPT ![w] = None]
      /\ UNCHANGED <<prio, queueVars, sem, active, ctxDone, shut>>
  BY DEF Retry, ProcessReturn, Goto, WgDone, Running
<1>2. held[w] \in Tasks /\ held[w] \notin heap
  BY <1>1 DEF IInv, TypeOK, HeldWhileWorking, Holding, Running, OneHolder
<1>3. PICK ph \in {"gone", "backoff"} : phase' = [phase EXCEPT ![held[w]] = ph]
  BY DEF Retry, ProcessReturn
<1>4. retries' \in [Tasks -> 0..MaxRetries]
  BY <1>2, QueueAssumption DEF Retry, ProcessReturn, MayRetry, IInv, TypeOK
<1> USE DEF queueVars
<1>5. /\ Counters'
      /\ wg' \in Nat
      /\ Cardinality(InPC({"signalled"}))' = Cardinality(InPC({"signalled"}))
  <2>1. CountedMove(w, "done") /\ "done" \in WorkerPC
    BY <1>1 DEF CountedMove, Slots, Counted, Running, WorkerPC, IInv, TypeOK
  <2>2. Cardinality(InPC({"signalled"})) \in Nat
    BY InPCFinite
  <2>3. pc[w] # "signalled"
    BY <1>1 DEF Running
  <2> QED
    BY <2>1, <2>2, <2>3, WorkerMoves
<1>6. TypeOK'
  BY <1>1, <1>3, <1>4, <1>5 DEF IInv, TypeOK, WorkerPC, Phase
<1>7. SignalAccounting'
  BY <1>1, <1>5 DEF IInv, SignalAccounting
<1>8. HeldWhileWorking'
  BY <1>1 DEF IInv, TypeOK, HeldWhileWorking, Holding, Running
<1>9. OneHolder'
  BY <1>1, <1>2, <1>3 DEF IInv, TypeOK, OneHolder
<1> QED
  BY <1>5, <1>6, <1>7, <1>8, <1>9 DEF IInv

LEMMA WorkerIInv ==
  ASSUME IInv, NEW w \in Workers, Worker(w)
  PROVE  IInv'
<1>0. sem \in Nat /\ active \in Nat /\ wg \in Nat
  BY DEF IInv, TypeOK
<1>1. CASE WorkerStop(w)
  <2>1. CountedMove(w, "stopped") /\ "stopped" \in WorkerPC
    BY <1>0, <1>1 DEF WorkerStop, Goto, CountedMove, Slots, Counted, Running, WorkerPC
  <2>2. /\ pc[w] # "signalled"
        /\ "stopped" \in Holding <=> pc[w] \in Holding
        /\ UNCHANGED <<taskVars, queueVars, held, ctxDone, shut>>
    BY <1>1 DEF WorkerStop, Goto, Holding, Running
  <2> QED
    BY <2>1, <2>2, StepIInv
<1>2. CASE Acquire(w)
  <2>1. CountedMove(w, "admitted") /\ "admitted" \in WorkerPC
    BY <1>0, <1>2 DEF Acquire, Goto, CountedMove, Slots, Counted, Running, WorkerPC
  <2>2. /\ pc[w] # "signalled"
        /\ "admitted" \in Holding <=> pc[w] \in Holding
        /\ UNCHANGED <<taskVars, queueVars, held, ctxDone, shut>>
    BY <1>2 DEF Acquire, Goto, Holding, Running
  <2> QED
    BY <2>1, <2>2, StepIInv
<1>3. CASE CountUp(w)
  <2>1. CountedMove(w, "counted") /\ "counted" \in WorkerPC
    BY <1>0, <1>3 DEF CountUp, Goto, CountedMove, Slots, Counted, Running, WorkerPC
  <2>2. /\ pc[w] # "signalled"
        /\ "counted" \in Holding <=> pc[w] \in Holding
        /\ UNCHANGED <<taskVars, queueVars, held, ctxDone, shut>>
    BY <1>3 DEF CountUp, Goto, Holding, Running
  <2> QED
    BY <2>1, <2>2, StepIInv
<1>4. CASE StartProcessing(w)
  <2>1. CountedMove(w, "processing") /\ "processing" \in WorkerPC
    BY <1>0, <1>4 DEF StartProcessing, Goto, CountedMove, Slots, Counted, Running, WorkerPC
  <2>2. /\ pc[w] # "signalled"
        /\ "processing" \in Holding <=> pc[w] \in Holding
        /\ UNCHANGED <<taskVars, queueVars, held, ctxDone, shut>>
    BY <1>4 DEF StartProcessing, Goto, Holding, Running
  <2> QED
    BY <2>1, <2>2, StepIInv
<1>7. CASE EngineFails(w)
  <2>1. CountedMove(w, "failing") /\ "failing" \in WorkerPC
    BY <1>0, <1>7 DEF EngineFails, Goto, CountedMove, Slots, Counted, Running, WorkerPC
  <2>2. /\ pc[w] # "signalled"
        /\ "failing" \in Holding <=> pc[w] \in Holding
        /\ UNCHANGED <<taskVars, queueVars, held, ctxDone, shut>>
    BY <1>7 DEF EngineFails, Goto, Holding, Running
  <2> QED
    BY <2>1, <2>2, StepIInv
<1>5. CASE Release(w)
  <2>1. CountedMove(w, "released") /\ "released" \in WorkerPC
    BY <1>0, <1>5 DEF Release, Goto, CountedMove, Slots, Counted, Running, WorkerPC
  <2>2. /\ pc[w] # "signalled"
        /\ "released" \in Holding <=> pc[w] \in Holding
        /\ UNCHANGED <<taskVars, queueVars, held, ctxDone, shut>>
    BY <1>5 DEF Release, Goto, Holding, Running
  <2> QED
    BY <2>1, <2>2, StepIInv
<1>6. CASE CountDown(w)
  <2>1. CountedMove(w, "idle") /\ "idle" \in WorkerPC
    BY <1>0, <1>6 DEF CountDown, Goto, CountedMove, Slots, Counted, Running, WorkerPC
  <2>2. /\ pc[w] # "signalled"
        /\ "idle" \in Holding <=> pc[w] \in Holding
        /\ UNCHANGED <<taskVars, queueVars, held, ctxDone, shut>>
    BY <1>6 DEF CountDown, Goto, Holding, Running
  <2> QED
    BY <2>1, <2>2, StepIInv
<1> QED
  BY <1>1, <1>2, <1>3, <1>4, <1>5, <1>6, <1>7, TakeSignalIInv, DequeueIInv,
     ProcessReturnIInv DEF Worker

-----------------------------------------------------------------------------
(* The theorems.                                                           *)

LEMMA NextIInv == IInv /\ [Next]_vars => IInv'
<1> SUFFICES ASSUME IInv, [Next]_vars PROVE IInv'
  OBVIOUS
<1>1. ASSUME NEW t \in Tasks, Producer(t) PROVE IInv'
  BY <1>1, CreateTaskIInv, EnqueueIInv, BackoffElapsedIInv, BackoffAbortedIInv,
     CancelTaskIInv
     DEF Producer
<1>2. ASSUME NEW w \in Workers, Worker(w) PROVE IInv'
  BY <1>2, WorkerIInv
<1>3. CASE UNCHANGED vars
  BY <1>3 DEF IInv, vars, taskVars, queueVars, workerVars, TypeOK, Counters,
              SignalAccounting, HeldWhileWorking, OneHolder, InPC
<1> QED
  BY <1>1, <1>2, <1>3, PostSignalIInv, ShutdownIInv DEF Next, Halted

LEMMA Invariance == Spec => []IInv
BY InitIInv, NextIInv, PTL DEF Spec

\* Every variable keeps its type: in particular ActiveCount, the WaitGroup and the
\* semaphore never go below zero, and the retry count stays within MaxRetries.
THEOREM TypeCorrect == Spec => []TypeOK
BY Invariance, PTL DEF IInv

\* For any number of producers, workers and channel slots, every queued entry is
\* matched by exactly one token, dropped ones included.
THEOREM TokensMatchEntries == Spec => []SignalAccounting
BY Invariance, PTL DEF IInv

\* No task object is ever in two hands.
THEOREM SingleOwner == Spec => []OneHolder
BY Invariance, PTL DEF IInv

\* A worker woken by QueueSignal never meets an empty queue: the nil branch of
\* DequeueNonBlocking is dead code under worker's protocol.
THEOREM WakeupFindsEntry ==
  Spec => [](\A w \in Workers : pc[w] = "signalled" => heap # {})
<1>1. IInv => \A w \in Workers : pc[w] = "signalled" => heap # {}
  BY SignalledFindsEntry
<1> QED
  BY <1>1, Invariance, PTL

\* Taking a semaphore slot never blocks.
THEOREM SlotAvailable == Spec => []SlotIsFree
<1>1. ASSUME IInv, NEW w \in Workers, pc[w] = "holding"
      PROVE  sem < MaxConcurrent
  <2>1. InPC(Slots) \in SUBSET Workers /\ w \notin InPC(Slots)
    BY <1>1 DEF InPC, Slots, Running
  <2>2. Cardinality(InPC(Slots)) # MaxConcurrent
    BY <2>1, QueueAssumption, FS_Subset DEF MaxConcurrent
  <2>3. MaxConcurrent \in Nat
    BY QueueAssumption, FS_CardinalityType DEF MaxConcurrent
  <2> QED
    BY <1>1, <2>2, <2>3, InPCFinite DEF IInv, Counters
<1>2. IInv => SlotIsFree
  BY <1>1 DEF SlotIsFree
<1> QED
  BY <1>2, Invariance, PTL

\* No wake-up is forgotten: while the queue has more entries than tokens were dropped,
\* a token is in the channel, owed to it or in a worker's hand (task_manager.go 447-451,
\* 688-692, task_processor.go 294-298).
WakeupOnItsWay ==
  Cardinality(heap) > dropped =>
    signals > 0 \/ owing > 0 \/ InPC({"signalled"}) # {}

THEOREM NoWakeupForgotten == Spec => []WakeupOnItsWay
<1>1. ASSUME IInv PROVE WakeupOnItsWay
  <2>1. /\ signals \in Nat /\ owing \in Nat /\ dropped \in Nat
        /\ Cardinality(heap) = signals + owing + dropped + Cardinality(InPC({"signalled"}))
    BY <1>1, QueueAssumption DEF IInv, TypeOK, SignalAccounting
  <2>2. CASE InPC({"signalled"}) = {}
    <3>1. Cardinality(InPC({"signalled"})) = 0
      BY <2>2, FS_EmptySet
    <3> QED
      BY <2>1, <3>1 DEF WakeupOnItsWay
  <2> QED
    BY <2>2 DEF WakeupOnItsWay
<1> QED
  BY <1>1, Invariance, PTL

\* The send on QueueSignal gives a token up only while more than SignalCap entries are
\* waiting (task_manager.go 447-451): the capacity is a bound on the queue's length, not
\* on how many producers come at once.
DropsNeedACrowd == [][dropped' # dropped => Cardinality(heap) > SignalCap]_vars

THEOREM TokensDropOnlyInACrowd == Spec => DropsNeedACrowd
<1>1. ASSUME IInv, [Next]_vars, dropped' # dropped
      PROVE  Cardinality(heap) > SignalCap
  <2>1. PostSignal
    <3>1. ASSUME NEW t \in Tasks PROVE ~Producer(t)
      BY <1>1 DEF Producer, CreateTask, Enqueue, BackoffElapsed, BackoffAborted, CancelTask,
                  queueVars
    <3>2. ASSUME NEW w \in Workers PROVE ~Worker(w)
      BY <1>1 DEF Worker, TakeSignal, WorkerStop, Dequeue, Acquire, CountUp, StartProcessing,
                  EngineFails, Retry, ProcessReturn, Release, CountDown, queueVars
    <3>3. ~Shutdown /\ ~Halted /\ ~UNCHANGED vars
      BY <1>1 DEF Shutdown, ShutdownCancel, ShutdownClose, ShutdownWaitReturns, Halted,
                  queueVars, vars
    <3> QED
      BY <1>1, <3>1, <3>2, <3>3 DEF Next
  <2>2. owing \in Nat /\ owing > 0 /\ signals \in Nat /\ signals >= SignalCap
    BY <1>1, <2>1, QueueAssumption DEF PostSignal, IInv, TypeOK
  <2>3. dropped \in Nat /\ Cardinality(InPC({"signalled"})) \in Nat
    BY <1>1, InPCFinite DEF IInv, TypeOK
  <2> QED
    BY <1>1, <2>2, <2>3, QueueAssumption DEF IInv, SignalAccounting
<1> QED
  BY <1>1, Invariance, PTL DEF Spec, DropsNeedACrowd

-----------------------------------------------------------------------------
(* WorkQueue implements TaskPool.                                          *)

\* A submitted task that has no entry is with a worker.
Attended ==
  \A t \in Tasks : phase[t] = "submitted" /\ t \notin heap => \E w \in Workers : held[w] = t

\* It stays true: a task leaves "submitted" and a heap entry only into a worker's hand, and
\* a worker lets go of it only with a new phase.
LEMMA NextAttended ==
  ASSUME IInv, Attended, [Next]_vars
  PROVE  Attended'
<1>t. TypeOK /\ OneHolder /\ HeldWhileWorking
  BY DEF IInv
<1> USE <1>t DEF Attended, TypeOK, queueVars, workerVars, taskVars, Goto
<1>1. ASSUME NEW t \in Tasks, Producer(t) PROVE Attended'
  BY <1>1 DEF Producer, CreateTask, Enqueue, BackoffElapsed, BackoffAborted, CancelTask
<1>2. CASE PostSignal
  BY <1>2 DEF PostSignal
<1>3. ASSUME NEW w \in Workers, Worker(w) PROVE Attended'
  <2>1. CASE Dequeue(w)
    <3>1. held[w] = None
      BY <2>1 DEF Dequeue, HeldWhileWorking, Holding, Running
    <3> QED
      BY <2>1, <3>1, QueueAssumption DEF Dequeue
  <2>2. CASE Retry(w) \/ ProcessReturn(w)
    <3>1. held[w] \in Tasks
      BY <2>2 DEF Retry, ProcessReturn, HeldWhileWorking, Holding, Running
    <3>2. /\ \E p \in {"gone", "backoff"} : phase' = [phase EXCEPT ![held[w]] = p]
          /\ held' = [held EXCEPT ![w] = None] /\ UNCHANGED <<heap, ctxDone, shut>>
      BY <2>2 DEF Retry, ProcessReturn
    <3> QED
      BY <3>1, <3>2
  <2>3. CASE UNCHANGED <<phase, heap, held, ctxDone, shut>>
    BY <2>3
  <2>4. Worker(w) => \/ Dequeue(w) \/ Retry(w) \/ ProcessReturn(w)
                     \/ UNCHANGED <<phase, heap, held, ctxDone, shut>>
    BY DEF Worker, TakeSignal, WorkerStop, Acquire, CountUp, StartProcessing, EngineFails,
       Release, CountDown
  <2> QED
    BY <1>3, <2>1, <2>2, <2>3, <2>4
<1>4. CASE Shutdown
  BY <1>4 DEF Shutdown, ShutdownCancel, ShutdownClose, ShutdownWaitReturns
<1>5. CASE Halted \/ UNCHANGED vars
  BY <1>5 DEF Halted, vars
<1> QED
  BY <1>1, <1>2, <1>3, <1>4, <1>5 DEF Next

\* The tasks that run are each with a worker of their own.
LEMMA RunningAreHeld ==
  ASSUME IInv, Attended, NEW w \in Workers, held[w] = None
  PROVE  LET running == {t \in Tasks : PlaceOf(t) = "running"}
         IN  IsFiniteSet(running) /\ Cardinality(running) < MaxConcurrent
<1> DEFINE running == {t \in Tasks : PlaceOf(t) = "running"}
           hand == [v \in Workers \ {w} |-> held[v]]
<1>1. \A t \in running : phase[t] = "submitted" /\ t \notin heap
  BY DEF PlaceOf, IInv, TypeOK, Phase
<1>2. \A t \in running : \E v \in Workers \ {w} : held[v] = t
  BY <1>1, QueueAssumption DEF Attended
<1>3. IsFiniteSet(Workers \ {w}) /\ Cardinality(Workers \ {w}) = MaxConcurrent - 1
  BY QueueAssumption, FS_RemoveElement DEF MaxConcurrent
<1>4. MaxConcurrent \in Nat
  BY QueueAssumption, FS_CardinalityType DEF MaxConcurrent
<1>5. IsFiniteSet(running)
  BY QueueAssumption, FS_Subset
<1>6. PICK keep \in [running -> Workers \ {w}] : \A t \in running : held[keep[t]] = t
  <2>1. [t \in running |-> CHOOSE v \in Workers \ {w} : held[v] = t]
          \in [running -> Workers \ {w}]
    BY <1>2
  <2>2. \A t \in running : held[CHOOSE v \in Workers \ {w} : held[v] = t] = t
    BY <1>2
  <2> QED
    BY <2>1, <2>2
<1>7. \A t, u \in running : keep[t] = keep[u] => t = u
  BY <1>6
<1>8. Cardinality(running) <= Cardinality(Workers \ {w})
  BY <1>3, <1>5, <1>6, <1>7, FS_Injection DEF Injection, IsInjective
<1>9. Cardinality(running) \in Nat
  BY <1>5, FS_CardinalityType
<1> QED
  BY <1>3, <1>4, <1>5, <1>8, <1>9

\* Every step is a step of the pool or none.
LEMMA StepIsPools ==
  ASSUME IInv, Attended, [Next]_vars
  PROVE  [Pool!Next]_(Pool!vars)
<1>t. TypeOK /\ OneHolder /\ HeldWhileWorking
  BY DEF IInv
<1>f. /\ phase \in [Tasks -> Phase] /\ heap \subseteq Tasks
      /\ prio \in [Tasks -> Priority] /\ retries \in [Tasks -> 0..MaxRetries]
      /\ held \in [Workers -> Tasks \cup {None}]
      /\ shut \in {"running", "cancelled", "closed", "stopped"}
  BY <1>t DEF TypeOK
<1> DEFINE stage == CASE shut = "running" -> "open" [] shut = "cancelled" -> "closing"
                      [] OTHER -> "closed"
           place == [u \in Tasks |-> PlaceOf(u)]
<1>s. ASSUME UNCHANGED <<phase, heap, prio, retries, ctxDone, shut>> PROVE [Pool!Next]_(Pool!vars)
  BY <1>s DEF Pool!vars, PlaceOf
<1>1. ASSUME NEW t \in Tasks, CreateTask(t) PROVE Pool!Next
  <2>1. place[t] = "none" /\ place' = [place EXCEPT ![t] = "created"]
    BY <1>1, <1>f DEF CreateTask, PlaceOf, queueVars
  <2> QED
    BY <1>1, <2>1 DEF CreateTask, Pool!Next, Pool!Create, Pool!Move, Pool!Urgency, Priority
<1>2. ASSUME NEW t \in Tasks, Enqueue(t) PROVE Pool!Next
  <2>1. place[t] = "created" /\ place' = [place EXCEPT ![t] = "waiting"]
    BY <1>2, <1>f DEF Enqueue, PlaceOf
  <2> QED
    BY <1>2, <2>1 DEF Enqueue, Pool!Next, Pool!Queue, Pool!Move
<1>3. ASSUME NEW t \in Tasks, BackoffElapsed(t) PROVE Pool!Next
  <2>1. place[t] = "backoff" /\ place' = [place EXCEPT ![t] = "waiting"]
    BY <1>3, <1>f DEF BackoffElapsed, PlaceOf
  <2> QED
    BY <1>3, <2>1 DEF BackoffElapsed, Pool!Next, Pool!Return, Pool!Move
<1>4. ASSUME NEW t \in Tasks, BackoffAborted(t) PROVE Pool!Next
  <2>1. place[t] = "backoff" /\ place' = [place EXCEPT ![t] = "gone"]
    BY <1>4, <1>f DEF BackoffAborted, PlaceOf, queueVars
  <2>2. t \in ctxDone \/ stage = "closed"
    BY <1>4 DEF BackoffAborted
  <2> QED
    BY <1>4, <2>1, <2>2 DEF BackoffAborted, Pool!Next, Pool!Abandon, Pool!Move
<1>5. ASSUME NEW w \in Workers, Dequeue(w) PROVE Pool!Next
  <2>1. PICK t \in heap : /\ \A u \in heap : prio[u] <= prio[t]
                          /\ heap' = heap \ {t}
    BY <1>5, SignalledFindsEntry DEF Dequeue, FirstOut
  <2>2. UNCHANGED <<phase, prio, retries, ctxDone, shut>> /\ held[w] = None /\ t \in Tasks
    BY <1>5, <1>t, <1>f DEF Dequeue, HeldWhileWorking, Holding, Running, taskVars
  <2>3. \A u \in Tasks : phase[u] = "submitted" /\ u \in heap <=> place[u] = "waiting"
    BY <1>f DEF PlaceOf, Phase
  <2>4. place[t] = "waiting" /\ place' = [place EXCEPT ![t] = "running"]
    BY <1>t, <1>f, <2>1, <2>2 DEF PlaceOf, OneHolder
  <2>5. Pool!Cardinality({u \in Tasks : place[u] = "running"}) < MaxConcurrent
    <3>1. {u \in Tasks : place[u] = "running"} = {u \in Tasks : PlaceOf(u) = "running"}
      OBVIOUS
    <3>2. Cardinality({u \in Tasks : PlaceOf(u) = "running"}) < MaxConcurrent
      BY <2>2, RunningAreHeld
    <3> QED
      BY <3>1, <3>2 DEF Cardinality, Pool!Cardinality
  <2>6. \A u \in {v \in Tasks : place[v] = "waiting"} : prio[u] <= prio[t]
    BY <2>1, <2>3
  <2> QED
    BY <2>2, <2>4, <2>5, <2>6 DEF Pool!Next, Pool!Start, Pool!Move, Pool!At
<1>6. ASSUME NEW w \in Workers, Retry(w) \/ ProcessReturn(w) PROVE Pool!Next
  <2>1. /\ held[w] \in Tasks /\ held[w] \notin heap /\ phase[held[w]] = "submitted"
        /\ UNCHANGED <<prio, heap, ctxDone, shut>>
    BY <1>6, <1>t, <1>f
    DEF Retry, ProcessReturn, Goto, HeldWhileWorking, Holding, Running, OneHolder, queueVars
  <2>2. place[held[w]] = "running"
    BY <2>1 DEF PlaceOf
  <2>3. CASE ProcessReturn(w)
    <3>1. place' = [place EXCEPT ![held[w]] = "gone"]
      BY <1>f, <2>1, <2>3 DEF ProcessReturn, PlaceOf
    <3> QED
      BY <2>1, <2>2, <2>3, <3>1 DEF ProcessReturn, Pool!Next, Pool!End, Pool!Move
  <2>4. CASE Retry(w)
    <3>1. place' = [place EXCEPT ![held[w]] = "backoff"]
      BY <1>f, <2>1, <2>4 DEF Retry, PlaceOf
    <3> QED
      BY <2>1, <2>2, <2>4, <3>1 DEF Retry, MayRetry, Pool!Next, Pool!Fail, Pool!Move
  <2> QED
    BY <1>6, <2>3, <2>4
<1>11. ASSUME NEW t \in Tasks, CancelTask(t) PROVE Pool!Next
  <2>1. t \in Pool!Pending
    BY <1>11 DEF CancelTask, PlaceOf, Pool!Pending
  <2> QED
    BY <1>11, <2>1 DEF CancelTask, taskVars, queueVars, PlaceOf, Pool!Next, Pool!Recall
<1>7. ASSUME NEW w \in Workers, Worker(w) PROVE [Pool!Next]_(Pool!vars)
  <2>1. Worker(w) => \/ Dequeue(w) \/ Retry(w) \/ ProcessReturn(w)
                     \/ UNCHANGED <<phase, heap, prio, retries, ctxDone, shut>>
    BY DEF Worker, TakeSignal, WorkerStop, Acquire, CountUp, StartProcessing, EngineFails,
       Release, CountDown, taskVars, queueVars
  <2> QED
    BY <1>5, <1>6, <1>7, <1>s, <2>1
<1>8. CASE ShutdownCancel \/ ShutdownClose
  <2>1. Pool!Pending = {t \in Tasks : phase[t] \notin {"none", "gone"}}
    BY DEF Pool!Pending, PlaceOf
  <2> QED
    BY <1>8, <2>1
    DEF ShutdownCancel, ShutdownClose, taskVars, queueVars, PlaceOf, Pool!Next, Pool!Close
<1>9. CASE ShutdownWaitReturns
  BY <1>9 DEF ShutdownWaitReturns, taskVars, queueVars, PlaceOf, Pool!vars
<1>10. CASE PostSignal \/ Halted \/ UNCHANGED vars
  BY <1>s, <1>10 DEF PostSignal, Halted, vars, taskVars, queueVars
<1> QED
  BY <1>1, <1>2, <1>3, <1>4, <1>7, <1>8, <1>9, <1>10, <1>11 DEF Next, Producer, Shutdown

\* The queue, the channel, the workers and the retry goroutines implement the pool: no
\* task is in two places, lost, or given up while the process is open, the most urgent
\* one starts, and at most MaxConcurrent run, for any number of tasks and workers.
THEOREM PoolIsKept == Spec => KeepsPool
<1>1. Init => Pool!Init /\ Attended
  BY DEF Init, Attended, Pool!Init, PlaceOf
<1>2. IInv /\ Attended /\ [Next]_vars => Attended'
  BY NextAttended
<1>3. IInv /\ Attended /\ [Next]_vars => [Pool!Next]_(Pool!vars)
  BY StepIsPools
<1> QED
  BY <1>1, <1>2, <1>3, Invariance, PTL DEF Spec, KeepsPool, Pool!Spec
=============================================================================
