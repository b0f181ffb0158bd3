----------------------------- MODULE BatchProofs -----------------------------
(***************************************************************************)
(* Proofs about Batch, for any number of items and any capacity.           *)
(*                                                                         *)
(* Everything follows from three facts: the semaphore holds one token per  *)
(* running goroutine, the counters count the goroutines that are done, and *)
(* the loop's index separates the items that were started from the rest.   *)
(***************************************************************************)
EXTENDS Batch, FiniteSetTheorems, TLAPS

\* The items that have been counted.
Counted == InStage({"leaving", "gone"})

\* TypeOK with the counters unbounded; the bounds follow from Accounts.
TypeBase ==
  /\ zipAll \in BOOLEAN
  /\ status \in Status /\ ctxDone \in BOOLEAN /\ cancelling \in BOOLEAN
  /\ runner \in Runner /\ next \in 1..(N + 1)
  /\ sem \in Nat /\ sem <= MaxParallel
  /\ stage \in [Items -> Stage]
  /\ sub \in [Items -> SubStatus]
  /\ completed \in Nat /\ failed \in Nat
  /\ dir \in {"none", "made", "removed"}

\* The semaphore and the counters account for the goroutines.
Accounts ==
  /\ sem = Cardinality(Running)
  /\ completed + failed = Cardinality(Counted)

\* Exactly the items before the loop's index have been started.
Started ==
  /\ \A k \in Items : stage[k] = "idle" <=> k >= next
  /\ runner = "acquire" => next <= N

\* What the runner knows once it has joined the goroutines, and what its verdict
\* and the missing directory say about how far it has got.
AfterJoin ==
  /\ runner \in {"zip", "upload", "finish", "announce"} =>
       next = N + 1 /\ Running = {}
  /\ status = "completed" =>
       runner \in {"announce", "returned"} /\ next = N + 1 /\ Running = {}
  /\ status = "failed" => runner = "returned"
  /\ dir = "removed" => runner = "returned" /\ Running = {}

IInv == TypeBase /\ Accounts /\ Started /\ AfterJoin

-----------------------------------------------------------------------------
\* A set of items is finite and no larger than the batch.
LEMMA ItemSets ==
  ASSUME NEW S \in SUBSET Items
  PROVE  IsFiniteSet(S) /\ Cardinality(S) \in 0..N
<1>1. IsFiniteSet(Items) /\ Cardinality(Items) = N
  BY BatchAssumption, FS_Interval DEF Items
<1>2. IsFiniteSet(S) /\ Cardinality(S) <= N
  BY <1>1, FS_Subset
<1>3. Cardinality(S) \in Nat
  BY <1>2, FS_CardinalityType
<1> QED
  BY <1>2, <1>3, BatchAssumption

\* The initial state satisfies the invariant.
LEMMA InitEstablishesIInv == Init => IInv
<1> SUFFICES ASSUME Init PROVE IInv
  OBVIOUS
<1>1. TypeBase
  <2>1. ctxDone \in BOOLEAN /\ cancelling \in BOOLEAN
    BY Zenon DEF Init
  <2>2. next \in 1..(N + 1)
    BY BatchAssumption DEF Init
  <2> QED
    BY <2>1, <2>2, BatchAssumption
    DEF Init, TypeBase, Status, Terminal, Runner, Stage, SubStatus
<1>2. Running = {} /\ Counted = {}
  BY DEF Init, Running, Counted, InStage
<1>3. Accounts
  BY <1>2, FS_EmptySet DEF Init, Accounts
<1>4. Started /\ AfterJoin
  BY <1>2 DEF Init, Started, AfterJoin, Items
<1> QED
  BY <1>1, <1>3, <1>4 DEF IInv

-----------------------------------------------------------------------------
\* A step of the runner other than Spawn leaves the goroutines alone.
LEMMA RunnerPreservesIInv ==
  ASSUME IInv, RunnerStep, ~Spawn
  PROVE  IInv'
<1> USE BatchAssumption DEF IInv, TypeBase, Accounts, Started, AfterJoin, Running,
      Counted, InStage, Status, Terminal, Runner, SetStatus, batchVars, itemVars, Items
<1>1. CASE StartFails
  BY <1>1 DEF StartFails
<1>2. CASE Start
  BY <1>2 DEF Start
<1>3. CASE LoopCancelled
  BY <1>3 DEF LoopCancelled
<1>4. CASE LoopNext
  BY <1>4 DEF LoopNext
<1>5. CASE JoinedCancelled
  BY <1>5 DEF JoinedCancelled, Joined
<1>6. CASE JoinedZip
  BY <1>6 DEF JoinedZip, Joined
<1>7. CASE JoinedFinish
  BY <1>7 DEF JoinedFinish, Joined
<1>8. CASE Zipped
  BY <1>8 DEF Zipped
<1>9. CASE Uploaded
  BY <1>9 DEF Uploaded
<1>10. CASE PackFails
  BY <1>10 DEF PackFails
<1>11. CASE Finish
  BY <1>11 DEF Finish
<1>12. CASE Announce
  BY <1>12 DEF Announce
<1> QED
  BY <1>1, <1>2, <1>3, <1>4, <1>5, <1>6, <1>7, <1>8, <1>9, <1>10, <1>11, <1>12
  DEF RunnerStep

\* Spawn adds the goroutine of item next to the running ones.
LEMMA SpawnPreservesIInv ==
  ASSUME IInv, Spawn
  PROVE  IInv'
<1> USE BatchAssumption DEF IInv
<1>1. next \in Items /\ stage[next] = "idle"
  BY DEF Spawn, Started, TypeBase, Items, Goto
<1>2. stage' = [stage EXCEPT ![next] = "spawned"]
  BY DEF Spawn, Goto
<1>3. Running' = Running \cup {next} /\ next \notin Running /\ Counted' = Counted
  BY <1>1, <1>2 DEF TypeBase, Running, Counted, InStage
<1>4. TypeBase'
  BY <1>1, <1>2 DEF Spawn, TypeBase, Stage, Runner, Items, batchVars
<1>5. Accounts'
  <2>1. IsFiniteSet(Running)
    BY ItemSets DEF Running, InStage
  <2>2. Cardinality(Running') = Cardinality(Running) + 1
    BY <1>3, <2>1, FS_AddElement
  <2> QED
    BY <1>3, <2>2 DEF Accounts, Spawn
<1>6. Started'
  BY <1>1, <1>2 DEF Spawn, Started, TypeBase, Items
<1>7. AfterJoin'
  BY <1>1 DEF Spawn, AfterJoin, TypeBase, Items, batchVars
<1> QED
  BY <1>4, <1>5, <1>6, <1>7

\* A step of an item's goroutine moves that item alone, which was running.
LEMMA ItemPreservesIInv ==
  ASSUME IInv, NEW k \in Items, ItemStep(k)
  PROVE  IInv'
<1> USE DEF IInv
<1>1. k \in Running
  BY DEF ItemStep, ItemBegins, ItemDownloaded, ItemUploads, ItemFails, ItemCompletes,
         ItemLeaves, Goto, Running, InStage
<1>2. PICK t \in Stage \ {"idle"} : stage' = [stage EXCEPT ![k] = t]
  BY DEF ItemStep, ItemBegins, ItemDownloaded, ItemUploads, ItemFails, ItemCompletes,
         ItemLeaves, Goto, Stage
<1>3. TypeBase' /\ Accounts'
  <2> USE DEF TypeBase, batchVars, runnerVars
  <2>1. IsFiniteSet(Running) /\ IsFiniteSet(Counted)
    BY ItemSets DEF Running, Counted, InStage
  <2>2. sub' \in [Items -> SubStatus]
    BY DEF ItemStep, ItemBegins, ItemDownloaded, ItemUploads, ItemFails, ItemCompletes,
           ItemLeaves, SubSet, SubStatus, Terminal
  <2>3. stage' \in [Items -> Stage]
    BY <1>2
  <2>4. CASE ItemBegins(k) \/ ItemDownloaded(k) \/ ItemUploads(k)
    <3>1. Running' = Running /\ Counted' = Counted
      BY <2>4 DEF ItemBegins, ItemDownloaded, ItemUploads, Goto, Running, Counted, InStage
    <3> QED
      BY <2>2, <2>3, <2>4, <3>1 DEF ItemBegins, ItemDownloaded, ItemUploads, Accounts
  <2>5. CASE ItemFails(k) \/ ItemCompletes(k)
    <3>1. stage[k] \in {"download", "downloaded", "upload"}
          /\ stage' = [stage EXCEPT ![k] = "leaving"]
      BY <2>5 DEF ItemFails, ItemCompletes
    <3>2. Running' = Running /\ Counted' = Counted \cup {k} /\ k \notin Counted
      BY <3>1 DEF Running, Counted, InStage
    <3>3. Cardinality(Counted') = Cardinality(Counted) + 1
      BY <2>1, <3>2, FS_AddElement
    <3>4. /\ completed' \in Nat /\ failed' \in Nat
          /\ completed' + failed' = completed + failed + 1
      BY <2>5 DEF ItemFails, ItemCompletes
    <3> QED
      BY <2>2, <2>3, <2>5, <3>2, <3>3, <3>4 DEF ItemFails, ItemCompletes, Accounts
  <2>6. CASE ItemLeaves(k)
    <3>1. Running' = Running \ {k} /\ Counted' = Counted
      BY <2>6 DEF ItemLeaves, Goto, Running, Counted, InStage
    <3>2. Cardinality(Running') = Cardinality(Running) - 1 /\ Cardinality(Running') \in Nat
      BY <1>1, <2>1, <3>1, FS_RemoveElement, FS_CardinalityType
    <3>3. sem' = sem - 1 /\ sem' \in Nat /\ sem' <= MaxParallel
      BY <2>6, <3>2, BatchAssumption DEF ItemLeaves, Accounts
    <3> QED
      BY <2>2, <2>3, <2>6, <3>1, <3>2, <3>3 DEF ItemLeaves, Accounts
  <2> QED
    BY <2>4, <2>5, <2>6 DEF ItemStep
<1>4. UNCHANGED <<status, runnerVars>>
  BY DEF ItemStep, ItemBegins, ItemDownloaded, ItemUploads, ItemFails, ItemCompletes,
         ItemLeaves, batchVars, runnerVars
<1>5. Started'
  BY <1>1, <1>2, <1>4 DEF Started, Running, InStage, runnerVars, TypeBase
<1>6. AfterJoin'
  BY <1>1, <1>4 DEF AfterJoin, runnerVars
<1> QED
  BY <1>3, <1>5, <1>6

\* The invariant is inductive.
LEMMA NextPreservesIInv == IInv /\ [Next]_vars => IInv'
<1> SUFFICES ASSUME IInv, [Next]_vars PROVE IInv'
  OBVIOUS
<1>1. CASE RunnerStep
  BY <1>1, RunnerPreservesIInv, SpawnPreservesIInv
<1>2. ASSUME NEW k \in Items, ItemStep(k) PROVE IInv'
  BY <1>2, ItemPreservesIInv
<1> USE DEF IInv, TypeBase, Accounts, Started, AfterJoin, Running, Counted, InStage
<1>3. ASSUME NEW k \in Items, CancelSubTask(k) PROVE IInv'
  BY <1>3 DEF CancelSubTask, batchVars, runnerVars, SubStatus, Terminal
<1>4. CASE Cancel
  BY <1>4 DEF Cancel, runnerVars, itemVars
<1>5. CASE CancelMark
  BY <1>5 DEF CancelMark, runnerVars, itemVars, Status, Terminal
<1>6. CASE UNCHANGED vars
  BY <1>6 DEF vars, batchVars, runnerVars, itemVars
<1> QED
  BY <1>1, <1>2, <1>3, <1>4, <1>5, <1>6 DEF Next

\* The invariant holds throughout.
THEOREM IInvHolds == Spec => []IInv
<1> QED
  BY InitEstablishesIInv, NextPreservesIInv, PTL DEF Spec

-----------------------------------------------------------------------------
\* Type correctness: never more than MaxParallel items at once, and never more
\* items counted than there are.
THEOREM TypeCorrect == Spec => []TypeOK
<1>1. IInv => TypeOK
  <2>1. Cardinality(Counted) \in 0..N
    BY ItemSets DEF Counted, InStage
  <2> QED
    BY <2>1, BatchAssumption DEF IInv, TypeBase, Accounts, TypeOK
<1> QED
  BY <1>1, IInvHolds, PTL

\* cleanupBatch never runs under a goroutine that still works on the files.
THEOREM FilesOutliveWork == Spec => []NoCleanupUnderWork
<1>1. IInv => NoCleanupUnderWork
  BY DEF IInv, AfterJoin, NoCleanupUnderWork
<1> QED
  BY <1>1, IInvHolds, PTL

\* A batch that says completed has run and counted every one of its items.
THEOREM CompletedIsComplete == Spec => []CompletedMeansAllIn
<1>1. IInv => CompletedMeansAllIn
  <2> SUFFICES ASSUME IInv, status = "completed"
               PROVE  InStage({"gone"}) = Items /\ completed + failed = N
    BY DEF CompletedMeansAllIn
  <2>1. next = N + 1 /\ Running = {}
    BY DEF IInv, AfterJoin
  <2>2. \A k \in Items : stage[k] = "gone"
    BY <2>1, BatchAssumption DEF IInv, TypeBase, Started, Running, InStage, Stage, Items
  <2>3. InStage({"gone"}) = Items /\ Counted = Items
    BY <2>2 DEF InStage, Counted
  <2>4. Cardinality(Items) = N
    BY BatchAssumption, FS_Interval DEF Items
  <2> QED
    BY <2>3, <2>4 DEF IInv, Accounts
<1> QED
  BY <1>1, IInvHolds, PTL

\* "Idempotent: late completions cannot overwrite the cancellation" (688-690), and
\* a late cancel cannot overwrite a completion: an outcome is final.
OutcomeIsFinal == [][(status \in Terminal) => UNCHANGED status]_vars

THEOREM OutcomeStays == Spec => OutcomeIsFinal
<1>1. IInv /\ [Next]_vars => [(status \in Terminal) => UNCHANGED status]_vars
  <2> SUFFICES ASSUME IInv, Next, status \in Terminal
               PROVE  UNCHANGED status
    OBVIOUS
  <2>1. CASE RunnerStep
    BY <2>1 DEF IInv, AfterJoin, Terminal, SetStatus, RunnerStep, StartFails, Start,
      LoopCancelled, LoopNext, Spawn, JoinedCancelled, JoinedZip, JoinedFinish, Joined,
      Zipped, Uploaded, PackFails, Finish, Announce, batchVars
  <2>2. ASSUME NEW k \in Items, ItemStep(k) \/ CancelSubTask(k) PROVE UNCHANGED status
    BY <2>2 DEF ItemStep, ItemBegins, ItemDownloaded, ItemUploads, ItemFails,
      ItemCompletes, ItemLeaves, CancelSubTask, batchVars
  <2>3. CASE Cancel \/ CancelMark
    BY <2>3 DEF Cancel, CancelMark
  <2> QED
    BY <2>1, <2>2, <2>3 DEF Next
<1> QED
  BY <1>1, IInvHolds, PTL DEF Spec, OutcomeIsFinal
-----------------------------------------------------------------------------
\* The items whose task has status s.
WithStatus(s) == {k \in Items : sub[k] = s}

\* No counter lags behind the tasks that say so, and what was counted is decided:
\* whatever a counter has too many is then among the items that were cancelled.
Tallied ==
  /\ completed >= Count("completed") /\ failed >= Count("failed")
  /\ \A k \in Counted : sub[k] \in Terminal

\* The cardinality of a disjoint union.
LEMMA DisjointSum ==
  ASSUME NEW S, NEW T, IsFiniteSet(S), IsFiniteSet(T), S \cap T = {}
  PROVE  IsFiniteSet(S \cup T) /\ Cardinality(S \cup T) = Cardinality(S) + Cardinality(T)
<1>1. /\ IsFiniteSet(S \cup T)
      /\ Cardinality(S \cup T) = Cardinality(S) + Cardinality(T) - Cardinality(S \cap T)
  BY FS_Union
<1>2. Cardinality(S \cap T) = 0
  BY FS_EmptySet
<1>3. Cardinality(S) \in Nat /\ Cardinality(T) \in Nat
  BY FS_CardinalityType
<1> QED
  BY <1>1, <1>2, <1>3

\* If no task comes to status s, there are no more of them than before; if one does,
\* there is at most one more.
LEMMA CountGrows ==
  ASSUME NEW s, NEW k \in Items, WithStatus(s)' \subseteq WithStatus(s) \cup {k}
  PROVE  /\ Count(s) \in Nat /\ Count(s)' \in Nat /\ Count(s)' <= Count(s) + 1
         /\ (k \notin WithStatus(s)' \/ k \in WithStatus(s)) => Count(s)' <= Count(s)
<1>1. /\ IsFiniteSet(WithStatus(s)) /\ IsFiniteSet(WithStatus(s)')
      /\ Count(s) = Cardinality(WithStatus(s)) /\ Count(s)' = Cardinality(WithStatus(s)')
      /\ Count(s) \in Nat /\ Count(s)' \in Nat
  <2>1. WithStatus(s) \in SUBSET Items /\ WithStatus(s)' \in SUBSET Items
    BY DEF WithStatus
  <2>2. Count(s) = Cardinality(WithStatus(s)) /\ Count(s)' = Cardinality(WithStatus(s)')
    BY DEF WithStatus, Count
  <2> QED
    BY <2>1, <2>2, ItemSets, FS_CardinalityType
<1>2. CASE k \notin WithStatus(s)' \/ k \in WithStatus(s)
  <2>1. WithStatus(s)' \subseteq WithStatus(s)
    BY <1>2
  <2>2. Cardinality(WithStatus(s)') <= Cardinality(WithStatus(s))
    BY <1>1, <2>1, FS_Subset
  <2> QED
    BY <1>1, <2>2
<1>3. CASE ~(k \notin WithStatus(s)' \/ k \in WithStatus(s))
  <2>1. k \notin WithStatus(s)
    BY <1>3
  <2>2. /\ IsFiniteSet(WithStatus(s) \cup {k})
        /\ Cardinality(WithStatus(s) \cup {k}) = Cardinality(WithStatus(s)) + 1
    BY <1>1, <2>1, FS_AddElement
  <2>3. Cardinality(WithStatus(s)') <= Cardinality(WithStatus(s) \cup {k})
    BY <2>2, FS_Subset
  <2> QED
    BY <1>1, <1>3, <2>2, <2>3
<1> QED
  BY <1>2, <1>3

\* At most one task's status changes in a step, and no task of its own accord from
\* a status that is final.
LEMMA TallyPreserved ==
  ASSUME IInv, Tallied, [Next]_vars
  PROVE  Tallied'
<1> USE DEF IInv, TypeBase, Terminal, SubStatus
<1>1. ASSUME NEW k \in Items, ItemStep(k) PROVE Tallied'
  <2> USE <1>1
  <2>1. PICK s \in SubStatus : sub' = [sub EXCEPT ![k] = s]
    BY DEF ItemStep, ItemBegins, ItemDownloaded, ItemUploads, ItemFails, ItemCompletes,
           ItemLeaves, SubSet
  <2>2. \A t \in SubStatus : WithStatus(t)' \subseteq WithStatus(t) \cup {k}
    BY <2>1 DEF WithStatus
  <2>3. \A t \in {"completed", "failed"} :
          /\ Count(t) \in Nat /\ Count(t)' \in Nat /\ Count(t)' <= Count(t) + 1
          /\ (k \notin WithStatus(t)' \/ k \in WithStatus(t)) => Count(t)' <= Count(t)
    BY <2>2, CountGrows
  <2>4. CASE ItemBegins(k) \/ ItemDownloaded(k) \/ ItemUploads(k)
    <3>1. \A t \in {"completed", "failed"} : k \notin WithStatus(t)' \/ k \in WithStatus(t)
      BY <2>4 DEF ItemBegins, ItemDownloaded, ItemUploads, SubSet, WithStatus
    <3>2. Counted' = Counted /\ k \notin Counted
      BY <2>4 DEF ItemBegins, ItemDownloaded, ItemUploads, Goto, Counted, InStage
    <3> QED
      BY <2>1, <2>3, <2>4, <3>1, <3>2
      DEF Tallied, ItemBegins, ItemDownloaded, ItemUploads, Counted, InStage
  <2>5. CASE ItemFails(k)
    <3>1. k \notin WithStatus("completed")' \/ k \in WithStatus("completed")
      BY <2>5 DEF ItemFails, SubSet, WithStatus
    <3>2. /\ Counted' = Counted \cup {k} /\ sub'[k] \in Terminal
          /\ completed' = completed /\ failed' = failed + 1
      BY <2>5 DEF ItemFails, SubSet, Counted, InStage
    <3>3. \A j \in Counted' : sub'[j] \in Terminal
      BY <2>1, <3>2 DEF Tallied, Counted, InStage
    <3> QED
      BY <2>3, <3>1, <3>2, <3>3 DEF Tallied
  <2>6. CASE ItemCompletes(k)
    <3>1. k \notin WithStatus("failed")' \/ k \in WithStatus("failed")
      BY <2>6 DEF ItemCompletes, SubSet, WithStatus
    <3>2. /\ Counted' = Counted \cup {k} /\ sub'[k] \in Terminal
          /\ completed' = completed + 1 /\ failed' = failed
      BY <2>6 DEF ItemCompletes, SubSet, Counted, InStage
    <3>3. \A j \in Counted' : sub'[j] \in Terminal
      BY <2>1, <3>2 DEF Tallied, Counted, InStage
    <3> QED
      BY <2>3, <3>1, <3>2, <3>3 DEF Tallied
  <2>7. CASE ItemLeaves(k)
    BY <2>7 DEF ItemLeaves, Goto, Tallied, Counted, InStage, Count
  <2> QED
    BY <2>4, <2>5, <2>6, <2>7 DEF ItemStep
<1>2. ASSUME NEW k \in Items, CancelSubTask(k) PROVE Tallied'
  <2>1. /\ sub' = [sub EXCEPT ![k] = "cancelled"] /\ Counted' = Counted
        /\ completed' = completed /\ failed' = failed
    BY <1>2 DEF CancelSubTask, Counted, InStage
  <2>2. \A t \in {"completed", "failed"} :
          WithStatus(t)' \subseteq WithStatus(t) \cup {k} /\ k \notin WithStatus(t)'
    BY <2>1 DEF WithStatus
  <2>3. \A t \in {"completed", "failed"} :
          Count(t) \in Nat /\ Count(t)' \in Nat /\ Count(t)' <= Count(t)
    BY <2>2, CountGrows
  <2> QED
    BY <2>1, <2>3 DEF Tallied, Counted, InStage
<1>3. CASE UNCHANGED <<stage, sub, completed, failed>>
  BY <1>3 DEF Tallied, Counted, InStage, Count
<1>4. CASE Spawn
  <2>1. Counted' = Counted /\ UNCHANGED <<sub, completed, failed>>
    BY <1>4 DEF Spawn, Goto, Started, Items, Counted, InStage
  <2> QED
    BY <2>1 DEF Tallied, Count
<1>5. CASE RunnerStep /\ ~Spawn
  BY <1>3, <1>5 DEF RunnerStep, StartFails, Start, LoopCancelled, LoopNext, JoinedCancelled,
    JoinedZip, JoinedFinish, Zipped, Uploaded, PackFails, Finish, Announce, itemVars
<1>6. CASE Cancel \/ CancelMark
  BY <1>3, <1>6 DEF Cancel, CancelMark, itemVars
<1> QED
  BY <1>1, <1>2, <1>3, <1>4, <1>5, <1>6 DEF Next, vars, itemVars

\* The counters and the items tell the same story, whatever was cancelled when.
THEOREM CountersAgree == Spec => []CountersMatch
<1>1. Init => Tallied
  <2> SUFFICES ASSUME Init PROVE Tallied
    OBVIOUS
  <2>1. WithStatus("completed") = {} /\ WithStatus("failed") = {} /\ Counted = {}
    BY DEF Init, WithStatus, Counted, InStage
  <2>2. Count("completed") = 0 /\ Count("failed") = 0
    BY <2>1, FS_EmptySet DEF WithStatus, Count
  <2> QED
    BY <2>1, <2>2 DEF Init, Tallied
<1>2. IInv /\ Tallied => CountersMatch
  <2> SUFFICES ASSUME IInv, Tallied PROVE CountersMatch
    OBVIOUS
  <2> DEFINE C == WithStatus("completed")
             F == WithStatus("failed")
             X == WithStatus("cancelled")
  <2>1. /\ IsFiniteSet(C) /\ IsFiniteSet(F) /\ IsFiniteSet(X)
        /\ Cardinality(C) \in Nat /\ Cardinality(F) \in Nat /\ Cardinality(X) \in Nat
    <3>1. C \in SUBSET Items /\ F \in SUBSET Items /\ X \in SUBSET Items
      BY DEF WithStatus
    <3> QED
      BY <3>1, ItemSets
  <2>2. IsFiniteSet(C \cup F) /\ Cardinality(C \cup F) = Cardinality(C) + Cardinality(F)
    <3>1. C \cap F = {}
      BY DEF WithStatus
    <3> QED
      BY <2>1, <3>1, DisjointSum
  <2>3. /\ IsFiniteSet((C \cup F) \cup X)
        /\ Cardinality((C \cup F) \cup X) = Cardinality(C) + Cardinality(F) + Cardinality(X)
    <3>1. (C \cup F) \cap X = {}
      BY DEF WithStatus
    <3> QED
      BY <2>1, <2>2, <3>1, DisjointSum
  <2>4. Counted \subseteq (C \cup F) \cup X
    BY DEF Tallied, Terminal, WithStatus, Counted, InStage
  <2>5. Cardinality(Counted) <= Cardinality((C \cup F) \cup X)
    BY <2>3, <2>4, FS_Subset
  <2>6. /\ Count("completed") = Cardinality(C) /\ Count("failed") = Cardinality(F)
        /\ Count("cancelled") = Cardinality(X)
    BY DEF Count, WithStatus
  <2>7. /\ completed \in Nat /\ failed \in Nat /\ completed + failed = Cardinality(Counted)
        /\ completed >= Cardinality(C) /\ failed >= Cardinality(F)
    BY <2>6 DEF IInv, TypeBase, Accounts, Tallied
  <2>8. /\ completed + failed <= Cardinality(C) + Cardinality(F) + Cardinality(X)
        /\ completed + failed = Cardinality(InStage({"leaving", "gone"}))
    BY <2>3, <2>5, <2>7 DEF Counted
  <2> HIDE DEF C, F, X
  <2> QED
    BY <2>1, <2>6, <2>7, <2>8 DEF CountersMatch
<1> QED
  BY <1>1, <1>2, TallyPreserved, IInvHolds, PTL DEF Spec

-----------------------------------------------------------------------------
(***************************************************************************)
(* Batch implements BatchContract, for any number of items and any         *)
(* capacity.                                                               *)
(*                                                                         *)
(* The counters give the contract's guards: an item in a stage before      *)
(* "leaving" is started and not counted, so fewer are counted than begun;  *)
(* every item that is begun runs or is counted, so the semaphore bounds    *)
(* the difference; and once wg.Wait has returned all are counted.          *)
(***************************************************************************)

\* A batch is marked cancelled only after its context; the directory is there from the
\* start of the loop; and what lies ahead of the runner is what it has found.
Standing ==
  /\ status = "cancelled" \/ cancelling => ctxDone
  /\ runner = "start" => dir = "none" /\ next = 1 /\ status \in {"queued", "cancelled"}
  /\ runner \in {"loop", "acquire", "zip", "upload", "finish", "announce"} => dir = "made"
  /\ runner \in {"zip", "upload"} => completed > 0
  /\ runner = "announce" => status \in {"completed", "cancelled"}

LEMMA InitStanding == Init => Standing
  BY DEF Init, Standing

LEMMA NextStanding ==
  ASSUME IInv, Standing, [Next]_vars
  PROVE  Standing'
<1> USE DEF Standing
<1>1. CASE RunnerStep
  BY <1>1 DEF RunnerStep, StartFails, Start, LoopCancelled, LoopNext, Spawn, JoinedCancelled,
    JoinedZip, JoinedFinish, Joined, Zipped, Uploaded, PackFails, Finish, Announce,
    SetStatus, batchVars, itemVars, IInv, TypeBase, Status, Terminal
<1>2. ASSUME NEW k \in Items, ItemStep(k) \/ CancelSubTask(k) PROVE Standing'
  <2>1. /\ UNCHANGED <<status, cancelling, ctxDone, runner, next, dir>>
        /\ completed' \in {completed, completed + 1}
    BY <1>2 DEF ItemStep, ItemBegins, ItemDownloaded, ItemUploads, ItemFails,
      ItemCompletes, ItemLeaves, CancelSubTask, batchVars, runnerVars
  <2> QED
    BY <2>1 DEF IInv, TypeBase
<1>3. CASE Cancel
  BY <1>3 DEF Cancel, runnerVars, itemVars
<1>4. CASE CancelMark
  BY <1>4 DEF CancelMark, runnerVars, itemVars, Terminal
<1>5. CASE UNCHANGED vars
  BY <1>5 DEF vars, batchVars, runnerVars, itemVars
<1> QED
  BY <1>1, <1>2, <1>3, <1>4, <1>5 DEF Next

\* Once wg.Wait has returned, every item is counted.
LEMMA AllCounted ==
  ASSUME IInv, next = N + 1, Running = {}
  PROVE  completed + failed = N
<1>1. \A k \in Items : stage[k] \in {"leaving", "gone"}
  BY BatchAssumption DEF IInv, TypeBase, Started, Running, InStage, Stage, Items
<1>2. Counted = Items
  BY <1>1 DEF Counted, InStage
<1>3. Cardinality(Items) = N
  BY BatchAssumption, FS_Interval DEF Items
<1> QED
  BY <1>2, <1>3 DEF IInv, Accounts

\* The items below the loop's index.
LEMMA BegunItems ==
  ASSUME IInv
  PROVE  /\ 1..(next - 1) \subseteq Items /\ next - 1 \in 0..N
         /\ IsFiniteSet(1..(next - 1)) /\ Cardinality(1..(next - 1)) = next - 1
         /\ Running \cup Counted = 1..(next - 1)
<1>1. next \in 1..(N + 1)
  BY DEF IInv, TypeBase
<1>2. next - 1 \in 0..N /\ 1..(next - 1) \subseteq Items
  BY <1>1, BatchAssumption DEF Items
<1>3. IsFiniteSet(1..(next - 1)) /\ Cardinality(1..(next - 1)) = next - 1
  BY <1>2, BatchAssumption, FS_Interval
<1>4. ASSUME NEW k \in Items
      PROVE  k \in Running \cup Counted <=> k < next
  BY <1>1, <1>4, BatchAssumption
  DEF IInv, TypeBase, Started, Running, Counted, InStage, Stage, Items
<1>5. Running \cup Counted \subseteq Items
  BY DEF Running, Counted, InStage
<1>6. \A k \in Items : k \in 1..(next - 1) <=> k < next
  BY <1>1, BatchAssumption DEF Items
<1>7. Running \cup Counted = 1..(next - 1)
  BY <1>2, <1>4, <1>5, <1>6
<1> QED
  BY <1>2, <1>3, <1>7

\* An item that is begun and not counted makes the count smaller than the number begun.
LEMMA CountLagsBehind ==
  ASSUME IInv, NEW k \in Items, k \in Running, k \notin Counted
  PROVE  completed + failed < next - 1
<1>1. IsFiniteSet(Counted) /\ Cardinality(Counted) \in Nat
  BY ItemSets DEF Counted, InStage
<1>2. IsFiniteSet(Counted \cup {k}) /\ Cardinality(Counted \cup {k}) = Cardinality(Counted) + 1
  BY <1>1, FS_AddElement
<1>3. Counted \cup {k} \subseteq 1..(next - 1)
  BY BegunItems
<1>4. Cardinality(Counted \cup {k}) <= next - 1
  BY <1>3, BegunItems, FS_Subset
<1> QED
  BY <1>1, <1>2, <1>4, BegunItems DEF IInv, Accounts

\* What is begun and not counted holds a token of the semaphore.
LEMMA TokensBound ==
  ASSUME IInv
  PROVE  next - 1 - (completed + failed) <= sem
<1>1. /\ IsFiniteSet(Running) /\ Cardinality(Running) \in Nat
      /\ IsFiniteSet(Counted) /\ Cardinality(Counted) \in Nat
  BY ItemSets DEF Running, Counted, InStage
<1>2. /\ IsFiniteSet(Running \cap Counted)
      /\ Cardinality(Running \cup Counted)
           = Cardinality(Running) + Cardinality(Counted) - Cardinality(Running \cap Counted)
  BY <1>1, FS_Union, FS_Intersection
<1>3. Cardinality(Running \cap Counted) \in Nat
  BY <1>2, FS_CardinalityType
<1>4. Cardinality(Running \cup Counted) = next - 1
  BY BegunItems
<1> QED
  BY <1>1, <1>2, <1>3, <1>4, BegunItems DEF IInv, Accounts

\* A step of the loop is a choice, a beginning, a verdict, a clean-up or none of them.
LEMMA RunnerKeepsContract ==
  ASSUME IInv, Standing, RunnerStep
  PROVE  [Contract!Next]_Contract!vars
<1>0. /\ status \in Status /\ next \in Int /\ N \in Int /\ N >= 1 /\ completed \in Nat /\ failed \in Nat
      /\ Standing /\ AfterJoin
      /\ runner = "acquire" => next <= N
  BY BatchAssumption DEF IInv, TypeBase, Started
<1>a. next = N + 1 /\ Running = {} => completed + failed = N
  BY AllCounted
<1>j. Joined => next = N + 1
  BY <1>0, BatchAssumption DEF Joined, IInv, TypeBase
<1> USE DEF Standing, Verdict, Terminal, SetStatus, itemVars, batchVars, Contract!vars,
        Contract!itemVars, Contract!Next
<1>1. CASE StartFails
  <2>1. Contract!End \/ UNCHANGED Contract!vars
    BY <1>0, <1>1 DEF StartFails, Contract!End, Contract!Judge, Contract!Deserved, AfterJoin
  <2> QED
    BY <2>1
<1>2. CASE Start
  <2>1. Contract!Make
    BY <1>0, <1>2 DEF Start, Contract!Make, AfterJoin
  <2> QED
    BY <2>1
<1>3. CASE LoopCancelled
  <2>1. Contract!End \/ UNCHANGED Contract!vars
    BY <1>0, <1>3 DEF LoopCancelled, Contract!End, Contract!Judge, Contract!Deserved, AfterJoin
  <2> QED
    BY <2>1
<1>4. CASE LoopNext
  <2>1. Contract!Choose
    BY <1>0, <1>4 DEF LoopNext, Contract!Choose, AfterJoin, Status
  <2> QED
    BY <2>1
<1>5. CASE Spawn
  <2>1. next - 1 - (completed + failed) < MaxParallel
    BY <1>0, <1>5, TokensBound, BatchAssumption DEF Spawn, IInv, TypeBase
  <2>2. Contract!Begin
    BY <1>0, <1>5, <2>1 DEF Spawn, Contract!Begin, Contract!Counted
  <2> QED
    BY <2>2
<1>6. CASE JoinedCancelled
  <2>1. Contract!Tidy
    BY <1>0, <1>6, <1>a, <1>j
    DEF JoinedCancelled, Joined, Contract!Tidy, Contract!Judge, Contract!Deserved,
        Contract!Counted, AfterJoin
  <2> QED
    BY <2>1
<1>7. CASE JoinedZip \/ JoinedFinish \/ Zipped \/ Uploaded
  <2>1. UNCHANGED Contract!vars
    BY <1>0, <1>7 DEF JoinedZip, JoinedFinish, Zipped, Uploaded, Joined, AfterJoin
  <2> QED
    BY <2>1
<1>8. CASE PackFails
  <2>1. Contract!Tidy
    BY <1>0, <1>8, <1>a
    DEF PackFails, Contract!Tidy, Contract!Judge, Contract!Deserved, Contract!AllIn,
        Contract!Counted, AfterJoin
  <2> QED
    BY <2>1
<1>9. CASE Finish
  <2>1. Contract!End \/ UNCHANGED Contract!vars
    BY <1>0, <1>9, <1>a
    DEF Finish, Contract!End, Contract!Judge, Contract!Deserved, Contract!AllIn,
        Contract!Counted, AfterJoin
  <2> QED
    BY <2>1
<1>10. CASE Announce
  <2>1. Contract!Tidy
    BY <1>0, <1>10, <1>a
    DEF Announce, Contract!Tidy, Contract!Counted, AfterJoin
  <2> QED
    BY <2>1
<1> QED
  BY <1>1, <1>2, <1>3, <1>4, <1>5, <1>6, <1>7, <1>8, <1>9, <1>10 DEF RunnerStep

\* An item's goroutine shows in its result alone.
LEMMA ItemKeepsContract ==
  ASSUME IInv, NEW k \in Items, ItemStep(k)
  PROVE  [Contract!Next]_Contract!vars
<1> USE DEF batchVars, runnerVars, Verdict, Contract!vars, Contract!itemVars
<1>1. CASE ItemBegins(k) \/ ItemDownloaded(k) \/ ItemUploads(k) \/ ItemLeaves(k)
  BY <1>1 DEF ItemBegins, ItemDownloaded, ItemUploads, ItemLeaves
<1>2. CASE ItemFails(k) \/ ItemCompletes(k)
  <2>1. k \in Running /\ k \notin Counted
    BY <1>2 DEF ItemFails, ItemCompletes, Running, Counted, InStage
  <2>2. completed + failed < next - 1
    BY <2>1, CountLagsBehind
  <2>3. Contract!Count
    BY <1>2, <2>2 DEF ItemFails, ItemCompletes, Contract!Count, Contract!Counted
  <2> QED
    BY <2>3 DEF Contract!Next
<1> QED
  BY <1>1, <1>2 DEF ItemStep

\* Every step of the batch is one of its contract, or none.
LEMMA StepKeepsContract ==
  ASSUME IInv, Standing, [Next]_vars
  PROVE  [Contract!Next]_Contract!vars
<1> USE DEF runnerVars, itemVars, Verdict, Terminal, Contract!vars, Contract!itemVars
<1>1. CASE RunnerStep
  BY <1>1, RunnerKeepsContract
<1>2. ASSUME NEW k \in Items, ItemStep(k) PROVE [Contract!Next]_Contract!vars
  BY <1>2, ItemKeepsContract
<1>3. ASSUME NEW k \in Items, CancelSubTask(k) PROVE UNCHANGED Contract!vars
  BY <1>3 DEF CancelSubTask, batchVars
<1>4. CASE Cancel
  <2>1. Contract!Ask
    BY <1>4 DEF Cancel, Contract!Ask
  <2> QED
    BY <2>1 DEF Contract!Next
<1>5. CASE CancelMark
  <2>1. status \in Terminal => UNCHANGED Contract!vars
    BY <1>5 DEF CancelMark
  <2>2. status \notin Terminal => Contract!End
    BY <1>5 DEF CancelMark, Standing, Contract!End, Contract!Judge, Contract!Deserved
  <2> QED
    BY <2>1, <2>2 DEF Contract!Next
<1>6. CASE UNCHANGED vars
  BY <1>6 DEF vars, batchVars
<1> QED
  BY <1>1, <1>2, <1>3, <1>4, <1>5, <1>6 DEF Next

\* A batch does what BatchContract promises of it, for any number of items, any number
\* of them at a time, and a cancel at any moment (batch_manager.go 244-371, 688-704).
THEOREM ContractIsKept == Spec => KeepsContract
<1>1. Init => Contract!Init
  BY DEF Init, Contract!Init, Verdict, Terminal
<1>2. Spec => [](IInv /\ Standing)
  BY InitEstablishesIInv, NextPreservesIInv, InitStanding, NextStanding, PTL DEF Spec
<1> QED
  BY <1>1, <1>2, StepKeepsContract, PTL DEF Spec, KeepsContract, Contract!Spec
=============================================================================
