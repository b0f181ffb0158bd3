------------------------ MODULE TaskLifecycleProofs ------------------------
(***************************************************************************)
(* Proofs about TaskLifecycle, for every set of objects and every bound on *)
(* retries and stops.                                                      *)
(*                                                                         *)
(* OrphansAreCancelled is not inductive by itself.  What it rests on: an   *)
(* object with a cancelled status has a cancelled context, so the retry    *)
(* goroutine that revives it revives a run that is bound to end            *)
(* (CancelledContext); a completed or failed object has no run left to     *)
(* revive (EndedRun); and objects are complete once they are in the map    *)
(* (Incarnated).                                                           *)
(***************************************************************************)
EXTENDS TaskLifecycle, TLAPS

\* A task object that has not been made has no status; one that has been made has
\* a status and a URL, and only such objects are in tm.Tasks or have a parser.
Incarnated ==
  /\ \A o \in Objs : at[o] = "none" => status[o] = None
  /\ \A o \in Objs : at[o] # "none" => status[o] \in Status /\ url[o] \in Url
  /\ \A o \in Objs : (o = entry \/ o \in unhooked \/ o \in parsing) => at[o] # "none"

CancelledContext == \A o \in Objs : status[o] = "cancelled" => o \in ctxDone

EndedRun ==
  \A o \in Objs : status[o] \in {"completed", "failed"} => at[o] \in {"cleanup", "done"}

Base == TypeOK /\ Incarnated /\ CancelledContext /\ EndedRun

IInv == Base /\ OrphansAreCancelled

USE LifecycleAssumption

\* The goroutine that owns an object steps: it and its row are all that changes.
LEMMA RunPreservesBase ==
  ASSUME Base, NEW o \in Objs, Run(o)
  PROVE  Base'
<1> USE DEF Base, TypeOK, Incarnated, CancelledContext, EndedRun, Record, Status,
            Terminal, Place, runFrame, parseVars, tmVars, dbVars, history
<1>1. ASSUME ResolveFile(o) PROVE Base'
  BY <1>1 DEF ResolveFile, Goto, SetStatus, Snapshot
<1>2. ASSUME FileResolved(o) PROVE Base'
  <2>1. PICK u \in {"file", "remote"} :
          /\ url' = [url EXCEPT ![o] = u]
          /\ saveW' = [saveW EXCEPT ![o] = [Snapshot(o, status[o]) EXCEPT !.url = u]]
    BY <1>2 DEF FileResolved
  <2>2. [Snapshot(o, status[o]) EXCEPT !.url = u]
          = [status |-> status[o], retries |-> retries[o], url |-> u]
    BY DEF Snapshot
  <2>3. at[o] = "resolve" /\ at' = [at EXCEPT ![o] = "resolved"]
    BY <1>2 DEF FileResolved, Goto
  <2>4. UNCHANGED <<status, retries, saveC, parseVars, ctxDone, ticking, tmVars, dbVars, proc, history>>
    BY <1>2 DEF FileResolved
  <2>5. saveW' \in [Objs -> Record \cup {None}]
    <3>1. [status |-> status[o], retries |-> retries[o], url |-> u] \in Record
      BY <2>3 DEF Url
    <3> QED
      BY <2>1, <2>2, <3>1
  <2>6. url' \in [Objs -> Url \cup {None}]
    BY <2>1 DEF Url
  <2> QED
    BY <2>1, <2>3, <2>4, <2>5, <2>6 DEF Url
<1>3. ASSUME ResolveFailed(o) PROVE Base'
  BY <1>3 DEF ResolveFailed, Goto, SetStatus, SetError, Snapshot
<1>4. ASSUME BeginDownload(o) PROVE Base'
  BY <1>4 DEF BeginDownload, Goto, SetStatus, Snapshot
<1>5. ASSUME EngineProgress(o) PROVE Base'
  BY <1>5 DEF EngineProgress, Goto, Snapshot
<1>6. ASSUME EngineOK(o) PROVE Base'
  BY <1>6 DEF EngineOK, Goto
<1>7. ASSUME EngineInterrupted(o) PROVE Base'
  BY <1>7 DEF EngineInterrupted, Goto
<1>8. ASSUME EngineFails(o) PROVE Base'
  BY <1>8 DEF EngineFails, Goto
<1>9. ASSUME Retry(o) PROVE Base'
  BY <1>9 DEF Retry, Goto
<1>10. ASSUME GiveUp(o) PROVE Base'
  BY <1>10 DEF GiveUp, Goto, SetStatus, SetError, Snapshot
<1>11. ASSUME RetryFires(o) PROVE Base'
  BY <1>11 DEF RetryFires, Goto
<1>12. ASSUME RetryAborted(o) PROVE Base'
  BY <1>12 DEF RetryAborted, Goto
<1>13. ASSUME CopyOK(o) PROVE Base'
  BY <1>13 DEF CopyOK, Goto
<1>14. ASSUME CopyFails(o) PROVE Base'
  BY <1>14 DEF CopyFails, Goto, SetStatus, SetError, Snapshot
<1>15. ASSUME CopyInterrupted(o) PROVE Base'
  BY <1>15 DEF CopyInterrupted, Goto
<1>16. ASSUME BeginClone(o) PROVE Base'
  BY <1>16 DEF BeginClone, Goto, SetStatus, Snapshot
<1>17. ASSUME CloneOK(o) PROVE Base'
  BY <1>17 DEF CloneOK, Goto, SetStatus, Snapshot
<1>18. ASSUME CloneFails(o) PROVE Base'
  BY <1>18 DEF CloneFails, Goto, SetStatus, SetError, Snapshot
<1>19. ASSUME PostSkipped(o) PROVE Base'
  BY <1>19 DEF PostSkipped, Goto
<1>20. ASSUME NoFileFound(o) PROVE Base'
  BY <1>20 DEF NoFileFound, Goto, SetStatus, SetError, Snapshot
<1>21. ASSUME NoFileUnreported(o) PROVE Base'
  <2>1. cp' \in BOOLEAN
    BY <1>21, Zenon DEF NoFileUnreported
  <2> QED
    BY <1>21, <2>1, SMTT(20) DEF NoFileUnreported, Goto
<1>22. ASSUME BeginExtract(o) PROVE Base'
  BY <1>22 DEF BeginExtract, Goto, SetStatus, Snapshot
<1>23. ASSUME BeginZip(o) PROVE Base'
  BY <1>23 DEF BeginZip, Goto, SetStatus, Snapshot
<1>24. ASSUME BeginUpload(o) PROVE Base'
  BY <1>24 DEF BeginUpload, Goto, SetStatus, Snapshot
<1>25. ASSUME PackFails(o) PROVE Base'
  BY <1>25 DEF PackFails, Goto, SetStatus, SetError, Snapshot
<1>26. ASSUME UploadOK(o) PROVE Base'
  BY <1>26 DEF UploadOK, Goto, SetStatus, Snapshot
<1>27. ASSUME UploadFails(o) PROVE Base'
  BY <1>27 DEF UploadFails, Goto, SetStatus, SetError, Snapshot
<1>28. ASSUME Cleanup(o) PROVE Base'
  <2>1. cp' \in BOOLEAN
    BY <1>28, Zenon DEF Cleanup
  <2> QED
    BY <1>28, <2>1, SMTT(20) DEF Cleanup, Goto
<1>29. ASSUME SaveCommit(o) PROVE Base'
  BY <1>29 DEF SaveCommit, Upsert
<1>30. ASSUME Pick(o) PROVE Base'
  BY <1>30 DEF Pick, Goto
<1>31. ASSUME Transfer(o) PROVE Base'
  BY <1>31 DEF Transfer, Goto
<1>32. ASSUME OutputDirFails(o) PROVE Base'
  BY <1>32 DEF OutputDirFails, Goto, SetStatus, SetError, Snapshot
<1> QED
  BY <1>1, <1>2, <1>3, <1>4, <1>5, <1>6, <1>7, <1>8, <1>9, <1>10, <1>11, <1>12, <1>13, <1>14, <1>15, <1>16, <1>17, <1>18, <1>19, <1>20, <1>21, <1>22, <1>23, <1>24, <1>25, <1>26, <1>27, <1>28, <1>29, <1>30, <1>31, <1>32 DEF Run, OwnStep, Answer, Resolution

\* A run step touches one object.  It brings that object back to life only from
\* cancelled, in the retry goroutine, and leaves the map and the contexts alone.
RunShape(o) ==
  /\ \A p \in Objs \ {o} : at'[p] = at[p] /\ status'[p] = status[p]
  /\ Live(o)' => Live(o) \/ status[o] = "cancelled"
  /\ (status[o] = "cancelled" /\ status'[o] # "cancelled") => at[o] = "backoff"
  /\ UNCHANGED <<entry, unhooked, ctxDone, proc>>

LEMMA RunHasShape ==
  ASSUME Base, NEW o \in Objs, Run(o)
  PROVE  RunShape(o)
<1> USE DEF Base, TypeOK, Incarnated, EndedRun, Status, Terminal, RunShape, Live,
            runFrame, tmVars
<1>1. ASSUME ResolveFile(o) PROVE RunShape(o)
  BY <1>1 DEF ResolveFile, Goto, SetStatus
<1>2. ASSUME FileResolved(o) PROVE RunShape(o)
  BY <1>2 DEF FileResolved, Goto
<1>3. ASSUME ResolveFailed(o) PROVE RunShape(o)
  BY <1>3 DEF ResolveFailed, Goto, SetStatus, SetError
<1>4. ASSUME BeginDownload(o) PROVE RunShape(o)
  BY <1>4 DEF BeginDownload, Goto, SetStatus
<1>5. ASSUME EngineProgress(o) PROVE RunShape(o)
  BY <1>5 DEF EngineProgress, Goto
<1>6. ASSUME EngineOK(o) PROVE RunShape(o)
  BY <1>6 DEF EngineOK, Goto
<1>7. ASSUME EngineInterrupted(o) PROVE RunShape(o)
  BY <1>7 DEF EngineInterrupted, Goto
<1>8. ASSUME EngineFails(o) PROVE RunShape(o)
  BY <1>8 DEF EngineFails, Goto
<1>9. ASSUME Retry(o) PROVE RunShape(o)
  BY <1>9 DEF Retry, Goto
<1>10. ASSUME GiveUp(o) PROVE RunShape(o)
  BY <1>10 DEF GiveUp, Goto, SetStatus, SetError
<1>11. ASSUME RetryFires(o) PROVE RunShape(o)
  BY <1>11 DEF RetryFires, Goto
<1>12. ASSUME RetryAborted(o) PROVE RunShape(o)
  BY <1>12 DEF RetryAborted, Goto
<1>13. ASSUME CopyOK(o) PROVE RunShape(o)
  BY <1>13 DEF CopyOK, Goto
<1>14. ASSUME CopyFails(o) PROVE RunShape(o)
  BY <1>14 DEF CopyFails, Goto, SetStatus, SetError
<1>15. ASSUME CopyInterrupted(o) PROVE RunShape(o)
  BY <1>15 DEF CopyInterrupted, Goto
<1>16. ASSUME BeginClone(o) PROVE RunShape(o)
  BY <1>16 DEF BeginClone, Goto, SetStatus
<1>17. ASSUME CloneOK(o) PROVE RunShape(o)
  BY <1>17 DEF CloneOK, Goto, SetStatus
<1>18. ASSUME CloneFails(o) PROVE RunShape(o)
  BY <1>18 DEF CloneFails, Goto, SetStatus, SetError
<1>19. ASSUME PostSkipped(o) PROVE RunShape(o)
  BY <1>19 DEF PostSkipped, Goto
<1>20. ASSUME NoFileFound(o) PROVE RunShape(o)
  BY <1>20 DEF NoFileFound, Goto, SetStatus, SetError
<1>21. ASSUME NoFileUnreported(o) PROVE RunShape(o)
  BY <1>21 DEF NoFileUnreported, Goto
<1>22. ASSUME BeginExtract(o) PROVE RunShape(o)
  BY <1>22 DEF BeginExtract, Goto, SetStatus
<1>23. ASSUME BeginZip(o) PROVE RunShape(o)
  BY <1>23 DEF BeginZip, Goto, SetStatus
<1>24. ASSUME BeginUpload(o) PROVE RunShape(o)
  BY <1>24 DEF BeginUpload, Goto, SetStatus
<1>25. ASSUME PackFails(o) PROVE RunShape(o)
  BY <1>25 DEF PackFails, Goto, SetStatus, SetError
<1>26. ASSUME UploadOK(o) PROVE RunShape(o)
  BY <1>26 DEF UploadOK, Goto, SetStatus
<1>27. ASSUME UploadFails(o) PROVE RunShape(o)
  BY <1>27 DEF UploadFails, Goto, SetStatus, SetError
<1>28. ASSUME Cleanup(o) PROVE RunShape(o)
  BY <1>28 DEF Cleanup, Goto
<1>29. ASSUME SaveCommit(o) PROVE RunShape(o)
  BY <1>29 DEF SaveCommit, Upsert
<1>30. ASSUME Pick(o) PROVE RunShape(o)
  BY <1>30 DEF Pick, Goto
<1>31. ASSUME Transfer(o) PROVE RunShape(o)
  BY <1>31 DEF Transfer, Goto
<1>32. ASSUME OutputDirFails(o) PROVE RunShape(o)
  BY <1>32 DEF OutputDirFails, Goto, SetStatus, SetError
<1> QED
  BY <1>1, <1>2, <1>3, <1>4, <1>5, <1>6, <1>7, <1>8, <1>9, <1>10, <1>11, <1>12, <1>13, <1>14, <1>15, <1>16, <1>17, <1>18, <1>19, <1>20, <1>21, <1>22, <1>23, <1>24, <1>25, <1>26, <1>27, <1>28, <1>29, <1>30, <1>31, <1>32 DEF Run, OwnStep, Answer, Resolution

\* The steps of the other actors on an object of a live process.
LEMMA EnvironmentPreservesIInv ==
  ASSUME IInv, Alive, NEW o \in Objs, Environment(o)
  PROVE  IInv'
<1> USE DEF IInv, Base, TypeOK, Incarnated, CancelledContext, EndedRun,
            OrphansAreCancelled, Live, Alive, Record, Status, Terminal, Place, Url,
            parseVars, tmVars, dbVars, history, objVars
<1>1. ASSUME CreateTask(o) PROVE IInv'
  <2>1. PICK u \in Links :
          /\ NewObject(o, 0, u)
          /\ saveW' = [saveW EXCEPT ![o] = [status |-> "queued", retries |-> 0, url |-> u]]
    BY <1>1 DEF CreateTask
  <2>2. [status |-> "queued", retries |-> 0, url |-> u] \in Record
    BY <2>1
  <2> QED
    BY <1>1, <2>1, <2>2 DEF CreateTask, NewObject
<1>2. ASSUME CheckpointTick(o) PROVE IInv'
  <2>1. cp' \in BOOLEAN
    BY <1>2, Zenon DEF CheckpointTick
  <2> QED
    BY <1>2, <2>1 DEF CheckpointTick
<1>3. ASSUME CancelMark(o) PROVE IInv'
  BY <1>3 DEF CancelMark, Snapshot
<1>4. ASSUME CancelCommit(o) PROVE IInv'
  BY <1>4 DEF CancelCommit, Upsert
<1>5. ASSUME RecoverInsert(o) PROVE IInv'
  <2>1. CASE entry # None
    BY <1>5, <2>1 DEF RecoverInsert
  <2>2. CASE entry = None
    BY <1>5, <2>2 DEF RecoverInsert, NewObject
  <2> QED
    BY <2>1, <2>2
<1>6. ASSUME ParserProgress(o) PROVE IInv'
  BY <1>6 DEF ParserProgress, Snapshot
<1>7. ASSUME ParserCommit(o) PROVE IInv'
  <2>1. overtaken' = (overtaken \/ saveP[o] # Snapshot(o, status[o]))
    BY <1>7 DEF ParserCommit
  <2>2. overtaken' \in BOOLEAN
    BY <2>1, Zenon
  <2> QED
    BY <1>7, <2>2 DEF ParserCommit, Upsert
<1>8. ASSUME ParserEnds(o) PROVE IInv'
  BY <1>8 DEF ParserEnds
<1> QED
  BY <1>1, <1>2, <1>3, <1>4, <1>5, <1>6, <1>7, <1>8 DEF Environment

\* What a start of the process loads is the whole of memory.
LEMMA LoadEstablishesIInv ==
  ASSUME IInv, NEW S \in SUBSET Objs, NEW rec, S # {} => rec \in Record,
         S # {} => rec.status \notin Terminal,
         \A p, q \in S : p = q,
         Load(S, rec),
         UNCHANGED <<dbVars, failures, cancels, overtaken>>,
         proc' \in {"up", "off"}, stops' \in 0..MaxStops
  PROVE  IInv'
<1> USE DEF IInv, Base, TypeOK, Incarnated, CancelledContext, EndedRun,
            OrphansAreCancelled, Live, Alive, Record, Status, Terminal, Place, dbVars
<1>1. TypeOK'
  BY DEF Load
<1>2. Incarnated' /\ CancelledContext' /\ EndedRun'
  BY DEF Load
<1>3. OrphansAreCancelled'
  BY DEF Load
<1> QED
  BY <1>1, <1>2, <1>3

LEMMA NextPreservesIInv ==
  ASSUME IInv, [Next]_vars
  PROVE  IInv'
<1>1. ASSUME Alive, NEW o \in Objs, Run(o) PROVE IInv'
  <2>1. Base' /\ RunShape(o)
    BY <1>1, RunPreservesBase, RunHasShape DEF IInv
  <2> QED
    BY <1>1, <2>1 DEF IInv, Base, OrphansAreCancelled, CancelledContext, RunShape,
       Live, Alive, TypeOK
<1>2. ASSUME Alive, NEW o \in Objs, Environment(o) PROVE IInv'
  BY <1>2, EnvironmentPreservesIInv
<1>3. ASSUME NEW o \in Objs, Boot(o) PROVE IInv'
  <2>1. CASE row = None
    BY <1>3, <2>1, LoadEstablishesIInv DEF Boot, IInv, Base, TypeOK
  <2>2. CASE row # None /\ row.status \in Terminal
    BY <1>3, <2>2, LoadEstablishesIInv DEF Boot, IInv, Base, TypeOK
  <2>3. CASE row # None /\ row.status \notin Terminal
    BY <1>3, <2>3, LoadEstablishesIInv DEF Boot, IInv, Base, TypeOK
  <2> QED
    BY <2>1, <2>2, <2>3
<1>4. ASSUME Crash PROVE IInv'
  <2>1. /\ Load({}, None) /\ UNCHANGED <<dbVars, failures, cancels, overtaken>>
        /\ proc' \in {"up", "off"}
    BY <1>4 DEF Crash
  <2>2. stops' \in 0..MaxStops
    BY <1>4 DEF Crash, IInv, Base, TypeOK
  <2> QED
    BY <2>1, <2>2, LoadEstablishesIInv
<1> USE DEF IInv, Base, TypeOK, Incarnated, CancelledContext, EndedRun,
            OrphansAreCancelled, Live, Alive, Terminal, objVars, parseVars, tmVars, dbVars,
            history
<1>5. ASSUME CancelTask PROVE IInv'
  <2>1. cp' \in BOOLEAN /\ cancels' \in BOOLEAN
    BY <1>5, Zenon DEF CancelTask
  <2> QED
    BY <1>5, <2>1 DEF CancelTask
<1>6. ASSUME RecoverRead PROVE IInv'
  BY <1>6 DEF RecoverRead
<1>7. ASSUME Forget PROVE IInv'
  BY <1>7 DEF Forget
<1>8. ASSUME ShutdownCancel PROVE IInv'
  BY <1>8 DEF ShutdownCancel
<1>9. ASSUME ShutdownClose \/ ShutdownEnd PROVE IInv'
  BY <1>9 DEF ShutdownClose, ShutdownEnd
<1>10. ASSUME UNCHANGED vars PROVE IInv'
  BY <1>10 DEF vars
<1> QED
  BY <1>1, <1>2, <1>3, <1>4, <1>5, <1>6, <1>7, <1>8, <1>9, <1>10 DEF Next

LEMMA InitEstablishesIInv ==
  ASSUME Init
  PROVE  IInv
<1>1. cp \in BOOLEAN /\ cancels \in BOOLEAN /\ overtaken \in BOOLEAN
  BY Zenon DEF Init
<1> QED
  BY <1>1 DEF Init, IInv, Base, TypeOK, Incarnated, CancelledContext, EndedRun,
     OrphansAreCancelled, Live, Alive, Record, Status, Terminal, Place

THEOREM IInvHolds == SafetySpec => []IInv
<1> QED
  BY InitEstablishesIInv, NextPreservesIInv, PTL DEF SafetySpec

\* Every variable keeps its type, for any set of objects and any bounds.
THEOREM TypeCorrect == Spec => []TypeOK
<1>1. IInv => TypeOK
  BY DEF IInv, Base
<1> QED
  BY <1>1, IInvHolds, PTL DEF Spec

\* Through cancels, recoveries, shutdowns and crashes, an object with work left is
\* the one in tm.Tasks or is being cancelled.
THEOREM OneLiveObject == Spec => []OrphansAreCancelled
<1>1. IInv => OrphansAreCancelled
  BY DEF IInv
<1> QED
  BY <1>1, IInvHolds, PTL DEF Spec

\* Nothing but the retry goroutine takes an object out of cancelled, and that
\* object's context stays cancelled.
THEOREM CancelledStays == Spec => CancelSticky
<1> DEFINE Revived(o) == Alive /\ Alive' /\ status[o] = "cancelled"
                         /\ status'[o] # "cancelled"
           Doomed(o) == at[o] = "backoff" /\ o \in ctxDone /\ o \in ctxDone'
<1>1. ASSUME IInv, [Next]_vars, NEW o \in Objs, Revived(o)
      PROVE  Doomed(o)
  <2> USE DEF IInv, Base, TypeOK, CancelledContext
  <2>1. o \in ctxDone
    BY <1>1
  <2>2. ASSUME NEW p \in Objs, Run(p) PROVE Doomed(o)
    <3>1. RunShape(p)
      BY <1>1, <2>2, RunHasShape
    <3> QED
      BY <1>1, <2>1, <3>1 DEF RunShape
  <2>3. ASSUME NEW p \in Objs, Environment(p) PROVE FALSE
    <3> USE DEF Incarnated
    <3>1. CASE CreateTask(p)
      BY <1>1, <3>1 DEF CreateTask, NewObject, Status, Terminal
    <3>2. CASE CheckpointTick(p)
      BY <1>1, <3>2 DEF CheckpointTick
    <3>3. CASE CancelMark(p)
      BY <1>1, <3>3 DEF CancelMark
    <3>4. CASE CancelCommit(p)
      BY <1>1, <3>4 DEF CancelCommit
    <3>5. CASE RecoverInsert(p)
      BY <1>1, <3>5 DEF RecoverInsert, NewObject, Status, Terminal
    <3>6. CASE ParserProgress(p) \/ ParserCommit(p) \/ ParserEnds(p)
      BY <1>1, <3>6 DEF ParserProgress, ParserCommit, ParserEnds
    <3> QED
      BY <2>3, <3>1, <3>2, <3>3, <3>4, <3>5, <3>6 DEF Environment
  <2>4. ASSUME \/ CancelTask \/ RecoverRead \/ Forget
               \/ ShutdownCancel \/ ShutdownClose \/ ShutdownEnd \/ Crash
               \/ (\E p \in Objs : Boot(p)) \/ UNCHANGED vars
        PROVE  FALSE
    BY <1>1, <2>4 DEF CancelTask, RecoverRead, Forget, ShutdownCancel, ShutdownClose,
       ShutdownEnd, Crash, Boot, Alive, vars, objVars
  <2> QED
    BY <1>1, <2>2, <2>3, <2>4 DEF Next
<1>2. IInv /\ [Next]_vars => [\A o \in Objs : Revived(o) => Doomed(o)]_vars
  BY <1>1
<1>3. SafetySpec => [][\A o \in Objs : Revived(o) => Doomed(o)]_vars
  BY <1>2, IInvHolds, PTL DEF SafetySpec
<1> QED
  BY <1>3 DEF CancelSticky, Spec

-----------------------------------------------------------------------------
(***************************************************************************)
(* TaskLifecycle implements TaskContract, for every set of objects and     *)
(* every bound on retries and stops.                                       *)
(*                                                                         *)
(* Until the user cancels, a snapshot is never older than its object, so   *)
(* no save takes anything back (Written).  Until, besides, a parser's late *)
(* report has been written, the process has one object of the task that    *)
(* matters (OneObject), its row says how it ended exactly when it has      *)
(* ended (RowTells), and the row's count of retries is at most one behind  *)
(* the object's, and not behind at all while an engine runs (RowCounts).   *)
(* That is why a crash costs at most one attempt.                          *)
(***************************************************************************)

Undisturbed == ~cancels /\ ~overtaken

\* Nobody has cancelled: nothing says "cancelled", and what the run has still to
\* write is how its object stands.
Written ==
  /\ unhooked = {}
  /\ row # None => row.status # "cancelled"
  /\ \A o \in Objs :
       /\ saveC[o] = None /\ status[o] # "cancelled"
       /\ saveW[o] # None => at[o] # "none" /\ saveW[o] = Snapshot(o, status[o])
       /\ saveP[o] # None => o \in parsing /\ saveP[o].status # "cancelled"

\* Beside the object in tm.Tasks there are only such as tm.Tasks has forgotten, and
\* then their result is in the row.
OneObject ==
  /\ \A o \in Objs : at[o] # "none" /\ o # entry =>
       entry = None /\ at[o] = "done" /\ saveW[o] = None /\ o \notin parsing /\ row # None
  /\ recovering # None => entry # None
  /\ entry = None /\ row # None /\ proc # "off" => row.status \in Terminal

\* The first save comes before everything else; the row has a result when the
\* object in tm.Tasks has one, and the same.
RowTells ==
  /\ row = None => /\ failures = 0
                   /\ \A o \in Objs : at[o] # "none" =>
                        at[o] = "queued" /\ status[o] = "queued" /\ saveW[o] # None
  /\ entry # None =>
       /\ row # None /\ row.status \in Terminal => status[entry] = row.status
       /\ status[entry] \in Terminal /\ saveW[entry] = None =>
            row # None /\ row.status = status[entry]

\* A shutdown that is under way has been counted already.
Counted == IF proc \in {"cancelled", "closed", "stopped"} THEN 1 ELSE 0

\* Before the next attempt.
Trying == {"queued", "picked", "resolve", "resolved", "prepare", "download", "backoff"}

\* The row may lack the last retry until the engine is called again.
RowCounts ==
  /\ AttemptsBounded
  /\ row # None /\ row.status \notin Terminal =>
       failures + Counted <= row.retries + stops + IF proc = "off" THEN 0 ELSE 1
  /\ entry # None =>
       /\ failures + Counted <= retries[entry] + stops + IF at[entry] \in Trying THEN 0 ELSE 1
       /\ at[entry] \in {"download", "failing"} \/ (at[entry] = "prepare" /\ saveW[entry] = None)
            => row # None /\ row.retries = retries[entry]

Calm ==
  /\ ~cancels => Written
  /\ Undisturbed => OneObject /\ RowTells /\ RowCounts

-----------------------------------------------------------------------------
\* How a step of a run, other than its save, counts: it carries on, an engine fails,
\* or a retry begins.
CarriesOn(o) ==
  /\ failures' = failures /\ retries'[o] = retries[o]
  /\ at'[o] \in Trying => at[o] \in Trying
  /\ at'[o] \in {"download", "failing"} =>
       at[o] = "download" \/ (at[o] = "prepare" /\ saveW[o] = None)
  /\ at'[o] = "prepare" => saveW'[o] # None

Fails(o) ==
  /\ at[o] = "download" /\ at'[o] \in {"failing", "done"}
  /\ failures' = failures + 1 /\ retries'[o] = retries[o]

Retries(o) ==
  /\ at[o] = "failing" /\ at'[o] = "backoff"
  /\ failures' = failures /\ retries'[o] = retries[o] + 1

\* Such a step has nothing left to write before, and has to write how the object
\* stands afterwards, at the latest when it ends.
RunMoves(o) ==
  /\ at[o] \notin {"none", "done"} /\ at'[o] # "none" /\ saveW[o] = None
  /\ \A p \in Objs \ {o} :
       /\ at'[p] = at[p] /\ status'[p] = status[p] /\ saveW'[p] = saveW[p]
       /\ retries'[p] = retries[p] /\ url'[p] = url[p]
       /\ p \in parsing' <=> p \in parsing
  /\ o \in parsing => o \in parsing'
  /\ saveW'[o] \in {None, [status |-> status'[o], retries |-> retries'[o], url |-> url'[o]]}
  /\ saveW'[o] = None /\ status'[o] \in Terminal => status[o] = status'[o]
  /\ status'[o] = "cancelled" => status[o] = "cancelled"
  /\ status[o] \in {"completed", "failed"} => status'[o] = status[o]
  /\ CarriesOn(o) \/ Fails(o) \/ Retries(o)
  /\ UNCHANGED <<row, saveC, saveP, tmVars, proc, cancels, overtaken, stops>>

\* What an object has to write is a record.
LEMMA SnapshotIsRecord ==
  ASSUME Base, NEW o \in Objs, at[o] # "none", NEW s \in Status
  PROVE  Snapshot(o, s) \in Record /\ Snapshot(o, s) # None
<1>1. Snapshot(o, s) \in Record
  BY DEF Base, TypeOK, Incarnated, Snapshot, Record
<1> QED
  BY <1>1

LEMMA RunHasMoves ==
  ASSUME Base, NEW o \in Objs, Run(o), ~SaveCommit(o)
  PROVE  RunMoves(o)
<1>a. at[o] # "none" => \A s \in Status : Snapshot(o, s) # None
  BY SnapshotIsRecord
<1> USE DEF Base, TypeOK, EndedRun, Record, Status, Terminal, RunMoves, CarriesOn, Fails, Retries,
            Trying, Goto, SetStatus, SetError, Snapshot, runFrame, parseVars, tmVars,
            dbVars, history
<1>1. ASSUME ResolveFile(o) PROVE RunMoves(o)
  BY <1>1 DEF ResolveFile
<1>2. ASSUME ResolveFailed(o) PROVE RunMoves(o)
  BY <1>a, <1>2 DEF ResolveFailed
<1>3. ASSUME FileResolved(o) PROVE RunMoves(o)
  BY <1>3 DEF FileResolved
<1>4. ASSUME BeginDownload(o) PROVE RunMoves(o)
  BY <1>a, <1>4 DEF BeginDownload
<1>5. ASSUME Transfer(o) PROVE RunMoves(o)
  BY <1>5 DEF Transfer
<1>6. ASSUME OutputDirFails(o) PROVE RunMoves(o)
  BY <1>a, <1>6 DEF OutputDirFails
<1>7. ASSUME EngineProgress(o) PROVE RunMoves(o)
  BY <1>7 DEF EngineProgress
<1>8. ASSUME EngineOK(o) PROVE RunMoves(o)
  BY <1>8 DEF EngineOK
<1>9. ASSUME EngineInterrupted(o) PROVE RunMoves(o)
  BY <1>9 DEF EngineInterrupted
<1>10. ASSUME EngineFails(o) PROVE RunMoves(o)
  BY <1>10 DEF EngineFails
<1>11. ASSUME Retry(o) PROVE RunMoves(o)
  BY <1>11 DEF Retry
<1>12. ASSUME GiveUp(o) PROVE RunMoves(o)
  BY <1>a, <1>12 DEF GiveUp
<1>13. ASSUME RetryFires(o) PROVE RunMoves(o)
  BY <1>13 DEF RetryFires
<1>14. ASSUME RetryAborted(o) PROVE RunMoves(o)
  BY <1>14 DEF RetryAborted
<1>15. ASSUME CopyOK(o) PROVE RunMoves(o)
  BY <1>15 DEF CopyOK
<1>16. ASSUME CopyFails(o) PROVE RunMoves(o)
  BY <1>a, <1>16 DEF CopyFails
<1>17. ASSUME CopyInterrupted(o) PROVE RunMoves(o)
  BY <1>17 DEF CopyInterrupted
<1>18. ASSUME BeginClone(o) PROVE RunMoves(o)
  BY <1>18 DEF BeginClone
<1>19. ASSUME CloneOK(o) PROVE RunMoves(o)
  BY <1>a, <1>19 DEF CloneOK
<1>20. ASSUME CloneFails(o) PROVE RunMoves(o)
  BY <1>a, <1>20 DEF CloneFails
<1>21. ASSUME PostSkipped(o) PROVE RunMoves(o)
  BY <1>21 DEF PostSkipped
<1>22. ASSUME NoFileFound(o) PROVE RunMoves(o)
  BY <1>a, <1>22 DEF NoFileFound
<1>23. ASSUME NoFileUnreported(o) PROVE RunMoves(o)
  BY <1>23 DEF NoFileUnreported
<1>24. ASSUME BeginExtract(o) PROVE RunMoves(o)
  BY <1>24 DEF BeginExtract
<1>25. ASSUME BeginZip(o) PROVE RunMoves(o)
  BY <1>25 DEF BeginZip
<1>26. ASSUME BeginUpload(o) PROVE RunMoves(o)
  BY <1>26 DEF BeginUpload
<1>27. ASSUME PackFails(o) PROVE RunMoves(o)
  BY <1>a, <1>27 DEF PackFails
<1>28. ASSUME UploadOK(o) PROVE RunMoves(o)
  BY <1>a, <1>28 DEF UploadOK
<1>29. ASSUME UploadFails(o) PROVE RunMoves(o)
  BY <1>a, <1>29 DEF UploadFails
<1>30. ASSUME Cleanup(o) PROVE RunMoves(o)
  BY <1>30 DEF Cleanup
<1>31. ASSUME Pick(o) PROVE RunMoves(o)
  BY <1>31 DEF Pick
<1> QED
  BY <1>1, <1>2, <1>3, <1>4, <1>5, <1>6, <1>7, <1>8, <1>9, <1>10, <1>11, <1>12,
     <1>13, <1>14, <1>15, <1>16, <1>17, <1>18, <1>19, <1>20, <1>21, <1>22, <1>23,
     <1>24, <1>25, <1>26, <1>27, <1>28, <1>29, <1>30, <1>31
  DEF Run, OwnStep, Answer, Resolution

-----------------------------------------------------------------------------
\* A step of a run.
LEMMA MovesKeepCalm ==
  ASSUME IInv, Calm, Alive, NEW o \in Objs, RunMoves(o)
  PROVE  Calm'
<1> USE DEF IInv, Base, TypeOK
<1>0. UNCHANGED <<row, saveC, saveP, unhooked, recovering, entry, proc, cancels, overtaken, stops>>
  BY DEF RunMoves, tmVars
<1>1. ASSUME ~cancels PROVE Written'
  <2>1. Written
    BY <1>1 DEF Calm
  <2>2. ASSUME NEW p \in Objs
        PROVE  /\ saveC'[p] = None /\ status'[p] # "cancelled"
               /\ saveW'[p] # None => at'[p] # "none" /\ saveW'[p] = Snapshot(p, status[p])'
               /\ saveP'[p] # None => p \in parsing' /\ saveP'[p].status # "cancelled"
    BY <1>0, <2>1 DEF Written, RunMoves, Snapshot
  <2> QED
    BY <1>0, <2>1, <2>2 DEF Written
<1>2. ASSUME Undisturbed PROVE OneObject' /\ RowTells' /\ RowCounts'
  <2>1. Written /\ OneObject /\ RowTells /\ RowCounts
    BY <1>2 DEF Calm, Undisturbed
  <2>2. o = entry /\ entry # None
    BY <2>1 DEF OneObject, RunMoves
  <2>3. row # None
    BY <2>1 DEF RowTells, RunMoves
  <2>4. OneObject'
    BY <1>0, <2>1, <2>2, <2>3 DEF OneObject, RunMoves
  <2>5. RowTells'
    <3>1. status[o] # "cancelled"
      BY <2>1 DEF Written
    <3> QED
      BY <1>0, <2>1, <2>2, <2>3, <3>1 DEF RowTells, RunMoves, Terminal
  <2>6. RowCounts'
    <3>1. Counted' = Counted /\ Counted \in {0, 1}
      BY <1>0 DEF Counted
    <3>2. at[o] \in Trying => at[o] # "failing"
      BY DEF Trying
    <3>3. CASE CarriesOn(o)
      BY <1>0, <2>1, <2>2, <2>3, <3>1, <3>3 DEF RowCounts, RunMoves, CarriesOn, AttemptsBounded
    <3>4. CASE Fails(o)
      BY <1>0, <1>2, <2>1, <2>2, <2>3, <3>1, <3>4
      DEF RowCounts, RunMoves, Fails, AttemptsBounded, Trying, Alive
    <3>5. CASE Retries(o)
      BY <1>0, <2>1, <2>2, <2>3, <3>1, <3>5
      DEF RowCounts, RunMoves, Retries, AttemptsBounded, Trying
    <3> QED
      BY <3>3, <3>4, <3>5 DEF RunMoves
  <2> QED
    BY <2>4, <2>5, <2>6
<1> QED
  BY <1>0, <1>1, <1>2 DEF Calm, Undisturbed

\* The row is written with an object as it stands.
RowFollows(o) ==
  /\ row' # None /\ row'.status = status[o] /\ row'.retries = retries[o]
  /\ saveW' \in {saveW, [saveW EXCEPT ![o] = None]}
  /\ UNCHANGED <<status, retries, at, parsing, tmVars, proc, failures, stops>>

LEMMA RowFollowsKeepsCalm ==
  ASSUME IInv, Undisturbed, Written, OneObject, RowTells, RowCounts, Alive,
         NEW o \in Objs, saveW[o] # None \/ o \in parsing, RowFollows(o)
  PROVE  OneObject' /\ RowTells' /\ RowCounts'
<1> USE DEF IInv, Base, TypeOK, RowFollows, tmVars
<1>1. at[o] # "none" /\ o = entry /\ entry # None
  BY DEF Written, OneObject, Incarnated
<1>2. \A p \in Objs : saveW'[p] # None => saveW'[p] = saveW[p]
  OBVIOUS
<1>3. OneObject'
  BY <1>1, <1>2 DEF OneObject
<1>4. RowTells'
  BY <1>1 DEF RowTells
<1>5. RowCounts'
  BY <1>1 DEF RowCounts, AttemptsBounded, Undisturbed, Counted, Alive
<1> QED
  BY <1>3, <1>4, <1>5

\* The save of a run.
LEMMA SaveKeepsCalm ==
  ASSUME IInv, Calm, Alive, NEW o \in Objs, SaveCommit(o)
  PROVE  Calm'
<1> USE DEF IInv, Base, TypeOK
<1>1. /\ saveW[o] \in Record /\ saveW[o] # None
      /\ saveW' = [saveW EXCEPT ![o] = None]
      /\ row'.status = saveW[o].status /\ row'.retries = saveW[o].retries
      /\ UNCHANGED <<status, retries, url, at, saveC, parseVars, tmVars, proc, history>>
  BY DEF SaveCommit, Upsert
<1>2. row' # None
  <2>1. row' \in Record
    BY <1>1 DEF SaveCommit, Upsert, Record
  <2> QED
    BY <2>1
<1>3. ASSUME ~cancels PROVE Written' /\ RowFollows(o)
  <2>1. Written
    BY <1>3 DEF Calm
  <2>2. saveW[o].status = status[o] /\ saveW[o].retries = retries[o]
    BY <1>1, <2>1 DEF Written, Snapshot
  <2> QED
    BY <1>1, <1>2, <2>1, <2>2 DEF Written, RowFollows, Snapshot, parseVars, tmVars, history
<1>4. ASSUME Undisturbed PROVE OneObject' /\ RowTells' /\ RowCounts'
  <2>1. Written /\ OneObject /\ RowTells /\ RowCounts /\ RowFollows(o)
    BY <1>3, <1>4 DEF Calm, Undisturbed
  <2> QED
    BY <1>1, <1>4, <2>1, RowFollowsKeepsCalm
<1> QED
  BY <1>1, <1>3, <1>4 DEF Calm, Undisturbed, history

\* The late report of a parser, which may be as late as it likes.
LEMMA ReportKeepsCalm ==
  ASSUME IInv, Calm, Alive, NEW o \in Objs, ParserCommit(o)
  PROVE  Calm'
<1> USE DEF IInv, Base, TypeOK
<1>1. /\ saveP[o] \in Record /\ saveP[o] # None
      /\ saveP' = [saveP EXCEPT ![o] = None]
      /\ row'.status = saveP[o].status /\ row'.retries = saveP[o].retries
      /\ UNCHANGED <<status, retries, url, at, saveW, saveC, parsing, tmVars, proc, cancels,
                     failures, stops>>
  BY DEF ParserCommit, Upsert
<1>2. row' # None
  <2>1. row' \in Record
    BY <1>1 DEF ParserCommit, Upsert, Record
  <2> QED
    BY <2>1
<1>3. ASSUME ~cancels PROVE Written'
  <2>1. Written
    BY <1>3 DEF Calm
  <2> QED
    BY <1>1, <2>1 DEF Written, Snapshot, tmVars
<1>4. overtaken' = (overtaken \/ saveP[o] # Snapshot(o, status[o]))
  BY DEF ParserCommit
<1>5. Undisturbed' => Undisturbed /\ saveP[o] = Snapshot(o, status[o])
  <2>1. Undisturbed' => ~overtaken /\ saveP[o] = Snapshot(o, status[o])
    BY <1>4, Zenon DEF Undisturbed
  <2>2. Undisturbed' => ~cancels
    BY <1>1 DEF Undisturbed
  <2> QED
    BY <2>1, <2>2 DEF Undisturbed
<1>6. ASSUME Undisturbed' PROVE OneObject' /\ RowTells' /\ RowCounts'
  <2>1. Written /\ OneObject /\ RowTells /\ RowCounts
    BY <1>5, <1>6 DEF Calm, Undisturbed
  <2>2. o \in parsing
    BY <1>1, <2>1 DEF Written
  <2>3. RowFollows(o)
    BY <1>1, <1>2, <1>5, <1>6 DEF RowFollows, Snapshot
  <2> QED
    BY <1>5, <1>6, <2>1, <2>2, <2>3, RowFollowsKeepsCalm
<1> QED
  BY <1>1, <1>3, <1>6 DEF Calm

-----------------------------------------------------------------------------
\* The other actors on an object of a live process.
LEMMA EnvironmentKeepsCalm ==
  ASSUME IInv, IInv', Calm, Alive, NEW o \in Objs, Environment(o)
  PROVE  Calm'
<1> USE DEF IInv, Base, TypeOK, tmVars, dbVars, history, parseVars, objVars
<1>1. CASE CreateTask(o)
  <2>1. PICK u \in Links :
          /\ NewObject(o, 0, u)
          /\ saveW' = [saveW EXCEPT ![o] = [status |-> "queued", retries |-> 0, url |-> u]]
    BY <1>1 DEF CreateTask
  <2>2. /\ proc = "up" /\ row = None /\ \A p \in Objs : at[p] = "none"
        /\ UNCHANGED <<saveC, saveP, parsing, unhooked, recovering, row, proc, cancels,
                       overtaken, failures, stops>>
    BY <1>1 DEF CreateTask
  <2>3. saveW'[o] # None
    <3>1. [status |-> "queued", retries |-> 0, url |-> u] \in Record
      BY <2>1 DEF Record, Status
    <3> QED
      BY <2>1, <3>1
  <2>4. ~cancels => Written'
    BY <2>1, <2>2 DEF Calm, Written, NewObject, Snapshot
  <2>5. entry = None
    BY <2>2 DEF Incarnated
  <2>6. ASSUME Undisturbed PROVE OneObject' /\ RowTells' /\ RowCounts'
    <3>1. OneObject /\ RowTells /\ RowCounts
      BY <1>1, <2>6 DEF Calm
    <3>2. failures = 0 /\ recovering = None
      BY <2>2, <2>5, <3>1 DEF OneObject, RowTells
    <3>3. entry' = o /\ at' = [at EXCEPT ![o] = "queued"] /\ status' = [status EXCEPT ![o] = "queued"]
          /\ retries' = [retries EXCEPT ![o] = 0]
      BY <2>1 DEF NewObject
    <3>4. OneObject' /\ RowTells'
      BY <2>2, <2>3, <3>2, <3>3 DEF OneObject, RowTells, Terminal
    <3>5. RowCounts'
      BY <2>2, <3>2, <3>3 DEF RowCounts, AttemptsBounded, Counted, Trying
    <3> QED
      BY <3>4, <3>5
  <2> QED
    BY <2>2, <2>4, <2>6 DEF Calm, Undisturbed
<1>2. CASE CheckpointTick(o)
  BY <1>2 DEF CheckpointTick, Calm, Written, Undisturbed, OneObject, RowTells, RowCounts,
    AttemptsBounded, Counted, Snapshot
<1>3. CASE ParserProgress(o)
  <2>1. /\ o \in parsing /\ saveP' = [saveP EXCEPT ![o] = Snapshot(o, status[o])]
        /\ UNCHANGED <<status, retries, url, at, saveW, saveC, parsing, tmVars, row, proc,
                       cancels, overtaken, failures, stops>>
    BY <1>3 DEF ParserProgress
  <2>2. ~cancels => Written'
    BY <2>1 DEF Calm, Written, Snapshot
  <2> QED
    BY <2>1, <2>2 DEF Calm, Undisturbed, OneObject, RowTells, RowCounts, AttemptsBounded, Counted
<1>4. CASE ParserEnds(o)
  <2>1. /\ saveP[o] = None /\ parsing' = parsing \ {o}
        /\ UNCHANGED <<status, retries, url, at, saveW, saveC, saveP, tmVars, row, proc,
                       cancels, overtaken, failures, stops>>
    BY <1>4 DEF ParserEnds
  <2>2. ~cancels => Written'
    BY <2>1 DEF Calm, Written, Snapshot
  <2> QED
    BY <2>1, <2>2 DEF Calm, Undisturbed, OneObject, RowTells, RowCounts, AttemptsBounded, Counted
<1>5. CASE CancelMark(o)
  BY <1>5 DEF CancelMark, Calm, Written, Undisturbed
<1>6. CASE CancelCommit(o)
  BY <1>6 DEF CancelCommit, Calm, Written, Undisturbed
<1>7. CASE RecoverInsert(o)
  <2>1. recovering' = None /\ recovering # None
        /\ UNCHANGED <<saveW, saveC, saveP, parsing, unhooked, row, proc, cancels, overtaken,
                       failures, stops>>
    BY <1>7 DEF RecoverInsert
  <2>2. CASE entry # None
    <3>1. UNCHANGED <<status, retries, url, at, entry>>
      BY <1>7, <2>2 DEF RecoverInsert
    <3> QED
      BY <2>1, <3>1 DEF Calm, Written, Snapshot, Undisturbed, OneObject, RowTells, RowCounts,
        AttemptsBounded, Counted
  <2>3. CASE entry = None
    <3>1. NewObject(o, recovering.retries, recovering.url)
      BY <1>7, <2>3 DEF RecoverInsert
    <3>2. ~cancels => Written'
      BY <2>1, <3>1 DEF Calm, Written, NewObject, Snapshot, Incarnated
    <3>3. ~Undisturbed'
      BY <2>1, <2>3 DEF Calm, OneObject, Undisturbed
    <3> QED
      BY <2>1, <3>2, <3>3 DEF Calm
  <2> QED
    BY <2>2, <2>3
<1> QED
  BY <1>1, <1>2, <1>3, <1>4, <1>5, <1>6, <1>7, ReportKeepsCalm DEF Environment

\* The process stops, or starts again with what the row says.
LEMMA BootKeepsCalm ==
  ASSUME IInv, Calm, NEW o \in Objs, Boot(o)
  PROVE  Calm'
<1> USE DEF IInv, Base, TypeOK, dbVars
<1>1. proc \in {"stopped", "off"} /\ proc' = "up"
      /\ UNCHANGED <<row, cancels, overtaken, failures, stops>>
  BY DEF Boot, Alive
<1>2. CASE row = None \/ row.status \in Terminal
  <2>1. \E rec : Load({}, rec)
    BY <1>2 DEF Boot
  <2>2. /\ entry' = None /\ unhooked' = {} /\ recovering' = None /\ parsing' = {}
        /\ \A p \in Objs : /\ at'[p] = "none" /\ status'[p] = None /\ saveW'[p] = None
                            /\ saveC'[p] = None /\ saveP'[p] = None
    BY <2>1 DEF Load
  <2>3. ~cancels => Written'
    BY <1>1, <2>2 DEF Calm, Written, Status, Terminal
  <2>4. Undisturbed => OneObject' /\ RowTells'
    BY <1>1, <1>2, <2>2 DEF Calm, OneObject, RowTells
  <2>5. Undisturbed => RowCounts'
    BY <1>1, <1>2, <2>2 DEF Calm, RowCounts, AttemptsBounded, Counted
  <2> QED
    BY <1>1, <2>3, <2>4, <2>5 DEF Calm, Undisturbed
<1>3. CASE row # None /\ row.status \notin Terminal
  <2>1. Load({o}, row)
    BY <1>3 DEF Boot
  <2>2. /\ entry' = o /\ unhooked' = {} /\ recovering' = None /\ parsing' = {}
        /\ \A p \in Objs : saveW'[p] = None /\ saveC'[p] = None /\ saveP'[p] = None
        /\ \A p \in Objs \ {o} : at'[p] = "none" /\ status'[p] = None
        /\ at'[o] = "queued" /\ status'[o] = row.status /\ retries'[o] = row.retries
    BY <2>1 DEF Load
  <2>3. ~cancels => Written'
    BY <1>1, <1>3, <2>2 DEF Calm, Written, Status, Terminal
  <2>4. Undisturbed => OneObject' /\ RowTells'
    BY <1>1, <1>3, <2>2 DEF Calm, OneObject, RowTells
  <2>5. Undisturbed => RowCounts'
    BY <1>1, <1>3, <2>2 DEF Calm, RowCounts, AttemptsBounded, Counted, Trying, Record
  <2> QED
    BY <1>1, <2>3, <2>4, <2>5 DEF Calm, Undisturbed
<1> QED
  BY <1>2, <1>3

LEMMA CrashKeepsCalm ==
  ASSUME IInv, Calm, Crash
  PROVE  Calm'
<1> USE DEF IInv, Base, TypeOK, dbVars
<1>1. proc' = "off" /\ stops' = stops + 1 /\ Alive
      /\ UNCHANGED <<row, cancels, overtaken, failures>>
  BY DEF Crash
<1>2. /\ entry' = None /\ unhooked' = {} /\ recovering' = None /\ parsing' = {}
      /\ \A p \in Objs : /\ at'[p] = "none" /\ status'[p] = None /\ saveW'[p] = None
                          /\ saveC'[p] = None /\ saveP'[p] = None
  BY DEF Crash, Load
<1>3. ~cancels => Written'
  BY <1>1, <1>2 DEF Calm, Written, Status, Terminal
<1>4. Undisturbed => OneObject' /\ RowTells'
  BY <1>1, <1>2 DEF Calm, OneObject, RowTells
<1>5. Undisturbed => RowCounts'
  BY <1>1, <1>2 DEF Calm, RowCounts, AttemptsBounded, Counted, Alive, Record
<1> QED
  BY <1>1, <1>3, <1>4, <1>5 DEF Calm, Undisturbed

\* A shutdown is counted when it begins and not again.
LEMMA ShutdownCounts ==
  ASSUME stops \in Nat,
         \/ proc = "up" /\ proc' = "cancelled" /\ stops' = stops + 1
         \/ proc = "cancelled" /\ proc' = "closed" /\ stops' = stops
         \/ proc = "closed" /\ proc' = "stopped" /\ stops' = stops
  PROVE  /\ Counted \in Nat /\ Counted' \in Nat /\ stops' \in Nat
         /\ Counted' + stops = Counted + stops'
<1>1. CASE proc = "up" /\ proc' = "cancelled" /\ stops' = stops + 1
  <2>1. Counted = 0 /\ Counted' = 1
    BY <1>1 DEF Counted
  <2> QED
    BY <1>1, <2>1
<1>2. CASE /\ proc \in {"cancelled", "closed"} /\ proc' \in {"closed", "stopped"}
           /\ stops' = stops
  <2>1. Counted = 1 /\ Counted' = 1
    BY <1>2 DEF Counted
  <2> QED
    BY <1>2, <2>1
<1> QED
  BY <1>1, <1>2

LEMMA NextKeepsCalm ==
  ASSUME IInv, IInv', Calm, [Next]_vars
  PROVE  Calm'
<1>1. ASSUME Alive, NEW o \in Objs, Run(o) PROVE Calm'
  <2>1. CASE SaveCommit(o)
    BY <1>1, <2>1, SaveKeepsCalm
  <2>2. CASE ~SaveCommit(o)
    BY <1>1, <2>2, RunHasMoves, MovesKeepCalm DEF IInv
  <2> QED
    BY <2>1, <2>2
<1>2. ASSUME Alive, NEW o \in Objs, Environment(o) PROVE Calm'
  BY <1>2, EnvironmentKeepsCalm
<1>3. ASSUME NEW o \in Objs, Boot(o) PROVE Calm'
  BY <1>3, BootKeepsCalm
<1> USE DEF IInv, Base, TypeOK, objVars, parseVars, tmVars, dbVars, history
<1>4. CASE CancelTask
  BY <1>4 DEF CancelTask, Calm, Undisturbed
<1>5. CASE RecoverRead
  <2>1. /\ proc = "up" /\ row # None /\ row.status \notin Terminal
        /\ UNCHANGED <<status, retries, url, at, saveW, saveC, saveP, parsing, entry, unhooked,
                       row, proc, cancels, overtaken, failures, stops>>
    BY <1>5 DEF RecoverRead, Recoverable, Terminal
  <2> QED
    BY <2>1 DEF Calm, Written, Undisturbed, OneObject, RowTells, RowCounts, AttemptsBounded,
      Counted, Snapshot
<1>6. CASE Forget
  <2>1. /\ entry # None /\ status[entry] \in Terminal /\ at[entry] = "done"
        /\ saveW[entry] = None /\ entry \notin parsing /\ recovering = None /\ entry' = None
        /\ UNCHANGED <<status, retries, url, at, saveW, saveC, saveP, parsing, unhooked,
                       recovering, row, proc, cancels, overtaken, failures, stops>>
    BY <1>6 DEF Forget
  <2> QED
    BY <2>1 DEF Calm, Written, Undisturbed, OneObject, RowTells, RowCounts, AttemptsBounded,
      Counted, Snapshot
<1>7. CASE ShutdownCancel \/ ShutdownClose \/ ShutdownEnd
  <2>1. /\ UNCHANGED <<status, retries, url, at, saveW, saveC, saveP, parsing, entry, unhooked,
                       recovering, row, cancels, overtaken, failures>>
        /\ \/ proc = "up" /\ proc' = "cancelled" /\ stops' = stops + 1
           \/ proc = "cancelled" /\ proc' = "closed" /\ stops' = stops
           \/ proc = "closed" /\ proc' = "stopped" /\ stops' = stops
    BY <1>7 DEF ShutdownCancel, ShutdownClose, ShutdownEnd
  <2>2. ~cancels => Written'
    BY <2>1 DEF Calm, Written, Snapshot
  <2>3. Undisturbed => OneObject' /\ RowTells'
    BY <2>1 DEF Calm, OneObject, RowTells
  <2>4. ASSUME Undisturbed PROVE RowCounts'
    <3> HIDE DEF IInv, Base, TypeOK
    <3>1. failures \in Nat /\ stops \in Nat /\ (row # None => row.retries \in Nat)
      BY DEF IInv, Base, TypeOK, Record
    <3>2. entry # None => retries[entry] \in Nat
      BY DEF IInv, Base, TypeOK
    <3>3. RowCounts
      BY <2>4 DEF Calm
    <3>4. /\ Counted \in Nat /\ Counted' \in Nat /\ stops' \in Nat
          /\ Counted' + stops = Counted + stops'
      BY <2>1, <3>1, ShutdownCounts
    <3>5. proc # "off" /\ proc' # "off" /\ stops' >= stops
      BY <2>1, <3>1
    <3>6. UNCHANGED <<failures, row, entry, retries, at, saveW, cancels, overtaken>>
      BY <2>1
    <3>7. AttemptsBounded'
      <4>1. failures <= MaxRetries + 1 + stops
        BY <2>4, <3>3 DEF RowCounts, AttemptsBounded, Undisturbed
      <4>2. MaxRetries \in Nat
        BY LifecycleAssumption
      <4>3. PICK t \in Nat : stops' = t /\ t >= stops
        BY <3>4, <3>5
      <4>4. failures' <= MaxRetries + 1 + stops'
        BY <3>1, <3>6, <4>1, <4>2, <4>3
      <4> QED
        BY <4>4 DEF AttemptsBounded
    <3>8. (row # None /\ row.status \notin Terminal =>
            failures + Counted <= row.retries + stops + IF proc = "off" THEN 0 ELSE 1)'
      BY <3>1, <3>3, <3>4, <3>5, <3>6 DEF RowCounts
    <3>9. entry # None =>
            failures + Counted' <= retries[entry] + stops' + IF at[entry] \in Trying THEN 0 ELSE 1
      BY <3>1, <3>2, <3>3, <3>4 DEF RowCounts
    <3> QED
      BY <3>3, <3>6, <3>7, <3>8, <3>9 DEF RowCounts
  <2> QED
    BY <2>1, <2>2, <2>3, <2>4 DEF Calm, Undisturbed
<1>8. CASE UNCHANGED vars
  BY <1>8 DEF vars, Calm, Written, Undisturbed, OneObject, RowTells, RowCounts, AttemptsBounded,
    Counted, Snapshot
<1> QED
  BY <1>1, <1>2, <1>3, <1>4, <1>5, <1>6, <1>7, <1>8, CrashKeepsCalm DEF Next

THEOREM CalmHolds == SafetySpec => [](IInv /\ Calm)
<1>1. Init => Calm
  <2> SUFFICES ASSUME Init PROVE Calm
    OBVIOUS
  <2>1. Written
    BY DEF Init, Written, Status, Terminal
  <2>2. OneObject /\ RowTells /\ RowCounts
    BY DEF Init, OneObject, RowTells, RowCounts, AttemptsBounded, Counted
  <2> QED
    BY <2>1, <2>2 DEF Calm
<1>2. IInv /\ IInv' /\ Calm /\ [Next]_vars => Calm'
  BY NextKeepsCalm
<1> QED
  BY <1>1, <1>2, IInvHolds, PTL DEF SafetySpec

-----------------------------------------------------------------------------
\* As long as the user cancels nothing and no parser writes late, the engine fails at
\* most once for each retry, once for each restart, and once more.
THEOREM AttemptsStayBounded == Spec => []AttemptsBounded
<1>1. Calm => AttemptsBounded
  BY DEF Calm, Undisturbed, RowCounts, AttemptsBounded
<1> QED
  BY <1>1, CalmHolds, PTL DEF Spec

\* When the run of the object in tm.Tasks is over, its result is in the row.
THEOREM RowSettles == Spec => []SettledRow
<1>1. Calm => SettledRow
  BY DEF Calm, Undisturbed, RowTells, SettledRow
<1> QED
  BY <1>1, CalmHolds, PTL DEF Spec

\* While the process lives, and after a shutdown as it left things, the row and the
\* object in tm.Tasks do not contradict each other about whether the task is over: an
\* open row has an object that is not over either, or is about to write its result;
\* an object that is not over has an open row, or its first save is still to come.  So
\* what Shutdown finds running is in the database for the next start to take up
\* (bot_service.go 150-171, task_manager.go 157-215, recovery.go).
RowMirrorsTask ==
  (~cancels /\ ~overtaken /\ proc # "off") =>
    /\ row # None /\ row.status \notin Terminal =>
         entry # None /\ (status[entry] \in Terminal => saveW[entry] # None)
    /\ entry # None /\ status[entry] \notin Terminal =>
         \/ row = None /\ at[entry] = "queued" /\ saveW[entry] # None
         \/ row # None /\ row.status \notin Terminal

THEOREM RowAndObjectAgree == Spec => []RowMirrorsTask
<1>1. ASSUME IInv, Calm, Undisturbed, proc # "off" PROVE RowMirrorsTask
  <2>1. OneObject /\ RowTells
    BY <1>1 DEF Calm
  <2>2. entry # None => entry \in Objs /\ at[entry] # "none"
    BY <1>1 DEF IInv, Base, TypeOK, Incarnated
  <2>3. ASSUME row # None, row.status \notin Terminal
        PROVE  entry # None /\ (status[entry] \in Terminal => saveW[entry] # None)
    BY <1>1, <2>1, <2>3 DEF OneObject, RowTells
  <2>4. ASSUME entry # None, status[entry] \notin Terminal
        PROVE  \/ row = None /\ at[entry] = "queued" /\ saveW[entry] # None
               \/ row # None /\ row.status \notin Terminal
    BY <2>1, <2>2, <2>4 DEF RowTells
  <2> QED
    BY <2>3, <2>4 DEF RowMirrorsTask
<1>2. IInv /\ Calm => RowMirrorsTask
  BY <1>1 DEF RowMirrorsTask, Undisturbed
<1> QED
  BY <1>2, CalmHolds, PTL DEF Spec

-----------------------------------------------------------------------------
\* A row, once written, is never missing again, and what is stored about the task is
\* one of the words of the contract.
LEMMA StoredIsKnown ==
  ASSUME TypeOK
  PROVE  /\ row # None <=> Stored # "none"
         /\ row # None => Stored = IF row.status \in Terminal THEN row.status ELSE "open"
         /\ Stored \in {"none", "open"} \cup Terminal
BY DEF TypeOK, Stored, Record, Status, Terminal

\* A write of the row while the contract is suspended.
LEMMA WriteDisturbs ==
  ASSUME IInv', Calm', row' # None, cancels' \/ overtaken',
         overtaken' \in {overtaken, TRUE}, UNCHANGED <<failures, stops, cancels>>
  PROVE  Contract!Disturb
<1>1. Stored' \in {"open"} \cup Terminal
  BY StoredIsKnown DEF IInv, Base, Stored, Record, Status, Terminal, TypeOK
<1>2. ~cancels' => Stored' # "cancelled"
  BY DEF Calm, Written, Stored
<1>3. cancels \/ overtaken'
  BY Zenon
<1> QED
  BY <1>1, <1>2, <1>3 DEF Contract!Disturb, Terminal

\* The row is written with the object as it stands.
LEMMA FollowingImplements ==
  ASSUME IInv, IInv', Calm, Undisturbed, Alive, NEW o \in Objs,
         saveW[o] # None \/ o \in parsing, RowFollows(o), UNCHANGED <<cancels, overtaken>>
  PROVE  [Contract!Next]_(Contract!vars)
<1> USE DEF RowFollows, tmVars
<1>1. Written /\ OneObject /\ RowTells
  BY DEF Calm, Undisturbed
<1>2. at[o] # "none" /\ o = entry /\ entry # None /\ status[o] # "cancelled"
  BY <1>1 DEF Written, OneObject, IInv, Base, Incarnated
<1>3. Stored' = IF status[o] \in Terminal THEN status[o] ELSE "open"
  BY DEF Stored
<1>4. CASE row = None
  <2>1. status[o] = "queued"
    BY <1>1, <1>2, <1>4 DEF RowTells
  <2> QED
    BY <1>3, <1>4, <2>1 DEF Stored, Terminal, Contract!Next, Contract!Accept
<1>5. CASE row # None /\ row.status \in Terminal
  <2>1. Stored' = Stored
    BY <1>1, <1>2, <1>3, <1>5 DEF RowTells, Stored
  <2> QED
    BY <2>1 DEF Contract!vars
<1>6. CASE row # None /\ row.status \notin Terminal
  <2>1. Stored = "open"
    BY <1>6 DEF Stored
  <2>2. CASE status[o] \in Terminal
    BY <1>2, <1>3, <2>1, <2>2 DEF Terminal, Contract!Next, Contract!End
  <2>3. CASE status[o] \notin Terminal
    BY <1>3, <2>1, <2>3 DEF Contract!vars
  <2> QED
    BY <2>2, <2>3
<1> QED
  BY <1>4, <1>5, <1>6

\* Every step is a step of the contract or leaves what it speaks of alone.
LEMMA StepImplements ==
  ASSUME IInv, IInv', Calm, Calm', [Next]_vars
  PROVE  [Contract!Next]_(Contract!vars)
<1> USE DEF tmVars, dbVars, history, objVars, parseVars
<1>1. ASSUME UNCHANGED <<row, failures, stops, cancels, overtaken>>
      PROVE  [Contract!Next]_(Contract!vars)
  BY <1>1 DEF Stored, Contract!vars
<1>2. ASSUME Alive, NEW o \in Objs, Run(o) PROVE [Contract!Next]_(Contract!vars)
  <2>1. CASE SaveCommit(o)
    <3>1. UNCHANGED <<failures, stops, cancels, overtaken>> /\ saveW[o] # None
      BY <2>1 DEF SaveCommit
    <3>2. row' \in Record /\ row' # None
      BY <2>1 DEF SaveCommit, Upsert, Record, IInv, Base, TypeOK
    <3>3. CASE Undisturbed
      <4>1. Written
        BY <3>3 DEF Calm, Undisturbed
      <4>2. saveW[o].status = status[o] /\ saveW[o].retries = retries[o]
        <5>1. saveW[o] = Snapshot(o, status[o])
          BY <1>2, <3>1, <4>1 DEF Written
        <5> QED
          BY <5>1 DEF Snapshot
      <4>3. RowFollows(o)
        BY <2>1, <3>2, <4>2 DEF SaveCommit, Upsert, RowFollows
      <4> QED
        BY <1>2, <3>1, <3>3, <4>3, FollowingImplements
    <3>4. CASE ~Undisturbed
      BY <3>1, <3>2, <3>4, WriteDisturbs DEF Undisturbed, Contract!Next
    <3> QED
      BY <3>3, <3>4
  <2>2. CASE ~SaveCommit(o)
    <3>1. RunMoves(o)
      BY <1>2, <2>2, RunHasMoves DEF IInv
    <3>2. UNCHANGED <<row, stops, cancels, overtaken>>
      BY <3>1 DEF RunMoves
    <3>3. CASE failures' = failures
      BY <1>1, <3>2, <3>3
    <3>4. CASE Fails(o)
      <4>1. Undisturbed => Stored = "open" /\ failures <= MaxRetries + stops
        <5> SUFFICES ASSUME Undisturbed PROVE Stored = "open" /\ failures <= MaxRetries + stops
          OBVIOUS
        <5>1. Written /\ OneObject /\ RowTells /\ RowCounts
          BY DEF Calm, Undisturbed
        <5>2. o = entry /\ entry # None /\ row # None /\ at[o] = "download"
          BY <3>4, <5>1 DEF Fails, OneObject, RowTells
        <5>3. status[o] \notin Terminal
          BY <5>1, <5>2 DEF Written, IInv, Base, EndedRun, Terminal
        <5>4. row.status \notin Terminal
          BY <5>1, <5>2, <5>3 DEF RowTells
        <5>5. failures + Counted <= retries[o] + stops
          BY <5>1, <5>2 DEF RowCounts, Trying, IInv, Base, TypeOK, Counted
        <5>6. failures <= MaxRetries + stops
          BY <5>5 DEF Counted, IInv, Base, TypeOK
        <5> QED
          BY <5>2, <5>4, <5>6 DEF Stored
      <4>2. Stored' = Stored
        BY <3>2 DEF Stored
      <4> QED
        BY <3>2, <3>4, <4>1, <4>2
        DEF Fails, Undisturbed, Contract!Next, Contract!AttemptFails, Contract!Undisturbed
    <3> QED
      BY <3>1, <3>3, <3>4 DEF RunMoves, CarriesOn, Retries
  <2> QED
    BY <2>1, <2>2
<1>3. ASSUME Alive, NEW o \in Objs, Environment(o) PROVE [Contract!Next]_(Contract!vars)
  <2>1. CASE ParserCommit(o)
    <3>1. /\ UNCHANGED <<failures, stops, cancels>> /\ saveP[o] # None
          /\ overtaken' = (overtaken \/ saveP[o] # Snapshot(o, status[o]))
      BY <2>1 DEF ParserCommit
    <3>2. row' \in Record /\ row' # None
      BY <2>1 DEF ParserCommit, Upsert, Record, IInv, Base, TypeOK
    <3>3. overtaken \in BOOLEAN /\ overtaken' \in BOOLEAN
      BY DEF IInv, Base, TypeOK
    <3>4. CASE Undisturbed'
      <4>1. ~overtaken /\ ~overtaken' /\ saveP[o] = Snapshot(o, status[o])
        BY <3>1, <3>4, Zenon DEF Undisturbed
      <4>2. ~cancels /\ ~cancels'
        BY <3>1, <3>4 DEF Undisturbed
      <4>3. cancels' = cancels /\ overtaken' = overtaken
        <5>1. overtaken = FALSE /\ overtaken' = FALSE
          BY <3>3, <4>1, Zenon
        <5> QED
          BY <3>1, <5>1, Zenon
      <4>4. RowFollows(o) /\ o \in parsing
        BY <2>1, <3>1, <3>2, <4>1, <4>2
        DEF Calm, ParserCommit, Upsert, RowFollows, Written, Snapshot
      <4> QED
        BY <1>3, <4>1, <4>2, <4>3, <4>4, FollowingImplements DEF Undisturbed
    <3>5. CASE ~Undisturbed'
      <4>1. overtaken' \in {overtaken, TRUE}
        <5>1. CASE overtaken'
          <6>1. overtaken' = TRUE
            BY <3>3, <5>1, Zenon
          <6> QED
            BY <6>1, Zenon
        <5>2. CASE ~overtaken'
          <6>1. ~overtaken
            BY <3>1, <5>2, Zenon
          <6>2. overtaken' = FALSE /\ overtaken = FALSE
            BY <3>3, <5>2, <6>1, Zenon
          <6> QED
            BY <6>2, Zenon
        <5> QED
          BY <5>1, <5>2
      <4> QED
        BY <3>1, <3>2, <3>5, <4>1, WriteDisturbs DEF Undisturbed, Contract!Next
    <3> QED
      BY <3>4, <3>5
  <2>2. CASE CancelCommit(o)
    <3>1. UNCHANGED <<failures, stops, cancels, overtaken>>
      BY <2>2 DEF CancelCommit
    <3>2. row' \in Record /\ row' # None
      BY <2>2 DEF CancelCommit, Upsert, Record, IInv, Base, TypeOK
    <3>3. cancels
      BY <2>2 DEF CancelCommit, Calm, Written
    <3> QED
      BY <3>1, <3>2, <3>3, WriteDisturbs DEF Contract!Next
  <2>3. CASE CreateTask(o)
    BY <1>1, <2>3 DEF CreateTask
  <2>4. CASE CheckpointTick(o) \/ ParserProgress(o) \/ ParserEnds(o)
    BY <1>1, <2>4 DEF CheckpointTick, ParserProgress, ParserEnds
  <2>5. CASE CancelMark(o)
    BY <1>1, <2>5 DEF CancelMark
  <2>6. CASE RecoverInsert(o)
    BY <1>1, <2>6 DEF RecoverInsert
  <2> QED
    BY <1>3, <2>1, <2>2, <2>3, <2>4, <2>5, <2>6 DEF Environment
<1>4. CASE CancelTask
  BY <1>4 DEF CancelTask, Stored, Contract!Next, Contract!Ask
<1>5. CASE ShutdownCancel \/ Crash
  BY <1>5 DEF ShutdownCancel, Crash, Stored, Contract!Next, Contract!Restart
<1>6. CASE RecoverRead \/ Forget \/ ShutdownClose \/ ShutdownEnd
  BY <1>1, <1>6 DEF RecoverRead, Forget, ShutdownClose, ShutdownEnd
<1>7. ASSUME NEW o \in Objs, Boot(o) PROVE [Contract!Next]_(Contract!vars)
  BY <1>1, <1>7 DEF Boot
<1>8. CASE UNCHANGED vars
  BY <1>1, <1>8 DEF vars
<1> QED
  BY <1>2, <1>3, <1>4, <1>5, <1>6, <1>7, <1>8 DEF Next

\* What a user of a task is promised is what the program does, whatever its
\* goroutines, saves, recoveries, shutdowns and crashes do to one another.
THEOREM ContractIsKept == Spec => KeepsContract
<1>1. Init => Contract!Init
  BY DEF Init, Stored, Contract!Init
<1>2. IInv /\ IInv' /\ Calm /\ Calm' /\ [Next]_vars => [Contract!Next]_(Contract!vars)
  BY StepImplements
<1> QED
  BY <1>1, <1>2, CalmHolds, PTL DEF Spec, SafetySpec, KeepsContract, Contract!Spec
=============================================================================
