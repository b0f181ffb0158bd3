-------------------------------- MODULE Batch --------------------------------
(***************************************************************************)
(* One batch: the goroutine of processBatchTask hands the items one by one *)
(* to goroutines of their own, at most MaxParallel at a time, joins them,  *)
(* zips and uploads the lot if asked to, and cleans up.  Meanwhile a       *)
(* callback may cancel the batch and a command may cancel single items.    *)
(*                                                                         *)
(*   internal/service/batch_manager.go                                     *)
(*                                                                         *)
(* The tools (aria2c, 7z, rclone) answer as they like.  An item's status   *)
(* stands for its row too: SaveToDB's own races are TaskLifecycle's.       *)
(***************************************************************************)
EXTENDS Integers, FiniteSets

CONSTANTS
  N,            \* len(batch.URLs)
  MaxParallel   \* capacity of the semaphore (3 in the code)

ASSUME BatchAssumption == N \in Nat \ {0} /\ MaxParallel \in Nat \ {0}

Items == 1..N

VARIABLES
  zipAll,     \* batch.ZipAll
  status,     \* batch.Status
  ctxDone,    \* batch.Ctx is cancelled
  cancelling, \* a callback is inside BatchTask.Cancel, past CancelFunc
  runner,     \* where processBatchTask is
  next,       \* index of the loop over batch.URLs
  sem,        \* tokens in the semaphore
  stage,      \* [Items -> Stage]: where the item's goroutine is
  sub,        \* [Items -> SubStatus]: status of the item's task
  completed,  \* batch.Completed
  failed,     \* batch.Failed
  dir         \* the batch's download directory: "none", "made", "removed"

batchVars  == <<status, ctxDone, cancelling>>
runnerVars == <<runner, next, dir>>
itemVars   == <<sem, stage, sub, completed, failed>>
vars       == <<zipAll, batchVars, runnerVars, itemVars>>

Terminal == {"completed", "failed", "cancelled"}

Status == {"queued", "downloading", "zipping", "uploading"} \cup Terminal

SubStatus == {"queued", "downloading", "uploading"} \cup Terminal

\* idle: no goroutine yet; leaving: counted, with the defers still to run.
Stage == {"idle", "spawned", "download", "downloaded", "upload", "leaving", "gone"}

Runner == {"start", "loop", "acquire", "zip", "upload", "finish", "announce",
           "returned"}

InStage(S) == {k \in Items : stage[k] \in S}

Running == InStage({"spawned", "download", "downloaded", "upload", "leaving"})

Init ==
  /\ zipAll \in BOOLEAN
  /\ status = "queued" /\ ctxDone = FALSE /\ cancelling = FALSE
  /\ runner = "start" /\ next = 1 /\ dir = "none"
  /\ sem = 0
  /\ stage = [k \in Items |-> "idle"]
  /\ sub = [k \in Items |-> "queued"]
  /\ completed = 0 /\ failed = 0

-----------------------------------------------------------------------------
\* A BatchTask.SetStatus without its early return.
SetStatusUnguarded(s) == status' = s

\* BatchTask.SetStatus, and SetError which ends in it.
SetStatus(s) == status' = IF status = "cancelled" THEN "cancelled" ELSE s

\* Task.SetStatus and SetError of item k.
SubSet(k, s) == sub' = [sub EXCEPT ![k] = IF @ = "cancelled" THEN @ ELSE s]

Goto(k, from, to) == stage[k] = from /\ stage' = [stage EXCEPT ![k] = to]

-----------------------------------------------------------------------------
(* processBatchTask.                                                       *)

\* MkdirAll fails: the batch is over before any item.
StartFails ==
  /\ runner = "start"
  /\ runner' = "returned"
  /\ SetStatus("failed")
  /\ UNCHANGED <<zipAll, ctxDone, cancelling, next, dir, itemVars>>

Start ==
  /\ runner = "start"
  /\ runner' = "loop" /\ dir' = "made"
  /\ SetStatus("downloading")
  /\ UNCHANGED <<zipAll, ctxDone, cancelling, next, itemVars>>

\* A loop that tidies up before it returns.
LoopCancelledCleansUp ==
  /\ runner = "loop" /\ next <= N /\ ctxDone
  /\ runner' = "returned" /\ dir' = "removed"
  /\ SetStatus("cancelled")
  /\ UNCHANGED <<zipAll, ctxDone, cancelling, next, itemVars>>

\* The loop finds the context cancelled: it returns at once, with the goroutines
\* it has started still running and the directory in place.
LoopCancelled ==
  /\ runner = "loop" /\ next <= N /\ ctxDone
  /\ runner' = "returned"
  /\ SetStatus("cancelled")
  /\ UNCHANGED <<zipAll, ctxDone, cancelling, next, dir, itemVars>>

LoopNext ==
  /\ runner = "loop" /\ next <= N /\ ~ctxDone
  /\ runner' = "acquire"
  /\ UNCHANGED <<zipAll, batchVars, next, dir, itemVars>>

\* A loop that leaves the semaphore to the goroutines.
SpawnUnbounded ==
  /\ runner = "acquire"
  /\ sem' = sem + 1
  /\ Goto(next, "idle", "spawned")
  /\ next' = next + 1
  /\ runner' = "loop"
  /\ UNCHANGED <<zipAll, batchVars, dir, sub, completed, failed>>

\* semaphore <- struct{}{}, then the goroutine of item next.
Spawn ==
  /\ runner = "acquire" /\ sem < MaxParallel
  /\ sem' = sem + 1
  /\ Goto(next, "idle", "spawned")
  /\ next' = next + 1
  /\ runner' = "loop"
  /\ UNCHANGED <<zipAll, batchVars, dir, sub, completed, failed>>

\* wg.Add forgotten: wg.Wait has nothing to wait for.
JoinedAtOnce == runner = "loop" /\ next > N

\* wg.Wait returns.
Joined == runner = "loop" /\ next > N /\ Running = {}

JoinedCancelled ==
  /\ Joined /\ ctxDone
  /\ runner' = "returned" /\ dir' = "removed"
  /\ SetStatus("cancelled")
  /\ UNCHANGED <<zipAll, ctxDone, cancelling, next, itemVars>>

JoinedZip ==
  /\ Joined /\ ~ctxDone /\ zipAll /\ completed > 0
  /\ runner' = "zip"
  /\ SetStatus("zipping")
  /\ UNCHANGED <<zipAll, ctxDone, cancelling, next, dir, itemVars>>

JoinedFinish ==
  /\ Joined /\ ~ctxDone /\ ~(zipAll /\ completed > 0)
  /\ runner' = "finish"
  /\ UNCHANGED <<zipAll, batchVars, next, dir, itemVars>>

\* 7z and rclone succeed.  zipBatchResults looks at the status after 7z is done, but
\* a cancel may come between that look and the next line.
Zipped ==
  /\ runner = "zip"
  /\ runner' = "upload"
  /\ SetStatus("uploading")
  /\ UNCHANGED <<zipAll, ctxDone, cancelling, next, dir, itemVars>>

Uploaded ==
  /\ runner = "upload"
  /\ runner' = "finish"
  /\ UNCHANGED <<zipAll, batchVars, next, dir, itemVars>>

\* Zip or upload failed, or the batch was cancelled meanwhile.
PackFails ==
  /\ runner \in {"zip", "upload"}
  /\ runner' = "returned" /\ dir' = "removed"
  /\ SetStatus("failed")
  /\ UNCHANGED <<zipAll, ctxDone, cancelling, next, itemVars>>

Finish ==
  /\ runner = "finish"
  /\ runner' = "announce"
  /\ SetStatus("completed")
  /\ UNCHANGED <<zipAll, ctxDone, cancelling, next, dir, itemVars>>

\* sendBatchCompletionMessage and cleanupBatch.
Announce ==
  /\ runner = "announce"
  /\ runner' = "returned" /\ dir' = "removed"
  /\ UNCHANGED <<zipAll, batchVars, next, itemVars>>

-----------------------------------------------------------------------------
(* An item's goroutine.                                                    *)

ItemBegins(k) ==
  /\ Goto(k, "spawned", "download")
  /\ SubSet(k, "downloading")
  /\ UNCHANGED <<zipAll, batchVars, runnerVars, sem, completed, failed>>

ItemDownloaded(k) ==
  /\ Goto(k, "download", "downloaded")
  /\ UNCHANGED <<zipAll, batchVars, runnerVars, sem, sub, completed, failed>>

ItemUploads(k) ==
  /\ ~zipAll
  /\ Goto(k, "downloaded", "upload")
  /\ SubSet(k, "uploading")
  /\ UNCHANGED <<zipAll, batchVars, runnerVars, sem, completed, failed>>

\* An upload failure that is counted twice, as it would be if the download's
\* error branch were entered as well.
ItemFailsTwice(k) ==
  /\ stage[k] \in {"download", "upload"}
  /\ stage' = [stage EXCEPT ![k] = "leaving"]
  /\ SubSet(k, "failed")
  /\ failed' = failed + IF stage[k] = "upload" THEN 2 ELSE 1
  /\ UNCHANGED <<zipAll, batchVars, runnerVars, sem, completed>>

\* The download or the upload fails or is cut short by its context.
ItemFails(k) ==
  /\ stage[k] \in {"download", "upload"}
  /\ stage' = [stage EXCEPT ![k] = "leaving"]
  /\ SubSet(k, "failed")
  /\ failed' = failed + 1
  /\ UNCHANGED <<zipAll, batchVars, runnerVars, sem, completed>>

\* Uploaded, or kept for the archive.
ItemCompletes(k) ==
  /\ stage[k] = IF zipAll THEN "downloaded" ELSE "upload"
  /\ stage' = [stage EXCEPT ![k] = "leaving"]
  /\ SubSet(k, "completed")
  /\ completed' = completed + 1
  /\ UNCHANGED <<zipAll, batchVars, runnerVars, sem, failed>>

\* The goroutine ends without giving its token back.
ItemLeavesKeepingToken(k) ==
  /\ Goto(k, "leaving", "gone")
  /\ UNCHANGED <<zipAll, batchVars, runnerVars, sem, sub, completed, failed>>

\* The deferred receive from the semaphore and wg.Done.
ItemLeaves(k) ==
  /\ Goto(k, "leaving", "gone")
  /\ sem' = sem - 1
  /\ UNCHANGED <<zipAll, batchVars, runnerVars, sub, completed, failed>>

-----------------------------------------------------------------------------
(* The user.                                                               *)

\* BatchTask.Cancel: CancelFunc first, ...
Cancel ==
  /\ ~cancelling
  /\ ctxDone' = TRUE /\ cancelling' = TRUE
  /\ UNCHANGED <<zipAll, status, runnerVars, itemVars>>

\* A Cancel that does not look whether the batch is over.
CancelMarkUnguarded ==
  /\ cancelling
  /\ cancelling' = FALSE
  /\ status' = "cancelled"
  /\ UNCHANGED <<zipAll, ctxDone, runnerVars, itemVars>>

\* ... then the status, under the lock.
CancelMark ==
  /\ cancelling
  /\ cancelling' = FALSE
  /\ status' = IF status \in Terminal THEN status ELSE "cancelled"
  /\ UNCHANGED <<zipAll, ctxDone, runnerVars, itemVars>>

\* BatchManager.CancelSubTask, Task.Cancel.
CancelSubTask(k) ==
  /\ sub[k] \notin Terminal
  /\ sub' = [sub EXCEPT ![k] = "cancelled"]
  /\ UNCHANGED <<zipAll, batchVars, runnerVars, sem, stage, completed, failed>>

-----------------------------------------------------------------------------
RunnerStep ==
  \/ StartFails \/ Start \/ LoopCancelled \/ LoopNext \/ Spawn
  \/ JoinedCancelled \/ JoinedZip \/ JoinedFinish
  \/ Zipped \/ Uploaded \/ PackFails \/ Finish \/ Announce

ItemStep(k) ==
  \/ ItemBegins(k) \/ ItemDownloaded(k) \/ ItemUploads(k)
  \/ ItemFails(k) \/ ItemCompletes(k) \/ ItemLeaves(k)

Next ==
  \/ RunnerStep
  \/ \E k \in Items : ItemStep(k) \/ CancelSubTask(k)
  \/ Cancel \/ CancelMark

\* Goroutines are scheduled.  aria2c, 7z and rclone are owed to return only once
\* their context is cancelled; RunnerStep waits for a tool in "zip" and "upload".
Fairness ==
  /\ WF_vars(RunnerStep /\ (ctxDone \/ runner \notin {"zip", "upload"}))
  /\ \A k \in Items :
       WF_vars(ItemStep(k) /\ (\/ ctxDone \/ sub[k] = "cancelled"
                               \/ stage[k] \notin {"download", "upload"}))
  /\ WF_vars(CancelMark)

Spec == Init /\ [][Next]_vars /\ Fairness

-----------------------------------------------------------------------------
(* Properties.                                                             *)

TypeOK ==
  /\ zipAll \in BOOLEAN
  /\ status \in Status /\ ctxDone \in BOOLEAN /\ cancelling \in BOOLEAN
  /\ runner \in Runner /\ next \in 1..(N + 1)
  /\ sem \in 0..MaxParallel
  /\ stage \in [Items -> Stage]
  /\ sub \in [Items -> SubStatus]
  /\ completed \in 0..N /\ failed \in 0..N
  /\ dir \in {"none", "made", "removed"}

Count(s) == Cardinality({k \in Items : sub[k] = s})

\* The batch's counters and its items tell the same story (283-321): every item
\* that has finished was counted once, and the counters disagree with the items'
\* statuses only by items the user cancelled, which one or the other has absorbed.
CountersMatch ==
  /\ completed + failed = Cardinality(InStage({"leaving", "gone"}))
  /\ completed \in Count("completed") .. Count("completed") + Count("cancelled")
  /\ failed \in Count("failed") .. Count("failed") + Count("cancelled")

\* A batch that says completed has waited for all its items (327, 362): none is
\* running and none was left out.  (A cancel after the last look at the context, 329,
\* comes too late for the verdict.)
CompletedMeansAllIn ==
  status = "completed" => /\ InStage({"gone"}) = Items
                          /\ completed + failed = N

\* cleanupBatch (333, 346, 357, 367) never takes the files away from a goroutine
\* that still works on them.
NoCleanupUnderWork == dir = "removed" => Running = {}

\* How far the batch has come, as its user sees it.
Verdict == IF status \in Terminal THEN status ELSE "open"

Contract == INSTANCE BatchContract
              WITH verdict <- Verdict, asked <- ctxDone,
                   chosen <- IF runner = "acquire" THEN next ELSE next - 1,
                   begun <- next - 1,
                   good <- completed, bad <- failed, files <- dir

\* The loop, its select on the context, the goroutines, Cancel in its two steps and the
\* clean-ups come to one promise (module BatchContract): no item is taken up that was not
\* chosen before the cancel (264-272), each is counted once, the verdict is the first that
\* is recorded ("Idempotent: late completions cannot overwrite the cancellation", 688-690)
\* and the counts bear it out, and the files are there as long as anybody needs them.
KeepsContract == Contract!Spec

\* A cancelled batch comes to an end (264-272, 327-336): the runner returns and no
\* goroutine of an item is left, whatever the tools were doing.
CancelEnds == ctxDone ~> runner = "returned" /\ Running = {}

\* "Cancel terminates the batch and its sub-tasks via context propagation" (688):
\* when all is quiet after a cancel, no sub-task is left active.
CancelTerminatesSubTasks ==
  (status = "cancelled" /\ runner = "returned" /\ Running = {})
  => \A k \in Items : sub[k] \in Terminal
=============================================================================
