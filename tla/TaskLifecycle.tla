---------------------------- MODULE TaskLifecycle ----------------------------
(***************************************************************************)
(* The life of one task id: the task objects that carry it (a restart or   *)
(* /recover makes a new object for the same id), the entry of tm.Tasks,    *)
(* the run of a worker through download, unpacking and upload, the retry   *)
(* goroutine, the checkpoint goroutine, CancelTask, recovery, shutdown and *)
(* crash, and the two database rows all of them write.                     *)
(*                                                                         *)
(*   internal/service: task_manager.go (CreateTask, SaveToDB, CancelTask,  *)
(*   SetStatus, SetError), task_processor.go, archive.go, clone.go,        *)
(*   download.go, upload.go, recovery.go, bot_service.go (Shutdown);       *)
(*   internal/recovery/checkpoint.go; internal/database (the external rows)*)
(*                                                                         *)
(* SaveToDB is two steps, as in the code: the snapshot under the task's    *)
(* lock, and later the write.  Which engine, uploader or archive option a  *)
(* task has is a choice, as is what the external tools answer.  WorkQueue  *)
(* models how a queued object reaches a worker.                            *)
(***************************************************************************)
EXTENDS Integers, FiniteSets

CONSTANTS
  Objs,         \* task objects one process may make for the id
  MaxRetries,   \* cfg.MaxRetries
  MaxStops,     \* bound on how often the process is shut down or dies
  Links,        \* the kinds of URL users hand in, a subset of Url
  None          \* "no object", "no row", "nothing to save"

\* A Telegram file id, a local file, something an engine fetches (aria2, mega,
\* rclone), something yt-dlp fetches, a message whose file the userbot fetches, a
\* Drive folder that rclone clones from remote to remote.
Url == {"tgfileid", "file", "remote", "media", "tgmsg", "drive"}

Terminal == {"completed", "failed", "cancelled"}

Status == {"queued", "fetching", "downloading", "extracting", "zipping",
           "uploading"} \cup Terminal

Record == [status : Status, retries : 0..MaxRetries, url : Url]

ASSUME LifecycleAssumption ==
  /\ Links \subseteq Url
  /\ MaxRetries \in Nat
  /\ MaxStops \in Nat
  /\ None \notin Objs \cup Url \cup Status
  /\ None \notin Record

VARIABLES
  status,     \* [Objs -> Status \cup {None}]: task.Status
  retries,    \* [Objs -> Nat]: task.RetryCount
  url,        \* [Objs -> Url \cup {None}]: task.URL, by kind
  at,         \* [Objs -> Place]: where the goroutine that owns the object is
  saveW,      \* [Objs -> Record \cup {None}]: that goroutine's unwritten snapshot
  saveC,      \* [Objs -> Record \cup {None}]: the canceller's unwritten snapshot
  saveP,      \* [Objs -> Record \cup {None}]: the yt-dlp parser's unwritten snapshot
  parsing,    \* objects with a goroutine that parses yt-dlp's output
  ctxDone,    \* objects whose context is cancelled
  ticking,    \* objects with a goroutine in StartPeriodicCheckpoint
  entry,      \* tm.Tasks[id], or None
  unhooked,   \* objects CancelTask has taken out of tm.Tasks but not yet marked
  recovering, \* the record RecoverIncompleteTasks has read, or None
  row,        \* the id's record in table tasks, or None
  cp,         \* the id has a row in task_checkpoints
  proc,       \* the process and how far its shutdown is
  cancelled,  \* objects CancelTask has marked cancelled (history)
  cancels,    \* the user has asked for a cancel of the id (history)
  overtaken,  \* a parser's old snapshot was written last (history)
  failures,   \* failed engine runs so far (history)
  stops       \* shutdowns and crashes so far (history, bounded by MaxStops)

parseVars == <<saveP, parsing>>
objVars == <<status, retries, url, at, saveW, saveC, parseVars, ctxDone, ticking>>
tmVars  == <<entry, unhooked, recovering>>
dbVars  == <<row, cp>>
history == <<cancelled, cancels, overtaken, failures, stops>>
vars    == <<objVars, tmVars, dbVars, proc, history>>

Place == {"none", "queued", "picked", "resolve", "resolved", "prepare", "download",
          "copy", "clone", "failing", "post", "extract", "zip", "upload", "cleanup",
          "backoff", "done", "stranded"}

\* The process is alive, and may be part of the way through Shutdown.
Alive == proc \in {"up", "cancelled", "closed"}

IsShuttingDown == proc = "closed"

Init ==
  /\ status = [o \in Objs |-> None]
  /\ retries = [o \in Objs |-> 0]
  /\ url = [o \in Objs |-> None]
  /\ at = [o \in Objs |-> "none"]
  /\ saveW = [o \in Objs |-> None]
  /\ saveC = [o \in Objs |-> None]
  /\ saveP = [o \in Objs |-> None] /\ parsing = {}
  /\ ctxDone = {} /\ ticking = {}
  /\ entry = None /\ unhooked = {} /\ recovering = None
  /\ row = None /\ cp = FALSE
  /\ proc = "up"
  /\ cancelled = {} /\ cancels = FALSE /\ overtaken = FALSE /\ failures = 0 /\ stops = 0

-----------------------------------------------------------------------------
(* Status and persistence helpers.                                         *)

\* The owning goroutine moves on; it has no unwritten snapshot.
Goto(o, from, to) ==
  /\ at[o] \in from
  /\ saveW[o] = None
  /\ at' = [at EXCEPT ![o] = to]

\* The row as the object would write it, with status s.
Snapshot(o, s) == [status |-> s, retries |-> retries[o], url |-> url[o]]

\* A SetStatus without its early return.
SetStatusUnguarded(o, s) ==
  /\ status' = [status EXCEPT ![o] = s]
  /\ saveW' = [saveW EXCEPT ![o] = Snapshot(o, s)]

\* A SetStatus that takes the snapshot before it changes the status.
SetStatusSavesFirst(o, s) ==
  /\ status' = [status EXCEPT ![o] = IF @ = "cancelled" THEN @ ELSE s]
  /\ saveW' = [saveW EXCEPT ![o] = Snapshot(o, status[o])]

\* SetStatus and SetError: a cancelled task keeps its status; the save is owed
\* either way.
SetStatus(o, s) ==
  LET new == IF status[o] = "cancelled" THEN "cancelled" ELSE s IN
    /\ status' = [status EXCEPT ![o] = new]
    /\ saveW' = [saveW EXCEPT ![o] = Snapshot(o, new)]

SetError(o) == SetStatus(o, "failed")

\* DB.Save: an update leaves the columns alone that its ON CONFLICT does not name.
Upsert(rec) ==
  row' = [status |-> rec.status, retries |-> rec.retries,
          url |-> IF row = None THEN rec.url ELSE row.url]

\* The save by the goroutine that owns the object.
SaveCommit(o) ==
  /\ saveW[o] # None
  /\ Upsert(saveW[o])
  /\ saveW' = [saveW EXCEPT ![o] = None]
  /\ UNCHANGED <<status, retries, url, at, saveC, parseVars, ctxDone, ticking, tmVars,
                 cp, proc, history>>

\* The only steps of a run that touch more than its object and its snapshot are
\* listed one by one; the others leave all of this alone.
runFrame == <<retries, url, saveC, parseVars, ctxDone, ticking, tmVars, dbVars,
              proc, history>>

-----------------------------------------------------------------------------
(* A task object and its run.                                              *)

\* A new object with r retries behind it enters tm.Tasks and the queue.
NewObject(o, r, u) ==
  /\ at[o] = "none"
  /\ at' = [at EXCEPT ![o] = "queued"]
  /\ status' = [status EXCEPT ![o] = "queued"]
  /\ retries' = [retries EXCEPT ![o] = r]
  /\ url' = [url EXCEPT ![o] = u]
  /\ entry' = o

\* CreateTask; the worker cannot have the object before the first save is done.
CreateTask(o) ==
  /\ proc = "up" /\ row = None
  /\ \A p \in Objs : at[p] = "none"
  /\ \E u \in Links :
       /\ NewObject(o, 0, u)
       /\ saveW' = [saveW EXCEPT ![o] = [status |-> "queued", retries |-> 0, url |-> u]]
  /\ UNCHANGED <<saveC, parseVars, ctxDone, ticking, unhooked, recovering, dbVars, proc, history>>

\* A worker dequeues the object; processTask skips a cancelled one, and starts
\* the checkpoint goroutine of any other.
Pick(o) ==
  /\ IF status[o] = "cancelled"
       THEN Goto(o, {"queued"}, "done") /\ UNCHANGED ticking
       ELSE Goto(o, {"queued"}, "picked") /\ ticking' = ticking \cup {o}
  /\ UNCHANGED <<status, retries, url, saveW, saveC, parseVars, ctxDone, tmVars,
                 dbVars, proc, history>>

\* A Telegram file id is resolved to a URL first.
ResolveFile(o) ==
  /\ url[o] = "tgfileid"
  /\ Goto(o, {"picked"}, "resolve")
  /\ SetStatus(o, "fetching")
  /\ UNCHANGED runFrame

ResolveFailed(o) ==
  /\ Goto(o, {"resolve"}, "done")
  /\ SetError(o)
  /\ UNCHANGED runFrame

\* The file id becomes a path on this host or a link.
FileResolved(o) ==
  /\ Goto(o, {"resolve"}, "resolved")
  /\ \E u \in {"file", "remote"} :
       /\ url' = [url EXCEPT ![o] = u]
       /\ saveW' = [saveW EXCEPT ![o] = [Snapshot(o, status[o]) EXCEPT !.url = u]]
  /\ UNCHANGED <<status, retries, saveC, parseVars, ctxDone, ticking, tmVars, dbVars, proc, history>>

\* executeDownloadEngine, up to the output directory.
BeginDownload(o) ==
  /\ url[o] \in Url \ {"tgfileid", "drive"}
  /\ Goto(o, {"picked", "resolved"}, "prepare")
  /\ SetStatus(o, "downloading")
  /\ UNCHANGED runFrame

\* engine.Download is called, or HandleLocalFileDownload copies a local file; the
\* yt-dlp engine starts the goroutines that parse what the tool prints.
Transfer(o) ==
  /\ Goto(o, {"prepare"}, IF url[o] = "file" THEN "copy" ELSE "download")
  /\ parsing' = IF url[o] = "media" THEN parsing \cup {o} ELSE parsing
  /\ UNCHANGED <<status, retries, url, saveW, saveC, saveP, ctxDone, ticking, tmVars,
                 dbVars, proc, history>>

\* MkdirAll fails: no retry and no cleanup.
OutputDirFails(o) ==
  /\ Goto(o, {"prepare"}, "done")
  /\ SetError(o)
  /\ UNCHANGED runFrame

\* The engine's callback, called by the goroutine that runs the engine, saves the
\* progress.
EngineProgress(o) ==
  /\ Goto(o, {"download"}, "download")
  /\ saveW' = [saveW EXCEPT ![o] = Snapshot(o, status[o])]
  /\ UNCHANGED <<status, runFrame>>

EngineOK(o) ==
  /\ Goto(o, {"download"}, IF status[o] = "cancelled" THEN "cleanup" ELSE "post")
  /\ UNCHANGED <<status, saveW, runFrame>>

\* Called by yt-dlp's parser it saves on a goroutine that nobody joins: the write may
\* come after any later step of the run.
ParserProgress(o) ==
  /\ o \in parsing /\ saveP[o] = None
  /\ saveP' = [saveP EXCEPT ![o] = Snapshot(o, status[o])]
  /\ UNCHANGED <<status, retries, url, at, saveW, saveC, parsing, ctxDone, ticking,
                 tmVars, dbVars, proc, history>>

\* The write overtakes the run's own saves when the object has moved on meanwhile.
ParserCommit(o) ==
  /\ saveP[o] # None
  /\ Upsert(saveP[o])
  /\ saveP' = [saveP EXCEPT ![o] = None]
  /\ overtaken' = (overtaken \/ saveP[o] # Snapshot(o, status[o]))
  /\ UNCHANGED <<status, retries, url, at, saveW, saveC, parsing, ctxDone, ticking,
                 tmVars, cp, proc, cancelled, cancels, failures, stops>>

\* The tool has exited and its output is read.
ParserEnds(o) ==
  /\ o \in parsing /\ saveP[o] = None /\ at[o] # "download"
  /\ parsing' = parsing \ {o}
  /\ UNCHANGED <<status, retries, url, at, saveW, saveC, saveP, ctxDone, ticking,
                 tmVars, dbVars, proc, history>>

\* The engine gives context.Canceled back, or fails after a cancel.  yt-dlp's
\* engine reports an interruption as success; the userbot's never looks at the
\* context.
EngineInterrupted(o) ==
  /\ status[o] = "cancelled" \/ (o \in ctxDone /\ url[o] = "remote")
  /\ Goto(o, {"download"}, "cleanup")
  /\ UNCHANGED <<status, saveW, runFrame>>

\* Any other error, a killed tool's included; dropped once ShutdownChan is closed.
EngineFails(o) ==
  /\ status[o] # "cancelled"
  /\ Goto(o, {"download"}, IF IsShuttingDown THEN "done" ELSE "failing")
  /\ failures' = failures + 1
  /\ UNCHANGED <<status, saveW, retries, url, saveC, parseVars, ctxDone, ticking, tmVars, dbVars,
                 proc, cancelled, cancels, overtaken, stops>>

\* A retryTask that does not look at MaxRetries.
RetryUnbounded(o) ==
  /\ Goto(o, {"failing"}, "backoff")
  /\ status[o] # "cancelled" /\ retries[o] <= MaxRetries
  /\ retries' = [retries EXCEPT ![o] = @ + 1]
  /\ UNCHANGED <<status, url, saveW, saveC, parseVars, ctxDone, ticking, tmVars, dbVars,
                 proc, history>>

\* retryTask with attempts left: count one and start the retry goroutine.
Retry(o) ==
  /\ Goto(o, {"failing"}, "backoff")
  /\ status[o] # "cancelled" /\ retries[o] < MaxRetries
  /\ retries' = [retries EXCEPT ![o] = @ + 1]
  /\ UNCHANGED <<status, url, saveW, saveC, parseVars, ctxDone, ticking, tmVars, dbVars,
                 proc, history>>

\* Giving up without SetError.
GiveUpSilently(o) ==
  /\ Goto(o, {"failing"}, "cleanup")
  /\ UNCHANGED <<status, saveW, runFrame>>

\* A non-retryable error, or no attempts left.
GiveUp(o) ==
  /\ Goto(o, {"failing"}, "cleanup")
  /\ SetError(o)
  /\ UNCHANGED runFrame

\* The backoff is over: queued again, whatever the status has become meanwhile.
RetryFires(o) ==
  /\ Goto(o, {"backoff"}, "queued")
  /\ status' = [status EXCEPT ![o] = "queued"]
  /\ UNCHANGED <<retries, url, saveW, saveC, parseVars, ctxDone, ticking, tmVars, dbVars, proc, history>>

RetryAborted(o) ==
  /\ o \in ctxDone \/ IsShuttingDown
  /\ Goto(o, {"backoff"}, "done")
  /\ UNCHANGED <<status, saveW, runFrame>>

CopyOK(o) ==
  /\ Goto(o, {"copy"}, "post")
  /\ UNCHANGED <<status, saveW, runFrame>>

CopyFails(o) ==
  /\ Goto(o, {"copy"}, "done")
  /\ SetError(o)
  /\ UNCHANGED runFrame

\* The copy notices the cancelled context and returns, status untouched.
CopyInterrupted(o) ==
  /\ o \in ctxDone
  /\ Goto(o, {"copy"}, "done")
  /\ UNCHANGED <<status, saveW, runFrame>>

BeginClone(o) ==
  /\ url[o] = "drive"
  /\ Goto(o, {"picked"}, "clone")
  /\ SetStatus(o, "downloading")
  /\ UNCHANGED runFrame

CloneOK(o) ==
  /\ Goto(o, {"clone"}, "done")
  /\ \/ SetStatus(o, "completed")
     \/ status[o] = "cancelled" /\ UNCHANGED <<status, saveW>>
  /\ UNCHANGED runFrame

CloneFails(o) ==
  /\ Goto(o, {"clone"}, "done")
  /\ \/ SetError(o)
     \/ status[o] = "cancelled" /\ UNCHANGED <<status, saveW>>
  /\ UNCHANGED runFrame

-----------------------------------------------------------------------------
(* HandlePostDownload.                                                     *)

PostSkipped(o) ==
  /\ status[o] = "cancelled"
  /\ Goto(o, {"post"}, "cleanup")
  /\ UNCHANGED <<status, saveW, runFrame>>

\* No file in the output directory.
NoFileFound(o) ==
  /\ Goto(o, {"post"}, "cleanup")
  /\ SetError(o)
  /\ UNCHANGED runFrame

\* The same, but yt-dlp's progress reports left an error text in the task: it
\* is taken for a failure already recorded, and the run is cleaned up without one.
NoFileUnreported(o) ==
  /\ url[o] = "media"
  /\ Goto(o, {"post"}, "stranded")
  /\ cp' = FALSE
  /\ UNCHANGED <<status, retries, url, saveW, saveC, parseVars, ctxDone, ticking, tmVars, row,
                 proc, history>>

BeginExtract(o) ==
  /\ Goto(o, {"post"}, "extract")
  /\ SetStatus(o, "extracting")
  /\ UNCHANGED runFrame

BeginZip(o) ==
  /\ Goto(o, {"post", "extract"}, "zip")
  /\ SetStatus(o, "zipping")
  /\ UNCHANGED runFrame

BeginUpload(o) ==
  /\ Goto(o, {"post", "extract", "zip"}, "upload")
  /\ SetStatus(o, "uploading")
  /\ UNCHANGED runFrame

\* 7z fails, or is found to have worked for a cancelled task.
PackFails(o) ==
  /\ Goto(o, {"extract", "zip"}, "cleanup")
  /\ SetError(o)
  /\ UNCHANGED runFrame

UploadOK(o) ==
  /\ Goto(o, {"upload"}, "cleanup")
  /\ SetStatus(o, "completed")
  /\ UNCHANGED runFrame

UploadFails(o) ==
  /\ Goto(o, {"upload"}, "cleanup")
  /\ \/ SetError(o)
     \/ status[o] = "cancelled" /\ UNCHANGED <<status, saveW>>
  /\ UNCHANGED runFrame

\* cleanupTask: the checkpoint and the download directory go.
Cleanup(o) ==
  /\ Goto(o, {"cleanup"}, "done")
  /\ cp' = FALSE
  /\ UNCHANGED <<status, retries, url, saveW, saveC, parseVars, ctxDone, ticking, tmVars,
                 row, proc, history>>

\* StartPeriodicCheckpoint: every 30 s, and once more when the context ends.
CheckpointTick(o) ==
  /\ o \in ticking
  /\ cp' = TRUE
  /\ ticking' \in IF o \in ctxDone THEN {ticking, ticking \ {o}} ELSE {ticking}
  /\ UNCHANGED <<status, retries, url, at, saveW, saveC, parseVars, ctxDone, tmVars, row,
                 proc, history>>

-----------------------------------------------------------------------------
(* CancelTask: out of the map, then the status, then the row.              *)

CancelTask ==
  /\ proc = "up" /\ entry # None
  /\ cp' = FALSE
  /\ entry' = None
  /\ unhooked' = unhooked \cup {entry}
  /\ cancels' = TRUE
  /\ UNCHANGED <<objVars, recovering, row, proc, cancelled, overtaken,
                 failures, stops>>

\* The mark without CancelFunc.
CancelMarkNoContext(o) ==
  /\ o \in unhooked
  /\ unhooked' = unhooked \ {o}
  /\ IF status[o] \in {"completed", "cancelled"}
       THEN UNCHANGED <<status, saveC, cancelled>>
       ELSE /\ status' = [status EXCEPT ![o] = "cancelled"]
            /\ saveC' = [saveC EXCEPT ![o] = Snapshot(o, "cancelled")]
            /\ cancelled' = cancelled \cup {o}
  /\ UNCHANGED <<retries, url, at, saveW, parseVars, ctxDone, ticking, entry,
                 recovering, dbVars, proc, cancels, overtaken, failures, stops>>

CancelMark(o) ==
  /\ o \in unhooked
  /\ unhooked' = unhooked \ {o}
  /\ IF status[o] \in {"completed", "cancelled"}
       THEN UNCHANGED <<status, saveC, ctxDone, cancelled>>
       ELSE /\ status' = [status EXCEPT ![o] = "cancelled"]
            /\ ctxDone' = ctxDone \cup {o}
            /\ saveC' = [saveC EXCEPT ![o] = Snapshot(o, "cancelled")]
            /\ cancelled' = cancelled \cup {o}
  /\ UNCHANGED <<retries, url, at, saveW, parseVars, ticking, entry, recovering,
                 dbVars, proc, cancels, overtaken, failures, stops>>

CancelCommit(o) ==
  /\ saveC[o] # None
  /\ Upsert(saveC[o])
  /\ saveC' = [saveC EXCEPT ![o] = None]
  /\ UNCHANGED <<status, retries, url, at, saveW, parseVars, ctxDone, ticking, tmVars, cp,
                 proc, history>>

\* cleanupTerminalTasks, at least an hour after CompletedAt: the run and its
\* writes are long over.
Forget ==
  /\ entry # None
  /\ status[entry] \in Terminal
  /\ at[entry] = "done" /\ saveW[entry] = None /\ entry \notin parsing
  /\ recovering = None
  /\ entry' = None
  /\ UNCHANGED <<objVars, unhooked, recovering, dbVars, proc, history>>

-----------------------------------------------------------------------------
(* RecoverIncompleteTasks: two seconds after the start, and on /recover.   *)

\* A query that forgets to exclude finished tasks.
RecoverableLoose == {"downloading", "uploading", "queued", "completed"}

\* The statuses GetRecoverable selects ("processing" is no status of the code).
Recoverable == {"downloading", "uploading", "queued"}

RecoverRead ==
  /\ proc = "up" /\ recovering = None
  /\ row # None
  /\ row.status \in Recoverable
  /\ recovering' = row
  /\ UNCHANGED <<objVars, entry, unhooked, dbVars, proc, history>>

\* The insert without the look-up in tm.Tasks.
RecoverInsertUnchecked(o) ==
  /\ recovering # None
  /\ recovering' = None
  /\ NewObject(o, recovering.retries, recovering.url)
  /\ UNCHANGED <<saveW, saveC, parseVars, ctxDone, ticking, unhooked, dbVars, proc, history>>

RecoverInsert(o) ==
  /\ recovering # None
  /\ recovering' = None
  /\ IF entry # None
       THEN UNCHANGED <<status, retries, url, at, entry>>
       ELSE NewObject(o, recovering.retries, recovering.url)
  /\ UNCHANGED <<saveW, saveC, parseVars, ctxDone, ticking, unhooked, dbVars, proc, history>>

-----------------------------------------------------------------------------
(* The process.                                                            *)

\* Shutdown cancels the contexts of GetActiveTasks, ...
ShutdownCancel ==
  /\ proc = "up" /\ stops < MaxStops
  /\ proc' = "cancelled" /\ stops' = stops + 1
  /\ ctxDone' = ctxDone \cup {o \in Objs : o = entry /\ status[o] \notin Terminal}
  /\ UNCHANGED <<status, retries, url, at, saveW, saveC, parseVars, ticking, tmVars,
                 dbVars, cancelled, cancels, overtaken, failures>>

\* ... closes ShutdownChan ...
ShutdownClose ==
  /\ proc = "cancelled"
  /\ proc' = "closed"
  /\ UNCHANGED <<objVars, tmVars, dbVars, history>>

\* ... and, no run being left, closes the database; main returns.
ShutdownEnd ==
  /\ proc = "closed"
  /\ \A o \in Objs : at[o] \in {"none", "queued", "backoff", "done", "stranded"}
                     /\ (at[o] = "done" => saveW[o] = None)
  /\ proc' = "stopped"
  /\ UNCHANGED <<objVars, tmVars, dbVars, history>>

\* A loader that does not restore RetryCount.
LoadForgetsRetries(S, rec) ==
  /\ status' = [p \in Objs |-> IF p \in S THEN rec.status ELSE None]
  /\ retries' = [p \in Objs |-> 0]
  /\ url' = [p \in Objs |-> IF p \in S THEN rec.url ELSE None]
  /\ at' = [p \in Objs |-> IF p \in S THEN "queued" ELSE "none"]
  /\ entry' \in IF S = {} THEN {None} ELSE S
  /\ saveW' = [p \in Objs |-> None] /\ saveC' = [p \in Objs |-> None]
  /\ saveP' = [p \in Objs |-> None] /\ parsing' = {}
  /\ ctxDone' = {} /\ ticking' = {} /\ unhooked' = {} /\ recovering' = None
  /\ cancelled' = {}

\* All that lives in memory starts afresh, with the objects in S (at most one)
\* loaded and queued as the record has them.
Load(S, rec) ==
  /\ status' = [p \in Objs |-> IF p \in S THEN rec.status ELSE None]
  /\ retries' = [p \in Objs |-> IF p \in S THEN rec.retries ELSE 0]
  /\ url' = [p \in Objs |-> IF p \in S THEN rec.url ELSE None]
  /\ at' = [p \in Objs |-> IF p \in S THEN "queued" ELSE "none"]
  /\ entry' \in IF S = {} THEN {None} ELSE S
  /\ saveW' = [p \in Objs |-> None] /\ saveC' = [p \in Objs |-> None]
  /\ saveP' = [p \in Objs |-> None] /\ parsing' = {}
  /\ ctxDone' = {} /\ ticking' = {} /\ unhooked' = {} /\ recovering' = None
  /\ cancelled' = {}

\* SIGKILL, a panic, a power cut.
Crash ==
  /\ Alive /\ stops < MaxStops
  /\ proc' = "off" /\ stops' = stops + 1
  /\ Load({}, None)
  /\ UNCHANGED <<dbVars, cancels, overtaken, failures>>

\* The process starts again: NewTaskManager loads the row if GetActive selects it,
\* with the status and the retry count it has, and queues the object.
Boot(o) ==
  /\ ~Alive
  /\ proc' = "up"
  /\ IF row = None THEN Load({}, row)
     ELSE Load(IF row.status \in Terminal THEN {} ELSE {o}, row)
  /\ UNCHANGED <<dbVars, cancels, overtaken, failures, stops>>

-----------------------------------------------------------------------------
\* Steps of the owning goroutine that wait for nothing outside the process.
OwnStep(o) ==
  \/ SaveCommit(o) \/ Pick(o)
  \/ ResolveFile(o) \/ BeginClone(o)
  \/ BeginDownload(o) \/ Transfer(o) \/ OutputDirFails(o)
  \/ Retry(o) \/ GiveUp(o) \/ RetryFires(o) \/ RetryAborted(o)
  \/ PostSkipped(o) \/ NoFileFound(o) \/ NoFileUnreported(o)
  \/ BeginExtract(o)
  \/ at[o] = "post" /\ (BeginZip(o) \/ BeginUpload(o))
  \/ Cleanup(o)

\* A file id is resolved or not; GetFileWithFallback gives up by itself.
Resolution(o) == ResolveFailed(o) \/ FileResolved(o)

\* Steps that come with the answer of an external tool or service.
Answer(o) ==
  \/ Resolution(o)
  \/ EngineOK(o) \/ EngineInterrupted(o) \/ EngineFails(o)
  \/ CopyOK(o) \/ CopyFails(o) \/ CopyInterrupted(o)
  \/ CloneOK(o) \/ CloneFails(o)
  \/ at[o] \in {"extract", "zip"} /\ (BeginZip(o) \/ BeginUpload(o))
  \/ PackFails(o) \/ UploadOK(o) \/ UploadFails(o)

Run(o) == OwnStep(o) \/ Answer(o) \/ EngineProgress(o)

Environment(o) ==
  \/ CreateTask(o) \/ CheckpointTick(o)
  \/ ParserProgress(o) \/ ParserCommit(o) \/ ParserEnds(o)
  \/ CancelMark(o) \/ CancelCommit(o) \/ RecoverInsert(o)

Next ==
  \/ Alive /\ \E o \in Objs : Run(o) \/ Environment(o)
  \/ CancelTask \/ RecoverRead
  \/ Alive /\ Forget
  \/ ShutdownCancel \/ ShutdownClose \/ ShutdownEnd \/ Crash
  \/ \E o \in Objs : Boot(o)

\* The runs that no cancel reaches: an upload to Telegram or Viking, and the
\* userbot's download, do not look at the context.
Deaf(o) == at[o] = "upload" \/ (at[o] = "download" /\ url[o] = "tgmsg")

\* Ready goroutines run: the worker pool gets to a queued object (WorkQueue's
\* QueuedTaskStarts), a timer fires, a database write returns, a shutdown that
\* began goes on, resolving a file id has a time limit.  A tool running under a
\* cancelled context is killed; nothing else obliges a tool or a service to answer.
\* Strong fairness, because the engine's loop selects between ctx.Done and its
\* ticker, whose callback saves.
Fairness ==
  /\ \A o \in Objs :
       /\ WF_vars(Alive /\ OwnStep(o))
       /\ WF_vars(Alive /\ Resolution(o))
       /\ WF_vars(Alive /\ (CancelMark(o) \/ CancelCommit(o) \/ RecoverInsert(o)))
       /\ SF_vars(Alive /\ o \in ctxDone /\ ~Deaf(o) /\ Answer(o))
  /\ WF_vars(ShutdownClose \/ ShutdownEnd)

SafetySpec == Init /\ [][Next]_vars

Spec == SafetySpec /\ Fairness

-----------------------------------------------------------------------------
(* Properties.                                                             *)

TypeOK ==
  /\ status \in [Objs -> Status \cup {None}]
  /\ retries \in [Objs -> 0..MaxRetries]
  /\ url \in [Objs -> Url \cup {None}]
  /\ at \in [Objs -> Place]
  /\ saveW \in [Objs -> Record \cup {None}]
  /\ saveC \in [Objs -> Record \cup {None}]
  /\ saveP \in [Objs -> Record \cup {None}] /\ parsing \in SUBSET Objs
  /\ ctxDone \in SUBSET Objs /\ ticking \in SUBSET Objs
  /\ entry \in Objs \cup {None}
  /\ unhooked \in SUBSET Objs
  /\ recovering \in Record \cup {None}
  /\ row \in Record \cup {None}
  /\ cp \in BOOLEAN
  /\ proc \in {"up", "cancelled", "closed", "stopped", "off"}
  /\ cancelled \in SUBSET Objs
  /\ cancels \in BOOLEAN /\ overtaken \in BOOLEAN
  /\ failures \in Nat /\ stops \in 0..MaxStops

Live(o) == at[o] \notin {"none", "done", "stranded"} /\ status[o] \notin Terminal

\* One live object per id (recovery.go 62-70, task_manager.go 609-635): through
\* cancels, recoveries and stops, an object that still has work to do is the
\* one in tm.Tasks, or its context is cancelled, or CancelTask is about to cancel
\* it.  So two objects of an id never download side by side for good.
OrphansAreCancelled ==
  Alive => \A o \in Objs : Live(o) => o = entry \/ o \in ctxDone \/ o \in unhooked

\* Retries survive stops (task_processor.go 248-261, task_manager.go 194): as
\* long as the user cancels nothing, the engine fails at most once per allowed
\* attempt plus once for every restart, however runs, backoffs and crashes fall.
\* (What a parser's late write does to the row, here and below, is the one exception.)
AttemptsBounded == ~cancels /\ ~overtaken => failures <= MaxRetries + 1 + stops

\* What the user sees after the run is what the database keeps (SetStatus 814-834,
\* SetError 836-849): when the run of the object in tm.Tasks is over and nobody
\* has cancelled the task, a terminal status is in the row too.
SettledRow ==
  (/\ ~cancels /\ ~overtaken /\ Alive /\ entry # None
   /\ at[entry] = "done" /\ saveW[entry] = None /\ status[entry] \in Terminal)
  => row # None /\ row.status = status[entry]

\* Cancel is sticky in memory (task_manager.go 814-817, 836-842): of all the code
\* that changes a task's status, only the retry goroutine ever takes an object out
\* of cancelled, and then its context stays cancelled.
CancelSticky ==
  [][\A o \in Objs :
       (Alive /\ Alive' /\ status[o] = "cancelled" /\ status'[o] # "cancelled")
       => at[o] = "backoff" /\ o \in ctxDone /\ o \in ctxDone']_vars

\* What the row says of the task, seen from outside.
Stored ==
  IF row = None THEN "none" ELSE IF row.status \in Terminal THEN row.status ELSE "open"

Contract == INSTANCE TaskContract
              WITH stored <- Stored, attempts <- failures, restarts <- stops,
                   asked <- cancels, late <- overtaken

\* Attempts, results and restarts as one promise (module TaskContract): a task is stored before it
\* is tried, tried no more often than allowed, ends once and stays as it ended (failed
\* as well as completed), however SaveToDB's two steps, the retry goroutine, Shutdown,
\* NewTaskManager's loading and RecoverIncompleteTasks interleave; only the user's own
\* cancel or a late write of yt-dlp's parser releases the program from it.
KeepsContract == Contract!Spec

\* A cancel or a shutdown ends the run (download.go 170-172, task_processor.go
\* 140-144, 281-284): the object's goroutine comes to rest, or hangs in an upload
\* or a userbot download that never answers, or the process goes away.
CancelledRunEnds ==
  \A o \in Objs :
    o \in cancelled \cup ctxDone ~>
                     \/ at[o] \in {"none", "done", "stranded"} \/ ~Alive
                     \/ []Deaf(o)

\* Where a run waits for an external tool or service.
External == {"download", "copy", "clone", "extract", "zip", "upload"}

Answered == \A o \in Objs : at[o] \in External ~> at[o] \notin External

\* No task is forgotten: if the process stays up from some time on and the tools
\* answer, a task that was accepted reaches a terminal row, unless the user
\* cancelled it or its run ended at the one spot (task_processor.go 182-187) that
\* neither completes nor fails it (an error line of yt-dlp without an error exit and
\* without a file), or yt-dlp's parser wrote last.
TaskSettles ==
  (<>[](proc = "up") /\ Answered) =>
    (row # None ~> \/ row # None /\ row.status \in Terminal
                   \/ cancels \/ overtaken
                   \/ \E o \in Objs : at[o] = "stranded")

\* "Cancel wins: a task cancelled mid-flight must not flip to failed when its
\* context tears down" (task_manager.go 838-839).
CancelWins == \A o \in cancelled : status[o] # "failed"

\* "Checkpoint-based auto-recovery for interrupted tasks after restart" (README.md
\* 86): the archiver or uploader that Shutdown kills through the context does not
\* leave its task failed, and so out of the next start's reach.
InterruptedIsRecoverable ==
  [][\A o \in Objs :
       (proc # "up" /\ o \in ctxDone \ cancelled /\ at[o] \in {"extract", "zip", "upload"})
       => status'[o] # "failed"]_vars
=============================================================================
