------------------------------ MODULE Transfer ------------------------------
(***************************************************************************)
(* One task from the user's request to the message that tells the result:  *)
(* the torrent session (Sessions), the engine (Engines), the uploader and  *)
(* the report (Delivery), and the calls that tie them together in          *)
(* processTask and HandlePostDownload.                                     *)
(*                                                                         *)
(*   internal/service/task_processor.go                                    *)
(*                                                                         *)
(* The task's rows, snapshots and objects are TaskLifecycle's business;    *)
(* here every save is done at once.  What the engines' and the session's   *)
(* own processes do matters to no later phase of the run and is followed   *)
(* only until the download is over.                                        *)
(*                                                                         *)
(* A look at the status and the result set after it are one step: a cancel *)
(* in between would leave what one just after it does, since CancelTask    *)
(* marks a failed task too, and a completed one is set without a look.     *)
(***************************************************************************)
EXTENDS Sessions, Engines, Delivery

CONSTANTS
  Routes,       \* what users ask for: pairs of a kind of source and a kind of target
  Second,       \* what the command says of a second destination
  MaxRetries    \* cfg.MaxRetries

ASSUME TransferAssumption ==
  /\ Routes \subseteq Source \X {"rclone", "viking", "telegram"}
  /\ Second \subseteq {"off", "wanted"}
  /\ MaxRetries \in Nat

VARIABLES
  phase,      \* how far the task has come
  tries       \* task.RetryCount

vars == <<taskVars, sessionVars, engineVars, deliveryVars, phase, tries>>

Init ==
  /\ status = "none" /\ stopped = FALSE
  /\ SessionInit /\ EngineInit /\ DeliveryInit
  /\ phase = "new" /\ tries = 0

\* The run goes from one phase to the next; it waits for its own reports.
Go(from, to) == phase \in from /\ report["run"] = "idle" /\ phase' = to

-----------------------------------------------------------------------------
(* From the request to the queue.                                          *)

\* CreateTask with the task's URL and type.
CreateTask(route) ==
  /\ status' = "queued"
  /\ source' = route[1] /\ target' = route[2]
  /\ second' \in IF target' = "rclone" THEN Second ELSE {"off"}
  /\ UNCHANGED <<up, try, store, named, url, parts, shelf, reading, reportVars>>

AskTorrent ==
  /\ Go({"new"}, "session")
  /\ CreateTorrentSession
  /\ UNCHANGED <<taskVars, engineVars, deliveryVars, tries>>

AskLink ==
  /\ Go({"new"}, "queued")
  /\ \E r \in Routes : CreateTask(r)
  /\ UNCHANGED <<stopped, sessionVars, dl, aria2Vars, botVars, faults, tries>>

SessionStep ==
  /\ phase \in {"session", "queued"}
  /\ Fetch \/ Expire \/ Sweep \/ \E r \in Requests : TakeSession(r) \/ StartRefused(r)
  /\ UNCHANGED <<taskVars, engineVars, deliveryVars, phase, tries>>

StartTorrent(r) ==
  /\ StartCreates(r)
  /\ phase' = "queued"
  /\ \E route \in Routes :
       route[1] = (IF magnet THEN "magnet" ELSE "link") /\ CreateTask(route)
  /\ UNCHANGED <<stopped, dl, aria2Vars, botVars, faults, tries>>

-----------------------------------------------------------------------------
(* processTask and executeDownloadEngine.                                  *)

\* executeDownloadEngine, the engines and the uploaders redraw the task's line while
\* they work; of a task cancelled meanwhile this is the report of its end.
RunReports ==
  /\ \/ phase = "download" /\ dl \notin {"ok", "failed", "interrupted"}
     \/ phase = "pack"
     \/ phase = "upload" /\ (up \in {"init", "send"} \/ (up = "ok" /\ target = "rclone"))
  /\ UpdateTaskStatus("run")

\* The session's goroutines have nothing left to do that the run would see.
SessionQuiet == fetch \in {"idle", "over"} /\ \A r \in Requests : start[r] # "taken"

Pick ==
  /\ Go({"queued"}, IF status = "cancelled" THEN "over" ELSE "download")
  /\ SessionQuiet
  /\ IF status = "cancelled"
       THEN UNCHANGED <<status, dl, reading>>
       ELSE /\ StartEngine /\ SetStatus("downloading")
            /\ reading' = (reading \/ source = "media")
  /\ UNCHANGED <<stopped, sessionVars, source, aria2Vars, botVars, faults, uploadVars,
                 reportVars, tries>>

Engine ==
  /\ phase = "download" /\ report["run"] = "idle"
  /\ EngineRuns
  /\ UNCHANGED <<taskVars, sessionVars, deliveryVars, phase, tries>>

Beside ==
  /\ phase \in {"queued", "download", "backoff"} /\ source # "none" /\ SessionQuiet
  /\ EngineWorld
  /\ UNCHANGED <<taskVars, sessionVars, deliveryVars, phase, tries>>

Downloaded ==
  /\ dl = "ok"
  /\ Go({"download"}, IF status = "cancelled" THEN "cleanup" ELSE "post")
  /\ UNCHANGED <<taskVars, sessionVars, engineVars, deliveryVars, tries>>

\* An engine that came back with the context's error, or failed after a cancel.
Interrupted ==
  /\ dl = "interrupted" \/ (dl = "failed" /\ status = "cancelled")
  /\ Go({"download"}, "cleanup")
  /\ UNCHANGED <<taskVars, sessionVars, engineVars, deliveryVars, tries>>

\* retryTask, or SetError when no attempt is left or another would not help.
DownloadFails ==
  /\ dl = "failed" /\ status # "cancelled"
  /\ \/ /\ tries < MaxRetries
        /\ Go({"download"}, "backoff")
        /\ tries' = tries + 1
        /\ UNCHANGED status
     \/ /\ Go({"download"}, "report")
        /\ SetStatus("failed")
        /\ UNCHANGED tries
  /\ UNCHANGED <<stopped, sessionVars, engineVars, deliveryVars>>

RetryFires ==
  /\ Go({"backoff"}, "queued")
  /\ status' = "queued" /\ dl' = "idle"
  /\ UNCHANGED <<stopped, sessionVars, source, aria2Vars, botVars, faults, deliveryVars, tries>>

RetryAborted ==
  /\ stopped
  /\ Go({"backoff"}, "over")
  /\ UNCHANGED <<taskVars, sessionVars, engineVars, deliveryVars, tries>>

-----------------------------------------------------------------------------
(* HandlePostDownload.                                                     *)

\* findDownloadedFile finds the largest file of the directory, or (a torrent or a
\* Drive folder comes as a directory in it) none.  Where yt-dlp's progress has left an
\* error text that is no failure: updateTaskStatus has no result to tell of.
PostDownload ==
  /\ \/ Go({"post"}, "cleanup") /\ status = "cancelled" /\ UNCHANGED status
     \/ Go({"post"}, "report") /\ status # "cancelled" /\ SetStatus("failed")
     \/ Go({"post"}, "cleanup") /\ source = "media" /\ UNCHANGED status
     \/ Go({"post"}, "pack") /\ status # "cancelled" /\ UNCHANGED status
  /\ UNCHANGED <<stopped, sessionVars, engineVars, deliveryVars, tries>>

\* Unpacking or packing fails, killed by a cancel or for another reason.
PackFails ==
  /\ Go({"pack"}, "report")
  /\ SetStatus("failed")
  /\ UNCHANGED <<stopped, sessionVars, engineVars, deliveryVars, tries>>

Upload ==
  /\ Go({"pack"}, "upload")
  /\ SetStatus("uploading")
  /\ BeginUpload
  /\ UNCHANGED <<stopped, sessionVars, engineVars, tries>>

Uploading ==
  /\ phase = "upload" /\ report["run"] = "idle"
  /\ Uploader
  /\ UNCHANGED <<taskVars, sessionVars, engineVars, phase, tries>>

\* Only a cancelled task's failed upload goes unreported.
Uploaded ==
  /\ up \in {"ok", "failed"}
  /\ \/ /\ up = "failed" /\ status = "cancelled"
        /\ Go({"upload"}, "cleanup")
        /\ UNCHANGED status
     \/ /\ up = "ok" \/ status # "cancelled"
        /\ Go({"upload"}, "report")
        /\ SetStatus(IF up = "ok" THEN "completed" ELSE "failed")
  /\ UNCHANGED <<stopped, sessionVars, engineVars, deliveryVars, tries>>

Tell ==
  /\ Go({"report"}, "telling")
  /\ UpdateTaskStatus("run")
  /\ UNCHANGED <<taskVars, sessionVars, engineVars, tries>>

Told ==
  /\ Go({"telling"}, "cleanup")
  /\ UNCHANGED <<taskVars, sessionVars, engineVars, deliveryVars, tries>>

CleanupTask ==
  /\ Go({"cleanup"}, "over")
  /\ UNCHANGED <<taskVars, sessionVars, engineVars, deliveryVars, tries>>

-----------------------------------------------------------------------------
(* Beside the run.                                                         *)

Reports ==
  /\ \/ dl # "run" /\ ReaderEnds
     \/ RunReports \/ ProgressReports \/ \E r \in Reporters : Reporting(r)
  /\ UNCHANGED <<taskVars, sessionVars, engineVars, phase, tries>>

\* CancelTask marks the task and cancels its context.
Cancel ==
  /\ phase \notin {"new", "session", "over"}
  /\ status \notin {"completed", "cancelled"}
  /\ status' = "cancelled" /\ stopped' = TRUE
  /\ UNCHANGED <<sessionVars, engineVars, deliveryVars, phase, tries>>

\* The bot dies and is started again; the loaded task is queued.
Restart ==
  /\ phase # "new" /\ Fault
  /\ phase' = IF status \in Terminal \cup {"none"} THEN "over" ELSE "queued"
  /\ stopped' = FALSE
  /\ SessionsLost /\ EnginesRestart /\ DeliveryRestart
  /\ UNCHANGED <<status, tries>>

Next ==
  \/ AskTorrent \/ AskLink \/ SessionStep \/ \E r \in Requests : StartTorrent(r)
  \/ Pick \/ Engine \/ Beside \/ Downloaded \/ Interrupted \/ DownloadFails
  \/ RetryFires \/ RetryAborted
  \/ PostDownload \/ PackFails \/ Upload \/ Uploading \/ Uploaded
  \/ Tell \/ Told \/ CleanupTask
  \/ Reports \/ Cancel \/ Restart

-----------------------------------------------------------------------------
\* Steps of the run that wait for nothing, or for a call with a time limit: the RPC
\* calls (ten seconds), the userbot's look-up (ten minutes), Viking's requests.
Prompt ==
  \/ Pick \/ Downloaded \/ Interrupted \/ DownloadFails \/ RetryFires \/ RetryAborted
  \/ PostDownload \/ PackFails \/ Upload \/ Uploaded \/ Tell \/ Told \/ CleanupTask
  \/ Engine /\ dl \notin {"probe", "run", "burn", "stream"}
  \/ Uploading /\ up \in {"init", "complete", "sent"}
  \/ Uploading /\ up = "parts" /\ parts' # parts

\* Steps that come with the end of a tool, which a cancelled context kills, or with
\* that of the goroutines the uploader waits for.
Killable ==
  \/ stopped /\ Engine /\ dl \in {"probe", "run", "burn"}
  \/ stopped /\ Uploading /\ up \in {"copying", "linking", "second"}
  \/ Uploading /\ up = "parts" /\ parts' = parts

\* Strong fairness where a progress report may come between again and again; the
\* reports somebody waits for are a request to Telegram with a time limit.
Fairness ==
  /\ WF_vars(SessionStep /\ Fetch)
  /\ SF_vars(Prompt)
  /\ SF_vars(Killable)
  /\ \A r \in {"run", "joined"} : WF_vars(Reports /\ Reporting(r))

Spec == Init /\ [][Next]_vars /\ Fairness

-----------------------------------------------------------------------------
(* Properties.                                                             *)

TypeOK ==
  /\ status \in {"none", "queued", "downloading", "uploading"} \cup Terminal
  /\ stopped \in BOOLEAN
  /\ phase \in {"new", "session", "queued", "download", "backoff", "post", "pack", "upload",
                "report", "telling", "cleanup", "over"}
  /\ tries \in 0..MaxRetries
  /\ SessionTypeOK /\ EngineTypeOK /\ DeliveryTypeOK

\* aria2 works for nobody only in one case (aria2.go 83-98, 134-137): as long as no
\* answer or removal is lost and neither process dies, a download of the daemon that
\* no run follows is the torrent of a magnet link whose metadata came in between the
\* run's last look and its cancel.
StraysExplained ==
  faults = 0 => Strays \subseteq (IF dl \in {"poll", "interrupted"} /\ gid # NoGid
                                    THEN {follower[gid]} ELSE {})

\* "Completed" means that the file is where the task says (rclone.go 90-100, 130-131,
\* viking.go 175-177, upload.go 83-113): on the named remote, over every order of
\* failures, cancels and restarts, or a file of its name and size already was; at
\* Viking, with every part Viking gave a URL for; in the chat.
DeliveredMeansThere ==
  status = "completed" =>
    CASE target = "rclone"   -> /\ named # 0 /\ store[named] \in {"full", "same"}
                                /\ url # 0 => store[url] \in {"full", "same"}
      [] target = "viking"   -> /\ \A p \in 1..Parts : parts[p] \in {"sent", "unasked"}
                                /\ "viking" \in shelf
      [] target = "telegram" -> "telegram" \in shelf
      [] OTHER -> FALSE

\* One result per task (task_status.go 30-37, 54-66, 99-144, upload.go 83-87): although
\* the run and every progress callback of a task that is over report it, the chat gets
\* one result message and one more for each that arrived and whose answer was lost; any
\* other only if two reports overlapped, an edit failed, the bot was restarted, or the
\* file was sent to Telegram after the user was told that the task is cancelled.
OneReport == results <= 1 + unheard \/ repeated \/ badEdits > 0

\* The runs that no cancel reaches: the userbot's stream, a file sent to Telegram.
Deaf == (phase = "download" /\ dl = "stream") \/ (phase = "upload" /\ up = "send")

\* Nobody waits for ever (torrent_metadata.go 85-149, 186-193, aria2.go 82-86): the
\* selection page gets a list or an error, and the run of a task whose context is
\* cancelled ends, or hangs where no cancel reaches it.
TransferSettles ==
  /\ Loading ~> ~Loading
  /\ stopped ~> phase = "over" \/ ~stopped \/ []Deaf
=============================================================================
