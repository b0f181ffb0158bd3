------------------------------ MODULE Delivery ------------------------------
(***************************************************************************)
(* The uploaders and the message that tells the user the result: rclone to *)
(* a remote and its fallbacks with the watchdog, the link and the second   *)
(* destination, the parts of a Viking upload, the file sent to Telegram;   *)
(* and updateTaskStatus, which the run calls and the uploaders' progress   *)
(* callbacks call beside it.                                               *)
(*                                                                         *)
(*   internal/uploader/rclone.go; internal/service: upload.go, viking.go,  *)
(*   task_status.go, task_manager.go (CompleteTelegramUpload)              *)
(*                                                                         *)
(* A report about a task that is not over only redraws the dashboard       *)
(* (module Dashboard) and is left out.                                     *)
(***************************************************************************)
EXTENDS TaskState

CONSTANTS
  Remotes,    \* RCLONE_DEST and its fallbacks, numbered in the order they are tried
  Parts,      \* parts of a Viking upload
  MaxSlips    \* bound on edits that fail and answers that get lost, together

ASSUME DeliveryAssumption ==
  /\ Remotes \in Nat \ {0} /\ Parts \in Nat \ {0}
  /\ MaxSlips \in Nat

VARIABLES
  target,     \* where the task's type sends the file, or "none"
  up,         \* where the uploader is
  try,        \* the remote rclone is at
  store,      \* [1..Remotes -> ...]: what each remote has under the file's name
  named,      \* the remote in task.RemotePath, 0 if none
  url,        \* the remote task.RemoteURL leads to, 0 if none
  second,     \* task.Dest2: "off" or "wanted"
  parts,      \* [1..Parts -> "todo", "sent", "failed" or, without a URL, "unasked"]
  shelf,      \* what Viking and Telegram have of the file
  reading,    \* the parser of rclone's or yt-dlp's output still reads
  report,     \* [Reporters -> Place]: where updateTaskStatus is
  resultID,   \* task.ResultMessageID is set
  results,    \* result messages in the chat (history)
  repeated,   \* reports overlapped, the file followed a report, or the bot started
              \* again (history)
  badEdits,   \* edits that failed (history, bounded by MaxSlips)
  unheard     \* results in the chat that the bot takes for unsent (history, bounded by MaxSlips)

uploadVars == <<target, up, try, store, named, url, second, parts, shelf>>
reportVars == <<report, resultID, results, repeated, badEdits, unheard>>
deliveryVars == <<uploadVars, reading, reportVars>>

\* The goroutine of the run, a progress callback whose goroutine the uploader waits
\* for (rclone's estimate, a Viking part), and the reader of rclone's or yt-dlp's output,
\* which nobody waits for.
Reporters == {"run", "joined", "reader"}

DeliveryInit ==
  /\ target = "none" /\ up = "idle" /\ try = 1
  /\ store = [i \in 1..Remotes |-> "none"]
  /\ named = 0 /\ url = 0 /\ second = "off"
  /\ parts = [p \in 1..Parts |-> "todo"]
  /\ shelf = {} /\ reading = FALSE
  /\ report = [r \in Reporters |-> "idle"]
  /\ resultID = FALSE /\ results = 0 /\ repeated = FALSE /\ badEdits = 0
  /\ unheard = 0

-----------------------------------------------------------------------------
(* rclone.                                                                 *)

\* uploadToDest begins with remote i.
CopyTo(i) ==
  /\ try' = i /\ named' = i
  /\ up' = "copying"
  /\ reading' = TRUE

\* UploadWithRclone, UploadToViking, UploadToTelegram.
BeginUpload ==
  /\ up = "idle"
  /\ IF target = "rclone"
       THEN CopyTo(1)
       ELSE /\ up' = IF target = "viking" THEN "init" ELSE "send"
            /\ UNCHANGED <<try, named, reading>>
  /\ UNCHANGED <<target, store, url, second, parts, shelf, reportVars>>

\* Exit status zero; the estimate is joined.  --size-only takes a file of the same
\* name and size that was there before for the one to copy.  A task cancelled
\* meanwhile has failed.
CopySucceeds ==
  /\ up = "copying" /\ report["joined"] = "idle"
  /\ \E copy \in {"full", "same"} :
       /\ copy = "same" => store[try] \in {"none", "same"}
       /\ copy = "full" => store[try] # "same"
       /\ store' = [store EXCEPT ![try] = copy]
  /\ up' = IF status = "cancelled" THEN "failed" ELSE "linking"
  /\ UNCHANGED <<target, try, named, url, second, parts, shelf, reading, reportVars>>

\* A loop that takes the last remote's answer for success.
CopyFailsLastIgnored ==
  /\ up = "copying" /\ report["joined"] = "idle"
  /\ store' \in {store, [store EXCEPT ![try] = IF @ = "none" THEN "partial" ELSE @]}
  /\ IF status = "cancelled" \/ stopped \/ try = Remotes
       THEN /\ up' = IF status = "cancelled" \/ stopped THEN "failed" ELSE "linking"
            /\ UNCHANGED <<try, named, reading>>
       ELSE CopyTo(try + 1)
  /\ UNCHANGED <<target, url, second, parts, shelf, reportVars>>

\* rclone cannot be started, fails, is killed with the context, or by the watchdog
\* for three minutes without a line of output: on to the next remote, unless the
\* task is cancelled.
CopyFails ==
  /\ up = "copying" /\ report["joined"] = "idle"
  /\ store' \in {store, [store EXCEPT ![try] = IF @ = "none" THEN "partial" ELSE @]}
  /\ IF status = "cancelled" \/ stopped \/ try = Remotes
       THEN up' = "failed" /\ UNCHANGED <<try, named, reading>>
       ELSE CopyTo(try + 1)
  /\ UNCHANGED <<target, url, second, parts, shelf, reportVars>>

\* generateIndexURL: by the ids rclone lists, else by the path.
IndexLink == url' = named

\* generateDirectLink: rclone's link; only a directory has a fallback.
DirectLink == url' \in {url, named}

\* GenerateRcloneLink, then the second destination if there is one and the upload
\* is a file.
GenerateRcloneLink ==
  /\ up = "linking"
  /\ IndexLink \/ DirectLink
  /\ up' \in IF second = "wanted" THEN {"second", "ok"} ELSE {"ok"}
  /\ UNCHANGED <<target, try, store, named, second, parts, shelf, reading, reportVars>>

\* UploadToCustomDest copies a temporary file, under its own name, to a remote no
\* fallback uses; an error is logged and nothing else depends on it.
UploadToDest2 ==
  /\ up = "second"
  /\ up' = "ok"
  /\ UNCHANGED <<target, try, store, named, url, second, parts, shelf, reading, reportVars>>

\* The reader finds the end of the output, at once or after a last line.
ReaderEnds ==
  /\ reading /\ up # "copying" /\ report["reader"] = "idle"
  /\ reading' = FALSE
  /\ UNCHANGED <<uploadVars, reportVars>>

Rclone == CopySucceeds \/ CopyFails \/ GenerateRcloneLink \/ UploadToDest2

-----------------------------------------------------------------------------
(* Viking and Telegram; neither looks at the context.                      *)

\* get-upload-url answers with a number of parts and a URL for each.  Nobody compares
\* the two: a part without a URL is never sent.  (With more URLs than parts the process
\* dies of an index out of range, which is a Restart.)
VikingInit ==
  /\ up = "init"
  /\ up' \in {"parts", "failed"}
  /\ \E urls \in 0..Parts :
       parts' = [p \in 1..Parts |-> IF p <= urls THEN "todo" ELSE "unasked"]
  /\ UNCHANGED <<target, try, store, named, url, second, shelf, reading, reportVars>>

\* Up to five parts at a time, each in its goroutine.
VikingUploadPart(p) ==
  /\ up = "parts" /\ parts[p] = "todo"
  /\ \E answer \in {"sent", "failed"} : parts' = [parts EXCEPT ![p] = answer]
  /\ UNCHANGED <<target, up, try, store, named, url, second, shelf, reading, reportVars>>

\* wg.Wait; one failed part fails the upload.
VikingJoin ==
  /\ up = "parts" /\ report["joined"] = "idle"
  /\ \A p \in 1..Parts : parts[p] # "todo"
  /\ up' = IF \E p \in 1..Parts : parts[p] = "failed" THEN "failed" ELSE "complete"
  /\ UNCHANGED <<target, try, store, named, url, second, parts, shelf, reading, reportVars>>

\* complete-upload; its answer may be lost after Viking has put the parts together.
VikingComplete ==
  /\ up = "complete"
  /\ \/ up' = "ok" /\ shelf' = shelf \cup {"viking"}
     \/ up' = "failed" /\ shelf' \in {shelf, shelf \cup {"viking"}}
  /\ UNCHANGED <<target, try, store, named, url, second, parts, reading, reportVars>>

Slip == badEdits + unheard < MaxSlips

\* Reporters about to send a new message.
Sending == {r \in Reporters : report[r] \in {"photo", "send"}}

\* A request to Telegram ends in an error: nothing was sent, or the message is in the
\* chat and the answer was lost.
Unheard ==
  /\ Slip
  /\ unheard' = unheard + 1 /\ results' = results + 1

\* No file, a directory, more than two gigabytes, or an error of Telegram's.
TelegramSendFails ==
  /\ up = "send" /\ up' = "failed"
  /\ \/ UNCHANGED <<shelf, results, unheard>>
     \/ Unheard /\ shelf' = shelf \cup {"telegram"}
  /\ UNCHANGED <<target, try, store, named, url, second, parts, reading, report, resultID,
                 repeated, badEdits>>

\* The file is in the chat; GetFile is asked before anything is recorded.
TelegramSend ==
  /\ up = "send" /\ up' = "sent"
  /\ shelf' = shelf \cup {"telegram"}
  /\ results' = results + 1
  /\ repeated' = (repeated \/ Sending # {} \/ resultID)
  /\ UNCHANGED <<target, try, store, named, url, second, parts, reading, report, resultID,
                 badEdits, unheard>>

CompleteTelegramUpload ==
  /\ up = "sent" /\ up' = "ok"
  /\ resultID' = TRUE
  /\ UNCHANGED <<target, try, store, named, url, second, parts, shelf, reading, report,
                 results, repeated, badEdits, unheard>>

Uploader ==
  \/ Rclone
  \/ VikingInit \/ VikingJoin \/ VikingComplete \/ \E p \in 1..Parts : VikingUploadPart(p)
  \/ TelegramSendFails \/ TelegramSend \/ CompleteTelegramUpload

-----------------------------------------------------------------------------
(* updateTaskStatus of a task that is over.                                *)

\* A message is on its way that resultID does not know of: a report's, or the file.
Unrecorded(r) == Sending \ {r} # {} \/ up = "sent"

Report(r, from, to) ==
  /\ report[r] = from
  /\ report' = [report EXCEPT ![r] = to]
  /\ UNCHANGED <<uploadVars, reading, badEdits>>

\* A completed video without a result message is announced with a thumbnail.
UpdateTaskStatus(r) ==
  /\ status \in Terminal
  /\ \/ /\ Report(r, "idle", "look")
        /\ UNCHANGED <<resultID, results, repeated, unheard>>
     \/ /\ status = "completed" /\ ~resultID
        /\ Report(r, "idle", "photo")
        /\ repeated' = (repeated \/ Unrecorded(r))
        /\ UNCHANGED <<resultID, results, unheard>>

\* sendVideoWithThumbnail has no thumbnail, or Send an error: the text is sent instead.
SendVideoFails(r) ==
  /\ Report(r, "photo", "look")
  /\ Unheard \/ UNCHANGED <<results, unheard>>
  /\ UNCHANGED <<resultID, repeated>>

\* sendFinalMessage reads the id under the lock and acts on it after.
SendFinalMessage(r) ==
  /\ Report(r, "look", IF resultID THEN "edit" ELSE "send")
  /\ repeated' = (repeated \/ (~resultID /\ Unrecorded(r)))
  /\ UNCHANGED <<resultID, results, unheard>>

\* A message whose id is not kept.
SentForgotten(r) ==
  /\ report[r] \in {"photo", "send"}
  /\ Report(r, report[r], "idle")
  /\ results' = results + 1
  /\ UNCHANGED <<resultID, repeated, unheard>>

Sent(r) ==
  /\ report[r] \in {"photo", "send"}
  /\ Report(r, report[r], "idle")
  /\ results' = results + 1 /\ resultID' = TRUE
  /\ UNCHANGED <<repeated, unheard>>

SendFails(r) ==
  /\ Report(r, "send", "idle")
  /\ Unheard \/ UNCHANGED <<results, unheard>>
  /\ UNCHANGED <<resultID, repeated>>

Edited(r) ==
  /\ Report(r, "edit", "idle")
  /\ UNCHANGED <<resultID, results, repeated, unheard>>

\* Neither caption nor text can be edited: the user has deleted the message, or it
\* would be edited to what it says already, which Telegram refuses.
EditFails(r) ==
  /\ report[r] = "edit" /\ Slip
  /\ report' = [report EXCEPT ![r] = "send"]
  /\ badEdits' = badEdits + 1
  /\ UNCHANGED <<uploadVars, reading, resultID, results, repeated, unheard>>

\* A progress callback calls updateTaskStatus, which sees a terminal status: the
\* cancelled task's uploader is still at it, or the reader is late.
ProgressReports ==
  \/ up \in {"copying", "parts"} /\ UpdateTaskStatus("joined")
  \/ reading /\ UpdateTaskStatus("reader")

Reporting(r) == SendVideoFails(r) \/ SendFinalMessage(r) \/ Sent(r) \/ SendFails(r)
                  \/ Edited(r) \/ EditFails(r)

\* A restart: what was uploaded and sent stays where it is, and the row has the
\* remote and the link; Dest2 and the result message's id are in no column.
DeliveryRestart ==
  /\ up' = "idle" /\ try' = 1
  /\ second' = "off"
  /\ reading' = FALSE
  /\ report' = [r \in Reporters |-> "idle"]
  /\ resultID' = FALSE /\ repeated' = (results > 0)
  /\ UNCHANGED <<target, store, named, url, parts, shelf, results, badEdits, unheard>>

DeliveryTypeOK ==
  /\ target \in {"none", "rclone", "viking", "telegram"}
  /\ up \in {"idle", "copying", "linking", "second", "init", "parts", "complete", "send",
             "sent", "ok", "failed"}
  /\ try \in 1..Remotes /\ named \in 0..Remotes /\ url \in 0..Remotes
  /\ store \in [1..Remotes -> {"none", "same", "partial", "full"}]
  /\ second \in {"off", "wanted"}
  /\ parts \in [1..Parts -> {"todo", "sent", "failed", "unasked"}]
  /\ shelf \subseteq {"viking", "telegram"}
  /\ reading \in BOOLEAN /\ resultID \in BOOLEAN /\ repeated \in BOOLEAN
  /\ report \in [Reporters -> {"idle", "photo", "look", "send", "edit"}]
  /\ results \in Nat /\ badEdits \in 0..MaxSlips /\ unheard \in 0..MaxSlips
=============================================================================
