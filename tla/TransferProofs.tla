--------------------------- MODULE TransferProofs ---------------------------
(***************************************************************************)
(* Proofs about Transfer, for every set of requests, downloads, remotes    *)
(* and parts and every bound on retries, faults, failed edits and lost     *)
(* answers.                                                                *)
(*                                                                         *)
(* Each of the three components brings what its share of the invariants    *)
(* rests on.  A session is claimed by at most one request (SessionFits).   *)
(* As long as nothing is lost, what aria2 works on is what the engine      *)
(* follows or what follows that (AriaFits).  The uploader says "ok" only   *)
(* with the file in place, and the place stays good after it (UploadFits,  *)
(* Delivered).  And until two reports overlap or an edit fails, one        *)
(* reporter at most is about to send, and nobody once the bot knows of a   *)
(* message (ReportsFit).  That they fit together is the business of PhaseFits: no  *)
(* task before the session is claimed, no engine before the run is picked. *)
(***************************************************************************)
EXTENDS Transfer, TLAPS

\* The requests that have taken the session out of the map.
Claimed == {r \in Requests : start[r] \in {"taken", "created"}}

SessionFits ==
  /\ \A q, r \in Claimed : q = r
  /\ session.there => Claimed = {}
  /\ fetch = "idle" => ~session.there /\ Claimed = {}
  /\ created = IF \E r \in Requests : start[r] = "created" THEN 1 ELSE 0

\* A session that can still become a task has none yet, and what has no task yet
\* has neither target, engine nor uploader.
PhaseFits ==
  /\ session.there => phase = "session"
  /\ \A r \in Requests : start[r] = "taken" => phase = "session"
  /\ phase \in {"new", "session"} => status = "none" /\ up = "idle"
  /\ phase \in {"new", "session", "queued"} => dl = "idle"
  /\ phase = "backoff" => dl = "failed"
  /\ phase \notin {"new", "session", "over"} => status # "none"
  /\ status # "none" => target # "none"
  /\ status = "completed" => phase \in {"report", "telling", "cleanup", "over"}

\* The downloads aria2 has still to do.
Active == {g \in Gids : jobs[g] \in Running \cup {"waiting"}}

\* What the engine knows of, and what it may not have seen yet.
Followed ==
  CASE dl = "poll"        -> {gid, follower[gid]}
    [] dl = "interrupted" -> {follower[gid]}
    [] OTHER              -> {}

AriaFits ==
  /\ dl \in {"poll", "interrupted"} => gid \in Gids
  /\ faults = 0 =>
       /\ daemon
       /\ Active \subseteq Followed
       /\ \A g \in Gids : follower[g] # NoGid => jobs[g] = "complete"
       /\ \A g, h \in Gids : jobs[g] \in {"unused", "metadata"} => follower[h] # g

Good == {"full", "same"}

UploadFits ==
  /\ url # 0 => store[url] \in Good
  /\ up \in {"copying", "linking", "second"} => target = "rclone"
  /\ up \in {"init", "parts", "complete"} => target = "viking"
  /\ up \in {"send", "sent"} => target = "telegram"
  /\ up = "copying" => named = try
  /\ target = "rclone" /\ up \in {"linking", "second", "ok"} =>
       named # 0 /\ store[named] \in Good
  /\ target = "viking" /\ up \in {"complete", "ok"} =>
       \A p \in 1..Parts : parts[p] \in {"sent", "unasked"}
  /\ target = "viking" /\ up = "ok" => "viking" \in shelf
  /\ target = "telegram" /\ up \in {"sent", "ok"} => "telegram" \in shelf

\* The bot knows that the chat has the result, or is about to.
Announced == resultID \/ up = "sent"

ReportsFit ==
  ~repeated /\ badEdits = 0 =>
    /\ \A q, r \in Sending : q = r
    /\ results <= unheard + 1
    /\ results = unheard + 1 => Announced
    /\ Announced => Sending = {}

IInv ==
  /\ TypeOK /\ SessionFits /\ PhaseFits /\ AriaFits
  /\ UploadFits /\ DeliveredMeansThere /\ ReportsFit

USE EnginesAssumption, DeliveryAssumption, TransferAssumption

-----------------------------------------------------------------------------
(* The session.                                                            *)

SessionOwn ==
  \/ CreateTorrentSession \/ Fetch \/ Expire \/ Sweep \/ SessionsLost
  \/ \E r \in Requests : TakeSession(r) \/ StartCreates(r) \/ StartRefused(r)

Session == [there : BOOLEAN, fetching : BOOLEAN, files : BOOLEAN, error : BOOLEAN]

\* The flags of a session stay booleans.
LEMMA SessionFlags ==
  ASSUME SessionTypeOK, SessionOwn
  PROVE  session' \in Session /\ magnet' \in BOOLEAN /\ listed' \in BOOLEAN
<1> USE DEF SessionTypeOK, Session
<1>n. NoSession \in Session
  BY Zenon DEF NoSession
<1>f. session.there \in BOOLEAN /\ listed \in BOOLEAN /\ (~listed) \in BOOLEAN
  BY Zenon
<1>e. ASSUME NEW a \in BOOLEAN, NEW b \in BOOLEAN, NEW c \in BOOLEAN
      PROVE  /\ [session EXCEPT !.fetching = a] \in Session
             /\ [session EXCEPT !.fetching = a, !.error = b] \in Session
             /\ [session EXCEPT !.fetching = a, !.files = b, !.error = c] \in Session
  <2>1. [session EXCEPT !.fetching = a] \in Session
    BY Zenon
  <2>2. [session EXCEPT !.fetching = a, !.error = b] \in Session
    BY Zenon
  <2>3. [session EXCEPT !.fetching = a, !.files = b, !.error = c] \in Session
    BY Zenon
  <2> QED
    BY <2>1, <2>2, <2>3, Zenon
<1>1. CASE CreateTorrentSession
  <2>1. session' \in Session
    BY <1>1, Zenon DEF CreateTorrentSession, NoSession
  <2> QED
    BY <1>1, <2>1, Zenon DEF CreateTorrentSession
<1>2. CASE MarkFetching
  BY <1>2, <1>e, <1>f, Zenon DEF MarkFetching
<1>3. CASE ParseMetadata
  BY <1>3, Zenon DEF ParseMetadata
<1>4. CASE FinalizeMetadataFetch
  <2>1. [session EXCEPT !.fetching = FALSE, !.files = listed, !.error = ~listed] \in Session
    BY <1>e, <1>f, Zenon
  <2> QED
    BY <1>4, <2>1, Zenon DEF FinalizeMetadataFetch
<1>5. CASE UpdateSessionError
  BY <1>5, <1>e, Zenon DEF UpdateSessionError
<1>6. CASE FetchBegins \/ FetchMagnet
  BY <1>6, Zenon DEF FetchBegins, FetchMagnet
<1>7. CASE Expire \/ Sweep \/ SessionsLost
  BY <1>7, <1>n, Zenon DEF Expire, Sweep, SessionsLost
<1>8. ASSUME NEW r \in Requests, TakeSession(r) \/ StartCreates(r) \/ StartRefused(r)
      PROVE  session' \in Session /\ magnet' \in BOOLEAN /\ listed' \in BOOLEAN
  BY <1>8, <1>n, Zenon DEF TakeSession, StartCreates, StartRefused
<1> QED
  BY <1>1, <1>2, <1>3, <1>4, <1>5, <1>6, <1>7, <1>8, Zenon DEF SessionOwn, Fetch

\* Whatever happens to a session, one request at most gets it.
LEMMA SessionStepKeeps ==
  ASSUME SessionTypeOK, SessionFits, SessionOwn
  PROVE  SessionTypeOK' /\ SessionFits'
<1>f. session' \in Session /\ magnet' \in BOOLEAN /\ listed' \in BOOLEAN
  BY SessionFlags
<1>t. /\ start \in [Requests -> {"idle", "taken", "created", "refused", "missing"}]
      /\ session \in Session /\ created \in 0..1
      /\ fetch \in {"idle", "begin", "mark", "magnet", "parse", "finalize", "failed", "over"}
  BY DEF SessionTypeOK, Session
<1> USE DEF SessionFits, Claimed
<1>1. CASE CreateTorrentSession
  <2>1. fetch' = "begin" /\ UNCHANGED <<start, created>> /\ Claimed = {}
    BY <1>1 DEF CreateTorrentSession
  <2> QED
    BY <1>f, <1>t, <2>1 DEF SessionTypeOK, Session
<1>2. CASE Fetch
  <2>1. UNCHANGED <<start, created>>
    BY <1>2 DEF Fetch, FetchBegins, MarkFetching, FetchMagnet, ParseMetadata,
          FinalizeMetadataFetch, UpdateSessionError
  <2>2. session'.there = session.there
    <3>1. \/ session' = session
          \/ session' = [session EXCEPT !.fetching = session.there]
          \/ session' = [session EXCEPT !.fetching = FALSE, !.error = TRUE]
          \/ session' = [session EXCEPT !.fetching = FALSE, !.files = listed, !.error = ~listed]
      BY <1>2, Zenon DEF Fetch, FetchBegins, MarkFetching, FetchMagnet, ParseMetadata,
            FinalizeMetadataFetch, UpdateSessionError
    <3> QED
      BY <1>t, <3>1, Zenon DEF Session
  <2>3. fetch' \in {"mark", "magnet", "parse", "finalize", "failed", "over"}
    BY <1>2 DEF Fetch, FetchBegins, MarkFetching, FetchMagnet, ParseMetadata,
          FinalizeMetadataFetch, UpdateSessionError
  <2> QED
    BY <1>f, <1>t, <2>1, <2>2, <2>3 DEF SessionTypeOK, Session
<1>3. CASE Expire \/ Sweep
  <2>1. UNCHANGED <<fetch, start, created>> /\ ~session'.there
    BY <1>3 DEF Expire, Sweep, NoSession
  <2> QED
    BY <1>f, <1>t, <2>1 DEF SessionTypeOK, Session
<1>4. CASE SessionsLost
  <2>1. fetch' = "over" /\ created' = created /\ ~session'.there
    BY <1>4 DEF SessionsLost, NoSession
  <2>2. start' = [r \in Requests |->
                    IF start[r] \in {"idle", "taken"} THEN "missing" ELSE start[r]]
    BY <1>4 DEF SessionsLost
  <2>3. \A r \in Requests :
           /\ start'[r] # "taken"
           /\ start'[r] = "created" <=> start[r] = "created"
    BY <1>t, <2>2
  <2> QED
    BY <1>f, <1>t, <2>1, <2>2, <2>3 DEF SessionTypeOK, Session
<1>5. ASSUME NEW r \in Requests, TakeSession(r)
      PROVE  SessionTypeOK' /\ SessionFits'
  <2>1. /\ start[r] = "idle" /\ fetch' = fetch /\ created' = created /\ ~session'.there
        /\ start' = [start EXCEPT ![r] = IF session.there THEN "taken" ELSE "missing"]
    BY <1>5 DEF TakeSession, NoSession
  <2> QED
    BY <1>f, <1>t, <2>1 DEF SessionTypeOK, Session
<1>6. ASSUME NEW r \in Requests, StartCreates(r)
      PROVE  SessionTypeOK' /\ SessionFits'
  <2>1. /\ start[r] = "taken" /\ fetch' = fetch /\ created' = created + 1
        /\ session' = session /\ start' = [start EXCEPT ![r] = "created"]
    BY <1>6 DEF StartCreates
  <2>2. created = 0
    BY <2>1
  <2> QED
    BY <1>f, <1>t, <2>1, <2>2 DEF SessionTypeOK, Session
<1>7. ASSUME NEW r \in Requests, StartRefused(r)
      PROVE  SessionTypeOK' /\ SessionFits'
  <2>1. /\ start[r] = "taken" /\ fetch' = fetch /\ created' = created
        /\ session' = session /\ start' = [start EXCEPT ![r] = "refused"]
    BY <1>7 DEF StartRefused
  <2> QED
    BY <1>f, <1>t, <2>1 DEF SessionTypeOK, Session
<1> QED
  BY <1>1, <1>2, <1>3, <1>4, <1>5, <1>6, <1>7 DEF SessionOwn

-----------------------------------------------------------------------------
(* The engine, aria2 and the userbot.                                      *)

Bot == [client : 1..Clients, started : BOOLEAN]

Places == {"idle", "add", "poll", "probe", "run", "burn", "start", "check", "resolve",
           "stream", "ok", "failed", "interrupted"}

\* The daemon's state and the userbot's stay booleans and clients.
LEMMA EngineFlags ==
  ASSUME EngineTypeOK, EngineRuns \/ EngineWorld \/ EnginesRestart
  PROVE  daemon' \in BOOLEAN /\ userbot' \in Bot
<1> USE DEF EngineTypeOK, Bot
<1>c. 1 \in 1..Clients
  OBVIOUS
<1>1. CASE EnginesRestart
  BY <1>1, <1>c, Zenon DEF EnginesRestart
<1>2. CASE UserbotStart
  <2>1. userbot.client # Clients => userbot.client + 1 \in 1..Clients
    OBVIOUS
  <2>2. \/ userbot' = userbot
        \/ /\ userbot.client # Clients
           /\ userbot' = [userbot EXCEPT !.client = userbot.client + 1]
    BY <1>2, Zenon DEF UserbotStart, botVars
  <2> QED
    BY <1>2, <2>1, <2>2, Zenon DEF UserbotStart, aria2Vars
<1>3. ASSUME NEW c \in 1..Clients, ClientConnects(c) \/ ClientDies(c)
      PROVE  daemon' \in BOOLEAN /\ userbot' \in Bot
  BY <1>3, Zenon DEF ClientConnects, ClientDies, aria2Vars
<1>4. CASE DaemonDies
  BY <1>4, Zenon DEF DaemonDies, botVars
<1>5. EngineRuns \/ EngineWorld =>
        \/ UserbotStart \/ DaemonDies \/ UNCHANGED <<daemon, userbot>>
        \/ \E c \in 1..Clients : ClientConnects(c) \/ ClientDies(c)
  BY Zenon DEF EngineRuns, EngineWorld, Aria2Client, Tool, Userbot, Aria2Daemon, AddJob,
     AddAnswerLost, AddRefused, PollFollows, PollStatus, RemoveOnCancel, RemoveLost,
     ProbeDrive, ToolSucceeds, BurnSubtitles, ToolFails, ToolKilled, UserbotCheck,
     UserbotResolves, UserbotResolveFails, UserbotStreams, JobRuns, JobEnds, MetadataDone,
     aria2Vars, botVars
<1> QED
  BY <1>1, <1>2, <1>3, <1>4, <1>5, Zenon

\* The aria2 client: what it adds it follows, and what it leaves it has seen the end
\* of, but for what follows a metadata download it was about to look at.
LEMMA ClientStepKeeps ==
  ASSUME EngineTypeOK, AriaFits, Aria2Client
  PROVE  EngineTypeOK' /\ AriaFits'
<1>f. daemon' \in BOOLEAN /\ userbot' \in Bot
  BY EngineFlags DEF EngineRuns
<1>t. /\ jobs \in [Gids -> Job] /\ follower \in [Gids -> Gids \cup {NoGid}]
      /\ gid \in Gids \cup {NoGid} /\ faults \in 0..MaxFaults
  BY DEF EngineTypeOK
<1> USE <1>f, <1>t DEF EngineTypeOK, Bot, AriaFits, Active, Followed, Job, Running, Step,
       botVars, aria2Vars, Fault
<1>1. ASSUME NEW g \in Gids, AddJob(g) PROVE EngineTypeOK' /\ AriaFits'
  BY <1>1 DEF AddJob, NewJob
<1>2. ASSUME NEW g \in Gids, AddAnswerLost(g) PROVE EngineTypeOK' /\ AriaFits'
  BY <1>2 DEF AddAnswerLost, NewJob
<1>3. CASE AddRefused
  BY <1>3 DEF AddRefused
<1>4. CASE PollFollows
  BY <1>4 DEF PollFollows
<1>5. CASE PollStatus
  BY <1>5 DEF PollStatus
<1>6. CASE RemoveOnCancel
  BY <1>6 DEF RemoveOnCancel
<1>7. CASE RemoveLost
  BY <1>7 DEF RemoveLost
<1> QED
  BY <1>1, <1>2, <1>3, <1>4, <1>5, <1>6, <1>7 DEF Aria2Client

\* The command-line tools and the userbot leave aria2 alone.
LEMMA OtherEngineKeeps ==
  ASSUME EngineTypeOK, AriaFits, Tool \/ Userbot
  PROVE  EngineTypeOK' /\ AriaFits'
<1>f. daemon' \in BOOLEAN /\ userbot' \in Bot
  BY EngineFlags DEF EngineRuns
<1>1. /\ UNCHANGED <<source, gid, jobs, follower, daemon, faults>>
      /\ dl \notin {"poll", "interrupted"} /\ dl' \notin {"poll", "interrupted"}
      /\ dl' \in Places
  <2> USE DEF Step, aria2Vars, Places
  <2>1. CASE Tool
    BY <2>1 DEF Tool, ProbeDrive, ToolSucceeds, BurnSubtitles, ToolFails, ToolKilled
  <2>2. CASE Userbot
    BY <2>2 DEF Userbot, UserbotStart, UserbotCheck, UserbotResolves, UserbotResolveFails,
          UserbotStreams
  <2> QED
    BY <2>1, <2>2
<1>2. clients' \in [1..Clients -> {"none", "connecting", "connected", "dead"}]
  <2>1. \/ clients' = clients
        \/ clients' = [clients EXCEPT ![userbot.client + 1] = "connecting"]
    BY Zenon DEF Tool, Userbot, ProbeDrive, ToolSucceeds, BurnSubtitles, ToolFails, ToolKilled,
       UserbotStart, UserbotCheck, UserbotResolves, UserbotResolveFails, UserbotStreams, botVars
  <2> QED
    BY <2>1 DEF EngineTypeOK
<1>3. EngineTypeOK'
  BY <1>f, <1>1, <1>2 DEF EngineTypeOK, Bot, Places
<1>4. AriaFits'
  BY <1>1 DEF AriaFits, Active, Followed
<1> QED
  BY <1>3, <1>4

\* aria2 at work, and Telegram.  Only a magnet link's metadata, followed by nobody,
\* makes a new download.
LEMMA WorldStepKeeps ==
  ASSUME EngineTypeOK, AriaFits, EngineWorld
  PROVE  EngineTypeOK' /\ AriaFits'
<1>f. daemon' \in BOOLEAN /\ userbot' \in Bot
  BY EngineFlags
<1>t. /\ jobs \in [Gids -> Job] /\ follower \in [Gids -> Gids \cup {NoGid}]
      /\ gid \in Gids \cup {NoGid} /\ faults \in 0..MaxFaults
  BY DEF EngineTypeOK
<1> USE <1>f, <1>t DEF EngineTypeOK, Bot, AriaFits, Active, Followed, Job, Running, aria2Vars,
       botVars, Fault
<1>1. ASSUME NEW g \in Gids, JobRuns(g) PROVE EngineTypeOK' /\ AriaFits'
  BY <1>1 DEF JobRuns
<1>2. ASSUME NEW g \in Gids, JobEnds(g) PROVE EngineTypeOK' /\ AriaFits'
  BY <1>2 DEF JobEnds
<1>3. ASSUME NEW g \in Gids, NEW h \in Gids, MetadataDone(g, h)
      PROVE  EngineTypeOK' /\ AriaFits'
  BY <1>3 DEF MetadataDone
<1>4. CASE DaemonDies
  BY <1>4 DEF DaemonDies, DownloadsGone
<1>5. ASSUME NEW c \in 1..Clients, ClientConnects(c) \/ ClientDies(c)
      PROVE  EngineTypeOK' /\ AriaFits'
  <2>1. UNCHANGED <<source, dl, gid, jobs, follower, daemon, faults>>
    BY <1>5 DEF ClientConnects, ClientDies
  <2>2. \/ clients' = [clients EXCEPT ![c] = "connected"]
        \/ clients' = [clients EXCEPT ![c] = "dead"]
    BY <1>5 DEF ClientConnects, ClientDies
  <2> QED
    BY <2>1, <2>2
<1> QED
  BY <1>1, <1>2, <1>3, <1>4, <1>5 DEF EngineWorld, Aria2Daemon

\* After a restart there is a fault, and the client follows nothing.
LEMMA RestartKeepsEngine ==
  ASSUME EngineTypeOK, AriaFits, Fault, EnginesRestart
  PROVE  EngineTypeOK' /\ AriaFits'
<1>f. daemon' \in BOOLEAN /\ userbot' \in Bot
  BY EngineFlags
<1>1. jobs' \in [Gids -> Job]
  BY DEF EnginesRestart, EngineTypeOK, DownloadsGone, Job
<1>2. faults' \in 1..MaxFaults
  BY DEF Fault, EngineTypeOK
<1>3. dl' = "idle" /\ gid' = NoGid /\ UNCHANGED <<source, follower>>
  BY DEF EnginesRestart
<1>4. clients' \in [1..Clients -> {"none", "connecting", "connected", "dead"}]
  BY DEF EnginesRestart
<1> QED
  BY <1>f, <1>1, <1>2, <1>3, <1>4 DEF EngineTypeOK, Bot, AriaFits

-----------------------------------------------------------------------------
(* The uploaders and the report.                                           *)

ReportStep == ReaderEnds \/ \E r \in Reporters : UpdateTaskStatus(r) \/ Reporting(r)

Flags == reading \in BOOLEAN /\ resultID \in BOOLEAN /\ repeated \in BOOLEAN

\* What is read, recorded and repeated stays a boolean.
LEMMA DeliveryFlags ==
  ASSUME DeliveryTypeOK, BeginUpload \/ Uploader \/ ReportStep \/ DeliveryRestart
  PROVE  Flags'
<1>f. Flags
  BY Zenon DEF DeliveryTypeOK, Flags
<1> USE DEF Flags
<1>1. CASE BeginUpload
  BY <1>f, <1>1, Zenon DEF BeginUpload, CopyTo, reportVars
<1>2. CASE CopyFails
  BY <1>f, <1>2, Zenon DEF CopyFails, CopyTo, reportVars
<1>3. CASE TelegramSend \/ CompleteTelegramUpload
  BY <1>f, <1>3, Zenon DEF TelegramSend, CompleteTelegramUpload
<1>4. Uploader => CopyFails \/ TelegramSend \/ CompleteTelegramUpload
                    \/ UNCHANGED <<reading, resultID, repeated>>
  BY Zenon DEF Uploader, Rclone, CopySucceeds, GenerateRcloneLink, UploadToDest2, VikingInit,
     VikingJoin, VikingComplete, VikingUploadPart, TelegramSendFails, reportVars
<1>5. CASE UNCHANGED <<reading, resultID, repeated>>
  BY <1>f, <1>5, Zenon
<1>6. CASE DeliveryRestart
  <2>1. (results > 0) \in BOOLEAN
    BY DEF DeliveryTypeOK
  <2> QED
    BY <1>f, <1>6, <2>1, Zenon DEF DeliveryRestart
<1>7. CASE ReaderEnds
  BY <1>f, <1>7, Zenon DEF ReaderEnds, reportVars
<1>8. ASSUME NEW r \in Reporters, UpdateTaskStatus(r) \/ Reporting(r) PROVE Flags'
  BY <1>f, <1>8, Zenon DEF UpdateTaskStatus, Reporting, Report, SendVideoFails,
     SendFinalMessage, Sent, SendFails, Edited, EditFails
<1> QED
  BY <1>1, <1>2, <1>3, <1>4, <1>5, <1>6, <1>7, <1>8, Zenon DEF ReportStep

\* Every uploader ends with "ok" only where the file is, and no later copy spoils a
\* place that has been named or linked.
LEMMA UploaderKeeps ==
  ASSUME DeliveryTypeOK, UploadFits, Uploader
  PROVE  DeliveryTypeOK' /\ UploadFits'
<1>f. Flags'
  BY DeliveryFlags
<1>r. /\ UNCHANGED <<report, badEdits>>
      /\ \/ UNCHANGED <<results, unheard>>
         \/ results' = results + 1 /\ unheard' = unheard
         \/ Unheard
  BY Zenon DEF Uploader, Rclone, CopySucceeds, CopyFails, GenerateRcloneLink, UploadToDest2,
     VikingInit, VikingJoin, VikingComplete, VikingUploadPart, TelegramSendFails, TelegramSend,
     CompleteTelegramUpload, reportVars
<1>t. /\ try \in 1..Remotes /\ named \in 0..Remotes /\ url \in 0..Remotes
      /\ store \in [1..Remotes -> {"none", "same", "partial", "full"}]
      /\ parts \in [1..Parts -> {"todo", "sent", "failed", "unasked"}]
      /\ shelf \subseteq {"viking", "telegram"}
      /\ target \in {"none", "rclone", "viking", "telegram"}
  BY DEF DeliveryTypeOK
<1> DEFINE Fit == /\ UploadFits'
                  /\ target' = target /\ second' = second
                  /\ up' \in {"copying", "linking", "second", "init", "parts", "complete",
                             "send", "sent", "ok", "failed"}
                  /\ try' \in 1..Remotes /\ named' \in 0..Remotes /\ url' \in 0..Remotes
                  /\ store' \in [1..Remotes -> {"none", "same", "partial", "full"}]
                  /\ parts' \in [1..Parts -> {"todo", "sent", "failed", "unasked"}]
                  /\ shelf' \subseteq {"viking", "telegram"}
<1>1. ASSUME Rclone PROVE Fit
  <2> USE <1>t DEF UploadFits, Good
  <2>1. ASSUME CopySucceeds PROVE Fit
    BY <2>1 DEF CopySucceeds
  <2>2. ASSUME CopyFails PROVE Fit
    BY <2>2 DEF CopyFails, CopyTo
  <2>3. ASSUME GenerateRcloneLink PROVE Fit
    BY <2>3 DEF GenerateRcloneLink, IndexLink, DirectLink
  <2>4. ASSUME UploadToDest2 PROVE Fit
    BY <2>4 DEF UploadToDest2
  <2> QED
    BY <1>1, <2>1, <2>2, <2>3, <2>4 DEF Rclone
<1>2. ASSUME VikingInit \/ VikingJoin \/ VikingComplete PROVE Fit
  <2> USE <1>t DEF UploadFits, Good
  <2>1. ASSUME VikingInit PROVE Fit
    BY <2>1 DEF VikingInit
  <2>2. ASSUME VikingJoin PROVE Fit
    BY <2>2 DEF VikingJoin
  <2>3. ASSUME VikingComplete PROVE Fit
    BY <2>3 DEF VikingComplete
  <2> QED
    BY <1>2, <2>1, <2>2, <2>3
<1>3. ASSUME NEW p \in 1..Parts, VikingUploadPart(p) PROVE Fit
  BY <1>3, <1>t DEF VikingUploadPart, UploadFits, Good
<1>4. ASSUME TelegramSendFails \/ TelegramSend \/ CompleteTelegramUpload PROVE Fit
  BY <1>4, <1>t DEF TelegramSendFails, TelegramSend, CompleteTelegramUpload, UploadFits, Good
<1>5. Fit
  BY <1>1, <1>2, <1>3, <1>4 DEF Uploader
<1>6. results' \in Nat /\ unheard' \in 0..MaxSlips
  BY <1>r DEF Unheard, Slip, DeliveryTypeOK
<1> QED
  BY <1>f, <1>r, <1>5, <1>6 DEF DeliveryTypeOK, Flags

\* A task with a target begins its upload at the uploader of that target.
LEMMA BeginUploadKeeps ==
  ASSUME DeliveryTypeOK, UploadFits, BeginUpload, target # "none"
  PROVE  DeliveryTypeOK' /\ UploadFits'
<1>f. Flags'
  BY DeliveryFlags
<1>1. /\ UNCHANGED <<target, store, url, second, parts, shelf, report, results, badEdits, unheard>>
      /\ CASE target = "rclone" -> up' = "copying" /\ try' = 1 /\ named' = 1
           [] target = "viking" -> up' = "init" /\ UNCHANGED <<try, named>>
           [] OTHER             -> up' = "send" /\ UNCHANGED <<try, named>>
  BY DEF BeginUpload, CopyTo, reportVars
<1>2. target \in {"rclone", "viking", "telegram"}
  BY DEF DeliveryTypeOK
<1> QED
  BY <1>f, <1>1, <1>2 DEF DeliveryTypeOK, UploadFits, Flags, Good

\* What the bot forgets at a restart takes nothing from where the file was put.
LEMMA RestartKeepsDelivery ==
  ASSUME DeliveryTypeOK, UploadFits, DeliveryRestart
  PROVE  DeliveryTypeOK' /\ UploadFits' /\ ReportsFit'
<1>f. Flags'
  BY DeliveryFlags
<1>1. /\ UNCHANGED <<target, store, named, url, parts, shelf, results, badEdits, unheard>>
      /\ up' = "idle" /\ try' = 1 /\ second' = "off"
      /\ report' = [r \in Reporters |-> "idle"]
  BY DEF DeliveryRestart
<1>2. DeliveryTypeOK' /\ UploadFits'
  BY <1>f, <1>1 DEF DeliveryTypeOK, UploadFits, Flags, Good
<1>3. ~repeated' => results' = 0
  <2>1. ~repeated' => ~(results > 0)
    BY Zenon DEF DeliveryRestart
  <2> QED
    BY <1>1, <2>1 DEF DeliveryTypeOK
<1>4. Sending' = {} /\ unheard' \in Nat
  BY <1>1 DEF Sending, DeliveryTypeOK
<1> QED
  BY <1>2, <1>3, <1>4 DEF ReportsFit

\* A report touches nothing of the upload.
LEMMA ReportKeepsUpload ==
  ASSUME DeliveryTypeOK, UploadFits, ReportStep
  PROVE  DeliveryTypeOK' /\ UploadFits'
<1>f. Flags'
  BY DeliveryFlags
<1>1. UNCHANGED uploadVars
  BY Zenon DEF ReportStep, ReaderEnds, UpdateTaskStatus, Reporting, Report, SendVideoFails,
     SendFinalMessage, Sent, SendFails, Edited, EditFails
<1>2. /\ report' \in [Reporters -> {"idle", "photo", "look", "send", "edit"}]
      /\ results' \in Nat /\ badEdits' \in 0..MaxSlips /\ unheard' \in 0..MaxSlips
  <2>1. CASE ReaderEnds
    BY <2>1 DEF ReaderEnds, reportVars, DeliveryTypeOK
  <2>2. ASSUME NEW r \in Reporters, UpdateTaskStatus(r) \/ Reporting(r)
        PROVE  /\ report' \in [Reporters -> {"idle", "photo", "look", "send", "edit"}]
               /\ results' \in Nat /\ badEdits' \in 0..MaxSlips /\ unheard' \in 0..MaxSlips
    <3>1. \E p \in {"idle", "photo", "look", "send", "edit"} :
             report' = [report EXCEPT ![r] = p]
      BY <2>2, Zenon DEF UpdateTaskStatus, Reporting, Report, SendVideoFails,
         SendFinalMessage, Sent, SendFails, Edited, EditFails
    <3>2. (results' \in {results, results + 1} /\ unheard' = unheard) \/ Unheard
      BY <2>2, Zenon DEF UpdateTaskStatus, Reporting, Report, SendVideoFails,
         SendFinalMessage, Sent, SendFails, Edited, EditFails
    <3>3. badEdits' = badEdits \/ (Slip /\ badEdits' = badEdits + 1)
      BY <2>2, Zenon DEF UpdateTaskStatus, Reporting, Report, SendVideoFails,
         SendFinalMessage, Sent, SendFails, Edited, EditFails
    <3> QED
      BY <3>1, <3>2, <3>3 DEF DeliveryTypeOK, Unheard, Slip
  <2> QED
    BY <2>1, <2>2 DEF ReportStep
<1> QED
  BY <1>f, <1>1, <1>2 DEF DeliveryTypeOK, UploadFits, Flags, Good, uploadVars

\* Until reports overlap or an edit fails, the reporter that sends is alone and sends
\* what nobody has sent.
LEMMA ReportStepKeeps ==
  ASSUME DeliveryTypeOK, ReportsFit, ReportStep
  PROVE  ReportsFit'
<1>t. report \in [Reporters -> {"idle", "photo", "look", "send", "edit"}] /\ results \in Nat
      /\ unheard \in Nat
  BY DEF DeliveryTypeOK
<1>u. up' = up
  BY Zenon DEF ReportStep, ReaderEnds, UpdateTaskStatus, Reporting, Report, SendVideoFails,
     SendFinalMessage, Sent, SendFails, Edited, EditFails, uploadVars
<1> USE <1>t, <1>u DEF ReportsFit, Announced, Sending
<1>1. CASE ReaderEnds
  BY <1>1 DEF ReaderEnds, reportVars
<1>2. ASSUME NEW r \in Reporters, UpdateTaskStatus(r) PROVE ReportsFit'
  <2>1. ~repeated' => ~repeated
    BY <1>2, Zenon DEF UpdateTaskStatus
  <2>2. UNCHANGED <<resultID, results, badEdits, unheard>>
    BY <1>2, Zenon DEF UpdateTaskStatus, Report
  <2>3. \/ report' = [report EXCEPT ![r] = "look"] /\ report[r] = "idle"
        \/ /\ report' = [report EXCEPT ![r] = "photo"] /\ ~resultID
           /\ ~repeated' => Sending \ {r} = {} /\ up # "sent"
    BY <1>2, Zenon DEF UpdateTaskStatus, Report, Unrecorded
  <2> QED
    BY <2>1, <2>2, <2>3
<1>3. ASSUME NEW r \in Reporters, SendVideoFails(r) PROVE ReportsFit'
  BY <1>3 DEF SendVideoFails, Report, Unheard
<1>4. ASSUME NEW r \in Reporters, SendFinalMessage(r) PROVE ReportsFit'
  <2>1. ~repeated' => ~repeated
    BY <1>4, Zenon DEF SendFinalMessage
  <2>2. UNCHANGED <<resultID, results, badEdits, unheard>> /\ report[r] = "look"
    BY <1>4, Zenon DEF SendFinalMessage, Report
  <2>3. \/ report' = [report EXCEPT ![r] = "edit"]
        \/ /\ report' = [report EXCEPT ![r] = "send"] /\ ~resultID
           /\ ~repeated' => Sending \ {r} = {} /\ up # "sent"
    BY <1>4, Zenon DEF SendFinalMessage, Report, Unrecorded
  <2> QED
    BY <2>1, <2>2, <2>3
<1>5. ASSUME NEW r \in Reporters, Sent(r) PROVE ReportsFit'
  BY <1>5 DEF Sent, Report
<1>6. ASSUME NEW r \in Reporters, SendFails(r) PROVE ReportsFit'
  BY <1>6 DEF SendFails, Report, Unheard
<1>7. ASSUME NEW r \in Reporters, Edited(r) PROVE ReportsFit'
  BY <1>7 DEF Edited, Report
<1>8. ASSUME NEW r \in Reporters, EditFails(r) PROVE ReportsFit'
  BY <1>8 DEF EditFails, DeliveryTypeOK
<1> QED
  BY <1>1, <1>2, <1>3, <1>4, <1>5, <1>6, <1>7, <1>8 DEF ReportStep, Reporting

\* The file in the chat is a result, too.
LEMMA UploaderKeepsReports ==
  ASSUME DeliveryTypeOK, ReportsFit, Uploader \/ BeginUpload
  PROVE  ReportsFit'
<1>t. results \in Nat /\ unheard \in Nat
  BY DEF DeliveryTypeOK
<1>1. CASE TelegramSend
  <2>1. ~repeated' => ~repeated /\ Sending = {} /\ ~resultID
    BY <1>1, Zenon DEF TelegramSend
  <2>2. /\ up = "send" /\ up' = "sent" /\ results' = results + 1
        /\ UNCHANGED <<report, resultID, badEdits, unheard>>
    BY <1>1 DEF TelegramSend
  <2> QED
    BY <1>t, <2>1, <2>2 DEF ReportsFit, Announced, Sending
<1>2. CASE CompleteTelegramUpload
  BY <1>2 DEF CompleteTelegramUpload, ReportsFit, Announced, Sending
<1>3. CASE UNCHANGED reportVars /\ up # "sent" /\ up' # "sent"
  BY <1>3 DEF reportVars, ReportsFit, Announced, Sending
<1>4. CASE TelegramSendFails
  <2>1. up # "sent" /\ up' # "sent" /\ UNCHANGED <<report, resultID, repeated, badEdits>>
    BY <1>4 DEF TelegramSendFails
  <2>2. \/ UNCHANGED <<results, unheard>>
        \/ results' = results + 1 /\ unheard' = unheard + 1
    BY <1>4, Zenon DEF TelegramSendFails, Unheard
  <2> QED
    BY <1>t, <2>1, <2>2 DEF ReportsFit, Announced, Sending
<1>5. Uploader \/ BeginUpload =>
        \/ TelegramSend \/ CompleteTelegramUpload \/ TelegramSendFails
        \/ UNCHANGED reportVars /\ up # "sent" /\ up' # "sent"
  BY DEF Uploader, BeginUpload, Rclone, CopySucceeds, CopyFails, CopyTo, GenerateRcloneLink,
     UploadToDest2, VikingInit, VikingJoin, VikingComplete, VikingUploadPart
<1> QED
  BY <1>1, <1>2, <1>3, <1>4, <1>5

-----------------------------------------------------------------------------
(* Together: what each step of Transfer is to each component.              *)

\* What a user asks for is a kind of source and a kind of target.
LEMMA RoutesFit ==
  ASSUME NEW route \in Routes
  PROVE  route[1] \in Source /\ route[2] \in {"rclone", "viking", "telegram"}
OBVIOUS

\* To the session: a step of its own, or none.
LEMMA NextOfSession ==
  ASSUME [Next]_vars
  PROVE  SessionOwn \/ UNCHANGED sessionVars
<1>1. ASSUME NEW r \in Requests, StartTorrent(r) PROVE SessionOwn
  BY <1>1, Zenon DEF StartTorrent, SessionOwn
<1>2. SessionStep \/ AskTorrent \/ Restart => SessionOwn
  BY Zenon DEF SessionStep, AskTorrent, Restart, SessionOwn
<1>3. Next => \/ \E r \in Requests : StartTorrent(r)
              \/ SessionStep \/ AskTorrent \/ Restart \/ UNCHANGED sessionVars
  BY Zenon DEF Next, AskLink, Pick, Engine, Beside, Downloaded, Interrupted, DownloadFails,
     RetryFires, RetryAborted, PostDownload, PackFails, Upload, Uploading, Uploaded, Tell, Told,
     CleanupTask, Reports, Cancel
<1>4. UNCHANGED vars => UNCHANGED sessionVars
  BY Zenon DEF vars
<1> QED
  BY <1>1, <1>2, <1>3, <1>4, Zenon

EngineRest == <<aria2Vars, botVars, faults>>

\* To the engine: a step of its own, the restart, the call of engine.Download, the
\* end of the backoff, or the task's URL.
LEMMA NextOfEngine ==
  ASSUME [Next]_vars
  PROVE  \/ EngineRuns \/ EngineWorld
         \/ Fault /\ EnginesRestart
         \/ phase = "queued" /\ StartEngine /\ UNCHANGED <<source, EngineRest>>
         \/ phase = "backoff" /\ dl' = "idle" /\ UNCHANGED <<source, EngineRest>>
         \/ source' \in Source /\ UNCHANGED <<dl, EngineRest>>
         \/ UNCHANGED engineVars
<1>1. CASE AskLink
  BY <1>1, RoutesFit DEF AskLink, CreateTask, EngineRest
<1>2. ASSUME NEW r \in Requests, StartTorrent(r)
      PROVE  source' \in Source /\ UNCHANGED <<dl, EngineRest>>
  BY <1>2, RoutesFit DEF StartTorrent, CreateTask, EngineRest
<1>3. Pick => \/ phase = "queued" /\ StartEngine /\ UNCHANGED <<source, EngineRest>>
              \/ UNCHANGED engineVars
  BY DEF Pick, Go, EngineRest, engineVars, aria2Vars, botVars
<1>4. Engine \/ Beside => EngineRuns \/ EngineWorld
  BY Zenon DEF Engine, Beside
<1>5. RetryFires => phase = "backoff" /\ dl' = "idle" /\ UNCHANGED <<source, EngineRest>>
  BY DEF RetryFires, Go, EngineRest
<1>6. Restart => Fault /\ EnginesRestart
  BY Zenon DEF Restart
<1>7. Next => \/ AskLink \/ \E r \in Requests : StartTorrent(r)
              \/ Pick \/ Engine \/ Beside \/ RetryFires \/ Restart \/ UNCHANGED engineVars
  BY Zenon DEF Next, AskTorrent, SessionStep, Downloaded, Interrupted, DownloadFails,
     RetryAborted, PostDownload, PackFails, Upload, Uploading, Uploaded, Tell, Told,
     CleanupTask, Reports, Cancel
<1>8. UNCHANGED vars => UNCHANGED engineVars
  BY Zenon DEF vars
<1> QED
  BY <1>1, <1>2, <1>3, <1>4, <1>5, <1>6, <1>7, <1>8, Zenon

UploadRest == <<up, try, store, named, url, parts, shelf, reportVars>>

\* To the uploader and the report: a step of theirs, the restart, the task's target,
\* or a tool whose output is read from now on.
LEMMA NextOfDelivery ==
  ASSUME TypeOK, [Next]_vars
  PROVE  \/ phase = "pack" /\ BeginUpload
         \/ phase = "upload" /\ Uploader
         \/ ReportStep \/ DeliveryRestart
         \/ /\ phase = "new" \/ \E r \in Requests : start[r] = "taken"
            /\ target' \in {"rclone", "viking", "telegram"} /\ second' \in {"off", "wanted"}
            /\ reading' = reading /\ UNCHANGED UploadRest
         \/ reading' \in BOOLEAN /\ UNCHANGED <<target, second, UploadRest>>
<1>r. reading \in BOOLEAN /\ (reading \/ source = "media") \in BOOLEAN
  BY Zenon DEF TypeOK, DeliveryTypeOK
<1>c. ASSUME NEW route \in Routes, CreateTask(route)
      PROVE  /\ target' \in {"rclone", "viking", "telegram"} /\ second' \in {"off", "wanted"}
             /\ reading' = reading /\ UNCHANGED UploadRest
  BY <1>c, RoutesFit DEF CreateTask, UploadRest
<1>1. AskLink => phase = "new" /\ \E route \in Routes : CreateTask(route)
  BY DEF AskLink, Go
<1>2. ASSUME NEW r \in Requests, StartTorrent(r)
      PROVE  start[r] = "taken" /\ \E route \in Routes : CreateTask(route)
  BY <1>2 DEF StartTorrent, StartCreates
<1>3. Pick => reading' \in BOOLEAN /\ UNCHANGED <<target, second, UploadRest>>
  <2>1. Pick => \/ reading' = reading
                \/ reading' = (reading \/ source = "media")
    BY Zenon DEF Pick
  <2>2. Pick => UNCHANGED <<target, second, UploadRest>>
    BY DEF Pick, UploadRest, uploadVars
  <2> QED
    BY <1>r, <2>1, <2>2, Zenon
<1>4. Upload => phase = "pack" /\ BeginUpload
  BY DEF Upload, Go
<1>5. Uploading => phase = "upload" /\ Uploader
  BY Zenon DEF Uploading
<1>6. Tell \/ Reports => ReportStep
  BY DEF Tell, Reports, ReportStep, RunReports, ProgressReports, Reporters
<1>7. Restart => DeliveryRestart
  BY Zenon DEF Restart
<1>8. UNCHANGED deliveryVars => reading' \in BOOLEAN /\ UNCHANGED <<target, second, UploadRest>>
  <2>1. UNCHANGED deliveryVars => reading' = reading /\ UNCHANGED <<target, second, UploadRest>>
    BY DEF deliveryVars, uploadVars, UploadRest
  <2> QED
    BY <1>r, <2>1, Zenon
<1>9. Next => \/ AskLink \/ \E r \in Requests : StartTorrent(r)
              \/ Pick \/ Upload \/ Uploading \/ Tell \/ Reports \/ Restart
              \/ UNCHANGED deliveryVars
  BY Zenon DEF Next, AskTorrent, SessionStep, Engine, Beside, Downloaded, Interrupted,
     DownloadFails, RetryFires, RetryAborted, PostDownload, PackFails, Uploaded, Told,
     CleanupTask, Cancel
<1>10. UNCHANGED vars => UNCHANGED deliveryVars
  BY Zenon DEF vars
<1> QED
  BY <1>c, <1>1, <1>2, <1>3, <1>4, <1>5, <1>6, <1>7, <1>8, <1>9, <1>10, Zenon

-----------------------------------------------------------------------------
(* The invariant, part by part.                                            *)

\* The session's part.
LEMMA SessionKept ==
  ASSUME IInv, [Next]_vars
  PROVE  SessionTypeOK' /\ SessionFits'
<1>1. SessionTypeOK /\ SessionFits
  BY Zenon DEF IInv, TypeOK
<1>2. CASE SessionOwn
  BY <1>1, <1>2, SessionStepKeeps
<1>3. CASE UNCHANGED sessionVars
  BY <1>1, <1>3 DEF sessionVars, SessionTypeOK, SessionFits, Claimed
<1> QED
  BY <1>2, <1>3, NextOfSession

\* The engine's part.
LEMMA EngineKept ==
  ASSUME IInv, [Next]_vars
  PROVE  EngineTypeOK' /\ AriaFits'
<1>t. EngineTypeOK /\ AriaFits /\ PhaseFits
  BY Zenon DEF IInv, TypeOK
<1>1. CASE EngineRuns
  BY <1>t, <1>1, ClientStepKeeps, OtherEngineKeeps DEF EngineRuns
<1>2. CASE EngineWorld
  BY <1>t, <1>2, WorldStepKeeps
<1>3. CASE Fault /\ EnginesRestart
  BY <1>t, <1>3, RestartKeepsEngine
<1> DEFINE Rest == source' \in Source \cup {"none"} /\ UNCHANGED EngineRest
<1>4. ASSUME Rest, dl' \in Places,
             dl' = dl \/ (dl \notin {"poll", "interrupted"} /\ dl' \notin {"poll", "interrupted"})
      PROVE  EngineTypeOK' /\ AriaFits'
  BY <1>t, <1>4 DEF EngineTypeOK, AriaFits, Active, Followed, Places, EngineRest, aria2Vars, botVars
<1>5. CASE phase = "queued" /\ StartEngine /\ UNCHANGED <<source, EngineRest>>
  BY <1>t, <1>4, <1>5 DEF PhaseFits, StartEngine, Places, EngineTypeOK
<1>6. CASE phase = "backoff" /\ dl' = "idle" /\ UNCHANGED <<source, EngineRest>>
  BY <1>t, <1>4, <1>6 DEF PhaseFits, Places, EngineTypeOK
<1>7. CASE source' \in Source /\ UNCHANGED <<dl, EngineRest>>
  BY <1>t, <1>4, <1>7 DEF Places, EngineTypeOK
<1>8. CASE UNCHANGED engineVars
  BY <1>t, <1>4, <1>8 DEF Places, EngineTypeOK, engineVars, EngineRest, aria2Vars, botVars
<1> QED
  BY <1>1, <1>2, <1>3, <1>5, <1>6, <1>7, <1>8, NextOfEngine

\* The uploader's and the report's part.
LEMMA DeliveryKept ==
  ASSUME IInv, [Next]_vars
  PROVE  DeliveryTypeOK' /\ UploadFits' /\ ReportsFit'
<1>t. TypeOK /\ DeliveryTypeOK /\ UploadFits /\ ReportsFit /\ PhaseFits
  BY Zenon DEF IInv, TypeOK
<1>1. CASE phase = "pack" /\ BeginUpload
  <2>1. target # "none"
    BY <1>t, <1>1 DEF PhaseFits
  <2> QED
    BY <1>t, <1>1, <2>1, BeginUploadKeeps, UploaderKeepsReports
<1>2. CASE Uploader
  BY <1>t, <1>2, UploaderKeeps, UploaderKeepsReports
<1>3. CASE ReportStep
  BY <1>t, <1>3, ReportKeepsUpload, ReportStepKeeps
<1>4. CASE DeliveryRestart
  BY <1>t, <1>4, RestartKeepsDelivery
<1>5. ASSUME UNCHANGED UploadRest PROVE ReportsFit'
  BY <1>t, <1>5 DEF UploadRest, reportVars, ReportsFit, Announced, Sending
<1>6. CASE /\ phase = "new" \/ \E r \in Requests : start[r] = "taken"
           /\ target' \in {"rclone", "viking", "telegram"} /\ second' \in {"off", "wanted"}
           /\ reading' = reading /\ UNCHANGED UploadRest
  <2>1. up = "idle"
    BY <1>t, <1>6 DEF PhaseFits
  <2> QED
    BY <1>t, <1>5, <1>6, <2>1 DEF DeliveryTypeOK, UploadFits, Good, UploadRest, reportVars
<1>7. CASE reading' \in BOOLEAN /\ UNCHANGED <<target, second, UploadRest>>
  BY <1>t, <1>5, <1>7 DEF DeliveryTypeOK, UploadFits, Good, UploadRest, reportVars
<1> QED
  BY <1>t, <1>1, <1>2, <1>3, <1>4, <1>6, <1>7, NextOfDelivery

Statuses == {"none", "queued", "downloading", "uploading"} \cup Terminal

Phases == {"new", "session", "queued", "download", "backoff", "post", "pack", "upload",
           "report", "telling", "cleanup", "over"}

\* The task's own variables.
LEMMA TaskTyped ==
  ASSUME IInv, [Next]_vars
  PROVE  /\ status' \in Statuses /\ stopped' \in BOOLEAN
         /\ phase' \in Phases /\ tries' \in 0..MaxRetries
<1>t. status \in Statuses /\ stopped \in BOOLEAN /\ phase \in Phases /\ tries \in 0..MaxRetries
  BY Zenon DEF IInv, TypeOK, Statuses, Phases
<1>1. stopped' \in BOOLEAN
  <2>1. Next => UNCHANGED stopped \/ stopped' = TRUE \/ stopped' = FALSE
    BY Zenon DEF Next, AskTorrent, AskLink, SessionStep, StartTorrent, Pick, Engine, Beside,
       Downloaded, Interrupted, DownloadFails, RetryFires, RetryAborted, PostDownload, PackFails,
       Upload, Uploading, Uploaded, Tell, Told, CleanupTask, Reports, Cancel, Restart, taskVars
  <2>2. UNCHANGED vars => UNCHANGED stopped
    BY Zenon DEF vars, taskVars
  <2> QED
    BY <1>t, <2>1, <2>2, Zenon
<1>2. status' \in Statuses
  BY <1>t DEF Next, AskTorrent, AskLink, CreateTask, SessionStep, StartTorrent, Pick, Engine,
     Beside, Downloaded, Interrupted, DownloadFails, RetryFires, RetryAborted, PostDownload,
     PackFails, Upload, Uploading, Uploaded, Tell, Told, CleanupTask, Reports, Cancel, Restart,
     taskVars, vars, SetStatus, Statuses, Terminal
<1>3. phase' \in Phases
  BY <1>t DEF Next, AskTorrent, AskLink, SessionStep, StartTorrent, Pick, Engine, Beside,
     Downloaded, Interrupted, DownloadFails, RetryFires, RetryAborted, PostDownload, PackFails,
     Upload, Uploading, Uploaded, Tell, Told, CleanupTask, Reports, Cancel, Restart, vars, Go,
     Phases
<1>4. tries' \in 0..MaxRetries
  <2>1. Next => tries' = tries \/ (tries < MaxRetries /\ tries' = tries + 1)
    BY Zenon DEF Next, AskTorrent, AskLink, SessionStep, StartTorrent, Pick, Engine, Beside,
       Downloaded, Interrupted, DownloadFails, RetryFires, RetryAborted, PostDownload, PackFails,
       Upload, Uploading, Uploaded, Tell, Told, CleanupTask, Reports, Cancel, Restart
  <2>2. UNCHANGED vars => tries' = tries
    BY Zenon DEF vars
  <2> QED
    BY <1>t, <2>1, <2>2
<1> QED
  BY <1>1, <1>2, <1>3, <1>4

\* The phases fit the components' states.
LEMMA PhaseKept ==
  ASSUME IInv, [Next]_vars
  PROVE  PhaseFits'
<1>i. PhaseFits /\ SessionFits /\ phase \in Phases
  BY Zenon DEF IInv, TypeOK, Phases
<1>s. start \in [Requests -> {"idle", "taken", "created", "refused", "missing"}]
  BY Zenon DEF IInv, TypeOK, SessionTypeOK
<1> USE <1>i, <1>s DEF PhaseFits, SetStatus, Phases
<1>1. CASE AskTorrent
  BY <1>1 DEF AskTorrent, Go, CreateTorrentSession, SessionFits, Claimed, NoSession, taskVars,
     engineVars, deliveryVars, uploadVars
<1>2. CASE AskLink
  BY <1>2, RoutesFit DEF AskLink, Go, CreateTask, sessionVars
<1>3. CASE SessionStep
  <2>1. UNCHANGED <<status, target, dl, up, phase>> /\ phase \in {"session", "queued"}
    BY <1>3, Zenon DEF SessionStep, taskVars, engineVars, deliveryVars, uploadVars
  <2>2. session'.there => session.there
    <3>1. \/ session' = session \/ session' = NoSession
          \/ session' = [session EXCEPT !.fetching = session.there]
          \/ session' = [session EXCEPT !.fetching = FALSE, !.error = TRUE]
          \/ session' = [session EXCEPT !.fetching = FALSE, !.files = listed, !.error = ~listed]
      BY <1>3, Zenon DEF SessionStep, Fetch, FetchBegins, MarkFetching, FetchMagnet,
         ParseMetadata, FinalizeMetadataFetch, UpdateSessionError, Expire, Sweep, TakeSession,
         StartRefused
    <3>2. session \in Session
      BY Zenon DEF IInv, TypeOK, SessionTypeOK, Session
    <3>3. CASE session' = NoSession
      BY <3>3 DEF NoSession
    <3>4. session' # NoSession => session'.there = session.there
      BY <3>1, <3>2, Zenon DEF Session
    <3> QED
      BY <3>3, <3>4, Zenon
  <2>3. \A r \in Requests : start'[r] = "taken" => start[r] = "taken" \/ session.there
    BY <1>3 DEF SessionStep, Fetch, FetchBegins, MarkFetching, FetchMagnet, ParseMetadata,
       FinalizeMetadataFetch, UpdateSessionError, Expire, Sweep, TakeSession, StartRefused
  <2> QED
    BY <2>1, <2>2, <2>3
<1>4. ASSUME NEW r \in Requests, StartTorrent(r) PROVE PhaseFits'
  <2>1. /\ ~session'.there /\ \A q \in Requests : start'[q] # "taken"
    BY <1>4 DEF StartTorrent, StartCreates, SessionFits, Claimed
  <2>2. phase = "session"
    BY <1>4 DEF StartTorrent, StartCreates
  <2>3. /\ phase' = "queued" /\ status' = "queued"
        /\ target' \in {"rclone", "viking", "telegram"} /\ UNCHANGED <<dl, up>>
    BY <1>4, RoutesFit DEF StartTorrent, CreateTask
  <2> QED
    BY <2>1, <2>2, <2>3
<1>5. CASE Pick
  BY <1>5 DEF Pick, Go, sessionVars, uploadVars
<1>6. CASE Engine \/ Beside
  <2>1. UNCHANGED <<session, start, status, target, up, phase>>
    BY <1>6 DEF Engine, Beside, taskVars, sessionVars, deliveryVars, uploadVars
  <2>2. Beside => dl' = dl
    BY DEF Beside, EngineWorld, Aria2Daemon, JobRuns, JobEnds, MetadataDone, DaemonDies,
       ClientConnects, ClientDies
  <2>3. Engine => phase = "download"
    BY DEF Engine
  <2> QED
    BY <1>6, <2>1, <2>2, <2>3
<1>7. CASE Downloaded \/ Interrupted \/ RetryAborted \/ Told \/ CleanupTask
  BY <1>7 DEF Downloaded, Interrupted, RetryAborted, Told, CleanupTask, Go, taskVars,
     sessionVars, engineVars, deliveryVars, uploadVars
<1>8. CASE DownloadFails \/ PostDownload \/ PackFails
  BY <1>8 DEF DownloadFails, PostDownload, PackFails, Go, sessionVars, engineVars,
     deliveryVars, uploadVars
<1>9. CASE RetryFires
  BY <1>9 DEF RetryFires, Go, sessionVars, deliveryVars, uploadVars
<1>10. CASE Upload
  BY <1>10 DEF Upload, Go, BeginUpload, sessionVars, engineVars
<1>11. CASE Uploading
  <2>1. target' = target
    BY <1>11 DEF Uploading, Uploader, Rclone, CopySucceeds, CopyFails, GenerateRcloneLink,
       UploadToDest2, VikingInit, VikingJoin, VikingComplete, VikingUploadPart,
       TelegramSendFails, TelegramSend, CompleteTelegramUpload
  <2> QED
    BY <1>11, <2>1 DEF Uploading, taskVars, sessionVars, engineVars
<1>12. CASE Uploaded
  BY <1>12 DEF Uploaded, Go, sessionVars, engineVars, deliveryVars, uploadVars
<1>13. CASE Tell \/ Reports
  <2>1. UNCHANGED <<target, up>>
    BY <1>13, Zenon DEF Tell, Reports, ReaderEnds, RunReports, ProgressReports,
       UpdateTaskStatus, Reporting, Report, SendVideoFails, SendFinalMessage, Sent, SendFails,
       Edited, EditFails, uploadVars
  <2> QED
    BY <1>13, <2>1 DEF Tell, Reports, Go, taskVars, sessionVars, engineVars
<1>14. CASE Cancel
  BY <1>14 DEF Cancel, sessionVars, engineVars, deliveryVars, uploadVars
<1>15. CASE Restart
  <2>1. \A r \in Requests : start'[r] # "taken"
    BY <1>15 DEF Restart, SessionsLost
  <2> QED
    BY <1>15, <2>1 DEF Restart, SessionsLost, NoSession, EnginesRestart, DeliveryRestart, Terminal
<1>16. CASE UNCHANGED vars
  BY <1>16 DEF vars, taskVars, sessionVars, engineVars, deliveryVars, uploadVars
<1> QED
  BY <1>1, <1>2, <1>3, <1>4, <1>5, <1>6, <1>7, <1>8, <1>9, <1>10, <1>11, <1>12, <1>13, <1>14,
     <1>15, <1>16 DEF Next

\* "Completed" is said of an upload that ended well, and from then on nothing that
\* could spoil it runs.
LEMMA DeliveredKept ==
  ASSUME IInv, [Next]_vars
  PROVE  DeliveredMeansThere'
<1>i. PhaseFits /\ UploadFits /\ DeliveredMeansThere
  BY Zenon DEF IInv
<1>g. target \in {"none", "rclone", "viking", "telegram"}
  BY Zenon DEF IInv, TypeOK, DeliveryTypeOK
<1> DEFINE Kept == UNCHANGED <<target, store, named, url, parts, shelf>>
<1>1. ASSUME Kept, status' = "completed" => status = "completed"
      PROVE  DeliveredMeansThere'
  BY <1>i, <1>1 DEF DeliveredMeansThere
<1>2. ASSUME status' # "completed" PROVE DeliveredMeansThere'
  BY <1>2 DEF DeliveredMeansThere
<1>3. CASE Uploaded
  <2>1. Kept
    BY <1>3 DEF Uploaded, deliveryVars, uploadVars
  <2>2. ASSUME status' = "completed", status # "completed" PROVE up = "ok" /\ phase = "upload"
    BY <1>3, <2>2 DEF Uploaded, SetStatus, Go
  <2>3. ASSUME status' = "completed", status # "completed" PROVE DeliveredMeansThere'
    <3>1. target # "none"
      BY <1>i, <2>2, <2>3 DEF PhaseFits
    <3> QED
      BY <1>i, <1>g, <2>1, <2>2, <2>3, <3>1 DEF UploadFits, DeliveredMeansThere, Good
  <2> QED
    BY <1>1, <1>2, <2>1, <2>3
<1>4. CASE Uploading \/ Upload
  <2>1. status' # "completed"
    BY <1>i, <1>4 DEF Uploading, Upload, Go, SetStatus, PhaseFits, taskVars
  <2> QED
    BY <1>2, <2>1
<1>5. CASE AskLink
  BY <1>2, <1>5 DEF AskLink, CreateTask
<1>6. ASSUME NEW r \in Requests, StartTorrent(r) PROVE DeliveredMeansThere'
  BY <1>2, <1>6 DEF StartTorrent, CreateTask
<1>7. CASE Tell \/ Reports
  <2>1. Kept
    BY <1>7, Zenon DEF Tell, Reports, ReaderEnds, RunReports, ProgressReports,
       UpdateTaskStatus, Reporting, Report, SendVideoFails, SendFinalMessage, Sent, SendFails,
       Edited, EditFails, uploadVars
  <2>2. status' = status
    BY <1>7 DEF Tell, Reports, taskVars
  <2> QED
    BY <1>1, <2>1, <2>2
<1>8. CASE Restart
  BY <1>1, <1>8 DEF Restart, DeliveryRestart
<1>9. Next => \/ AskLink \/ \E r \in Requests : StartTorrent(r)
              \/ Upload \/ Uploading \/ Uploaded \/ Tell \/ Reports \/ Restart
              \/ Kept /\ (status' = "completed" => status = "completed")
  BY DEF Next, AskTorrent, SessionStep, Pick, Engine, Beside, Downloaded, Interrupted,
     DownloadFails, RetryFires, RetryAborted, PostDownload, PackFails, Told, CleanupTask, Cancel,
     SetStatus, taskVars, deliveryVars, uploadVars
<1>10. UNCHANGED vars => Kept /\ status' = status
  BY DEF vars, taskVars, deliveryVars, uploadVars
<1> QED
  BY <1>1, <1>3, <1>4, <1>5, <1>6, <1>7, <1>8, <1>9, <1>10

-----------------------------------------------------------------------------
(* The theorems.                                                           *)

\* At the start nothing has happened.
LEMMA InitIInv == Init => IInv
<1> SUFFICES ASSUME Init PROVE IInv
  OBVIOUS
<1> USE DEF Init, SessionInit, EngineInit, DeliveryInit
<1>1. SessionTypeOK /\ SessionFits
  <2>1. /\ session \in [there : BOOLEAN, fetching : BOOLEAN, files : BOOLEAN, error : BOOLEAN]
        /\ magnet \in BOOLEAN /\ listed \in BOOLEAN
    BY Zenon DEF NoSession
  <2>2. SessionFits
    BY DEF SessionFits, Claimed, NoSession
  <2> QED
    BY <2>1, <2>2 DEF SessionTypeOK
<1>2. EngineTypeOK /\ AriaFits
  BY DEF EngineTypeOK, AriaFits, Active, Followed, Running, Job
<1>3. DeliveryTypeOK /\ UploadFits /\ ReportsFit
  <2>1. reading \in BOOLEAN /\ resultID \in BOOLEAN /\ repeated \in BOOLEAN
    BY Zenon
  <2>2. UploadFits
    BY DEF UploadFits
  <2>3. ReportsFit
    BY DEF ReportsFit, Announced, Sending
  <2> QED
    BY <2>1, <2>2, <2>3 DEF DeliveryTypeOK
<1>4. PhaseFits /\ DeliveredMeansThere
  BY DEF PhaseFits, DeliveredMeansThere, NoSession
<1>5. stopped \in BOOLEAN
  BY Zenon
<1>6. /\ status \in {"none", "queued", "downloading", "uploading"} \cup Terminal
      /\ tries \in 0..MaxRetries /\ phase = "new"
  OBVIOUS
<1> QED
  BY <1>1, <1>2, <1>3, <1>4, <1>5, <1>6 DEF IInv, TypeOK

\* Every step keeps the whole of it.
LEMMA NextIInv == IInv /\ [Next]_vars => IInv'
<1> SUFFICES ASSUME IInv, [Next]_vars PROVE IInv'
  OBVIOUS
<1>1. TypeOK'
  BY TaskTyped, SessionKept, EngineKept, DeliveryKept, Zenon DEF TypeOK, Statuses, Phases
<1> QED
  BY <1>1, SessionKept, EngineKept, DeliveryKept, PhaseKept, DeliveredKept, Zenon DEF IInv

\* In every state that can be reached.
LEMMA Invariance == Spec => []IInv
<1> QED
  BY InitIInv, NextIInv, PTL DEF Spec

\* Every variable keeps its type: a session becomes one task at most, however many
\* requests take it at once (torrent_menu.go), and no try goes beyond the last remote.
THEOREM TypeCorrect == Spec => []TypeOK
<1>1. IInv => TypeOK
  BY DEF IInv
<1> QED
  BY <1>1, Invariance, PTL

\* Of several requests to start a session at most one has it, and while it is still in
\* the map nobody has (torrent_menu.go, StartTorrentWithSelectedFiles' delete under the lock).
OneClaim ==
  /\ \A q, r \in Requests :
       start[q] \in {"taken", "created"} /\ start[r] \in {"taken", "created"} => q = r
  /\ session.there => \A r \in Requests : start[r] \notin {"taken", "created"}

THEOREM SessionStartsOnce == Spec => []OneClaim
<1>1. IInv => OneClaim
  BY DEF IInv, SessionFits, Claimed, OneClaim
<1> QED
  BY <1>1, Invariance, PTL

\* Unless an answer or a removal was lost or a process died, aria2 works for nobody
\* but on a torrent whose metadata came in as its run was cancelled (aria2.go 83-98).
THEOREM StraysAccountedFor == Spec => []StraysExplained
<1>1. IInv => StraysExplained
  <2> SUFFICES ASSUME AriaFits PROVE StraysExplained
    BY Zenon DEF IInv
  <2> QED
    BY DEF AriaFits, StraysExplained, Strays, Active, Followed
<1> QED
  BY <1>1, Invariance, PTL

\* "Completed" is never said of a file that is not where the task says it is
\* (rclone.go 90-131, viking.go 175-177, upload.go 83-113).
THEOREM CompletedIsDelivered == Spec => []DeliveredMeansThere
<1>1. IInv => DeliveredMeansThere
  BY DEF IInv
<1> QED
  BY <1>1, Invariance, PTL

\* The chat gets one result message and one for each whose answer was lost; any other
\* only after reports that overlapped, a failed edit, a restart, or a file that followed
\* a report (task_status.go 54-66, 99-144, upload.go 83-87).
THEOREM OneResultMessage == Spec => []OneReport
<1>1. IInv => OneReport
  BY DEF IInv, TypeOK, DeliveryTypeOK, ReportsFit, OneReport
<1> QED
  BY <1>1, Invariance, PTL
=============================================================================
