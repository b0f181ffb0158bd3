------------------------------- MODULE Engines -------------------------------
(***************************************************************************)
(* The download engines behind engine.Download: the aria2 client and the   *)
(* daemon it talks to over RPC, the command-line tools (yt-dlp, rclone for *)
(* Drive, Mega), and the userbot that streams a message's file.            *)
(*                                                                         *)
(*   plugins: torrent (aria2.go, aria2_rpc.go, aria2_daemon.go), ytdlp,    *)
(*   drive, mega, telegram, registry; internal/userbot/userbot.go          *)
(*                                                                         *)
(* One run of one task at a time; the daemon and the userbot outlive it.   *)
(* Progress reports and what the tools print are left out.                 *)
(***************************************************************************)
EXTENDS TaskState, FiniteSets

CONSTANTS
  Gids,       \* aria2's download ids
  Slots,      \* --max-concurrent-downloads
  Clients,    \* Telegram clients Start may make, numbered from 1
  MaxFaults,  \* bound on lost answers, failed removals, dead daemons, crashes
  NoGid       \* "no download"

ASSUME EnginesAssumption ==
  /\ NoGid \notin Gids
  /\ Slots \in Nat \ {0}
  /\ Clients \in Nat \ {0}
  /\ MaxFaults \in Nat

VARIABLES
  source,     \* what the task's URL is, or "none"
  dl,         \* where engine.Download is
  gid,        \* the id the aria2 client follows, or followed last
  jobs,       \* [Gids -> Job]: aria2's downloads
  follower,   \* [Gids -> Gids \cup {NoGid}]: followedBy
  daemon,     \* the aria2 daemon answers
  userbot,    \* [client : the latest u.Client, started : u.Started]
  clients,    \* [1..Clients -> "none", "connecting", "connected" or "dead"]
  faults      \* lost answers, failed removals, dead daemons, crashes (history)

engineVars == <<source, dl, gid, jobs, follower, daemon, userbot, clients, faults>>
aria2Vars == <<gid, jobs, follower, daemon>>
botVars == <<userbot, clients>>

Source == {"link", "magnet", "tgmsg", "slashc", "mega", "drive", "media"}

\* "gone": made by a daemon that has died since.
Job == {"unused", "waiting", "metadata", "data", "complete", "error", "removed", "gone"}

Running == {"metadata", "data"}

\* What the registry and processTask choose for a URL.  The telegram engine is asked
\* first and claims any URL with "/c/" in it.
EngineOf(s) ==
  CASE s \in {"tgmsg", "slashc"} -> "userbot"
    [] s \in {"mega", "drive", "media"} -> "tool"
    [] OTHER -> "aria2"

EngineInit ==
  /\ source = "none" /\ dl = "idle"
  /\ gid = NoGid
  /\ jobs = [g \in Gids |-> "unused"]
  /\ follower = [g \in Gids |-> NoGid]
  /\ daemon = TRUE
  /\ userbot = [client |-> 1, started |-> FALSE]
  /\ clients = [c \in 1..Clients |-> IF c = 1 THEN "connecting" ELSE "none"]
  /\ faults = 0

Fault == faults < MaxFaults /\ faults' = faults + 1

\* engine.Download is called: the output directory, the options, the command line.
StartEngine ==
  dl' = CASE EngineOf(source) = "aria2"   -> "add"
          [] EngineOf(source) = "userbot" -> "start"
          [] OTHER                        -> IF source = "drive" THEN "probe" ELSE "run"

\* The engine goes on, or comes back with "ok", "failed" or "interrupted".
Step(from, to) == dl = from /\ dl' = to

-----------------------------------------------------------------------------
(* aria2: the client.                                                      *)

NewJob(g) ==
  /\ jobs[g] = "unused"
  /\ jobs' = [jobs EXCEPT ![g] = "waiting"]

\* AddURI or AddTorrent.
AddJob(g) ==
  /\ Step("add", "poll")
  /\ daemon
  /\ NewJob(g)
  /\ gid' = g
  /\ UNCHANGED <<source, follower, daemon, botVars, faults>>

\* The daemon refuses, or there is none.
AddRefused ==
  /\ Step("add", "failed")
  /\ UNCHANGED <<source, aria2Vars, botVars, faults>>

\* The daemon takes it, but the answer is not there within ten seconds.
AddAnswerLost(g) ==
  /\ Step("add", "failed")
  /\ daemon /\ Fault
  /\ NewJob(g)
  /\ UNCHANGED <<source, gid, follower, daemon, botVars>>

\* TellStatus says the metadata is complete and what follows it.
PollFollows ==
  /\ Step("poll", "poll")
  /\ daemon /\ jobs[gid] = "complete" /\ follower[gid] # NoGid
  /\ gid' = follower[gid]
  /\ UNCHANGED <<source, jobs, follower, daemon, botVars, faults>>

\* A client that takes the end of the metadata for the end of the download.
PollEndsAtMetadata ==
  /\ dl = "poll"
  /\ daemon
  /\ dl' = CASE jobs[gid] = "complete" -> "ok"
             [] jobs[gid] \in {"error", "removed"} -> "failed"
             [] OTHER -> "poll"
  /\ UNCHANGED <<source, aria2Vars, botVars, faults>>

\* TellStatus: complete, error, removed, or go on.  With the daemon dead every call
\* fails, and the loop goes on as well.
PollStatus ==
  /\ dl = "poll"
  /\ daemon
  /\ dl' = CASE jobs[gid] = "complete" /\ follower[gid] = NoGid -> "ok"
             [] jobs[gid] \in {"error", "removed"} -> "failed"
             [] OTHER -> "poll"
  /\ UNCHANGED <<source, aria2Vars, botVars, faults>>

\* The context is done: forceRemove, whose error nobody reads; aria2 refuses to
\* remove what is complete.
RemoveOnCancel ==
  /\ Step("poll", "interrupted")
  /\ stopped
  /\ jobs' = [jobs EXCEPT ![gid] = IF daemon /\ @ \in Running \cup {"waiting"}
                                     THEN "removed" ELSE @]
  /\ UNCHANGED <<source, gid, follower, daemon, botVars, faults>>

\* The removal does not get through.
RemoveLost ==
  /\ Step("poll", "interrupted")
  /\ stopped /\ Fault
  /\ UNCHANGED <<source, aria2Vars, botVars>>

-----------------------------------------------------------------------------
(* aria2: the daemon.                                                      *)

\* At most Slots downloads run, the others wait.  Only what the user handed in as a
\* magnet link begins with the metadata.
JobRuns(g) ==
  /\ jobs[g] = "waiting"
  /\ Cardinality({h \in Gids : jobs[h] \in Running}) < Slots
  /\ jobs' = [jobs EXCEPT ![g] = IF source = "magnet" /\ \A h \in Gids : follower[h] # g
                                   THEN "metadata" ELSE "data"]
  /\ UNCHANGED <<source, dl, gid, follower, daemon, botVars, faults>>

MetadataDone(g, h) ==
  /\ jobs[g] = "metadata" /\ jobs[h] = "unused"
  /\ jobs' = [jobs EXCEPT ![g] = "complete", ![h] = "waiting"]
  /\ follower' = [follower EXCEPT ![g] = h]
  /\ UNCHANGED <<source, dl, gid, daemon, botVars, faults>>

JobEnds(g) ==
  /\ jobs[g] \in Running
  /\ \/ jobs[g] = "data" /\ jobs' = [jobs EXCEPT ![g] = "complete"]
     \/ jobs' = [jobs EXCEPT ![g] = "error"]
  /\ UNCHANGED <<source, dl, gid, follower, daemon, botVars, faults>>

DownloadsGone == [g \in Gids |-> IF jobs[g] = "unused" THEN "unused" ELSE "gone"]

\* Nothing watches the daemon and nothing starts it again but a restart of the bot.
DaemonDies ==
  /\ daemon /\ Fault
  /\ daemon' = FALSE
  /\ jobs' = DownloadsGone
  /\ UNCHANGED <<source, dl, gid, follower, botVars>>

Aria2Daemon == \E g \in Gids : JobRuns(g) \/ JobEnds(g) \/ \E h \in Gids : MetadataDone(g, h)

-----------------------------------------------------------------------------
(* Command-line tools, started with the task's context.                    *)

\* GetDriveInfo: whatever the two rclone calls and the page say, the download follows.
ProbeDrive ==
  /\ Step("probe", "run")
  /\ UNCHANGED <<source, aria2Vars, botVars, faults>>

\* Exit status zero.  yt-dlp with /hardsub goes on to ffmpeg.
ToolSucceeds ==
  /\ dl = "run"
  /\ dl' \in IF source = "media" THEN {"ok", "burn"} ELSE {"ok"}
  /\ UNCHANGED <<source, aria2Vars, botVars, faults>>

\* burnSubtitles may fail or be killed: an error text, not an error.
BurnSubtitles ==
  /\ Step("burn", "ok")
  /\ UNCHANGED <<source, aria2Vars, botVars, faults>>

\* The tool cannot be started, or exits with an error.
ToolFails ==
  /\ ~stopped
  /\ Step("run", "failed")
  /\ UNCHANGED <<source, aria2Vars, botVars, faults>>

\* Killed with the context: yt-dlp's engine returns nil, the others the kill.
ToolKilled ==
  /\ stopped
  /\ Step("run", IF source = "media" THEN "ok" ELSE "failed")
  /\ UNCHANGED <<source, aria2Vars, botVars, faults>>

Tool == ProbeDrive \/ ToolSucceeds \/ BurnSubtitles \/ ToolFails \/ ToolKilled

-----------------------------------------------------------------------------
(* The userbot, one for the process; Start is called by main and again by  *)
(* every download.                                                         *)

\* Until a client has connected, every Start makes another one, and u.Client and
\* u.Context are the latest one's (at most Clients of them here).
UserbotStart ==
  /\ Step("start", "check")
  /\ IF userbot.started \/ userbot.client = Clients
       THEN UNCHANGED botVars
       ELSE /\ userbot' = [userbot EXCEPT !.client = @ + 1]
            /\ clients' = [clients EXCEPT ![userbot.client + 1] = "connecting"]
  /\ UNCHANGED <<source, aria2Vars, faults>>

\* DownloadFile's look at Started, a moment after Start's goroutine began.
UserbotCheck ==
  /\ Step("check", IF userbot.started THEN "resolve" ELSE "failed")
  /\ UNCHANGED <<source, aria2Vars, botVars, faults>>

\* The message and its file are looked up with u.Client, connected or not, in ten
\* minutes at most; a "/c/" URL of another site names no message.
UserbotResolves ==
  /\ Step("resolve", "stream")
  /\ source = "tgmsg" /\ clients[userbot.client] = "connected"
  /\ UNCHANGED <<source, aria2Vars, botVars, faults>>

UserbotResolveFails ==
  /\ Step("resolve", "failed")
  /\ UNCHANGED <<source, aria2Vars, botVars, faults>>

\* The stream has a context of its own that nobody cancels.
UserbotStreams ==
  /\ dl = "stream"
  /\ dl' \in {"ok", "failed"}
  /\ UNCHANGED <<source, aria2Vars, botVars, faults>>

ClientConnects(c) ==
  /\ clients[c] = "connecting"
  /\ clients' = [clients EXCEPT ![c] = "connected"]
  /\ userbot' = [userbot EXCEPT !.started = TRUE]
  /\ UNCHANGED <<source, dl, aria2Vars, faults>>

\* Any client's end clears Started, whether or not another one is connected.
ClientDies(c) ==
  /\ clients[c] \in {"connecting", "connected"}
  /\ clients' = [clients EXCEPT ![c] = "dead"]
  /\ userbot' = [userbot EXCEPT !.started = FALSE]
  /\ UNCHANGED <<source, dl, aria2Vars, faults>>

Userbot == UserbotStart \/ UserbotCheck \/ UserbotResolves \/ UserbotResolveFails
             \/ UserbotStreams

-----------------------------------------------------------------------------
Aria2Client ==
  \/ \E g \in Gids : AddJob(g) \/ AddAnswerLost(g)
  \/ AddRefused \/ PollFollows \/ PollStatus \/ RemoveOnCancel \/ RemoveLost

\* The steps of the goroutine that runs the engine.
EngineRuns == Aria2Client \/ Tool \/ Userbot

\* The daemon and Telegram, beside it, as far as the task depends on them.
EngineWorld ==
  \/ EngineOf(source) = "aria2" /\ (Aria2Daemon \/ DaemonDies)
  \/ EngineOf(source) = "userbot" /\ \E c \in 1..Clients : ClientConnects(c) \/ ClientDies(c)

\* The bot is gone.  Stop kills the daemon at a shutdown; a SIGKILL leaves it
\* running, and the next start's own daemon finds the port taken.
EnginesRestart ==
  /\ dl' = "idle"
  /\ gid' = NoGid
  /\ daemon' = TRUE
  /\ jobs' \in {DownloadsGone} \cup (IF daemon THEN {jobs} ELSE {})
  /\ userbot' = [client |-> 1, started |-> FALSE]
  /\ clients' = [c \in 1..Clients |-> IF c = 1 THEN "connecting" ELSE "none"]
  /\ UNCHANGED <<source, follower>>

EngineTypeOK ==
  /\ source \in Source \cup {"none"}
  /\ dl \in {"idle", "add", "poll", "probe", "run", "burn", "start", "check", "resolve",
             "stream", "ok", "failed", "interrupted"}
  /\ daemon \in BOOLEAN
  /\ gid \in Gids \cup {NoGid}
  /\ jobs \in [Gids -> Job]
  /\ follower \in [Gids -> Gids \cup {NoGid}]
  /\ userbot \in [client : 1..Clients, started : BOOLEAN]
  /\ clients \in [1..Clients -> {"none", "connecting", "connected", "dead"}]
  /\ faults \in 0..MaxFaults

\* Downloads nobody follows.
Strays == {g \in Gids : /\ jobs[g] \in Running \cup {"waiting"}
                        /\ dl # "poll" \/ g # gid}
=============================================================================
