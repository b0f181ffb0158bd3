----------------------------- MODULE Dashboard ------------------------------
(***************************************************************************)
(* The status message of one chat (dashboard.go, task_manager.go).  Every  *)
(* change of a task, every command and a ticker refresh it.  What it shows *)
(* is computed under StatusMu; the message is edited or sent under         *)
(* sendMsgMu, after StatusMu has been given back; which message it is lies *)
(* in a map under tm.Mu and, for the next process, in the settings.        *)
(*                                                                         *)
(* A text is the number of the change it tells of.  The global map of      *)
(* texts is written under either of two mutexes; the runtime may abort     *)
(* the process for that, which is one of the crashes here.  No message has *)
(* page buttons (buildNavigationKeyboard), so there is one page.           *)
(***************************************************************************)
EXTENDS Integers, FiniteSets

CONSTANTS
    Updaters,     \* goroutines of tasks and of handlers
    Ticker,       \* the goroutine of startAutoRefresh
    MaxChanges,   \* changes of tasks: begun, ended, progress
    MaxCalls,     \* refreshes asked for by commands and by tasks
    MaxFaults,    \* requests to Telegram, or statements, that fail
    MaxMishaps,   \* crashes, sweeps of the cleanup and buttons under media files
    None

ASSUME DashboardConstants ==
    /\ Ticker \notin Updaters
    /\ MaxChanges \in Nat /\ MaxCalls \in Nat /\ MaxFaults \in Nat /\ MaxMishaps \in Nat
    /\ None \notin Updaters \cup {Ticker}

Actors == Updaters \cup {Ticker}

\* An edit that fails is followed by a new message, so every message is owed to a
\* call, a change or a mishap.
MaxMsgs == MaxChanges + MaxCalls + MaxFaults + MaxMishaps + 1

VARIABLES
    mine,       \* active work of this chat: a task, or
    batched,    \* a batch, which tm.Tasks does not have
    others,     \* active tasks of other chats: the dashboard shows all of them
    stamp,      \* changes so far, hence the text a dashboard should have
    lastMsg,    \* tm.LastStatusMsg, 0 if the chat has no entry
    lastText,   \* lastStatusText
    lastCount,  \* tm.LastTasksCount
    recent,     \* less than three seconds, and hardly any progress, since the last update
    stored,     \* the setting dashboard_msg_<chat>, 0 if empty
    shows,      \* per message of the chat: its text, -1 while unsent or once deleted
    sent,       \* messages sent so far
    statusMu, sendMu,
    upd,        \* per goroutine: its place in UpdateSharedDashboard and sendStatusMessage
    sweep,      \* cleanupTerminalTasks has found no task of this chat
    forgot,     \* the clean-up or a crash took the chat's entry, and no update has been
                \* asked for since (history)
    lost,       \* messages the bot lost sight of: a failed request, a mishap
    calls, faults, mishaps

work == <<mine, batched, others, stamp>>
maps == <<lastMsg, lastText, lastCount, recent>>
chat == <<stored, shows, sent>>
locks == <<statusMu, sendMu>>
tidy == <<sweep, forgot>>
bounds == <<calls, faults, mishaps>>
vars == <<work, maps, chat, locks, upd, tidy, lost, bounds>>

Total == mine + others
Gone == -1
Media == -2     \* the message is a processed media file with a button
There(m) == m # 0 /\ shows[m] # Gone
Live == {m \in DOMAIN shows : shows[m] >= 0}

Idle == [pc |-> "idle", force |-> FALSE, text |-> Gone, count |-> 0, msg |-> 0]
At(u, place) == upd[u].pc = place
Goto(u, place) == upd' = [upd EXCEPT ![u].pc = place]
Return(u) == upd' = [upd EXCEPT ![u] = Idle]

Init ==
    /\ mine = 0 /\ batched = FALSE /\ others = 0 /\ stamp = 0
    /\ lastMsg = 0 /\ lastText = Gone /\ lastCount = 0 /\ recent = FALSE
    /\ stored = 0 /\ shows = [m \in 1..MaxMsgs |-> Gone] /\ sent = 0
    /\ statusMu = None /\ sendMu = None
    /\ upd = [u \in Actors |-> Idle]
    /\ sweep = FALSE /\ forgot = FALSE /\ lost = {}
    /\ calls = 0 /\ faults = 0 /\ mishaps = 0

Fault == faults < MaxFaults /\ faults' = faults + 1

-----------------------------------------------------------------------------
(***************************************************************************)
(* Tasks and batches begin, get on and end; commands end them (HandleCancel *)
(* by id, GID, batch or sub-task, HandleCancelAll all of them).            *)
(***************************************************************************)
Change ==
    /\ stamp < MaxChanges
    /\ stamp' = stamp + 1
    /\ mine' \in 0..1 /\ others' \in 0..1
    /\ batched' \in (IF mine' = 0 THEN {FALSE} ELSE BOOLEAN)
    /\ Total = 0 => mine' + others' > 0
    /\ UNCHANGED <<maps, chat, locks, upd, tidy, lost, bounds>>

\* A command (/status and the commands that create tasks ask for a new message,
\* /cancel does not), a callback, the end of a task.
Call(u) ==
    /\ At(u, "idle")
    /\ calls < MaxCalls
    /\ calls' = calls + 1
    /\ \E force \in BOOLEAN : upd' = [upd EXCEPT ![u].pc = "lock", ![u].force = force]
    /\ forgot' = FALSE
    /\ UNCHANGED <<work, maps, chat, locks, sweep, lost, faults, mishaps>>

\* updateTaskStatus of a task that is not over: it does not wait for StatusMu.
TryCall(u) ==
    /\ At(u, "idle")
    /\ calls < MaxCalls
    /\ calls' = calls + 1
    /\ statusMu = None
    /\ statusMu' = u
    /\ Goto(u, "count")
    /\ forgot' = FALSE
    /\ UNCHANGED <<work, maps, chat, sendMu, sweep, lost, faults, mishaps>>

\* startAutoRefresh: every two seconds, while there is a dashboard.
Tick ==
    /\ At(Ticker, "idle")
    /\ lastMsg # 0
    /\ Goto(Ticker, "lock")
    /\ UNCHANGED <<work, maps, chat, locks, tidy, lost, bounds>>

TimePasses ==
    /\ recent
    /\ recent' = FALSE
    /\ UNCHANGED <<work, lastMsg, lastText, lastCount, chat, locks, upd, tidy, lost, bounds>>

-----------------------------------------------------------------------------
(***************************************************************************)
(* UpdateSharedDashboardNonBlocking.                                       *)
(***************************************************************************)
LockStatus(u) ==
    /\ At(u, "lock")
    /\ statusMu = None
    /\ statusMu' = u
    /\ Goto(u, "count")
    /\ UNCHANGED <<work, maps, chat, sendMu, tidy, lost, bounds>>

\* Variant: a batch's items are counted beside the batch.
CountWorkTwice(u) ==
    /\ At(u, "count")
    /\ upd' = [upd EXCEPT ![u].pc = IF Total = 0 THEN "clear" ELSE "throttle",
                          ![u].count = 2 * Total, ![u].text = stamp]
    /\ UNCHANGED <<work, maps, chat, locks, tidy, lost, bounds>>

CountWork(u) ==
    /\ At(u, "count")
    /\ upd' = [upd EXCEPT ![u].pc = IF Total = 0 THEN "clear" ELSE "throttle",
                          ![u].count = Total, ![u].text = stamp]
    /\ UNCHANGED <<work, maps, chat, locks, tidy, lost, bounds>>

\* Nothing is active: the dashboard goes, all under tm.Mu.  Whether Telegram
\* deleted the message is not looked at.  The message "no active tasks" that a
\* forced update sends afterwards deletes itself.
Tracked == IF lastMsg # 0 THEN lastMsg ELSE stored

Clear(u) ==
    /\ At(u, "clear")
    /\ \/ /\ shows' = IF Tracked = 0 THEN shows ELSE [shows EXCEPT ![Tracked] = Gone]
          /\ UNCHANGED <<faults, lost>>
       \/ /\ There(Tracked)
          /\ Fault
          /\ lost' = lost \cup {Tracked}
          /\ UNCHANGED shows
    /\ IF Tracked = 0 THEN UNCHANGED <<lastMsg, lastText, recent, stored>>
       ELSE lastMsg' = 0 /\ lastText' = Gone /\ recent' = FALSE /\ stored' = 0
    /\ statusMu' = None
    /\ Return(u)
    /\ UNCHANGED <<work, lastCount, sent, sendMu, tidy, calls, mishaps>>

\* Variant: only the number of tasks counts.
ShouldUpdateOnCount(u) == upd[u].force \/ upd[u].count # lastCount

ShouldUpdate(u) == upd[u].force \/ upd[u].count # lastCount \/ ~recent

Throttle(u) ==
    /\ At(u, "throttle")
    /\ IF ShouldUpdate(u)
       THEN /\ recent' = TRUE
            /\ lastCount' = upd[u].count
            /\ Goto(u, "send")
       ELSE /\ Return(u)
            /\ UNCHANGED <<recent, lastCount>>
    /\ statusMu' = None
    /\ UNCHANGED <<work, lastMsg, lastText, chat, sendMu, tidy, lost, bounds>>

-----------------------------------------------------------------------------
(***************************************************************************)
(* sendStatusMessage.                                                      *)
(***************************************************************************)
LockSend(u) ==
    /\ At(u, "send")
    /\ sendMu = None
    /\ sendMu' = u
    /\ upd' = [upd EXCEPT ![u].pc = IF lastMsg = 0 THEN "fetch" ELSE "text", ![u].msg = lastMsg]
    /\ UNCHANGED <<work, maps, chat, statusMu, tidy, lost, bounds>>

\* No entry in the map: the message of a previous process may be in the settings.
Fetch(u) ==
    /\ At(u, "fetch")
    /\ lastMsg' = IF stored # 0 THEN stored ELSE lastMsg
    /\ upd' = [upd EXCEPT ![u].pc = "text", ![u].msg = stored]
    /\ UNCHANGED <<work, lastText, lastCount, recent, chat, locks, tidy, lost, bounds>>

Unchanged(u) == upd[u].msg # 0 /\ ~upd[u].force /\ lastText = upd[u].text

SkipSame(u) ==
    /\ At(u, "text")
    /\ Unchanged(u)
    /\ sendMu' = None
    /\ Return(u)
    /\ UNCHANGED <<work, maps, chat, statusMu, tidy, lost, bounds>>

\* A forced update deletes the old message, whatever Telegram answers.
DeleteOld(u) ==
    /\ At(u, "text")
    /\ upd[u].msg # 0 /\ upd[u].force
    /\ lastText' = Gone
    /\ \/ /\ shows' = [shows EXCEPT ![upd[u].msg] = Gone]
          /\ UNCHANGED <<faults, lost>>
       \/ /\ There(upd[u].msg)
          /\ Fault
          /\ lost' = lost \cup {upd[u].msg}
          /\ UNCHANGED shows
    /\ Goto(u, "post")
    /\ UNCHANGED <<work, lastMsg, lastCount, recent, stored, sent, locks, tidy, calls, mishaps>>

Edit(u) ==
    /\ At(u, "text")
    /\ upd[u].msg # 0 /\ ~upd[u].force /\ ~Unchanged(u)
    /\ There(upd[u].msg)
    /\ shows' = [shows EXCEPT ![upd[u].msg] = upd[u].text]
    /\ Goto(u, "edited")
    /\ UNCHANGED <<work, maps, stored, sent, locks, tidy, lost, bounds>>

\* The message is gone, or Telegram refuses: a new one takes its place.
EditFails(u) ==
    /\ At(u, "text")
    /\ upd[u].msg # 0 /\ ~upd[u].force /\ ~Unchanged(u)
    /\ IF There(upd[u].msg) THEN Fault /\ lost' = lost \cup {upd[u].msg}
                              ELSE UNCHANGED <<faults, lost>>
    /\ Goto(u, "post")
    /\ UNCHANGED <<work, maps, chat, locks, tidy, calls, mishaps>>

Edited(u) ==
    /\ At(u, "edited")
    /\ lastText' = upd[u].text
    /\ sendMu' = None
    /\ Return(u)
    /\ UNCHANGED <<work, lastMsg, lastCount, recent, chat, statusMu, tidy, lost, bounds>>

Post(u) ==
    /\ At(u, "post") \/ (At(u, "text") /\ upd[u].msg = 0)
    /\ sent < MaxMsgs
    /\ sent' = sent + 1
    /\ shows' = [shows EXCEPT ![sent + 1] = upd[u].text]
    /\ upd' = [upd EXCEPT ![u].pc = "record", ![u].msg = sent + 1]
    /\ UNCHANGED <<work, maps, stored, locks, tidy, lost, bounds>>

\* An error: nothing was sent, or the message is in the chat and the answer was lost.
PostFails(u) ==
    /\ At(u, "post") \/ (At(u, "text") /\ upd[u].msg = 0)
    /\ Fault
    /\ \/ UNCHANGED <<shows, sent, lost>>
       \/ /\ sent < MaxMsgs
          /\ sent' = sent + 1
          /\ shows' = [shows EXCEPT ![sent + 1] = upd[u].text]
          /\ lost' = lost \cup {sent + 1}
    /\ sendMu' = None
    /\ Return(u)
    /\ UNCHANGED <<work, maps, stored, statusMu, tidy, calls, mishaps>>

\* Variant: LastStatusMsg is not set.
RecordForgets(u) ==
    /\ At(u, "record")
    /\ Goto(u, "store")
    /\ UNCHANGED <<work, maps, chat, locks, tidy, lost, bounds>>

Record(u) ==
    /\ At(u, "record")
    /\ lastMsg' = upd[u].msg
    /\ Goto(u, "store")
    /\ UNCHANGED <<work, lastText, lastCount, recent, chat, locks, tidy, lost, bounds>>

Store(u) ==
    /\ At(u, "store")
    /\ lastText' = upd[u].text
    /\ \/ stored' = upd[u].msg /\ UNCHANGED faults
       \/ Fault /\ UNCHANGED stored
    /\ sendMu' = None
    /\ Return(u)
    /\ UNCHANGED <<work, lastMsg, lastCount, recent, shows, sent, statusMu, tidy, lost, calls, mishaps>>

-----------------------------------------------------------------------------
(***************************************************************************)
(* What else touches the message.                                          *)
(***************************************************************************)
Mishap == mishaps < MaxMishaps /\ mishaps' = mishaps + 1

\* cleanupTerminalTasks looks for this chat's tasks under tm.Mu; a batch is none ...
SweepLooks ==
    /\ ~sweep /\ lastMsg # 0
    /\ mine = 0 \/ batched
    /\ Mishap
    /\ sweep' = TRUE
    /\ UNCHANGED <<work, maps, chat, locks, upd, forgot, lost, calls, faults>>

\* ... and forgets the chat's dashboard under StatusMu; the message stays, and is
\* found again if it is the one in the settings.
Sweep ==
    /\ sweep
    /\ statusMu = None
    /\ sweep' = FALSE /\ forgot' = TRUE
    /\ lastMsg' = 0 /\ lastCount' = 0 /\ recent' = FALSE
    /\ lost' = IF There(lastMsg) /\ lastMsg # stored THEN lost \cup {lastMsg} ELSE lost
    /\ UNCHANGED <<work, lastText, chat, locks, upd, bounds>>

\* The button under a processed media file makes that message the dashboard.
MediaButton ==
    /\ Mishap
    /\ sent < MaxMsgs
    /\ sent' = sent + 1
    /\ shows' = [shows EXCEPT ![sent + 1] = Media]
    /\ lastMsg' = sent + 1
    /\ lost' = IF There(Tracked) THEN lost \cup {Tracked} ELSE lost
    /\ UNCHANGED <<work, lastText, lastCount, recent, stored, locks, upd, tidy, calls, faults>>

\* Somebody deletes the message in the chat.
UserDeletes(m) ==
    /\ There(m)
    /\ Fault
    /\ shows' = [shows EXCEPT ![m] = Gone]
    /\ UNCHANGED <<work, maps, stored, sent, locks, upd, tidy, lost, calls, mishaps>>

Crash ==
    /\ Mishap
    /\ lastMsg' = 0 /\ lastText' = Gone /\ lastCount' = 0 /\ recent' = FALSE
    /\ statusMu' = None /\ sendMu' = None
    /\ upd' = [u \in Actors |-> Idle]
    /\ sweep' = FALSE /\ forgot' = TRUE
    /\ lost' = lost \cup (Live \ {stored})
    /\ UNCHANGED <<work, chat, calls, faults>>

Step(u) ==
    \/ LockStatus(u) \/ CountWork(u) \/ Clear(u) \/ Throttle(u)
    \/ LockSend(u) \/ Fetch(u) \/ SkipSame(u) \/ DeleteOld(u) \/ Edit(u) \/ EditFails(u)
    \/ Edited(u) \/ Post(u) \/ PostFails(u) \/ Record(u) \/ Store(u)

Next ==
    \/ Change \/ Tick \/ TimePasses
    \/ \E u \in Updaters : Call(u) \/ TryCall(u)
    \/ \E u \in Actors : Step(u)
    \/ SweepLooks \/ Sweep \/ MediaButton \/ Crash
    \/ \E m \in DOMAIN shows : UserDeletes(m)

\* The ticker, the clock and goroutines that have begun go on.
Fairness ==
    /\ WF_vars(TimePasses)
    /\ WF_vars(Tick \/ Step(Ticker))
    /\ \A u \in Updaters : WF_vars(Step(u))

Spec == Init /\ [][Next]_vars
FairSpec == Spec /\ Fairness

-----------------------------------------------------------------------------
(***************************************************************************)
(* Properties.                                                             *)
(***************************************************************************)
Places == {"idle", "lock", "count", "clear", "throttle", "send", "fetch", "text", "edited",
           "post", "record", "store"}

Message == 0..MaxMsgs
Text == Gone..MaxChanges
Update == [pc : Places, force : BOOLEAN, text : Text, count : 0..2, msg : Message]

TypeOK ==
    /\ mine \in 0..1 /\ batched \in BOOLEAN /\ others \in 0..1 /\ stamp \in 0..MaxChanges
    /\ lastMsg \in Message /\ lastText \in Text /\ lastCount \in 0..2 /\ recent \in BOOLEAN
    /\ stored \in Message /\ shows \in [1..MaxMsgs -> Media..MaxChanges] /\ sent \in Message
    /\ statusMu \in Actors \cup {None} /\ sendMu \in Actors \cup {None}
    /\ upd \in [Actors -> Update]
    /\ sweep \in BOOLEAN /\ forgot \in BOOLEAN /\ lost \subseteq 1..MaxMsgs
    /\ calls \in 0..MaxCalls /\ faults \in 0..MaxFaults /\ mishaps \in 0..MaxMishaps

\* A chat has one dashboard: a live message that is not the one the bot tracks, nor
\* one just sent, is one it lost sight of by a failed request or a mishap.  Clearing,
\* editing and sending under different mutexes leave none behind.
OneDashboard ==
    \A m \in Live \ lost : m = Tracked \/ \E u \in Actors : At(u, "record") /\ upd[u].msg = m

\* When nothing changes any more, the dashboard, the one in the settings too, comes to
\* show the last state, or goes away when nothing is active, whatever order the updates
\* took.  The ticker goes by the chat's entry (lastMsg), and the message stays behind
\* only without one: where the clean-up (task_manager.go 310-320) or a crash has taken it
\* and no command or task has asked for an update since, or where a request to delete
\* the message failed just before its id came into the settings.  (A message somebody
\* deleted, or a media file's button took over, waits for the next change.)
UpToDate(m) == shows[m] \in {Gone, Media} \/ (Total > 0 /\ shows[m] = stamp)

LeftBehind == lastMsg = 0 /\ (forgot \/ Tracked \in lost)

DashboardSettles == <>[](Tracked # 0 => UpToDate(Tracked) \/ LeftBehind)
=============================================================================
