----------------------------- MODULE Admission ------------------------------
(***************************************************************************)
(* How a task gets into the system.  Commands, the dashboard, playlists    *)
(* and the scheduler all come to CreateTask (task_manager.go); what may    *)
(* turn a task away is looked at in steps of their own, each under its own *)
(* lock or statement: the user's quota, a task with the same link that is  *)
(* under way, one that was completed, the rate limiter.  Only then the     *)
(* task is put into tm.Tasks, and later into the table.                    *)
(*                                                                         *)
(* A link is a URL with a quality.  What a task does is left out           *)
(* (TaskLifecycle); here it is under way, or completed, or ended otherwise.*)
(* The day has one day's tasks and no more.                                *)
(***************************************************************************)
EXTENDS Naturals, FiniteSets

CONSTANTS
    Users,
    Handlers,     \* goroutines that handle commands and requests
    Scheduler,    \* the goroutine of Scheduler.run
    Entries,      \* rows of scheduled_tasks
    Asked,        \* the links people ask for, a subset of Link
    DailyLimit,   \* max_daily_tasks of every user (-1 is a limit nobody reaches)
    Burst,        \* tokens of a full rate limiter
    MaxCommands,  \* commands
    MaxMishaps,   \* crashes, and failures to mark a scheduled task done
    None

\* A URL, the same with a quality, a file in Telegram, the same once resolved.
Link == {"url", "url720", "tgfile", "tgpath"}

States == {"active", "completed", "ended"}
Ranks == {"owner", "listed", "user"}
Places == {"idle", "quota", "again", "scan", "lookup", "insert", "save", "mark"}
Ways == {"checked", "twice", "unchecked", "playlist", "parent", "odd"}
Counted == {"checked", "twice"}
OfPlaylist == {"playlist", "parent"}
Slots == Handlers \cup {Scheduler}

\* Every task is owed to a command, or to an entry and what made it run again.
Ids == 1..(MaxCommands + Cardinality(Entries) * (1 + MaxMishaps))

\* What tm.Tasks and the two tables keep of a task and of an entry, and where a task
\* has come from.
Task == [link : Link, state : States]
Row == [link : Link, user : Users, state : States]
Wish == [user : Users, how : Ways]
Origin ==
    [link : Link, user : Users, how : Ways, entry : Entries \cup {None}, saw : SUBSET Ids]

ASSUME AdmissionConstants ==
    /\ Asked \subseteq Link \ {"tgpath"}
    /\ Scheduler \notin Handlers
    /\ IsFiniteSet(Handlers) /\ IsFiniteSet(Entries)
    /\ {DailyLimit, Burst, MaxCommands, MaxMishaps} \subseteq Nat
    /\ None \notin Users \cup Entries /\ None \notin Link \cup Ways /\ None \notin Ids
    /\ None \notin Task \cup Row \cup Wish \cup Origin

VARIABLES
    rank,      \* owner, one of AUTHORIZED_USERS, or another user
    mem,       \* tm.Tasks: per id the link and the state, or None
    row,       \* the table tasks: per id link, user and state, or None
    queued,    \* tasks a worker can have
    tokens,    \* the user's rate limiter
    job,       \* per goroutine: the task it creates and how far it is
    entry,     \* the table scheduled_tasks
    want,      \* the user of an entry
    due,       \* entries processDue has read and not yet executed
    origin,    \* history: how each task was admitted
    renamed,   \* history: tasks that have gone by another link than the one asked for
    commands, mishaps

vars == <<rank, mem, row, queued, tokens, job, entry, want, due, origin, renamed, commands, mishaps>>

Idle == [pc |-> "idle", user |-> None, link |-> None, how |-> None, id |-> None,
         entry |-> None, saw |-> {}]
Active(t) == mem[t] # None /\ mem[t].state = "active"
Unused == {t \in Ids : origin[t] = None /\ \A s \in Slots : job[s].id # t}
NewId == CHOOSE t \in Unused : TRUE

At(s, place) == job[s].pc = place
Goto(s, place) == job' = [job EXCEPT ![s].pc = place]
Refuse(s) == job' = [job EXCEPT ![s] = Idle]

Init ==
    /\ rank \in [Users -> Ranks]
    /\ mem = [t \in Ids |-> None] /\ row = [t \in Ids |-> None] /\ queued = {}
    /\ tokens = [u \in Users |-> Burst]
    /\ job = [s \in Slots |-> Idle]
    /\ entry = [e \in Entries |-> "none"] /\ want = [e \in Entries |-> None] /\ due = {}
    /\ origin = [t \in Ids |-> None] /\ renamed = {}
    /\ commands = 0 /\ mishaps = 0

-----------------------------------------------------------------------------
(***************************************************************************)
(* Who asks.                                                               *)
(***************************************************************************)
\* A goroutine begins to create a task.  "checked" tasks look at the quota first,
\* "twice" twice; nobody looks at anything for the items of a playlist and for their
\* parent.  Tasks that are "odd" have a type processTask knows no engine for.
Begin(h, hows, places, links) ==
    /\ At(h, "idle")
    /\ commands < MaxCommands
    /\ commands' = commands + 1
    /\ \E u \in Users, l \in Asked \cap links, how \in hows, place \in places :
         job' = [job EXCEPT ![h] = [pc |-> place, user |-> u, link |-> l, how |-> how,
                                    id |-> None, entry |-> None, saw |-> {}]]
    /\ UNCHANGED <<mem, row, queued, tokens, entry, want, due, origin, renamed, mishaps>>

\* A reply to a file becomes a task for its file id.
Mirror(h) == Begin(h, {"checked"}, {"quota"}, Link)
Leech(h) == Begin(h, {"checked"}, {"quota"}, Link)
FileReply(h) == Begin(h, {"checked"}, {"quota"}, {"tgfile"})

Viking(h) == Begin(h, {"checked"}, {"quota"}, {"url", "url720"})
Clone(h) == Begin(h, {"checked"}, {"quota"}, {"url"})

\* handleYTDLPGeneric asks for the quota once more.
Ytdlp(h) == Begin(h, {"twice"}, {"quota"}, {"url", "url720"})

\* The quota is looked at once for the whole playlist.  Each task of it, the parent
\* with the link of the first item and the items, counts as a command here.
Playlist(h) == Begin(h, {"playlist", "parent"}, {"quota", "insert"}, {"url"})

\* The dashboard's tasks may have any type; neither they nor /batch nor the button
\* under a media file look at the quota.
DashboardAdd(h) == Begin(h, {"unchecked", "odd"}, {"scan"}, {"url", "url720"})
BatchUrls(h) == Begin(h, {"unchecked"}, {"scan"}, {"url"})
MirrorButton(h) == Begin(h, {"unchecked"}, {"scan"}, {"url"})

\* A count that fails lets the command pass (GetUserTodayStats leaves it 0, CheckQuota
\* takes an error for consent): from the start it is as one that does not look.
QuotaUnread(h) == Begin(h, {"unchecked"}, {"scan"}, Link)

Command(h) ==
    \/ Mirror(h) \/ Leech(h) \/ FileReply(h) \/ Viking(h) \/ Clone(h) \/ Ytdlp(h) \/ Playlist(h)
    \/ DashboardAdd(h) \/ BatchUrls(h) \/ MirrorButton(h) \/ QuotaUnread(h)

\* /schedule: no quota either, and no quality; of the six types it takes only
\* "mirror" has an engine.
Schedule(e) ==
    /\ entry[e] = "none"
    /\ entry' = [entry EXCEPT ![e] = "pending"]
    /\ \E u \in Users, how \in {"unchecked", "odd"} :
         want' = [want EXCEPT ![e] = [user |-> u, how |-> how]]
    /\ UNCHANGED <<mem, row, queued, tokens, job, due, origin, renamed, commands, mishaps>>

\* GetPendingScheduled, every 30 seconds.  When an entry is due depends on how the
\* database compares dates, and is left open; the hour may have come long ago.
Poll ==
    /\ At(Scheduler, "idle")
    /\ due = {}
    /\ due' = {e \in Entries : entry[e] = "pending"}
    /\ due' # {}
    /\ UNCHANGED <<mem, row, queued, tokens, job, entry, want, origin, renamed, commands, mishaps>>

\* processDue takes the entries one after the other.
Execute(e) ==
    /\ At(Scheduler, "idle")
    /\ e \in due
    /\ due' = due \ {e}
    /\ job' = [job EXCEPT ![Scheduler] =
                 [pc |-> "scan", user |-> want[e].user, link |-> "url",
                  how |-> want[e].how, id |-> None, entry |-> e, saw |-> {}]]
    /\ UNCHANGED <<mem, row, queued, tokens, entry, want, origin, renamed, commands, mishaps>>

-----------------------------------------------------------------------------
(***************************************************************************)
(* CheckQuota, validateTaskConstraints and CreateTask.                     *)
(***************************************************************************)
TodaysTasks(u) == Cardinality({t \in Ids : row[t] # None /\ row[t].user = u})

\* Off by one: the limit itself is let pass.
WithinQuotaOffByOne(u) == rank[u] = "owner" \/ TodaysTasks(u) <= DailyLimit

WithinQuota(u) == rank[u] = "owner" \/ TodaysTasks(u) < DailyLimit

\* Whoever is not the owner may also be refused for another reason: the user is not
\* in the table or not active, or the day's bandwidth is used up.
CheckQuota(s) ==
    /\ job[s].pc \in {"quota", "again"}
    /\ \/ rank[job[s].user] # "owner" /\ Refuse(s)
       \/ /\ WithinQuota(job[s].user)
          /\ Goto(s, CASE job[s].how = "twice" /\ At(s, "quota") -> "again"
                       [] job[s].how \in OfPlaylist -> "insert"
                       [] OTHER -> "scan")
    /\ UNCHANGED <<mem, row, queued, tokens, entry, want, due, origin, renamed, commands, mishaps>>

\* A scan of the queue in the place of tm.Tasks.
SameLinkQueued(l) == {t \in queued : Active(t) /\ mem[t].link = l}

SameLink(l) == {t \in Ids : Active(t) /\ mem[t].link = l}

\* A scan that the scheduler's tasks are spared.
ScanTrustsScheduler(s) ==
    /\ At(s, "scan")
    /\ IF s # Scheduler /\ SameLink(job[s].link) # {} THEN Refuse(s)
       ELSE job' = [job EXCEPT ![s].pc = "lookup",
                             ![s].saw = {t \in Ids : Active(t) /\ origin[t].link = job[s].link}]
    /\ UNCHANGED <<mem, row, queued, tokens, entry, want, due, origin, renamed, commands, mishaps>>

\* Is a task with this link under way?  (STOP_DUPLICATE is set.)
Scan(s) ==
    /\ At(s, "scan")
    /\ IF SameLink(job[s].link) # {} THEN Refuse(s)
       ELSE job' = [job EXCEPT ![s].pc = "lookup",
                             ![s].saw = {t \in Ids : Active(t) /\ origin[t].link = job[s].link}]
    /\ UNCHANGED <<mem, row, queued, tokens, entry, want, due, origin, renamed, commands, mishaps>>

Stored(u, l) ==
    rank[u] = "user"
      /\ \E t \in Ids : row[t] # None /\ row[t].state = "completed" /\ row[t].link = l

\* Was one completed?  Nobody asks for the privileged.
Lookup(s) ==
    /\ At(s, "lookup")
    /\ IF Stored(job[s].user, job[s].link) THEN Refuse(s) ELSE Goto(s, "insert")
    /\ UNCHANGED <<mem, row, queued, tokens, entry, want, due, origin, renamed, commands, mishaps>>

\* The task is put into tm.Tasks.
Put(s) ==
    /\ Unused # {}
    /\ mem' = [mem EXCEPT ![NewId] = [link |-> job[s].link, state |-> "active"]]
    /\ origin' = [origin EXCEPT ![NewId] =
                    [link |-> job[s].link, user |-> job[s].user, how |-> job[s].how,
                     entry |-> job[s].entry, saw |-> job[s].saw]]
    /\ job' = [job EXCEPT ![s].pc = "save", ![s].id = NewId, ![s].saw = {}]

\* The rate limiter lets the task pass, or not.
Insert(s) ==
    /\ At(s, "insert")
    /\ job[s].how \notin OfPlaylist
    /\ IF tokens[job[s].user] = 0
       THEN Refuse(s) /\ UNCHANGED <<tokens, mem, origin>>
       ELSE Put(s) /\ tokens' = [tokens EXCEPT ![job[s].user] = @ - 1]
    /\ UNCHANGED <<row, queued, entry, want, due, renamed, commands, mishaps>>

InsertOfPlaylist(s) ==
    /\ At(s, "insert")
    /\ job[s].how \in OfPlaylist
    /\ Put(s)
    /\ UNCHANGED <<row, queued, tokens, entry, want, due, renamed, commands, mishaps>>

\* The row of a task; a file's path is not written back.
Recorded(t, state) ==
    [link |-> IF mem[t].link = "tgpath" THEN "tgfile" ELSE mem[t].link,
     user |-> origin[t].user, state |-> state]

\* The first save, and the queue; the parent of a playlist is not queued, and a task
\* cancelled meanwhile is skipped by the worker.
Save(s) ==
    /\ At(s, "save")
    /\ LET t == job[s].id IN
         /\ row' = [row EXCEPT ![t] = Recorded(t, mem[t].state)]
         /\ queued' = IF job[s].how = "parent" \/ ~Active(t) THEN queued ELSE queued \cup {t}
    /\ job' = [job EXCEPT ![s] = IF s = Scheduler THEN [@ EXCEPT !.pc = "mark"] ELSE Idle]
    /\ UNCHANGED <<mem, tokens, entry, want, due, origin, renamed, commands, mishaps>>

\* A scheduler that never marks.
MarkDoneForgotten ==
    /\ At(Scheduler, "mark")
    /\ Refuse(Scheduler)
    /\ UNCHANGED <<mem, row, queued, tokens, entry, want, due, origin, renamed, commands, mishaps>>

MarkDone ==
    /\ At(Scheduler, "mark")
    /\ entry' = [entry EXCEPT ![job[Scheduler].entry] = "done"]
    /\ Refuse(Scheduler)
    /\ UNCHANGED <<mem, row, queued, tokens, want, due, origin, renamed, commands, mishaps>>

Mishap == mishaps < MaxMishaps /\ mishaps' = mishaps + 1

MarkFails ==
    /\ At(Scheduler, "mark")
    /\ Mishap
    /\ Refuse(Scheduler)
    /\ UNCHANGED <<mem, row, queued, tokens, entry, want, due, origin, renamed, commands>>

-----------------------------------------------------------------------------
(***************************************************************************)
(* What happens to tasks and limiters meanwhile.                           *)
(***************************************************************************)
Runnable(t) == origin[t].how \notin {"parent", "odd"}

Finish(t) ==
    /\ t \in queued
    /\ Active(t) /\ Runnable(t)
    /\ \E s \in {"completed", "ended"} :
         /\ mem' = [mem EXCEPT ![t].state = s]
         /\ row' = [row EXCEPT ![t] = Recorded(t, s)]
    /\ queued' = queued \ {t}
    /\ UNCHANGED <<tokens, job, entry, want, due, origin, renamed, commands, mishaps>>

\* processTask knows no engine for the type: the worker returns and the task stays as
\* it is.  Only a cancel ends it.
Ignore(t) ==
    /\ t \in queued
    /\ ~Runnable(t)
    /\ queued' = queued \ {t}
    /\ UNCHANGED <<mem, row, tokens, job, entry, want, due, origin, renamed, commands, mishaps>>

\* CancelTask, which stands here among the mishaps for its bound.
Cancel(t) ==
    /\ Active(t)
    /\ mishaps < MaxMishaps /\ mishaps' = mishaps + 1
    /\ mem' = [mem EXCEPT ![t].state = "ended"]
    /\ row' = [row EXCEPT ![t] = Recorded(t, "ended")]
    /\ queued' = queued \ {t}
    /\ UNCHANGED <<tokens, job, entry, want, due, origin, renamed, commands>>

\* processTask finds the file behind a Telegram file id.
Resolve(t) ==
    /\ t \in queued
    /\ Active(t) /\ mem[t].link = "tgfile"
    /\ mem' = [mem EXCEPT ![t].link = "tgpath"]
    /\ renamed' = renamed \cup {t}
    /\ UNCHANGED <<row, queued, tokens, job, entry, want, due, origin, commands, mishaps>>

\* A bucket without a brim.
RefillUncapped(u) ==
    /\ tokens[u] <= Burst
    /\ tokens' = [tokens EXCEPT ![u] = @ + 1]
    /\ UNCHANGED <<mem, row, queued, job, entry, want, due, origin, renamed, commands, mishaps>>

Refill(u) ==
    /\ tokens[u] < Burst
    /\ tokens' = [tokens EXCEPT ![u] = @ + 1]
    /\ UNCHANGED <<mem, row, queued, job, entry, want, due, origin, renamed, commands, mishaps>>

\* NewTaskManager loads the tasks under way; it does not read their quality.
Loaded(l) == IF l = "url720" THEN "url" ELSE l

\* The process dies and starts again: every limiter is full.
Reboot ==
    /\ Mishap
    /\ mem' = [t \in Ids |->
                 IF row[t] # None /\ row[t].state = "active"
                 THEN [link |-> Loaded(row[t].link), state |-> "active"] ELSE None]
    /\ queued' = {t \in Ids : mem'[t] # None}
    /\ tokens' = [u \in Users |-> Burst]
    /\ job' = [s \in Slots |-> Idle]
    /\ due' = {}
    /\ renamed' = renamed \cup {t \in queued' : mem'[t].link # origin[t].link}
    /\ UNCHANGED <<row, entry, want, origin, commands>>

Admit(s) ==
    CheckQuota(s) \/ Scan(s) \/ Lookup(s) \/ Insert(s) \/ InsertOfPlaylist(s) \/ Save(s)

Step ==
    \/ \E h \in Handlers : Command(h)
    \/ \E s \in Slots : Admit(s)
    \/ Poll \/ MarkDone \/ MarkFails
    \/ \E e \in Entries : Schedule(e) \/ Execute(e)
    \/ \E t \in Ids : Finish(t) \/ Ignore(t) \/ Cancel(t) \/ Resolve(t)
    \/ \E u \in Users : Refill(u)
    \/ Reboot

Next == Step /\ UNCHANGED rank

SchedulerStep == Poll \/ MarkDone \/ Admit(Scheduler) \/ \E e \in Entries : Execute(e)

\* The scheduler and the handlers go on, tasks end, limiters fill.
Fairness ==
    /\ WF_vars(SchedulerStep /\ UNCHANGED rank)
    /\ WF_vars((\E h \in Handlers : Admit(h)) /\ UNCHANGED rank)
    /\ WF_vars((\E t \in Ids : Finish(t)) /\ UNCHANGED rank)
    /\ \A u \in Users : WF_vars(Refill(u) /\ UNCHANGED rank)

Spec == Init /\ [][Next]_vars
FairSpec == Spec /\ Fairness

-----------------------------------------------------------------------------
(***************************************************************************)
(* Properties.                                                             *)
(***************************************************************************)
Jobs ==
    [pc : Places, user : Users \cup {None}, link : Link \cup {None},
     how : Ways \cup {None}, id : Ids \cup {None}, entry : Entries \cup {None},
     saw : SUBSET Ids]

TypeOK ==
    /\ rank \in [Users -> Ranks]
    /\ mem \in [Ids -> Task \cup {None}]
    /\ row \in [Ids -> Row \cup {None}]
    /\ queued \subseteq Ids
    /\ tokens \in [Users -> 0..Burst]
    /\ job \in [Slots -> Jobs]
    /\ entry \in [Entries -> {"none", "pending", "done"}]
    /\ want \in [Entries -> Wish \cup {None}]
    /\ due \subseteq Entries
    /\ origin \in [Ids -> Origin \cup {None}]
    /\ renamed \subseteq Ids
    /\ commands \in 0..MaxCommands /\ mishaps \in 0..MaxMishaps

\* STOP_DUPLICATE (README.md:373): of two tasks under way for one link, neither was
\* there when the other was looked for, unless one comes from a playlist or has
\* gone by another link (its file id was resolved, a restart lost its quality).  The
\* race between look and insert is the only other way.
DuplicatesOverlap ==
    \A t, u \in Ids :
      /\ t # u /\ Active(t) /\ Active(u)
      /\ origin[t].link = origin[u].link
      /\ {origin[t].how, origin[u].how} \cap OfPlaylist = {}
      /\ {t, u} \cap renamed = {}
      => t \notin origin[u].saw /\ u \notin origin[t].saw

Made(u, ways) ==
    {t \in Ids : row[t] # None /\ origin[t].user = u /\ origin[t].how \in ways}

\* The daily limit (README.md:661): commands that read the quota make at most one
\* task more per further goroutine than it allows, however they race with each other,
\* with tasks that end, and with commands that do not look at it or cannot read it.
QuotaHolds ==
    \A u \in Users :
      rank[u] # "owner" /\ DailyLimit > 0
      => Cardinality(Made(u, Counted)) <= DailyLimit + Cardinality(Handlers) - 1

\* A crash, or a failed statement, between the creation and the mark has the entry
\* executed again; never are two of its tasks under way together.
EntryRunsOnceAtATime ==
    \A t, u \in Ids :
      t # u /\ Active(t) /\ Active(u) /\ origin[t].entry # None
      => origin[t].entry # origin[u].entry

\* A task that no worker will ever touch is under way with the entry's link.
Blocked == \E t \in SameLink("url") : ~Runnable(t)

\* An entry that is due comes to be executed and marked, or is turned away for ever
\* (and logged every 30 seconds): its link was completed before, or belongs to a
\* task without an engine.
EntrySettles ==
    \A e \in Entries :
      entry[e] = "pending" ~>
        \/ entry[e] = "done"
        \/ [](entry[e] = "pending" /\ (Stored(want[e].user, "url") \/ Blocked))
=============================================================================
