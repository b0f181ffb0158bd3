--------------------------- MODULE AdmissionProofs --------------------------
(***************************************************************************)
(* Proofs about Admission, for any users, any finite number of goroutines, *)
(* any entries, limits and bounds.                                         *)
(*                                                                         *)
(* The invariant ties together what is written down of a task in four      *)
(* places: the goroutine that creates it, tm.Tasks, the table and where it *)
(* came from.  Three arguments rest on it:                                 *)
(*   - a task that a scan did not take for a duplicate although it had     *)
(*     been asked for with the same link has been renamed;                 *)
(*   - while the scheduler is past its scan no task of an entry is under   *)
(*     way, since all entries ask for one link and nobody else makes such  *)
(*     a task;                                                             *)
(*   - tasks that count, with those on the way to count, are at most the   *)
(*     limit and what the other goroutines carry: whoever passes the look  *)
(*     at the quota finds fewer than the limit.                            *)
(***************************************************************************)
EXTENDS Admission, FiniteSetTheorems, TLAPS

\* A goroutine knows what it creates; from the insertion on the task is there, and
\* whatever its scan passed over has been renamed.
JobsFit ==
    \A s \in Slots :
      /\ job[s].pc # "idle" => job[s].user \in Users /\ job[s].link \in Link /\ job[s].how \in Ways
      /\ job[s].pc \in {"save", "mark"} =>
           /\ job[s].id \in Ids
           /\ mem[job[s].id] # None /\ origin[job[s].id] # None
           /\ origin[job[s].id].user = job[s].user /\ origin[job[s].id].how = job[s].how
      /\ job[s].saw \subseteq renamed

\* Handlers have no entry, the scheduler has one.
SlotsFit ==
    /\ \A h \in Handlers : job[h].entry = None /\ job[h].pc # "mark"
    /\ job[Scheduler].pc # "idle" =>
         /\ job[Scheduler].pc \in {"scan", "lookup", "insert", "save", "mark"}
         /\ job[Scheduler].entry \in Entries /\ want[job[Scheduler].entry] # None
         /\ job[Scheduler].link = "url" /\ job[Scheduler].how \in {"unchecked", "odd"}

WishesFit ==
    \A e \in Entries :
      /\ entry[e] # "none" \/ e \in due => want[e] # None
      /\ want[e] # None => want[e].how \in {"unchecked", "odd"}

\* A task is in the table unless its goroutine has still to put it there.
Written(t) == row[t] # None \/ \E s \in Slots : job[s].pc = "save" /\ job[s].id = t

TasksFit ==
    \A t \in Ids :
      /\ mem[t] # None => origin[t] # None /\ Written(t)
      /\ row[t] # None => origin[t] # None /\ row[t].user = origin[t].user
      /\ row[t] # None /\ row[t].state = "active" => Active(t)

\* A task goes by the link it was asked for with, or has been renamed; those of
\* entries keep theirs.
LinksFit ==
    \A t \in Ids :
      /\ origin[t] # None => origin[t].saw \subseteq renamed
      /\ Active(t) /\ t \notin renamed => mem[t].link = origin[t].link
      /\ origin[t] # None /\ origin[t].entry # None =>
           /\ mem[t] # None => mem[t].link = "url"
           /\ row[t] # None => row[t].link = "url"

OfEntry(t) == Active(t) /\ origin[t].entry # None

EntriesApart ==
    /\ \A t, u \in Ids : OfEntry(t) /\ OfEntry(u) => t = u
    /\ job[Scheduler].pc \in {"lookup", "insert"} => \A t \in Ids : ~OfEntry(t)

\* Tasks of u that count, or will when they are saved; goroutines that are past the
\* look at the quota and have made none yet.
Charged(u) ==
    {t \in Ids : /\ origin[t] # None /\ origin[t].user = u /\ origin[t].how \in Counted
                 /\ Written(t)}
Pending(u) ==
    {h \in Handlers : /\ job[h].pc \in {"scan", "lookup", "insert"}
                      /\ job[h].user = u /\ job[h].how \in Counted}

ChargesBounded ==
    \A u \in Users :
      rank[u] # "owner" /\ DailyLimit > 0
      => Cardinality(Charged(u)) + Cardinality(Pending(u)) <= DailyLimit + Cardinality(Handlers) - 1

Fit == TypeOK /\ JobsFit /\ SlotsFit /\ WishesFit /\ TasksFit /\ LinksFit

-----------------------------------------------------------------------------
(***************************************************************************)
(* Types.                                                                  *)
(***************************************************************************)
LEMMA IdleType == Idle \in Jobs
  BY DEF Idle, Jobs, Places

\* A step to another place, and the end of a goroutine's work.
LEMMA GotoType ==
  ASSUME TypeOK, NEW s \in Slots, NEW p \in Places, Goto(s, p)
  PROVE  /\ job' \in [Slots -> Jobs]
         /\ job'[s] = [job[s] EXCEPT !.pc = p]
         /\ \A r \in Slots \ {s} : job'[r] = job[r]
<1>1. job[s] \in Jobs
  BY DEF TypeOK
<1>2. [job[s] EXCEPT !.pc = p] \in Jobs
  BY <1>1 DEF Jobs
<1> QED
  BY <1>2 DEF TypeOK, Goto

LEMMA RefuseType ==
  ASSUME TypeOK, NEW s \in Slots, Refuse(s)
  PROVE  job' \in [Slots -> Jobs] /\ job'[s] = Idle /\ \A r \in Slots \ {s} : job'[r] = job[r]
  BY IdleType DEF TypeOK, Refuse

\* What a row records of a task.
LEMMA RecordedType ==
  ASSUME TypeOK, NEW t \in Ids, mem[t] # None, origin[t] # None, NEW state \in States
  PROVE  Recorded(t, state) \in Row
<1>1. mem[t] \in Task /\ origin[t] \in Origin
  BY DEF TypeOK
<1> QED
  BY <1>1 DEF Recorded, Task, Origin, Row, Link

\* The task that is put.
LEMMA PutType ==
  ASSUME TypeOK, NEW s \in Slots, Put(s),
         job[s].user \in Users, job[s].link \in Link, job[s].how \in Ways
  PROVE  /\ NewId \in Ids /\ origin[NewId] = None
         /\ \A r \in Slots : job[r].id # NewId
         /\ mem' \in [Ids -> Task \cup {None}]
         /\ mem'[NewId] = [link |-> job[s].link, state |-> "active"]
         /\ mem'[NewId] # None /\ origin'[NewId] # None
         /\ origin' \in [Ids -> Origin \cup {None}]
         /\ origin'[NewId] = [link |-> job[s].link, user |-> job[s].user, how |-> job[s].how,
                              entry |-> job[s].entry, saw |-> job[s].saw]
         /\ \A t \in Ids \ {NewId} : mem'[t] = mem[t] /\ origin'[t] = origin[t]
         /\ job' \in [Slots -> Jobs]
         /\ job'[s] = [job[s] EXCEPT !.pc = "save", !.id = NewId, !.saw = {}]
         /\ \A r \in Slots \ {s} : job'[r] = job[r]
<1>1. NewId \in Unused
  BY DEF Put, NewId
<1> HIDE DEF NewId
<1>2. NewId \in Ids /\ origin[NewId] = None /\ \A r \in Slots : job[r].id # NewId
  BY <1>1 DEF Unused
<1>3. job[s] \in Jobs
  BY DEF TypeOK
<1>4. [job[s] EXCEPT !.pc = "save", !.id = NewId, !.saw = {}] \in Jobs
  BY <1>2, <1>3 DEF Jobs, Places
<1>5. [link |-> job[s].link, state |-> "active"] \in Task
  BY DEF Task, States
<1>6. [link |-> job[s].link, user |-> job[s].user, how |-> job[s].how,
       entry |-> job[s].entry, saw |-> job[s].saw] \in Origin
  BY <1>3 DEF Origin, Jobs
<1>7. /\ job' \in [Slots -> Jobs]
      /\ job'[s] = [job[s] EXCEPT !.pc = "save", !.id = NewId, !.saw = {}]
      /\ \A r \in Slots \ {s} : job'[r] = job[r]
  BY <1>4 DEF Put, TypeOK
<1>8. /\ mem' \in [Ids -> Task \cup {None}]
      /\ mem'[NewId] = [link |-> job[s].link, state |-> "active"]
      /\ \A t \in Ids \ {NewId} : mem'[t] = mem[t]
  BY <1>2, <1>5 DEF Put, TypeOK
<1>9. /\ origin' \in [Ids -> Origin \cup {None}]
      /\ origin'[NewId] = [link |-> job[s].link, user |-> job[s].user, how |-> job[s].how,
                           entry |-> job[s].entry, saw |-> job[s].saw]
      /\ \A t \in Ids \ {NewId} : origin'[t] = origin[t]
  BY <1>2, <1>6 DEF Put, TypeOK
<1> QED
  BY <1>2, <1>5, <1>6, <1>7, <1>8, <1>9, AdmissionConstants

\* What a command begins with, whatever its kind.
Begun(h) ==
    \E u \in Users, l \in Link, how \in Ways, p \in {"quota", "scan", "insert"} :
      /\ p = "insert" => how \in OfPlaylist
      /\ p = "scan" => how \notin Counted
      /\ At(h, "idle")
      /\ job' = [job EXCEPT ![h] = [pc |-> p, user |-> u, link |-> l, how |-> how,
                                   id |-> None, entry |-> None, saw |-> {}]]
      /\ job' \in [Slots -> Jobs]
      /\ commands' \in 0..MaxCommands
      /\ UNCHANGED <<mem, row, queued, tokens, entry, want, due, origin, renamed, mishaps>>

LEMMA BeginType ==
  ASSUME TypeOK, NEW h \in Handlers,
         NEW hows \in SUBSET Ways, NEW places \in SUBSET {"quota", "scan", "insert"},
         NEW links, Begin(h, hows, places, links),
         "insert" \in places => hows \subseteq OfPlaylist,
         "scan" \in places => hows \cap Counted = {}
  PROVE  Begun(h)
<1>1. PICK u \in Users, l \in Asked \cap links, how \in hows, p \in places :
        job' = [job EXCEPT ![h] = [pc |-> p, user |-> u, link |-> l, how |-> how,
                                   id |-> None, entry |-> None, saw |-> {}]]
  BY DEF Begin
<1>2. l \in Link /\ how \in Ways /\ p \in {"quota", "scan", "insert"}
  BY AdmissionConstants
<1>3. [pc |-> p, user |-> u, link |-> l, how |-> how,
       id |-> None, entry |-> None, saw |-> {}] \in Jobs
  BY <1>2 DEF Jobs, Places
<1>4. job' \in [Slots -> Jobs]
  BY <1>1, <1>3 DEF TypeOK
<1>5. commands' \in 0..MaxCommands
  BY AdmissionConstants DEF Begin, TypeOK
<1>6. (p = "insert" => how \in OfPlaylist) /\ (p = "scan" => how \notin Counted)
  OBVIOUS
<1>7. At(h, "idle") /\ UNCHANGED <<mem, row, queued, tokens, entry, want, due, origin, renamed, mishaps>>
  BY DEF Begin
<1> QED
  BY <1>1, <1>2, <1>4, <1>5, <1>6, <1>7 DEF Begun

LEMMA CommandType ==
  ASSUME TypeOK, NEW h \in Handlers, Command(h)
  PROVE  Begun(h)
<1>1. ASSUME NEW hows \in SUBSET Ways, NEW links, Begin(h, hows, {"quota"}, links)
      PROVE  Begun(h)
  <2>1. /\ {"quota"} \in SUBSET {"quota", "scan", "insert"}
        /\ "insert" \notin {"quota"} /\ "scan" \notin {"quota"}
    OBVIOUS
  <2> QED
    BY <1>1, <2>1, BeginType
<1>2. ASSUME NEW hows \in SUBSET Ways, NEW links, Begin(h, hows, {"scan"}, links),
             hows \cap Counted = {}
      PROVE  Begun(h)
  <2>1. {"scan"} \in SUBSET {"quota", "scan", "insert"} /\ "insert" \notin {"scan"}
    OBVIOUS
  <2> QED
    BY <1>2, <2>1, BeginType
<1>3. CASE Mirror(h) \/ Leech(h) \/ FileReply(h) \/ Viking(h) \/ Clone(h)
  <2>1. \E links : Begin(h, {"checked"}, {"quota"}, links)
    BY <1>3 DEF Mirror, Leech, FileReply, Viking, Clone
  <2>2. {"checked"} \in SUBSET Ways
    BY DEF Ways
  <2> QED
    BY <1>1, <2>1, <2>2
<1>4. CASE Ytdlp(h)
  <2>1. {"twice"} \in SUBSET Ways
    BY DEF Ways
  <2> QED
    BY <1>1, <1>4, <2>1 DEF Ytdlp
<1>5. CASE Playlist(h)
  <2>1. /\ {"playlist", "parent"} \in SUBSET Ways
        /\ {"playlist", "parent"} \subseteq OfPlaylist
        /\ {"quota", "insert"} \in SUBSET {"quota", "scan", "insert"}
        /\ "scan" \notin {"quota", "insert"}
    BY DEF Ways, OfPlaylist
  <2>2. Begin(h, {"playlist", "parent"}, {"quota", "insert"}, {"url"})
    BY <1>5 DEF Playlist
  <2> QED
    BY <2>1, <2>2, BeginType
<1>6. CASE DashboardAdd(h) \/ BatchUrls(h) \/ MirrorButton(h) \/ QuotaUnread(h)
  <2>1. PICK hows, links : /\ hows \in {{"unchecked", "odd"}, {"unchecked"}}
                               /\ Begin(h, hows, {"scan"}, links)
    BY <1>6 DEF DashboardAdd, BatchUrls, MirrorButton, QuotaUnread
  <2>2. hows \in SUBSET Ways /\ hows \cap Counted = {}
    BY <2>1 DEF Ways, Counted
  <2> QED
    BY <1>2, <2>1, <2>2
<1> QED
  BY <1>3, <1>4, <1>5, <1>6 DEF Command

LEMMA InitType == Init => TypeOK
  BY IdleType, AdmissionConstants DEF Init, TypeOK

LEMMA StepType == Fit /\ [Next]_vars => TypeOK'
<1> SUFFICES ASSUME Fit, [Next]_vars PROVE TypeOK'
  OBVIOUS
<1> USE AdmissionConstants
<1>0. TypeOK /\ JobsFit /\ SlotsFit /\ WishesFit /\ TasksFit
  BY DEF Fit
<1>1. CASE UNCHANGED vars
  BY <1>0, <1>1 DEF vars, TypeOK
<1>2. ASSUME NEW h \in Handlers, Command(h), UNCHANGED rank
      PROVE  TypeOK'
  BY <1>0, <1>2, CommandType DEF Begun, TypeOK
<1>3. ASSUME NEW e \in Entries, Schedule(e), UNCHANGED rank
      PROVE  TypeOK'
  <2>1. PICK u \in Users, how \in {"unchecked", "odd"} :
          want' = [want EXCEPT ![e] = [user |-> u, how |-> how]]
    BY <1>3 DEF Schedule
  <2>2. want' \in [Entries -> Wish \cup {None}]
    <3>1. [user |-> u, how |-> how] \in Wish
      BY DEF Wish, Ways
    <3> QED
      BY <1>0, <2>1, <3>1 DEF TypeOK
  <2>3. entry' \in [Entries -> {"none", "pending", "done"}]
    BY <1>0, <1>3 DEF TypeOK, Schedule
  <2> QED
    BY <1>0, <1>3, <2>2, <2>3 DEF TypeOK, Schedule
<1>4. ASSUME Poll, UNCHANGED rank
      PROVE  TypeOK'
  BY <1>0, <1>4 DEF TypeOK, Poll
<1>5. ASSUME NEW e \in Entries, Execute(e), UNCHANGED rank
      PROVE  TypeOK'
  <2>1. want[e] \in Wish
    BY <1>0, <1>5 DEF WishesFit, Execute, TypeOK
  <2>2. [pc |-> "scan", user |-> want[e].user, link |-> "url",
         how |-> want[e].how, id |-> None, entry |-> e, saw |-> {}] \in Jobs
    BY <2>1 DEF Jobs, Places, Link, Wish
  <2>3. job' \in [Slots -> Jobs]
    BY <1>0, <1>5, <2>2 DEF TypeOK, Execute
  <2> QED
    BY <1>0, <1>5, <2>3 DEF TypeOK, Execute
<1>6. ASSUME NEW s \in Slots, CheckQuota(s), UNCHANGED rank
      PROVE  TypeOK'
  <2>1. Refuse(s) \/ \E p \in Places : Goto(s, p)
    BY <1>6 DEF CheckQuota, Places
  <2>2. job' \in [Slots -> Jobs]
    BY <1>0, <2>1, GotoType, RefuseType
  <2> QED
    BY <1>0, <1>6, <2>2 DEF TypeOK, CheckQuota
<1>7. ASSUME NEW s \in Slots, Scan(s), UNCHANGED rank
      PROVE  TypeOK'
  <2>1. job[s] \in Jobs
    BY <1>0 DEF TypeOK
  <2>2. \A saw \in SUBSET Ids : [job[s] EXCEPT !.pc = "lookup", !.saw = saw] \in Jobs
    BY <2>1 DEF Jobs, Places
  <2>3. \/ Refuse(s)
        \/ \E saw \in SUBSET Ids : job' = [job EXCEPT ![s].pc = "lookup", ![s].saw = saw]
    BY <1>7 DEF Scan
  <2>4. job' \in [Slots -> Jobs]
    <3>1. CASE Refuse(s)
      BY <1>0, <3>1, RefuseType
    <3>2. ASSUME NEW saw \in SUBSET Ids,
                 job' = [job EXCEPT ![s].pc = "lookup", ![s].saw = saw]
          PROVE  job' \in [Slots -> Jobs]
      BY <1>0, <2>2, <3>2 DEF TypeOK
    <3> QED
      BY <2>3, <3>1, <3>2
  <2> QED
    BY <1>0, <1>7, <2>4 DEF TypeOK, Scan
<1>8. ASSUME NEW s \in Slots, Lookup(s), UNCHANGED rank
      PROVE  TypeOK'
  <2>1. Refuse(s) \/ Goto(s, "insert")
    BY <1>8 DEF Lookup
  <2>2. job' \in [Slots -> Jobs]
    BY <1>0, <2>1, GotoType, RefuseType DEF Places
  <2> QED
    BY <1>0, <1>8, <2>2 DEF TypeOK, Lookup
<1>9. ASSUME NEW s \in Slots, Insert(s) \/ InsertOfPlaylist(s), UNCHANGED rank
      PROVE  TypeOK'
  <2>1. job[s].user \in Users /\ job[s].link \in Link /\ job[s].how \in Ways
    BY <1>0, <1>9 DEF JobsFit, Insert, InsertOfPlaylist, At
  <2>2. \/ Refuse(s) /\ UNCHANGED <<mem, origin, tokens>>
        \/ /\ Put(s)
           /\ \/ tokens' = tokens
              \/ /\ tokens[job[s].user] # 0
                 /\ tokens' = [tokens EXCEPT ![job[s].user] = @ - 1]
    BY <1>9 DEF Insert, InsertOfPlaylist
  <2>3. Put(s) => /\ mem' \in [Ids -> Task \cup {None}]
                 /\ origin' \in [Ids -> Origin \cup {None}]
                 /\ job' \in [Slots -> Jobs]
    BY <1>0, <2>1, PutType
  <2>4. Refuse(s) => job' \in [Slots -> Jobs]
    BY <1>0, RefuseType
  <2>5. tokens' \in [Users -> 0..Burst]
    BY <1>0, <2>1, <2>2 DEF TypeOK
  <2> QED
    BY <1>0, <1>9, <2>2, <2>3, <2>4, <2>5 DEF TypeOK, Insert, InsertOfPlaylist
<1>10. ASSUME NEW s \in Slots, Save(s), UNCHANGED rank
      PROVE  TypeOK'
  <2> DEFINE t == job[s].id
  <2>1. t \in Ids /\ mem[t] # None /\ origin[t] # None
    BY <1>0, <1>10 DEF JobsFit, Save, At
  <2>2. mem[t].state \in States
    BY <1>0, <2>1 DEF TypeOK, Task
  <2>3. Recorded(t, mem[t].state) \in Row
    BY <1>0, <2>1, <2>2, RecordedType
  <2>4. row' \in [Ids -> Row \cup {None}]
    BY <1>0, <1>10, <2>1, <2>3 DEF TypeOK, Save
  <2>5. job[s] \in Jobs
    BY <1>0 DEF TypeOK
  <2>6. [job[s] EXCEPT !.pc = "mark"] \in Jobs
    BY <2>5 DEF Jobs, Places
  <2>7. job' \in [Slots -> Jobs]
    BY <1>0, <1>10, <2>6, IdleType DEF TypeOK, Save
  <2>8. queued' \subseteq Ids
    BY <1>0, <1>10, <2>1 DEF TypeOK, Save
  <2> QED
    BY <1>0, <1>10, <2>4, <2>7, <2>8 DEF TypeOK, Save
<1>11. ASSUME MarkDone \/ MarkFails, UNCHANGED rank
      PROVE  TypeOK'
  <2>1. Scheduler \in Slots /\ Refuse(Scheduler)
    BY <1>11 DEF MarkDone, MarkFails, Slots
  <2>2. job' \in [Slots -> Jobs]
    BY <1>0, <2>1, RefuseType
  <2>3. entry' \in [Entries -> {"none", "pending", "done"}] /\ mishaps' \in 0..MaxMishaps
    BY <1>0, <1>11 DEF TypeOK, MarkDone, MarkFails, Mishap
  <2> QED
    BY <1>0, <1>11, <2>2, <2>3 DEF TypeOK, MarkDone, MarkFails
<1>12. ASSUME NEW t \in Ids, NEW state \in States, Active(t),
              mem' = [mem EXCEPT ![t].state = state],
              row' = [row EXCEPT ![t] = Recorded(t, state)],
              queued' = queued \ {t}, mishaps' \in 0..MaxMishaps,
              UNCHANGED <<tokens, job, entry, want, due, origin, renamed, commands, rank>>
      PROVE  TypeOK'
  <2>1. mem[t] \in Task /\ origin[t] # None
    BY <1>0, <1>12 DEF TypeOK, TasksFit, Active
  <2>2. [mem[t] EXCEPT !.state = state] \in Task /\ Recorded(t, state) \in Row
    BY <1>0, <2>1, RecordedType DEF Task
  <2>3. mem' \in [Ids -> Task \cup {None}] /\ row' \in [Ids -> Row \cup {None}]
    BY <1>0, <1>12, <2>2 DEF TypeOK
  <2> QED
    BY <1>0, <1>12, <2>3 DEF TypeOK
<1>13. ASSUME NEW t \in Ids, Finish(t), UNCHANGED rank
      PROVE  TypeOK'
  <2>1. PICK state \in {"completed", "ended"} :
          /\ mem' = [mem EXCEPT ![t].state = state]
          /\ row' = [row EXCEPT ![t] = Recorded(t, state)]
    BY <1>13 DEF Finish
  <2>2. state \in States /\ mishaps' \in 0..MaxMishaps
    BY <1>0, <1>13 DEF States, Finish, TypeOK
  <2> QED
    BY <1>12, <1>13, <2>1, <2>2 DEF Finish
<1>14. ASSUME NEW t \in Ids, Cancel(t), UNCHANGED rank
      PROVE  TypeOK'
  <2>1. mishaps' \in 0..MaxMishaps /\ "ended" \in States
    BY <1>0, <1>14 DEF Cancel, TypeOK, States
  <2> QED
    BY <1>12, <1>14, <2>1 DEF Cancel
<1>15. ASSUME NEW t \in Ids, Ignore(t), UNCHANGED rank
      PROVE  TypeOK'
  BY <1>0, <1>15 DEF TypeOK, Ignore
<1>16. ASSUME NEW t \in Ids, Resolve(t), UNCHANGED rank
      PROVE  TypeOK'
  <2>1. mem[t] \in Task
    BY <1>0, <1>16 DEF TypeOK, Resolve, Active
  <2>2. [mem[t] EXCEPT !.link = "tgpath"] \in Task
    BY <2>1 DEF Task, Link
  <2>3. mem' \in [Ids -> Task \cup {None}]
    BY <1>0, <1>16, <2>2 DEF TypeOK, Resolve
  <2> QED
    BY <1>0, <1>16, <2>3 DEF TypeOK, Resolve
<1>17. ASSUME NEW u \in Users, Refill(u), UNCHANGED rank
      PROVE  TypeOK'
  <2>1. tokens' \in [Users -> 0..Burst]
    BY <1>0, <1>17 DEF TypeOK, Refill
  <2> QED
    BY <1>0, <1>17, <2>1 DEF TypeOK, Refill
<1>18. ASSUME Reboot, UNCHANGED rank
      PROVE  TypeOK'
  <2>1. \A t \in Ids : row[t] # None => [link |-> Loaded(row[t].link), state |-> "active"] \in Task
    BY <1>0 DEF TypeOK, Task, States, Loaded, Link, Row
  <2>2. mem' \in [Ids -> Task \cup {None}]
    BY <1>18, <2>1 DEF Reboot
  <2>3. job' \in [Slots -> Jobs]
    BY <1>18, IdleType DEF Reboot
  <2>4. tokens' \in [Users -> 0..Burst]
    BY <1>18 DEF Reboot
  <2>5. queued' \subseteq Ids /\ renamed' \subseteq Ids /\ mishaps' \in 0..MaxMishaps
    BY <1>0, <1>18 DEF Reboot, TypeOK, Mishap
  <2> QED
    BY <1>0, <1>18, <2>2, <2>3, <2>4, <2>5 DEF TypeOK, Reboot
<1> QED
  BY <1>1, <1>2, <1>3, <1>4, <1>5, <1>6, <1>7, <1>8, <1>9, <1>10, <1>11, <1>13, <1>14,
     <1>15, <1>16, <1>17, <1>18 DEF Next, Step, Admit

-----------------------------------------------------------------------------
(***************************************************************************)
(* Goroutines, wishes, tasks and links.                                    *)
(***************************************************************************)
LEMMA InitFit == Init => Fit
<1> SUFFICES ASSUME Init PROVE Fit
  OBVIOUS
<1>1. JobsFit /\ SlotsFit /\ WishesFit
  BY AdmissionConstants DEF Init, Idle, Slots, JobsFit, SlotsFit, WishesFit
<1>2. TasksFit /\ LinksFit
  BY DEF Init, TasksFit, LinksFit, Active
<1> QED
  BY <1>1, <1>2, InitType DEF Fit

\* A goroutine that goes on keeps what it creates.
Carries(s) ==
    /\ job'[s].user = job[s].user /\ job'[s].link = job[s].link
    /\ job'[s].how = job[s].how /\ job'[s].entry = job[s].entry
    /\ \/ job'[s].pc = "again" /\ job[s].how = "twice"
       \/ job'[s].pc \in {"scan", "lookup", "insert", "save"}
       \/ job'[s].pc = "mark" /\ s = Scheduler

\* The steps of admission, as far as goroutines go.
LEMMA AdmitJob ==
  ASSUME Fit, NEW s \in Slots, Admit(s)
  PROVE  /\ job[s].pc \notin {"idle", "mark"}
         /\ \A r \in Slots \ {s} : job'[r] = job[r]
         /\ job'[s] = Idle \/ Carries(s)
         /\ UNCHANGED <<want, renamed>>
<1>0. TypeOK /\ job[s] \in Jobs
  BY DEF Fit, TypeOK
<1>1. CASE CheckQuota(s)
  <2>1. Refuse(s) \/ \E p \in {"again", "insert", "scan"} :
                        Goto(s, p) /\ (p = "again" => job[s].how = "twice")
    BY <1>1 DEF CheckQuota
  <2>2. \A p \in {"again", "insert", "scan"} :
          [job[s] EXCEPT !.pc = p] =
            [pc |-> p, user |-> job[s].user, link |-> job[s].link, how |-> job[s].how,
             id |-> job[s].id, entry |-> job[s].entry, saw |-> job[s].saw]
    BY <1>0 DEF Jobs
  <2>3. {"again", "insert", "scan"} \subseteq Places
    BY DEF Places
  <2>4. CASE Refuse(s)
    BY <1>0, <1>1, <2>4, RefuseType DEF CheckQuota
  <2>5. ASSUME NEW p \in {"again", "insert", "scan"}, Goto(s, p), p = "again" => job[s].how = "twice"
        PROVE  Carries(s) /\ \A r \in Slots \ {s} : job'[r] = job[r]
    BY <1>0, <2>2, <2>3, <2>5, GotoType DEF Carries
  <2> QED
    BY <1>1, <2>1, <2>4, <2>5 DEF CheckQuota
<1>2. CASE Scan(s)
  <2>1. CASE Refuse(s)
    BY <1>0, <1>2, <2>1, RefuseType DEF Scan, At
  <2>2. ASSUME NEW saw, job' = [job EXCEPT ![s].pc = "lookup", ![s].saw = saw]
        PROVE  Carries(s) /\ \A r \in Slots \ {s} : job'[r] = job[r]
    BY <1>0, <2>2 DEF Carries, TypeOK, Jobs
  <2> QED
    BY <1>2, <2>1, <2>2 DEF Scan, At
<1>3. CASE Lookup(s)
  <2>1. CASE Refuse(s)
    BY <1>0, <1>3, <2>1, RefuseType DEF Lookup, At
  <2>2. CASE Goto(s, "insert")
    <3>1. Carries(s) /\ \A r \in Slots \ {s} : job'[r] = job[r]
      BY <1>0, <2>2 DEF Carries, TypeOK, Jobs, Goto
    <3> QED
      BY <1>3, <3>1 DEF Lookup, At
  <2> QED
    BY <1>3, <2>1, <2>2 DEF Lookup
<1>4. CASE Insert(s) \/ InsertOfPlaylist(s)
  <2>1. CASE Refuse(s)
    BY <1>0, <1>4, <2>1, RefuseType DEF Insert, InsertOfPlaylist, At
  <2>2. CASE Put(s)
    <3>1. Carries(s) /\ \A r \in Slots \ {s} : job'[r] = job[r]
      BY <1>0, <2>2 DEF Carries, TypeOK, Jobs, Put
    <3> QED
      BY <1>4, <3>1 DEF Insert, InsertOfPlaylist, At
  <2> QED
    BY <1>4, <2>1, <2>2 DEF Insert, InsertOfPlaylist
<1>5. CASE Save(s)
  <2>1. CASE s = Scheduler
    <3>1. job' = [job EXCEPT ![s].pc = "mark"]
      BY <1>5, <2>1 DEF Save
    <3>2. Carries(s) /\ \A r \in Slots \ {s} : job'[r] = job[r]
      BY <1>0, <2>1, <3>1 DEF Carries, TypeOK, Jobs
    <3> QED
      BY <1>5, <3>2 DEF Save, At
  <2>2. CASE s # Scheduler
    BY <1>0, <1>5, <2>2 DEF Save, TypeOK, At
  <2> QED
    BY <2>1, <2>2
<1> QED
  BY <1>1, <1>2, <1>3, <1>4, <1>5 DEF Admit

LEMMA StepWishes == Fit /\ [Next]_vars => WishesFit'
<1> SUFFICES ASSUME Fit, [Next]_vars, NEW e \in Entries
             PROVE  /\ entry'[e] # "none" \/ e \in due' => want'[e] # None
                    /\ want'[e] # None => want'[e].how \in {"unchecked", "odd"}
  BY DEF WishesFit
<1>0. TypeOK /\ WishesFit
  BY DEF Fit
<1>1. CASE UNCHANGED <<entry, due, want>>
  BY <1>0, <1>1 DEF WishesFit
<1>2. ASSUME NEW f \in Entries, Schedule(f)
      PROVE  /\ entry'[e] # "none" \/ e \in due' => want'[e] # None
             /\ want'[e] # None => want'[e].how \in {"unchecked", "odd"}
  <2>1. PICK u \in Users, how \in {"unchecked", "odd"} :
          want' = [want EXCEPT ![f] = [user |-> u, how |-> how]]
    BY <1>2 DEF Schedule
  <2>2. [user |-> u, how |-> how] # None
    BY AdmissionConstants DEF Wish, Ways
  <2> QED
    BY <1>0, <1>2, <2>1, <2>2 DEF Schedule, WishesFit, TypeOK
<1>3. CASE Poll
  BY <1>0, <1>3 DEF Poll, WishesFit
<1>4. ASSUME NEW f \in Entries, Execute(f)
      PROVE  /\ entry'[e] # "none" \/ e \in due' => want'[e] # None
             /\ want'[e] # None => want'[e].how \in {"unchecked", "odd"}
  BY <1>0, <1>4 DEF Execute, WishesFit
<1>5. CASE MarkDone
  <2>1. want[job[Scheduler].entry] # None
    BY <1>5 DEF Fit, SlotsFit, MarkDone, At
  <2> QED
    BY <1>0, <1>5, <2>1 DEF MarkDone, WishesFit, TypeOK
<1>6. CASE Reboot
  BY <1>0, <1>6 DEF Reboot, WishesFit
<1>7. ASSUME NEW h \in Handlers, Command(h)
      PROVE  UNCHANGED <<entry, due, want>>
  BY <1>0, <1>7, CommandType DEF Begun
<1> QED
  BY <1>1, <1>2, <1>3, <1>4, <1>5, <1>6, <1>7
     DEF Next, Step, vars, Admit, CheckQuota, Scan, Lookup, Insert, InsertOfPlaylist, Save,
         MarkFails, Finish, Ignore, Cancel, Resolve, Refill

LEMMA StepSlots == Fit /\ [Next]_vars => SlotsFit'
<1> SUFFICES ASSUME Fit, [Next]_vars PROVE SlotsFit'
  OBVIOUS
<1> USE AdmissionConstants DEF Slots
<1>0. TypeOK /\ SlotsFit /\ WishesFit
  BY DEF Fit
<1>1. CASE UNCHANGED <<job, want>>
  BY <1>0, <1>1 DEF SlotsFit
<1>2. ASSUME NEW h \in Handlers, Command(h)
      PROVE  SlotsFit'
  <2>1. PICK u \in Users, l \in Link, how \in Ways, p \in {"quota", "scan", "insert"} :
          /\ job' = [job EXCEPT ![h] = [pc |-> p, user |-> u, link |-> l, how |-> how,
                                       id |-> None, entry |-> None, saw |-> {}]]
          /\ want' = want
    BY <1>0, <1>2, CommandType DEF Begun
  <2>2. job'[h].entry = None /\ job'[h].pc # "mark"
    BY <1>0, <2>1 DEF TypeOK
  <2>3. \A r \in Slots \ {h} : job'[r] = job[r]
    BY <1>0, <2>1 DEF TypeOK
  <2> QED
    BY <1>0, <2>1, <2>2, <2>3 DEF SlotsFit
<1>3. ASSUME NEW e \in Entries, Schedule(e)
      PROVE  SlotsFit'
  <2>1. PICK u \in Users, how \in {"unchecked", "odd"} :
          want' = [want EXCEPT ![e] = [user |-> u, how |-> how]]
    BY <1>3 DEF Schedule
  <2>2. [user |-> u, how |-> how] # None
    BY DEF Wish, Ways
  <2> QED
    BY <1>0, <1>3, <2>1, <2>2 DEF SlotsFit, TypeOK, Schedule
<1>4. ASSUME NEW e \in Entries, Execute(e)
      PROVE  SlotsFit'
  <2>1. job'[Scheduler] = [pc |-> "scan", user |-> want[e].user, link |-> "url",
                           how |-> want[e].how, id |-> None, entry |-> e, saw |-> {}]
    BY <1>0, <1>4 DEF Execute, TypeOK
  <2>2. want' = want /\ want[e] # None /\ want[e].how \in {"unchecked", "odd"}
    BY <1>0, <1>4 DEF Execute, WishesFit
  <2>3. \A r \in Handlers : job'[r] = job[r]
    BY <1>0, <1>4 DEF Execute, TypeOK
  <2> QED
    BY <1>0, <2>1, <2>2, <2>3 DEF SlotsFit
<1>5. ASSUME NEW s \in Slots, Admit(s)
      PROVE  SlotsFit'
  <2>1. /\ job[s].pc \notin {"idle", "mark"}
        /\ \A r \in Slots \ {s} : job'[r] = job[r]
        /\ job'[s] = Idle \/ Carries(s)
        /\ want' = want
    BY <1>5, AdmitJob
  <2>2. CASE job'[s] = Idle
    BY <1>0, <2>1, <2>2 DEF SlotsFit, Idle
  <2>3. CASE Carries(s)
    BY <1>0, <2>1, <2>3 DEF SlotsFit, Carries
  <2> QED
    BY <2>1, <2>2, <2>3
<1>6. CASE MarkDone \/ MarkFails
  <2>1. job' = [job EXCEPT ![Scheduler] = Idle] /\ want' = want
    BY <1>6 DEF MarkDone, MarkFails, Refuse
  <2> QED
    BY <1>0, <2>1 DEF SlotsFit, Idle, TypeOK
<1>7. CASE Reboot
  BY <1>7 DEF Reboot, SlotsFit, Idle
<1> QED
  BY <1>1, <1>2, <1>3, <1>4, <1>5, <1>6, <1>7
     DEF Next, Step, vars, Poll, Finish, Ignore, Cancel, Resolve, Refill

\* A task ends: Finish and Cancel.
Ends(t, state) ==
    /\ Active(t)
    /\ mem' = [mem EXCEPT ![t].state = state]
    /\ row' = [row EXCEPT ![t] = Recorded(t, state)]
    /\ UNCHANGED <<job, origin, renamed>>

\* No task is made, written or changed.
Quiet ==
    /\ UNCHANGED <<mem, row, origin, renamed>>
    /\ \A s \in Slots :
         /\ job'[s].pc = "save" => job'[s] = job[s]
         /\ job[s].pc = "save" => job'[s] = job[s]

\* The steps that do something to a task.
Loud ==
    \/ \E s \in Slots : (Insert(s) \/ InsertOfPlaylist(s)) /\ Put(s)
    \/ \E s \in Slots : Save(s)
    \/ \E t \in Ids, state \in {"completed", "ended"} : Ends(t, state)
    \/ \E t \in Ids : Resolve(t)
    \/ Reboot

LEMMA StepKinds == Fit /\ [Next]_vars => Quiet \/ Loud
<1> SUFFICES ASSUME Fit, [Next]_vars PROVE Quiet \/ Loud
  OBVIOUS
<1>0. TypeOK
  BY DEF Fit
<1>1. CASE UNCHANGED <<mem, row, origin, renamed, job>>
  BY <1>1 DEF Quiet
<1>2. ASSUME NEW s \in Slots, Refuse(s), job[s].pc # "save",
             UNCHANGED <<mem, row, origin, renamed>>
      PROVE  Quiet
  BY <1>0, <1>2 DEF Quiet, Refuse, TypeOK, Idle
<1>3. ASSUME NEW s \in Slots, NEW p \in Places, Goto(s, p), p # "save", job[s].pc # "save",
             UNCHANGED <<mem, row, origin, renamed>>
      PROVE  Quiet
  <2>1. job[s] \in Jobs
    BY <1>0 DEF TypeOK
  <2>2. job'[s].pc = p /\ \A r \in Slots \ {s} : job'[r] = job[r]
    BY <1>0, <1>3, <2>1, GotoType DEF Jobs
  <2> QED
    BY <1>3, <2>2 DEF Quiet
<1>4. ASSUME NEW h \in Handlers, Command(h)
      PROVE  Quiet
  BY <1>0, <1>4, CommandType DEF Begun, Quiet, TypeOK, Slots, At
<1>5. ASSUME NEW e \in Entries, Execute(e)
      PROVE  Quiet
  BY <1>0, <1>5 DEF Execute, Quiet, TypeOK, Slots, At
<1>6. ASSUME NEW s \in Slots, CheckQuota(s)
      PROVE  Quiet
  <2>1. Refuse(s) \/ \E p \in {"again", "insert", "scan"} : Goto(s, p)
    BY <1>6 DEF CheckQuota
  <2>2. {"again", "insert", "scan"} \subseteq Places
    BY DEF Places
  <2> QED
    BY <1>2, <1>3, <1>6, <2>1, <2>2 DEF CheckQuota
<1>7. ASSUME NEW s \in Slots, Scan(s)
      PROVE  Quiet
  <2>1. CASE Refuse(s)
    BY <1>2, <1>7, <2>1 DEF Scan, At
  <2>2. ASSUME NEW saw, job' = [job EXCEPT ![s].pc = "lookup", ![s].saw = saw]
        PROVE  Quiet
    BY <1>0, <1>7, <2>2 DEF Scan, At, Quiet, TypeOK, Jobs
  <2> QED
    BY <1>7, <2>1, <2>2 DEF Scan
<1>8. ASSUME NEW s \in Slots, Lookup(s)
      PROVE  Quiet
  BY <1>2, <1>3, <1>8 DEF Lookup, At, Places
<1>9. ASSUME NEW s \in Slots, Insert(s) \/ InsertOfPlaylist(s)
      PROVE  Quiet \/ Loud
  BY <1>2, <1>9 DEF Insert, InsertOfPlaylist, At, Loud
<1>10. ASSUME MarkDone \/ MarkFails
      PROVE  Quiet
  BY <1>2, <1>10 DEF MarkDone, MarkFails, At, Slots
<1>11. ASSUME NEW t \in Ids, Finish(t) \/ Cancel(t)
      PROVE  Loud
  <2>1. CASE Finish(t)
    <3>1. PICK state \in {"completed", "ended"} :
            /\ mem' = [mem EXCEPT ![t].state = state]
            /\ row' = [row EXCEPT ![t] = Recorded(t, state)]
      BY <2>1 DEF Finish
    <3>2. Ends(t, state)
      BY <2>1, <3>1 DEF Finish, Ends
    <3> QED
      BY <3>2 DEF Loud
  <2>2. CASE Cancel(t)
    <3>1. Ends(t, "ended")
      BY <2>2 DEF Cancel, Ends
    <3> QED
      BY <3>1 DEF Loud
  <2> QED
    BY <1>11, <2>1, <2>2
<1>12. ASSUME NEW s \in Slots, Save(s)
      PROVE  Loud
  BY <1>12 DEF Loud
<1> QED
  BY <1>1, <1>4, <1>5, <1>6, <1>7, <1>8, <1>9, <1>10, <1>11, <1>12
     DEF Next, Step, vars, Admit, Schedule, Poll, Ignore, Refill, Loud

\* What the loud steps do, each in the terms the invariants are stated in.
LEMMA PutFacts ==
  ASSUME Fit, NEW s \in Slots, Insert(s) \/ InsertOfPlaylist(s), Put(s)
  PROVE  \E n \in Ids :
         /\ mem[n] = None /\ row[n] = None
         /\ \A r \in Slots : job[r].id # n
         /\ mem'[n] # None /\ mem'[n].link = job[s].link /\ mem'[n].state = "active"
         /\ origin'[n] # None
         /\ origin'[n].link = job[s].link /\ origin'[n].user = job[s].user
         /\ origin'[n].how = job[s].how /\ origin'[n].entry = job[s].entry
         /\ origin'[n].saw = job[s].saw
         /\ \A t \in Ids \ {n} : mem'[t] = mem[t] /\ origin'[t] = origin[t]
         /\ job[s].pc = "insert" /\ job'[s].pc = "save" /\ job'[s].id = n
         /\ job'[s].user = job[s].user /\ job'[s].link = job[s].link
         /\ job'[s].how = job[s].how /\ job'[s].saw = {}
         /\ \A r \in Slots \ {s} : job'[r] = job[r]
         /\ row' = row /\ renamed' = renamed
<1>1. TypeOK /\ JobsFit /\ TasksFit /\ job[s] \in Jobs
  BY DEF Fit, TypeOK
<1>2. job[s].pc = "insert" /\ row' = row /\ renamed' = renamed
  BY DEF Insert, InsertOfPlaylist, At
<1>3. job[s].user \in Users /\ job[s].link \in Link /\ job[s].how \in Ways
  BY <1>1, <1>2 DEF JobsFit
<1>4. PICK n \in Ids :
      /\ origin[n] = None
      /\ \A r \in Slots : job[r].id # n
      /\ mem'[n] = [link |-> job[s].link, state |-> "active"]
      /\ mem'[n] # None /\ origin'[n] # None
      /\ origin'[n] = [link |-> job[s].link, user |-> job[s].user, how |-> job[s].how,
                       entry |-> job[s].entry, saw |-> job[s].saw]
      /\ \A t \in Ids \ {n} : mem'[t] = mem[t] /\ origin'[t] = origin[t]
      /\ job'[s] = [job[s] EXCEPT !.pc = "save", !.id = n, !.saw = {}]
      /\ \A r \in Slots \ {s} : job'[r] = job[r]
  BY <1>1, <1>3, PutType
<1>5. mem[n] = None /\ row[n] = None
  BY <1>1, <1>4 DEF TasksFit
<1>6. /\ job'[s].pc = "save" /\ job'[s].id = n /\ job'[s].saw = {}
      /\ job'[s].user = job[s].user /\ job'[s].link = job[s].link
      /\ job'[s].how = job[s].how
  BY <1>1, <1>4 DEF Jobs
<1> QED
  BY <1>2, <1>4, <1>5, <1>6

LEMMA SaveFacts ==
  ASSUME Fit, NEW s \in Slots, Save(s)
  PROVE  /\ job[s].id \in Ids /\ job[s].pc = "save"
         /\ mem[job[s].id] # None /\ origin[job[s].id] # None
         /\ row'[job[s].id] # None /\ row'[job[s].id] = Recorded(job[s].id, mem[job[s].id].state)
         /\ \A t \in Ids \ {job[s].id} : row'[t] = row[t]
         /\ job'[s] = Idle \/ (job'[s] = [job[s] EXCEPT !.pc = "mark"] /\ s = Scheduler)
         /\ \A r \in Slots \ {s} : job'[r] = job[r]
         /\ UNCHANGED <<mem, origin, renamed>>
<1>1. TypeOK /\ JobsFit
  BY DEF Fit
<1> DEFINE t == job[s].id
<1>2. t \in Ids /\ mem[t] # None /\ origin[t] # None /\ job[s].pc = "save"
  BY <1>1 DEF JobsFit, Save, At
<1>3. mem[t].state \in States
  BY <1>1, <1>2 DEF TypeOK, Task
<1>4. Recorded(t, mem[t].state) \in Row
  BY <1>1, <1>2, <1>3, RecordedType
<1>5. /\ row'[t] = Recorded(t, mem[t].state)
      /\ \A r \in Ids \ {t} : row'[r] = row[r]
  BY <1>1, <1>2 DEF Save, TypeOK
<1>6. /\ job'[s] = Idle \/ (job'[s] = [job[s] EXCEPT !.pc = "mark"] /\ s = Scheduler)
      /\ \A r \in Slots \ {s} : job'[r] = job[r]
  BY <1>1 DEF Save, TypeOK
<1> QED
  BY <1>2, <1>4, <1>5, <1>6, AdmissionConstants DEF Save

LEMMA EndsFacts ==
  ASSUME Fit, NEW t \in Ids, NEW state \in {"completed", "ended"}, Ends(t, state)
  PROVE  /\ mem[t] # None /\ origin[t] # None
         /\ mem'[t] # None /\ mem'[t].state = state /\ mem'[t].link = mem[t].link
         /\ row'[t] # None /\ row'[t] = Recorded(t, state) /\ row'[t].state = state
         /\ \A r \in Ids \ {t} : mem'[r] = mem[r] /\ row'[r] = row[r]
         /\ UNCHANGED <<job, origin, renamed>>
<1>1. TypeOK /\ TasksFit /\ state \in States
  BY DEF Fit, States
<1>2. mem[t] \in Task /\ mem[t] # None /\ origin[t] # None
  BY <1>1 DEF Ends, Active, TypeOK, TasksFit
<1>3. Recorded(t, state) \in Row /\ Recorded(t, state).state = state
  BY <1>1, <1>2, RecordedType DEF Recorded
<1>4. /\ [mem[t] EXCEPT !.state = state] \in Task
      /\ [mem[t] EXCEPT !.state = state].state = state
      /\ [mem[t] EXCEPT !.state = state].link = mem[t].link
  BY <1>1, <1>2 DEF Task
<1>5. /\ mem'[t] = [mem[t] EXCEPT !.state = state] /\ row'[t] = Recorded(t, state)
      /\ \A r \in Ids \ {t} : mem'[r] = mem[r] /\ row'[r] = row[r]
  BY <1>1 DEF Ends, TypeOK
<1> QED
  BY <1>2, <1>3, <1>4, <1>5, AdmissionConstants DEF Ends

LEMMA ResolveFacts ==
  ASSUME Fit, NEW t \in Ids, Resolve(t)
  PROVE  /\ Active(t) /\ mem[t].link = "tgfile"
         /\ mem'[t] # None /\ mem'[t].state = mem[t].state
         /\ \A r \in Ids \ {t} : mem'[r] = mem[r]
         /\ renamed' = renamed \cup {t}
         /\ UNCHANGED <<row, job, origin>>
<1>1. TypeOK /\ mem[t] \in Task
  BY DEF Fit, TypeOK, Resolve, Active
<1>2. /\ [mem[t] EXCEPT !.link = "tgpath"] \in Task
      /\ [mem[t] EXCEPT !.link = "tgpath"].state = mem[t].state
  BY <1>1 DEF Task, Link
<1>3. mem'[t] = [mem[t] EXCEPT !.link = "tgpath"] /\ \A r \in Ids \ {t} : mem'[r] = mem[r]
  BY <1>1 DEF Resolve, TypeOK
<1> QED
  BY <1>2, <1>3, AdmissionConstants DEF Resolve

LEMMA RebootFacts ==
  ASSUME Fit, Reboot
  PROVE  /\ \A t \in Ids : mem'[t] # None =>
               /\ row[t] # None /\ row[t].state = "active" /\ Active(t)
               /\ mem'[t].link = Loaded(row[t].link)
               /\ t \notin renamed' => mem'[t].link = origin[t].link
         /\ \A t \in Ids : row[t] # None /\ row[t].state = "active" =>
               mem'[t] # None /\ mem'[t].state = "active"
         /\ \A s \in Slots : job'[s] = Idle
         /\ renamed \subseteq renamed'
         /\ UNCHANGED <<row, origin>>
<1>1. TypeOK /\ TasksFit
  BY DEF Fit
<1>2. \A t \in Ids : row[t] # None => [link |-> Loaded(row[t].link), state |-> "active"] # None
  <2>1. \A t \in Ids : row[t] # None => [link |-> Loaded(row[t].link), state |-> "active"] \in Task
    BY <1>1 DEF TypeOK, Task, States, Loaded, Link, Row
  <2> QED
    BY <2>1, AdmissionConstants
<1>3. \A t \in Ids :
        mem'[t] = IF row[t] # None /\ row[t].state = "active"
                  THEN [link |-> Loaded(row[t].link), state |-> "active"] ELSE None
  BY DEF Reboot
<1>4. \A t \in Ids : mem'[t] # None /\ t \notin renamed' => mem'[t].link = origin[t].link
  BY DEF Reboot
<1> QED
  BY <1>1, <1>2, <1>3, <1>4 DEF Reboot, TasksFit

LEMMA StepTasks == Fit /\ [Next]_vars => TasksFit'
<1> SUFFICES ASSUME Fit, [Next]_vars PROVE TasksFit'
  OBVIOUS
<1>0. TypeOK /\ JobsFit /\ TasksFit
  BY DEF Fit
<1>1. CASE Quiet
  BY <1>0, <1>1 DEF Quiet, TasksFit, Written, Active
<1>2. ASSUME NEW s \in Slots, Insert(s) \/ InsertOfPlaylist(s), Put(s)
      PROVE  TasksFit'
  <2>0. PICK n \in Ids :
         /\ mem[n] = None /\ row[n] = None
         /\ mem'[n] # None /\ mem'[n].link = job[s].link /\ mem'[n].state = "active"
         /\ origin'[n] # None
         /\ origin'[n].link = job[s].link /\ origin'[n].user = job[s].user
         /\ origin'[n].entry = job[s].entry /\ origin'[n].saw = job[s].saw
         /\ \A t \in Ids \ {n} : mem'[t] = mem[t] /\ origin'[t] = origin[t]
         /\ job[s].pc = "insert" /\ job'[s].pc = "save" /\ job'[s].id = n
         /\ \A r \in Slots \ {s} : job'[r] = job[r]
         /\ row' = row /\ renamed' = renamed
    BY <1>2, PutFacts
  <2>1. \A t \in Ids : Written(t) => Written(t)'
    BY <2>0 DEF Written
  <2>2. Written(n)'
    BY <2>0 DEF Written
  <2> QED
    BY <1>0, <2>0, <2>1, <2>2 DEF TasksFit, Active
<1>3. ASSUME NEW s \in Slots, Save(s)
      PROVE  TasksFit'
  <2> DEFINE u == job[s].id
  <2>1. \A t \in Ids : Written(t) => Written(t)'
    BY <1>3, SaveFacts DEF Written
  <2>2. row'[u].user = origin[u].user /\ row'[u].state = mem[u].state
    <3>1. row'[u] = Recorded(u, mem[u].state)
      BY <1>3, SaveFacts
    <3> QED
      BY <3>1 DEF Recorded
  <2> QED
    BY <1>0, <1>3, <2>1, <2>2, SaveFacts DEF TasksFit, Active
<1>4. ASSUME NEW t \in Ids, NEW state \in {"completed", "ended"}, Ends(t, state)
      PROVE  TasksFit'
  <2>1. \A r \in Ids : Written(r) => Written(r)'
    BY <1>4, EndsFacts DEF Written
  <2>2. row'[t].user = origin[t].user
    <3>1. row'[t] = Recorded(t, state)
      BY <1>4, EndsFacts
    <3> QED
      BY <3>1 DEF Recorded
  <2> QED
    BY <1>0, <1>4, <2>1, <2>2, EndsFacts DEF TasksFit, Active
<1>5. ASSUME NEW t \in Ids, Resolve(t)
      PROVE  TasksFit'
  <2>1. \A r \in Ids : Written(r) => Written(r)'
    BY <1>5, ResolveFacts DEF Written
  <2> QED
    BY <1>0, <1>5, <2>1, ResolveFacts DEF TasksFit, Active
<1>6. CASE Reboot
  BY <1>0, <1>6, RebootFacts DEF TasksFit, Written, Active
<1> QED
  BY <1>1, <1>2, <1>3, <1>4, <1>5, <1>6, StepKinds DEF Loud

LEMMA StepLinks == Fit /\ [Next]_vars => LinksFit'
<1> SUFFICES ASSUME Fit, [Next]_vars PROVE LinksFit'
  OBVIOUS
<1>0. TypeOK /\ JobsFit /\ SlotsFit /\ TasksFit /\ LinksFit
  BY DEF Fit
<1>1. CASE Quiet
  BY <1>0, <1>1 DEF Quiet, LinksFit, Active
<1>2. ASSUME NEW s \in Slots, Insert(s) \/ InsertOfPlaylist(s), Put(s)
      PROVE  LinksFit'
  <2>0. PICK n \in Ids :
         /\ mem[n] = None /\ row[n] = None
         /\ mem'[n] # None /\ mem'[n].link = job[s].link /\ mem'[n].state = "active"
         /\ origin'[n] # None
         /\ origin'[n].link = job[s].link /\ origin'[n].user = job[s].user
         /\ origin'[n].entry = job[s].entry /\ origin'[n].saw = job[s].saw
         /\ \A t \in Ids \ {n} : mem'[t] = mem[t] /\ origin'[t] = origin[t]
         /\ job[s].pc = "insert" /\ job'[s].pc = "save" /\ job'[s].id = n
         /\ \A r \in Slots \ {s} : job'[r] = job[r]
         /\ row' = row /\ renamed' = renamed
    BY <1>2, PutFacts
  <2>1. job[s].saw \subseteq renamed
    BY <1>0 DEF JobsFit
  <2>2. job[s].entry # None => job[s].link = "url"
    BY <1>0, <2>0 DEF SlotsFit, Slots
  <2> QED
    BY <1>0, <2>0, <2>1, <2>2 DEF LinksFit, Active
<1>3. ASSUME NEW s \in Slots, Save(s)
      PROVE  LinksFit'
  <2> DEFINE u == job[s].id
  <2>1. mem[u].link = "url" => row'[u].link = "url"
    <3>1. row'[u] = Recorded(u, mem[u].state)
      BY <1>3, SaveFacts
    <3> QED
      BY <3>1 DEF Recorded
  <2> QED
    BY <1>0, <1>3, <2>1, SaveFacts DEF LinksFit, Active
<1>4. ASSUME NEW t \in Ids, NEW state \in {"completed", "ended"}, Ends(t, state)
      PROVE  LinksFit'
  <2>1. mem[t].link = "url" => row'[t].link = "url"
    <3>1. row'[t] = Recorded(t, state)
      BY <1>4, EndsFacts
    <3> QED
      BY <3>1 DEF Recorded
  <2> QED
    BY <1>0, <1>4, <2>1, EndsFacts DEF LinksFit, Active
<1>5. ASSUME NEW t \in Ids, Resolve(t)
      PROVE  LinksFit'
  BY <1>0, <1>5, ResolveFacts DEF LinksFit, Active
<1>6. CASE Reboot
  BY <1>0, <1>6, RebootFacts DEF LinksFit, Active, Loaded
<1> QED
  BY <1>1, <1>2, <1>3, <1>4, <1>5, <1>6, StepKinds DEF Loud

\* What a scan passes over has been renamed.
LEMMA ScanSees ==
  ASSUME Fit, NEW s \in Slots, Scan(s), ~Refuse(s)
  PROVE  /\ \A t \in Ids : Active(t) => mem[t].link # job[s].link
         /\ job'[s].saw \subseteq renamed
<1>1. TypeOK /\ LinksFit /\ job[s] \in Jobs
  BY DEF Fit, TypeOK
<1>2. \A t \in Ids : Active(t) => mem[t].link # job[s].link
  BY DEF Scan, SameLink
<1> DEFINE saw == {t \in Ids : Active(t) /\ origin[t].link = job[s].link}
<1>3. job' = [job EXCEPT ![s].pc = "lookup", ![s].saw = saw]
  BY DEF Scan
<1>4. job'[s].saw = saw
  BY <1>1, <1>3 DEF TypeOK, Jobs
<1>5. saw \subseteq renamed
  BY <1>1, <1>2 DEF LinksFit
<1> QED
  BY <1>2, <1>4, <1>5

LEMMA StepJobs == Fit /\ [Next]_vars => JobsFit'
<1> SUFFICES ASSUME Fit, [Next]_vars PROVE JobsFit'
  OBVIOUS
<1>0. TypeOK /\ JobsFit /\ SlotsFit /\ TasksFit /\ WishesFit
  BY DEF Fit
<1>1. CASE UNCHANGED <<mem, origin, renamed, job>>
  BY <1>0, <1>1 DEF JobsFit
<1>2. ASSUME NEW s \in Slots,
             UNCHANGED <<mem, origin, renamed>>,
             \A r \in Slots \ {s} : job'[r] = job[r],
             \/ job'[s] = Idle
             \/ /\ job'[s].user \in Users /\ job'[s].link \in Link /\ job'[s].how \in Ways
                /\ job'[s].saw \subseteq renamed
                /\ job'[s].pc \notin {"save", "mark"}
      PROVE  JobsFit'
  BY <1>0, <1>2 DEF JobsFit, Idle
<1>3. ASSUME NEW h \in Handlers, Command(h)
      PROVE  JobsFit'
  <2>1. PICK u \in Users, l \in Link, how \in Ways, p \in {"quota", "scan", "insert"} :
          /\ job' = [job EXCEPT ![h] = [pc |-> p, user |-> u, link |-> l, how |-> how,
                                       id |-> None, entry |-> None, saw |-> {}]]
          /\ UNCHANGED <<mem, origin, renamed>>
    BY <1>0, <1>3, CommandType DEF Begun
  <2>2. h \in Slots /\ \A r \in Slots \ {h} : job'[r] = job[r]
    BY <1>0, <2>1 DEF TypeOK, Slots
  <2>3. job'[h] = [pc |-> p, user |-> u, link |-> l, how |-> how,
                   id |-> None, entry |-> None, saw |-> {}]
    BY <1>0, <2>1, <2>2 DEF TypeOK
  <2> QED
    BY <1>2, <2>1, <2>2, <2>3
<1>4. ASSUME NEW e \in Entries, Execute(e)
      PROVE  JobsFit'
  <2>1. want[e] \in Wish
    BY <1>0, <1>4 DEF WishesFit, Execute, TypeOK
  <2>2. /\ Scheduler \in Slots
        /\ job'[Scheduler] = [pc |-> "scan", user |-> want[e].user, link |-> "url",
                              how |-> want[e].how, id |-> None, entry |-> e, saw |-> {}]
        /\ \A r \in Slots \ {Scheduler} : job'[r] = job[r]
    BY <1>0, <1>4 DEF Execute, TypeOK, Slots
  <2> QED
    BY <1>2, <1>4, <2>1, <2>2 DEF Execute, Wish, Link
<1>5. ASSUME NEW s \in Slots, CheckQuota(s) \/ Lookup(s)
      PROVE  JobsFit'
  <2>1. /\ Refuse(s) \/ \E p \in {"again", "insert", "scan"} : Goto(s, p)
        /\ job[s].pc # "idle" /\ UNCHANGED <<mem, origin, renamed>>
    BY <1>5 DEF CheckQuota, Lookup, At
  <2>2. CASE Refuse(s)
    BY <1>0, <1>2, <2>1, <2>2, RefuseType
  <2>3. ASSUME NEW p \in {"again", "insert", "scan"}, Goto(s, p)
        PROVE  JobsFit'
    <3>1. p \in Places /\ job[s] \in Jobs
      BY <1>0 DEF Places, TypeOK
    <3>2. /\ job'[s].pc = p /\ job'[s].user = job[s].user /\ job'[s].link = job[s].link
          /\ job'[s].how = job[s].how /\ job'[s].saw = job[s].saw
          /\ \A r \in Slots \ {s} : job'[r] = job[r]
      BY <1>0, <2>3, <3>1, GotoType DEF Jobs
    <3> QED
      BY <1>0, <1>2, <2>1, <3>2 DEF JobsFit
  <2> QED
    BY <2>1, <2>2, <2>3
<1>6. ASSUME NEW s \in Slots, Scan(s)
      PROVE  JobsFit'
  <2>1. CASE Refuse(s)
    BY <1>0, <1>2, <1>6, <2>1, RefuseType DEF Scan
  <2>2. CASE ~Refuse(s)
    <3>1. job'[s].saw \subseteq renamed
      BY <1>6, <2>2, ScanSees
    <3>2. job'[s].pc = "lookup"
      BY <1>0, <1>6, <2>2 DEF Scan, TypeOK, Jobs
    <3>3. Carries(s) /\ \A r \in Slots \ {s} : job'[r] = job[r]
      BY <1>6, <3>2, AdmitJob DEF Admit, Idle
    <3> QED
      BY <1>0, <1>2, <1>6, <3>1, <3>2, <3>3 DEF Scan, At, JobsFit, Carries
  <2> QED
    BY <2>1, <2>2
<1>7. ASSUME NEW s \in Slots, Insert(s) \/ InsertOfPlaylist(s)
      PROVE  JobsFit'
  <2>1. CASE Refuse(s) /\ UNCHANGED <<mem, origin>>
    BY <1>0, <1>2, <1>7, <2>1, RefuseType DEF Insert, InsertOfPlaylist
  <2>2. CASE Put(s)
    <3>1. PICK n \in Ids :
            /\ \A r \in Slots : job[r].id # n
            /\ mem'[n] # None /\ origin'[n] # None
            /\ origin'[n].user = job[s].user /\ origin'[n].how = job[s].how
            /\ \A t \in Ids \ {n} : mem'[t] = mem[t] /\ origin'[t] = origin[t]
            /\ job[s].pc = "insert" /\ job'[s].pc = "save" /\ job'[s].id = n
            /\ job'[s].user = job[s].user /\ job'[s].link = job[s].link
            /\ job'[s].how = job[s].how /\ job'[s].saw = {}
            /\ \A r \in Slots \ {s} : job'[r] = job[r]
            /\ renamed' = renamed
      BY <1>7, <2>2, PutFacts
    <3> QED
      BY <1>0, <3>1 DEF JobsFit
  <2> QED
    BY <1>7, <2>1, <2>2 DEF Insert, InsertOfPlaylist
<1>8. ASSUME NEW s \in Slots, Save(s)
      PROVE  JobsFit'
  <2>1. job[s] \in Jobs
    BY <1>0 DEF TypeOK
  <2>2. CASE job'[s] = Idle
    BY <1>2, <1>8, <2>2, SaveFacts
  <2>3. CASE job'[s] = [job[s] EXCEPT !.pc = "mark"]
    <3>1. /\ job'[s].pc = "mark" /\ job'[s].user = job[s].user /\ job'[s].link = job[s].link
          /\ job'[s].how = job[s].how /\ job'[s].saw = job[s].saw /\ job'[s].id = job[s].id
      BY <2>1, <2>3 DEF Jobs
    <3>2. /\ job[s].pc = "save" /\ UNCHANGED <<mem, origin, renamed>>
          /\ \A r \in Slots \ {s} : job'[r] = job[r]
      BY <1>8, SaveFacts
    <3> QED
      BY <1>0, <3>1, <3>2 DEF JobsFit
  <2> QED
    BY <1>8, <2>2, <2>3, SaveFacts
<1>9. ASSUME MarkDone \/ MarkFails
      PROVE  JobsFit'
  <2>1. Scheduler \in Slots /\ Refuse(Scheduler) /\ UNCHANGED <<mem, origin, renamed>>
    BY <1>9 DEF MarkDone, MarkFails, Slots
  <2> QED
    BY <1>0, <1>2, <2>1, RefuseType
<1>10. ASSUME NEW t \in Ids, NEW state \in {"completed", "ended"}, Ends(t, state)
      PROVE  JobsFit'
  BY <1>0, <1>10, EndsFacts DEF JobsFit
<1>11. ASSUME NEW t \in Ids, Resolve(t)
      PROVE  JobsFit'
  BY <1>0, <1>11, ResolveFacts DEF JobsFit
<1>12. CASE Reboot
  BY <1>12, RebootFacts DEF JobsFit, Idle
<1>13. ASSUME NEW t \in Ids, Finish(t) \/ Cancel(t)
       PROVE  JobsFit'
  <2>1. \E state \in {"completed", "ended"} : Ends(t, state)
    BY <1>13 DEF Finish, Cancel, Ends
  <2> QED
    BY <1>10, <2>1
<1> QED
  BY <1>1, <1>3, <1>4, <1>5, <1>6, <1>7, <1>8, <1>9, <1>11, <1>12, <1>13
     DEF Next, Step, vars, Admit, Schedule, Poll, Ignore, Refill

LEMMA StepFit == Fit /\ [Next]_vars => Fit'
  BY StepType, StepJobs, StepSlots, StepWishes, StepTasks, StepLinks DEF Fit

\* Types, for any number of goroutines, entries and commands: whatever races, fails or
\* crashes, each goroutine's task is one that tm.Tasks has.
THEOREM TypeCorrect == Spec => []TypeOK
<1>1. Fit => TypeOK
  BY DEF Fit
<1> QED
  BY <1>1, InitFit, StepFit, PTL DEF Spec

\* Duplicates: of two tasks under way for one link that neither come from a playlist nor
\* go by another link by now, each was looked for before the other was there.
THEOREM NoDuplicateMissed == Spec => []DuplicatesOverlap
<1>1. Fit => DuplicatesOverlap
  <2> SUFFICES ASSUME Fit, NEW t \in Ids, NEW u \in Ids, Active(t), Active(u),
                      {t, u} \cap renamed = {}
               PROVE  t \notin origin[u].saw /\ u \notin origin[t].saw
    BY DEF DuplicatesOverlap
  <2>1. origin[t] # None /\ origin[u] # None
    BY DEF Fit, TasksFit, Active
  <2> QED
    BY <2>1 DEF Fit, LinksFit
<1> QED
  BY <1>1, InitFit, StepFit, PTL DEF Spec

-----------------------------------------------------------------------------
(***************************************************************************)
(* Entries.                                                                *)
(***************************************************************************)
LEMMA StepEntries == Fit /\ EntriesApart /\ [Next]_vars => EntriesApart'
<1> SUFFICES ASSUME Fit, EntriesApart, [Next]_vars PROVE EntriesApart'
  OBVIOUS
<1>0. TypeOK /\ SlotsFit /\ TasksFit /\ LinksFit
  BY DEF Fit
<1> DEFINE S == Scheduler
           Past(pc) == pc \in {"lookup", "insert"}
<1>1. CASE Quiet /\ (Past(job'[S].pc) => Past(job[S].pc) \/ \A t \in Ids : ~OfEntry(t))
  BY <1>1 DEF Quiet, EntriesApart, OfEntry, Active
<1>2. ASSUME NEW s \in Slots, Insert(s) \/ InsertOfPlaylist(s), Put(s)
      PROVE  EntriesApart'
  <2>1. PICK n \in Ids :
          /\ origin'[n].entry = job[s].entry
          /\ \A t \in Ids \ {n} : mem'[t] = mem[t] /\ origin'[t] = origin[t]
          /\ job[s].pc = "insert" /\ job'[s].pc = "save"
          /\ \A r \in Slots \ {s} : job'[r] = job[r]
    BY <1>2, PutFacts
  <2>2. \A t \in Ids \ {n} : OfEntry(t)' => OfEntry(t)
    BY <2>1 DEF OfEntry, Active
  <2>3. CASE s = S
    BY <2>1, <2>2, <2>3 DEF EntriesApart
  <2>4. CASE s # S
    <3>1. ~OfEntry(n)'
      BY <1>0, <2>1, <2>4 DEF SlotsFit, Slots, OfEntry
    <3> QED
      BY <2>1, <2>2, <2>4, <3>1 DEF EntriesApart, Slots
  <2> QED
    BY <2>3, <2>4
<1>3. ASSUME \A t \in Ids : OfEntry(t)' => OfEntry(t),
             Past(job'[S].pc) => Past(job[S].pc)
      PROVE  EntriesApart'
  BY <1>3 DEF EntriesApart
<1>4. ASSUME NEW s \in Slots, Save(s)
      PROVE  EntriesApart'
  <2>1. /\ UNCHANGED <<mem, origin>>
        /\ job'[s] = Idle \/ (job'[s] = [job[s] EXCEPT !.pc = "mark"] /\ s = Scheduler)
        /\ \A r \in Slots \ {s} : job'[r] = job[r]
    BY <1>4, SaveFacts
  <2>2. job[s] \in Jobs /\ S \in Slots
    BY <1>0 DEF TypeOK, Slots
  <2>3. ~Past(job'[s].pc)
    BY <2>1, <2>2 DEF Idle, Jobs
  <2>4. Past(job'[S].pc) => Past(job[S].pc)
    BY <2>1, <2>2, <2>3
  <2>5. \A t \in Ids : OfEntry(t)' => OfEntry(t)
    BY <2>1 DEF OfEntry, Active
  <2> QED
    BY <1>3, <2>4, <2>5
<1>5. ASSUME NEW t \in Ids, NEW state \in {"completed", "ended"}, Ends(t, state)
      PROVE  EntriesApart'
  <2>1. \A r \in Ids : OfEntry(r)' => OfEntry(r)
    BY <1>5, EndsFacts DEF OfEntry, Active
  <2>2. job' = job
    BY <1>5 DEF Ends
  <2> QED
    BY <1>3, <2>1, <2>2
<1>6. ASSUME NEW t \in Ids, Resolve(t)
      PROVE  EntriesApart'
  <2>1. \A r \in Ids : OfEntry(r)' => OfEntry(r)
    BY <1>6, ResolveFacts DEF OfEntry, Active
  <2>2. job' = job
    BY <1>6 DEF Resolve
  <2> QED
    BY <1>3, <2>1, <2>2
<1>7. CASE Reboot
  <2>1. \A r \in Ids : OfEntry(r)' => OfEntry(r)
    BY <1>7, RebootFacts DEF OfEntry, Active
  <2>2. job'[S] = Idle
    BY <1>7, RebootFacts DEF Slots
  <2> QED
    BY <1>3, <2>1, <2>2 DEF Idle
<1>8. ASSUME Past(job'[S].pc), ~Past(job[S].pc)
      PROVE  Loud \/ \A t \in Ids : ~OfEntry(t)
  <2>1. CASE Scan(S) /\ ~Refuse(S)
    <3>1. job[S].link = "url"
      BY <1>0, <2>1 DEF SlotsFit, Scan, At
    <3>2. \A t \in Ids : Active(t) => mem[t].link # "url"
      BY <2>1, <3>1, ScanSees DEF Slots
    <3>3. \A t \in Ids : OfEntry(t) => origin[t] # None /\ mem[t] # None
      BY <1>0 DEF OfEntry, Active, TasksFit
    <3> QED
      BY <1>0, <3>2, <3>3 DEF LinksFit, OfEntry
  <2>2. CASE job'[S] = job[S]
    BY <1>8, <2>2
  <2>3. CASE job'[S] = Idle
    BY <1>8, <2>3 DEF Idle
  <2>4. CASE \E s \in Slots : Admit(s)
    <3>1. PICK s \in Slots : Admit(s)
      BY <2>4
    <3>2. CASE s = S
      <4>1. job[S].pc \notin {"quota", "again"}
        BY <1>0 DEF SlotsFit
      <4>2. ~CheckQuota(S) /\ ~Lookup(S) /\ ~Insert(S) /\ ~InsertOfPlaylist(S)
        BY <1>8, <4>1 DEF CheckQuota, Lookup, Insert, InsertOfPlaylist, At
      <4>3. CASE Scan(S) /\ Refuse(S)
        BY <1>0, <2>3, <4>3, RefuseType DEF Slots
      <4>4. CASE Save(S)
        BY <4>4 DEF Loud, Slots
      <4> QED
        BY <2>1, <3>1, <3>2, <4>2, <4>3, <4>4 DEF Admit
    <3>3. CASE s # S
      BY <2>2, <3>1, <3>3, AdmitJob DEF Slots
    <3> QED
      BY <3>2, <3>3
  <2>5. ASSUME NEW h \in Handlers, Command(h)
        PROVE  job'[S] = job[S]
    BY <1>0, <2>5, CommandType, AdmissionConstants DEF Begun, TypeOK, Slots
  <2>6. ASSUME NEW e \in Entries, Execute(e)
        PROVE  ~Past(job'[S].pc)
    BY <1>0, <2>6 DEF Execute, TypeOK, Slots
  <2>7. CASE MarkDone \/ MarkFails
    BY <1>0, <2>3, <2>7, RefuseType DEF MarkDone, MarkFails, Slots
  <2>8. CASE Reboot
    BY <2>8 DEF Loud
  <2> QED
    BY <1>8, <2>1, <2>2, <2>4, <2>5, <2>6, <2>7, <2>8
       DEF Next, Step, vars, Schedule, Poll, Finish, Ignore, Cancel, Resolve, Refill
<1> QED
  BY <1>1, <1>2, <1>4, <1>5, <1>6, <1>7, <1>8, StepKinds DEF Loud

LEMMA InitEntries == Init => EntriesApart
  BY DEF Init, EntriesApart, OfEntry, Active, Idle, Slots

\* A scheduled task runs once at a time, although a crash or a failed statement between
\* its creation and the mark has the scheduler create it again: the scan meets the first.
THEOREM EntriesNeverDouble == Spec => []EntryRunsOnceAtATime
<1>1. EntriesApart => EntryRunsOnceAtATime
  BY DEF EntriesApart, EntryRunsOnceAtATime, OfEntry
<1> QED
  BY <1>1, InitFit, StepFit, InitEntries, StepEntries, PTL DEF Spec

-----------------------------------------------------------------------------
(***************************************************************************)
(* The quota.                                                              *)
(***************************************************************************)
LEMMA IdsFinite == IsFiniteSet(Ids)
<1>1. Cardinality(Entries) \in Nat /\ MaxCommands \in Nat /\ MaxMishaps \in Nat
  BY FS_CardinalityType, AdmissionConstants
<1>2. MaxCommands + Cardinality(Entries) * (1 + MaxMishaps) \in Int
  BY <1>1
<1> QED
  BY <1>2, FS_Interval DEF Ids

\* The goroutines that carry a counted task of u to its row.
Savers(u) ==
    {h \in Handlers : job[h].pc = "save" /\ job[h].user = u /\ job[h].how \in Counted}

\* Both sets are finite, and so are parts of the goroutines.
LEMMA SetsFinite ==
  ASSUME NEW u
  PROVE  /\ IsFiniteSet(Charged(u)) /\ Cardinality(Charged(u)) \in Nat
         /\ IsFiniteSet(Pending(u)) /\ Cardinality(Pending(u)) \in Nat
         /\ IsFiniteSet(Savers(u)) /\ Cardinality(Savers(u)) \in Nat
         /\ Cardinality(Handlers) \in Nat
<1>1. Charged(u) \in SUBSET Ids /\ Pending(u) \in SUBSET Handlers /\ Savers(u) \in SUBSET Handlers
  BY DEF Charged, Pending, Savers
<1> QED
  BY <1>1, IdsFinite, FS_Subset, FS_CardinalityType, AdmissionConstants

\* What counts is in the table already, or a goroutine carries it there.
LEMMA ChargedBySavers ==
  ASSUME Fit, NEW u \in Users
  PROVE  Cardinality(Charged(u)) <= TodaysTasks(u) + Cardinality(Savers(u))
<1>0. JobsFit /\ SlotsFit /\ TasksFit
  BY DEF Fit
<1> DEFINE D == {t \in Ids : row[t] # None /\ row[t].user = u}
           f == [h \in Savers(u) |-> job[h].id]
           C == {job[h].id : h \in Savers(u)}
<1>1. Charged(u) \subseteq D \cup C
  <2> SUFFICES ASSUME NEW t \in Charged(u), t \notin D PROVE t \in C
    OBVIOUS
  <2>1. /\ t \in Ids /\ origin[t].user = u /\ origin[t].how \in Counted /\ Written(t)
    BY DEF Charged
  <2>2. row[t] = None
    BY <1>0, <2>1 DEF TasksFit
  <2>3. PICK s \in Slots : job[s].pc = "save" /\ job[s].id = t
    BY <2>1, <2>2 DEF Written
  <2>4. job[s].user = u /\ job[s].how \in Counted
    BY <1>0, <2>1, <2>3 DEF JobsFit
  <2>5. s # Scheduler
    BY <1>0, <2>3, <2>4 DEF SlotsFit, Counted
  <2>6. s \in Savers(u)
    BY <2>3, <2>4, <2>5 DEF Savers, Slots
  <2> QED
    BY <2>3, <2>6
<1>2. f \in Surjection(Savers(u), C)
  BY DEF Surjection
<1>3. IsFiniteSet(C) /\ Cardinality(C) <= Cardinality(Savers(u))
  BY <1>2, SetsFinite, FS_Surjection
<1>4. IsFiniteSet(D) /\ Cardinality(D) = TodaysTasks(u)
  BY IdsFinite, FS_Subset DEF TodaysTasks
<1> HIDE DEF C, D, f
<1>5. /\ IsFiniteSet(D \cup C)
      /\ Cardinality(D \cup C) = Cardinality(D) + Cardinality(C) - Cardinality(D \cap C)
  BY <1>3, <1>4, FS_Union
<1>6. Cardinality(D \cap C) \in Nat
  <2>1. D \cap C \in SUBSET D
    OBVIOUS
  <2> QED
    BY <1>4, <2>1, FS_Subset, FS_CardinalityType
<1>7. Cardinality(Charged(u)) <= Cardinality(D \cup C)
  BY <1>1, <1>5, FS_Subset
<1>8. /\ Cardinality(D) \in Nat /\ Cardinality(C) \in Nat
      /\ Cardinality(Charged(u)) \in Nat /\ Cardinality(Savers(u)) \in Nat
  BY <1>3, <1>4, SetsFinite, FS_CardinalityType
<1> QED
  BY <1>3, <1>4, <1>5, <1>6, <1>7, <1>8

\* A step that charges nothing new and lets nobody past the quota.
LEMMA ChargesShrink ==
  ASSUME NEW u, Charged(u)' \subseteq Charged(u), Pending(u)' \subseteq Pending(u)
  PROVE  Cardinality(Charged(u))' + Cardinality(Pending(u))' <= Cardinality(Charged(u)) + Cardinality(Pending(u))
<1>1. Cardinality(Charged(u)') <= Cardinality(Charged(u)) /\ Cardinality(Charged(u)') \in Nat
  BY SetsFinite, FS_Subset, FS_CardinalityType
<1>2. Cardinality(Pending(u)') <= Cardinality(Pending(u)) /\ Cardinality(Pending(u)') \in Nat
  BY SetsFinite, FS_Subset, FS_CardinalityType
<1> QED
  BY <1>1, <1>2, SetsFinite

\* Whoever gets past the look at the quota finds fewer tasks than the limit.
LEMMA PassersFindRoom ==
  ASSUME Fit, Quiet, [Next]_vars, NEW u \in Users, rank[u] # "owner",
         NEW h \in Handlers, h \in Pending(u)', h \notin Pending(u)
  PROVE  TodaysTasks(u) < DailyLimit
<1>0. TypeOK /\ SlotsFit /\ h \in Slots
  BY DEF Fit, Slots
<1>1. job'[h].pc \in {"scan", "lookup", "insert"} /\ job'[h].user = u /\ job'[h].how \in Counted
  BY DEF Pending
<1>2. job'[h] # job[h] /\ job'[h] # Idle
  BY <1>1 DEF Pending, Idle
<1>3. ASSUME NEW g \in Handlers, Command(g)
      PROVE  FALSE
  <2>1. PICK v \in Users, l \in Link, how \in Ways, p \in {"quota", "scan", "insert"} :
          /\ p = "insert" => how \in OfPlaylist
          /\ p = "scan" => how \notin Counted
          /\ job' = [job EXCEPT ![g] = [pc |-> p, user |-> v, link |-> l, how |-> how,
                                       id |-> None, entry |-> None, saw |-> {}]]
    BY <1>0, <1>3, CommandType DEF Begun
  <2>2. g = h /\ job'[h] = [pc |-> p, user |-> v, link |-> l, how |-> how,
                            id |-> None, entry |-> None, saw |-> {}]
    BY <1>0, <1>2, <2>1 DEF TypeOK
  <2>3. job'[h].pc = p /\ job'[h].how = how
    BY <2>2
  <2> QED
    BY <1>1, <2>1, <2>3 DEF OfPlaylist, Counted
<1>4. ASSUME NEW s \in Slots, Admit(s)
      PROVE  TodaysTasks(u) < DailyLimit
  <2>1. s = h /\ Carries(h)
    BY <1>0, <1>2, <1>4, AdmitJob
  <2>2. job[h].user = u /\ job[h].how \in Counted
    BY <1>1, <2>1 DEF Carries
  <2>3. job[h].pc \notin {"scan", "lookup", "insert"}
    BY <2>2 DEF Pending
  <2>4. CheckQuota(h) \/ Save(h)
    BY <1>4, <2>1, <2>3 DEF Admit, Scan, Lookup, Insert, InsertOfPlaylist, At
  <2>5. ~Save(h)
    BY <1>1, <1>2 DEF Quiet, Slots, Save, At
  <2>6. WithinQuota(u)
    BY <1>0, <1>2, <2>2, <2>4, <2>5, RefuseType DEF CheckQuota
  <2> QED
    BY <2>6 DEF WithinQuota
<1>5. CASE job' = job
  BY <1>2, <1>5
<1>6. ASSUME NEW e \in Entries, Execute(e)
      PROVE  FALSE
  BY <1>0, <1>2, <1>6, AdmissionConstants DEF Execute, TypeOK
<1>7. CASE MarkDone \/ MarkFails
  BY <1>0, <1>2, <1>7, AdmissionConstants DEF MarkDone, MarkFails, Refuse, TypeOK
<1>8. CASE Reboot
  BY <1>0, <1>2, <1>8 DEF Reboot
<1> QED
  BY <1>3, <1>4, <1>5, <1>6, <1>7, <1>8
     DEF Next, Step, vars, Schedule, Poll, Finish, Ignore, Cancel, Resolve, Refill

LEMMA StepCharges == Fit /\ ChargesBounded /\ [Next]_vars => ChargesBounded'
<1> SUFFICES ASSUME Fit, ChargesBounded, [Next]_vars PROVE ChargesBounded'
  OBVIOUS
<1>rank. rank' = rank
  BY DEF Next, vars
<1> SUFFICES ASSUME NEW u \in Users, rank[u] # "owner", DailyLimit > 0
             PROVE  Cardinality(Charged(u))' + Cardinality(Pending(u))'
                      <= DailyLimit + Cardinality(Handlers) - 1
  BY <1>rank DEF ChargesBounded
<1> DEFINE Goal == Cardinality(Charged(u))' + Cardinality(Pending(u))'
                     <= DailyLimit + Cardinality(Handlers) - 1
<1>0. TypeOK /\ JobsFit /\ SlotsFit /\ TasksFit
  BY DEF Fit
<1>1. Cardinality(Charged(u)) + Cardinality(Pending(u)) <= DailyLimit + Cardinality(Handlers) - 1
  BY DEF ChargesBounded
<1>2. DailyLimit \in Nat
  BY AdmissionConstants
<1>3. ASSUME Charged(u)' \subseteq Charged(u), Pending(u)' \subseteq Pending(u)
      PROVE  Goal
  <2>1. /\ Cardinality(Charged(u))' \in Nat /\ Cardinality(Pending(u))' \in Nat
        /\ Cardinality(Charged(u)) \in Nat /\ Cardinality(Pending(u)) \in Nat
        /\ Cardinality(Handlers) \in Nat
    <3>1. Charged(u)' \in SUBSET Charged(u) /\ Pending(u)' \in SUBSET Pending(u)
      BY <1>3
    <3> QED
      BY <3>1, SetsFinite, FS_Subset, FS_CardinalityType
  <2>2. Cardinality(Charged(u))' + Cardinality(Pending(u))' <= Cardinality(Charged(u)) + Cardinality(Pending(u))
    BY <1>3, ChargesShrink
  <2> QED
    BY <1>1, <1>2, <2>1, <2>2
<1>4. CASE Quiet
  <2>1. Charged(u)' = Charged(u) /\ Savers(u)' = Savers(u)
    BY <1>4 DEF Quiet, Charged, Savers, Written, Slots
  <2>2. CASE Pending(u)' \subseteq Pending(u)
    BY <1>3, <2>1, <2>2
  <2>3. CASE ~(Pending(u)' \subseteq Pending(u))
    <3>1. PICK h \in Handlers : h \in Pending(u)' /\ h \notin Pending(u)
      BY <2>3 DEF Pending
    <3>2. TodaysTasks(u) < DailyLimit
      BY <1>4, <3>1, PassersFindRoom
    <3>3. Cardinality(Charged(u)) <= TodaysTasks(u) + Cardinality(Savers(u))
      BY ChargedBySavers
    <3>4. Savers(u) \cap Pending(u)' = {} /\ Savers(u) \cup Pending(u)' \in SUBSET Handlers
      <4>1. Savers(u)' \cap Pending(u)' = {}
        BY DEF Savers, Pending
      <4> QED
        BY <2>1, <4>1 DEF Savers, Pending
    <3> DEFINE P == Pending(u)'
    <3>5. P \in SUBSET Handlers
      BY DEF Pending
    <3> HIDE DEF P
    <3>6. IsFiniteSet(P) /\ Cardinality(P) \in Nat
      BY <3>5, FS_Subset, FS_CardinalityType, AdmissionConstants
    <3>7. Cardinality(Savers(u) \cup P) = Cardinality(Savers(u)) + Cardinality(P)
      <4>1. Savers(u) \cap P = {} /\ IsFiniteSet(Savers(u))
        BY <3>4, SetsFinite DEF P
      <4>2. Cardinality(Savers(u) \cup P) = Cardinality(Savers(u)) + Cardinality(P) - Cardinality(Savers(u) \cap P)
        BY <3>6, <4>1, FS_Union
      <4>3. Cardinality(Savers(u)) \in Nat
        BY SetsFinite
      <4>4. Cardinality(Savers(u) \cap P) = 0
        BY <4>1, FS_EmptySet
      <4> QED
        BY <3>6, <4>2, <4>3, <4>4
    <3>8. Cardinality(Savers(u) \cup P) <= Cardinality(Handlers)
      BY <3>4, FS_Subset, AdmissionConstants DEF P
    <3>9. TodaysTasks(u) \in Nat
      <4>1. {t \in Ids : row[t] # None /\ row[t].user = u} \in SUBSET Ids
        OBVIOUS
      <4> QED
        BY <4>1, IdsFinite, FS_Subset, FS_CardinalityType DEF TodaysTasks
    <3>10. Cardinality(Charged(u)) + Cardinality(P) <= DailyLimit + Cardinality(Handlers) - 1
      BY <1>2, <3>2, <3>3, <3>6, <3>7, <3>8, <3>9, SetsFinite
    <3> QED
      BY <2>1, <3>10 DEF P
  <2> QED
    BY <2>2, <2>3
<1>5. ASSUME NEW s \in Slots, Insert(s) \/ InsertOfPlaylist(s), Put(s)
      PROVE  Goal
  <2>1. PICK n \in Ids :
          /\ origin'[n].user = job[s].user /\ origin'[n].how = job[s].how
          /\ \A t \in Ids \ {n} : mem'[t] = mem[t] /\ origin'[t] = origin[t]
          /\ job[s].pc = "insert" /\ job'[s].pc = "save" /\ job'[s].id = n
          /\ \A r \in Slots \ {s} : job'[r] = job[r]
          /\ row' = row
    BY <1>5, PutFacts
  <2>2. Pending(u)' \subseteq Pending(u) \ {s}
    BY <2>1 DEF Pending, Slots
  <2>3. Charged(u)' \subseteq Charged(u) \cup {n}
    BY <2>1 DEF Charged, Written
  <2>4. CASE n \notin Charged(u)'
    BY <1>3, <2>2, <2>3, <2>4
  <2>5. CASE n \in Charged(u)'
    <3>1. job[s].user = u /\ job[s].how \in Counted
      BY <2>1, <2>5 DEF Charged
    <3>2. s \in Pending(u)
      BY <1>0, <2>1, <3>1 DEF Pending, SlotsFit, Slots, Counted
    <3> DEFINE C == Charged(u)'
               P == Pending(u)'
    <3>3. C \in SUBSET (Charged(u) \cup {n}) /\ P \in SUBSET (Pending(u) \ {s})
      BY <2>2, <2>3
    <3> HIDE DEF C, P
    <3>4. /\ IsFiniteSet(Charged(u) \cup {n})
          /\ Cardinality(Charged(u) \cup {n}) <= Cardinality(Charged(u)) + 1
          /\ Cardinality(Charged(u) \cup {n}) \in Nat
      <4>1. IsFiniteSet(Charged(u)) /\ Cardinality(Charged(u)) \in Nat
        BY SetsFinite
      <4>2. /\ IsFiniteSet(Charged(u) \cup {n})
            /\ \/ Cardinality(Charged(u) \cup {n}) = Cardinality(Charged(u))
               \/ Cardinality(Charged(u) \cup {n}) = Cardinality(Charged(u)) + 1
        BY <4>1, FS_AddElement
      <4> QED
        BY <4>1, <4>2
    <3>5. /\ IsFiniteSet(Pending(u) \ {s})
          /\ Cardinality(Pending(u) \ {s}) = Cardinality(Pending(u)) - 1
          /\ Cardinality(Pending(u) \ {s}) \in Nat
      BY <3>2, SetsFinite, FS_RemoveElement, FS_CardinalityType
    <3>6. /\ Cardinality(C) <= Cardinality(Charged(u) \cup {n}) /\ Cardinality(C) \in Nat
          /\ Cardinality(P) <= Cardinality(Pending(u) \ {s}) /\ Cardinality(P) \in Nat
      BY <3>3, <3>4, <3>5, FS_Subset, FS_CardinalityType
    <3>7. Cardinality(C) + Cardinality(P) <= DailyLimit + Cardinality(Handlers) - 1
      BY <1>1, <1>2, <3>4, <3>5, <3>6, SetsFinite
    <3> QED
      BY <3>7 DEF C, P
  <2> QED
    BY <2>4, <2>5
<1>6. ASSUME NEW s \in Slots, Save(s)
      PROVE  Goal
  <2>1. /\ job[s].id \in Ids /\ job[s].pc = "save"
        /\ \A t \in Ids \ {job[s].id} : row'[t] = row[t]
        /\ job'[s] = Idle \/ (job'[s] = [job[s] EXCEPT !.pc = "mark"] /\ s = Scheduler)
        /\ \A r \in Slots \ {s} : job'[r] = job[r]
        /\ origin' = origin
    BY <1>6, SaveFacts
  <2>2. job'[s].pc \in {"idle", "mark"}
    BY <1>0, <2>1 DEF TypeOK, Jobs, Idle
  <2>3. Charged(u)' \subseteq Charged(u)
    BY <2>1, <2>2 DEF Charged, Written
  <2>4. Pending(u)' \subseteq Pending(u)
    BY <2>1, <2>2 DEF Pending, Slots
  <2> QED
    BY <1>3, <2>3, <2>4
<1>7. ASSUME NEW t \in Ids, NEW state \in {"completed", "ended"}, Ends(t, state)
      PROVE  Goal
  <2>1. /\ mem[t] # None /\ \A r \in Ids \ {t} : row'[r] = row[r]
        /\ UNCHANGED <<job, origin>>
    BY <1>7, EndsFacts
  <2>2. Charged(u)' \subseteq Charged(u)
    BY <1>0, <2>1 DEF Charged, Written, TasksFit
  <2>3. Pending(u)' \subseteq Pending(u)
    BY <2>1 DEF Pending
  <2> QED
    BY <1>3, <2>2, <2>3
<1>8. ASSUME NEW t \in Ids, Resolve(t)
      PROVE  Goal
  <2>1. Charged(u)' \subseteq Charged(u) /\ Pending(u)' \subseteq Pending(u)
    BY <1>8 DEF Resolve, Charged, Written, Pending
  <2> QED
    BY <1>3, <2>1
<1>9. CASE Reboot
  <2>1. UNCHANGED <<row, origin>> /\ \A s \in Slots : job'[s] = Idle
    BY <1>9, RebootFacts
  <2>2. Charged(u)' \subseteq Charged(u) /\ Pending(u)' \subseteq Pending(u)
    BY <2>1 DEF Charged, Written, Pending, Idle, Slots
  <2> QED
    BY <1>3, <2>2
<1> QED
  BY <1>4, <1>5, <1>6, <1>7, <1>8, <1>9, StepKinds DEF Loud

LEMMA InitCharges == Init => ChargesBounded
<1> SUFFICES ASSUME Init, NEW u \in Users, DailyLimit > 0
             PROVE  Cardinality(Charged(u)) + Cardinality(Pending(u))
                      <= DailyLimit + Cardinality(Handlers) - 1
  BY DEF ChargesBounded
<1>1. Charged(u) = {} /\ Pending(u) = {}
  BY DEF Init, Charged, Pending, Idle, Slots
<1>2. DailyLimit \in Nat /\ Cardinality(Handlers) \in Nat
  BY FS_CardinalityType, AdmissionConstants
<1> QED
  BY <1>1, <1>2, FS_EmptySet

\* The daily limit: however commands race with each other, with tasks that end and with
\* restarts, those that look at the quota exceed it by at most one task for each further
\* goroutine.
THEOREM QuotaKept == Spec => []QuotaHolds
<1>1. Fit /\ ChargesBounded => QuotaHolds
  <2> SUFFICES ASSUME Fit, ChargesBounded, NEW u \in Users, rank[u] # "owner", DailyLimit > 0
               PROVE  Cardinality(Made(u, Counted)) <= DailyLimit + Cardinality(Handlers) - 1
    BY DEF QuotaHolds
  <2>1. Made(u, Counted) \in SUBSET Charged(u)
    BY DEF Fit, TasksFit, Made, Charged, Written
  <2>2. /\ Cardinality(Made(u, Counted)) <= Cardinality(Charged(u))
        /\ Cardinality(Made(u, Counted)) \in Nat
    BY <2>1, SetsFinite, FS_Subset, FS_CardinalityType
  <2>3. Cardinality(Charged(u)) + Cardinality(Pending(u)) <= DailyLimit + Cardinality(Handlers) - 1
    BY DEF ChargesBounded
  <2> QED
    BY <2>2, <2>3, SetsFinite, AdmissionConstants
<1> QED
  BY <1>1, InitFit, StepFit, InitCharges, StepCharges, PTL DEF Spec
=============================================================================
