-------------------------- MODULE DashboardProofs ---------------------------
(***************************************************************************)
(* Proofs about the status message of a chat (Dashboard), for any number   *)
(* of goroutines, changes, failures and mishaps.                           *)
(***************************************************************************)
EXTENDS Dashboard, TLAPS

USE DashboardConstants DEF Gone, Media

\* What the constants are.
LEMMA Bounds == MaxMsgs \in Nat /\ None \notin Actors /\ Ticker \in Actors
  BY DEF MaxMsgs, Actors

\* The tracked message is a message or none.
LEMMA TrackedIsMessage == ASSUME TypeOK PROVE Tracked \in Message
  BY Bounds DEF TypeOK, Tracked, Message

\* What gets lost is a message.
LEMMA LostGrows ==
    ASSUME NEW m \in 0..MaxMsgs, m # 0, lost \subseteq 1..MaxMsgs, lost' = lost \cup {m}
    PROVE  lost' \subseteq 1..MaxMsgs
<1>1. m \in 1..MaxMsgs
  BY Bounds
<1> QED
  BY <1>1, Zenon

\* The first state has the types.
LEMMA TypeInit == Init => TypeOK
<1> SUFFICES ASSUME Init PROVE TypeOK
  OBVIOUS
<1>1. Idle \in Update
  BY Bounds DEF Idle, Update, Places, Message, Text
<1>2. upd \in [Actors -> Update]
  BY <1>1 DEF Init
<1>3. shows \in [1..MaxMsgs -> Media..MaxChanges]
  BY DEF Init
<1>4. recent \in BOOLEAN /\ sweep \in BOOLEAN /\ forgot \in BOOLEAN /\ batched \in BOOLEAN
  BY Zenon DEF Init
<1> QED
  BY <1>2, <1>3, <1>4, Bounds DEF Init, TypeOK, Message, Text

\* The flags, apart from the figures.
flags == <<batched, recent, sweep, forgot>>
Flags == batched \in BOOLEAN /\ recent \in BOOLEAN /\ sweep \in BOOLEAN /\ forgot \in BOOLEAN

LEMMA NextKeepsFlags == ASSUME TypeOK, [Next]_vars PROVE Flags'
<1> USE DEF Flags, TypeOK
<1>1. ASSUME NEW u \in Actors, Step(u) PROVE Flags'
  <2>1. CASE Clear(u)
    BY <2>1, Zenon DEF Clear, work, tidy
  <2>2. CASE Throttle(u)
    BY <2>2, Zenon DEF Throttle, work, tidy
  <2>3. CASE UNCHANGED flags
    BY <2>3, Zenon DEF flags
  <2>4. Step(u) => Clear(u) \/ Throttle(u) \/ UNCHANGED flags
    BY Zenon DEF Step, LockStatus, CountWork, LockSend, Fetch, SkipSame, DeleteOld, Edit,
       EditFails, Edited, Post, PostFails, Record, Store, work, maps, tidy, flags
  <2> QED
    BY <1>1, <2>1, <2>2, <2>3, <2>4
<1>2. CASE TimePasses
  BY <1>2, Zenon DEF TimePasses, work, tidy
<1>3. CASE SweepLooks
  BY <1>3, Zenon DEF SweepLooks, work, maps
<1>4. CASE Sweep
  BY <1>4, Zenon DEF Sweep, work
<1>5. CASE Crash
  BY <1>5, Zenon DEF Crash, work
<1>6. CASE UNCHANGED flags
  BY <1>6, Zenon DEF flags
<1>7. ASSUME NEW u \in Updaters, Call(u) \/ TryCall(u) PROVE Flags'
  BY <1>7, Zenon DEF Call, TryCall, work, maps
<1>8. ASSUME NEW m \in DOMAIN shows, UserDeletes(m) PROVE Flags'
  BY <1>8, Zenon DEF UserDeletes, work, maps, tidy
<1>9. CASE Change
  <2>1. batched' = FALSE \/ batched' \in BOOLEAN
    BY <1>9, Zenon DEF Change
  <2> QED
    BY <1>9, <2>1, Zenon DEF Change, maps, tidy
<1>10. Tick \/ MediaButton \/ UNCHANGED vars => UNCHANGED flags
  BY Zenon DEF Tick, MediaButton, vars, work, maps, tidy, flags
<1> QED
  BY <1>1, <1>2, <1>3, <1>4, <1>5, <1>6, <1>7, <1>8, <1>9, <1>10 DEF Next

\* A goroutine's own steps.
LEMMA StepKeepsType ==
    ASSUME TypeOK, Flags', NEW u \in Actors, Step(u)
    PROVE  TypeOK'
<1> USE Bounds DEF Flags
<1>u. upd \in [Actors -> Update] /\ upd[u] \in Update
  BY DEF TypeOK
<1>o. upd[u].msg \in Message /\ upd[u].text \in Text /\ upd[u].count \in 0..2
  BY <1>u DEF Update
<1>y. /\ lost \subseteq 1..MaxMsgs /\ faults \in 0..MaxFaults
      /\ shows \in [1..MaxMsgs -> Media..MaxChanges]
  BY DEF TypeOK
<1>i. Idle \in Update
  BY DEF Idle, Update, Places, Message, Text
<1>t. Tracked \in Message
  BY TrackedIsMessage
<1>1. CASE LockStatus(u)
  BY <1>1, <1>u DEF LockStatus, At, Goto, TypeOK, Places, Update, work, maps, chat, bounds, tidy
<1>2. CASE CountWork(u)
  <2>1. Total \in 0..2
    BY DEF TypeOK, Total
  <2>2. stamp \in Text
    BY DEF TypeOK, Text
  <2>3. upd' \in [Actors -> Update]
    BY <1>2, <1>u, <2>1, <2>2 DEF CountWork, Update, Places
  <2> QED
    BY <1>2, <2>3 DEF CountWork, TypeOK, Text, Message, work, maps, chat, locks, bounds, tidy
<1>3. CASE Clear(u)
  <2>1. upd' \in [Actors -> Update]
    BY <1>3, <1>u, <1>i DEF Clear, Return
  <2>2. shows' \in [1..MaxMsgs -> Media..MaxChanges]
    BY <1>3, <1>t DEF Clear, TypeOK, Message
  <2>3. \/ lost' = lost /\ faults' = faults
        \/ lost' = lost \cup {Tracked} /\ Tracked # 0 /\ faults < MaxFaults /\ faults' = faults + 1
    BY <1>3, Zenon DEF Clear, There, Fault
  <2>4. lost' \subseteq 1..MaxMsgs
    BY <2>3, <1>t, <1>y, LostGrows DEF Message
  <2>5. faults' \in 0..MaxFaults
    BY <2>3, <1>y
  <2>6. \/ lastMsg' = lastMsg /\ lastText' = lastText /\ stored' = stored
        \/ lastMsg' = 0 /\ lastText' = Gone /\ stored' = 0
    BY <1>3, Zenon DEF Clear
  <2>7. lastMsg' \in Message /\ lastText' \in Text /\ stored' \in Message
    BY <2>6 DEF TypeOK, Message, Text
  <2> QED
    BY <1>3, <2>1, <2>2, <2>4, <2>5, <2>7 DEF Clear, TypeOK, work, tidy
<1>4. CASE Throttle(u)
  <2>1. upd' \in [Actors -> Update]
    BY <1>4, <1>u, <1>i DEF Throttle, Goto, Return, Update, Places
  <2>2. lastCount' \in 0..2
    BY <1>4, <1>u DEF Throttle, TypeOK, Update
  <2>3. recent' \in BOOLEAN
    BY <1>4, ZenonT(30) DEF Throttle, TypeOK
  <2> QED
    BY <1>4, <2>1, <2>2, <2>3 DEF Throttle, TypeOK, Text, Message, work, chat, bounds, tidy
<1>5. CASE LockSend(u)
  <2>1. upd' \in [Actors -> Update]
    BY <1>5, <1>u DEF LockSend, TypeOK, Update, Places, Message
  <2> QED
    BY <1>5, <2>1 DEF LockSend, TypeOK, Text, Message, work, maps, chat, bounds, tidy
<1>6. CASE Fetch(u)
  <2>1. upd' \in [Actors -> Update]
    BY <1>6, <1>u DEF Fetch, TypeOK, Update, Places, Message, chat
  <2> QED
    BY <1>6, <2>1 DEF Fetch, TypeOK, Text, Message, work, chat, locks, bounds, tidy
<1>7. CASE SkipSame(u)
  <2>1. upd' \in [Actors -> Update]
    BY <1>7, <1>u, <1>i DEF SkipSame, Return
  <2> QED
    BY <1>7, <2>1 DEF SkipSame, TypeOK, Text, Message, work, maps, chat, bounds, tidy
<1>8. CASE DeleteOld(u)
  <2>1. upd' \in [Actors -> Update]
    BY <1>8, <1>u DEF DeleteOld, Goto, Update, Places
  <2>2. shows' = shows \/ shows' = [shows EXCEPT ![upd[u].msg] = Gone]
    BY <1>8, Zenon DEF DeleteOld
  <2>3. shows' \in [1..MaxMsgs -> Media..MaxChanges]
    BY <2>2 DEF TypeOK
  <2>4. \/ lost' = lost /\ faults' = faults
        \/ lost' = lost \cup {upd[u].msg} /\ faults < MaxFaults /\ faults' = faults + 1
    BY <1>8, Zenon DEF DeleteOld, Fault
  <2>5. upd[u].msg \in 1..MaxMsgs
    BY <1>8, <1>u DEF DeleteOld, Update, Message
  <2>6. lost' \subseteq 1..MaxMsgs
    BY <2>4, <2>5, <1>o, <1>y, LostGrows DEF Message
  <2>7. faults' \in 0..MaxFaults
    BY <2>4, <1>y
  <2> QED
    BY <1>8, <2>1, <2>3, <2>6, <2>7 DEF DeleteOld, TypeOK, Text, Message, work, locks, tidy
<1>9. CASE Edit(u)
  <2>1. upd' \in [Actors -> Update]
    BY <1>9, <1>u DEF Edit, Goto, Update, Places
  <2>2. shows' \in [1..MaxMsgs -> Media..MaxChanges]
    BY <1>9, <1>u DEF Edit, TypeOK, Update, Message, Text
  <2> QED
    BY <1>9, <2>1, <2>2 DEF Edit, TypeOK, Text, Message, work, maps, locks, bounds, tidy
<1>10. CASE EditFails(u)
  <2>1. upd' \in [Actors -> Update]
    BY <1>10, <1>u DEF EditFails, Goto, Update, Places
  <2>2. \/ lost' = lost /\ faults' = faults
        \/ lost' = lost \cup {upd[u].msg} /\ faults < MaxFaults /\ faults' = faults + 1
    BY <1>10, Zenon DEF EditFails, Fault
  <2>3. upd[u].msg \in 1..MaxMsgs
    BY <1>10, <1>u DEF EditFails, Update, Message
  <2>4. lost' \subseteq 1..MaxMsgs
    BY <2>2, <2>3, <1>o, <1>y, LostGrows DEF Message
  <2>5. faults' \in 0..MaxFaults
    BY <2>2, <1>y
  <2> QED
    BY <1>10, <2>1, <2>4, <2>5 DEF EditFails, TypeOK, Text, Message, work, maps, chat, locks, tidy
<1>11. CASE Edited(u)
  <2>1. upd' \in [Actors -> Update]
    BY <1>11, <1>u, <1>i DEF Edited, Return
  <2> QED
    BY <1>11, <1>o, <2>1 DEF Edited, TypeOK, Text, Message, work, chat, bounds, tidy
<1>12. CASE Post(u)
  <2>1. upd' \in [Actors -> Update]
    <3>1. sent + 1 \in Message
      BY <1>12 DEF Post, TypeOK, Message
    <3>2. [upd[u] EXCEPT !.pc = "record", !.msg = sent + 1] \in Update
      BY <1>u, <3>1 DEF Update, Places
    <3>3. upd' = [upd EXCEPT ![u] = [upd[u] EXCEPT !.pc = "record", !.msg = sent + 1]]
      BY <1>12, <1>u DEF Post, Update
    <3> QED
      BY <1>u, <3>2, <3>3
  <2>2. shows' \in [1..MaxMsgs -> Media..MaxChanges]
    <3>1. upd[u].text \in Media..MaxChanges
      BY <1>o DEF Text
    <3>2. shows' = [shows EXCEPT ![sent + 1] = upd[u].text]
      BY <1>12 DEF Post
    <3> QED
      BY <3>1, <3>2, <1>y
  <2> QED
    BY <1>12, <2>1, <2>2 DEF Post, TypeOK, Text, Message, work, maps, locks, bounds, tidy
<1>13. CASE PostFails(u)
  <2>1. upd' \in [Actors -> Update]
    BY <1>13, <1>u, <1>i DEF PostFails, Return
  <2>2. \/ shows' = shows /\ sent' = sent /\ lost' = lost
        \/ /\ sent < MaxMsgs /\ sent' = sent + 1 /\ lost' = lost \cup {sent + 1}
           /\ shows' = [shows EXCEPT ![sent + 1] = upd[u].text]
    BY <1>13, Zenon DEF PostFails
  <2>3. sent \in 0..MaxMsgs
    BY DEF TypeOK, Message
  <2>4. sent' \in Message /\ shows' \in [1..MaxMsgs -> Media..MaxChanges]
    BY <2>2, <2>3, <1>o, <1>y DEF Message, Text
  <2>5. lost' \subseteq 1..MaxMsgs
    <3>1. sent < MaxMsgs => sent + 1 \in 0..MaxMsgs /\ sent + 1 # 0
      BY <2>3
    <3> QED
      BY <2>2, <3>1, <1>y, LostGrows
  <2> QED
    BY <1>13, <2>1, <2>4, <2>5 DEF PostFails, Fault, TypeOK, Text, Message, work, maps, tidy
<1>14. CASE Record(u)
  <2>1. upd' \in [Actors -> Update]
    BY <1>14, <1>u DEF Record, Goto, Update, Places
  <2> QED
    BY <1>14, <1>o, <2>1 DEF Record, TypeOK, Text, Message, work, chat, locks, bounds, tidy
<1>15. CASE Store(u)
  <2>1. upd' \in [Actors -> Update]
    BY <1>15, <1>u, <1>i DEF Store, Return
  <2>2. stored' \in 0..MaxMsgs /\ faults' \in 0..MaxFaults
    BY <1>15, <1>u DEF Store, Fault, TypeOK, Update, Message
  <2> QED
    BY <1>15, <1>o, <2>1, <2>2 DEF Store, TypeOK, Text, Message, work, tidy
<1> QED
  BY <1>1, <1>2, <1>3, <1>4, <1>5, <1>6, <1>7, <1>8, <1>9, <1>10, <1>11, <1>12, <1>13,
     <1>14, <1>15 DEF Step

\* Every step keeps them.
LEMMA NextKeepsType == TypeOK /\ [Next]_vars => TypeOK'
<1> SUFFICES ASSUME TypeOK, [Next]_vars PROVE TypeOK'
  OBVIOUS
<1> USE Bounds DEF Flags
<1>f. Flags'
  BY NextKeepsFlags
<1>u. upd \in [Actors -> Update]
  BY DEF TypeOK
<1>1. CASE Change
  BY <1>1, <1>f DEF Change, TypeOK, maps, chat, locks, bounds, tidy
<1>2. CASE Tick
  BY <1>2, <1>u DEF Tick, At, Goto, TypeOK, Update, Places, work, maps, chat, locks, bounds, tidy
<1>3. CASE TimePasses
  BY <1>3 DEF TimePasses, TypeOK, work, chat, locks, bounds, tidy
<1>4. ASSUME NEW u \in Updaters, Call(u) PROVE TypeOK'
  <2>1. upd' \in [Actors -> Update]
    <3>1. u \in Actors /\ upd[u] \in Update
      BY <1>u DEF Actors
    <3>2. PICK force \in BOOLEAN :
            upd' = [upd EXCEPT ![u] = [upd[u] EXCEPT !.pc = "lock", !.force = force]]
      BY <1>4, <1>u, <3>1 DEF Call, Update
    <3>3. [upd[u] EXCEPT !.pc = "lock", !.force = force] \in Update
      BY <3>1 DEF Update, Places
    <3> QED
      BY <1>u, <3>1, <3>2, <3>3
  <2> QED
    BY <1>4, <1>f, <2>1 DEF Call, TypeOK, Text, Message, work, maps, chat, locks, tidy
<1>5. ASSUME NEW u \in Updaters, TryCall(u) PROVE TypeOK'
  <2>1. upd' \in [Actors -> Update]
    BY <1>5, <1>u DEF TryCall, Goto, Update, Places, Actors
  <2>2. u \in Actors
    BY DEF Actors
  <2> QED
    BY <1>5, <1>f, <2>1, <2>2 DEF TryCall, TypeOK, Text, Message, work, maps, chat, tidy
<1>6. ASSUME NEW u \in Actors, Step(u) PROVE TypeOK'
  BY <1>6, <1>f, StepKeepsType
<1>7. CASE SweepLooks
  BY <1>7 DEF SweepLooks, Mishap, TypeOK, work, maps, chat, locks, tidy
<1>8. CASE Sweep
  <2>1. lost' = lost \/ (lost' = lost \cup {lastMsg} /\ lastMsg # 0)
    BY <1>8, Zenon DEF Sweep, There
  <2>2. lost \subseteq 1..MaxMsgs /\ lastMsg \in 0..MaxMsgs
    BY DEF TypeOK, Message
  <2>3. lost' \subseteq 1..MaxMsgs
    BY <2>1, <2>2, LostGrows
  <2> QED
    BY <1>8, <1>f, <2>3 DEF Sweep, TypeOK, Text, Message, work, chat, locks, bounds, tidy
<1>9. CASE MediaButton
  <2>1. lost' = lost \/ (lost' = lost \cup {Tracked} /\ Tracked # 0)
    BY <1>9, Zenon DEF MediaButton, There
  <2>2. lost \subseteq 1..MaxMsgs /\ Tracked \in 0..MaxMsgs
    BY TrackedIsMessage DEF TypeOK, Message
  <2>3. lost' \subseteq 1..MaxMsgs
    BY <2>1, <2>2, LostGrows
  <2>4. sent + 1 \in Message
    BY <1>9 DEF MediaButton, TypeOK, Message
  <2>5. shows' \in [1..MaxMsgs -> Media..MaxChanges]
    <3>1. shows \in [1..MaxMsgs -> Media..MaxChanges]
      BY DEF TypeOK
    <3>2. shows' = [shows EXCEPT ![sent + 1] = Media]
      BY <1>9 DEF MediaButton
    <3>3. Media \in Media..MaxChanges
      BY DashboardConstants
    <3> QED
      BY <3>1, <3>2, <3>3, Zenon
  <2> QED
    BY <1>9, <1>f, <2>3, <2>4, <2>5 DEF MediaButton, Mishap, TypeOK, work, locks, tidy
<1>10. CASE Crash
  <2>1. upd' \in [Actors -> Update]
    BY <1>10 DEF Crash, Idle, Update, Places, Message, Text
  <2>2. lost' \subseteq 1..MaxMsgs
    BY <1>10 DEF Crash, Live, TypeOK
  <2> QED
    BY <1>10, <1>f, <2>1, <2>2 DEF Crash, Mishap, TypeOK, Text, Message, work, chat, tidy
<1>11. ASSUME NEW m \in DOMAIN shows, UserDeletes(m) PROVE TypeOK'
  BY <1>11 DEF UserDeletes, Fault, TypeOK, work, maps, locks, tidy
<1>12. CASE UNCHANGED vars
  BY <1>12 DEF vars, TypeOK, work, maps, chat, locks, bounds, tidy
<1> QED
  BY <1>1, <1>2, <1>3, <1>4, <1>5, <1>6, <1>7, <1>8, <1>9, <1>10, <1>11, <1>12 DEF Next

\* Every variable of the dashboard keeps its type: a message is one of those that could
\* have been sent, a text tells of a change that has happened or is allowed to
\* (dashboard.go, task_manager.go).
THEOREM TypeCorrect == Spec => []TypeOK
  BY TypeInit, NextKeepsType, PTL DEF Spec

-----------------------------------------------------------------------------
(***************************************************************************)
(* One dashboard.  sendMsgMu makes the places from the look at LastStatusMsg *)
(* to its update those of one goroutine; at each of them it is known where *)
(* a message that is not accounted for can be.                             *)
(***************************************************************************)
Kept == Live \ lost
Sending == {"fetch", "text", "edited", "post", "record", "store"}

\* Whoever is between the lock and the unlock holds the mutex.
OneSender == \A u \in Actors : upd[u].pc \in Sending => sendMu = u

\* A message neither deleted nor lost.
Open(m) == m # 0 /\ There(m) /\ m \notin lost

\* What is known while a goroutine's record is x.  A message taken over for editing is
\* the tracked one unless it is gone or lost.
Fits(x) ==
    /\ x.pc = "fetch" => Kept \subseteq {stored}
    /\ x.pc = "text" => Kept \subseteq {x.msg} /\ (Open(x.msg) => x.msg = Tracked)
    /\ x.pc = "post" => Kept = {}
    /\ x.pc \in {"record", "store"} => Kept \subseteq {x.msg}

Placed == \A u \in Actors : Fits(upd[u])

Inv == TypeOK /\ OneSender /\ OneDashboard /\ Placed

\* What does not touch messages, nor what is known of them, disturbs nothing: a
\* goroutine may go to a place outside the section, or stay.
LEMMA Elsewhere ==
    ASSUME Inv, UNCHANGED <<lastMsg, stored, shows, lost>>,
           \A u \in Actors : upd'[u].pc \in Sending => upd'[u].pc = upd[u].pc /\ upd'[u].msg = upd[u].msg,
           \A u \in Actors : At(u, "record") => At(u, "record")'
    PROVE  OneDashboard' /\ Placed'
<1>1. Kept' = Kept /\ Tracked' = Tracked /\ (Live \ lost)' = Live \ lost
  BY DEF Kept, Live, Tracked
<1>2. OneDashboard'
  <2> SUFFICES ASSUME NEW m \in (Live \ lost)' PROVE (m = Tracked \/ \E u \in Actors : At(u, "record") /\ upd[u].msg = m)'
    BY DEF OneDashboard
  <2>1. m = Tracked \/ \E u \in Actors : At(u, "record") /\ upd[u].msg = m
    BY <1>1 DEF Inv, OneDashboard
  <2>2. ASSUME NEW u \in Actors, At(u, "record"), upd[u].msg = m
        PROVE  At(u, "record")' /\ upd'[u].msg = m
    BY <2>2 DEF At, Sending
  <2> QED
    BY <1>1, <2>1, <2>2
<1>3. Placed'
  <2> SUFFICES ASSUME NEW u \in Actors PROVE Fits(upd[u])'
    BY DEF Placed
  <2>1. Fits(upd[u])
    BY DEF Inv, Placed
  <2> QED
    BY <1>1, <2>1 DEF Fits, Open, There, Sending
<1> QED
  BY <1>2, <1>3

\* Steps that stay outside the section, or leave it with no message touched.
Quiet(u) ==
    LockStatus(u) \/ CountWork(u) \/ Throttle(u) \/ SkipSame(u) \/ Edited(u)

\* They touch no message.
LEMMA QuietKeeps ==
    ASSUME Inv, NEW u \in Actors, Quiet(u)
    PROVE  OneDashboard' /\ Placed'
<1>u. upd \in [Actors -> Update]
  BY DEF Inv, TypeOK
<1>1. UNCHANGED <<lastMsg, stored, shows, lost>>
  BY Zenon DEF Quiet, LockStatus, CountWork, Throttle, SkipSame, Edited, maps, chat
<1>2. upd[u].pc # "record"
  BY DEF Quiet, LockStatus, CountWork, Throttle, SkipSame, Edited, At
<1>3. PICK x \in Update : upd' = [upd EXCEPT ![u] = x] /\ x.pc \notin Sending
  <2> DEFINE Rests(x) == upd' = [upd EXCEPT ![u] = x] /\ x.pc \notin Sending
             At_(p) == [upd[u] EXCEPT !.pc = p]
             y == [upd[u] EXCEPT !.pc = IF Total = 0 THEN "clear" ELSE "throttle",
                                 !.count = Total, !.text = stamp]
  <2>1. CASE LockStatus(u)
    <3>1. At_("count") \in Update /\ Rests(At_("count"))
      BY <2>1, <1>u DEF LockStatus, Goto, Sending, Update, Places
    <3> QED
      BY <3>1, Zenon
  <2>2. CASE CountWork(u)
    <3>1. Total \in 0..2 /\ stamp \in Text
      BY DEF Inv, TypeOK, Total, Text
    <3>2. y \in Update /\ y.pc \notin Sending
      BY <1>u, <3>1 DEF Update, Places, Sending
    <3>3. upd' = [upd EXCEPT ![u] = y]
      BY <2>2, <1>u DEF CountWork, Update
    <3> QED
      BY <3>2, <3>3, Zenon
  <2>3. CASE Goto(u, "send")
    <3>1. At_("send") \in Update /\ Rests(At_("send"))
      BY <2>3, <1>u DEF Goto, Sending, Update, Places
    <3> QED
      BY <3>1, Zenon
  <2>4. CASE Return(u)
    <3>1. Idle \in Update /\ Rests(Idle)
      BY <2>4, Bounds DEF Return, Idle, Sending, Update, Places, Message, Text
    <3> QED
      BY <3>1, Zenon
  <2>5. LockStatus(u) \/ CountWork(u) \/ Goto(u, "send") \/ Return(u)
    BY Zenon DEF Quiet, Throttle, SkipSame, Edited
  <2> QED
    BY <2>1, <2>2, <2>3, <2>4, <2>5
<1>4. \A w \in Actors : upd'[w].pc \in Sending => upd'[w].pc = upd[w].pc /\ upd'[w].msg = upd[w].msg
  BY <1>u, <1>3 DEF Sending
<1>5. \A w \in Actors : At(w, "record") => At(w, "record")'
  BY <1>u, <1>2, <1>3 DEF At
<1> QED
  BY <1>1, <1>4, <1>5, Elsewhere

\* The same for what the chat's goroutines do before they ask, and for the rest of the bot.
Outside ==
    \/ Change \/ Tick \/ TimePasses \/ SweepLooks \/ UNCHANGED vars
    \/ \E u \in Updaters : Call(u) \/ TryCall(u)

\* A goroutine sets out for an update.
Begins(u) ==
    \E x \in Update : /\ upd[u].pc = "idle"
                       /\ x.pc \in {"lock", "count"}
                       /\ upd' = [upd EXCEPT ![u] = x]

LEMMA OutsideMoves == ASSUME Inv, Outside PROVE upd' = upd \/ \E u \in Actors : Begins(u)
<1>u. upd \in [Actors -> Update]
  BY DEF Inv, TypeOK
<1>1. CASE Change \/ TimePasses \/ SweepLooks \/ UNCHANGED vars
  BY <1>1, Zenon DEF Change, TimePasses, SweepLooks, vars
<1>2. ASSUME NEW u \in Actors, upd[u].pc = "idle", NEW p \in {"lock", "count"}, Goto(u, p)
      PROVE  Begins(u)
  <2>1. upd' = [upd EXCEPT ![u] = [upd[u] EXCEPT !.pc = p]]
    BY <1>2, <1>u DEF Goto
  <2>2. [upd[u] EXCEPT !.pc = p] \in Update /\ [upd[u] EXCEPT !.pc = p].pc = p
    BY <1>u DEF Update, Places
  <2> QED
    BY <1>2, <2>1, <2>2 DEF Begins
<1>3. CASE Tick
  BY <1>3, <1>2, Bounds DEF Tick, At
<1>4. ASSUME NEW u \in Updaters, TryCall(u) PROVE Begins(u)
  BY <1>4, <1>2 DEF TryCall, At, Actors
<1>5. ASSUME NEW u \in Updaters, Call(u) PROVE Begins(u)
  <2>1. u \in Actors /\ upd[u] \in Update /\ upd[u].pc = "idle"
    BY <1>5, <1>u DEF Call, At, Actors
  <2>2. PICK force \in BOOLEAN :
          upd' = [upd EXCEPT ![u] = [upd[u] EXCEPT !.pc = "lock", !.force = force]]
    BY <1>5, <1>u, <2>1 DEF Call, Update
  <2>3. /\ [upd[u] EXCEPT !.pc = "lock", !.force = force] \in Update
        /\ [upd[u] EXCEPT !.pc = "lock", !.force = force].pc = "lock"
    BY <2>1 DEF Update, Places
  <2> QED
    BY <2>1, <2>2, <2>3 DEF Begins
<1> QED
  BY <1>1, <1>3, <1>4, <1>5, Bounds DEF Outside, Actors

\* Neither touches a message.
LEMMA OutsideKeeps == ASSUME Inv, Outside PROVE OneDashboard' /\ Placed'
<1>u. upd \in [Actors -> Update]
  BY DEF Inv, TypeOK
<1>1. UNCHANGED <<lastMsg, stored, shows, lost>>
  BY Zenon DEF Outside, Change, Tick, TimePasses, SweepLooks, Call, TryCall, vars, maps, chat
<1>2. upd' = upd \/ \E u \in Actors : Begins(u)
  BY OutsideMoves
<1>3. \A w \in Actors : upd'[w].pc \in Sending => upd'[w].pc = upd[w].pc /\ upd'[w].msg = upd[w].msg
  BY <1>u, <1>2 DEF Sending, Begins
<1>4. \A w \in Actors : At(w, "record") => At(w, "record")'
  BY <1>u, <1>2 DEF At, Begins
<1> QED
  BY <1>1, <1>3, <1>4, Elsewhere

\* A step of the goroutine that has the section, or takes it.
LEMMA OwnStep ==
    ASSUME Inv, NEW u \in Actors, NEW x \in Update, upd' = [upd EXCEPT ![u] = x],
           sendMu \in {u, None}, Fits(x)',
           \A m \in Kept' : m = Tracked' \/ (x.pc = "record" /\ x.msg = m)
    PROVE  OneDashboard' /\ Placed'
<1>u. upd \in [Actors -> Update] /\ upd'[u] = x
  BY DEF Inv, TypeOK
<1>1. ASSUME NEW w \in Actors, w # u PROVE upd'[w] = upd[w] /\ upd[w].pc \notin Sending
  BY <1>1, <1>u, Bounds DEF Inv, OneSender
<1>2. OneDashboard'
  BY <1>u DEF OneDashboard, Kept, At
<1>3. ASSUME NEW w \in Actors, w # u PROVE Fits(upd[w])'
  BY <1>1, <1>3 DEF Fits, Sending
<1> QED
  BY <1>u, <1>2, <1>3 DEF Placed

\* A goroutine moves on and keeps what it knows.
LEMMA Moved ==
    ASSUME upd \in [Actors -> Update], NEW u \in Actors, NEW p \in Places, Goto(u, p)
    PROVE  \E x \in Update : /\ upd' = [upd EXCEPT ![u] = x] /\ x.pc = p
                             /\ x.msg = upd[u].msg /\ x.text = upd[u].text
<1> DEFINE y == [upd[u] EXCEPT !.pc = p]
<1>1. y \in Update /\ y.pc = p /\ y.msg = upd[u].msg /\ y.text = upd[u].text
  BY DEF Update
<1>2. upd' = [upd EXCEPT ![u] = y]
  BY DEF Goto
<1> QED
  BY <1>1, <1>2, Zenon

\* A live message is one that is there.
LEMMA LiveIsThere ==
    ASSUME TypeOK
    PROVE  /\ Live \subseteq 1..MaxMsgs
           /\ \A m \in 1..MaxMsgs : m \in Live <=> shows[m] >= 0
           /\ \A m \in Kept : Open(m)
           /\ \A m \in 1..MaxMsgs : There(m) <=> shows[m] # Gone
  BY DEF TypeOK, Live, Kept, Open, There

\* Between the lock and the unlock of sendMsgMu.
InSection(u) ==
    \/ LockSend(u) \/ Fetch(u) \/ DeleteOld(u) \/ Edit(u) \/ EditFails(u)
    \/ Post(u) \/ PostFails(u) \/ Record(u) \/ Store(u)

\* Each of them knows enough to keep it.
LEMMA SectionKeeps ==
    ASSUME Inv, TypeOK', NEW u \in Actors, InSection(u)
    PROVE  OneDashboard' /\ Placed'
<1>u. upd \in [Actors -> Update] /\ upd[u] \in Update
  BY DEF Inv, TypeOK
<1>m. upd[u].msg \in 0..MaxMsgs /\ upd[u].text \in Gone..MaxChanges
  BY <1>u DEF Update, Message, Text
<1>l. /\ Live \subseteq 1..MaxMsgs
      /\ \A m \in 1..MaxMsgs : m \in Live <=> shows[m] >= 0
      /\ \A m \in Kept : Open(m)
      /\ \A m \in 1..MaxMsgs : There(m) <=> shows[m] # Gone
  BY LiveIsThere DEF Inv
<1>n. /\ Live' \subseteq 1..MaxMsgs
      /\ \A m \in 1..MaxMsgs : m \in Live' <=> shows'[m] >= 0
      /\ \A m \in Kept' : Open(m)'
      /\ \A m \in 1..MaxMsgs : There(m)' <=> shows'[m] # Gone
  BY LiveIsThere DEF TypeOK, Live, Kept, Open, There
<1>f. Fits(upd[u])
  BY DEF Inv, Placed
<1>s. upd[u].pc \in Sending => sendMu = u
  BY DEF Inv, OneSender
<1>o. sendMu \in {u, None} /\ upd[u].pc # "record" => \A m \in Kept : m = Tracked
  <2> SUFFICES ASSUME sendMu \in {u, None}, upd[u].pc # "record", NEW m \in Kept PROVE m = Tracked
    OBVIOUS
  <2>1. ASSUME NEW w \in Actors, At(w, "record") PROVE FALSE
    BY <2>1, Bounds DEF Inv, OneSender, At, Sending
  <2> QED
    BY <2>1 DEF Inv, OneDashboard, Kept
<1>1. CASE LockSend(u)
  <2>1. PICK x \in Update : /\ upd' = [upd EXCEPT ![u] = x] /\ x.msg = lastMsg
                            /\ x.pc = IF lastMsg = 0 THEN "fetch" ELSE "text"
    <3> DEFINE y == [upd[u] EXCEPT !.pc = IF lastMsg = 0 THEN "fetch" ELSE "text", !.msg = lastMsg]
    <3>1. lastMsg \in Message
      BY DEF Inv, TypeOK
    <3>2. y \in Update /\ y.msg = lastMsg /\ y.pc = IF lastMsg = 0 THEN "fetch" ELSE "text"
      BY <1>u, <3>1 DEF Update, Places
    <3>3. upd' = [upd EXCEPT ![u] = y]
      BY <1>1, <1>u DEF LockSend, Update
    <3> QED
      BY <3>2, <3>3, Zenon
  <2>2. sendMu = None /\ upd[u].pc = "send" /\ UNCHANGED <<lastMsg, stored, shows, lost>>
    BY <1>1 DEF LockSend, At, maps, chat
  <2>3. Kept' = Kept /\ Tracked' = Tracked /\ \A m \in Kept : m = Tracked
    BY <2>2, <1>o DEF Kept, Live, Tracked
  <2>4. Fits(x)'
    BY <2>1, <2>2, <2>3 DEF Fits, Tracked
  <2> QED
    BY <2>1, <2>2, <2>3, <2>4, OwnStep
<1>2. CASE Fetch(u)
  <2>1. PICK x \in Update : upd' = [upd EXCEPT ![u] = x] /\ x.msg = stored /\ x.pc = "text"
    <3> DEFINE y == [upd[u] EXCEPT !.pc = "text", !.msg = stored]
    <3>1. stored \in Message
      BY DEF Inv, TypeOK
    <3>2. y \in Update /\ y.msg = stored /\ y.pc = "text"
      BY <1>u, <3>1 DEF Update, Places
    <3>3. upd' = [upd EXCEPT ![u] = y]
      BY <1>2, <1>u DEF Fetch, Update
    <3> QED
      BY <3>2, <3>3, Zenon
  <2>2. /\ upd[u].pc = "fetch" /\ UNCHANGED <<stored, shows, lost>>
        /\ lastMsg' = IF stored # 0 THEN stored ELSE lastMsg
    BY <1>2 DEF Fetch, At, chat
  <2>3. Kept' = Kept /\ Kept \subseteq {stored} /\ sendMu = u
    BY <2>2, <1>f, <1>s DEF Kept, Live, Fits, Sending
  <2>4. stored # 0 => Tracked' = stored
    BY <2>2 DEF Tracked
  <2>5. stored = 0 => Kept = {}
    BY <2>3, <1>l DEF Kept
  <2>6. Fits(x)'
    BY <2>1, <2>2, <2>3, <2>4 DEF Fits, Open
  <2> QED
    BY <2>1, <2>3, <2>4, <2>5, <2>6, OwnStep
<1>3. CASE DeleteOld(u) \/ EditFails(u)
  <2>1. PICK x \in Update : upd' = [upd EXCEPT ![u] = x] /\ x.pc = "post"
    BY <1>3, <1>u, Moved DEF DeleteOld, EditFails, Places
  <2>2. upd[u].pc = "text" /\ upd[u].msg # 0 /\ UNCHANGED <<lastMsg, stored>>
    BY <1>3 DEF DeleteOld, EditFails, At, maps, chat
  <2>3. \/ shows' = [shows EXCEPT ![upd[u].msg] = Gone] /\ lost' = lost
        \/ shows' = shows /\ lost' = lost \cup {upd[u].msg}
        \/ shows' = shows /\ lost' = lost /\ ~There(upd[u].msg)
    BY <1>3, Zenon DEF DeleteOld, EditFails, chat
  <2>4. Kept \subseteq {upd[u].msg} /\ sendMu = u
    BY <2>2, <1>f, <1>s DEF Fits, Sending
  <2>5. shows \in [1..MaxMsgs -> Media..MaxChanges]
    BY DEF Inv, TypeOK
  <2>6. Kept' = {}
    <3>1. CASE shows' = [shows EXCEPT ![upd[u].msg] = Gone] /\ lost' = lost
      <4>1. upd[u].msg \notin Live'
        BY <3>1, <1>n, <2>2, <2>5, <1>m
      <4>2. \A m \in 1..MaxMsgs : m # upd[u].msg => shows'[m] = shows[m]
        BY <3>1, <2>5
      <4>3. Kept' \subseteq Kept
        BY <3>1, <4>1, <4>2, <1>n, <1>l DEF Kept
      <4> QED
        BY <4>1, <4>3, <2>4 DEF Kept
    <3>2. CASE shows' = shows /\ lost' = lost \cup {upd[u].msg}
      BY <3>2, <2>4 DEF Kept, Live
    <3>3. CASE shows' = shows /\ lost' = lost /\ ~There(upd[u].msg)
      BY <3>3, <2>4, <1>l DEF Kept, Live, Open
    <3> QED
      BY <2>3, <3>1, <3>2, <3>3
  <2>7. Fits(x)'
    BY <2>1, <2>6 DEF Fits
  <2> QED
    BY <2>1, <2>4, <2>6, <2>7, OwnStep
<1>4. CASE Edit(u)
  <2>1. PICK x \in Update : upd' = [upd EXCEPT ![u] = x] /\ x.pc = "edited"
    BY <1>4, <1>u, Moved DEF Edit, Places
  <2>2. /\ upd[u].pc = "text" /\ upd[u].msg # 0 /\ There(upd[u].msg)
        /\ UNCHANGED <<lastMsg, stored, lost>>
        /\ shows' = [shows EXCEPT ![upd[u].msg] = upd[u].text]
    BY <1>4 DEF Edit, At, maps
  <2>3. /\ Kept \subseteq {upd[u].msg} /\ sendMu = u
        /\ Open(upd[u].msg) => upd[u].msg = Tracked
    BY <2>2, <1>f, <1>s DEF Fits, Sending
  <2>4. \A m \in 1..MaxMsgs : m # upd[u].msg => shows'[m] = shows[m]
    BY <2>2 DEF Inv, TypeOK
  <2>5. Kept' \subseteq Kept \cup {upd[u].msg}
    BY <2>2, <2>4, <1>l, <1>n DEF Kept
  <2>6. \A m \in Kept' : m = Tracked'
    BY <2>2, <2>3, <2>5 DEF Kept, Tracked, Open
  <2>7. Fits(x)'
    BY <2>1 DEF Fits
  <2> QED
    BY <2>1, <2>3, <2>6, <2>7, OwnStep
<1>5. CASE Post(u)
  <2>1. PICK x \in Update : upd' = [upd EXCEPT ![u] = x] /\ x.msg = sent + 1 /\ x.pc = "record"
    <3> DEFINE y == [upd[u] EXCEPT !.pc = "record", !.msg = sent + 1]
    <3>1. sent + 1 \in Message
      BY <1>5 DEF Post, Inv, TypeOK, Message
    <3>2. y \in Update /\ y.msg = sent + 1 /\ y.pc = "record"
      BY <1>u, <3>1 DEF Update, Places
    <3>3. upd' = [upd EXCEPT ![u] = y]
      BY <1>5, <1>u DEF Post, Update
    <3> QED
      BY <3>2, <3>3, Zenon
  <2>2. /\ upd[u].pc \in {"post", "text"} /\ (upd[u].pc = "text" => upd[u].msg = 0)
        /\ UNCHANGED lost
        /\ shows' = [shows EXCEPT ![sent + 1] = upd[u].text]
    BY <1>5 DEF Post, At
  <2>3. Kept = {} /\ sendMu = u
    BY <2>2, <1>f, <1>s, <1>l DEF Fits, Sending, Kept
  <2>4. \A m \in 1..MaxMsgs : m # sent + 1 => shows'[m] = shows[m]
    BY <2>2 DEF Inv, TypeOK
  <2>5. Kept' \subseteq {sent + 1}
    BY <2>2, <2>3, <2>4, <1>l, <1>n DEF Kept
  <2>6. Fits(x)'
    BY <2>1, <2>5 DEF Fits
  <2> QED
    BY <2>1, <2>3, <2>5, <2>6, OwnStep
<1>6. CASE Record(u)
  <2>1. PICK x \in Update : upd' = [upd EXCEPT ![u] = x] /\ x.msg = upd[u].msg /\ x.pc = "store"
    BY <1>6, <1>u, Moved DEF Record, Places
  <2>2. upd[u].pc = "record" /\ UNCHANGED <<stored, shows, lost>> /\ lastMsg' = upd[u].msg
    BY <1>6 DEF Record, At, chat
  <2>3. Kept' = Kept /\ Kept \subseteq {upd[u].msg} /\ sendMu = u
    BY <2>2, <1>f, <1>s DEF Kept, Live, Fits, Sending
  <2>4. \A m \in Kept' : m = Tracked'
    BY <2>2, <2>3, <1>l DEF Tracked, Kept
  <2>5. Fits(x)'
    BY <2>1, <2>3 DEF Fits
  <2> QED
    BY <2>1, <2>3, <2>4, <2>5, OwnStep
<1>7. CASE Store(u)
  <2>1. /\ upd[u].pc = "store" /\ UNCHANGED <<lastMsg, shows, lost>>
        /\ stored' = upd[u].msg \/ stored' = stored
        /\ upd' = [upd EXCEPT ![u] = Idle]
    BY <1>7 DEF Store, At, Return
  <2>2. Kept' = Kept /\ Kept \subseteq {upd[u].msg} /\ sendMu = u /\ \A m \in Kept : m = Tracked
    BY <2>1, <1>f, <1>s, <1>o DEF Kept, Live, Fits, Sending
  <2>3. \A m \in Kept' : m = Tracked'
    BY <2>1, <2>2 DEF Tracked
  <2>4. Idle \in Update /\ Fits(Idle)'
    BY Bounds DEF Idle, Fits, Update, Places, Message, Text
  <2> QED
    BY <2>1, <2>2, <2>3, <2>4, OwnStep
<1>8. CASE PostFails(u)
  <2>1. Idle \in Update /\ upd' = [upd EXCEPT ![u] = Idle] /\ Fits(Idle)'
    BY <1>8, Bounds DEF PostFails, Return, Idle, Fits, Update, Places, Message, Text
  <2>2. /\ upd[u].pc \in {"post", "text"} /\ (upd[u].pc = "text" => upd[u].msg = 0)
        /\ \/ shows' = shows /\ lost' = lost
           \/ shows' = [shows EXCEPT ![sent + 1] = upd[u].text] /\ lost' = lost \cup {sent + 1}
    BY <1>8 DEF PostFails, At
  <2>3. Kept = {} /\ sendMu = u
    BY <2>2, <1>f, <1>s, <1>l DEF Fits, Sending, Kept
  <2>5. Kept' = {}
    <3>1. CASE shows' = shows /\ lost' = lost
      BY <3>1, <2>3 DEF Kept, Live
    <3>2. CASE shows' = [shows EXCEPT ![sent + 1] = upd[u].text] /\ lost' = lost \cup {sent + 1}
      <4>1. \A m \in 1..MaxMsgs : m # sent + 1 => shows'[m] = shows[m]
        BY <3>2 DEF Inv, TypeOK
      <4>2. Kept' \subseteq Kept
        BY <3>2, <4>1, <1>l, <1>n DEF Kept
      <4> QED
        BY <4>2, <2>3
    <3> QED
      BY <2>2, <3>1, <3>2
  <2> QED
    BY <2>1, <2>3, <2>5, OwnStep
<1> QED
  BY <1>1, <1>2, <1>3, <1>4, <1>5, <1>6, <1>7, <1>8 DEF InSection

\* What happens to the messages while every goroutine stays where it is.
LEMMA Shrinks ==
    ASSUME Inv, \A w \in Actors : upd'[w].pc \in Sending => upd'[w] = upd[w],
           \A w \in Actors : At(w, "record") => upd'[w] = upd[w],
           Kept' \subseteq Kept,
           \A m \in Kept' : m = Tracked => m = Tracked',
           \A m : Open(m)' => Open(m) \/ m = Tracked',
           \A m : Open(m)' /\ m = Tracked => m = Tracked',
           (\E w \in Actors : At(w, "fetch")) => Kept' \subseteq {stored'}
    PROVE  OneDashboard' /\ Placed'
<1>1. OneDashboard'
  <2> SUFFICES ASSUME NEW m \in Kept' PROVE (m = Tracked \/ \E u \in Actors : At(u, "record") /\ upd[u].msg = m)'
    BY DEF OneDashboard, Kept
  <2>1. m = Tracked \/ \E u \in Actors : At(u, "record") /\ upd[u].msg = m
    BY DEF Inv, OneDashboard, Kept
  <2> QED
    BY <2>1 DEF At
<1>2. Placed'
  <2> SUFFICES ASSUME NEW w \in Actors PROVE Fits(upd[w])'
    BY DEF Placed
  <2>1. Fits(upd[w])
    BY DEF Inv, Placed
  <2>2. upd'[w].pc \in Sending => upd'[w] = upd[w]
    OBVIOUS
  <2>3. upd'[w].pc = "fetch" => Kept' \subseteq {stored'}
    BY <2>2 DEF At, Sending
  <2>4. upd'[w].pc = "text" => Kept' \subseteq {upd'[w].msg} /\ (Open(upd[w].msg)' => upd'[w].msg = Tracked')
    BY <2>1, <2>2 DEF Fits, Sending
  <2>5. upd'[w].pc = "post" => Kept' = {}
    BY <2>1, <2>2 DEF Fits, Sending
  <2>6. upd'[w].pc \in {"record", "store"} => Kept' \subseteq {upd'[w].msg}
    BY <2>1, <2>2 DEF Fits, Sending
  <2> QED
    BY <2>3, <2>4, <2>5, <2>6 DEF Fits
<1> QED
  BY <1>1, <1>2

\* While a goroutine looks for the stored message, nobody has just sent one.
LEMMA FetchSeesTracked ==
    ASSUME Inv, \E w \in Actors : At(w, "fetch")
    PROVE  Kept \subseteq {Tracked} /\ Kept \subseteq {stored}
<1>1. PICK w \in Actors : At(w, "fetch")
  OBVIOUS
<1>2. ASSUME NEW u \in Actors, At(u, "record") PROVE FALSE
  BY <1>1, <1>2 DEF Inv, OneSender, At, Sending
<1> QED
  BY <1>1, <1>2 DEF Inv, OneDashboard, Placed, Fits, Kept, At

\* Nothing is active: the tracked message goes.
LEMMA ClearKeeps ==
    ASSUME Inv, TypeOK', NEW u \in Actors, Clear(u)
    PROVE  OneDashboard' /\ Placed'
<1>u. upd \in [Actors -> Update] /\ shows \in [1..MaxMsgs -> Media..MaxChanges]
  BY DEF Inv, TypeOK
<1>t. Tracked \in 0..MaxMsgs
  BY TrackedIsMessage DEF Inv, Message
<1>l. /\ Live \subseteq 1..MaxMsgs
      /\ \A m \in 1..MaxMsgs : m \in Live <=> shows[m] >= 0
      /\ \A m \in Kept : Open(m)
  BY LiveIsThere DEF Inv
<1>n. /\ Live' \subseteq 1..MaxMsgs
      /\ \A m \in 1..MaxMsgs : m \in Live' <=> shows'[m] >= 0
  BY LiveIsThere DEF TypeOK, Live, Kept, Open, There
<1>1. upd' = [upd EXCEPT ![u] = Idle] /\ upd[u].pc = "clear"
  BY DEF Clear, Return, At
<1>2. /\ \A w \in Actors : upd'[w].pc \in Sending => upd'[w] = upd[w]
      /\ \A w \in Actors : At(w, "record") => upd'[w] = upd[w]
  BY <1>u, <1>1 DEF Idle, Sending, At
<1>3. CASE Tracked = 0
  <2>1. UNCHANGED <<shows, lost, lastMsg, stored>>
    BY <1>3, Zenon DEF Clear, There
  <2>2. Kept' = Kept /\ Tracked' = Tracked /\ \A m : Open(m)' <=> Open(m)
    BY <2>1 DEF Kept, Live, Tracked, Open, There
  <2> QED
    BY <1>2, <2>1, <2>2, Shrinks, FetchSeesTracked
<1>4. CASE Tracked # 0
  <2>1. lastMsg' = 0 /\ stored' = 0
    BY <1>4, Zenon DEF Clear
  <2>2. \/ shows' = [shows EXCEPT ![Tracked] = Gone] /\ lost' = lost
        \/ shows' = shows /\ lost' = lost \cup {Tracked}
    BY <1>4, Zenon DEF Clear
  <2>3. \A m \in 1..MaxMsgs : m # Tracked => shows'[m] = shows[m]
    BY <2>2, <1>u
  <2>4. Tracked \notin Kept'
    <3>1. CASE shows' = [shows EXCEPT ![Tracked] = Gone]
      BY <3>1, <1>n, <1>t, <1>u, <1>4 DEF Kept
    <3>2. CASE lost' = lost \cup {Tracked}
      BY <3>2 DEF Kept
    <3> QED
      BY <2>2, <3>1, <3>2
  <2>5. Kept' \subseteq Kept
    <3> SUFFICES ASSUME NEW m \in Kept' PROVE m \in Kept
      OBVIOUS
    <3>1. m # Tracked /\ m \in 1..MaxMsgs /\ shows'[m] >= 0 /\ m \notin lost'
      BY <2>4, <1>n DEF Kept
    <3> QED
      BY <2>2, <2>3, <3>1, <1>l DEF Kept
  <2>6. \A m : Open(m)' => Open(m) /\ m # Tracked
    <3> SUFFICES ASSUME NEW m, Open(m)' PROVE Open(m) /\ m # Tracked
      OBVIOUS
    <3>2. CASE shows' = [shows EXCEPT ![Tracked] = Gone] /\ lost' = lost
      <4>1. m # Tracked
        BY <3>2, <1>t, <1>u, <1>4 DEF Open, There
      <4>2. shows'[m] = shows[m]
        BY <3>2, <4>1, <1>u
      <4> QED
        BY <3>2, <4>1, <4>2 DEF Open, There
    <3>3. CASE shows' = shows /\ lost' = lost \cup {Tracked}
      BY <3>3 DEF Open, There
    <3> QED
      BY <2>2, <3>2, <3>3
  <2>7. (\E w \in Actors : At(w, "fetch")) => Kept' = {}
    BY <2>4, <2>5, FetchSeesTracked
  <2> QED
    BY <1>2, <2>4, <2>5, <2>6, <2>7, Shrinks
<1> QED
  BY <1>3, <1>4

\* The clean-up forgets the message; the settings may still have it.
LEMMA SweepKeeps == ASSUME Inv, Sweep PROVE OneDashboard' /\ Placed'
<1>l. /\ \A m \in Kept : Open(m)
  BY LiveIsThere DEF Inv
<1>1. /\ UNCHANGED <<upd, stored, shows>> /\ lastMsg' = 0
      /\ lost' = IF There(lastMsg) /\ lastMsg # stored THEN lost \cup {lastMsg} ELSE lost
  BY DEF Sweep, chat
<1>2. Kept' \subseteq Kept /\ Tracked' = stored
  BY <1>1 DEF Kept, Live, Tracked
<1>3. \A m : Open(m)' => Open(m)
  BY <1>1 DEF Open, There
<1>4. \A m : Open(m)' /\ m = Tracked => m = Tracked'
  BY <1>1, <1>2 DEF Open, There, Tracked
<1>5. \A m \in Kept' : m = Tracked => m = Tracked'
  BY <1>1, <1>2, <1>l DEF Kept, Open, Tracked
<1>6. (\E w \in Actors : At(w, "fetch")) => Kept' \subseteq {stored'}
  BY <1>1, <1>2, FetchSeesTracked
<1> QED
  BY <1>1, <1>2, <1>3, <1>4, <1>5, <1>6, Shrinks

\* A media message becomes the dashboard, the old one is lost.
LEMMA MediaButtonKeeps == ASSUME Inv, TypeOK', MediaButton PROVE OneDashboard' /\ Placed'
<1>l. /\ Live \subseteq 1..MaxMsgs
      /\ \A m \in 1..MaxMsgs : m \in Live <=> shows[m] >= 0
      /\ \A m \in Kept : Open(m)
  BY LiveIsThere DEF Inv
<1>n. /\ Live' \subseteq 1..MaxMsgs
      /\ \A m \in 1..MaxMsgs : m \in Live' <=> shows'[m] >= 0
  BY LiveIsThere DEF TypeOK, Live, Kept, Open, There
<1>1. /\ UNCHANGED <<upd, stored>> /\ lastMsg' = sent + 1
      /\ shows' = [shows EXCEPT ![sent + 1] = Media]
      /\ lost' = IF There(Tracked) THEN lost \cup {Tracked} ELSE lost
      /\ sent \in Nat /\ shows \in [1..MaxMsgs -> Media..MaxChanges]
  BY DEF MediaButton, Inv, TypeOK, Message
<1>2. Tracked' = sent + 1
  <2>1. lastMsg' = sent + 1 /\ sent + 1 # 0
    BY <1>1
  <2> QED
    BY <2>1, Zenon DEF Tracked
<1>3. \A m : m # sent + 1 => shows'[m] = shows[m]
  BY <1>1
<1>4. \A m : m # sent + 1 /\ Open(m)' => Open(m) /\ m # Tracked
  BY <1>1, <1>3 DEF Open, There
<1>5. sent + 1 \notin Live'
  BY <1>1, <1>n
<1>6. Kept' \subseteq Kept
  BY <1>1, <1>3, <1>5, <1>l, <1>n DEF Kept
<1>7. \A m \in Kept' : m # Tracked
  BY <1>1, <1>6, <1>l DEF Kept, Open
<1>8. (\E w \in Actors : At(w, "fetch")) => Kept' \subseteq {stored'}
  BY <1>1, <1>6, FetchSeesTracked
<1> QED
  BY <1>1, <1>2, <1>4, <1>6, <1>7, <1>8, Shrinks

\* Somebody deletes a message.
LEMMA UserDeletesKeeps ==
    ASSUME Inv, TypeOK', NEW d \in DOMAIN shows, UserDeletes(d)
    PROVE  OneDashboard' /\ Placed'
<1>l. /\ Live \subseteq 1..MaxMsgs
      /\ \A m \in 1..MaxMsgs : m \in Live <=> shows[m] >= 0
  BY LiveIsThere DEF Inv
<1>n. /\ Live' \subseteq 1..MaxMsgs
      /\ \A m \in 1..MaxMsgs : m \in Live' <=> shows'[m] >= 0
  BY LiveIsThere DEF TypeOK, Live, Kept, Open, There
<1>1. /\ UNCHANGED <<upd, stored, lastMsg, lost>> /\ shows' = [shows EXCEPT ![d] = Gone]
      /\ shows \in [1..MaxMsgs -> Media..MaxChanges] /\ d \in 1..MaxMsgs
  BY DEF UserDeletes, maps, Inv, TypeOK
<1>2. Tracked' = Tracked
  BY Zenon DEF UserDeletes, maps, Tracked
<1>3. \A m : m # d => shows'[m] = shows[m]
  BY <1>1
<1>4. d \notin Live' /\ ~There(d)'
  BY <1>1, <1>n DEF There
<1>5. Kept' \subseteq Kept
  BY <1>1, <1>3, <1>4, <1>l, <1>n DEF Kept
<1>6. \A m : Open(m)' => Open(m)
  BY <1>1, <1>3, <1>4 DEF Open, There
<1>7. (\E w \in Actors : At(w, "fetch")) => Kept' \subseteq {stored'}
  BY <1>1, <1>5, FetchSeesTracked
<1> QED
  BY <1>1, <1>2, <1>5, <1>6, <1>7, Shrinks

\* After a crash only the settings know a message.
LEMMA CrashKeeps == ASSUME Inv, Crash PROVE OneDashboard' /\ Placed'
<1>1. /\ \A u \in Actors : upd'[u].pc = "idle"
      /\ lastMsg' = 0 /\ UNCHANGED <<stored, shows>> /\ lost' = lost \cup (Live \ {stored})
  BY DEF Crash, Idle, chat
<1>2. Kept' \subseteq {stored} /\ Tracked' = stored
  BY <1>1 DEF Kept, Live, Tracked
<1> QED
  BY <1>1, <1>2 DEF OneDashboard, Kept, Placed, Fits

-----------------------------------------------------------------------------
\* The mutex: who takes it was let in, who leaves gives it back.
LEMMA MutexKept == ASSUME Inv, [Next]_vars PROVE OneSender'
<1>u. upd \in [Actors -> Update]
  BY DEF Inv, TypeOK
<1>1. ASSUME NEW u \in Actors, Step(u) PROVE OneSender'
  <2>1. \A w \in Actors : w # u => upd'[w] = upd[w]
    BY <1>1, <1>u DEF Step, LockStatus, CountWork, Clear, Throttle, LockSend, Fetch, SkipSame,
       DeleteOld, Edit, EditFails, Edited, Post, PostFails, Record, Store, Goto, Return
  <2>2. CASE LockSend(u)
    BY <2>1, <2>2, Bounds DEF LockSend, Inv, OneSender
  <2>3. CASE SkipSame(u) \/ Edited(u) \/ PostFails(u) \/ Store(u)
    <3>1. upd[u].pc \in Sending /\ sendMu' = None /\ upd'[u] = Idle
      BY <2>3, <1>u DEF SkipSame, Edited, PostFails, Store, At, Return, Sending
    <3>2. \A w \in Actors : upd'[w].pc \notin Sending
      BY <2>1, <3>1 DEF Inv, OneSender, Idle, Sending
    <3> QED
      BY <3>2 DEF OneSender
  <2>4. CASE Fetch(u) \/ DeleteOld(u) \/ Edit(u) \/ EditFails(u) \/ Post(u) \/ Record(u)
    <3>1. upd[u].pc \in Sending /\ UNCHANGED sendMu
      BY <2>4 DEF Fetch, DeleteOld, Edit, EditFails, Post, Record, At, Sending, locks
    <3> QED
      BY <2>1, <3>1 DEF Inv, OneSender
  <2>5. CASE LockStatus(u) \/ CountWork(u) \/ Clear(u) \/ Throttle(u)
    <3>1. UNCHANGED sendMu
      BY <2>5 DEF LockStatus, CountWork, Clear, Throttle, locks
    <3>2. upd'[u].pc \notin Sending
      <4>1. CASE LockStatus(u)
        BY <4>1, <1>u DEF LockStatus, Goto, Update, Sending
      <4>2. CASE CountWork(u)
        BY <4>2, <1>u DEF CountWork, Update, Sending
      <4>3. CASE Return(u)
        BY <4>3, <1>u DEF Return, Idle, Sending
      <4>4. CASE Goto(u, "send")
        BY <4>4, <1>u DEF Goto, Update, Sending
      <4> QED
        BY <2>5, <4>1, <4>2, <4>3, <4>4 DEF Clear, Throttle
    <3> QED
      BY <2>1, <3>1, <3>2 DEF Inv, OneSender
  <2> QED
    BY <1>1, <2>2, <2>3, <2>4, <2>5 DEF Step
<1>2. CASE Outside
  <2>1. upd' = upd \/ \E u \in Actors : Begins(u)
    BY <1>2, OutsideMoves
  <2>2. UNCHANGED sendMu
    BY <1>2 DEF Outside, Change, Tick, TimePasses, SweepLooks, Call, TryCall, vars, locks
  <2> QED
    BY <1>u, <2>1, <2>2 DEF Begins, Inv, OneSender, Sending
<1>3. CASE Crash
  BY <1>3 DEF Crash, OneSender, Idle, Sending
<1>4. CASE Sweep \/ MediaButton \/ \E m \in DOMAIN shows : UserDeletes(m)
  <2>1. UNCHANGED <<upd, sendMu>>
    BY <1>4 DEF Sweep, MediaButton, UserDeletes, locks
  <2> QED
    BY <2>1 DEF Inv, OneSender
<1> QED
  BY <1>1, <1>2, <1>3, <1>4 DEF Next, Outside

\* The invariant holds at the start ...
LEMMA InvInit == Init => Inv
<1> SUFFICES ASSUME Init PROVE Inv
  OBVIOUS
<1>1. Live = {}
  BY DEF Init, Live
<1>2. \A u \in Actors : upd[u].pc = "idle"
  BY DEF Init, Idle
<1> QED
  BY <1>1, <1>2, TypeInit DEF Inv, OneSender, OneDashboard, Placed, Fits, Sending

\* ... and every step keeps it.
LEMMA InvStep == Inv /\ [Next]_vars => Inv'
<1> SUFFICES ASSUME Inv, [Next]_vars PROVE Inv'
  OBVIOUS
<1>1. TypeOK'
  BY NextKeepsType DEF Inv
<1>2. OneSender'
  BY MutexKept
<1>3. OneDashboard' /\ Placed'
  <2>1. ASSUME NEW u \in Actors, Step(u) PROVE OneDashboard' /\ Placed'
    BY <1>1, <2>1, QuietKeeps, SectionKeeps, ClearKeeps DEF Step, Quiet, InSection
  <2>2. CASE Outside
    BY <2>2, OutsideKeeps
  <2>3. ASSUME NEW m \in DOMAIN shows, UserDeletes(m) PROVE OneDashboard' /\ Placed'
    BY <1>1, <2>3, UserDeletesKeeps
  <2> QED
    BY <1>1, <2>1, <2>2, <2>3, SweepKeeps, MediaButtonKeeps, CrashKeeps DEF Next, Outside
<1> QED
  BY <1>1, <1>2, <1>3 DEF Inv

\* A live message that the bot neither tracks nor has just sent is one it lost sight of
\* by a failed request or a mishap: the mutexes of UpdateSharedDashboard and
\* sendStatusMessage leave no second dashboard behind (dashboard.go).
THEOREM OneLiveDashboard == Spec => []OneDashboard
<1>1. Inv => OneDashboard
  BY DEF Inv
<1> QED
  BY InvInit, InvStep, <1>1, PTL DEF Spec
=============================================================================
