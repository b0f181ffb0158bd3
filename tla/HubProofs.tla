----------------------------- MODULE HubProofs -----------------------------
(***************************************************************************)
(* Proofs about Hub, for any set of connections, any capacity of their     *)
(* channels and any number of updates.                                     *)
(*                                                                         *)
(* A channel is closed only by the step that takes its client out of the   *)
(* hub's set, and nobody is ever put back: that is why Run cannot panic.   *)
(* For the order of the updates the stream of a client is looked at in     *)
(* its three parts; each step moves a part's end into the next.            *)
(***************************************************************************)
EXTENDS Hub, SequenceTheorems, TLAPS

\* A connection nobody has made has no state, a closed channel belongs to no
\* client of the hub, and a broadcast under way has a number.
Bookkeeping ==
  /\ \A c \in Clients : conn[c] = "none" =>
       /\ c \notin clients /\ ~closed[c]
       /\ reader[c] = "none" /\ writer[c] = "none"
       /\ send[c] = <<>> /\ frame[c] = <<>> /\ written[c] = <<>>
  /\ \A c \in clients : ~closed[c] /\ conn[c] # "none"
  /\ todo # {} => sent >= 1

\* The updates in s follow number k.
Follow(s, k) == \A i \in 1 .. Len(s) : s[i] = k + i

Active(c)  == writer[c] \in {"idle", "writing", "flushing"}
Reached(c) == joined[c] + Len(written[c]) + Len(frame[c]) + Len(send[c])

\* The three parts of a client's stream follow one another, and the last
\* ends with the last update the hub has handed to this client.
InOrderOf(c) ==
  Active(c) =>
    /\ Follow(written[c], joined[c])
    /\ Follow(frame[c], joined[c] + Len(written[c]))
    /\ Follow(send[c], joined[c] + Len(written[c]) + Len(frame[c]))
    /\ writer[c] = "idle" => frame[c] = <<>>
    /\ c \in clients \ todo => Reached(c) = sent
    /\ c \in todo => Reached(c) = sent - 1

InOrder == \A c \in Clients : InOrderOf(c)

-----------------------------------------------------------------------------
\* What appending, taking and joining do to sequences that follow a number.
LEMMA FollowAppend ==
  ASSUME NEW S, NEW s \in Seq(S), NEW k \in Int, Follow(s, k),
         NEW n \in S, n = k + Len(s) + 1
  PROVE  Follow(Append(s, n), k) /\ Len(Append(s, n)) = Len(s) + 1
<1> DEFINE t == Append(s, n)
<1>1. /\ Len(t) = Len(s) + 1
      /\ \A i \in 1 .. Len(s) : t[i] = s[i]
      /\ t[Len(s) + 1] = n
  BY AppendProperties
<1>2. Len(s) \in Nat
  BY LenProperties
<1> HIDE DEF t
<1>3. Follow(t, k)
  BY <1>1, <1>2 DEF Follow
<1> QED
  BY <1>1, <1>3 DEF t

LEMMA FollowTail ==
  ASSUME NEW S, NEW s \in Seq(S), NEW k \in Int, Follow(s, k), s # <<>>
  PROVE  /\ Follow(Tail(s), k + 1) /\ Len(Tail(s)) = Len(s) - 1
         /\ Follow(<<Head(s)>>, k) /\ Len(s) >= 1
  BY DEF Follow

LEMMA FollowJoin ==
  ASSUME NEW S, NEW s \in Seq(S), NEW t \in Seq(S), NEW k \in Int,
         Follow(s, k), Follow(t, k + Len(s))
  PROVE  Follow(s \o t, k) /\ Len(s \o t) = Len(s) + Len(t)
  BY DEF Follow

-----------------------------------------------------------------------------
\* Types and the hub's bookkeeping support each other: an update in a channel
\* has a number because a broadcast under way has one.
IInv == TypeOK /\ Bookkeeping /\ ~panicked

LEMMA InitIInv == Init => IInv
<1> SUFFICES ASSUME Init PROVE IInv
  OBVIOUS
<1> USE HubAssumption DEF Init
<1>1. <<>> \in Seq(Updates) /\ Len(<<>>) = 0
  BY EmptySeq
<1>2. /\ send \in [Clients -> Seq(Updates)] /\ frame \in [Clients -> Seq(Updates)]
      /\ written \in [Clients -> Seq(Updates)]
      /\ \A c \in Clients : Len(send[c]) <= Cap
  BY <1>1
<1>3. closed \in [Clients -> BOOLEAN] /\ panicked \in BOOLEAN
  OBVIOUS
<1>4. TypeOK
  BY <1>2, <1>3 DEF TypeOK, ReaderAt, WriterAt
<1>5. Bookkeeping
  BY DEF Bookkeeping
<1> QED
  BY <1>4, <1>5 DEF IInv

LEMMA NextIInv == IInv /\ [Next]_vars => IInv'
<1> SUFFICES ASSUME IInv, [Next]_vars PROVE IInv'
  OBVIOUS
<1> USE HubAssumption DEF IInv, TypeOK, Bookkeeping, ReaderAt, WriterAt, Updates,
      WriterGoes, CloseChannel, InSelect, hubVars, chanVars, connVars
<1>1. CASE Broadcast
  BY <1>1 DEF Broadcast
<1>2. ASSUME NEW c \in Clients, Register(c) PROVE IInv'
  BY <1>2 DEF Register
<1>3. ASSUME NEW c \in Clients, Unregister(c) PROVE IInv'
  <2>1. CASE c \in clients /\ CloseChannel(c)
    <3>1. ~panicked'
      BY <2>1, ZenonT(30) DEF CloseChannel
    <3> QED
      BY <1>3, <2>1, <3>1 DEF Unregister
  <2>2. CASE UNCHANGED <<clients, closed, panicked>>
    BY <1>3, <2>2 DEF Unregister
  <2> QED
    BY <1>3, <2>1, <2>2 DEF Unregister
<1>4. ASSUME NEW c \in Clients, SendTo(c) PROVE IInv'
  <2>1. c \in clients /\ ~closed[c] /\ sent \in Updates
    BY <1>4 DEF SendTo
  <2>2. CASE /\ Len(send[c]) < Cap
             /\ send' = [send EXCEPT ![c] = Append(@, sent)]
             /\ UNCHANGED <<clients, closed, panicked>>
    <3>1. /\ Append(send[c], sent) \in Seq(Updates)
          /\ Len(Append(send[c], sent)) = Len(send[c]) + 1
      BY <2>1, AppendProperties
    <3>2. Len(send[c]) \in Nat
      BY LenProperties
    <3> QED
      BY <1>4, <2>1, <2>2, <3>1, <3>2 DEF SendTo
  <2>3. CASE /\ clients' = clients \ {c} /\ CloseChannel(c)
             /\ UNCHANGED send
    <3>1. ~panicked'
      BY <2>1, <2>3, ZenonT(30) DEF CloseChannel
    <3> QED
      BY <1>4, <2>1, <2>3, <3>1 DEF SendTo
  <2> QED
    BY <1>4, <2>1, <2>2, <2>3 DEF SendTo
<1>5. ASSUME NEW c \in Clients, ReadFails(c) PROVE IInv'
  BY <1>5 DEF ReadFails
<1>6. ASSUME NEW c \in Clients, ReaderCloses(c) PROVE IInv'
  BY <1>6 DEF ReaderCloses
<1>7. ASSUME NEW c \in Clients, WriterTake(c) PROVE IInv'
  <2>1. /\ Tail(send[c]) \in Seq(Updates) /\ Len(Tail(send[c])) = Len(send[c]) - 1
        /\ <<Head(send[c])>> \in Seq(Updates)
    BY <1>7, HeadTailProperties DEF WriterTake
  <2>2. Len(send[c]) \in Nat
    BY LenProperties
  <2>3. conn[c] # "none"
    BY <1>7 DEF WriterTake
  <2>4. frame' \in [Clients -> Seq(Updates)]
    <3>1. frame' = [frame EXCEPT ![c] = <<Head(send[c])>>] \/ frame' = frame
      BY <1>7 DEF WriterTake
    <3> QED
      BY <2>1, <3>1
  <2>5. /\ send' \in [Clients -> Seq(Updates)]
        /\ \A k \in Clients : Len(send'[k]) <= Cap
    <3>1. send' = [send EXCEPT ![c] = Tail(@)]
      BY <1>7 DEF WriterTake
    <3> QED
      BY <2>1, <2>2, <3>1
  <2>6. TypeOK'
    BY <1>7, <2>4, <2>5 DEF WriterTake
  <2>7. Bookkeeping' /\ ~panicked'
    BY <1>7, <2>3 DEF WriterTake
  <2> QED
    BY <2>6, <2>7
<1>8. ASSUME NEW c \in Clients, WriterDrain(c) PROVE IInv'
  BY <1>8 DEF WriterDrain
<1>9. ASSUME NEW c \in Clients, Flushed(c) PROVE IInv'
  BY <1>9 DEF Flushed
<1>10. ASSUME NEW c \in Clients, FlushFails(c) PROVE IInv'
  BY <1>10 DEF FlushFails
<1>11. ASSUME NEW c \in Clients, Ping(c) PROVE IInv'
  BY <1>11 DEF Ping
<1>12. ASSUME NEW c \in Clients, PingFails(c) PROVE IInv'
  BY <1>12 DEF PingFails
<1>13. ASSUME NEW c \in Clients, WriterSeesClosed(c) PROVE IInv'
  BY <1>13 DEF WriterSeesClosed
<1>14. ASSUME NEW c \in Clients, WriterCloses(c) PROVE IInv'
  BY <1>14 DEF WriterCloses
<1>15. ASSUME NEW c \in Clients, DeadlinePasses(c) PROVE IInv'
  BY <1>15 DEF DeadlinePasses
<1>16. ASSUME NEW c \in Clients, PeerTurns(c) PROVE IInv'
  BY <1>16 DEF PeerTurns
<1>17. CASE UNCHANGED vars
  BY <1>17 DEF vars
<1> QED
  BY <1>1, <1>2, <1>3, <1>4, <1>5, <1>6, <1>7, <1>8, <1>9, <1>10, <1>11, <1>12,
     <1>13, <1>14, <1>15, <1>16, <1>17
  DEF Next, HubStep, ReaderStep, WriterStep, World

-----------------------------------------------------------------------------
\* Every variable of the hub keeps its type, and no channel ever holds more
\* than its capacity or belongs to a broadcast after its client is gone.
THEOREM TypeCorrect == Spec => []TypeOK
<1>1. IInv => TypeOK
  BY DEF IInv
<1> QED
  BY <1>1, InitIInv, NextIInv, PTL DEF Spec

\* Run closes no channel twice and sends to none that is closed, however many
\* connections come, fall behind and leave (websocket.go Run, readPump).
THEOREM NeverPanics == Spec => []HubNeverPanics
<1>1. IInv => HubNeverPanics
  BY DEF IInv, HubNeverPanics
<1> QED
  BY <1>1, InitIInv, NextIInv, PTL DEF Spec

-----------------------------------------------------------------------------
\* The order of updates.  Only the steps that move an update, and those that
\* change who is owed the current one, need an argument.
LEMMA InitInOrder == Init => InOrder
  BY DEF Init, InOrder, InOrderOf, Active

\* Nothing that a client's part of InOrder speaks of has changed.
SameStream(c) ==
  /\ joined'[c] = joined[c] /\ written'[c] = written[c]
  /\ frame'[c] = frame[c] /\ send'[c] = send[c]
  /\ Active(c)' => Active(c)
  /\ writer'[c] = "idle" => writer[c] = "idle"

LEMMA StreamStays ==
  ASSUME NEW c \in Clients, InOrderOf(c), SameStream(c), sent' = sent,
         c \in clients' => c \in clients, c \in todo' <=> c \in todo
  PROVE  InOrderOf(c)'
  BY DEF InOrderOf, SameStream, Reached, Follow

LEMMA NextInOrder == IInv /\ InOrder /\ [Next]_vars => InOrder'
<1> SUFFICES ASSUME IInv, InOrder, [Next]_vars, NEW k \in Clients PROVE InOrderOf(k)'
  BY DEF InOrder
<1>a. InOrderOf(k)
  BY DEF InOrder
<1>b. /\ joined[k] \in Int /\ sent \in Int
      /\ Len(written[k]) \in Nat /\ Len(frame[k]) \in Nat /\ Len(send[k]) \in Nat
  BY LenProperties, HubAssumption DEF IInv, TypeOK
<1>d. /\ frame \in [Clients -> Seq(Updates)] /\ frame' \in [Clients -> Seq(Updates)]
      /\ send \in [Clients -> Seq(Updates)] /\ send' \in [Clients -> Seq(Updates)]
      /\ written \in [Clients -> Seq(Updates)] /\ written' \in [Clients -> Seq(Updates)]
      /\ joined \in [Clients -> Int]
  <2>1. IInv'
    BY NextIInv
  <2>2. joined \in [Clients -> 0 .. MaxUpdates]
    BY DEF IInv, TypeOK
  <2> QED
    BY <2>1, <2>2, HubAssumption DEF IInv, TypeOK
<1>c. ASSUME SameStream(k), sent' = sent, clients' \subseteq clients, todo' = todo
      PROVE  InOrderOf(k)'
  BY <1>a, <1>c, StreamStays
<1>1. CASE Broadcast
  <2>1. /\ UNCHANGED <<joined, send, written, frame, writer, clients>>
        /\ todo = {} /\ todo' = clients /\ sent' = sent + 1
    BY <1>1 DEF Broadcast, InSelect, chanVars, connVars
  <2>2. sent' - 1 = sent
    BY <1>b, <2>1
  <2>3. Reached(k)' = Reached(k) /\ (Active(k)' <=> Active(k))
    BY <2>1 DEF Reached, Active
  <2> QED
    BY <1>a, <2>1, <2>2, <2>3 DEF InOrderOf
<1>2. ASSUME NEW c \in Clients, Register(c) PROVE InOrderOf(k)'
  <2>1. CASE c = k
    BY <1>2, <1>b, <2>1
    DEF Register, InSelect, InOrderOf, Reached, Follow, Active, chanVars, IInv,
        TypeOK, Bookkeeping
  <2>2. CASE c # k
    BY <1>2, <2>2, <1>a, StreamStays
    DEF Register, SameStream, Active, chanVars, IInv, TypeOK
  <2> QED
    BY <2>1, <2>2
<1>3. ASSUME NEW c \in Clients, Unregister(c) PROVE InOrderOf(k)'
  BY <1>3, <1>c DEF Unregister, SameStream, Active
<1>4. ASSUME NEW c \in Clients, SendTo(c) PROVE InOrderOf(k)'
  <2>1. c \in todo /\ c \in clients /\ ~closed[c] /\ sent \in Updates
    BY <1>4 DEF SendTo, IInv, TypeOK, Bookkeeping, Updates
  <2>2. CASE c # k
    BY <1>4, <2>2, <1>a, StreamStays
    DEF SendTo, SameStream, Active, CloseChannel, connVars, IInv, TypeOK
  <2>3. CASE c = k /\ clients' = clients \ {c} /\ UNCHANGED send
    BY <1>4, <2>3, <1>a DEF SendTo, InOrderOf, Follow, Active, connVars
  <2>4. CASE c = k /\ send' = [send EXCEPT ![c] = Append(@, sent)]
    <3>1. send'[k] = Append(send[k], sent)
      BY <2>4 DEF IInv, TypeOK
    <3>2. SUFFICES ASSUME Active(k) PROVE InOrderOf(k)'
      BY <1>4 DEF SendTo, Active, connVars, InOrderOf
    <3>3. sent = joined[k] + Len(written[k]) + Len(frame[k]) + Len(send[k]) + 1
      BY <1>a, <1>b, <2>1, <2>4, <3>2 DEF InOrderOf, Reached
    <3>4. /\ Follow(send'[k], joined[k] + Len(written[k]) + Len(frame[k]))
          /\ Len(send'[k]) = Len(send[k]) + 1
      BY <1>a, <1>b, <2>1, <3>1, <3>2, <3>3, FollowAppend DEF InOrderOf, IInv, TypeOK
    <3> QED
      BY <1>4, <1>a, <1>b, <2>1, <2>4, <3>2, <3>3, <3>4
      DEF SendTo, InOrderOf, Reached, Active, connVars, Follow
  <2> QED
    BY <1>4, <2>1, <2>2, <2>3, <2>4 DEF SendTo
<1>5. ASSUME NEW c \in Clients, ReadFails(c) PROVE InOrderOf(k)'
  BY <1>5, <1>c DEF ReadFails, SameStream, Active, hubVars, chanVars
<1>6. ASSUME NEW c \in Clients, ReaderCloses(c) PROVE InOrderOf(k)'
  BY <1>6, <1>c DEF ReaderCloses, SameStream, Active, hubVars, chanVars
<1>7. ASSUME NEW c \in Clients, WriterTake(c) PROVE InOrderOf(k)'
  <2>1. CASE c # k
    BY <1>7, <2>1, <1>c DEF WriterTake, WriterGoes, SameStream, Active, hubVars, IInv, TypeOK
  <2>2. CASE c = k /\ writer'[k] = "closing"
    BY <2>2 DEF InOrderOf, Active
  <2>3. CASE c = k /\ frame'[k] = <<Head(send[k])>>
    <3>1. Active(k) /\ frame[k] = <<>> /\ send[k] # <<>> /\ send'[k] = Tail(send[k])
      BY <1>7, <2>3, <1>a DEF WriterTake, InOrderOf, Active, IInv, TypeOK
    <3>2. /\ Follow(send'[k], joined[k] + Len(written[k]) + 1)
          /\ Len(send'[k]) = Len(send[k]) - 1
          /\ Follow(frame'[k], joined[k] + Len(written[k]))
          /\ Len(frame'[k]) = 1
      BY <1>a, <1>b, <2>3, <3>1, FollowTail DEF InOrderOf, IInv, TypeOK
    <3>3. Len(frame[k]) = 0
      BY <3>1
    <3>4. /\ UNCHANGED <<joined, written, clients, todo, sent>>
          /\ writer'[k] # "idle" \/ ~Active(k)'
      BY <1>7, <2>3 DEF WriterTake, WriterGoes, hubVars, IInv, TypeOK, Active
    <3> QED
      BY <1>a, <1>b, <3>1, <3>2, <3>3, <3>4 DEF InOrderOf, Reached
  <2> QED
    BY <1>7, <2>1, <2>2, <2>3 DEF WriterTake, WriterGoes, IInv, TypeOK
<1>8. ASSUME NEW c \in Clients, WriterDrain(c) PROVE InOrderOf(k)'
  <2>1. CASE c # k
    BY <1>8, <2>1, <1>c DEF WriterDrain, WriterGoes, SameStream, Active, hubVars, IInv, TypeOK
  <2>2. CASE c = k
    <3>1. /\ Active(k) /\ frame'[k] = frame[k] \o send[k] /\ send'[k] = <<>>
          /\ writer'[k] # "idle" /\ UNCHANGED <<joined, written, clients, todo, sent>>
      BY <1>8, <2>2 DEF WriterDrain, WriterGoes, Active, hubVars, IInv, TypeOK
    <3>2. /\ Follow(frame'[k], joined[k] + Len(written[k]))
          /\ Len(frame'[k]) = Len(frame[k]) + Len(send[k])
      BY <1>a, <1>b, <3>1, FollowJoin DEF InOrderOf, IInv, TypeOK
    <3>3. Len(send'[k]) = 0 /\ \A n \in Int : Follow(send'[k], n)
      BY <3>1 DEF Follow
    <3>4. Follow(send'[k], joined[k] + Len(written[k]) + Len(frame'[k]))
      BY <1>d, <3>2, <3>3
    <3>5. Reached(k)' = Reached(k)
      BY <1>d, <3>1, <3>2, <3>3 DEF Reached
    <3> QED
      BY <1>a, <3>1, <3>2, <3>4, <3>5 DEF InOrderOf
  <2> QED
    BY <2>1, <2>2
<1>9. ASSUME NEW c \in Clients, Flushed(c) PROVE InOrderOf(k)'
  <2>1. CASE c # k
    BY <1>9, <2>1, <1>c
    DEF Flushed, WriterGoes, SameStream, Active, hubVars, chanVars, IInv, TypeOK
  <2>2. CASE c = k
    <3>1. /\ Active(k) /\ written'[k] = written[k] \o frame[k] /\ frame'[k] = <<>>
          /\ UNCHANGED <<joined, send, clients, todo, sent>>
      BY <1>9, <2>2 DEF Flushed, WriterGoes, Active, hubVars, chanVars, IInv, TypeOK
    <3>2. /\ Follow(written'[k], joined[k])
          /\ Len(written'[k]) = Len(written[k]) + Len(frame[k])
      BY <1>a, <1>b, <3>1, FollowJoin DEF InOrderOf, IInv, TypeOK
    <3>3. Len(frame'[k]) = 0 /\ \A n \in Int : Follow(frame'[k], n)
      BY <3>1 DEF Follow
    <3>4. /\ joined[k] + Len(written'[k]) \in Int
          /\ joined[k] + Len(written'[k]) + Len(frame'[k])
               = joined[k] + Len(written[k]) + Len(frame[k])
      BY <1>d, <3>2, <3>3
    <3>5. Reached(k)' = Reached(k)
      BY <1>d, <3>1, <3>2, <3>3 DEF Reached
    <3> QED
      BY <1>a, <3>1, <3>2, <3>3, <3>4, <3>5 DEF InOrderOf
  <2> QED
    BY <2>1, <2>2
<1>10. ASSUME NEW c \in Clients, FlushFails(c) PROVE InOrderOf(k)'
  BY <1>10, <1>c
  DEF FlushFails, WriterGoes, SameStream, Active, hubVars, chanVars, IInv, TypeOK
<1>11. ASSUME NEW c \in Clients, Ping(c) PROVE InOrderOf(k)'
  BY <1>11, <1>c DEF Ping, SameStream, Active, hubVars, chanVars
<1>12. ASSUME NEW c \in Clients, PingFails(c) PROVE InOrderOf(k)'
  BY <1>12, <1>c
  DEF PingFails, WriterGoes, SameStream, Active, hubVars, chanVars, IInv, TypeOK
<1>13. ASSUME NEW c \in Clients, WriterSeesClosed(c) PROVE InOrderOf(k)'
  BY <1>13, <1>c
  DEF WriterSeesClosed, WriterGoes, SameStream, Active, hubVars, chanVars, IInv, TypeOK
<1>14. ASSUME NEW c \in Clients, WriterCloses(c) PROVE InOrderOf(k)'
  <2>1. CASE c # k
    BY <1>14, <2>1, <1>c
    DEF WriterCloses, WriterGoes, SameStream, Active, hubVars, chanVars, IInv, TypeOK
  <2>2. CASE c = k
    BY <1>14, <2>2 DEF WriterCloses, WriterGoes, InOrderOf, Active, IInv, TypeOK
  <2> QED
    BY <2>1, <2>2
<1>15. ASSUME NEW c \in Clients, DeadlinePasses(c) PROVE InOrderOf(k)'
  BY <1>15, <1>c DEF DeadlinePasses, SameStream, Active, hubVars, chanVars
<1>16. ASSUME NEW c \in Clients, PeerTurns(c) PROVE InOrderOf(k)'
  BY <1>16, <1>c DEF PeerTurns, SameStream, Active, hubVars, chanVars, connVars
<1>17. CASE UNCHANGED vars
  BY <1>17, <1>c DEF vars, SameStream, Active, hubVars, chanVars, connVars
<1> QED
  BY <1>1, <1>2, <1>3, <1>4, <1>5, <1>6, <1>7, <1>8, <1>9, <1>10, <1>11, <1>12,
     <1>13, <1>14, <1>15, <1>16, <1>17
  DEF Next, HubStep, ReaderStep, WriterStep, World

\* Joining the three parts gives the stream.
LEMMA InOrderIsNoUpdateSkipped == IInv /\ InOrder => NoUpdateSkipped
<1> SUFFICES ASSUME IInv, InOrder, NEW c \in Clients, Active(c)
             PROVE  /\ \A i \in DOMAIN Stream(c) : Stream(c)[i] = joined[c] + i
                    /\ c \in clients \ todo => joined[c] + Len(Stream(c)) = sent
  BY DEF NoUpdateSkipped, Active
<1> DEFINE head == written[c] \o frame[c]
<1>0. /\ frame \in [Clients -> Seq(Updates)] /\ send \in [Clients -> Seq(Updates)]
      /\ written \in [Clients -> Seq(Updates)] /\ joined \in [Clients -> Int]
  BY HubAssumption DEF IInv, TypeOK
<1>1. /\ joined[c] \in Int
      /\ written[c] \in Seq(Updates) /\ frame[c] \in Seq(Updates) /\ send[c] \in Seq(Updates)
      /\ Len(written[c]) \in Nat /\ Len(frame[c]) \in Nat /\ Len(send[c]) \in Nat
  BY LenProperties, HubAssumption DEF IInv, TypeOK
<1>2. /\ Follow(head, joined[c]) /\ Len(head) = Len(written[c]) + Len(frame[c])
      /\ head \in Seq(Updates)
  BY <1>1, FollowJoin DEF InOrder, InOrderOf
<1>3. /\ Follow(head \o send[c], joined[c])
      /\ Len(head \o send[c]) = Len(head) + Len(send[c])
  <2>1. joined[c] + Len(head) = joined[c] + Len(written[c]) + Len(frame[c])
    BY <1>0, <1>1, <1>2
  <2>2. Follow(send[c], joined[c] + Len(head))
    BY <2>1 DEF InOrder, InOrderOf
  <2> HIDE DEF head
  <2> QED
    BY <1>1, <1>2, <2>2, FollowJoin
<1>4. Stream(c) = head \o send[c]
  BY DEF Stream
<1> HIDE DEF head
<1>5. DOMAIN Stream(c) = 1 .. Len(Stream(c))
  BY <1>1, <1>2, <1>4, LenProperties, ConcatProperties
<1>6. \A i \in DOMAIN Stream(c) : Stream(c)[i] = joined[c] + i
  BY <1>3, <1>4, <1>5 DEF Follow
<1>7. joined[c] + Len(Stream(c)) = Reached(c)
  BY <1>0, <1>1, <1>2, <1>3, <1>4 DEF Reached
<1> QED
  BY <1>6, <1>7 DEF InOrder, InOrderOf

\* A client never misses an update in the middle: what was written to it, is
\* being written or waits for it is every update since it was registered
\* (websocket.go Run's default branch, writePump's drain).
THEOREM NothingSkipped == Spec => []NoUpdateSkipped
<1>1. Spec => [](IInv /\ InOrder)
  BY InitIInv, NextIInv, InitInOrder, NextInOrder, PTL DEF Spec
<1> QED
  BY <1>1, InOrderIsNoUpdateSkipped, PTL

-----------------------------------------------------------------------------
\* How far behind.  A message holds one update while it is begun, and what one drain of
\* the channel adds to it.
FrameFits(c) ==
  /\ writer[c] = "idle" => frame[c] = <<>>
  /\ writer[c] = "writing" => Len(frame[c]) <= 1
  /\ writer[c] = "flushing" => Len(frame[c]) <= Cap + 1

\* The hub's set and the channels: a connection that was made is in the set exactly as
\* long as its channel is open, and a reader on its way out has left the set.
ChannelOf(c) ==
  /\ conn[c] # "none" => (c \in clients <=> ~closed[c])
  /\ reader[c] \in {"closing", "done"} => c \notin clients
  /\ conn[c] = "none" => reader[c] = "none"

Kept(c) == FrameFits(c) /\ ChannelOf(c)

LEMMA InitKept == Init => \A c \in Clients : Kept(c)
  BY DEF Init, Kept, FrameFits, ChannelOf

\* Nothing that Kept speaks of has changed.
SameEnds(c) ==
  /\ frame'[c] = frame[c] /\ writer'[c] = writer[c]
  /\ conn'[c] = conn[c] /\ reader'[c] = reader[c] /\ closed'[c] = closed[c]
  /\ c \in clients' <=> c \in clients

LEMMA NextKept ==
  ASSUME IInv, \A c \in Clients : Kept(c), [Next]_vars, NEW k \in Clients
  PROVE  Kept(k)'
<1>0. /\ FrameFits(k) /\ ChannelOf(k)
      /\ \A c \in clients : ~closed[c] /\ conn[c] # "none"
      /\ conn[k] = "none" => k \notin clients /\ ~closed[k] /\ writer[k] = "none"
  BY DEF Kept, IInv, Bookkeeping
<1>t. /\ clients \subseteq Clients /\ todo \subseteq clients
      /\ send \in [Clients -> Seq(Updates)] /\ frame \in [Clients -> Seq(Updates)]
      /\ closed \in [Clients -> BOOLEAN]
      /\ conn \in [Clients -> {"none", "open", "closed"}]
      /\ reader \in [Clients -> ReaderAt] /\ writer \in [Clients -> WriterAt]
  BY DEF IInv, TypeOK
<1>s. SameEnds(k) => Kept(k)'
  BY <1>0 DEF Kept, FrameFits, ChannelOf, SameEnds
<1>c. FrameFits(k)' /\ UNCHANGED <<clients, closed, conn, reader>> => Kept(k)'
  BY <1>0 DEF Kept, ChannelOf
<1> USE DEF hubVars, chanVars, connVars, WriterGoes
<1>1. CASE Broadcast
  BY <1>1, <1>s DEF Broadcast, SameEnds
<1>2. ASSUME NEW c \in Clients, Register(c) PROVE Kept(k)'
  <2>1. CASE c # k
    BY <1>2, <1>s, <1>t, <2>1 DEF Register, SameEnds
  <2>2. CASE c = k
    <3>1. /\ conn'[k] = "open" /\ k \in clients' /\ reader'[k] = "reading"
          /\ writer'[k] = "idle" /\ frame'[k] = <<>> /\ closed'[k] = closed[k]
      BY <1>2, <1>t, <2>2 DEF Register, IInv, Bookkeeping
    <3>2. ~closed[k]
      BY <1>0, <1>2, <2>2 DEF Register
    <3> QED
      BY <3>1, <3>2 DEF Kept, FrameFits, ChannelOf
  <2> QED
    BY <2>1, <2>2
<1>3. ASSUME NEW c \in Clients, Unregister(c) PROVE Kept(k)'
  <2>1. CASE c # k
    BY <1>3, <1>s, <1>t, <2>1 DEF Unregister, CloseChannel, SameEnds
  <2>2. CASE c = k
    <3>1. FrameFits(k)' /\ conn'[k] = conn[k] /\ conn[k] # "none" /\ k \notin clients'
      BY <1>0, <1>3, <1>t, <2>2 DEF Unregister, FrameFits, ChannelOf, ReaderAt
    <3>2. closed'[k]
      <4>1. CASE k \in clients /\ closed' = [closed EXCEPT ![k] = TRUE]
        BY <1>t, <4>1, Zenon
      <4>2. CASE k \notin clients /\ closed' = closed
        BY <1>0, <3>1, <4>2 DEF ChannelOf
      <4> QED
        BY <1>3, <2>2, <4>1, <4>2 DEF Unregister, CloseChannel
    <3> QED
      BY <3>1, <3>2 DEF Kept, ChannelOf
  <2> QED
    BY <2>1, <2>2
<1>4. ASSUME NEW c \in Clients, SendTo(c) PROVE Kept(k)'
  <2>1. c \in clients /\ ~closed[c] /\ UNCHANGED <<conn, reader, writer, frame>>
    BY <1>0, <1>4, <1>t DEF SendTo
  <2>2. CASE UNCHANGED <<clients, closed>>
    BY <1>s, <2>1, <2>2 DEF SameEnds
  <2>3. CASE clients' = clients \ {c} /\ closed' = [closed EXCEPT ![c] = TRUE]
    <3>1. CASE c # k
      BY <1>s, <1>t, <2>1, <2>3, <3>1 DEF SameEnds
    <3>2. CASE c = k
      <4>1. closed'[k] /\ k \notin clients'
        BY <1>t, <2>3, <3>2, Zenon
      <4> QED
        BY <1>0, <2>1, <4>1 DEF Kept, FrameFits, ChannelOf
    <3> QED
      BY <3>1, <3>2
  <2> QED
    BY <1>4, <2>1, <2>2, <2>3 DEF SendTo, CloseChannel
<1>5. ASSUME NEW c \in Clients, ReadFails(c) PROVE Kept(k)'
  BY <1>0, <1>5, <1>t DEF ReadFails, Kept, FrameFits, ChannelOf
<1>6. ASSUME NEW c \in Clients, ReaderCloses(c) PROVE Kept(k)'
  BY <1>0, <1>6, <1>t DEF ReaderCloses, Kept, FrameFits, ChannelOf
<1>7. ASSUME NEW c \in Clients, WriterTake(c) PROVE Kept(k)'
  <2>1. CASE c # k
    BY <1>7, <1>s, <1>t, <2>1 DEF WriterTake, SameEnds
  <2>2. CASE c = k /\ writer'[k] = "writing" /\ frame'[k] = <<Head(send[k])>>
    <3>1. Len(frame'[k]) <= 1
      BY <2>2
    <3> QED
      BY <1>7, <1>c, <2>2, <3>1 DEF WriterTake, FrameFits
  <2>3. CASE c = k /\ writer'[k] = "closing"
    BY <1>7, <1>c, <2>3 DEF WriterTake, FrameFits
  <2> QED
    BY <1>7, <1>t, <2>1, <2>2, <2>3 DEF WriterTake
<1>8. ASSUME NEW c \in Clients, WriterDrain(c) PROVE Kept(k)'
  <2>1. CASE c # k
    BY <1>8, <1>s, <1>t, <2>1 DEF WriterDrain, SameEnds
  <2>2. CASE c = k
    <3>1. frame'[k] = frame[k] \o send[k] /\ writer'[k] = "flushing"
      BY <1>8, <1>t, <2>2 DEF WriterDrain
    <3>2. frame[k] \in Seq(Updates) /\ send[k] \in Seq(Updates) /\ Len(send[k]) <= Cap
      BY <1>t DEF IInv, TypeOK
    <3>3. Len(frame[k]) <= 1
      BY <1>0, <1>8, <2>2 DEF WriterDrain, FrameFits
    <3>4. /\ Len(frame[k] \o send[k]) = Len(frame[k]) + Len(send[k])
          /\ Len(frame[k]) \in Nat /\ Len(send[k]) \in Nat
      BY <3>2, ConcatProperties, LenProperties
    <3>5. Len(frame'[k]) <= Cap + 1
      <4>1. ASSUME NEW f \in Nat, NEW q \in Nat, f <= 1, q <= Cap
            PROVE  f + q <= Cap + 1
        BY <4>1, HubAssumption
      <4>2. Len(frame[k] \o send[k]) <= Cap + 1
        BY <3>2, <3>3, <3>4, <4>1
      <4> QED
        BY <3>1, <4>2
    <3> QED
      BY <1>8, <1>c, <3>1, <3>5 DEF WriterDrain, FrameFits
  <2> QED
    BY <2>1, <2>2
<1>9. ASSUME NEW c \in Clients, Flushed(c) PROVE Kept(k)'
  BY <1>0, <1>9, <1>c, <1>t DEF Flushed, FrameFits
<1>10. ASSUME NEW c \in Clients, FlushFails(c) PROVE Kept(k)'
  BY <1>0, <1>10, <1>c, <1>t DEF FlushFails, FrameFits
<1>11. ASSUME NEW c \in Clients, Ping(c) PROVE Kept(k)'
  BY <1>11, <1>s DEF Ping, SameEnds
<1>12. ASSUME NEW c \in Clients, PingFails(c) PROVE Kept(k)'
  BY <1>0, <1>12, <1>c, <1>t DEF PingFails, FrameFits
<1>13. ASSUME NEW c \in Clients, WriterSeesClosed(c) PROVE Kept(k)'
  BY <1>0, <1>13, <1>c, <1>t DEF WriterSeesClosed, FrameFits
<1>14. ASSUME NEW c \in Clients, WriterCloses(c) PROVE Kept(k)'
  <2>1. CASE c # k
    BY <1>14, <1>s, <1>t, <2>1 DEF WriterCloses, SameEnds
  <2>2. CASE c = k
    <3>1. /\ writer'[k] = "done" /\ conn'[k] = "closed" /\ conn[k] # "none"
          /\ UNCHANGED <<clients, closed, reader>>
      BY <1>0, <1>14, <1>t, <2>2 DEF WriterCloses
    <3> QED
      BY <1>0, <3>1 DEF Kept, FrameFits, ChannelOf
  <2> QED
    BY <2>1, <2>2
<1>15. ASSUME NEW c \in Clients, DeadlinePasses(c) PROVE Kept(k)'
  BY <1>15, <1>s DEF DeadlinePasses, SameEnds
<1>16. ASSUME NEW c \in Clients, PeerTurns(c) PROVE Kept(k)'
  BY <1>16, <1>s DEF PeerTurns, SameEnds
<1>17. CASE UNCHANGED vars
  BY <1>17, <1>s DEF vars, SameEnds
<1> QED
  BY <1>1, <1>2, <1>3, <1>4, <1>5, <1>6, <1>7, <1>8, <1>9, <1>10, <1>11, <1>12,
     <1>13, <1>14, <1>15, <1>16, <1>17
  DEF Next, HubStep, ReaderStep, WriterStep, World

LEMMA KeptHolds == Spec => [](IInv /\ InOrder /\ \A c \in Clients : Kept(c))
<1>1. IInv /\ (\A c \in Clients : Kept(c)) /\ [Next]_vars => (\A c \in Clients : Kept(c))'
  BY NextKept
<1> QED
  BY <1>1, InitIInv, NextIInv, InitInOrder, NextInOrder, InitKept, PTL DEF Spec

\* A channel is open exactly as long as its client is in the hub's set, and a reader
\* that is done has left it: who is dropped is told so, and nobody is forgotten in the set
\* (websocket.go Run, readPump's deferred calls).
ChannelsFollowHub == \A c \in Clients :
  /\ conn[c] # "none" => (c \in clients <=> ~closed[c])
  /\ reader[c] \in {"closing", "done"} => c \notin clients

THEOREM HubForgetsLeavers == Spec => []ChannelsFollowHub
<1>1. (\A c \in Clients : Kept(c)) => ChannelsFollowHub
  BY DEF Kept, ChannelOf, ChannelsFollowHub
<1> QED
  BY <1>1, KeptHolds, PTL

\* What the hub keeps in memory for a slow client is bounded: one it still serves is at
\* most a channel, a message made of a drained channel and one more, and the update under
\* way behind what was written to it (websocket.go Run's default branch, writePump's drain).
BacklogBounded == \A c \in clients :
  Active(c) => sent - joined[c] <= Len(written[c]) + 2 * Cap + 2

THEOREM SlowClientsAreCutOff == Spec => []BacklogBounded
<1>1. ASSUME IInv, InOrder, \A c \in Clients : Kept(c), NEW c \in clients, Active(c)
      PROVE  sent - joined[c] <= Len(written[c]) + 2 * Cap + 2
  <2>1. /\ c \in Clients /\ sent \in Nat /\ joined[c] \in Nat
        /\ written[c] \in Seq(Updates) /\ frame[c] \in Seq(Updates)
        /\ send[c] \in Seq(Updates) /\ Len(send[c]) <= Cap
    BY <1>1, HubAssumption DEF IInv, TypeOK
  <2>2. Len(written[c]) \in Nat /\ Len(frame[c]) \in Nat /\ Len(send[c]) \in Nat
    BY <2>1, LenProperties
  <2>3. Reached(c) \in {sent, sent - 1}
    BY <1>1, <2>1 DEF InOrder, InOrderOf
  <2>4. Len(frame[c]) <= Cap + 1
    <3>1. Kept(c) /\ Len(<<>>) = 0
      BY <1>1, <2>1
    <3> QED
      BY <1>1, <3>1, HubAssumption DEF Kept, FrameFits, Active
  <2>5. ASSUME NEW w \in Nat, NEW f \in Nat, NEW q \in Nat, f <= Cap + 1, q <= Cap,
               joined[c] + w + f + q \in {sent, sent - 1}
        PROVE  sent - joined[c] <= w + 2 * Cap + 2
    BY <2>1, <2>5, HubAssumption
  <2> QED
    BY <2>1, <2>2, <2>3, <2>4, <2>5 DEF Reached
<1>2. IInv /\ InOrder /\ (\A c \in Clients : Kept(c)) => BacklogBounded
  BY <1>1 DEF BacklogBounded
<1> QED
  BY <1>2, KeptHolds, PTL
=============================================================================
