-------------------------------- MODULE Hub --------------------------------
(***************************************************************************)
(* The WebSocket hub of the web dashboard (internal/api/websocket.go).     *)
(*                                                                         *)
(* One goroutine, Run, owns the set of clients and is the only one to send *)
(* to or close their channels.  Every connection has a reader that waits   *)
(* for the peer to go away and a writer that moves updates from the        *)
(* channel into the connection and pings.  The two end each other: each    *)
(* closes the connection on its way out, and the reader asks the hub to    *)
(* close the channel.                                                      *)
(***************************************************************************)
EXTENDS Integers, Sequences

CONSTANTS
    Clients,     \* connections (Client objects); an object is used once
    Cap,         \* capacity of a client's channel (256 in the code)
    MaxUpdates   \* bound of this model: how many updates are broadcast

ASSUME HubAssumption == Cap \in Nat /\ Cap >= 1 /\ MaxUpdates \in Nat

VARIABLES
    clients,    \* Hub.clients
    sent,       \* number of the last update handed to Run
    todo,       \* clients that Run's loop over that update has not reached
    send,       \* c.send: the updates waiting in it, by number
    closed,     \* close(c.send) was called
    panicked,   \* a channel was closed twice, or sent to after its close
    conn,       \* "none", then "open", then "closed"
    reader,     \* where readPump stands
    writer,     \* where writePump stands
    frame,      \* updates in the text message being written
    written,    \* updates written to the connection
    deadline,   \* the connection's write deadline: "none", "set", "past"
    peer,       \* the browser: it reads and answers, is silent, or is gone
    joined      \* history: the last update before the client was registered

hubVars  == <<clients, sent, todo, panicked, joined>>
chanVars == <<send, closed>>
connVars == <<conn, reader, writer, frame, written, deadline>>
vars     == <<hubVars, chanVars, connVars, peer>>

ReaderAt == {"none", "reading", "leaving", "closing", "done"}
WriterAt == {"none", "idle", "writing", "flushing", "closing", "done"}
Updates  == 1 .. MaxUpdates

TypeOK ==
    /\ clients \subseteq Clients /\ todo \subseteq clients
    /\ sent \in 0 .. MaxUpdates
    /\ send \in [Clients -> Seq(Updates)]
    /\ \A c \in Clients : Len(send[c]) <= Cap
    /\ closed \in [Clients -> BOOLEAN] /\ panicked \in BOOLEAN
    /\ conn \in [Clients -> {"none", "open", "closed"}]
    /\ reader \in [Clients -> ReaderAt] /\ writer \in [Clients -> WriterAt]
    /\ frame \in [Clients -> Seq(Updates)] /\ written \in [Clients -> Seq(Updates)]
    /\ deadline \in [Clients -> {"none", "set", "past"}]
    /\ peer \in [Clients -> {"ok", "silent", "gone"}]
    /\ joined \in [Clients -> 0 .. MaxUpdates]

Init ==
    /\ clients = {} /\ sent = 0 /\ todo = {} /\ panicked = FALSE
    /\ send = [c \in Clients |-> <<>>] /\ closed = [c \in Clients |-> FALSE]
    /\ conn = [c \in Clients |-> "none"]
    /\ reader = [c \in Clients |-> "none"] /\ writer = [c \in Clients |-> "none"]
    /\ frame = [c \in Clients |-> <<>>] /\ written = [c \in Clients |-> <<>>]
    /\ deadline = [c \in Clients |-> "none"]
    /\ peer = [c \in Clients |-> "ok"] /\ joined = [c \in Clients |-> 0]

(***************************************************************************)
(* Run.  It is in its select exactly when no broadcast is under way.       *)
(***************************************************************************)
InSelect == todo = {}

CloseChannel(c) ==
    /\ closed' = [closed EXCEPT ![c] = TRUE]
    /\ panicked' = (panicked \/ closed[c])

\* handleWebsocket: the connection is upgraded, the client registered, and
\* its two pumps are started.
Register(c) ==
    /\ conn[c] = "none" /\ InSelect
    /\ clients' = clients \cup {c}
    /\ conn' = [conn EXCEPT ![c] = "open"]
    /\ reader' = [reader EXCEPT ![c] = "reading"]
    /\ writer' = [writer EXCEPT ![c] = "idle"]
    /\ joined' = [joined EXCEPT ![c] = sent]
    /\ UNCHANGED <<sent, todo, panicked, chanVars, frame, written, deadline, peer>>

\* A variant with the membership check left out.
UnregisterUnchecked(c) ==
    /\ reader[c] = "leaving" /\ InSelect
    /\ reader' = [reader EXCEPT ![c] = "closing"]
    /\ clients' = clients \ {c} /\ CloseChannel(c)
    /\ UNCHANGED <<sent, todo, send, joined, conn, writer, frame, written, deadline, peer>>

\* A variant in which the reader changes the hub's map itself, without Run.
UnregisterUnlocked(c) ==
    /\ reader[c] = "leaving" /\ c \in clients
    /\ reader' = [reader EXCEPT ![c] = "closing"]
    /\ clients' = clients \ {c} /\ CloseChannel(c)
    /\ UNCHANGED <<sent, todo, send, joined, conn, writer, frame, written, deadline, peer>>

\* readPump's deferred call: the hub closes the channel unless it has dropped
\* the client before.
Unregister(c) ==
    /\ reader[c] = "leaving" /\ InSelect
    /\ reader' = [reader EXCEPT ![c] = "closing"]
    /\ \/ /\ c \in clients
          /\ clients' = clients \ {c} /\ CloseChannel(c)
       \/ c \notin clients /\ UNCHANGED <<clients, closed, panicked>>
    /\ UNCHANGED <<sent, todo, send, joined, conn, writer, frame, written, deadline, peer>>

\* Hub.Broadcast, called by broadcastLoop about every two seconds.
Broadcast ==
    /\ InSelect /\ sent < MaxUpdates
    /\ sent' = sent + 1 /\ todo' = clients
    /\ UNCHANGED <<clients, panicked, joined, chanVars, connVars, peer>>

\* A variant that skips an update for a client whose channel is full.
SendToSkips(c) ==
    /\ c \in todo /\ todo' = todo \ {c}
    /\ \/ closed[c] /\ panicked' = TRUE /\ UNCHANGED send
       \/ /\ ~closed[c] /\ UNCHANGED panicked
          /\ send' = [send EXCEPT ![c] = IF Len(@) < Cap THEN Append(@, sent) ELSE @]
    /\ UNCHANGED <<clients, closed, sent, joined, connVars, peer>>

\* A variant without the default branch: the hub waits for room.
SendToBlocks(c) ==
    /\ c \in todo /\ todo' = todo \ {c}
    /\ ~closed[c] /\ Len(send[c]) < Cap
    /\ send' = [send EXCEPT ![c] = Append(@, sent)]
    /\ UNCHANGED <<clients, closed, panicked, sent, joined, connVars, peer>>

\* One round of the loop over the clients: a client whose channel is full is
\* dropped.
SendTo(c) ==
    /\ c \in todo /\ todo' = todo \ {c}
    /\ \/ /\ closed[c] /\ panicked' = TRUE
          /\ UNCHANGED <<clients, send, closed>>
       \/ /\ ~closed[c] /\ Len(send[c]) < Cap
          /\ send' = [send EXCEPT ![c] = Append(@, sent)]
          /\ UNCHANGED <<clients, closed, panicked>>
       \/ /\ ~closed[c] /\ Len(send[c]) = Cap
          /\ clients' = clients \ {c} /\ CloseChannel(c)
          /\ UNCHANGED send
    /\ UNCHANGED <<sent, joined, connVars, peer>>

(***************************************************************************)
(* readPump.                                                               *)
(***************************************************************************)

\* ReadMessage fails: the peer closed, or answered no ping for pongWait, or
\* the writer has closed the connection.
ReadFails(c) ==
    /\ reader[c] = "reading"
    /\ peer[c] # "ok" \/ conn[c] = "closed"
    /\ reader' = [reader EXCEPT ![c] = "leaving"]
    /\ UNCHANGED <<hubVars, chanVars, conn, writer, frame, written, deadline, peer>>

ReaderCloses(c) ==
    /\ reader[c] = "closing"
    /\ reader' = [reader EXCEPT ![c] = "done"]
    /\ conn' = [conn EXCEPT ![c] = "closed"]
    /\ UNCHANGED <<hubVars, chanVars, writer, frame, written, deadline, peer>>

(***************************************************************************)
(* writePump.                                                              *)
(***************************************************************************)
WriterGoes(c, to) == writer' = [writer EXCEPT ![c] = to]

\* The first update of a text message.  NextWriter fails once the library has
\* answered the peer's close frame.
WriterTake(c) ==
    /\ writer[c] = "idle" /\ send[c] # <<>>
    /\ send' = [send EXCEPT ![c] = Tail(@)]
    /\ \/ WriterGoes(c, "writing") /\ frame' = [frame EXCEPT ![c] = <<Head(send[c])>>]
       \/ /\ peer[c] = "gone" /\ reader[c] # "reading"
          /\ WriterGoes(c, "closing") /\ UNCHANGED frame
    /\ UNCHANGED <<hubVars, closed, conn, reader, written, deadline, peer>>

\* A variant that empties the channel and writes none of it.
WriterDrainForgets(c) ==
    /\ writer[c] = "writing" /\ WriterGoes(c, "flushing")
    /\ send' = [send EXCEPT ![c] = <<>>]
    /\ UNCHANGED <<hubVars, closed, conn, reader, frame, written, deadline, peer>>

\* Whatever else is in the channel at that moment goes into the same message.
WriterDrain(c) ==
    /\ writer[c] = "writing" /\ WriterGoes(c, "flushing")
    /\ frame' = [frame EXCEPT ![c] = @ \o send[c]]
    /\ send' = [send EXCEPT ![c] = <<>>]
    /\ UNCHANGED <<hubVars, closed, conn, reader, written, deadline, peer>>

Flushed(c) ==
    /\ writer[c] = "flushing" /\ conn[c] = "open" /\ deadline[c] # "past"
    /\ WriterGoes(c, "idle")
    /\ written' = [written EXCEPT ![c] = @ \o frame[c]]
    /\ frame' = [frame EXCEPT ![c] = <<>>]
    /\ UNCHANGED <<hubVars, chanVars, conn, reader, deadline, peer>>

\* The write deadline is the one the last ping has set; a message renews none.
FlushFails(c) ==
    /\ writer[c] = "flushing" /\ WriterGoes(c, "closing")
    /\ \/ conn[c] = "closed" \/ peer[c] = "gone" \/ deadline[c] = "past"
       \/ peer[c] = "silent" /\ deadline[c] = "set"
    /\ UNCHANGED <<hubVars, chanVars, conn, reader, frame, written, deadline, peer>>

Ping(c) ==
    /\ writer[c] = "idle" /\ conn[c] = "open"
    /\ deadline' = [deadline EXCEPT ![c] = "set"]
    /\ UNCHANGED <<hubVars, chanVars, conn, reader, writer, frame, written, peer>>

PingFails(c) ==
    /\ writer[c] = "idle" /\ (conn[c] = "closed" \/ peer[c] # "ok")
    /\ deadline' = [deadline EXCEPT ![c] = "set"]
    /\ WriterGoes(c, "closing")
    /\ UNCHANGED <<hubVars, chanVars, conn, reader, frame, written, peer>>

\* The channel is closed and empty: a close frame is tried, then the end.
WriterSeesClosed(c) ==
    /\ writer[c] = "idle" /\ closed[c] /\ send[c] = <<>>
    /\ deadline' = [deadline EXCEPT ![c] = "set"]
    /\ WriterGoes(c, "closing")
    /\ UNCHANGED <<hubVars, chanVars, conn, reader, frame, written, peer>>

\* What was written, or was about to be, is gone with the connection.
WriterCloses(c) ==
    /\ writer[c] = "closing" /\ WriterGoes(c, "done")
    /\ conn' = [conn EXCEPT ![c] = "closed"]
    /\ frame' = [frame EXCEPT ![c] = <<>>] /\ written' = [written EXCEPT ![c] = <<>>]
    /\ deadline' = [deadline EXCEPT ![c] = "none"]
    /\ UNCHANGED <<hubVars, chanVars, reader, peer>>

(***************************************************************************)
(* Time and the peer.                                                      *)
(***************************************************************************)
DeadlinePasses(c) ==
    /\ deadline[c] = "set" /\ conn[c] = "open"
    /\ deadline' = [deadline EXCEPT ![c] = "past"]
    /\ UNCHANGED <<hubVars, chanVars, conn, reader, writer, frame, written, peer>>

PeerTurns(c) ==
    /\ conn[c] = "open" /\ peer[c] # "gone"
    /\ \E p \in {"ok", "silent", "gone"} \ {peer[c]} : peer' = [peer EXCEPT ![c] = p]
    /\ UNCHANGED <<hubVars, chanVars, connVars>>

(***************************************************************************)
(* The specification.                                                      *)
(***************************************************************************)
HubStep(c)    == Register(c) \/ Unregister(c) \/ SendTo(c)
ReaderStep(c) == ReadFails(c) \/ ReaderCloses(c)
WriterStep(c) ==
    \/ WriterTake(c) \/ WriterDrain(c) \/ Flushed(c) \/ FlushFails(c)
    \/ Ping(c) \/ PingFails(c) \/ WriterSeesClosed(c) \/ WriterCloses(c)
World(c)      == DeadlinePasses(c) \/ PeerTurns(c)

Next ==
    \/ Broadcast
    \/ \E c \in Clients : HubStep(c) \/ ReaderStep(c) \/ WriterStep(c) \/ World(c)

Spec == Init /\ [][Next]_vars

\* A write ends if the peer reads or nothing can come of it any more; to a
\* silent peer it may block for as long as no deadline is set.
FlushEnds(c) == FlushFails(c) \/ (peer[c] # "silent" /\ Flushed(c))

\* Goroutines are scheduled; the select in Run takes each of its ready cases
\* in the end; a read ends at its deadline.
Fairness == \A c \in Clients :
    /\ WF_vars(SendTo(c)) /\ SF_vars(Unregister(c))
    /\ WF_vars(ReadFails(c)) /\ WF_vars(ReaderCloses(c))
    /\ WF_vars(WriterTake(c)) /\ WF_vars(WriterDrain(c)) /\ WF_vars(FlushEnds(c))
    /\ WF_vars(WriterSeesClosed(c)) /\ WF_vars(WriterCloses(c))

FairSpec == Spec /\ Fairness

(***************************************************************************)
(* Properties.                                                             *)
(***************************************************************************)

\* No channel is closed twice or sent to after its close, whichever of a full
\* channel and a leaving reader comes first: either would bring the process
\* down (websocket.go Run).
HubNeverPanics == ~panicked

\* What a client gets, in the connection, in the message being written and in
\* its channel, is every update since it joined, in order; one that falls
\* behind is cut off and never misses an update in the middle.
Stream(c) == written[c] \o frame[c] \o send[c]

NoUpdateSkipped == \A c \in Clients :
    writer[c] \in {"idle", "writing", "flushing"} =>
        /\ \A i \in DOMAIN Stream(c) : Stream(c)[i] = joined[c] + i
        /\ c \in clients \ todo => joined[c] + Len(Stream(c)) = sent

\* Where the peer has left or stays silent, both goroutines end and the hub
\* forgets the client: a dashboard that was closed leaves nothing behind.
NothingLingers == \A c \in Clients :
    [](/\ conn[c] # "none" /\ peer[c] # "ok"
       => <>(\/ peer[c] = "ok"
             \/ reader[c] = "done" /\ writer[c] = "done" /\ c \notin clients))

\* An update that reaches a client's channel is written to the connection, or
\* the connection ends.
UpdatesArrive == \A c \in Clients, n \in Updates :
    n \in {send[c][i] : i \in DOMAIN send[c]}
        ~> (\/ n \in {written[c][i] : i \in DOMAIN written[c]}
            \/ writer[c] = "done" \/ peer[c] = "silent")

\* The server does not break a connection whose peer reads and answers and
\* has not fallen behind (README, "maintains a persistent WebSocket
\* connection").
ConnectionPersists == [][\A c \in Clients :
    /\ writer[c] = "flushing" /\ writer'[c] = "closing"
    => peer[c] # "ok" \/ conn[c] = "closed" \/ closed[c]]_vars
=============================================================================
