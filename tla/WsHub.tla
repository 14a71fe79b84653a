-------------------------------- MODULE WsHub --------------------------------
(***************************************************************************)
(* The WebSocket hub: internal/infra/ws/hub.go.                            *)
(*                                                                         *)
(* Each connection has two goroutines, Serve (which becomes readPump) and  *)
(* writePump, and a bounded queue between the hub and writePump.           *)
(* Broadcast holds the hub's mutex from beginning to end and never blocks  *)
(* on a queue, so it is one step; Close releases the mutex after its first *)
(* step and then deals with one connection at a time.                      *)
(*                                                                         *)
(* The subscription table is left out: nothing but a test reads it.        *)
(***************************************************************************)
EXTENDS Naturals, Sequences, FiniteSets

CONSTANTS
    Conns,          \* connections, each used once
    Users,
    Owner,          \* Owner[c]: the authenticated user of c
    QueueSize,      \* Options.QueueSize
    MaxClients,     \* Options.MaxClients
    MaxEvents,      \* bound: broadcasts
    MaxMessages,    \* bound: client messages that are answered
    None

ASSUME ConstantsAssumption ==
    /\ IsFiniteSet(Conns)
    /\ Owner \in [Conns -> Users]
    /\ QueueSize \in Nat \ {0} /\ MaxClients \in Nat \ {0}
    /\ MaxEvents \in Nat /\ MaxMessages \in Nat
    /\ None \notin Users

\* Broadcast events are numbered.  A reply is a KeepAlive or a snapshot.
Message == ({"event"} \X (1 .. MaxEvents)) \cup ({"greeting", "reply", "farewell"} \X {0})

Farewell == <<"farewell", 0>>
IsEvent(m) == m[1] = "event"

VARIABLES
    clients,    \* Hub.clients
    closed,     \* Hub.closed
    dropped,    \* Hub.dropped
    telling,    \* Close: connections that have not been sent the farewell
    sealing,    \* Close: connections whose queue is still to be closed
    serve,      \* serve[c]: where the Serve goroutine is
    pump,       \* pump[c]: where the writePump goroutine is
    queue,      \* client.send
    sendClosed, \* client.sendClosed
    current,    \* the message writePump has taken from the queue
    conn,       \* the connection, as the server sees it
    peerGone,   \* connections whose peer has left or fallen silent
    owed,       \* history: the numbers of the events broadcast to c's user while
                \* c was registered and open, and not yet written to c
    farewelled, \* history: connections the farewell was written to
    told,       \* history: connections whose queue accepted the farewell
    disturbed,  \* history: connections cut by a failure or an overflow
    events, messages    \* the bounds

hub    == <<clients, closed, telling, sealing>>
bounds == <<events, messages>>
vars == <<hub, dropped, serve, pump, queue, sendClosed, current, conn, peerGone,
          owed, farewelled, told, disturbed, bounds>>

Init ==
    /\ clients = {}
    /\ closed = FALSE
    /\ dropped = 0
    /\ telling = {} /\ sealing = {}
    /\ serve = [c \in Conns |-> "none"]
    /\ pump = [c \in Conns |-> "none"]
    /\ queue = [c \in Conns |-> <<>>]
    /\ sendClosed = [c \in Conns |-> FALSE]
    /\ current = [c \in Conns |-> <<>>]
    /\ conn = [c \in Conns |-> "none"]
    /\ peerGone = {}
    /\ owed = [c \in Conns |-> {}]
    /\ farewelled = {} /\ told = {} /\ disturbed = {}
    /\ events = 0 /\ messages = 0

\* trySend succeeds: the queue is neither closed nor full.
Accepts(c) == ~sendClosed[c] /\ Len(queue[c]) < QueueSize

Enqueued(c, m) == [queue EXCEPT ![c] = Append(@, m)]

\* sendTo: a message that is not accepted is counted and ends the connection.
SendTo(c, m) ==
    IF Accepts(c)
    THEN queue' = Enqueued(c, m) /\ UNCHANGED <<dropped, conn, disturbed>>
    ELSE /\ dropped' = dropped + 1
         /\ conn' = [conn EXCEPT ![c] = "closed"]
         /\ disturbed' = disturbed \cup {c}
         /\ UNCHANGED queue

(***************************************************************************)
(* Serve and readPump                                                      *)
(***************************************************************************)

\* The capacity check; at capacity the answer is 503.
Check(c) ==
    /\ serve[c] = "none"
    /\ Cardinality(clients) < MaxClients
    /\ serve' = [serve EXCEPT ![c] = "checked"]
    /\ UNCHANGED <<hub, dropped, pump, queue, sendClosed, current, conn, peerGone,
                   owed, farewelled, told, disturbed, bounds>>

UpgradeFails(c) ==
    /\ serve[c] = "checked"
    /\ serve' = [serve EXCEPT ![c] = "gone"]
    /\ UNCHANGED <<hub, dropped, pump, queue, sendClosed, current, conn, peerGone,
                   owed, farewelled, told, disturbed, bounds>>

Registered(c) ==
    /\ clients' = clients \cup {c}
    /\ conn' = [conn EXCEPT ![c] = "open"]
    /\ serve' = [serve EXCEPT ![c] = "registered"]

\* Mutant: h.closed is not looked at again after the handshake.
RegisterUnchecked(c) ==
    /\ serve[c] = "checked"
    /\ Registered(c)
    /\ UNCHANGED <<closed, telling, sealing, dropped, pump, queue, sendClosed, current,
                   peerGone, owed, farewelled, told, disturbed, bounds>>

\* The handshake is done; the connection is registered unless the hub closed.
Register(c) ==
    /\ serve[c] = "checked"
    /\ IF closed
       THEN /\ conn' = [conn EXCEPT ![c] = "closed"]
            /\ serve' = [serve EXCEPT ![c] = "gone"]
            /\ UNCHANGED clients
       ELSE Registered(c)
    /\ UNCHANGED <<closed, telling, sealing, dropped, pump, queue, sendClosed, current,
                   peerGone, owed, farewelled, told, disturbed, bounds>>

\* ForceKeepAlive is queued and writePump starts.
Greet(c) ==
    /\ serve[c] = "registered"
    /\ SendTo(c, <<"greeting", 0>>)
    /\ serve' = [serve EXCEPT ![c] = "reading"]
    /\ pump' = [pump EXCEPT ![c] = "idle"]
    /\ UNCHANGED <<hub, sendClosed, current, peerGone, owed, farewelled, told, bounds>>

\* A KeepAlive, or a subscription whose snapshot is now being computed.  The
\* frame may have been in the read buffer when the connection ended.
Receive(c) ==
    /\ messages < MaxMessages
    /\ serve[c] = "reading"
    /\ serve' = [serve EXCEPT ![c] = "answering"]
    /\ messages' = messages + 1
    /\ UNCHANGED <<hub, dropped, pump, queue, sendClosed, current, conn, peerGone,
                   owed, farewelled, told, disturbed, events>>

Reply(c) ==
    /\ serve[c] = "answering"
    /\ SendTo(c, <<"reply", 0>>)
    /\ serve' = [serve EXCEPT ![c] = "reading"]
    /\ UNCHANGED <<hub, pump, sendClosed, current, peerGone, owed, farewelled, told,
                   bounds>>

\* The peer closes the connection, or stops answering pings.
PeerLeaves(c) ==
    /\ conn[c] = "open" /\ c \notin peerGone
    /\ peerGone' = peerGone \cup {c}
    /\ UNCHANGED <<hub, dropped, serve, pump, queue, sendClosed, current, conn,
                   owed, farewelled, told, disturbed, bounds>>

\* readPump returns, by an error or the read deadline, and Serve takes the
\* connection out of the table.
Leave(c) ==
    /\ serve[c] = "reading"
    /\ conn[c] = "closed" \/ c \in peerGone
    /\ clients' = clients \ {c}
    /\ serve' = [serve EXCEPT ![c] = "left"]
    /\ UNCHANGED <<closed, telling, sealing, dropped, pump, queue, sendClosed, current,
                   conn, peerGone, owed, farewelled, told, disturbed, bounds>>

\* Mutant: the queue is left open.
SealForgotten(c) ==
    /\ serve[c] = "left"
    /\ serve' = [serve EXCEPT ![c] = "waiting"]
    /\ UNCHANGED <<hub, dropped, pump, queue, sendClosed, current, conn, peerGone, owed,
                   farewelled, told, disturbed, bounds>>

\* closeSend
Seal(c) ==
    /\ serve[c] = "left"
    /\ sendClosed' = [sendClosed EXCEPT ![c] = TRUE]
    /\ serve' = [serve EXCEPT ![c] = "waiting"]
    /\ UNCHANGED <<hub, dropped, pump, queue, current, conn, peerGone, owed, farewelled,
                   told, disturbed, bounds>>

\* <-done, then conn.Close; what is left in the queue is garbage.
Release(c) ==
    /\ serve[c] = "waiting"
    /\ pump[c] = "done"
    /\ conn' = [conn EXCEPT ![c] = "closed"]
    /\ queue' = [queue EXCEPT ![c] = <<>>]
    /\ serve' = [serve EXCEPT ![c] = "gone"]
    /\ UNCHANGED <<hub, dropped, pump, sendClosed, current, peerGone, owed, farewelled,
                   told, disturbed, bounds>>

(***************************************************************************)
(* writePump                                                               *)
(***************************************************************************)

Take(c) ==
    /\ pump[c] = "idle"
    /\ queue[c] # <<>>
    /\ current' = [current EXCEPT ![c] = <<Head(queue[c])>>]
    /\ queue' = [queue EXCEPT ![c] = Tail(@)]
    /\ pump' = [pump EXCEPT ![c] = "writing"]
    /\ UNCHANGED <<hub, dropped, serve, sendClosed, conn, peerGone, owed, farewelled,
                   told, disturbed, bounds>>

Write(c) ==
    /\ pump[c] = "writing"
    /\ conn[c] = "open"
    /\ current' = [current EXCEPT ![c] = <<>>]
    /\ pump' = [pump EXCEPT ![c] = "idle"]
    /\ owed' = [owed EXCEPT ![c] = {n \in @ : current[c] # <<<<"event", n>>>>}]
    /\ farewelled' = IF current[c] = <<Farewell>> THEN farewelled \cup {c} ELSE farewelled
    /\ UNCHANGED <<hub, dropped, serve, queue, sendClosed, conn, peerGone, told,
                   disturbed, bounds>>

\* The deferred function: close frame, conn.Close, close(done).
PumpReturns(c) ==
    /\ conn' = [conn EXCEPT ![c] = "closed"]
    /\ current' = [current EXCEPT ![c] = <<>>]
    /\ owed' = [owed EXCEPT ![c] = {}]
    /\ pump' = [pump EXCEPT ![c] = "done"]

\* Writing the message or a ping fails or times out: the connection is
\* closed already, or its peer does not read.
WriteFails(c) ==
    /\ pump[c] \in {"idle", "writing"}
    /\ PumpReturns(c)
    /\ disturbed' = disturbed \cup {c}
    /\ UNCHANGED <<hub, dropped, serve, queue, sendClosed, peerGone, farewelled, told,
                   bounds>>

\* The queue is closed and drained.
Drained(c) ==
    /\ pump[c] = "idle"
    /\ queue[c] = <<>> /\ sendClosed[c]
    /\ PumpReturns(c)
    /\ UNCHANGED <<hub, dropped, serve, queue, sendClosed, peerGone, farewelled, told,
                   disturbed, bounds>>

(***************************************************************************)
(* Broadcast and Close                                                     *)
(***************************************************************************)

\* The connections of user u; None addresses everybody.
Addressed(u) == {c \in clients : u = None \/ Owner[c] = u}

\* What is owed, with event n, to the connections that are still open.
Owing(u, n) ==
    [c \in Conns |-> IF c \in Addressed(u) /\ conn[c] = "open"
                     THEN owed[c] \cup {n} ELSE owed[c]]

\* Mutant: an overflowing queue just loses the event.
BroadcastLossy(u) ==
    LET m == <<"event", events + 1>> IN
    /\ ~closed
    /\ events < MaxEvents
    /\ events' = events + 1
    /\ queue' = [c \in Conns |->
            IF c \in Addressed(u) /\ Accepts(c) THEN Append(queue[c], m) ELSE queue[c]]
    /\ owed' = Owing(u, events + 1)
    /\ UNCHANGED <<hub, dropped, serve, pump, sendClosed, current, conn, peerGone,
                   farewelled, told, disturbed, messages>>

Broadcast(u) ==
    LET m    == <<"event", events + 1>>
        lost == {c \in Addressed(u) : ~Accepts(c)}
    IN
    /\ ~closed
    /\ events < MaxEvents
    /\ events' = events + 1
    /\ queue' = [c \in Conns |->
            IF c \in Addressed(u) \ lost THEN Append(queue[c], m) ELSE queue[c]]
    /\ owed' = Owing(u, events + 1)
    /\ dropped' = dropped + Cardinality(lost)
    /\ conn' = [c \in Conns |-> IF c \in lost THEN "closed" ELSE conn[c]]
    /\ disturbed' = disturbed \cup lost
    /\ UNCHANGED <<hub, serve, pump, sendClosed, current, peerGone, farewelled, told,
                   messages>>

\* Mutant: the farewell is sent before the hub stops broadcasting.
CloseLate ==
    /\ ~closed /\ telling = {}
    /\ telling' = clients /\ sealing' = clients
    /\ UNCHANGED <<clients, closed, dropped, serve, pump, queue, sendClosed, current,
                   conn, peerGone, owed, farewelled, told, disturbed, bounds>>

\* Close marks the hub closed and lists its connections under the mutex.
Close ==
    /\ ~closed
    /\ closed' = TRUE
    /\ telling' = clients /\ sealing' = clients
    /\ UNCHANGED <<clients, dropped, serve, pump, queue, sendClosed, current, conn,
                   peerGone, owed, farewelled, told, disturbed, bounds>>

\* Its first loop: trySend of ServerShuttingDown, as far as there is room.
Tell(c) ==
    /\ c \in telling
    /\ telling' = telling \ {c}
    /\ IF Accepts(c)
       THEN queue' = Enqueued(c, Farewell) /\ told' = told \cup {c}
       ELSE UNCHANGED <<queue, told>>
    /\ UNCHANGED <<clients, closed, sealing, dropped, serve, pump, sendClosed, current,
                   conn, peerGone, owed, farewelled, disturbed, bounds>>

\* Its second loop: closeSend; writePump drains the queue.
CloseSend(c) ==
    /\ telling = {} /\ c \in sealing
    /\ sealing' = sealing \ {c}
    /\ sendClosed' = [sendClosed EXCEPT ![c] = TRUE]
    /\ UNCHANGED <<clients, closed, telling, dropped, serve, pump, queue, current, conn,
                   peerGone, owed, farewelled, told, disturbed, bounds>>

-----------------------------------------------------------------------------
Connection(c) ==
    \/ Check(c) \/ UpgradeFails(c) \/ Register(c) \/ Greet(c)
    \/ Receive(c) \/ Reply(c) \/ PeerLeaves(c)
    \/ Leave(c) \/ Seal(c) \/ Release(c)

Pump(c) == Take(c) \/ Write(c) \/ WriteFails(c) \/ Drained(c)

Next ==
    \/ \E c \in Conns : Connection(c) \/ Pump(c) \/ Tell(c) \/ CloseSend(c)
    \/ \E u \in Users \cup {None} : Broadcast(u)
    \/ Close

Spec == Init /\ [][Next]_vars

(***************************************************************************)
(* The goroutines run: handshakes are limited to 5 s, reads by PongWait,   *)
(* writes by WriteWait, and Close, once begun, runs through.  Peers and    *)
(* broadcasters owe nothing.                                               *)
(***************************************************************************)
Fairness ==
    /\ \A c \in Conns :
        /\ WF_vars(Register(c) \/ UpgradeFails(c))
        /\ WF_vars(Greet(c))
        /\ WF_vars(Reply(c))
        /\ WF_vars(Leave(c))
        /\ WF_vars(Seal(c))
        /\ WF_vars(Release(c))
        /\ WF_vars(Take(c) \/ Drained(c))
        /\ WF_vars(Write(c) \/ (pump[c] = "writing" /\ WriteFails(c)))
        /\ WF_vars(Tell(c))
        /\ WF_vars(CloseSend(c))

FairSpec == Spec /\ Fairness

-----------------------------------------------------------------------------
TypeOK ==
    /\ clients \subseteq Conns /\ telling \subseteq Conns /\ sealing \subseteq Conns
    /\ closed \in BOOLEAN
    /\ dropped \in Nat
    /\ serve \in [Conns -> {"none", "checked", "registered", "reading", "answering",
                            "left", "waiting", "gone"}]
    /\ pump \in [Conns -> {"none", "idle", "writing", "done"}]
    /\ queue \in [Conns -> Seq(Message)]
    /\ \A c \in Conns : Len(queue[c]) <= QueueSize
    /\ sendClosed \in [Conns -> BOOLEAN]
    /\ current \in [Conns -> {<<>>} \cup {<<m>> : m \in Message}]
    /\ conn \in [Conns -> {"none", "open", "closed"}]
    /\ peerGone \subseteq Conns
    /\ owed \in [Conns -> SUBSET (1 .. MaxEvents)]
    /\ farewelled \subseteq Conns
    /\ told \subseteq Conns /\ disturbed \subseteq Conns
    /\ events \in 0 .. MaxEvents /\ messages \in 0 .. MaxMessages

(***************************************************************************)
(* Safety                                                                  *)
(***************************************************************************)

\* What writePump has still to write, the message it is writing first.
Pending(c) == current[c] \o queue[c]

EventsIn(s) == {s[i][2] : i \in {j \in DOMAIN s : IsEvent(s[j])}}
InOrder(s) ==
    \A i, j \in DOMAIN s : i < j /\ IsEvent(s[i]) /\ IsEvent(s[j]) => s[i][2] < s[j][2]

\* A connection that is still open misses nothing: the events broadcast to
\* its user since it was registered have been written to it, except those
\* that are being written or queued, once each and in the order of the
\* broadcasts.  Whatever could not be queued has ended the connection, so
\* that the client reconnects and fetches the state again instead of going
\* on with a gap.
NoGap ==
    \A c \in Conns : conn[c] = "open" =>
        EventsIn(Pending(c)) = owed[c] /\ InOrder(Pending(c))

\* A registered connection's queue is not closed while the hub is running:
\* Serve takes the connection out of the table first ("先在锁内摘掉注册表，再关
\* send 通道"), so that no Broadcast mistakes a leaving client for a slow one.
SealedAfterLeaving ==
    \A c \in clients : sendClosed[c] => closed

\* No broadcast event follows ServerShuttingDown on any connection, although
\* Close sends it after it has released the hub's mutex.
FarewellEndsEvents ==
    \A c \in farewelled : EventsIn(Pending(c)) = {}

\* Close never ends a connection before the farewell its queue accepted has
\* been written: writePump drains the queue first.  Only failures of the
\* connection and overflowing queues cut it short.
FarewellWritten ==
    \A c \in told : conn[c] = "closed" /\ c \notin disturbed => c \in farewelled

\* How a connection ends: taken out of the table before its queue is closed,
\* and with the farewell as the last thing it gets, if nothing disturbs it.
OrderlyEnd == SealedAfterLeaving /\ FarewellEndsEvents /\ FarewellWritten

\* Options.MaxClients is the "全局并发连接上限，超过直接拒绝握手", a cap on the
\* connections there are at once.  The code checks it before the handshake
\* and registers after it.
CapacityHeld == Cardinality(clients) <= MaxClients

\* Hub.dropped is the number of "因队列满被丢弃的消息数", messages dropped
\* because a queue was full.  The code also counts messages that found their
\* queue closed.
DroppedWhenFull ==
    [][dropped' > dropped => \E c \in Conns : Len(queue[c]) = QueueSize]_vars

(***************************************************************************)
(* Liveness                                                                *)
(***************************************************************************)

\* A connection that was closed, or whose peer has gone, is taken out of the
\* table and both its goroutines end; none is left waiting for the other.
DeadConnectionReleased ==
    \A c \in Conns :
        (conn[c] = "closed" \/ c \in peerGone) ~> (serve[c] = "gone")

\* After Close every connection ends, also one that was just being accepted:
\* it is either told or turned away.
CloseEndsEverything ==
    \A c \in Conns : closed /\ serve[c] # "none" ~> serve[c] = "gone"
=============================================================================
