---------------------------- MODULE WsHub_proofs ----------------------------
(***************************************************************************)
(* What the hub promises its connections, proved for any connections,      *)
(* users, queue size and bounds: no connection that is open has a gap in   *)
(* its events, and every connection ends in order, the farewell last.      *)
(***************************************************************************)
EXTENDS WsHub, FiniteSetTheorems, SequenceTheorems, TLAPS

(***************************************************************************)
(* The inductive invariant, of one connection                              *)
(***************************************************************************)

\* Nobody knows of a connection before it is registered.
Beginning(c) ==
    serve[c] \in {"none", "checked"} =>
        /\ conn[c] = "none" /\ pump[c] = "none" /\ queue[c] = <<>>
        /\ ~sendClosed[c] /\ owed[c] = {}
        /\ c \notin clients \cup telling \cup sealing \cup told \cup farewelled

\* writePump holds a message while it writes it, and closes the connection
\* before it returns.
PumpState(c) ==
    /\ current[c] # <<>> <=> pump[c] = "writing"
    /\ serve[c] = "registered" => pump[c] = "none"
    /\ pump[c] = "done" => conn[c] = "closed"

\* The table holds the connections that are served, and closing their queues
\* is left to Close.
InTable(c) ==
    /\ c \in clients => serve[c] \in {"registered", "reading", "answering"}
    /\ c \in telling \cup sealing => closed
    /\ c \in clients /\ sendClosed[c] => closed

\* Events are numbered in the order of the broadcasts.
Numbered(c) == \A n \in EventsIn(Pending(c)) : n <= events

NoGapAt(c) == conn[c] = "open" => EventsIn(Pending(c)) = owed[c] /\ InOrder(Pending(c))

HasFarewell(s) == \E i \in DOMAIN s : s[i] = Farewell
FarewellEnds(s) ==
    \A i, j \in DOMAIN s : i < j /\ s[i] = Farewell => ~IsEvent(s[j])

\* Nothing is broadcast once a farewell is on its way.
FarewellLast(c) ==
    /\ c \in farewelled => closed /\ EventsIn(Pending(c)) = {}
    /\ HasFarewell(Pending(c)) => closed
    /\ FarewellEnds(Pending(c))

\* A farewell that was queued is on its way to an open connection or was
\* written, unless the connection was cut; and a connection that is not open
\* is out of Close's reach or its queue is closed.
FarewellComes(c) ==
    /\ c \in told \ (disturbed \cup farewelled) =>
            conn[c] = "open" /\ HasFarewell(Pending(c))
    /\ conn[c] # "open" /\ c \notin disturbed =>
            sendClosed[c] \/ c \notin clients \cup telling

Orderly(c) ==
    /\ Beginning(c) /\ PumpState(c) /\ InTable(c) /\ Numbered(c) /\ NoGapAt(c)
    /\ FarewellLast(c) /\ FarewellComes(c)

HubInv == TypeOK /\ \A c \in Conns : Orderly(c)

(***************************************************************************)
(* Messages and what is pending                                            *)
(***************************************************************************)

LEMMA Messages ==
    /\ Farewell \in Message /\ <<"greeting", 0>> \in Message /\ <<"reply", 0>> \in Message
    /\ ~IsEvent(Farewell) /\ ~IsEvent(<<"greeting", 0>>) /\ ~IsEvent(<<"reply", 0>>)
    /\ Farewell # <<"greeting", 0>> /\ Farewell # <<"reply", 0>>
    /\ \A n \in 1 .. MaxEvents :
            /\ <<"event", n>> \in Message /\ IsEvent(<<"event", n>>)
            /\ <<"event", n>>[2] = n /\ <<"event", n>> # Farewell
    /\ \A m \in Message : IsEvent(m) => m[2] \in 1 .. MaxEvents /\ m = <<"event", m[2]>>
BY ConstantsAssumption DEF Message, Farewell, IsEvent

\* A message joins the end of a sequence of messages.
LEMMA Joined ==
    ASSUME NEW s \in Seq(Message), NEW m \in Message
    PROVE  LET t == Append(s, m) IN
           /\ t \in Seq(Message) /\ Len(t) = Len(s) + 1 /\ t # <<>>
           /\ DOMAIN s = 1 .. Len(s) /\ DOMAIN t = 1 .. Len(s) + 1
           /\ t[Len(s) + 1] = m /\ \A i \in 1 .. Len(s) : t[i] = s[i]
OBVIOUS

LEMMA JoinedEvents ==
    ASSUME NEW s \in Seq(Message), NEW m \in Message
    PROVE  /\ ~IsEvent(m) => EventsIn(Append(s, m)) = EventsIn(s)
           /\ IsEvent(m) => EventsIn(Append(s, m)) = EventsIn(s) \cup {m[2]}
           /\ InOrder(s) /\ (IsEvent(m) => \A n \in EventsIn(s) : n < m[2])
                => InOrder(Append(s, m))
<1> DEFINE t == Append(s, m)
           n == Len(s)
<1>1. /\ n \in Nat /\ DOMAIN s = 1 .. n /\ DOMAIN t = 1 .. n + 1
      /\ t[n + 1] = m /\ \A i \in 1 .. n : t[i] = s[i]
    BY Joined
<1> HIDE DEF t, n
<1>2. 1 .. n + 1 = (1 .. n) \cup {n + 1} /\ n + 1 \notin 1 .. n
    BY <1>1
<1>3. EventsIn(t) = {t[i][2] : i \in {j \in 1 .. n + 1 : IsEvent(t[j])}}
    BY <1>1 DEF EventsIn
<1>4. EventsIn(s) = {s[i][2] : i \in {j \in 1 .. n : IsEvent(s[j])}}
    BY <1>1 DEF EventsIn
<1>5. ~IsEvent(m) => EventsIn(t) = EventsIn(s)
    BY <1>1, <1>2, <1>3, <1>4
<1>6. IsEvent(m) => EventsIn(t) = EventsIn(s) \cup {m[2]}
    BY <1>1, <1>2, <1>3, <1>4
<1>7. ASSUME InOrder(s), IsEvent(m) => \A e \in EventsIn(s) : e < m[2] PROVE InOrder(t)
  <2> SUFFICES ASSUME NEW i \in DOMAIN t, NEW j \in DOMAIN t, i < j, IsEvent(t[i]), IsEvent(t[j])
               PROVE  t[i][2] < t[j][2]
    BY DEF InOrder
  <2>1. i \in 1 .. n
    BY <1>1
  <2>2. CASE j \in 1 .. n
    BY <1>1, <1>7, <2>1, <2>2 DEF InOrder
  <2>3. CASE j = n + 1
    <3>1. s[i][2] \in EventsIn(s) /\ t[i] = s[i] /\ t[j] = m
      BY <1>1, <1>4, <2>1, <2>3
    <3> QED BY <1>7, <3>1
  <2> QED BY <1>1, <1>2, <2>2, <2>3
<1> QED BY <1>5, <1>6, <1>7 DEF t

\* The first message leaves.
LEMMA Left ==
    ASSUME NEW s \in Seq(Message), NEW m \in Message
    PROVE  LET t == <<m>> \o s IN
           /\ t \in Seq(Message) /\ Len(t) = Len(s) + 1
           /\ DOMAIN s = 1 .. Len(s) /\ DOMAIN t = 1 .. Len(s) + 1
           /\ t[1] = m /\ \A i \in 1 .. Len(s) : t[i + 1] = s[i]
OBVIOUS

LEMMA LeftEvents ==
    ASSUME NEW s \in Seq(Message), NEW m \in Message
    PROVE  /\ EventsIn(s) \subseteq EventsIn(<<m>> \o s)
           /\ ~IsEvent(m) => EventsIn(s) = EventsIn(<<m>> \o s)
           /\ IsEvent(m) /\ InOrder(<<m>> \o s) => EventsIn(s) = EventsIn(<<m>> \o s) \ {m[2]}
           /\ InOrder(<<m>> \o s) => InOrder(s)
<1> DEFINE t == <<m>> \o s
           n == Len(s)
<1>1. /\ n \in Nat /\ DOMAIN s = 1 .. n /\ DOMAIN t = 1 .. n + 1
      /\ t[1] = m /\ \A i \in 1 .. n : t[i + 1] = s[i] /\ i + 1 \in DOMAIN t
    BY Left
<1>0. s \in [1 .. n -> Message] /\ \A i \in 1 .. n : s[i] \in Message
    BY <1>1
<1> HIDE DEF t, n
<1>2. \A i \in 1 .. n + 1 : i = 1 \/ (i - 1 \in 1 .. n /\ t[i] = s[i - 1])
  <2> SUFFICES ASSUME NEW i \in 1 .. n + 1, i # 1 PROVE i - 1 \in 1 .. n /\ t[i] = s[i - 1]
    OBVIOUS
  <2>1. i - 1 \in 1 .. n /\ (i - 1) + 1 = i
    BY <1>1
  <2> QED BY <1>1, <2>1
<1>3. EventsIn(t) = {t[i][2] : i \in {j \in 1 .. n + 1 : IsEvent(t[j])}}
    BY <1>1 DEF EventsIn
<1>4. EventsIn(s) = {s[i][2] : i \in {j \in 1 .. n : IsEvent(s[j])}}
    BY <1>1 DEF EventsIn
<1>5. EventsIn(s) \subseteq EventsIn(t)
  <2> SUFFICES ASSUME NEW i \in 1 .. n, IsEvent(s[i]) PROVE s[i][2] \in EventsIn(t)
    BY <1>4
  <2>1. i + 1 \in 1 .. n + 1 /\ t[i + 1] = s[i]
    BY <1>1
  <2> QED BY <1>3, <2>1
<1>6. EventsIn(t) \subseteq EventsIn(s) \cup (IF IsEvent(m) THEN {m[2]} ELSE {})
  <2> SUFFICES ASSUME NEW i \in 1 .. n + 1, IsEvent(t[i])
               PROVE  t[i][2] \in EventsIn(s) \cup (IF IsEvent(m) THEN {m[2]} ELSE {})
    BY <1>3
  <2>1. CASE i = 1
    BY <1>1, <2>1
  <2>2. CASE i # 1
    BY <1>2, <1>4, <2>2
  <2> QED BY <2>1, <2>2
<1>7. IsEvent(m) /\ InOrder(t) => m[2] \notin EventsIn(s)
  <2> SUFFICES ASSUME IsEvent(m), InOrder(t), NEW i \in 1 .. n, IsEvent(s[i]) PROVE s[i][2] # m[2]
    BY <1>4
  <2>1. t[1][2] < t[i + 1][2]
    <3>1. 1 \in DOMAIN t /\ i + 1 \in DOMAIN t /\ 1 < i + 1
      BY <1>1
    <3> QED BY <1>1, <3>1 DEF InOrder
  <2>2. s[i][2] \in Nat /\ m[2] \in Nat
    BY <1>0, Messages
  <2> QED BY <1>1, <2>1, <2>2
<1>8. InOrder(t) => InOrder(s)
  <2> SUFFICES ASSUME InOrder(t), NEW i \in 1 .. n, NEW j \in 1 .. n, i < j, IsEvent(s[i]),
                      IsEvent(s[j])
               PROVE  s[i][2] < s[j][2]
    BY <1>1 DEF InOrder
  <2>1. i + 1 \in DOMAIN t /\ j + 1 \in DOMAIN t /\ i + 1 < j + 1
    BY <1>1
  <2> QED BY <1>1, <2>1 DEF InOrder
<1> QED BY <1>5, <1>6, <1>7, <1>8 DEF t

LEMMA JoinedFarewell ==
    ASSUME NEW s \in Seq(Message), NEW m \in Message
    PROVE  /\ HasFarewell(Append(s, m)) <=> HasFarewell(s) \/ m = Farewell
           /\ FarewellEnds(s) /\ (HasFarewell(s) => ~IsEvent(m)) => FarewellEnds(Append(s, m))
<1> DEFINE t == Append(s, m)
           n == Len(s)
<1>1. /\ n \in Nat /\ DOMAIN s = 1 .. n /\ DOMAIN t = 1 .. n + 1
      /\ t[n + 1] = m /\ \A i \in 1 .. n : t[i] = s[i]
    BY Joined
<1> HIDE DEF t, n
<1>2. 1 .. n + 1 = (1 .. n) \cup {n + 1}
    BY <1>1
<1>3. HasFarewell(t) <=> HasFarewell(s) \/ m = Farewell
    BY <1>1, <1>2 DEF HasFarewell
<1>4. ASSUME FarewellEnds(s), HasFarewell(s) => ~IsEvent(m) PROVE FarewellEnds(t)
  <2> SUFFICES ASSUME NEW i \in DOMAIN t, NEW j \in DOMAIN t, i < j, t[i] = Farewell
               PROVE  ~IsEvent(t[j])
    BY DEF FarewellEnds
  <2>1. i \in 1 .. n
    BY <1>1
  <2>2. CASE j \in 1 .. n
    BY <1>1, <1>4, <2>1, <2>2 DEF FarewellEnds
  <2>3. CASE j = n + 1
    BY <1>1, <1>4, <2>1, <2>3 DEF HasFarewell
  <2> QED BY <1>1, <1>2, <2>2, <2>3
<1> QED BY <1>3, <1>4 DEF t

LEMMA LeftFarewell ==
    ASSUME NEW s \in Seq(Message), NEW m \in Message
    PROVE  /\ HasFarewell(<<m>> \o s) <=> m = Farewell \/ HasFarewell(s)
           /\ FarewellEnds(<<m>> \o s) => FarewellEnds(s) /\ (m = Farewell => EventsIn(s) = {})
<1> DEFINE t == <<m>> \o s
           n == Len(s)
<1>1. /\ n \in Nat /\ DOMAIN s = 1 .. n /\ DOMAIN t = 1 .. n + 1
      /\ t[1] = m /\ 1 \in DOMAIN t
      /\ \A i \in 1 .. n : t[i + 1] = s[i] /\ i + 1 \in DOMAIN t /\ 1 < i + 1
    BY Left
<1> HIDE DEF t, n
<1>2. \A i \in 1 .. n + 1 : i = 1 \/ (i - 1 \in 1 .. n /\ t[i] = s[i - 1])
  <2> SUFFICES ASSUME NEW i \in 1 .. n + 1, i # 1 PROVE i - 1 \in 1 .. n /\ t[i] = s[i - 1]
    OBVIOUS
  <2>1. i - 1 \in 1 .. n /\ (i - 1) + 1 = i
    BY <1>1
  <2> QED BY <1>1, <2>1
<1>3. HasFarewell(t) <=> m = Farewell \/ HasFarewell(s)
    BY <1>1, <1>2 DEF HasFarewell
<1>4. ASSUME FarewellEnds(t) PROVE FarewellEnds(s)
  <2> SUFFICES ASSUME NEW i \in 1 .. n, NEW j \in 1 .. n, i < j, s[i] = Farewell
               PROVE  ~IsEvent(s[j])
    BY <1>1 DEF FarewellEnds
  <2>1. i + 1 \in DOMAIN t /\ j + 1 \in DOMAIN t /\ i + 1 < j + 1
    BY <1>1
  <2> QED BY <1>1, <1>4, <2>1 DEF FarewellEnds
<1>5. ASSUME FarewellEnds(t), m = Farewell PROVE EventsIn(s) = {}
  <2> SUFFICES ASSUME NEW i \in 1 .. n PROVE ~IsEvent(s[i])
    BY <1>1 DEF EventsIn
  <2> QED BY <1>1, <1>5 DEF FarewellEnds
<1> QED BY <1>3, <1>4, <1>5 DEF t

LEMMA EmptyFacts ==
    /\ <<>> \in Seq(Message) /\ EventsIn(<<>>) = {} /\ InOrder(<<>>)
    /\ ~HasFarewell(<<>>) /\ FarewellEnds(<<>>)
<1>1. DOMAIN <<>> = {}
    OBVIOUS
<1> QED BY <1>1 DEF EventsIn, InOrder, HasFarewell, FarewellEnds

LEMMA PendingIs ==
    ASSUME TypeOK, NEW c \in Conns
    PROVE  /\ queue[c] \in Seq(Message) /\ Pending(c) \in Seq(Message)
           /\ current[c] = <<>> \/ \E m \in Message : current[c] = <<m>>
           /\ current[c] = <<>> => Pending(c) = queue[c]
<1>1. /\ queue[c] \in Seq(Message)
      /\ current[c] = <<>> \/ \E m \in Message : current[c] = <<m>>
    BY DEF TypeOK
<1>2. CASE current[c] = <<>>
    BY <1>1, <1>2, ConcatEmptySeq DEF Pending
<1>3. CASE \E m \in Message : current[c] = <<m>>
    BY <1>1, <1>3, Left DEF Pending
<1> QED BY <1>1, <1>2, <1>3

LEMMA PendingGrows ==
    ASSUME TypeOK, NEW c \in Conns, NEW m \in Message,
           queue'[c] = Append(queue[c], m), current'[c] = current[c]
    PROVE  Pending(c)' = Append(Pending(c), m)
<1> DEFINE q == queue[c]
           k == current[c]
<1>1. q \in Seq(Message) /\ (k = <<>> \/ \E l \in Message : k = <<l>>)
    BY PendingIs
<1>2. k \in Seq(Message)
  <2>1. <<>> \in Seq(Message) /\ \A l \in Message : <<l>> \in Seq(Message)
    OBVIOUS
  <2> QED BY <1>1, <2>1
<1>3. Pending(c) = k \o q /\ Pending(c)' = k \o Append(q, m)
    BY DEF Pending
<1> HIDE DEF q, k
<1>4. k \o Append(q, m) = Append(k \o q, m)
  <2>1. /\ Append(q, m) = q \o <<m>> /\ k \o q \in Seq(Message)
        /\ Append(k \o q, m) = (k \o q) \o <<m>>
    BY <1>1, <1>2, AppendIsConcat, ConcatProperties
  <2>2. <<m>> \in Seq(Message)
    OBVIOUS
  <2>3. (k \o q) \o <<m>> = k \o (q \o <<m>>)
    BY <1>1, <1>2, <2>2, ConcatAssociative
  <2> QED BY <2>1, <2>3
<1> QED BY <1>3, <1>4

LEMMA PendingStays ==
    ASSUME TypeOK, NEW c \in Conns, current[c] = <<>>, queue[c] # <<>>,
           current'[c] = <<Head(queue[c])>>, queue'[c] = Tail(queue[c])
    PROVE  Pending(c)' = Pending(c) /\ Head(queue[c]) \in Message /\ Tail(queue[c]) \in Seq(Message)
<1>1. queue[c] \in Seq(Message) /\ Pending(c) = queue[c]
    BY PendingIs
<1>2. Pending(c)' = <<Head(queue[c])>> \o Tail(queue[c])
    BY DEF Pending
<1> DEFINE q == queue[c]
<1>3. /\ Head(q) \in Message /\ Tail(q) \in Seq(Message) /\ Head(q) = q[1]
      /\ Len(q) \in Nat \ {0} /\ Len(Tail(q)) = Len(q) - 1
      /\ \A i \in 1 .. Len(Tail(q)) : Tail(q)[i] = q[i + 1]
    BY <1>1, HeadTailProperties
<1> DEFINE t == <<Head(q)>> \o Tail(q)
<1>4. /\ t \in Seq(Message) /\ Len(t) = Len(q) /\ t[1] = q[1]
      /\ \A i \in 1 .. Len(Tail(q)) : t[i + 1] = q[i + 1]
    BY <1>3, Left
<1>5. ASSUME NEW i \in 1 .. Len(q) PROVE t[i] = q[i]
  <2>1. CASE i = 1
    BY <1>4, <2>1
  <2>2. CASE i # 1
    <3>1. i - 1 \in 1 .. Len(Tail(q)) /\ (i - 1) + 1 = i
      BY <1>3, <2>2
    <3> QED BY <1>4, <3>1
  <2> QED BY <2>1, <2>2
<1>6. t = q
    BY <1>1, <1>4, <1>5, SeqEqual
<1> QED BY <1>1, <1>2, <1>3, <1>6

LEMMA PendingShrinks ==
    ASSUME TypeOK, NEW c \in Conns, NEW m \in Message, current[c] = <<m>>,
           current'[c] = <<>>, queue'[c] = queue[c]
    PROVE  Pending(c) = <<m>> \o queue[c] /\ Pending(c)' = queue[c]
<1>1. queue[c] \in Seq(Message)
    BY PendingIs
<1> QED BY <1>1, ConcatEmptySeq DEF Pending

(***************************************************************************)
(* Types                                                                   *)
(***************************************************************************)

LEMMA SendToTyped ==
    ASSUME TypeOK, NEW c \in Conns, NEW m \in Message, SendTo(c, m)
    PROVE  /\ queue' \in [Conns -> Seq(Message)] /\ \A d \in Conns : Len(queue'[d]) <= QueueSize
           /\ dropped' \in Nat /\ conn' \in [Conns -> {"none", "open", "closed"}]
           /\ disturbed' \subseteq Conns
<1> USE DEF TypeOK
<1>1. CASE Accepts(c)
  <2>1. queue' = [queue EXCEPT ![c] = Append(@, m)] /\ Len(queue[c]) < QueueSize
    BY <1>1 DEF SendTo, Enqueued, Accepts
  <2>2. Append(queue[c], m) \in Seq(Message) /\ Len(Append(queue[c], m)) = Len(queue[c]) + 1
    <3>1. queue[c] \in Seq(Message)
      OBVIOUS
    <3> HIDE DEF TypeOK
    <3> QED BY <3>1, Joined
  <2>3. Len(queue[c]) \in Nat /\ QueueSize \in Nat
    BY ConstantsAssumption
  <2>4. queue' \in [Conns -> Seq(Message)] /\ \A d \in Conns : Len(queue'[d]) <= QueueSize
    BY <2>1, <2>2, <2>3
  <2>5. UNCHANGED <<dropped, conn, disturbed>>
    BY <1>1 DEF SendTo
  <2> QED BY <2>4, <2>5
<1>2. CASE ~Accepts(c)
  <2>1. /\ dropped' = dropped + 1 /\ conn' = [conn EXCEPT ![c] = "closed"]
        /\ disturbed' = disturbed \cup {c} /\ queue' = queue
    BY <1>2 DEF SendTo
  <2>2. conn' \in [Conns -> {"none", "open", "closed"}] /\ dropped' \in Nat
    BY <2>1
  <2> QED BY <2>1, <2>2
<1> QED BY <1>1, <1>2

LEMMA InitTyped == Init => TypeOK
<1> SUFFICES ASSUME Init PROVE TypeOK
    OBVIOUS
<1>1. <<>> \in Seq(Message) /\ Len(<<>>) = 0 /\ QueueSize \in Nat
    BY ConstantsAssumption
<1>2. 0 \in 0 .. MaxEvents /\ 0 \in 0 .. MaxMessages
    BY ConstantsAssumption
<1>3. /\ queue \in [Conns -> Seq(Message)] /\ \A c \in Conns : Len(queue[c]) <= QueueSize
      /\ current \in [Conns -> {<<>>} \cup {<<m>> : m \in Message}]
    BY <1>1 DEF Init
<1> QED BY <1>2, <1>3 DEF Init, TypeOK

LEMMA ConnectionTyped ==
    ASSUME TypeOK, NEW c \in Conns, Connection(c) PROVE TypeOK'
<1>1. CASE Check(c)
    BY <1>1 DEF Check, hub, bounds, TypeOK
<1>2. CASE UpgradeFails(c)
    BY <1>2 DEF UpgradeFails, hub, bounds, TypeOK
<1>3. CASE Register(c)
  <2>1. /\ clients' \subseteq Conns /\ conn' \in [Conns -> {"none", "open", "closed"}]
        /\ serve' \in [Conns -> {"none", "checked", "registered", "reading", "answering",
                                 "left", "waiting", "gone"}]
    <3>1. CASE closed
      BY <1>3, <3>1 DEF Register, TypeOK
    <3>2. CASE ~closed
      <4>1. /\ clients' = clients \cup {c} /\ conn' = [conn EXCEPT ![c] = "open"]
            /\ serve' = [serve EXCEPT ![c] = "registered"]
        BY <1>3, <3>2 DEF Register, Registered
      <4> QED BY <4>1 DEF TypeOK
    <3> QED BY <3>1, <3>2
  <2> QED BY <1>3, <2>1 DEF Register, bounds, TypeOK
<1>4. CASE Greet(c)
    BY <1>4, SendToTyped, Messages DEF Greet, hub, bounds, TypeOK
<1>5. CASE Receive(c)
    BY <1>5, ConstantsAssumption DEF Receive, hub, TypeOK
<1>6. CASE Reply(c)
    BY <1>6, SendToTyped, Messages DEF Reply, hub, bounds, TypeOK
<1>7. CASE PeerLeaves(c)
    BY <1>7 DEF PeerLeaves, hub, bounds, TypeOK
<1>8. CASE Leave(c)
    BY <1>8 DEF Leave, bounds, TypeOK
<1>9. CASE Seal(c)
    BY <1>9 DEF Seal, hub, bounds, TypeOK
<1>10. CASE Release(c)
  <2>1. <<>> \in Seq(Message) /\ Len(<<>>) = 0 /\ QueueSize \in Nat
    BY ConstantsAssumption
  <2> QED BY <1>10, <2>1 DEF Release, hub, bounds, TypeOK
<1> QED BY <1>1, <1>2, <1>3, <1>4, <1>5, <1>6, <1>7, <1>8, <1>9, <1>10 DEF Connection

LEMMA PumpTyped ==
    ASSUME TypeOK, NEW c \in Conns, Pump(c) PROVE TypeOK'
<1>1. CASE Take(c)
  <2>1. /\ Head(queue[c]) \in Message /\ Tail(queue[c]) \in Seq(Message)
        /\ Len(Tail(queue[c])) = Len(queue[c]) - 1 /\ Len(queue[c]) \in Nat
        /\ Len(queue[c]) <= QueueSize /\ QueueSize \in Nat
    BY <1>1, HeadTailProperties, ConstantsAssumption DEF Take, TypeOK
  <2>2. queue' \in [Conns -> Seq(Message)] /\ \A d \in Conns : Len(queue'[d]) <= QueueSize
    BY <1>1, <2>1 DEF Take, TypeOK
  <2> QED BY <1>1, <2>1, <2>2 DEF Take, hub, bounds, TypeOK
<1>2. CASE Write(c)
    BY <1>2 DEF Write, hub, bounds, TypeOK
<1>3. CASE WriteFails(c)
    BY <1>3 DEF WriteFails, PumpReturns, hub, bounds, TypeOK
<1>4. CASE Drained(c)
    BY <1>4 DEF Drained, PumpReturns, hub, bounds, TypeOK
<1> QED BY <1>1, <1>2, <1>3, <1>4 DEF Pump

LEMMA BroadcastTyped ==
    ASSUME TypeOK, NEW u \in Users \cup {None}, Broadcast(u) PROVE TypeOK'
<1> DEFINE m == <<"event", events + 1>>
           lost == {c \in Addressed(u) : ~Accepts(c)}
<1>1. events + 1 \in 1 .. MaxEvents /\ events + 1 \in 0 .. MaxEvents
    BY ConstantsAssumption DEF Broadcast, TypeOK
<1>2. m \in Message
    BY <1>1, Messages
<1>3. lost \in SUBSET Conns /\ Cardinality(lost) \in Nat
  <2>1. lost \in SUBSET Conns
    BY DEF Addressed, TypeOK
  <2> QED BY <2>1, ConstantsAssumption, FS_Subset, FS_CardinalityType
<1>4. owed' \in [Conns -> SUBSET (1 .. MaxEvents)]
    BY <1>1 DEF Broadcast, Owing, TypeOK
<1> HIDE DEF m, lost
<1>5. /\ queue' = [c \in Conns |->
            IF c \in Addressed(u) \ lost THEN Append(queue[c], m) ELSE queue[c]]
      /\ dropped' = dropped + Cardinality(lost)
      /\ conn' = [c \in Conns |-> IF c \in lost THEN "closed" ELSE conn[c]]
      /\ disturbed' = disturbed \cup lost
      /\ events' = events + 1
    BY DEF Broadcast, m, lost
<1>6. ASSUME NEW c \in Conns PROVE queue'[c] \in Seq(Message) /\ Len(queue'[c]) <= QueueSize
  <2>1. queue[c] \in Seq(Message) /\ Len(queue[c]) \in Nat /\ Len(queue[c]) <= QueueSize
        /\ QueueSize \in Nat
    BY ConstantsAssumption DEF TypeOK
  <2>2. Append(queue[c], m) \in Seq(Message) /\ Len(Append(queue[c], m)) = Len(queue[c]) + 1
    BY <1>2, <2>1, Joined
  <2>3. c \in Addressed(u) \ lost => Len(queue[c]) < QueueSize
    BY DEF lost, Accepts
  <2> QED BY <1>5, <2>1, <2>2, <2>3
<1>7. dropped' \in Nat /\ conn' \in [Conns -> {"none", "open", "closed"}] /\ disturbed' \subseteq Conns
    BY <1>3, <1>5 DEF TypeOK
<1>8. queue' \in [Conns -> Seq(Message)]
    BY <1>5, <1>6
<1> QED BY <1>1, <1>4, <1>5, <1>6, <1>7, <1>8 DEF Broadcast, hub, TypeOK

LEMMA CloseTyped ==
    ASSUME TypeOK, NEW c \in Conns, Close \/ Tell(c) \/ CloseSend(c) PROVE TypeOK'
<1>1. CASE Close
    BY <1>1 DEF Close, bounds, TypeOK
<1>2. CASE Tell(c)
  <2>1. queue' \in [Conns -> Seq(Message)] /\ \A d \in Conns : Len(queue'[d]) <= QueueSize
    <3>1. CASE Accepts(c)
      <4>1. queue' = [queue EXCEPT ![c] = Append(@, Farewell)] /\ Len(queue[c]) < QueueSize
        BY <1>2, <3>1 DEF Tell, Enqueued, Accepts
      <4>2. /\ Append(queue[c], Farewell) \in Seq(Message)
            /\ Len(Append(queue[c], Farewell)) = Len(queue[c]) + 1
            /\ Len(queue[c]) \in Nat /\ QueueSize \in Nat
        BY Joined, Messages, ConstantsAssumption DEF TypeOK
      <4> QED BY <4>1, <4>2 DEF TypeOK
    <3>2. CASE ~Accepts(c)
      BY <1>2, <3>2 DEF Tell, TypeOK
    <3> QED BY <3>1, <3>2
  <2> QED BY <1>2, <2>1 DEF Tell, bounds, TypeOK
<1>3. CASE CloseSend(c)
    BY <1>3 DEF CloseSend, bounds, TypeOK
<1> QED BY <1>1, <1>2, <1>3

LEMMA NextTyped == TypeOK /\ [Next]_vars => TypeOK'
<1> SUFFICES ASSUME TypeOK, [Next]_vars PROVE TypeOK'
    OBVIOUS
<1>1. CASE UNCHANGED vars
    BY <1>1 DEF vars, hub, bounds, TypeOK
<1>2. ASSUME Close PROVE TypeOK'
    BY <1>2 DEF Close, bounds, TypeOK
<1> QED BY <1>1, <1>2, ConnectionTyped, PumpTyped, BroadcastTyped, CloseTyped DEF Next

\* Every variable has its type, and no queue is longer than its capacity.
THEOREM TypeCorrect == Spec => []TypeOK
BY InitTyped, NextTyped, PTL DEF Spec

(***************************************************************************)
(* The steps                                                               *)
(***************************************************************************)

\* Nothing happens to connection d.
Still(d) ==
    /\ serve'[d] = serve[d] /\ pump'[d] = pump[d] /\ queue'[d] = queue[d]
    /\ sendClosed'[d] = sendClosed[d] /\ current'[d] = current[d] /\ conn'[d] = conn[d]
    /\ owed'[d] = owed[d]
    /\ d \in clients' <=> d \in clients
    /\ d \in telling' <=> d \in telling
    /\ d \in sealing' <=> d \in sealing
    /\ d \in told' <=> d \in told
    /\ d \in farewelled' <=> d \in farewelled
    /\ d \in disturbed' <=> d \in disturbed

LEMMA StillOrderly ==
    ASSUME NEW d \in Conns, Orderly(d), Still(d), closed => closed', events' = events
    PROVE  Orderly(d)'
<1>1. Pending(d)' = Pending(d)
    BY DEF Still, Pending
<1>2. Beginning(d)'
    BY DEF Orderly, Still, Beginning
<1>3. PumpState(d)'
    BY DEF Orderly, Still, PumpState
<1>4. InTable(d)'
    BY DEF Orderly, Still, InTable
<1>5. Numbered(d)'
    BY <1>1 DEF Orderly, Numbered
<1>6. NoGapAt(d)'
    BY <1>1 DEF Orderly, Still, NoGapAt
<1>7. FarewellLast(d)'
    BY <1>1 DEF Orderly, Still, FarewellLast
<1>8. FarewellComes(d)'
    BY <1>1 DEF Orderly, Still, FarewellComes
<1> QED BY <1>2, <1>3, <1>4, <1>5, <1>6, <1>7, <1>8 DEF Orderly

\* Steps of c that leave its queue and the message being written alone.
LEMMA QuietSteps ==
    ASSUME HubInv, NEW c \in Conns,
           \/ Check(c) \/ UpgradeFails(c) \/ Register(c) \/ Receive(c) \/ PeerLeaves(c)
           \/ Leave(c) \/ Seal(c) \/ CloseSend(c)
    PROVE  Orderly(c)'
<1>1. TypeOK /\ Orderly(c)
    BY DEF HubInv
<1>2. /\ Pending(c)' = Pending(c) /\ current' = current /\ queue' = queue /\ pump' = pump
      /\ owed' = owed /\ events' = events /\ closed' = closed /\ told' = told
      /\ farewelled' = farewelled /\ disturbed' = disturbed
    BY DEF Check, UpgradeFails, Register, Registered, Receive, PeerLeaves, Leave, Seal,
           CloseSend, Pending, hub, bounds
<1>3. Numbered(c)' /\ FarewellLast(c)'
    BY <1>1, <1>2 DEF Orderly, Numbered, FarewellLast
<1>4. CASE Check(c)
    BY <1>1, <1>2, <1>3, <1>4
       DEF Check, hub, TypeOK, Orderly, Beginning, PumpState, InTable, NoGapAt, FarewellComes
<1>5. CASE UpgradeFails(c)
    BY <1>1, <1>2, <1>3, <1>5
       DEF UpgradeFails, hub, TypeOK, Orderly, Beginning, PumpState, InTable, NoGapAt, FarewellComes
<1>6. CASE Register(c)
  <2>1. /\ queue[c] = <<>> /\ current[c] = <<>> /\ pump[c] = "none" /\ ~sendClosed[c]
        /\ owed[c] = {} /\ c \notin clients \cup telling \cup sealing \cup told \cup farewelled
    BY <1>1, <1>6 DEF Register, Orderly, Beginning, PumpState
  <2>2. EventsIn(Pending(c)) = {} /\ InOrder(Pending(c))
    BY <1>1, <2>1, PendingIs, EmptyFacts
  <2>3. /\ serve'[c] \in {"registered", "gone"} /\ conn'[c] \in {"open", "closed"}
        /\ sendClosed' = sendClosed /\ telling' = telling /\ sealing' = sealing
        /\ \/ c \notin clients'
           \/ ~closed /\ serve'[c] = "registered" /\ conn'[c] = "open"
        /\ conn'[c] = "closed" => c \notin clients'
    <3>1. CASE closed
      BY <1>1, <1>6, <2>1, <3>1 DEF Register, TypeOK
    <3>2. CASE ~closed
      <4>1. /\ clients' = clients \cup {c} /\ conn' = [conn EXCEPT ![c] = "open"]
            /\ serve' = [serve EXCEPT ![c] = "registered"]
        BY <1>6, <3>2 DEF Register, Registered
      <4> QED BY <1>1, <1>6, <3>2, <4>1 DEF Register, TypeOK
    <3> QED BY <3>1, <3>2
  <2>4. Beginning(c)' /\ PumpState(c)' /\ InTable(c)'
    BY <1>1, <1>2, <2>1, <2>3 DEF Beginning, PumpState, InTable
  <2>5. NoGapAt(c)' /\ FarewellComes(c)'
    BY <1>1, <1>2, <2>1, <2>2, <2>3 DEF NoGapAt, FarewellComes
  <2> QED BY <1>3, <2>4, <2>5 DEF Orderly
<1>7. CASE Receive(c)
    BY <1>1, <1>2, <1>3, <1>7
       DEF Receive, hub, TypeOK, Orderly, Beginning, PumpState, InTable, NoGapAt, FarewellComes
<1>8. CASE PeerLeaves(c)
    BY <1>1, <1>2, <1>3, <1>8
       DEF PeerLeaves, hub, TypeOK, Orderly, Beginning, PumpState, InTable, NoGapAt, FarewellComes
<1>9. CASE Leave(c)
    BY <1>1, <1>2, <1>3, <1>9
       DEF Leave, TypeOK, Orderly, Beginning, PumpState, InTable, NoGapAt, FarewellComes
<1>10. CASE Seal(c)
    BY <1>1, <1>2, <1>3, <1>10
       DEF Seal, hub, TypeOK, Orderly, Beginning, PumpState, InTable, NoGapAt, FarewellComes
<1>11. CASE CloseSend(c)
    BY <1>1, <1>2, <1>3, <1>11
       DEF CloseSend, TypeOK, Orderly, Beginning, PumpState, InTable, NoGapAt, FarewellComes
<1> QED BY <1>4, <1>5, <1>6, <1>7, <1>8, <1>9, <1>10, <1>11

\* A greeting or a reply: either it is queued, and is no event, or the
\* connection ends, disturbed.
LEMMA SendSteps ==
    ASSUME HubInv, NEW c \in Conns, Greet(c) \/ Reply(c)
    PROVE  Orderly(c)'
<1>1. TypeOK /\ Orderly(c)
    BY DEF HubInv
<1>2. PICK m \in Message : SendTo(c, m) /\ ~IsEvent(m) /\ m # Farewell
    BY Messages DEF Greet, Reply
<1>3. /\ serve[c] \in {"registered", "answering"} /\ serve'[c] = "reading"
      /\ pump'[c] \in {"idle", pump[c]} /\ (Reply(c) => pump' = pump)
      /\ (Greet(c) => pump'[c] = "idle" /\ serve[c] = "registered")
      /\ UNCHANGED <<hub, sendClosed, current, owed, farewelled, told, events>>
    BY <1>1 DEF Greet, Reply, TypeOK, bounds
<1>4. current[c] # <<>> <=> pump'[c] = "writing"
    BY <1>1, <1>3 DEF Orderly, PumpState
<1>5. pump'[c] = "done" => conn[c] = "closed" /\ pump' = pump
    BY <1>1, <1>3 DEF Orderly, PumpState
<1>6. Beginning(c)' /\ InTable(c)'
    BY <1>1, <1>3 DEF Orderly, Beginning, InTable, hub
<1>7. CASE Accepts(c)
  <2>1. /\ queue'[c] = Append(queue[c], m) /\ conn' = conn /\ disturbed' = disturbed
        /\ Pending(c) \in Seq(Message)
    BY <1>1, <1>2, <1>7, PendingIs DEF SendTo, Enqueued, TypeOK
  <2>2. Pending(c)' = Append(Pending(c), m)
    BY <1>1, <1>3, <2>1, PendingGrows
  <2>3. EventsIn(Pending(c)') = EventsIn(Pending(c)) /\ (InOrder(Pending(c)) => InOrder(Pending(c)'))
    BY <1>2, <2>1, <2>2, JoinedEvents
  <2>4. /\ HasFarewell(Pending(c)') <=> HasFarewell(Pending(c))
        /\ FarewellEnds(Pending(c)) => FarewellEnds(Pending(c)')
    BY <1>2, <2>1, <2>2, JoinedFarewell
  <2>5. Numbered(c)' /\ NoGapAt(c)'
    BY <1>1, <1>3, <2>1, <2>3 DEF Orderly, Numbered, NoGapAt
  <2>6. FarewellLast(c)' /\ FarewellComes(c)'
    BY <1>1, <1>3, <2>1, <2>3, <2>4 DEF Orderly, FarewellLast, FarewellComes, hub
  <2>7. PumpState(c)'
    BY <1>3, <1>4, <1>5, <2>1 DEF PumpState
  <2> QED BY <1>6, <2>5, <2>6, <2>7 DEF Orderly
<1>8. CASE ~Accepts(c)
  <2>1. queue' = queue /\ conn'[c] = "closed" /\ disturbed' = disturbed \cup {c}
    BY <1>1, <1>2, <1>8 DEF SendTo, TypeOK
  <2>2. Pending(c)' = Pending(c)
    BY <1>3, <2>1 DEF Pending
  <2>3. Numbered(c)' /\ NoGapAt(c)' /\ FarewellLast(c)' /\ FarewellComes(c)'
    BY <1>1, <1>3, <2>1, <2>2 DEF Orderly, Numbered, NoGapAt, FarewellLast, FarewellComes, hub
  <2>4. PumpState(c)'
    BY <1>3, <1>4, <2>1 DEF PumpState
  <2> QED BY <1>6, <2>3, <2>4 DEF Orderly
<1> QED BY <1>7, <1>8

LEMMA ReleaseStep ==
    ASSUME HubInv, NEW c \in Conns, Release(c) PROVE Orderly(c)'
<1>1. TypeOK /\ Orderly(c)
    BY DEF HubInv
<1>2. /\ pump[c] = "done" /\ current[c] = <<>> /\ conn[c] = "closed" /\ conn'[c] = "closed"
      /\ queue'[c] = <<>> /\ serve[c] = "waiting" /\ serve'[c] = "gone"
      /\ UNCHANGED <<hub, pump, sendClosed, current, owed, farewelled, told, disturbed, events>>
    BY <1>1 DEF Release, TypeOK, Orderly, PumpState, bounds
<1>3. Pending(c)' = <<>>
    BY <1>2, ConcatEmptySeq, EmptyFacts DEF Pending
<1>4. /\ Numbered(c)' /\ NoGapAt(c)'
    BY <1>1, <1>2, <1>3, EmptyFacts DEF Orderly, Numbered, NoGapAt
<1>5. FarewellLast(c)' /\ FarewellComes(c)'
    BY <1>1, <1>2, <1>3, EmptyFacts DEF Orderly, FarewellLast, FarewellComes, hub
<1>6. Beginning(c)' /\ PumpState(c)' /\ InTable(c)'
    BY <1>1, <1>2 DEF Orderly, Beginning, PumpState, InTable, hub
<1> QED BY <1>4, <1>5, <1>6 DEF Orderly

LEMMA PumpSteps ==
    ASSUME HubInv, NEW c \in Conns, Pump(c) PROVE Orderly(c)'
<1>1. TypeOK /\ Orderly(c)
    BY DEF HubInv
<1>2. Pump(c) => /\ pump[c] \in {"idle", "writing"}
                 /\ serve[c] \notin {"none", "checked", "registered"}
                 /\ UNCHANGED <<hub, serve, sendClosed, told, events>>
    BY <1>1 DEF Pump, Take, Write, WriteFails, Drained, Orderly, Beginning, PumpState, bounds
<1>3. Beginning(c)' /\ InTable(c)'
    BY <1>1, <1>2 DEF Orderly, Beginning, InTable, hub
<1>4. CASE Take(c)
  <2>1. /\ current[c] = <<>> /\ queue[c] # <<>> /\ current'[c] = <<Head(queue[c])>>
        /\ queue'[c] = Tail(queue[c]) /\ pump'[c] = "writing"
        /\ UNCHANGED <<conn, owed, farewelled, disturbed>>
    BY <1>1, <1>4 DEF Take, TypeOK, Orderly, PumpState
  <2>2. Pending(c)' = Pending(c)
    BY <1>1, <2>1, PendingStays
  <2>3. Numbered(c)' /\ NoGapAt(c)' /\ FarewellLast(c)' /\ FarewellComes(c)'
    BY <1>1, <1>2, <2>1, <2>2 DEF Orderly, Numbered, NoGapAt, FarewellLast, FarewellComes, hub
  <2>4. PumpState(c)'
    BY <1>2, <2>1 DEF PumpState
  <2> QED BY <1>3, <2>3, <2>4 DEF Orderly
<1>5. CASE Write(c)
  <2>1. PICK m \in Message : current[c] = <<m>>
    BY <1>1, <1>5, PendingIs DEF Write, Orderly, PumpState
  <2>2. /\ current'[c] = <<>> /\ queue'[c] = queue[c] /\ pump'[c] = "idle" /\ conn' = conn
        /\ owed'[c] = {n \in owed[c] : m # <<"event", n>>}
        /\ farewelled' = IF m = Farewell THEN farewelled \cup {c} ELSE farewelled
        /\ disturbed' = disturbed
    BY <1>1, <1>5, <2>1 DEF Write, TypeOK
  <2>3. /\ Pending(c) = <<m>> \o queue[c] /\ Pending(c)' = queue[c]
        /\ queue[c] \in Seq(Message)
    BY <1>1, <2>1, <2>2, PendingShrinks, PendingIs
  <2>4. /\ EventsIn(Pending(c)') \subseteq EventsIn(Pending(c))
        /\ InOrder(Pending(c)) => InOrder(Pending(c)')
        /\ ~IsEvent(m) => EventsIn(Pending(c)') = EventsIn(Pending(c))
        /\ IsEvent(m) /\ InOrder(Pending(c)) => EventsIn(Pending(c)') = EventsIn(Pending(c)) \ {m[2]}
    BY <2>3, LeftEvents
  <2>5. /\ HasFarewell(Pending(c)) <=> m = Farewell \/ HasFarewell(Pending(c)')
        /\ FarewellEnds(Pending(c)) =>
                FarewellEnds(Pending(c)') /\ (m = Farewell => EventsIn(Pending(c)') = {})
    BY <2>3, LeftFarewell
  <2>6. /\ ~IsEvent(m) => owed'[c] = owed[c]
        /\ IsEvent(m) => owed'[c] = owed[c] \ {m[2]}
    <3>1. owed[c] \subseteq 1 .. MaxEvents
      BY <1>1 DEF TypeOK
    <3> QED BY <2>2, <3>1, Messages
  <2>7. Numbered(c)' /\ NoGapAt(c)'
    BY <1>1, <1>2, <2>2, <2>4, <2>6 DEF Orderly, Numbered, NoGapAt
  <2>8. FarewellLast(c)'
    BY <1>1, <1>2, <2>2, <2>4, <2>5 DEF Orderly, FarewellLast, hub
  <2>9. FarewellComes(c)'
    BY <1>1, <1>2, <2>2, <2>5 DEF Orderly, FarewellComes, hub
  <2>10. PumpState(c)'
    BY <1>2, <2>2 DEF PumpState
  <2> QED BY <1>3, <2>7, <2>8, <2>9, <2>10 DEF Orderly
<1>6. CASE WriteFails(c) \/ Drained(c)
  <2>1. /\ conn'[c] = "closed" /\ current'[c] = <<>> /\ owed'[c] = {} /\ pump'[c] = "done"
        /\ queue' = queue /\ farewelled' = farewelled
    BY <1>1, <1>6 DEF WriteFails, Drained, PumpReturns, TypeOK
  <2>2. /\ Pending(c)' = queue[c] /\ queue[c] \in Seq(Message)
        /\ EventsIn(queue[c]) \subseteq EventsIn(Pending(c))
        /\ HasFarewell(queue[c]) => HasFarewell(Pending(c))
        /\ FarewellEnds(Pending(c)) => FarewellEnds(queue[c])
    <3>1. Pending(c)' = queue[c] /\ queue[c] \in Seq(Message)
      BY <1>1, <2>1, PendingIs, ConcatEmptySeq DEF Pending
    <3>2. CASE current[c] = <<>>
      BY <1>1, <3>1, <3>2, PendingIs
    <3>3. CASE current[c] # <<>>
      <4>1. PICK m \in Message : current[c] = <<m>>
        BY <1>1, <3>3, PendingIs
      <4>2. Pending(c) = <<m>> \o queue[c]
        BY <4>1 DEF Pending
      <4> QED BY <3>1, <4>2, LeftEvents, LeftFarewell
    <3> QED BY <3>2, <3>3
  <2>3. Numbered(c)' /\ NoGapAt(c)'
    BY <1>1, <1>2, <2>1, <2>2 DEF Orderly, Numbered, NoGapAt
  <2>4. FarewellLast(c)'
    BY <1>1, <1>2, <2>1, <2>2 DEF Orderly, FarewellLast, hub
  <2>5. FarewellComes(c)'
    <3>1. CASE WriteFails(c)
      <4>1. disturbed' = disturbed \cup {c}
        BY <3>1 DEF WriteFails
      <4> QED BY <4>1, <2>1 DEF FarewellComes
    <3>2. CASE Drained(c)
      <4>1. disturbed' = disturbed /\ sendClosed[c] /\ queue[c] = <<>> /\ pump[c] = "idle"
        BY <3>2 DEF Drained
      <4>2. ~HasFarewell(Pending(c))
        BY <1>1, <4>1, PendingIs, EmptyFacts DEF Orderly, PumpState
      <4> QED BY <1>1, <1>2, <2>1, <4>1, <4>2 DEF Orderly, FarewellComes
    <3> QED BY <1>6, <3>1, <3>2
  <2>6. PumpState(c)'
    BY <1>2, <2>1 DEF PumpState
  <2> QED BY <1>3, <2>3, <2>4, <2>5, <2>6 DEF Orderly
<1> QED BY <1>4, <1>5, <1>6 DEF Pump

\* A broadcast numbers its event past all pending ones; the hub is not
\* closed, so no farewell is on its way.
LEMMA BroadcastSteps ==
    ASSUME HubInv, NEW u \in Users \cup {None}, Broadcast(u), NEW c \in Conns
    PROVE  Orderly(c)'
<1> DEFINE lost == {d \in Addressed(u) : ~Accepts(d)}
<1>1. TypeOK /\ Orderly(c) /\ ~closed /\ events \in Nat
    BY DEF HubInv, Broadcast, TypeOK
<1>2. PICK n \in 1 .. MaxEvents : n = events + 1
    BY ConstantsAssumption DEF HubInv, Broadcast, TypeOK
<1>3. PICK m \in Message : m = <<"event", n>> /\ IsEvent(m) /\ m # Farewell /\ m[2] = n
    BY <1>2, Messages
<1>4. /\ queue'[c] = IF c \in Addressed(u) \ lost THEN Append(queue[c], m) ELSE queue[c]
      /\ conn'[c] = IF c \in lost THEN "closed" ELSE conn[c]
      /\ disturbed' = disturbed \cup lost
      /\ owed'[c] = IF c \in Addressed(u) /\ conn[c] = "open" THEN owed[c] \cup {n} ELSE owed[c]
      /\ events' = n
      /\ UNCHANGED <<hub, serve, pump, sendClosed, current, farewelled, told>>
    BY <1>2, <1>3 DEF Broadcast, Owing
<1>11. current' = current /\ serve' = serve
    BY DEF Broadcast
<1>5. c \notin farewelled /\ ~HasFarewell(Pending(c)) /\ FarewellEnds(Pending(c))
      /\ Pending(c) \in Seq(Message)
    BY <1>1, PendingIs DEF Orderly, FarewellLast
<1>6. \A e \in EventsIn(Pending(c)) : e < n /\ e <= n
  <2>1. \A e \in EventsIn(Pending(c)) : e \in Nat
    <3>1. \A i \in DOMAIN Pending(c) : Pending(c)[i] \in Message
      BY <1>5
    <3> QED BY <3>1, Messages DEF EventsIn
  <2> QED BY <1>1, <1>2, <2>1 DEF Orderly, Numbered
<1>7. c \in Addressed(u) => c \in clients
    BY DEF Addressed
<1> HIDE DEF lost
<1>8. InTable(c)'
    BY <1>1, <1>4 DEF Orderly, InTable, hub
<1>9. CASE c \in Addressed(u) \ lost
  <2>1. /\ queue'[c] = Append(queue[c], m) /\ conn'[c] = conn[c] /\ c \in clients
        /\ c \in disturbed' <=> c \in disturbed
    BY <1>4, <1>7, <1>9
  <2>2. Pending(c)' = Append(Pending(c), m)
    <3>1. Pending(c)' = current[c] \o Append(queue[c], m)
      BY <1>11, <2>1 DEF Pending
    <3> QED BY <1>1, <1>11, <2>1, PendingGrows
  <2>3. /\ EventsIn(Pending(c)') = EventsIn(Pending(c)) \cup {n}
        /\ InOrder(Pending(c)) => InOrder(Pending(c)')
    BY <1>3, <1>5, <1>6, <2>2, JoinedEvents
  <2>4. ~HasFarewell(Pending(c)') /\ FarewellEnds(Pending(c)')
    BY <1>3, <1>5, <2>2, JoinedFarewell
  <2>5. Numbered(c)'
    BY <1>2, <1>4, <1>6, <2>3 DEF Numbered
  <2>6. NoGapAt(c)'
    BY <1>1, <1>4, <1>9, <2>1, <2>3 DEF Orderly, NoGapAt
  <2>7. FarewellLast(c)' /\ FarewellComes(c)'
    BY <1>1, <1>4, <1>5, <2>1, <2>4 DEF Orderly, FarewellLast, FarewellComes, hub
  <2>8. Beginning(c)'
    <3>1. serve[c] \notin {"none", "checked"} /\ serve' = serve
      BY <1>1, <1>11, <2>1 DEF Orderly, InTable
    <3> QED BY <3>1 DEF Beginning
  <2>9. PumpState(c)'
    BY <1>1, <1>4, <2>1 DEF Orderly, PumpState
  <2> QED BY <1>8, <2>5, <2>6, <2>7, <2>8, <2>9 DEF Orderly
<1>10. CASE c \notin Addressed(u) \ lost
  <2>1. Pending(c)' = Pending(c) /\ queue'[c] = queue[c]
    BY <1>4, <1>10 DEF Pending
  <2>2. Numbered(c)' /\ FarewellLast(c)'
    BY <1>1, <1>4, <1>5, <1>6, <2>1 DEF Orderly, Numbered, FarewellLast, hub
  <2>3. CASE c \in lost
    <3>1. conn'[c] = "closed" /\ c \in disturbed' /\ c \in clients
      BY <1>4, <1>7, <2>3 DEF lost
    <3> QED BY <1>1, <1>4, <1>8, <2>1, <2>2, <3>1
            DEF Orderly, Beginning, PumpState, InTable, NoGapAt, FarewellComes, hub
  <2>4. CASE c \notin lost
    <3>1. /\ conn'[c] = conn[c] /\ owed'[c] = owed[c]
          /\ c \in disturbed' <=> c \in disturbed
      BY <1>4, <1>10, <2>4
    <3> QED BY <1>1, <1>4, <1>8, <2>1, <2>2, <3>1
            DEF Orderly, Beginning, PumpState, InTable, NoGapAt, FarewellComes, hub
  <2> QED BY <2>3, <2>4
<1> QED BY <1>9, <1>10

LEMMA CloseSteps ==
    ASSUME HubInv, Close, NEW c \in Conns PROVE Orderly(c)'
<1>1. Orderly(c) /\ Pending(c)' = Pending(c)
    BY DEF HubInv, Close, Pending
<1>2. /\ closed' = TRUE /\ telling' = clients /\ sealing' = clients
      /\ UNCHANGED <<clients, serve, pump, queue, sendClosed, current, conn, owed, farewelled,
                     told, disturbed, events>>
    BY DEF Close, bounds
<1>3. Beginning(c)' /\ PumpState(c)' /\ InTable(c)'
    BY <1>1, <1>2 DEF Orderly, Beginning, PumpState, InTable
<1>4. Numbered(c)' /\ NoGapAt(c)'
    BY <1>1, <1>2 DEF Orderly, Numbered, NoGapAt
<1>5. FarewellLast(c)' /\ FarewellComes(c)'
    BY <1>1, <1>2 DEF Orderly, FarewellLast, FarewellComes
<1> QED BY <1>3, <1>4, <1>5 DEF Orderly

\* The farewell is queued only where the connection is open or was cut.
LEMMA TellSteps ==
    ASSUME HubInv, NEW c \in Conns, Tell(c) PROVE Orderly(c)'
<1>1. TypeOK /\ Orderly(c) /\ c \in telling /\ closed
    BY DEF HubInv, Tell, Orderly, InTable
<1>2. /\ telling' = telling \ {c} /\ serve[c] \notin {"none", "checked"}
      /\ UNCHANGED <<clients, closed, sealing, serve, pump, sendClosed, current, conn, owed,
                     farewelled, disturbed, events>>
    BY <1>1 DEF Tell, bounds, Orderly, Beginning
<1>3. Beginning(c)' /\ PumpState(c)' /\ InTable(c)'
    BY <1>1, <1>2 DEF Orderly, Beginning, PumpState, InTable
<1>4. CASE Accepts(c)
  <2>1. /\ queue'[c] = Append(queue[c], Farewell) /\ told' = told \cup {c} /\ ~sendClosed[c]
        /\ Pending(c) \in Seq(Message)
    BY <1>1, <1>4, PendingIs DEF Tell, Enqueued, Accepts, TypeOK
  <2>2. Pending(c)' = Append(Pending(c), Farewell)
    BY <1>1, <1>2, <2>1, PendingGrows, Messages
  <2>3. EventsIn(Pending(c)') = EventsIn(Pending(c)) /\ (InOrder(Pending(c)) => InOrder(Pending(c)'))
    BY <2>1, <2>2, JoinedEvents, Messages
  <2>4. HasFarewell(Pending(c)') /\ (FarewellEnds(Pending(c)) => FarewellEnds(Pending(c)'))
    BY <2>1, <2>2, JoinedFarewell, Messages
  <2>5. Numbered(c)' /\ NoGapAt(c)'
    BY <1>1, <1>2, <2>3 DEF Orderly, Numbered, NoGapAt
  <2>6. FarewellLast(c)' /\ FarewellComes(c)'
    BY <1>1, <1>2, <2>1, <2>3, <2>4 DEF Orderly, FarewellLast, FarewellComes
  <2> QED BY <1>3, <2>5, <2>6 DEF Orderly
<1>5. CASE ~Accepts(c)
  <2>1. queue' = queue /\ told' = told /\ Pending(c)' = Pending(c)
    BY <1>2, <1>5 DEF Tell, Pending
  <2>2. Numbered(c)' /\ NoGapAt(c)'
    BY <1>1, <1>2, <2>1 DEF Orderly, Numbered, NoGapAt
  <2>3. FarewellLast(c)' /\ FarewellComes(c)'
    BY <1>1, <1>2, <2>1 DEF Orderly, FarewellLast, FarewellComes
  <2> QED BY <1>3, <2>2, <2>3 DEF Orderly
<1> QED BY <1>4, <1>5

\* A step of one connection leaves every other one alone.
LEMMA OthersStill ==
    ASSUME TypeOK, NEW c \in Conns, Connection(c) \/ Pump(c) \/ Tell(c) \/ CloseSend(c),
           NEW d \in Conns \ {c}
    PROVE  Still(d) /\ closed' = closed /\ events' = events
<1> USE DEF TypeOK, hub, bounds, Still
<1>1. CASE Check(c) \/ UpgradeFails(c)
    BY <1>1 DEF Check, UpgradeFails
<1>2. CASE Register(c)
  <2>1. CASE closed
    BY <1>2, <2>1 DEF Register
  <2>2. CASE ~closed
    BY <1>2, <2>2 DEF Register, Registered
  <2> QED BY <2>1, <2>2
<1>3. CASE Greet(c)
    BY <1>3 DEF Greet, SendTo, Enqueued
<1>4. CASE Receive(c)
    BY <1>4 DEF Receive
<1>5. CASE Reply(c)
    BY <1>5 DEF Reply, SendTo, Enqueued
<1>6. CASE PeerLeaves(c) \/ Leave(c) \/ Seal(c) \/ Release(c)
    BY <1>6 DEF PeerLeaves, Leave, Seal, Release
<1>7. CASE Take(c) \/ Write(c)
    BY <1>7 DEF Take, Write
<1>8. CASE WriteFails(c) \/ Drained(c)
    BY <1>8 DEF WriteFails, Drained, PumpReturns
<1>9. CASE Tell(c) \/ CloseSend(c)
    BY <1>9 DEF Tell, Enqueued, CloseSend
<1> QED BY <1>1, <1>2, <1>3, <1>4, <1>5, <1>6, <1>7, <1>8, <1>9 DEF Connection, Pump

LEMMA InitOrderly == Init => HubInv
<1> SUFFICES ASSUME Init, NEW c \in Conns PROVE Orderly(c)
    BY InitTyped DEF HubInv
<1>1. Pending(c) = <<>>
    BY ConcatEmptySeq, EmptyFacts DEF Init, Pending
<1> QED BY <1>1, EmptyFacts
        DEF Init, Orderly, Beginning, PumpState, InTable, Numbered, NoGapAt, FarewellLast,
            FarewellComes

LEMMA NextOrderly == HubInv /\ [Next]_vars => HubInv'
<1> SUFFICES ASSUME HubInv, [Next]_vars, NEW d \in Conns PROVE Orderly(d)'
    BY NextTyped DEF HubInv
<1>1. ASSUME NEW c \in Conns, Connection(c) \/ Pump(c) \/ Tell(c) \/ CloseSend(c)
      PROVE  Orderly(d)'
  <2>1. CASE d = c
    BY <1>1, <2>1, QuietSteps, SendSteps, ReleaseStep, PumpSteps, TellSteps DEF Connection
  <2>2. CASE d # c
    BY <1>1, <2>2, OthersStill, StillOrderly DEF HubInv
  <2> QED BY <2>1, <2>2
<1>2. ASSUME NEW u \in Users \cup {None}, Broadcast(u) PROVE Orderly(d)'
    BY <1>2, BroadcastSteps
<1>3. CASE Close
    BY <1>3, CloseSteps
<1>4. CASE UNCHANGED vars
  <2>1. Still(d) /\ closed' = closed /\ events' = events
    BY <1>4 DEF vars, hub, bounds, Still
  <2> QED BY <2>1, StillOrderly DEF HubInv
<1> QED BY <1>1, <1>2, <1>3, <1>4 DEF Next

LEMMA HubInvHolds == Spec => []HubInv
BY InitOrderly, NextOrderly, PTL DEF Spec

(***************************************************************************)
(* What follows                                                            *)
(***************************************************************************)

\* An open connection misses no event: what has been broadcast to it and is
\* not written yet is queued or being written, once and in order.
THEOREM NothingMissed == Spec => []NoGap
<1>1. HubInv => NoGap
    BY DEF HubInv, Orderly, NoGapAt, NoGap
<1> QED BY <1>1, HubInvHolds, PTL

\* A connection leaves the table before its queue is closed, gets no event
\* after the farewell, and is not closed before a farewell its queue accepted
\* has been written, unless it was cut.
THEOREM EndsInOrder == Spec => []OrderlyEnd
<1>1. HubInv => SealedAfterLeaving
    BY DEF HubInv, Orderly, InTable, SealedAfterLeaving, TypeOK
<1>2. HubInv => FarewellEndsEvents
    BY DEF HubInv, Orderly, FarewellLast, FarewellEndsEvents, TypeOK
<1>3. HubInv => FarewellWritten
    BY DEF HubInv, Orderly, FarewellComes, FarewellWritten, TypeOK
<1> QED BY <1>1, <1>2, <1>3, HubInvHolds, PTL DEF OrderlyEnd
=============================================================================
