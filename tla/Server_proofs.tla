---------------------------- MODULE Server_proofs ----------------------------
(***************************************************************************)
(* Theorems about Server, for any number of connections, packets, topics   *)
(* and messages and any size of the outgoing buffer, in three parts: types *)
(* and the list of clients; what is written to the connections; and that the  *)
(* broker implements PubSub.                                               *)
(***************************************************************************)
EXTENDS Server, SequenceLemmas

-----------------------------------------------------------------------------
(* Type correctness.                                                       *)

LEMMA ActiveType ==
    ASSUME TypeOK, turn = "connect" \/ InTurn
    PROVE  Active \in Conns
BY DEF TypeOK, Active, InTurn

\* What the handlers rely on when a packet has been read.
LEMMA ArrivedType ==
    ASSUME TypeOK, NEW types, Arrived(types)
    PROVE  /\ Active \in Conns
           /\ Packet \in Packets
           /\ Tail(inbox[Active]) \in Seq(Packets)
           /\ Packet.type \in types
           /\ Idle
<1>1. Active \in Conns
  BY ActiveType DEF Arrived
<1>2. inbox[Active] \in Seq(Packets) /\ inbox[Active] # <<>>
  BY <1>1 DEF Arrived, TypeOK
<1> QED
  BY <1>1, <1>2, HeadTailProperties DEF Arrived, Packet

\* Every step of the handlers leaves socket and inbox well typed.
LEMMA PopType ==
    ASSUME TypeOK, NEW types, Arrived(types), Pop
    PROVE  /\ sock' \in [Conns -> {"idle", "backlog", "open", "gone", "closed"}]
           /\ inbox' \in [Conns -> Seq(Packets)]
BY ArrivedType DEF Pop, TypeOK

LEMMA StopType ==
    ASSUME TypeOK, NEW c \in Conns, Stop(c)
    PROVE  /\ sock' \in [Conns -> {"idle", "backlog", "open", "gone", "closed"}]
           /\ inbox' \in [Conns -> Seq(Packets)]
BY DEF Stop, TypeOK

LEMMA CountType ==
    ASSUME TypeOK, NEW types, Arrived(types), Count
    PROVE  quota' \in 0..MaxPackets
BY ConstantsAssumption DEF Count, Arrived, InTurn, TypeOK

LEMMA AddClientType ==
    ASSUME TypeOK, turn = "connect", AddClient
    PROVE  /\ clients' \in Seq(Conns)
           /\ turn' = "serve"
           /\ at' \in Nat \ {0}
           /\ quota' \in 0..MaxPackets
           /\ fresh' \in Conns \cup {Local}
BY ConstantsAssumption DEF AddClient, TypeOK

LEMMA PrintMuxType ==
    ASSUME TypeOK, NEW units \in Seq(Unit)
    PROVE  PrintMux(units) \in [Conns -> Seq(Unit)]
BY ConcatProperties DEF PrintMux, TypeOK

LEMMA BeginPublishType ==
    ASSUME TypeOK, NEW t \in Topics, NEW n \in Nat, NEW s \in Conns \cup {Local},
           NEW a \in BOOLEAN, BeginPublish(t, n, s, a)
    PROVE  /\ subscribed' \in [Conns -> BOOLEAN]
           /\ msgs' \in Seq([topic : Topics, size : Nat, src : Conns \cup {Local},
                             to : SUBSET Conns])
           /\ pub' \in [msg : Nat, next : Nat, buf : Seq(Unit), ack : BOOLEAN,
                        lost : BOOLEAN]
           /\ pub'.msg <= Len(msgs')
           /\ wire' \in [Conns -> Seq(Unit)]
<1> DEFINE M == [topic : Topics, size : Nat, src : Conns \cup {Local}, to : SUBSET Conns]
           m == [topic |-> t, size |-> n, src |-> s,
                 to |-> {c \in ToSet(clients) : Subscribes(c, t)}]
<1>1. ToSet(clients) \subseteq Conns
  BY DEF ToSet, TypeOK
<1>2. m \in M
  BY <1>1
<1>3. msgs' \in Seq(M) /\ Len(msgs') = Len(msgs) + 1
  BY <1>2, AppendProperties DEF BeginPublish, TypeOK
<1>4. subscribed' \in [Conns -> BOOLEAN]
  BY DEF BeginPublish, SetSubscribed, Subscribes, TypeOK
<1>5. pub' = [msg |-> Len(msgs) + 1, next |-> 0, buf |-> <<>>, ack |-> a, lost |-> FALSE]
  BY DEF BeginPublish, NoPub
<1>6. wire' \in [Conns -> Seq(Unit)]
  BY DEF BeginPublish, TypeOK
<1>7. Len(msgs) \in Nat
  BY DEF TypeOK
<1>8. pub' \in [msg : Nat, next : Nat, buf : Seq(Unit), ack : BOOLEAN, lost : BOOLEAN]
      /\ pub'.msg = Len(msgs) + 1
  BY <1>5, <1>7
<1>9. pub'.msg <= Len(msgs')
  BY <1>3, <1>7, <1>8
<1> HIDE DEF m
<1> QED
  BY <1>3, <1>4, <1>6, <1>8, <1>9

LEMMA InitType == Init => TypeOK
BY ConstantsAssumption DEF Init, TypeOK, NoPub, Unit

\* Each kind of step preserves the type invariant.
LEMMA PeerType == TypeOK /\ PeerStep => TypeOK'
<1> SUFFICES ASSUME TypeOK, NEW c \in Conns,
                    \/ PeerLeaves(c)
                    \/ \E s \in 1..Sockets : PeerConnects(c, s)
                    \/ \E p \in Packets : PeerSends(c, p)
             PROVE  TypeOK'
  BY DEF PeerStep
<1>1. ASSUME NEW s \in 1..Sockets, PeerConnects(c, s) PROVE TypeOK'
  <2>1. Append(backlog[s], c) \in Seq(Conns)
    BY AppendProperties DEF TypeOK
  <2> QED
    BY <1>1, <2>1 DEF PeerConnects, TypeOK, loopVars, subVars, pubVars
<1>2. CASE PeerLeaves(c)
  <2>1. sock' \in [Conns -> {"idle", "backlog", "open", "gone", "closed"}]
    BY <1>2 DEF PeerLeaves, TypeOK
  <2>2. inbox' \in [Conns -> Seq(Packets)]
    <3>1. <<>> \in Seq(Packets)
      OBVIOUS
    <3>2. inbox' = inbox \/ inbox' = [inbox EXCEPT ![c] = <<>>]
      BY <1>2 DEF PeerLeaves
    <3> QED
      BY <3>1, <3>2 DEF TypeOK
  <2> QED
    BY <1>2, <2>1, <2>2 DEF PeerLeaves, TypeOK, loopVars, subVars, pubVars
<1>3. ASSUME NEW p \in Packets, PeerSends(c, p) PROVE TypeOK'
  BY <1>3, AppendProperties
     DEF PeerSends, TypeOK, loopVars, subVars, pubVars
<1> QED
  BY <1>1, <1>2, <1>3

\* Whatever socket it waits on, a connection handed over is the first there.
LEMMA AcceptType ==
    ASSUME TypeOK, AcceptClient
    PROVE  /\ fresh' \in Conns
           /\ backlog' \in [1..Sockets -> Seq(Conns)]
           /\ \E s \in 1..Sockets : /\ backlog[s] # <<>>
                                    /\ fresh' = backlog[s][1]
                                    /\ backlog' = [backlog EXCEPT ![s] = Tail(@)]
<1>1. PICK s \in 1..Sockets : /\ backlog[s] # <<>>
                             /\ fresh' = Head(backlog[s])
                             /\ backlog' = [backlog EXCEPT ![s] = Tail(@)]
  BY DEF AcceptClient, Offering
<1>2. backlog[s] \in Seq(Conns) /\ backlog \in [1..Sockets -> Seq(Conns)]
  BY DEF TypeOK
<1>3. fresh' = backlog[s][1] /\ backlog[s][1] \in Conns /\ Tail(backlog[s]) \in Seq(Conns)
  BY <1>1, <1>2
<1> QED
  BY <1>1, <1>2, <1>3

LEMMA LoopType ==
    TypeOK /\ (NoClientWaiting \/ AcceptClient \/ HandshakeGivesUp
                 \/ KeepAliveExpires \/ EndTurn \/ EndPass) => TypeOK'
<1> SUFFICES ASSUME TypeOK PROVE
        NoClientWaiting \/ AcceptClient \/ HandshakeGivesUp
            \/ KeepAliveExpires \/ EndTurn \/ EndPass => TypeOK'
  OBVIOUS
<1>1. ASSUME NoClientWaiting PROVE TypeOK'
  BY <1>1, ConstantsAssumption
     DEF NoClientWaiting, TypeOK, peerVars, subVars, pubVars
<1>2. ASSUME AcceptClient PROVE TypeOK'
  <2>1. fresh' \in Conns /\ backlog' \in [1..Sockets -> Seq(Conns)]
    BY <1>2, AcceptType
  <2>2. sock' \in [Conns -> {"idle", "backlog", "open", "gone", "closed"}]
    BY <1>2, <2>1 DEF AcceptClient, TypeOK
  <2> QED
    BY <1>2, <2>1, <2>2 DEF AcceptClient, TypeOK, subVars, pubVars
<1>3. ASSUME HandshakeGivesUp PROVE TypeOK'
  <2>1. fresh \in Conns
    BY <1>3 DEF HandshakeGivesUp, TypeOK
  <2>2. /\ sock' \in [Conns -> {"idle", "backlog", "open", "gone", "closed"}]
        /\ inbox' \in [Conns -> Seq(Packets)]
    BY <1>3, <2>1, StopType DEF HandshakeGivesUp, TypeOK, peerVars
  <2>3. AddClient
    BY <1>3 DEF HandshakeGivesUp
  <2>4. turn = "connect"
    BY <1>3 DEF HandshakeGivesUp
  <2> QED
    BY <1>3, <2>2, <2>3, <2>4, AddClientType
       DEF HandshakeGivesUp, TypeOK, subVars, pubVars
<1>4. ASSUME KeepAliveExpires PROVE TypeOK'
  BY SMTT(30), <1>4, ActiveType, StopType, ConstantsAssumption
     DEF KeepAliveExpires, TypeOK, subVars, pubVars
<1>5. ASSUME EndTurn PROVE TypeOK'
  <2>1. at \in 1..Len(clients)
    BY <1>5 DEF EndTurn, InTurn, TypeOK
  <2>2. clients' \in Seq(Conns) /\ at' \in Nat \ {0}
    <3>1. RemoveAt(clients, at) \in Seq(Conns)
      BY <2>1, RemoveAtType DEF TypeOK
    <3> QED
      BY <1>5, <3>1 DEF EndTurn, TypeOK
  <2>3. subs' \in [Conns -> SUBSET Filters]
    BY <1>5 DEF EndTurn, TypeOK
  <2> QED
    BY SMTT(30), <1>5, <2>2, <2>3, ConstantsAssumption
       DEF EndTurn, TypeOK, peerVars, pubVars
<1>6. ASSUME EndPass PROVE TypeOK'
  BY <1>6 DEF EndPass, TypeOK, peerVars, subVars, pubVars
<1> QED
  BY <1>1, <1>2, <1>3, <1>4, <1>5, <1>6

LEMMA PacketType ==
    TypeOK /\ (HandleConnect \/ HandleStop \/ Answer \/ Subscribe
                 \/ Unsubscribe \/ HandlePublish) => TypeOK'
<1> SUFFICES ASSUME TypeOK PROVE
        HandleConnect \/ HandleStop \/ Answer \/ Subscribe
            \/ Unsubscribe \/ HandlePublish => TypeOK'
  OBVIOUS
<1>1. ASSUME HandleConnect PROVE TypeOK'
  <2>1. /\ sock' \in [Conns -> {"idle", "backlog", "open", "gone", "closed"}]
        /\ inbox' \in [Conns -> Seq(Packets)]
    BY <1>1, PopType, StopType DEF HandleConnect, TypeOK
  <2> QED
    BY <1>1, <2>1, AddClientType DEF HandleConnect, TypeOK, subVars, pubVars
<1>2. ASSUME HandleStop PROVE TypeOK'
  <2>1. PICK types : Arrived(types)
    BY <1>2 DEF HandleStop
  <2> QED
    BY <1>2, <2>1, ArrivedType, StopType, CountType
       DEF HandleStop, TypeOK, subVars, pubVars
<1>3. ASSUME Answer PROVE TypeOK'
  <2>1. PICK types : Arrived(types)
    BY <1>3 DEF Answer
  <2> QED
    BY <1>3, <2>1, PopType, CountType DEF Answer, TypeOK, subVars, pubVars
<1>4. ASSUME Subscribe PROVE TypeOK'
  <2>1. Arrived({"SUBSCRIBE"}) /\ Active \in Conns
    BY <1>4, ArrivedType DEF Subscribe
  <2>2. /\ sock' \in [Conns -> {"idle", "backlog", "open", "gone", "closed"}]
        /\ inbox' \in [Conns -> Seq(Packets)]
    BY <1>4, <2>1, PopType, StopType DEF Subscribe, peerVars, TypeOK
  <2>3. \A i : Packet.filters[i] \in ValidFilters => Packet.filters[i] \in Filters
    BY ConstantsAssumption
  <2>4. subs' \in [Conns -> SUBSET Filters]
    <3> DEFINE more == Accepted(Packet)
    <3>1. subs' = [subs EXCEPT ![Active] = @ \cup more]
      BY <1>4 DEF Subscribe
    <3>2. more \subseteq Filters
      BY <2>3 DEF Accepted
    <3> HIDE DEF more
    <3> QED
      BY <3>1, <3>2 DEF TypeOK
  <2>5. granted' \in [Conns -> SUBSET Filters]
    <3> DEFINE p == Packet
               more == {p.filters[i] : i \in {j \in Handled(p) : Suback(p, j)}}
    <3>1. granted' = granted \/ granted' = [granted EXCEPT ![Active] = @ \cup more]
      BY <1>4 DEF Subscribe
    <3>2. more \subseteq Filters
      BY <2>3 DEF Suback
    <3> HIDE DEF more
    <3>3. granted \in [Conns -> SUBSET Filters] /\ granted[Active] \cup more \in SUBSET Filters
      BY <2>1, <3>2 DEF TypeOK
    <3> QED
      BY <3>1, <3>3
  <2>6. turn' = turn \/ turn' = "stuck"
    BY <1>4 DEF Subscribe
  <2>7. UNCHANGED <<backlog, fresh, at, clients, pubVars>> /\ Count
    BY <1>4 DEF Subscribe
  <2> QED
    BY <2>1, <2>2, <2>4, <2>5, <2>6, <2>7, CountType DEF TypeOK, pubVars
<1>5. ASSUME Unsubscribe PROVE TypeOK'
  <2>1. Arrived({"UNSUBSCRIBE"}) /\ Active \in Conns
    BY <1>5, ArrivedType DEF Unsubscribe
  <2>2. /\ sock' \in [Conns -> {"idle", "backlog", "open", "gone", "closed"}]
        /\ inbox' \in [Conns -> Seq(Packets)]
    BY <1>5, <2>1, PopType, StopType DEF Unsubscribe, peerVars, TypeOK
  <2>3. subs' \in [Conns -> SUBSET Filters] /\ granted' \in [Conns -> SUBSET Filters]
    <3> DEFINE gone == ToSet(Packet.filters)
    <3>1. /\ subs' = subs \/ subs' = [subs EXCEPT ![Active] = @ \ gone]
          /\ granted' = granted \/ granted' = [granted EXCEPT ![Active] = @ \ gone]
      BY <1>5 DEF Unsubscribe
    <3> HIDE DEF gone
    <3>2. /\ subs \in [Conns -> SUBSET Filters] /\ subs[Active] \ gone \in SUBSET Filters
          /\ granted \in [Conns -> SUBSET Filters]
          /\ granted[Active] \ gone \in SUBSET Filters
      BY <2>1 DEF TypeOK
    <3> QED
      BY <3>1, <3>2
  <2>4. turn' = turn \/ turn' = "stuck"
    BY <1>5 DEF Unsubscribe
  <2>5. UNCHANGED <<backlog, fresh, at, clients, pubVars>> /\ Count
    BY <1>5 DEF Unsubscribe
  <2> QED
    BY <2>1, <2>2, <2>3, <2>4, <2>5, CountType DEF TypeOK, pubVars
<1>6. ASSUME HandlePublish PROVE TypeOK'
  <2>1. Arrived({"PUBLISH"}) /\ Active \in Conns
    BY <1>6, ArrivedType DEF HandlePublish
  <2>2. Packet.topic \in Topics /\ Packet.size \in Nat /\ Packet.ack \in BOOLEAN
    BY <2>1, ArrivedType, PacketsAssumption
  <2>3. BeginPublish(Packet.topic, Packet.size, Active, Packet.ack)
    BY <1>6 DEF HandlePublish
  <2>4. /\ subscribed' \in [Conns -> BOOLEAN]
        /\ msgs' \in Seq([topic : Topics, size : Nat, src : Conns \cup {Local},
                          to : SUBSET Conns])
        /\ pub' \in [msg : Nat, next : Nat, buf : Seq(Unit), ack : BOOLEAN,
                     lost : BOOLEAN]
        /\ pub'.msg <= Len(msgs')
        /\ wire' \in [Conns -> Seq(Unit)]
    BY <2>1, <2>2, <2>3, BeginPublishType
  <2>5. /\ sock' \in [Conns -> {"idle", "backlog", "open", "gone", "closed"}]
        /\ inbox' \in [Conns -> Seq(Packets)]
        /\ quota' \in 0..MaxPackets
    BY <1>6, <2>1, PopType, CountType DEF HandlePublish
  <2> QED
    BY <1>6, <2>4, <2>5 DEF HandlePublish, TypeOK, subVars
<1> QED
  BY <1>1, <1>2, <1>3, <1>4, <1>5, <1>6

\* The message being forwarded, and the units it is written in.
LEMMA MsgType ==
    ASSUME TypeOK, ~Idle
    PROVE  /\ pub.msg \in DOMAIN msgs
           /\ Msg.src \in Conns \cup {Local} /\ Msg.size \in Nat /\ Msg.to \subseteq Conns
           /\ pub.next \in Nat /\ pub.buf \in Seq(Unit)
<1> DEFINE M == [topic : Topics, size : Nat, src : Conns \cup {Local}, to : SUBSET Conns]
<1>1. pub.msg \in 1..Len(msgs) /\ pub.next \in Nat /\ pub.buf \in Seq(Unit)
  BY DEF TypeOK, Idle
<1>2. msgs \in Seq(M)
  BY DEF TypeOK
<1>3. Msg \in M
  <2> HIDE DEF M
  <2> QED
    BY <1>1, <1>2 DEF Msg
<1> QED
  BY <1>1, <1>2, <1>3

LEMMA ForwardType ==
    TypeOK /\ (WriteUnit \/ SourceLost \/ Send) => TypeOK'
<1> SUFFICES ASSUME TypeOK PROVE WriteUnit \/ SourceLost \/ Send => TypeOK'
  OBVIOUS
<1>1. ASSUME WriteUnit PROVE TypeOK'
  <2> DEFINE unit == [kind |-> IF pub.lost THEN "zero" ELSE "unit",
                      msg |-> pub.msg, n |-> pub.next]
             buf == Append(pub.buf, unit)
             full == Len(buf) >= BufferSize
  <2>1. unit \in Unit /\ pub.buf \in Seq(Unit) /\ pub.next \in Nat
    BY DEF TypeOK, Unit
  <2>2. buf \in Seq(Unit)
    BY <2>1, AppendProperties
  <2>3. wire' \in [Conns -> Seq(Unit)]
    BY <1>1, <2>2, PrintMuxType DEF WriteUnit, TypeOK
  <2>4. pub' = [pub EXCEPT !.next = @ + 1, !.buf = IF full THEN <<>> ELSE buf]
    BY <1>1 DEF WriteUnit
  <2>5. pub' \in [msg : Nat, next : Nat, buf : Seq(Unit), ack : BOOLEAN, lost : BOOLEAN]
        /\ pub'.msg = pub.msg
    <3> DEFINE b == IF full THEN <<>> ELSE buf
    <3>1. b \in Seq(Unit)
      BY <2>2
    <3>2. pub' = [pub EXCEPT !.next = @ + 1, !.buf = b]
      BY <2>4
    <3>3. pub.next + 1 \in Nat
      BY <2>1
    <3> HIDE DEF b
    <3> QED
      BY <3>1, <3>2, <3>3 DEF TypeOK
  <2> QED
    BY <1>1, <2>3, <2>5 DEF WriteUnit, TypeOK, peerVars, loopVars, subVars
<1>2. ASSUME SourceLost PROVE TypeOK'
  <2>1. Stop(Msg.src) /\ Msg.src \in Conns
    BY <1>2 DEF SourceLost
  <2>2. pub' \in [msg : Nat, next : Nat, buf : Seq(Unit), ack : BOOLEAN, lost : BOOLEAN]
        /\ pub'.msg = pub.msg
    BY <1>2 DEF SourceLost, TypeOK
  <2> QED
    BY <1>2, <2>1, <2>2, StopType DEF SourceLost, TypeOK, loopVars, subVars
<1>3. ASSUME Send PROVE TypeOK'
  <2> DEFINE sent == PrintMux(pub.buf)
             ack == [kind |-> "ack", msg |-> pub.msg, n |-> 0]
  <2>1. pub.buf \in Seq(Unit) /\ ack \in Unit
    BY DEF TypeOK, Unit
  <2>2. sent \in [Conns -> Seq(Unit)]
    BY <2>1, PrintMuxType
  <2>3. wire' = IF pub.ack /\ Msg.src \in Conns /\ sock[Msg.src] = "open"
                THEN [sent EXCEPT ![Msg.src] = Append(@, ack)] ELSE sent
    BY <1>3 DEF Send
  <2>4. wire' \in [Conns -> Seq(Unit)]
    <3> HIDE DEF sent, ack
    <3> QED
      BY <2>1, <2>2, <2>3, AppendProperties
  <2>5. pub' \in [msg : Nat, next : Nat, buf : Seq(Unit), ack : BOOLEAN, lost : BOOLEAN]
        /\ pub'.msg = 0
    BY <1>3 DEF Send, NoPub
  <2>6. Len(msgs) \in Nat
    BY DEF TypeOK
  <2>7. pub'.msg <= Len(msgs') /\ msgs' = msgs /\ subscribed' = subscribed
    BY <1>3, <2>5, <2>6 DEF Send
  <2> QED
    BY <1>3, <2>4, <2>5, <2>7 DEF Send, TypeOK, peerVars, loopVars, subVars
<1> QED
  BY <1>1, <1>2, <1>3

LEMMA AppType == TypeOK /\ AppStep => TypeOK'
<1> SUFFICES ASSUME TypeOK, NEW t \in Topics, NEW n \in Sizes, AppPublish(t, n)
             PROVE  TypeOK'
  BY DEF AppStep
<1>1. n \in Nat
  BY PacketsAssumption DEF Sizes
<1>2. BeginPublish(t, n, Local, FALSE)
  BY DEF AppPublish
<1>3. /\ subscribed' \in [Conns -> BOOLEAN]
      /\ msgs' \in Seq([topic : Topics, size : Nat, src : Conns \cup {Local},
                        to : SUBSET Conns])
      /\ pub' \in [msg : Nat, next : Nat, buf : Seq(Unit), ack : BOOLEAN,
                   lost : BOOLEAN]
      /\ pub'.msg <= Len(msgs')
      /\ wire' \in [Conns -> Seq(Unit)]
  BY <1>1, <1>2, BeginPublishType
<1> QED
  BY <1>3 DEF AppPublish, TypeOK, peerVars, loopVars, subVars

LEMMA NextType == TypeOK /\ [Next]_vars => TypeOK'
<1>1. TypeOK /\ UNCHANGED vars => TypeOK'
  BY DEF TypeOK, vars
<1> QED
  BY <1>1, PeerType, LoopType, PacketType, ForwardType, AppType
     DEF Next, ServerStep, TimedStep

\* In every reachable state every variable of the broker has its type; the
\* message being forwarded is one of those published.
THEOREM TypeCorrect == Spec => []TypeOK
BY InitType, NextType, PTL DEF Spec

-----------------------------------------------------------------------------
(* Routing.  Routed alone is not inductive: what is in the buffer, and the *)
(* flags the next flush will look at, decide what the next step writes.    *)

\* The wire of c holds only units of published messages c should get.
RoutedWire(w, c) ==
    \A i \in DOMAIN w : /\ w[i].msg \in DOMAIN msgs
                        /\ w[i].kind # "ack" => c \in msgs[w[i].msg].to

\* The buffer holds units of the message being forwarded, nothing otherwise.
BufferOwn == \A i \in DOMAIN pub.buf : ~Idle /\ pub.buf[i].msg = pub.msg

\* While a message is forwarded no listed connection has another message's flag.
FlagsAgree == ~Idle => \A c \in ToSet(clients) : subscribed[c] => c \in Msg.to

RoutedInv ==
    /\ TypeOK
    /\ \A c \in Conns : RoutedWire(wire[c], c)
    /\ BufferOwn
    /\ FlagsAgree

LEMMA InitRouted == Init => RoutedInv
<1> SUFFICES ASSUME Init PROVE RoutedInv
  OBVIOUS
<1>1. TypeOK
  BY InitType
<1>2. \A c \in Conns : wire[c] = <<>>
  BY DEF Init
<1>3. pub.buf = <<>> /\ Idle
  BY DEF Init, NoPub, Idle
<1> QED
  BY <1>1, <1>2, <1>3 DEF RoutedInv, RoutedWire, BufferOwn, FlagsAgree

\* Steps that leave the forwarding alone: the list may change only between messages.
LEMMA OtherRouted ==
    ASSUME RoutedInv, TypeOK', UNCHANGED pubVars, Idle \/ UNCHANGED clients
    PROVE  RoutedInv'
<1>1. UNCHANGED <<subscribed, pub, msgs, wire>>
  BY DEF pubVars
<1>2. (\A c \in Conns : RoutedWire(wire[c], c))' /\ BufferOwn'
  BY <1>1 DEF RoutedInv, RoutedWire, BufferOwn, Idle
<1>3. FlagsAgree'
  BY <1>1 DEF RoutedInv, FlagsAgree, Idle, Msg, ToSet
<1> QED
  BY <1>2, <1>3 DEF RoutedInv

\* What a flush writes is routed.
LEMMA PrintMuxRouted ==
    ASSUME RoutedInv, ~Idle, NEW units \in Seq(Unit),
           \A i \in DOMAIN units : units[i].msg = pub.msg,
           NEW c \in Conns
    PROVE  RoutedWire(PrintMux(units)[c], c)
<1>1. wire[c] \in Seq(Unit) /\ RoutedWire(wire[c], c)
  BY DEF RoutedInv, TypeOK
<1>2. CASE c \in ToSet(clients) /\ subscribed[c] /\ sock[c] = "open"
  <2>1. PrintMux(units)[c] = wire[c] \o units
    BY <1>2 DEF PrintMux
  <2>2. pub.msg \in DOMAIN msgs /\ c \in msgs[pub.msg].to
    BY <1>2, MsgType DEF RoutedInv, FlagsAgree, Msg
  <2>3. ASSUME NEW i \in DOMAIN (wire[c] \o units)
        PROVE  LET u == (wire[c] \o units)[i]
               IN  u.msg \in DOMAIN msgs /\ (u.kind # "ack" => c \in msgs[u.msg].to)
    <3>1. i \in 1..(Len(wire[c]) + Len(units))
      BY <1>1, <2>3, ConcatProperties
    <3>2. CASE i <= Len(wire[c])
      BY <1>1, <3>1, <3>2, ConcatProperties DEF RoutedWire
    <3>3. CASE i > Len(wire[c])
      <4>1. (wire[c] \o units)[i] = units[i - Len(wire[c])]
            /\ i - Len(wire[c]) \in DOMAIN units
        BY <1>1, <3>1, <3>3, ConcatProperties
      <4> QED
        BY <2>2, <4>1
    <3> QED
      BY <1>1, <3>1, <3>2, <3>3
  <2> QED
    BY <2>1, <2>3 DEF RoutedWire
<1>3. CASE ~(c \in ToSet(clients) /\ subscribed[c] /\ sock[c] = "open")
  BY <1>1, <1>3 DEF PrintMux
<1> QED
  BY <1>2, <1>3

LEMMA BeginPublishRouted ==
    ASSUME RoutedInv, TypeOK', Idle, UNCHANGED clients,
           NEW t, NEW n, NEW s, NEW a, BeginPublish(t, n, s, a)
    PROVE  RoutedInv'
<1> DEFINE m == [topic |-> t, size |-> n, src |-> s,
                 to |-> {c \in ToSet(clients) : Subscribes(c, t)}]
<1>1. msgs' = Append(msgs, m) /\ wire' = wire
  BY DEF BeginPublish
<1>2. pub'.msg = Len(msgs) + 1 /\ pub'.buf = <<>>
  BY DEF BeginPublish, NoPub
<1>3. m.to = {c \in ToSet(clients) : Subscribes(c, t)}
  OBVIOUS
<1> HIDE DEF m
<1>4. /\ Len(msgs') = Len(msgs) + 1 /\ msgs'[Len(msgs) + 1] = m
      /\ DOMAIN msgs \subseteq DOMAIN msgs'
      /\ \A k \in DOMAIN msgs : msgs'[k] = msgs[k]
  <2>1. PICK S : msgs \in Seq(S)
    BY DEF RoutedInv, TypeOK
  <2> QED
    BY <1>1, <2>1
<1>5. (\A c \in Conns : RoutedWire(wire[c], c))'
  BY <1>1, <1>4 DEF RoutedInv, RoutedWire
<1>6. BufferOwn'
  BY <1>2 DEF BufferOwn
<1>7. FlagsAgree'
  <2>1. Msg' = m
    BY <1>2, <1>4 DEF Msg
  <2>2. ToSet(clients) \subseteq Conns
    BY DEF RoutedInv, TypeOK, ToSet
  <2>3. \A c \in ToSet(clients) : subscribed'[c] => Subscribes(c, t)
    BY <2>2 DEF BeginPublish, SetSubscribed
  <2>4. ToSet(clients)' = ToSet(clients)
    BY DEF ToSet
  <2> QED
    BY <1>3, <2>1, <2>3, <2>4 DEF FlagsAgree
<1> QED
  BY <1>5, <1>6, <1>7 DEF RoutedInv

LEMMA ForwardRouted ==
    ASSUME RoutedInv, TypeOK', WriteUnit \/ SourceLost \/ Send
    PROVE  RoutedInv'
<1>1. ~Idle /\ UNCHANGED <<clients, subscribed, msgs>>
  BY DEF WriteUnit, SourceLost, Send, loopVars
<1>2. pub.msg \in DOMAIN msgs /\ pub.buf \in Seq(Unit) /\ pub.next \in Nat
  BY <1>1, MsgType DEF RoutedInv
<1>3. pub'.msg = pub.msg => FlagsAgree'
  BY <1>1 DEF RoutedInv, FlagsAgree, Msg, Idle, ToSet
<1>4. CASE WriteUnit
  <2> DEFINE unit == [kind |-> IF pub.lost THEN "zero" ELSE "unit",
                      msg |-> pub.msg, n |-> pub.next]
             buf == Append(pub.buf, unit)
             full == Len(buf) >= BufferSize
  <2>1. unit \in Unit /\ unit.msg = pub.msg
    BY <1>2 DEF Unit, RoutedInv, TypeOK
  <2>2. /\ wire' = IF full THEN PrintMux(buf) ELSE wire
        /\ pub' = [pub EXCEPT !.next = @ + 1, !.buf = IF full THEN <<>> ELSE buf]
    BY <1>4 DEF WriteUnit
  <2> HIDE DEF unit
  <2>3. buf \in Seq(Unit) /\ \A i \in DOMAIN buf : buf[i].msg = pub.msg
    BY <1>2, <2>1, AppendProperties DEF RoutedInv, BufferOwn
  <2> HIDE DEF buf, full
  <2>4. \A c \in Conns : RoutedWire(wire'[c], c)
    BY <1>1, <2>2, <2>3, PrintMuxRouted DEF RoutedInv
  <2>5. pub'.msg = pub.msg /\ (pub'.buf = <<>> \/ pub'.buf = buf)
    BY <2>2 DEF RoutedInv, TypeOK
  <2>6. (\A c \in Conns : RoutedWire(wire[c], c))'
    BY <1>1, <2>4 DEF RoutedWire
  <2>7. BufferOwn'
    BY <1>1, <2>3, <2>5 DEF BufferOwn, Idle
  <2> QED
    BY <1>3, <2>5, <2>6, <2>7 DEF RoutedInv
<1>5. CASE SourceLost
  <2>1. wire' = wire /\ pub' = [pub EXCEPT !.lost = TRUE]
    BY <1>5 DEF SourceLost
  <2>2. pub'.msg = pub.msg /\ pub'.buf = pub.buf
    BY <2>1 DEF RoutedInv, TypeOK
  <2>3. (\A c \in Conns : RoutedWire(wire[c], c))'
    BY <1>1, <2>1 DEF RoutedInv, RoutedWire
  <2>4. BufferOwn'
    BY <2>2 DEF RoutedInv, BufferOwn, Idle
  <2> QED
    BY <1>3, <2>2, <2>3, <2>4 DEF RoutedInv
<1>6. CASE Send
  <2> DEFINE sent == PrintMux(pub.buf)
             ack == [kind |-> "ack", msg |-> pub.msg, n |-> 0]
             s == Msg.src
  <2>1. /\ wire' = IF pub.ack /\ s \in Conns /\ sock[s] = "open"
                   THEN [sent EXCEPT ![s] = Append(@, ack)] ELSE sent
        /\ pub' = NoPub
    BY <1>6 DEF Send
  <2>2. sent \in [Conns -> Seq(Unit)]
    BY <1>2, PrintMuxType DEF RoutedInv
  <2>3. \A c \in Conns : RoutedWire(sent[c], c)
    BY <1>1, <1>2, PrintMuxRouted DEF RoutedInv, BufferOwn
  <2>4. ack.kind = "ack" /\ ack.msg = pub.msg
    OBVIOUS
  <2> HIDE DEF sent, ack, s
  <2>5. ASSUME NEW c \in Conns PROVE RoutedWire(Append(sent[c], ack), c)
    <3>1. sent[c] \in Seq(Unit) /\ RoutedWire(sent[c], c)
      BY <2>2, <2>3
    <3>2. /\ DOMAIN Append(sent[c], ack) = 1..(Len(sent[c]) + 1)
          /\ Append(sent[c], ack)[Len(sent[c]) + 1] = ack
          /\ \A i \in 1..Len(sent[c]) : Append(sent[c], ack)[i] = sent[c][i]
      BY <3>1
    <3> QED
      BY <1>2, <2>4, <3>1, <3>2 DEF RoutedWire
  <2>6. \A c \in Conns : wire'[c] = sent[c] \/ wire'[c] = Append(sent[c], ack)
    BY <2>1, <2>2
  <2>7. (\A c \in Conns : RoutedWire(wire[c], c))'
    BY <1>1, <2>3, <2>5, <2>6 DEF RoutedWire
  <2>8. Idle' /\ pub'.buf = <<>>
    BY <2>1 DEF Idle, NoPub
  <2> QED
    BY <2>7, <2>8 DEF RoutedInv, BufferOwn, FlagsAgree
<1> QED
  BY <1>4, <1>5, <1>6

LEMMA NextRouted == RoutedInv /\ [Next]_vars => RoutedInv'
<1> SUFFICES ASSUME RoutedInv, [Next]_vars PROVE RoutedInv'
  OBVIOUS
<1>1. TypeOK'
  BY NextType DEF RoutedInv
<1>2. CASE UNCHANGED vars
  BY <1>1, <1>2, OtherRouted DEF vars, pubVars
<1>3. CASE PeerStep
  BY <1>1, <1>3, OtherRouted
     DEF PeerStep, PeerConnects, PeerSends, PeerLeaves, loopVars
<1>4. CASE NoClientWaiting \/ AcceptClient \/ HandshakeGivesUp
             \/ KeepAliveExpires \/ EndTurn \/ EndPass
  BY <1>1, <1>4, OtherRouted
     DEF NoClientWaiting, AcceptClient, HandshakeGivesUp, KeepAliveExpires,
         EndTurn, EndPass, InTurn
<1>5. CASE HandleConnect \/ HandleStop \/ Answer \/ Subscribe \/ Unsubscribe
  BY <1>1, <1>5, OtherRouted
     DEF HandleConnect, HandleStop, Answer, Subscribe, Unsubscribe, Arrived
<1>6. CASE HandlePublish
  BY <1>1, <1>6, BeginPublishRouted DEF HandlePublish, Arrived
<1>7. CASE WriteUnit \/ SourceLost \/ Send
  BY <1>1, <1>7, ForwardRouted
<1>8. CASE AppStep
  BY <1>1, <1>8, BeginPublishRouted DEF AppStep, AppPublish, loopVars
<1> QED
  BY <1>2, <1>3, <1>4, <1>5, <1>6, <1>7, <1>8 DEF Next, ServerStep, TimedStep

\* Nothing of a message is ever written to a connection that had no matching
\* subscription when the message began, for any number of connections, of
\* subscribers lost and of messages before it.
THEOREM RoutedAlways == Spec => []Routed
<1>1. RoutedInv => Routed
  BY DEF RoutedInv, RoutedWire, Routed
<1> QED
  BY <1>1, InitRouted, NextRouted, PTL DEF Spec

-----------------------------------------------------------------------------
(* Subscriptions.  A handler must never run for a connection that is still in *)
(* the backlog: its peer would be told nothing and would be open afterwards.  *)

Established(c) == sock[c] \notin {"idle", "backlog"}

\* Only peers that have connected wait to be handed over.
Arrivals(q) == \A i \in DOMAIN q : sock[q[i]] # "idle"

GrantedInv ==
    /\ TypeOK
    /\ turn # "stuck" =>
          \A c \in Conns : sock[c] \in {"idle", "backlog", "open"} => granted[c] = subs[c]
    /\ \A c \in ToSet(clients) : Established(c)
    /\ turn = "connect" => Established(fresh)
    /\ \A s \in 1..Sockets : Arrivals(backlog[s])

LEMMA InitGranted == Init => GrantedInv
<1> SUFFICES ASSUME Init PROVE GrantedInv
  OBVIOUS
<1>1. TypeOK
  BY InitType
<1> QED
  BY <1>1 DEF Init, GrantedInv, Arrivals, ToSet

\* Sockets never go back to a state before the connection was handed over.
LEMMA NextSock ==
    ASSUME TypeOK, [Next]_vars, NEW c \in Conns
    PROVE  /\ Established(c) => Established(c)'
           /\ sock[c] # "idle" => sock'[c] # "idle"
           /\ sock[c] = "closed" => sock'[c] = "closed"
           /\ sock'[c] = sock[c] \/ sock'[c] = "closed" \/ sock'[c] = "gone"
                \/ (sock[c] = "idle" /\ sock'[c] = "backlog")
                \/ (sock[c] = "backlog" /\ sock'[c] = "open")
<1> DEFINE Kept == \/ sock' = sock
                   \/ \E d \in Conns : sock' = [sock EXCEPT ![d] = "closed"]
                   \/ \E d \in Conns : sock[d] # "closed" /\ sock' = [sock EXCEPT ![d] = "gone"]
                   \/ \E d \in Conns : sock[d] = "idle" /\ sock' = [sock EXCEPT ![d] = "backlog"]
                   \/ \E d \in Conns : sock[d] = "backlog" /\ sock' = [sock EXCEPT ![d] = "open"]
<1>1. ASSUME UNCHANGED vars PROVE Kept
  BY <1>1 DEF vars
<1>2. ASSUME PeerStep PROVE Kept
  BY <1>2 DEF PeerStep, PeerConnects, PeerSends, PeerLeaves
<1>3. ASSUME NoClientWaiting \/ KeepAliveExpires \/ EndTurn \/ EndPass PROVE Kept
  BY <1>3, ActiveType
     DEF NoClientWaiting, KeepAliveExpires, EndTurn, EndPass, Stop, peerVars
<1>4. ASSUME AcceptClient PROVE Kept
  BY <1>4, AcceptType DEF AcceptClient, TypeOK
<1>5. ASSUME HandshakeGivesUp PROVE Kept
  BY <1>5 DEF HandshakeGivesUp, Stop, peerVars, TypeOK
<1>6. ASSUME HandleConnect \/ HandleStop \/ Answer \/ Subscribe \/ Unsubscribe \/ HandlePublish PROVE Kept
  <2>1. PICK types : Arrived(types)
    BY <1>6 DEF HandleConnect, HandleStop, Answer, Subscribe, Unsubscribe, HandlePublish
  <2>2. Active \in Conns
    BY <2>1, ArrivedType
  <2>3. sock' = sock \/ \E d \in Conns : sock' = [sock EXCEPT ![d] = "closed"]
    BY <1>6, <2>2 DEF HandleConnect, HandleStop, Answer, Subscribe, Unsubscribe,
                     HandlePublish, Pop, Stop, TypeOK, peerVars
  <2> QED
    BY <2>3
<1>7. ASSUME WriteUnit \/ SourceLost \/ Send PROVE Kept
  BY <1>7 DEF WriteUnit, SourceLost, Send, Stop, peerVars
<1>8. ASSUME AppStep PROVE Kept
  BY <1>8 DEF AppStep, AppPublish, peerVars
<1>9. Kept
  BY <1>1, <1>2, <1>3, <1>4, <1>5, <1>6, <1>7, <1>8 DEF Next, ServerStep, TimedStep
<1> QED
  BY <1>9 DEF Established, TypeOK

\* The connection a packet is read from has been handed over.
LEMMA ActiveEstablished ==
    ASSUME GrantedInv, turn = "connect" \/ InTurn
    PROVE  Active \in Conns /\ Established(Active)
BY ActiveType DEF GrantedInv, Active, InTurn, TypeOK, ToSet

\* The waiting connections and those that had their handshake.
LEMMA NextListed ==
    ASSUME GrantedInv, TypeOK', [Next]_vars
    PROVE  /\ (\A c \in ToSet(clients) : Established(c))'
           /\ (turn = "connect" => Established(fresh))'
           /\ (\A s \in 1..Sockets : Arrivals(backlog[s]))'
<1>1. \A c \in Conns : Established(c) => Established(c)'
  BY NextSock DEF GrantedInv
<1>2. \A c \in Conns : sock[c] # "idle" => sock'[c] # "idle"
  BY NextSock DEF GrantedInv
<1>3. \A i \in DOMAIN clients : clients[i] \in Conns /\ Established(clients[i])
  BY DEF GrantedInv, ToSet, TypeOK
<1>4. /\ backlog \in [1..Sockets -> Seq(Conns)]
      /\ \A s \in 1..Sockets : \A i \in DOMAIN backlog[s] :
             backlog[s][i] \in Conns /\ sock[backlog[s][i]] # "idle"
  <2>1. backlog \in [1..Sockets -> Seq(Conns)]
    BY DEF GrantedInv, TypeOK
  <2>2. ASSUME NEW s \in 1..Sockets, NEW i \in DOMAIN backlog[s]
        PROVE  backlog[s][i] \in Conns /\ sock[backlog[s][i]] # "idle"
    <3>1. backlog[s] \in Seq(Conns) /\ Arrivals(backlog[s])
      BY <2>1 DEF GrantedInv
    <3> QED
      BY <3>1 DEF Arrivals
  <2> QED
    BY <2>1, <2>2
<1>5. clients' = clients
      \/ (turn = "connect" /\ fresh \in Conns /\ clients' = <<fresh>> \o clients)
      \/ (at \in 1..Len(clients) /\ clients' = RemoveAt(clients, at))
  <2>1. CASE HandleConnect \/ HandshakeGivesUp
    <3>1. turn = "connect" /\ clients' = <<fresh>> \o clients
      BY <2>1 DEF HandleConnect, HandshakeGivesUp, AddClient
    <3> QED
      BY <3>1 DEF GrantedInv, TypeOK
  <2>2. CASE EndTurn
    <3>1. at \in 1..Len(clients)
      BY <2>2 DEF EndTurn, InTurn, GrantedInv, TypeOK
    <3> QED
      BY <2>2, <3>1 DEF EndTurn
  <2>3. CASE ~HandleConnect /\ ~HandshakeGivesUp /\ ~EndTurn
    <3>1. clients' = clients
      BY <2>3 DEF Next, PeerStep, ServerStep, TimedStep, AppStep, vars,
         PeerConnects, PeerSends, PeerLeaves, NoClientWaiting, AcceptClient,
         EndPass, HandleStop, Answer, Subscribe, Unsubscribe, HandlePublish,
         WriteUnit, Send, KeepAliveExpires, SourceLost, AppPublish, loopVars
    <3> QED
      BY <3>1
  <2> QED
    BY <2>1, <2>2, <2>3
<1>6. \A i \in DOMAIN clients' : clients'[i] \in Conns /\ Established(clients'[i])
  <2>1. CASE clients' = clients
    BY <1>3, <2>1
  <2>2. CASE turn = "connect" /\ fresh \in Conns /\ clients' = <<fresh>> \o clients
    <3>1. Established(fresh) /\ clients \in Seq(Conns) /\ <<fresh>> \in Seq(Conns)
      BY <2>2 DEF GrantedInv, TypeOK
    <3>2. /\ Len(<<fresh>> \o clients) = 1 + Len(clients)
          /\ (<<fresh>> \o clients)[1] = fresh
          /\ \A i \in 2..(1 + Len(clients)) : (<<fresh>> \o clients)[i] = clients[i - 1]
      BY <3>1
    <3>3. \A i \in 2..(1 + Len(clients)) : i - 1 \in DOMAIN clients
      BY <3>1
    <3>4. DOMAIN clients' = 1..(1 + Len(clients))
      BY <2>2, <3>1, <3>2
    <3>5. \A i \in DOMAIN clients' : i = 1 \/ i \in 2..(1 + Len(clients))
      BY <3>4
    <3> QED
      BY <1>3, <2>2, <3>1, <3>2, <3>3, <3>5
  <2>3. CASE at \in 1..Len(clients) /\ clients' = RemoveAt(clients, at)
    <3>1. clients \in Seq(Conns) /\ Len(clients) \in Nat
      BY DEF GrantedInv, TypeOK
    <3>2. /\ Len(clients') = Len(clients) - 1
          /\ clients' \in Seq(Conns)
          /\ \A k \in 1..(Len(clients) - 1) :
                 clients'[k] = IF k < at THEN clients[k] ELSE clients[k + 1]
      BY <2>3, <3>1, RemoveAtType
    <3>3. \A k \in 1..(Len(clients) - 1) : k \in DOMAIN clients /\ k + 1 \in DOMAIN clients
      BY <3>1
    <3>4. DOMAIN clients' = 1..(Len(clients) - 1)
      BY <3>2
    <3> QED
      BY <1>3, <3>2, <3>3, <3>4
  <2> QED
    BY <1>5, <2>1, <2>2, <2>3
<1>7. (\A c \in ToSet(clients) : Established(c))'
  <2>1. \A i \in DOMAIN clients' : sock'[clients'[i]] \notin {"idle", "backlog"}
    BY <1>1, <1>6 DEF Established
  <2> QED
    BY <2>1 DEF ToSet, Established
<1>8. AcceptClient \/ (turn' = "connect" => turn = "connect" /\ fresh' = fresh)
  BY DEF Next, PeerStep, ServerStep, TimedStep, AppStep, vars,
         PeerConnects, PeerSends, PeerLeaves, NoClientWaiting, EndTurn,
         EndPass, HandleConnect, HandleStop, Answer, Subscribe, Unsubscribe,
         HandlePublish, WriteUnit, Send, HandshakeGivesUp, KeepAliveExpires,
         SourceLost, AppPublish, AddClient, loopVars
<1>9. CASE AcceptClient
  <2>1. PICK s \in 1..Sockets : /\ backlog[s] # <<>>
                               /\ fresh' = backlog[s][1]
                               /\ backlog' = [backlog EXCEPT ![s] = Tail(@)]
    BY <1>9, AcceptType DEF GrantedInv
  <2>2. backlog[s] \in Seq(Conns) /\ 1 \in DOMAIN backlog[s]
    BY <1>4, <2>1
  <2>3. sock[fresh'] # "idle" /\ fresh' \in Conns
    BY <1>4, <2>1, <2>2
  <2>4. Established(fresh)'
    BY <1>9, <2>3 DEF AcceptClient, Established, GrantedInv, TypeOK
  <2>5. \A i \in DOMAIN Tail(backlog[s]) :
            Tail(backlog[s])[i] = backlog[s][i + 1] /\ i + 1 \in DOMAIN backlog[s]
    BY <2>1, <2>2
  <2>6. ASSUME NEW r \in 1..Sockets
        PROVE  \A i \in DOMAIN backlog'[r] : sock'[backlog'[r][i]] # "idle"
    <3>1. CASE r = s
      <4>1. backlog'[r] = Tail(backlog[s])
        BY <1>4, <2>1, <3>1
      <4> QED
        BY <1>2, <1>4, <2>5, <4>1
    <3>2. CASE r # s
      <4>1. backlog'[r] = backlog[r]
        BY <1>4, <2>1, <3>2
      <4> QED
        BY <1>2, <1>4, <4>1
    <3> QED
      BY <3>1, <3>2
  <2> QED
    BY <1>7, <2>4, <2>6 DEF Arrivals
<1>10. CASE ~AcceptClient
  <2>1. (turn = "connect" => Established(fresh))'
    BY <1>1, <1>8, <1>10 DEF GrantedInv, TypeOK, Established
  <2>2. backlog' = backlog
        \/ \E c \in Conns, s \in 1..Sockets :
               sock'[c] = "backlog" /\ backlog' = [backlog EXCEPT ![s] = Append(@, c)]
    BY <1>10
       DEF GrantedInv, TypeOK, Next, PeerStep, ServerStep, TimedStep, AppStep, vars,
           PeerConnects, PeerSends, PeerLeaves, NoClientWaiting, EndTurn,
           EndPass, HandleConnect, HandleStop, Answer, Subscribe, Unsubscribe,
           HandlePublish, WriteUnit, Send, HandshakeGivesUp, KeepAliveExpires,
           SourceLost, AppPublish
  <2>3. CASE backlog' = backlog
    BY <1>2, <1>4, <1>7, <2>1, <2>3 DEF Arrivals
  <2>4. ASSUME NEW c \in Conns, NEW s \in 1..Sockets, sock'[c] = "backlog",
               backlog' = [backlog EXCEPT ![s] = Append(@, c)], NEW r \in 1..Sockets
        PROVE  \A i \in DOMAIN backlog'[r] : sock'[backlog'[r][i]] # "idle"
    <3>1. CASE r = s
      <4>1. backlog[s] \in Seq(Conns) /\ backlog'[r] = Append(backlog[s], c)
        BY <1>4, <2>4, <3>1
      <4>2. /\ DOMAIN backlog'[r] = 1..(Len(backlog[s]) + 1)
            /\ backlog'[r][Len(backlog[s]) + 1] = c
            /\ \A i \in 1..Len(backlog[s]) : backlog'[r][i] = backlog[s][i]
        BY <4>1
      <4>3. \A i \in DOMAIN backlog'[r] : i \in DOMAIN backlog[s] \/ i = Len(backlog[s]) + 1
        BY <4>1, <4>2
      <4> QED
        BY <1>2, <1>4, <2>4, <4>1, <4>2, <4>3
    <3>2. CASE r # s
      <4>1. backlog'[r] = backlog[r]
        BY <1>4, <2>4, <3>2
      <4> QED
        BY <1>2, <1>4, <4>1
    <3> QED
      BY <3>1, <3>2
  <2> QED
    BY <1>7, <2>1, <2>2, <2>3, <2>4 DEF Arrivals
<1> QED
  BY <1>9, <1>10

\* A handler that waits for bytes which never come is never left.
LEMMA StuckStays ==
    ASSUME [Next]_vars, turn = "stuck"
    PROVE  turn' = "stuck"
BY DEF Next, PeerStep, ServerStep, TimedStep, AppStep, vars,
       PeerConnects, PeerSends, PeerLeaves, NoClientWaiting, AcceptClient, EndTurn,
       EndPass, HandleConnect, HandleStop, Answer, Subscribe, Unsubscribe,
       HandlePublish, WriteUnit, Send, HandshakeGivesUp, KeepAliveExpires,
       SourceLost, AppPublish, Arrived, InTurn, loopVars

LEMMA NextGranted == GrantedInv /\ [Next]_vars => GrantedInv'
<1> SUFFICES ASSUME GrantedInv, [Next]_vars PROVE GrantedInv'
  OBVIOUS
<1> DEFINE Agree(c) == /\ turn # "stuck"
                       /\ sock[c] \in {"idle", "backlog", "open"}
                       => granted[c] = subs[c]
<1>0. turn = "stuck" => turn' = "stuck"
  BY StuckStays
<1>1. TypeOK /\ TypeOK'
  BY NextType DEF GrantedInv
<1>2. \A c \in Conns : Agree(c)
  BY DEF GrantedInv
<1>3. ASSUME NEW c \in Conns, granted'[c] = granted[c], subs'[c] = subs[c]
      PROVE  Agree(c)'
  BY <1>0, <1>1, <1>2, <1>3, NextSock
<1>4. ASSUME UNCHANGED subVars PROVE \A c \in Conns : Agree(c)'
  BY <1>3, <1>4 DEF subVars
<1>5. ASSUME EndTurn PROVE \A c \in Conns : Agree(c)'
  <2>1. CASE Connected(Active)
    BY <1>3, <1>5, <2>1 DEF EndTurn
  <2>2. CASE ~Connected(Active)
    <3>1. Active \in Conns /\ Established(Active) /\ sock[Active] # "open"
      BY <1>5, <2>2, ActiveEstablished DEF EndTurn, Connected
    <3>2. sock' = sock /\ subs' = [subs EXCEPT ![Active] = {}] /\ granted' = granted
      BY <1>5, <2>2 DEF EndTurn, peerVars
    <3> QED
      BY <1>0, <1>1, <1>2, <3>1, <3>2 DEF Established, TypeOK
  <2> QED
    BY <2>1, <2>2
<1>6. ASSUME Subscribe, turn' # "stuck" PROVE \A c \in Conns : Agree(c)'
  <2> DEFINE p == Packet
             more == Accepted(p)
  <2>1. Active \in Conns /\ Established(Active)
    BY <1>6, ActiveEstablished DEF Subscribe, Arrived
  <2>2. subs' = [subs EXCEPT ![Active] = @ \cup more]
    BY <1>6 DEF Subscribe
  <2>3. more = {p.filters[i] : i \in {j \in Handled(p) : Suback(p, j)}}
    BY DEF Accepted, Suback
  <2>4. \/ sock' = [sock EXCEPT ![Active] = "closed"] /\ granted' = granted
        \/ sock' = sock /\ granted' =
               IF sock[Active] # "open" THEN granted
               ELSE [granted EXCEPT ![Active] = @ \cup more]
    BY <1>6, <2>3 DEF Subscribe, Stop, Pop
  <2> HIDE DEF more
  <2>5. PICK a \in Conns : sock[a] \notin {"idle", "backlog"} /\ a = Active
    BY <2>1 DEF Established
  <2>6. ASSUME NEW c \in Conns, c # a PROVE Agree(c)'
    <3>1. subs'[c] = subs[c] /\ granted'[c] = granted[c]
      BY <1>1, <2>2, <2>4, <2>5, <2>6 DEF TypeOK
    <3> QED
      BY <1>3, <3>1
  <2>7. Agree(a)'
    <3>1. CASE sock' = [sock EXCEPT ![a] = "closed"]
      BY <1>1, <2>5, <3>1 DEF TypeOK
    <3>2. CASE /\ sock' = sock
               /\ granted' = IF sock[a] # "open" THEN granted
                             ELSE [granted EXCEPT ![a] = @ \cup more]
      <4>1. subs'[a] = subs[a] \cup more
        BY <1>1, <2>2, <2>5 DEF TypeOK
      <4>2. CASE sock[a] # "open"
        BY <2>5, <3>2, <4>2
      <4>3. CASE sock[a] = "open"
        <5>1. granted'[a] = granted[a] \cup more
          BY <1>1, <2>5, <3>2, <4>3 DEF TypeOK
        <5>2. turn # "stuck"
          BY <1>0, <1>6
        <5> QED
          BY <1>2, <2>5, <4>1, <4>3, <5>1, <5>2
      <4> QED
        BY <4>2, <4>3
    <3> QED
      BY <2>4, <2>5, <3>1, <3>2
  <2> QED
    BY <2>6, <2>7
<1>7. ASSUME Unsubscribe, turn' # "stuck" PROVE \A c \in Conns : Agree(c)'
  <2> DEFINE gone == ToSet(Packet.filters)
  <2>1. PICK a \in Conns : sock[a] \notin {"idle", "backlog"} /\ a = Active
    BY <1>7, ActiveEstablished DEF Unsubscribe, Arrived, Established
  <2>2. \/ /\ sock' = [sock EXCEPT ![a] = "closed"]
           /\ subs' = subs \/ subs' = [subs EXCEPT ![a] = @ \ gone]
           /\ granted' = granted
        \/ /\ subs' = [subs EXCEPT ![a] = @ \ gone]
           /\ granted' = [granted EXCEPT ![a] = @ \ gone]
           /\ sock' = sock
    BY <1>7, <2>1 DEF Unsubscribe, Pop, Stop
  <2> HIDE DEF gone
  <2>3. ASSUME NEW c \in Conns, c # a PROVE Agree(c)'
    <3>1. subs'[c] = subs[c] /\ granted'[c] = granted[c]
      BY <1>1, <2>1, <2>2, <2>3 DEF TypeOK
    <3> QED
      BY <1>3, <3>1
  <2>4. Agree(a)'
    <3>1. CASE sock' = [sock EXCEPT ![a] = "closed"]
      BY <1>1, <2>1, <3>1 DEF TypeOK
    <3>2. CASE /\ subs' = [subs EXCEPT ![a] = @ \ gone]
               /\ granted' = [granted EXCEPT ![a] = @ \ gone]
               /\ sock' = sock
      <4>1. subs'[a] = subs[a] \ gone /\ granted'[a] = granted[a] \ gone
        BY <1>1, <2>1, <3>2 DEF TypeOK
      <4>2. turn # "stuck"
        BY <1>0, <1>7
      <4> QED
        BY <1>2, <2>1, <3>2, <4>1, <4>2
    <3> QED
      BY <2>2, <3>1, <3>2
  <2> QED
    BY <2>3, <2>4
<1>8. UNCHANGED subVars \/ EndTurn \/ Subscribe \/ Unsubscribe
  BY DEF Next, PeerStep, ServerStep, TimedStep, AppStep, vars, subVars,
         PeerConnects, PeerSends, PeerLeaves, NoClientWaiting, AcceptClient,
         EndPass, HandleConnect, HandleStop, Answer, HandlePublish, WriteUnit,
         Send, HandshakeGivesUp, KeepAliveExpires, SourceLost, AppPublish
<1>9. (\A c \in Conns : Agree(c))'
  <2>1. CASE turn' = "stuck"
    BY <2>1
  <2>2. CASE turn' # "stuck"
    BY <1>4, <1>5, <1>6, <1>7, <1>8, <2>2
  <2> QED
    BY <2>1, <2>2
<1> QED
  BY <1>1, <1>9, NextListed DEF GrantedInv

\* The peer of an open connection is told exactly the subscriptions the broker
\* matches against, whatever SUBSCRIBE packets, limits and removals came before.
THEOREM GrantedAlways == Spec => []GrantedIsActive
<1>1. GrantedInv => GrantedIsActive
  BY DEF GrantedInv, GrantedIsActive
<1> QED
  BY <1>1, InitGranted, NextGranted, PTL DEF Spec

(***************************************************************************)
(* What the broker writes to its connections: messages are in order, whole,  *)
(* framed, acknowledged last, and filled up only when their publisher was  *)
(* cut off.                                                                *)
(*                                                                         *)
(* The theorems rest on one invariant of the message in progress,          *)
(* `Underway': what is in the buffer are its units up to the next one, and *)
(* who it is for are the listed connections that are flagged.  What has left  *)
(* the buffer is then known from `pub' alone.                              *)
(***************************************************************************)

-----------------------------------------------------------------------------
(* The kinds of steps.                                                     *)

Quiet == UNCHANGED pubVars /\ (Idle \/ UNCHANGED clients)

Begun ==
    /\ Idle /\ UNCHANGED <<clients, sock, subs>>
    /\ \E t \in Topics, n \in Nat, s \in Conns \cup {Local}, a \in BOOLEAN :
          BeginPublish(t, n, s, a)

LEMMA StepKinds ==
    ASSUME TypeOK, [Next]_vars
    PROVE  Quiet \/ Begun \/ WriteUnit \/ SourceLost \/ Send
<1>1. CASE UNCHANGED vars
  BY <1>1 DEF vars, Quiet, pubVars
<1>2. CASE PeerStep
  BY <1>2 DEF PeerStep, PeerConnects, PeerSends, PeerLeaves, loopVars, Quiet
<1>3. CASE NoClientWaiting \/ AcceptClient \/ HandshakeGivesUp
             \/ KeepAliveExpires \/ EndTurn \/ EndPass
  BY <1>3 DEF NoClientWaiting, AcceptClient, HandshakeGivesUp, KeepAliveExpires,
              EndTurn, EndPass, InTurn, Quiet
<1>4. CASE HandleConnect \/ HandleStop \/ Answer \/ Subscribe \/ Unsubscribe
  BY <1>4 DEF HandleConnect, HandleStop, Answer, Subscribe, Unsubscribe, Arrived, Quiet
<1>5. CASE HandlePublish
  <2>1. Active \in Conns /\ Packet \in Packets /\ Packet.type = "PUBLISH" /\ Idle
    BY <1>5, ArrivedType DEF HandlePublish
  <2>2. Packet.topic \in Topics /\ Packet.size \in Nat /\ Packet.ack \in BOOLEAN
    BY <2>1, PacketsAssumption
  <2> QED
    BY <1>5, <2>1, <2>2 DEF HandlePublish, Pop, Begun, subVars
<1>6. CASE AppStep
  <2>1. PICK t \in Topics, n \in Sizes : AppPublish(t, n)
    BY <1>6 DEF AppStep
  <2>2. n \in Nat
    BY PacketsAssumption DEF Sizes
  <2> QED
    BY <2>1, <2>2 DEF AppPublish, Begun, loopVars, peerVars, subVars
<1> QED
  BY <1>1, <1>2, <1>3, <1>4, <1>5, <1>6 DEF Next, ServerStep, TimedStep

\* What a published message is made of.
LEMMA MessageType ==
    ASSUME NEW ms \in Seq([topic : Topics, size : Nat, src : Conns \cup {Local},
                           to : SUBSET Conns]),
           NEW k \in DOMAIN ms
    PROVE  /\ ms[k].size \in Nat /\ ms[k].to \subseteq Conns
           /\ ms[k].topic \in Topics /\ ms[k].src \in Conns \cup {Local}
<1> DEFINE M == [topic : Topics, size : Nat, src : Conns \cup {Local}, to : SUBSET Conns]
<1>1. ms \in Seq(M)
  OBVIOUS
<1>2. ms[k] \in M
  <2> HIDE DEF M
  <2> QED
    BY <1>1
<1> QED
  BY <1>2

-----------------------------------------------------------------------------
(* The message in progress.                                                *)

\* The units of message m that have left the buffer are those below this.
Flushed == pub.next - Len(pub.buf)

\* q is a run of units of message m, from unit k on.
RunOf(q, m, k) ==
    \A i \in DOMAIN q : q[i].kind # "ack" /\ q[i].msg = m /\ q[i].n = k + i - 1

Underway ==
    ~Idle => /\ pub.msg = Len(msgs)
             /\ pub.next <= Msg.size + 1
             /\ Len(pub.buf) <= pub.next
             /\ RunOf(pub.buf, pub.msg, Flushed)
             /\ \A c \in Msg.to : c \in ToSet(clients) /\ subscribed[c]

\* Whom messages are for has been handed over to the broker.
ToEstablished == \A m \in DOMAIN msgs : \A c \in msgs[m].to : Established(c)

CoreInv == RoutedInv /\ GrantedInv /\ Underway /\ ToEstablished

\* Who is written to by a flush.
Hears(c) == c \in Msg.to /\ sock[c] = "open"

LEMMA CoreType ==
    ASSUME CoreInv
    PROVE  /\ TypeOK
           /\ ~Idle => /\ pub.msg \in DOMAIN msgs /\ pub.msg \in Nat /\ pub.msg > 0
                       /\ Msg.size \in Nat /\ Msg.to \subseteq Conns
                       /\ Msg.src \in Conns \cup {Local}
                       /\ pub.next \in Nat /\ pub.buf \in Seq(Unit)
                       /\ Len(pub.buf) \in Nat /\ Flushed \in Nat
<1>1. TypeOK
  BY DEF CoreInv, RoutedInv
<1>2. ASSUME ~Idle
      PROVE  /\ pub.msg \in DOMAIN msgs /\ pub.msg \in Nat /\ pub.msg > 0
             /\ Msg.size \in Nat /\ Msg.to \subseteq Conns
             /\ Msg.src \in Conns \cup {Local}
             /\ pub.next \in Nat /\ pub.buf \in Seq(Unit)
             /\ Len(pub.buf) \in Nat /\ Flushed \in Nat
  <2>1. pub.msg \in DOMAIN msgs /\ pub.msg \in Nat /\ pub.msg > 0
    BY <1>1, <1>2, MsgType DEF TypeOK, Idle
  <2>2. pub.next \in Nat /\ pub.buf \in Seq(Unit) /\ Len(pub.buf) \in Nat
    BY <1>1 DEF TypeOK
  <2>3. Len(pub.buf) <= pub.next
    BY <1>2 DEF CoreInv, Underway
  <2>4. Msg.size \in Nat /\ Msg.src \in Conns \cup {Local} /\ Msg.to \subseteq Conns
    BY <1>1, <1>2, MsgType
  <2>5. Flushed \in Nat
    BY <2>2, <2>3 DEF Flushed
  <2> QED
    BY <2>1, <2>2, <2>4, <2>5
<1> QED
  BY <1>1, <1>2

\* A flush reaches exactly the open connections the message is for.
LEMMA PrintMuxHears ==
    ASSUME CoreInv, ~Idle, NEW q \in Seq(Unit), NEW c \in Conns
    PROVE  PrintMux(q)[c] = IF Hears(c) THEN wire[c] \o q ELSE wire[c]
<1>1. c \in Msg.to <=> c \in ToSet(clients) /\ subscribed[c]
  BY DEF CoreInv, RoutedInv, FlagsAgree, Underway
<1> QED
  BY <1>1 DEF PrintMux, Hears

LEMMA BegunEffect ==
    ASSUME CoreInv, TypeOK', Begun
    PROVE  /\ Idle /\ ~Idle'
           /\ Len(msgs') = Len(msgs) + 1 /\ Len(msgs) \in Nat
           /\ DOMAIN msgs' = DOMAIN msgs \cup {Len(msgs) + 1}
           /\ \A k \in DOMAIN msgs : k \in Nat /\ k # Len(msgs) + 1 /\ msgs'[k] = msgs[k]
           /\ pub'.msg = Len(msgs) + 1 /\ pub'.next = 0 /\ pub'.buf = <<>> /\ ~pub'.lost
           /\ UNCHANGED <<wire, clients, sock>>
           /\ \A c \in msgs'[Len(msgs) + 1].to : c \in ToSet(clients) /\ subscribed'[c]
<1>1. PICK t \in Topics, n \in Nat, s \in Conns \cup {Local}, a \in BOOLEAN :
          BeginPublish(t, n, s, a)
  BY DEF Begun
<1> DEFINE m == [topic |-> t, size |-> n, src |-> s,
                 to |-> {c \in ToSet(clients) : Subscribes(c, t)}]
<1>2. Idle /\ msgs' = Append(msgs, m) /\ wire' = wire /\ UNCHANGED <<clients, sock>>
  BY <1>1 DEF Begun, BeginPublish
<1>3. pub'.msg = Len(msgs) + 1 /\ pub'.next = 0 /\ pub'.buf = <<>> /\ ~pub'.lost
  BY <1>1 DEF BeginPublish, NoPub
<1>4. \A c \in m.to : c \in ToSet(clients) /\ subscribed'[c]
  <2>1. ToSet(clients) \subseteq Conns
    BY CoreType DEF TypeOK, ToSet
  <2> QED
    BY <1>1, <2>1 DEF BeginPublish, SetSubscribed
<1> HIDE DEF m
<1>5. /\ Len(msgs') = Len(msgs) + 1 /\ Len(msgs) \in Nat
      /\ msgs'[Len(msgs) + 1] = m
      /\ DOMAIN msgs' = DOMAIN msgs \cup {Len(msgs) + 1}
      /\ \A k \in DOMAIN msgs : k \in Nat /\ k # Len(msgs) + 1 /\ msgs'[k] = msgs[k]
  <2>1. PICK S : msgs \in Seq(S)
    BY CoreType DEF TypeOK
  <2>2. Len(msgs') = Len(msgs) + 1 /\ Len(msgs) \in Nat /\ DOMAIN msgs = 1..Len(msgs)
    BY <1>2, <2>1
  <2>3. DOMAIN msgs' = 1..(Len(msgs) + 1)
    BY <1>2, <2>1
  <2>4. DOMAIN msgs' = DOMAIN msgs \cup {Len(msgs) + 1}
    BY <2>2, <2>3
  <2> QED
    BY <1>2, <2>1, <2>2, <2>4
<1>6. ~Idle'
  BY <1>3, <1>5 DEF Idle
<1> QED
  BY <1>2, <1>3, <1>4, <1>5, <1>6

\* The next unit joins those in the buffer; all of them stay there or are flushed.
LEMMA WriteUnitEffect ==
    ASSUME CoreInv, WriteUnit
    PROVE  \E q \in Seq(Unit) :
              /\ Len(q) = Len(pub.buf) + 1 /\ RunOf(q, pub.msg, Flushed)
              /\ \A i \in DOMAIN q : \/ i \in DOMAIN pub.buf /\ q[i] = pub.buf[i]
                                     \/ (q[i].kind = "zero" => pub.lost)
              /\ pub'.msg = pub.msg /\ pub'.next = pub.next + 1
              /\ pub'.lost = pub.lost /\ pub.next <= Msg.size
              /\ \/ pub'.buf = q /\ wire' = wire
                 \/ pub'.buf = <<>> /\ wire' = PrintMux(q)
<1> DEFINE u == [kind |-> IF pub.lost THEN "zero" ELSE "unit", msg |-> pub.msg, n |-> pub.next]
           q == Append(pub.buf, u)
<1>1. ~Idle /\ pub.next <= Msg.size
  BY DEF WriteUnit
<1>2. /\ pub.msg \in Nat /\ pub.next \in Nat /\ pub.buf \in Seq(Unit)
      /\ Len(pub.buf) \in Nat /\ Len(pub.buf) <= pub.next
      /\ RunOf(pub.buf, pub.msg, Flushed)
  BY <1>1, CoreType DEF CoreInv, Underway
<1>3. /\ u \in Unit /\ u.kind # "ack" /\ u.msg = pub.msg /\ u.n = pub.next
      /\ u.kind = "zero" => pub.lost
  BY <1>2 DEF Unit
<1>4. /\ pub' = [pub EXCEPT !.next = @ + 1,
                            !.buf = IF Len(q) >= BufferSize THEN <<>> ELSE q]
      /\ wire' = IF Len(q) >= BufferSize THEN PrintMux(q) ELSE wire
  BY DEF WriteUnit
<1> HIDE DEF u
<1>5. /\ q \in Seq(Unit) /\ Len(q) = Len(pub.buf) + 1
      /\ \A i \in 1..Len(pub.buf) : q[i] = pub.buf[i]
      /\ q[Len(pub.buf) + 1] = u
      /\ DOMAIN q = 1..(Len(pub.buf) + 1)
      /\ DOMAIN pub.buf = 1..Len(pub.buf)
  BY <1>2, <1>3
<1> HIDE DEF q
<1>6. ASSUME NEW i \in DOMAIN q
      PROVE  /\ q[i].kind # "ack" /\ q[i].msg = pub.msg /\ q[i].n = Flushed + i - 1
             /\ \/ i \in DOMAIN pub.buf /\ q[i] = pub.buf[i]
                \/ (q[i].kind = "zero" => pub.lost)
  <2>1. CASE i \in 1..Len(pub.buf)
    BY <1>2, <1>5, <2>1 DEF RunOf
  <2>2. CASE i = Len(pub.buf) + 1
    BY <1>2, <1>3, <1>5, <2>2 DEF Flushed
  <2> QED
    BY <1>2, <1>5, <2>1, <2>2
<1>7. /\ pub'.msg = pub.msg /\ pub'.next = pub.next + 1 /\ pub'.lost = pub.lost
      /\ pub'.buf = IF Len(q) >= BufferSize THEN <<>> ELSE q
  BY <1>4, CoreType DEF TypeOK
<1> QED
  BY <1>1, <1>4, <1>5, <1>6, <1>7 DEF RunOf

LEMMA SendEffect ==
    ASSUME CoreInv, Send
    PROVE  /\ Idle' /\ pub' = NoPub /\ ~Idle /\ pub.next = Msg.size + 1
           /\ \A c \in Conns :
                 LET sent == IF Hears(c) THEN wire[c] \o pub.buf ELSE wire[c]
                     ack == [kind |-> "ack", msg |-> pub.msg, n |-> 0]
                 IN  \/ wire'[c] = sent
                     \/ wire'[c] = Append(sent, ack) /\ c = Msg.src /\ sock[c] = "open"
<1>1. ~Idle /\ pub.next = Msg.size + 1 /\ pub' = NoPub
  BY DEF Send
<1>2. pub.buf \in Seq(Unit) /\ PrintMux(pub.buf) \in [Conns -> Seq(Unit)]
  BY <1>1, CoreType, PrintMuxType
<1> DEFINE sent == PrintMux(pub.buf)
           ack == [kind |-> "ack", msg |-> pub.msg, n |-> 0]
<1>3. wire' = IF pub.ack /\ Msg.src \in Conns /\ sock[Msg.src] = "open"
              THEN [sent EXCEPT ![Msg.src] = Append(@, ack)] ELSE sent
  BY DEF Send
<1>4. \A c \in Conns : sent[c] = IF Hears(c) THEN wire[c] \o pub.buf ELSE wire[c]
  BY <1>1, <1>2, PrintMuxHears
<1> HIDE DEF sent, ack
<1>5. \A c \in Conns : \/ wire'[c] = sent[c]
                       \/ wire'[c] = Append(sent[c], ack) /\ c = Msg.src /\ sock[c] = "open"
  BY <1>2, <1>3 DEF sent
<1>6. Idle'
  BY <1>1 DEF Idle, NoPub
<1> QED
  BY <1>1, <1>4, <1>5, <1>6 DEF ack

LEMMA InitCore == Init => CoreInv
<1> SUFFICES ASSUME Init PROVE CoreInv
  OBVIOUS
<1>1. Idle /\ msgs = <<>>
  BY DEF Init, Idle, NoPub
<1> QED
  BY <1>1, InitRouted, InitGranted DEF CoreInv, Underway, ToEstablished

LEMMA NextCore == CoreInv /\ [Next]_vars => CoreInv'
<1> SUFFICES ASSUME CoreInv, [Next]_vars PROVE CoreInv'
  OBVIOUS
<1>1. TypeOK /\ TypeOK' /\ RoutedInv' /\ GrantedInv'
  BY NextType, NextRouted, NextGranted DEF CoreInv, RoutedInv
<1>2. ASSUME NEW c \in Conns, Established(c) PROVE Established(c)'
  BY <1>1, <1>2, NextSock
<1>3. ASSUME UNCHANGED msgs PROVE ToEstablished'
  <2>1. ASSUME NEW m \in DOMAIN msgs, NEW c \in msgs[m].to
        PROVE  c \in Conns /\ Established(c)
    <3>1. msgs[m].to \subseteq Conns
      BY <1>1, MessageType DEF TypeOK
    <3> QED
      BY <3>1 DEF CoreInv, ToEstablished
  <2> QED
    BY <1>2, <1>3, <2>1 DEF ToEstablished, Established
<1>4. CASE Quiet
  <2>1. UNCHANGED <<msgs, pub, subscribed>>
    BY <1>4 DEF Quiet, pubVars
  <2>2. Underway'
    BY <1>4, <2>1 DEF Quiet, CoreInv, Underway, Idle, Msg, RunOf, Flushed
  <2> QED
    BY <1>1, <1>3, <2>1, <2>2 DEF CoreInv
<1>5. CASE Begun
  <2>1. Underway'
    <3>1. Msg' = msgs'[Len(msgs) + 1]
      BY <1>1, <1>5, BegunEffect DEF Msg
    <3>2. Msg'.size \in Nat
      <4>1. Len(msgs) + 1 \in DOMAIN msgs'
        BY <1>1, <1>5, BegunEffect
      <4> QED
        BY <1>1, <3>1, <4>1, MessageType DEF TypeOK
    <3>3. Len(pub.buf)' = 0 /\ RunOf(pub.buf, pub.msg, Flushed)'
      BY <1>1, <1>5, BegunEffect DEF RunOf
    <3> QED
      BY <1>1, <1>5, <3>1, <3>2, <3>3, BegunEffect DEF Underway
  <2>2. ToEstablished'
    <3>1. ASSUME NEW m \in DOMAIN msgs, NEW c \in msgs[m].to PROVE Established(c)
      BY DEF CoreInv, ToEstablished
    <3>2. \A c \in ToSet(clients) : Established(c)
      BY DEF CoreInv, GrantedInv
    <3>3. UNCHANGED sock
      BY <1>1, <1>5, BegunEffect
    <3> QED
      BY <1>1, <1>5, <3>1, <3>2, <3>3, BegunEffect DEF ToEstablished, Established
  <2> QED
    BY <1>1, <2>1, <2>2 DEF CoreInv
<1>6. CASE WriteUnit
  <2>1. PICK q \in Seq(Unit) :
            /\ Len(q) = Len(pub.buf) + 1 /\ RunOf(q, pub.msg, Flushed)
            /\ pub'.msg = pub.msg /\ pub'.next = pub.next + 1 /\ pub.next <= Msg.size
            /\ pub'.buf = q \/ pub'.buf = <<>>
    BY <1>6, WriteUnitEffect
  <2>2. ~Idle /\ UNCHANGED <<msgs, subscribed, clients>>
    BY <1>6 DEF WriteUnit, loopVars
  <2>3. ~Idle' /\ Msg' = Msg
    BY <2>1, <2>2 DEF Idle, Msg
  <2>4. /\ pub.next \in Nat /\ Len(pub.buf) \in Nat /\ Len(pub.buf) <= pub.next
        /\ Msg.size \in Nat /\ pub.msg = Len(msgs)
        /\ \A c \in Msg.to : c \in ToSet(clients) /\ subscribed[c]
    BY <2>2, CoreType DEF CoreInv, Underway
  <2>5. CASE pub'.buf = q
    <3>1. Flushed' = Flushed
      BY <2>1, <2>4, <2>5 DEF Flushed
    <3> QED
      BY <1>1, <1>3, <2>1, <2>2, <2>3, <2>4, <2>5, <3>1 DEF CoreInv, Underway, RunOf
  <2>6. CASE pub'.buf = <<>>
    <3>1. RunOf(pub.buf, pub.msg, Flushed)' /\ Len(pub'.buf) = 0
      BY <2>6 DEF RunOf
    <3> QED
      BY <1>1, <1>3, <2>1, <2>2, <2>3, <2>4, <3>1 DEF CoreInv, Underway
  <2> QED
    BY <2>1, <2>5, <2>6
<1>7. CASE SourceLost
  <2>1. ~Idle /\ UNCHANGED <<msgs, subscribed, clients>>
        /\ pub' = [pub EXCEPT !.lost = TRUE]
    BY <1>7 DEF SourceLost, loopVars
  <2>2. pub'.msg = pub.msg /\ pub'.next = pub.next /\ pub'.buf = pub.buf
    BY <1>1, <2>1 DEF TypeOK
  <2>3. Underway'
    BY <2>1, <2>2 DEF CoreInv, Underway, Idle, Msg, RunOf, Flushed
  <2> QED
    BY <1>1, <1>3, <2>1, <2>3 DEF CoreInv
<1>8. CASE Send
  <2>1. Idle' /\ UNCHANGED msgs
    BY <1>8, SendEffect DEF Send
  <2> QED
    BY <1>1, <1>3, <2>1 DEF CoreInv, Underway
<1> QED
  BY <1>1, <1>4, <1>5, <1>6, <1>7, <1>8, StepKinds

-----------------------------------------------------------------------------
(* How the wires grow.                                                     *)

\* Units of message m below this one are on the wires of those it is for.
Done(m) == IF m = pub.msg THEN Flushed ELSE msgs[m].size + 1

\* Nothing is written.  A message that begins has nothing flushed.
Still ==
    /\ wire' = wire
    /\ \A m \in DOMAIN msgs' :
          \/ m \in DOMAIN msgs /\ Done(m)' = Done(m) /\ (m = pub.msg <=> m = pub'.msg)
          \/ m \notin DOMAIN msgs /\ Done(m)' = 0 /\ m = pub'.msg /\ Idle /\ ~Idle'

\* What a wire has after q was flushed to it, with the acknowledgement of a
\* message that has ended.
Receives(c, q) ==
    LET sent == IF Hears(c) THEN wire[c] \o q ELSE wire[c]
        ack == [kind |-> "ack", msg |-> pub.msg, n |-> 0]
    IN  \/ wire'[c] = sent
        \/ wire'[c] = Append(sent, ack) /\ c = Msg.src /\ sock[c] = "open" /\ Idle'

\* The units of q follow those flushed before.
Flushing(q) ==
    /\ ~Idle /\ UNCHANGED msgs /\ RunOf(q, pub.msg, Flushed)
    /\ \A i \in DOMAIN q : \/ i \in DOMAIN pub.buf /\ q[i] = pub.buf[i]
                           \/ (q[i].kind = "zero" => pub.lost)
    /\ \A m \in DOMAIN msgs :
          /\ m # pub.msg => Done(m)' = Done(m) /\ m # pub'.msg
          /\ m = pub.msg => Done(m)' = Flushed + Len(q)
    /\ Flushed + Len(q) <= Msg.size + 1
    /\ Idle' \/ pub'.msg = pub.msg
    /\ \A c \in Conns : Receives(c, q)

LEMMA Append0 ==
    ASSUME NEW S, NEW w \in Seq(S)
    PROVE  w \o <<>> = w
OBVIOUS

LEMMA Growth ==
    ASSUME CoreInv, [Next]_vars
    PROVE  /\ \A m \in DOMAIN msgs : m \in DOMAIN msgs' /\ msgs'[m] = msgs[m]
           /\ Still \/ \E q \in Seq(Unit) : Flushing(q)
<1>0. TypeOK /\ TypeOK' /\ wire \in [Conns -> Seq(Unit)]
  BY CoreType, NextType DEF TypeOK
<1>1. CASE Quiet \/ SourceLost
  <2>1. UNCHANGED <<msgs, wire>> /\ pub'.msg = pub.msg /\ pub'.next = pub.next
        /\ pub'.buf = pub.buf
    BY <1>0, <1>1 DEF Quiet, pubVars, SourceLost, TypeOK
  <2> QED
    BY <2>1 DEF Still, Done, Flushed
<1>2. CASE Begun
  <2>1. /\ Len(msgs) \in Nat /\ pub.msg = 0 /\ 0 \notin DOMAIN msgs
        /\ Len(msgs) + 1 \notin DOMAIN msgs
    <3>1. PICK S : msgs \in Seq(S)
      BY <1>0 DEF TypeOK
    <3>2. DOMAIN msgs = 1..Len(msgs) /\ Len(msgs) \in Nat
      BY <3>1
    <3>3. pub.msg = 0
      BY <1>0, <1>2, BegunEffect DEF Idle
    <3> QED
      BY <3>2, <3>3
  <2>2. ASSUME NEW m \in DOMAIN msgs PROVE Done(m)' = Done(m) /\ m # pub.msg /\ m # pub'.msg
    <3>1. m # pub.msg /\ m # pub'.msg /\ msgs'[m] = msgs[m]
      BY <1>0, <1>2, <2>1, BegunEffect
    <3> QED
      BY <3>1 DEF Done
  <2>3. \A m \in DOMAIN msgs' : m = Len(msgs) + 1 => Done(m)' = 0
    <3>1. Len(pub.buf)' = 0 /\ pub'.next = 0 /\ pub'.msg = Len(msgs) + 1
      BY <1>0, <1>2, BegunEffect
    <3> QED
      BY <3>1 DEF Done, Flushed
  <2> QED
    BY <1>0, <1>2, <2>1, <2>2, <2>3, BegunEffect DEF Still
<1>3. CASE WriteUnit
  <2>1. PICK q \in Seq(Unit) :
            /\ Len(q) = Len(pub.buf) + 1 /\ RunOf(q, pub.msg, Flushed)
            /\ \A i \in DOMAIN q : \/ i \in DOMAIN pub.buf /\ q[i] = pub.buf[i]
                                   \/ (q[i].kind = "zero" => pub.lost)
            /\ pub'.msg = pub.msg /\ pub'.next = pub.next + 1 /\ pub.next <= Msg.size
            /\ \/ pub'.buf = q /\ wire' = wire
               \/ pub'.buf = <<>> /\ wire' = PrintMux(q)
    BY <1>3, WriteUnitEffect
  <2>2. ~Idle /\ UNCHANGED msgs
    BY <1>3 DEF WriteUnit
  <2>3. /\ pub.next \in Nat /\ Len(pub.buf) \in Nat /\ Len(pub.buf) <= pub.next
        /\ Msg.size \in Nat
    BY <2>2, CoreType DEF CoreInv, Underway
  <2>4. \A m \in DOMAIN msgs : m # pub.msg => Done(m)' = Done(m)
    BY <2>1, <2>2 DEF Done
  <2>5. CASE pub'.buf = q /\ wire' = wire
    <3>1. \A m \in DOMAIN msgs : m = pub.msg => Done(m)' = Done(m)
      <4>1. Len(pub'.buf) = Len(pub.buf) + 1 /\ pub'.next = pub.next + 1 /\ pub'.msg = pub.msg
        BY <2>1, <2>5
      <4>2. Flushed' = Flushed
        BY <2>3, <4>1 DEF Flushed
      <4> QED
        BY <4>1, <4>2 DEF Done
    <3> QED
      BY <2>1, <2>2, <2>4, <2>5, <3>1 DEF Still
  <2>6. CASE pub'.buf = <<>> /\ wire' = PrintMux(q)
    <3>1. Len(pub.buf)' = 0
      BY <2>6
    <3>2. \A m \in DOMAIN msgs : m = pub.msg => Done(m)' = pub.next + 1
      BY <2>1, <2>3, <3>1 DEF Done, Flushed
    <3>3. pub.next + 1 = Flushed + Len(q)
      BY <2>1, <2>3 DEF Flushed
    <3>4. \A c \in Conns : Receives(c, q)
      BY <2>2, <2>6, PrintMuxHears DEF Receives
    <3>5. pub.next + 1 <= Msg.size + 1
      BY <2>1, <2>3
    <3>6. Flushing(q)
      BY <2>1, <2>2, <2>4, <3>2, <3>3, <3>4, <3>5 DEF Flushing
    <3> QED
      BY <2>2, <3>6
  <2> QED
    BY <2>1, <2>5, <2>6
<1>4. CASE Send
  <2>1. Idle' /\ ~Idle /\ UNCHANGED msgs /\ pub.next = Msg.size + 1 /\ pub'.msg = 0
    BY <1>4, SendEffect DEF Send, NoPub
  <2>2. /\ pub.buf \in Seq(Unit) /\ pub.msg \in DOMAIN msgs /\ pub.msg > 0
        /\ pub.msg \in Nat /\ Msg.size \in Nat /\ Len(pub.buf) \in Nat
        /\ RunOf(pub.buf, pub.msg, Flushed)
    BY <2>1, CoreType DEF CoreInv, Underway
  <2>3. \A c \in Conns : Receives(c, pub.buf)
    BY <1>4, <2>1, SendEffect DEF Receives
  <2>4. \A m \in DOMAIN msgs : m # 0
    <3>1. PICK S : msgs \in Seq(S)
      BY <1>0 DEF TypeOK
    <3> QED
      BY <3>1
  <2>5. \A m \in DOMAIN msgs : m # pub.msg => Done(m)' = Done(m) /\ m # pub'.msg
    BY <2>1, <2>4 DEF Done
  <2>6. \A m \in DOMAIN msgs : m = pub.msg => Done(m)' = Msg.size + 1
    BY <2>1, <2>2 DEF Done, Msg
  <2>7. Msg.size + 1 = Flushed + Len(pub.buf)
    BY <2>1, <2>2 DEF Flushed
  <2>8. Flushing(pub.buf)
    BY <2>1, <2>2, <2>3, <2>5, <2>6, <2>7 DEF Flushing
  <2> QED
    BY <2>1, <2>2, <2>8
<1> QED
  BY <1>0, <1>1, <1>2, <1>3, <1>4, StepKinds

LEMMA Received ==
    ASSUME CoreInv, TypeOK', NEW q \in Seq(Unit), Flushing(q), NEW c \in Conns
    PROVE  LET w == wire[c]
               v == wire'[c]
           IN  /\ Len(w) \in Nat /\ Len(v) \in Nat /\ Len(q) \in Nat
               /\ DOMAIN w = 1..Len(w) /\ DOMAIN v = 1..Len(v) /\ Len(w) <= Len(v)
               /\ \A i \in 1..Len(w) : v[i] = w[i]
               /\ Hears(c) => /\ Len(w) + Len(q) <= Len(v)
                              /\ \A j \in 1..Len(q) : v[Len(w) + j] = q[j]
               /\ \A i \in 1..Len(v) :
                     \/ i <= Len(w)
                     \/ /\ Hears(c) /\ i - Len(w) \in 1..Len(q)
                     \/ /\ v[i].kind = "ack" /\ v[i].msg = pub.msg /\ v[i].n = 0
                        /\ c = Msg.src /\ sock[c] = "open" /\ Idle' /\ i = Len(v)
                        /\ i > Len(w) /\ (Hears(c) => i > Len(w) + Len(q))
<1> DEFINE w == wire[c]
           v == wire'[c]
           sent == IF Hears(c) THEN w \o q ELSE w
           ack == [kind |-> "ack", msg |-> pub.msg, n |-> 0]
<1>1. w \in Seq(Unit) /\ q \in Seq(Unit)
  BY CoreType DEF TypeOK
<1>2. ack \in Unit /\ ack.kind = "ack" /\ ack.msg = pub.msg /\ ack.n = 0
  BY CoreType DEF Flushing, Unit
<1>3. \/ v = sent
      \/ v = Append(sent, ack) /\ c = Msg.src /\ sock[c] = "open" /\ Idle'
  BY DEF Flushing, Receives
<1> HIDE DEF w, v, ack
<1>4. /\ sent \in Seq(Unit)
      /\ Len(sent) = IF Hears(c) THEN Len(w) + Len(q) ELSE Len(w)
      /\ \A i \in 1..Len(w) : sent[i] = w[i]
      /\ Hears(c) => \A j \in 1..Len(q) : sent[Len(w) + j] = q[j]
  BY <1>1
<1>5. Len(w) \in Nat /\ Len(q) \in Nat /\ DOMAIN w = 1..Len(w)
  BY <1>1
<1> HIDE DEF sent
<1>6. CASE v = sent
  BY <1>4, <1>5, <1>6 DEF w, v
<1>7. CASE v = Append(sent, ack) /\ c = Msg.src /\ sock[c] = "open" /\ Idle'
  <2>1. /\ Len(v) = Len(sent) + 1 /\ DOMAIN v = 1..Len(v) /\ Len(sent) \in Nat
        /\ v[Len(v)] = ack /\ \A i \in 1..Len(sent) : v[i] = sent[i]
    BY <1>2, <1>4, <1>7
  <2>2. ASSUME NEW i \in 1..Len(v)
        PROVE  \/ i <= Len(w)
               \/ /\ Hears(c) /\ i - Len(w) \in 1..Len(q)
               \/ i = Len(v) /\ i > Len(w) /\ (Hears(c) => i > Len(w) + Len(q))
    BY <1>4, <1>5, <2>1
  <2>3. /\ Len(w) <= Len(v) /\ Len(v) \in Nat
        /\ \A i \in 1..Len(w) : v[i] = w[i]
        /\ Hears(c) => /\ Len(w) + Len(q) <= Len(v)
                       /\ \A j \in 1..Len(q) : v[Len(w) + j] = q[j]
    <3>1. CASE Hears(c)
      <4>1. Len(sent) = Len(w) + Len(q) /\ Len(v) = Len(w) + Len(q) + 1
        BY <1>4, <2>1, <3>1
      <4>2. ASSUME NEW j \in 1..Len(q) PROVE v[Len(w) + j] = q[j]
        <5>1. Len(w) + j \in 1..Len(sent)
          BY <1>5, <4>1, <4>2
        <5> QED
          BY <1>4, <2>1, <3>1, <4>2, <5>1
      <4>3. ASSUME NEW i \in 1..Len(w) PROVE v[i] = w[i]
        <5>1. i \in 1..Len(sent)
          BY <1>5, <4>1, <4>3
        <5> QED
          BY <1>4, <2>1, <4>3, <5>1
      <4> QED
        BY <1>5, <3>1, <4>1, <4>2, <4>3
    <3>2. CASE ~Hears(c)
      BY <1>4, <1>5, <2>1, <3>2
    <3> QED
      BY <3>1, <3>2
  <2>4. v[Len(v)].kind = "ack" /\ v[Len(v)].msg = pub.msg /\ v[Len(v)].n = 0
    BY <1>2, <2>1
  <2> QED
    BY <1>5, <1>7, <2>1, <2>2, <2>3, <2>4 DEF w, v
<1> QED
  BY <1>3, <1>6, <1>7

-----------------------------------------------------------------------------
(* What is on the wires, and what is not yet.                              *)

\* What was written is of published messages and had left the buffer; an
\* acknowledgement is of a message that has ended, and goes to its publisher.
Past ==
    \A c \in Conns : \A i \in DOMAIN wire[c] :
        LET u == wire[c][i]
        IN  /\ u.msg \in DOMAIN msgs /\ u.n \in Nat
            /\ u.kind # "ack" => u.n < Done(u.msg)
            /\ u.kind = "ack" => u.msg # pub.msg /\ msgs[u.msg].src = c

Has(c, m, n) ==
    \E i \in DOMAIN wire[c] :
        wire[c][i].kind # "ack" /\ wire[c][i].msg = m /\ wire[c][i].n = n

\* What has left the buffer is with everyone the message is for.
Served ==
    \A m \in DOMAIN msgs : \A c \in msgs[m].to :
        sock[c] = "open" => \A n \in Nat : n < Done(m) => Has(c, m, n)

DeliveryInv == CoreInv /\ Past /\ Served /\ InOrder

LEMMA InitDelivery == Init => DeliveryInv
<1> SUFFICES ASSUME Init PROVE DeliveryInv
  OBVIOUS
<1>1. msgs = <<>> /\ \A c \in Conns : wire[c] = <<>>
  BY DEF Init
<1> QED
  BY <1>1, InitCore DEF DeliveryInv, Past, Served, InOrder

LEMMA NextPast ==
    ASSUME DeliveryInv, TypeOK', [Next]_vars
    PROVE  Past'
<1>0. CoreInv /\ Past /\ InOrder
  BY DEF DeliveryInv
<1>1. \A m \in DOMAIN msgs : m \in DOMAIN msgs' /\ msgs'[m] = msgs[m]
  BY <1>0, Growth
<1>2. CASE Still
  <2>1. ASSUME NEW c \in Conns, NEW i \in DOMAIN wire[c], NEW u, u = wire[c][i]
        PROVE  /\ u.msg \in DOMAIN msgs' /\ u.n \in Nat
               /\ u.kind # "ack" => \A m \in DOMAIN msgs : m = u.msg => u.n < Done(m)'
               /\ u.kind = "ack" => u.msg # pub'.msg /\ msgs'[u.msg].src = c
    BY <1>0, <1>1, <1>2, <2>1 DEF Past, Still
  <2> QED
    BY <1>0, <1>2, <2>1 DEF Still, Past
<1>3. ASSUME NEW q \in Seq(Unit), Flushing(q) PROVE Past'
  <2>1. /\ ~Idle /\ msgs' = msgs /\ RunOf(q, pub.msg, Flushed) /\ DOMAIN q = 1..Len(q)
        /\ Len(q) \in Nat /\ Flushed \in Nat /\ pub.msg \in DOMAIN msgs /\ pub.msg > 0
        /\ pub.msg \in Nat
    BY <1>0, <1>3, CoreType DEF Flushing
  <2>2. ASSUME NEW c \in Conns, NEW i \in DOMAIN wire'[c], NEW u, u = wire'[c][i]
        PROVE  /\ u.msg \in DOMAIN msgs /\ u.n \in Nat
               /\ u.kind # "ack" => \A m \in DOMAIN msgs : m = u.msg => u.n < Done(m)'
               /\ u.kind = "ack" => u.msg # pub'.msg /\ msgs'[u.msg].src = c
    <3>1. CASE i \in 1..Len(wire[c])
      <4>1. i \in DOMAIN wire[c] /\ u = wire[c][i]
        BY <1>0, <1>3, <2>2, <3>1, Received
      <4>2. u.msg \in DOMAIN msgs /\ u.n \in Nat
        BY <1>0, <4>1 DEF Past
      <4>3. u.kind = "ack" => u.msg # pub'.msg /\ msgs'[u.msg].src = c
        BY <1>0, <1>3, <2>1, <4>1 DEF Past, Flushing
      <4>4. u.kind # "ack" => u.n < Done(u.msg)
        BY <1>0, <4>1 DEF Past
      <4>5. u.msg = pub.msg => Done(u.msg) = Flushed
        BY DEF Done
      <4>6. ASSUME u.kind # "ack", u.msg = pub.msg
            PROVE  u.n < Flushed + Len(q)
        BY <2>1, <4>2, <4>4, <4>5, <4>6
      <4> QED
        BY <1>3, <4>2, <4>3, <4>4, <4>6 DEF Flushing
    <3>2. CASE Hears(c) /\ i - Len(wire[c]) \in 1..Len(q)
      <4>1. PICK j \in 1..Len(q) : i = Len(wire[c]) + j
        BY <1>0, <1>3, <2>2, <3>2, Received
      <4>2. u = q[j]
        BY <1>0, <1>3, <2>2, <3>2, <4>1, Received
      <4>3. u.kind # "ack" /\ u.msg = pub.msg /\ u.n = Flushed + j - 1
        BY <2>1, <4>2 DEF RunOf
      <4>4. u.n \in Nat /\ u.n < Flushed + Len(q)
        BY <2>1, <4>3
      <4> QED
        BY <1>3, <2>1, <4>3, <4>4 DEF Flushing
    <3>3. CASE u.kind = "ack" /\ u.msg = pub.msg /\ u.n = 0 /\ c = Msg.src /\ Idle'
      <4>1. pub'.msg = 0
        BY <3>3 DEF Idle
      <4> QED
        BY <2>1, <3>3, <4>1 DEF Msg
    <3> QED
      BY <1>0, <1>3, <2>2, <3>1, <3>2, <3>3, Received
  <2> QED
    BY <2>1, <2>2 DEF Past
<1> QED
  BY <1>0, <1>2, <1>3, Growth

LEMMA NextServed ==
    ASSUME DeliveryInv, TypeOK', [Next]_vars
    PROVE  Served'
<1>0. CoreInv /\ Past /\ Served /\ TypeOK
  BY CoreType DEF DeliveryInv
<1>1. \A m \in DOMAIN msgs : m \in DOMAIN msgs' /\ msgs'[m] = msgs[m]
  BY <1>0, Growth
<1>2. ASSUME NEW m \in DOMAIN msgs, NEW c \in msgs[m].to
      PROVE  c \in Conns /\ (sock'[c] = "open" => sock[c] = "open")
  <2>1. c \in Conns
    BY <1>0, MessageType DEF TypeOK
  <2>2. Established(c)
    BY <1>0 DEF CoreInv, ToEstablished
  <2> QED
    BY <1>0, <2>1, <2>2, NextSock DEF Established
<1>3. CASE Still
  <2>1. ASSUME NEW m \in DOMAIN msgs', NEW c \in msgs'[m].to, sock'[c] = "open",
               NEW d \in Nat, d < Done(m)'
        PROVE  Has(c, m, d)'
    <3>1. CASE m \in DOMAIN msgs
      BY <1>0, <1>1, <1>2, <1>3, <2>1, <3>1 DEF Still, Served, Has
    <3>2. CASE m \notin DOMAIN msgs
      BY <1>3, <2>1, <3>2 DEF Still
    <3> QED
      BY <3>1, <3>2
  <2> QED
    BY <2>1 DEF Served
<1>4. ASSUME NEW q \in Seq(Unit), Flushing(q) PROVE Served'
  <2>1. /\ ~Idle /\ msgs' = msgs /\ RunOf(q, pub.msg, Flushed) /\ DOMAIN q = 1..Len(q)
        /\ Len(q) \in Nat /\ Flushed \in Nat /\ pub.msg \in DOMAIN msgs
    BY <1>0, <1>4, CoreType DEF Flushing
  <2>2. ASSUME NEW m \in DOMAIN msgs, NEW c \in msgs[m].to, sock'[c] = "open",
               NEW d \in Nat, d < Done(m)'
        PROVE  Has(c, m, d)'
    <3>1. c \in Conns /\ sock[c] = "open"
      BY <1>2, <2>2
    <3>2. CASE d < Done(m)
      <4>1. PICK i \in DOMAIN wire[c] :
                wire[c][i].kind # "ack" /\ wire[c][i].msg = m /\ wire[c][i].n = d
        BY <1>0, <2>2, <3>1, <3>2 DEF Served, Has
      <4>2. i \in DOMAIN wire'[c] /\ wire'[c][i] = wire[c][i]
        BY SMTT(30), <1>0, <1>4, <3>1, <4>1, Received
      <4> QED
        BY <4>1, <4>2 DEF Has
    <3>3. CASE ~(d < Done(m))
      <4>1. m = pub.msg
        BY <1>4, <2>2, <3>3 DEF Flushing
      <4>2. d < Flushed + Len(q) /\ ~(d < Flushed) /\ Hears(c)
        BY <1>4, <2>2, <3>1, <3>3, <4>1 DEF Flushing, Done, Hears, Msg
      <4>3. PICK j \in 1..Len(q) : d = Flushed + j - 1
        <5>1. d - Flushed + 1 \in 1..Len(q) /\ d = Flushed + (d - Flushed + 1) - 1
          BY <2>1, <4>2
        <5> QED
          BY <5>1
      <4>4. /\ Len(wire[c]) + j \in DOMAIN wire'[c]
            /\ wire'[c][Len(wire[c]) + j] = q[j]
        BY <1>0, <1>4, <3>1, <4>2, Received
      <4>5. q[j].kind # "ack" /\ q[j].msg = m /\ q[j].n = d
        BY <2>1, <4>1, <4>3 DEF RunOf
      <4> QED
        BY <4>4, <4>5 DEF Has
    <3> QED
      BY <3>2, <3>3
  <2> QED
    BY <2>1, <2>2 DEF Served
<1> QED
  BY <1>0, <1>3, <1>4, Growth

LEMMA Shifted ==
    \A a, b, k, l \in Nat : a < b => k + (a - l) - 1 < k + (b - l) - 1
OBVIOUS

LEMMA Beyond ==
    ASSUME NEW x \in Nat, NEW f \in Nat, NEW d \in Nat, d >= 1, x < f
    PROVE  x < f + d - 1
OBVIOUS


\* Messages are written one after the other, and later units after earlier ones.
LEMMA NextOrder ==
    ASSUME DeliveryInv, TypeOK', [Next]_vars
    PROVE  InOrder'
<1>0. CoreInv /\ Past /\ InOrder /\ TypeOK
  BY CoreType DEF DeliveryInv
<1>1. CASE Still
  BY <1>0, <1>1 DEF Still, InOrder
<1>2. ASSUME NEW q \in Seq(Unit), Flushing(q) PROVE InOrder'
  <2>1. /\ ~Idle /\ RunOf(q, pub.msg, Flushed) /\ DOMAIN q = 1..Len(q)
        /\ Len(q) \in Nat /\ Flushed \in Nat /\ pub.msg \in Nat
        /\ \A m \in DOMAIN msgs : m \in Nat /\ m <= pub.msg
    <3>1. PICK S : msgs \in Seq(S)
      BY <1>0 DEF TypeOK
    <3>2. pub.msg = Len(msgs)
      BY <1>0, <1>2 DEF Flushing, CoreInv, Underway
    <3> QED
      BY <1>0, <1>2, <3>1, <3>2, CoreType DEF Flushing
  <2> SUFFICES ASSUME NEW c \in Conns, NEW i \in DOMAIN wire'[c], NEW j \in DOMAIN wire'[c],
                      i < j, wire'[c][i].kind # "ack", wire'[c][j].kind # "ack"
               PROVE  \/ wire'[c][i].msg < wire'[c][j].msg
                      \/ /\ wire'[c][i].msg = wire'[c][j].msg
                         /\ wire'[c][i].n < wire'[c][j].n
    BY DEF InOrder
  <2> DEFINE w == wire[c]
             v == wire'[c]
  <2>2. /\ Len(w) \in Nat /\ DOMAIN w = 1..Len(w) /\ i \in Nat /\ j \in Nat
        /\ i \in 1..Len(v) /\ j \in 1..Len(v)
        /\ i \in 1..Len(w) => i \in DOMAIN w /\ v[i] = w[i]
        /\ j \in 1..Len(w) => j \in DOMAIN w /\ v[j] = w[j]
    BY <1>0, <1>2, Received
  <2>3. ASSUME NEW k \in 1..Len(v), v[k].kind # "ack", ~(k <= Len(w))
        PROVE  /\ k - Len(w) \in 1..Len(q) /\ v[k].msg = pub.msg
               /\ v[k].n = Flushed + (k - Len(w)) - 1
    <3>1. Hears(c) /\ k - Len(w) \in 1..Len(q)
      BY <1>0, <1>2, <2>3, Received
    <3>2. v[Len(w) + (k - Len(w))] = q[k - Len(w)]
      <4>1. \A d \in 1..Len(q) : v[Len(w) + d] = q[d]
        BY <1>0, <1>2, <3>1, Received
      <4> QED
        BY <3>1, <4>1
    <3>3. Len(w) + (k - Len(w)) = k
      BY <2>2, <2>3, <3>1
    <3> QED
      BY <2>1, <3>1, <3>2, <3>3 DEF RunOf
  <2>4. /\ v[i].kind # "ack" /\ v[j].kind # "ack"
        /\ i <= Len(w) => w[i].kind # "ack" /\ v[i] = w[i]
    BY <2>2
  <2> HIDE DEF v
  <2>5. CASE i <= Len(w) /\ j <= Len(w)
    <3>1. i \in DOMAIN w /\ j \in DOMAIN w /\ v[i] = w[i] /\ v[j] = w[j]
      BY <2>2, <2>5
    <3> QED
      BY <1>0, <2>4, <3>1 DEF InOrder, v
  <2>6. CASE i <= Len(w) /\ ~(j <= Len(w))
    <3>1. i \in DOMAIN w /\ v[i] = w[i]
      BY <2>2, <2>6
    <3>2. /\ v[i].msg \in DOMAIN msgs /\ v[i].n \in Nat
          /\ v[i].n < Done(v[i].msg)
      BY <1>0, <2>4, <3>1 DEF Past
    <3>3. v[i].msg = pub.msg => v[i].n < Flushed
      BY <3>2 DEF Done
    <3>4. v[j].msg = pub.msg /\ j - Len(w) >= 1 /\ v[j].n = Flushed + (j - Len(w)) - 1
      BY <2>2, <2>3, <2>4, <2>6
    <3>5. ASSUME v[i].msg = pub.msg PROVE v[i].n < v[j].n
      <4>1. j - Len(w) \in Nat
        BY <2>2, <3>4
      <4>2. v[i].n \in Nat /\ v[i].n < Flushed
        BY <3>2, <3>3, <3>5
      <4> QED
        BY <2>1, <3>4, <4>1, <4>2, Beyond
    <3>6. v[i].msg \in Nat /\ v[i].msg <= pub.msg
      BY <2>1, <3>2
    <3> QED
      BY <2>1, <3>4, <3>5, <3>6 DEF v
  <2>7. CASE ~(i <= Len(w)) /\ ~(j <= Len(w))
    <3>1. /\ v[i].msg = v[j].msg /\ v[i].n = Flushed + (i - Len(w)) - 1
          /\ v[j].n = Flushed + (j - Len(w)) - 1
      BY <2>2, <2>3, <2>4, <2>7
    <3>2. i \in Nat /\ j \in Nat /\ i < j /\ Len(w) \in Nat /\ Flushed \in Nat
      BY <2>1, <2>2
    <3>3. Flushed + (i - Len(w)) - 1 < Flushed + (j - Len(w)) - 1
      BY <3>2, Shifted
    <3> QED
      BY <3>1, <3>3 DEF v
  <2> QED
    BY <2>2, <2>5, <2>6, <2>7
<1> QED
  BY <1>0, <1>1, <1>2, Growth

LEMMA NextDelivery == DeliveryInv /\ [Next]_vars => DeliveryInv'
<1> SUFFICES ASSUME DeliveryInv, [Next]_vars PROVE DeliveryInv'
  OBVIOUS
<1>1. CoreInv' /\ TypeOK'
  BY NextCore DEF DeliveryInv, CoreInv, RoutedInv
<1> QED
  BY <1>1, NextPast, NextServed, NextOrder DEF DeliveryInv

LEMMA DeliveryAlways == Spec => []DeliveryInv
BY InitDelivery, NextDelivery, PTL DEF Spec

\* Messages reach a connection in the order they were published in, and none of
\* their units twice, however buffers were flushed in between.
THEOREM InOrderAlways == Spec => []InOrder
<1>1. DeliveryInv => InOrder
  BY DEF DeliveryInv
<1> QED
  BY <1>1, DeliveryAlways, PTL

\* A message that has ended is whole on the wire of everyone it was for who is
\* still there, for any sizes of messages and of the buffer.
LEMMA EndedIsComplete ==
    ASSUME DeliveryInv, NEW m \in DOMAIN msgs, m # pub.msg, NEW c \in msgs[m].to,
           sock[c] = "open"
    PROVE  Complete(c, m)
<1>1. msgs[m].size \in Nat
  BY CoreType, MessageType DEF DeliveryInv, TypeOK
<1>2. ASSUME NEW n \in 0..msgs[m].size PROVE Has(c, m, n)
  <2>1. n \in Nat /\ n < Done(m)
    BY <1>1, <1>2 DEF Done
  <2> QED
    BY <2>1 DEF DeliveryInv, Served
<1> QED
  BY <1>2 DEF Complete, Has

\* Nothing of a message is lost when it has been sent: not in the buffer, not
\* because its publisher or another subscriber was lost (send, PrintMux::write).
THEOREM EveryoneServedAlways == Spec => []EveryoneServed
<1>1. DeliveryInv => EveryoneServed
  BY EndedIsComplete DEF EveryoneServed
<1> QED
  BY <1>1, DeliveryAlways, PTL

\* A publisher is told of success only when every subscriber that is still there
\* has been written the whole message.
THEOREM AckedMeansForwardedAlways == Spec => []AckedMeansForwarded
<1>1. ASSUME DeliveryInv PROVE AckedMeansForwarded
  <2>1. ASSUME NEW c \in Conns, NEW i \in DOMAIN wire[c], wire[c][i].kind = "ack"
        PROVE  /\ wire[c][i].msg \in DOMAIN msgs /\ wire[c][i].msg # pub.msg
               /\ msgs[wire[c][i].msg].src = c
    BY <1>1, <2>1 DEF DeliveryInv, Past
  <2> QED
    BY <1>1, <2>1, EndedIsComplete DEF AckedMeansForwarded
<1> QED
  BY <1>1, DeliveryAlways, PTL

-----------------------------------------------------------------------------
(* Publishers that were cut off.                                           *)

\* Zeros are written for a lost publisher only, and a lost publisher is closed.
LostInv ==
    /\ DeliveryInv
    /\ ~Idle /\ pub.lost => Msg.src \in Conns /\ sock[Msg.src] = "closed"
    /\ \A i \in DOMAIN pub.buf : pub.buf[i].kind = "zero" => pub.lost
    /\ FilledOnlyWhenLost

LEMMA InitLost == Init => LostInv
<1> SUFFICES ASSUME Init PROVE LostInv
  OBVIOUS
<1>1. Idle /\ pub.buf = <<>> /\ \A c \in Conns : wire[c] = <<>>
  BY DEF Init, NoPub, Idle
<1> QED
  BY <1>1, InitDelivery DEF LostInv, FilledOnlyWhenLost

LEMMA NextLost == LostInv /\ [Next]_vars => LostInv'
<1> SUFFICES ASSUME LostInv, [Next]_vars PROVE LostInv'
  OBVIOUS
<1>0. /\ DeliveryInv /\ CoreInv /\ Past /\ TypeOK
      /\ DeliveryInv' /\ CoreInv' /\ Past' /\ TypeOK'
  <2>1. DeliveryInv /\ DeliveryInv'
    BY NextDelivery DEF LostInv
  <2> QED
    BY <2>1 DEF DeliveryInv, CoreInv, RoutedInv
<1>1. \A c \in Conns : sock[c] = "closed" => sock'[c] = "closed"
  BY <1>0, NextSock
<1>2. \A m \in DOMAIN msgs : m \in DOMAIN msgs' /\ msgs'[m] = msgs[m]
  BY <1>0, Growth
<1>3. /\ (~Idle /\ pub.lost => Msg.src \in Conns /\ sock[Msg.src] = "closed")'
      /\ (\A i \in DOMAIN pub.buf : pub.buf[i].kind = "zero" => pub.lost)'
  <2>1. CASE Quiet
    <3>1. UNCHANGED <<pub, msgs>>
      BY <2>1 DEF Quiet, pubVars
    <3> QED
      BY <1>1, <3>1 DEF LostInv, Idle, Msg
  <2>2. CASE Begun
    BY <1>0, <2>2, BegunEffect
  <2>3. CASE WriteUnit
    <3>1. PICK q \in Seq(Unit) :
              /\ \A i \in DOMAIN q : \/ i \in DOMAIN pub.buf /\ q[i] = pub.buf[i]
                                     \/ (q[i].kind = "zero" => pub.lost)
              /\ pub'.msg = pub.msg /\ pub'.lost = pub.lost
              /\ pub'.buf = q \/ pub'.buf = <<>>
      BY <1>0, <2>3, WriteUnitEffect
    <3>2. ~Idle /\ UNCHANGED <<msgs, sock>>
      BY <2>3 DEF WriteUnit, peerVars
    <3> QED
      BY <3>1, <3>2 DEF LostInv, Idle, Msg
  <2>4. CASE SourceLost
    <3>1. /\ Msg.src \in Conns /\ UNCHANGED msgs /\ pub' = [pub EXCEPT !.lost = TRUE]
          /\ sock' = [sock EXCEPT ![Msg.src] = "closed"]
      BY <2>4 DEF SourceLost, Stop
    <3>2. pub'.msg = pub.msg /\ pub'.lost /\ pub'.buf = pub.buf
      BY <1>0, <3>1 DEF TypeOK
    <3>3. Msg' = Msg /\ sock'[Msg.src] = "closed"
      BY <1>0, <3>1, <3>2 DEF Msg, TypeOK
    <3> QED
      BY <3>1, <3>2, <3>3
  <2>5. CASE Send
    BY <1>0, <2>5, SendEffect DEF NoPub
  <2> QED
    BY <1>0, <2>1, <2>2, <2>3, <2>4, <2>5, StepKinds
<1>4. ASSUME NEW c \in Conns, NEW i \in DOMAIN wire[c], wire[c][i].kind = "zero"
      PROVE  LET s == msgs'[wire[c][i].msg].src IN s \in Conns /\ sock'[s] = "closed"
  <2>1. wire[c][i].msg \in DOMAIN msgs
    BY <1>0, <1>4 DEF Past
  <2> QED
    BY <1>1, <1>2, <1>4, <2>1 DEF LostInv, FilledOnlyWhenLost
<1>5. ASSUME Still PROVE FilledOnlyWhenLost'
  BY <1>4, <1>5 DEF Still, FilledOnlyWhenLost
<1>6. ASSUME NEW q \in Seq(Unit), Flushing(q) PROVE FilledOnlyWhenLost'
  <2>1. ASSUME NEW c \in Conns, NEW i \in DOMAIN wire'[c], wire'[c][i].kind = "zero"
        PROVE  LET s == msgs'[wire'[c][i].msg].src IN s \in Conns /\ sock'[s] = "closed"
    <3>1. CASE i <= Len(wire[c])
      <4>1. /\ i \in 1..Len(wire'[c]) /\ Len(wire[c]) \in Nat /\ Len(wire'[c]) \in Nat
            /\ DOMAIN wire[c] = 1..Len(wire[c])
        BY <1>0, <1>6, <2>1, Received
      <4>2. i \in 1..Len(wire[c]) /\ i \in DOMAIN wire[c]
        BY <3>1, <4>1
      <4>3. wire'[c][i] = wire[c][i]
        BY <1>0, <1>6, <4>2, Received
      <4> QED
        BY <1>4, <2>1, <4>2, <4>3
    <3>2. CASE Hears(c) /\ i - Len(wire[c]) \in 1..Len(q)
      <4>1. PICK j \in 1..Len(q) : i = Len(wire[c]) + j
        BY <1>0, <1>6, <2>1, <3>2, Received
      <4>2. wire'[c][i] = q[j] /\ j \in DOMAIN q
        BY <1>0, <1>6, <3>2, <4>1, Received
      <4>3. pub.lost /\ ~Idle /\ q[j].msg = pub.msg
        BY <1>6, <2>1, <4>2 DEF Flushing, RunOf, LostInv
      <4> QED
        BY <1>1, <1>6, <4>2, <4>3 DEF Flushing, LostInv, Msg
    <3> QED
      BY SMTT(30), <1>0, <1>6, <2>1, <3>1, <3>2, Received
  <2> QED
    BY <2>1 DEF FilledOnlyWhenLost
<1> QED
  BY <1>0, <1>3, <1>5, <1>6, Growth DEF LostInv

\* Made-up payload is written only for a publisher whose connection the broker
\* has closed, at whatever unit it was cut off.
THEOREM FilledOnlyWhenLostAlways == Spec => []FilledOnlyWhenLost
<1>1. LostInv => FilledOnlyWhenLost
  BY DEF LostInv
<1> QED
  BY <1>1, InitLost, NextLost, PTL DEF Spec

-----------------------------------------------------------------------------
(* Framing.  What was written of the message in progress ends with its last  *)
(* flushed unit; every other open stream is at the end of a packet.        *)

Chain(w) ==
    w # <<>> => /\ IsFirst(w[1])
                /\ \A i \in 1..(Len(w) - 1) : Follows(w[i], w[i + 1])

AtBoundary(w) == w # <<>> => IsLast(w[Len(w)])

\* The last unit of w is the one before unit k of message m.
EndsBefore(w, m, k) ==
    w # <<>> /\ w[Len(w)].kind # "ack" /\ w[Len(w)].msg = m /\ w[Len(w)].n = k - 1

InPacket(c) == ~Idle /\ c \in Msg.to /\ Flushed > 0

Ends(c) == IF InPacket(c) THEN EndsBefore(wire[c], pub.msg, Flushed)
                          ELSE AtBoundary(wire[c])

FramedInv ==
    /\ DeliveryInv
    /\ \A c \in Conns : Chain(wire[c])
    /\ \A c \in Conns : sock[c] \in {"idle", "backlog", "open"} => Ends(c)

LEMMA Before ==
    \A k, j, l, s \in Nat : j < l /\ k + l <= s + 1 =>
        k + j - 1 < s /\ k + j - 1 # s /\ k + (j + 1) - 1 = (k + j - 1) + 1
OBVIOUS

\* A wire that is at unit k stays a chain when units from k on are written.
LEMMA GrowChain ==
    ASSUME NEW w \in Seq(Unit), NEW q \in Seq(Unit), NEW m \in Nat, NEW k \in Nat,
           RunOf(q, m, k), msgs[m].size \in Nat, k + Len(q) <= msgs[m].size + 1,
           Chain(w), IF k > 0 THEN EndsBefore(w, m, k) ELSE AtBoundary(w)
    PROVE  /\ Chain(w \o q)
           /\ IF k + Len(q) > 0 THEN EndsBefore(w \o q, m, k + Len(q))
                                ELSE AtBoundary(w \o q)
<1> DEFINE v == w \o q
           s == msgs[m].size
<1>1. /\ Len(w) \in Nat /\ Len(q) \in Nat /\ v \in Seq(Unit) /\ Len(v) = Len(w) + Len(q)
      /\ \A i \in 1..Len(w) : v[i] = w[i]
      /\ \A j \in 1..Len(q) : v[Len(w) + j] = q[j]
      /\ (w = <<>> <=> Len(w) = 0) /\ (v = <<>> <=> Len(v) = 0)
  OBVIOUS
<1>2. \A j \in 1..Len(q) : q[j].kind # "ack" /\ q[j].msg = m /\ q[j].n = k + j - 1
  BY DEF RunOf
<1>3. CASE Len(q) = 0
  <2>1. v = w
    BY <1>1, <1>3
  <2> HIDE DEF v
  <2>2. Chain(v) /\ IF k > 0 THEN EndsBefore(v, m, k) ELSE AtBoundary(v)
    BY <2>1
  <2>3. k + Len(q) = k
    BY <1>3
  <2> QED
    BY <2>2, <2>3 DEF v
<1>4. CASE Len(q) > 0
  <2> HIDE DEF v
  <2>1. EndsBefore(v, m, k + Len(q))
    <3>1. Len(q) \in 1..Len(q) /\ v[Len(v)] = q[Len(q)] /\ v # <<>>
      BY <1>1, <1>4
    <3>2. k + Len(q) - 1 = (k + Len(q)) - 1
      BY <1>1
    <3> QED
      BY <1>2, <3>1, <3>2 DEF EndsBefore
  <2>2. ASSUME NEW j \in 1..(Len(q) - 1) PROVE Follows(q[j], q[j + 1])
    <3>0. j \in 1..Len(q) /\ j + 1 \in 1..Len(q) /\ j \in Nat /\ j < Len(q)
      BY <1>1, <2>2
    <3>1. k + j - 1 < s /\ k + j - 1 # s /\ k + (j + 1) - 1 = (k + j - 1) + 1
      BY <1>1, <3>0, Before
    <3>2. /\ q[j].kind # "ack" /\ q[j].msg = m /\ q[j].n = k + j - 1
          /\ q[j + 1].kind # "ack" /\ q[j + 1].msg = m /\ q[j + 1].n = k + (j + 1) - 1
      BY <1>2, <3>0
    <3> QED
      BY <3>1, <3>2 DEF Follows, IsLast
  <2>3. IF w = <<>> THEN IsFirst(q[1]) ELSE Follows(w[Len(w)], q[1])
    <3>1. 1 \in 1..Len(q) /\ k + 1 - 1 = k
      BY <1>1, <1>4
    <3>2. q[1].kind # "ack" /\ q[1].msg = m /\ q[1].n = k
      BY <1>2, <3>1
    <3>3. CASE k = 0
      BY <3>2, <3>3 DEF AtBoundary, Follows, IsFirst
    <3>4. CASE k > 0
      <4>1. /\ w # <<>> /\ w[Len(w)].kind # "ack" /\ w[Len(w)].msg = m
            /\ w[Len(w)].n = k - 1
        BY <3>4 DEF EndsBefore
      <4>2. k - 1 # s /\ k = (k - 1) + 1
        BY <1>1, <1>4
      <4> QED
        BY <3>2, <4>1, <4>2 DEF Follows, IsLast
    <3> QED
      BY <3>3, <3>4
  <2>4. IsFirst(v[1])
    <3>1. CASE w = <<>>
      <4>1. v[1] = q[1]
        BY <1>1, <1>4, <3>1
      <4> QED
        BY <2>3, <3>1, <4>1
    <3>2. CASE w # <<>>
      <4>1. v[1] = w[1]
        BY <1>1, <3>2
      <4> QED
        BY <3>2, <4>1 DEF Chain
    <3> QED
      BY <3>1, <3>2
  <2>5. ASSUME NEW i \in 1..(Len(v) - 1) PROVE Follows(v[i], v[i + 1])
    <3>1. CASE i < Len(w)
      <4>1. i \in 1..Len(w) /\ i + 1 \in 1..Len(w) /\ i \in 1..(Len(w) - 1)
        BY <1>1, <3>1
      <4>2. v[i] = w[i] /\ v[i + 1] = w[i + 1] /\ w # <<>>
        BY <1>1, <4>1
      <4> QED
        BY <4>1, <4>2 DEF Chain
    <3>2. CASE i = Len(w)
      <4>1. v[i] = w[Len(w)] /\ v[i + 1] = q[1] /\ w # <<>>
        BY <1>1, <1>4, <2>5, <3>2
      <4> QED
        BY <2>3, <4>1
    <3>3. CASE i > Len(w)
      <4>1. PICK j \in 1..(Len(q) - 1) : i = Len(w) + j
        <5>1. i - Len(w) \in 1..(Len(q) - 1) /\ i = Len(w) + (i - Len(w))
          BY <1>1, <2>5, <3>3
        <5> QED
          BY <5>1
      <4>2. j \in 1..Len(q) /\ j + 1 \in 1..Len(q) /\ i + 1 = Len(w) + (j + 1)
        BY <1>1, <4>1
      <4>3. v[i] = q[j] /\ v[i + 1] = q[j + 1]
        BY <1>1, <4>1, <4>2
      <4> QED
        BY <2>2, <4>3
    <3> QED
      BY <1>1, <2>5, <3>1, <3>2, <3>3
  <2>6. Chain(v)
    BY <2>4, <2>5 DEF Chain
  <2>7. k + Len(q) > 0
    BY <1>1, <1>4
  <2> QED
    BY <2>1, <2>6, <2>7 DEF v
<1> QED
  BY <1>1, <1>3, <1>4

\* An acknowledgement is a packet of its own.
LEMMA GrowAck ==
    ASSUME NEW w \in Seq(Unit), NEW u \in Unit, u.kind = "ack", Chain(w), AtBoundary(w)
    PROVE  Chain(Append(w, u)) /\ AtBoundary(Append(w, u))
<1> DEFINE v == Append(w, u)
<1>1. /\ Len(w) \in Nat /\ Len(v) = Len(w) + 1 /\ v[Len(w) + 1] = u /\ v # <<>>
      /\ \A i \in 1..Len(w) : v[i] = w[i]
      /\ (w = <<>> <=> Len(w) = 0)
  OBVIOUS
<1> HIDE DEF v
<1>2. AtBoundary(v)
  BY <1>1 DEF AtBoundary, IsLast
<1>3. IsFirst(v[1])
  <2>1. CASE w = <<>>
    BY <1>1, <2>1 DEF IsFirst
  <2>2. CASE w # <<>>
    BY <1>1, <2>2 DEF Chain
  <2> QED
    BY <2>1, <2>2
<1>4. ASSUME NEW i \in 1..(Len(v) - 1) PROVE Follows(v[i], v[i + 1])
  <2>1. CASE i < Len(w)
    <3>1. i \in 1..Len(w) /\ i + 1 \in 1..Len(w) /\ i \in 1..(Len(w) - 1)
      BY <1>1, <2>1
    <3> QED
      BY <1>1, <3>1 DEF Chain
  <2>2. CASE i = Len(w)
    <3>1. v[i] = w[Len(w)] /\ v[i + 1] = u /\ w # <<>>
      BY <1>1, <1>4, <2>2
    <3> QED
      BY <3>1 DEF AtBoundary, Follows, IsFirst
  <2> QED
    BY <1>1, <1>4, <2>1, <2>2
<1> QED
  BY <1>2, <1>3, <1>4 DEF Chain, v

LEMMA InitFramed == Init => FramedInv
<1> SUFFICES ASSUME Init PROVE FramedInv
  OBVIOUS
<1>1. Idle /\ \A c \in Conns : wire[c] = <<>>
  BY DEF Init, NoPub, Idle
<1> QED
  BY <1>1, InitDelivery DEF FramedInv, Chain, Ends, InPacket, AtBoundary

\* What has been written stays a chain when messages are added.
LEMMA StillFramed ==
    ASSUME FramedInv, [Next]_vars, DeliveryInv', Still, NEW c \in Conns
    PROVE  /\ Chain(wire[c])'
           /\ (sock[c] \in {"idle", "backlog", "open"} => Ends(c))'
<1>0. CoreInv /\ Past /\ TypeOK /\ CoreInv' /\ TypeOK'
  BY DEF FramedInv, DeliveryInv, CoreInv, RoutedInv
<1>1. PICK w \in Seq(Unit) : w = wire[c] /\ w = wire'[c]
  BY <1>0 DEF TypeOK, Still
<1>2. /\ Len(w) \in Nat /\ DOMAIN w = 1..Len(w)
      /\ w # <<>> => Len(w) \in 1..Len(w)
  OBVIOUS
<1>3. ASSUME NEW i \in 1..Len(w) PROVE IsLast(w[i])' <=> IsLast(w[i])
  <2>1. w[i].msg \in DOMAIN msgs
    BY <1>0, <1>1, <1>2, <1>3 DEF Past
  <2>2. msgs'[w[i].msg] = msgs[w[i].msg]
    BY <1>0, <2>1, Growth
  <2> QED
    BY <2>2 DEF IsLast
<1>4. Chain(w)'
  <2>1. Chain(w)
    BY <1>1 DEF FramedInv
  <2>2. ASSUME w # <<>>, NEW i \in 1..(Len(w) - 1) PROVE Follows(w[i], w[i + 1])'
    <3>1. Follows(w[i], w[i + 1]) /\ i \in 1..Len(w)
      BY <1>2, <2>1, <2>2 DEF Chain
    <3> QED
      BY <1>3, <3>1 DEF Follows, IsFirst
  <2> QED
    BY <2>1, <2>2 DEF Chain, IsFirst
<1>5. ASSUME sock'[c] \in {"idle", "backlog", "open"} PROVE Ends(c)'
  <2>1. sock[c] \in {"idle", "backlog", "open"}
    BY <1>0, <1>5, NextSock
  <2>2. Ends(c)
    BY <2>1 DEF FramedInv
  <2>3. AtBoundary(w) => AtBoundary(w)'
    BY <1>2, <1>3 DEF AtBoundary
  <2>4. CASE Idle
    <3>1. ~InPacket(c)'
      <4>1. ASSUME ~Idle' PROVE Flushed' = 0
        <5>1. pub'.msg \in DOMAIN msgs'
          <6>1. PICK S : msgs' \in Seq(S)
            BY <1>0 DEF TypeOK
          <6>2. pub'.msg \in Nat /\ pub'.msg <= Len(msgs') /\ pub'.msg # 0
            BY <1>0, <4>1 DEF TypeOK, Idle
          <6> QED
            BY <6>1, <6>2
        <5>2. \A m \in DOMAIN msgs : m # 0
          <6>1. PICK S : msgs \in Seq(S)
            BY <1>0 DEF TypeOK
          <6> QED
            BY <6>1
        <5>3. pub'.msg \notin DOMAIN msgs
          <6>1. pub.msg = 0 /\ pub'.msg # 0
            BY <2>4, <4>1 DEF Idle
          <6> QED
            BY <5>1, <5>2, <6>1 DEF Still
        <5> QED
          BY <5>1, <5>3 DEF Still, Done
      <4> QED
        BY <4>1 DEF InPacket
    <3> QED
      BY <1>1, <2>2, <2>3, <2>4, <3>1 DEF Ends, InPacket
  <2>5. CASE ~Idle
    <3>1. pub.msg \in DOMAIN msgs /\ pub.msg \in DOMAIN msgs' /\ msgs'[pub.msg] = msgs[pub.msg]
      BY <1>0, <2>5, CoreType, Growth
    <3>2. pub'.msg = pub.msg
      BY <3>1 DEF Still
    <3>3. Flushed' = Flushed
      BY <3>1, <3>2 DEF Still, Done
    <3>4. InPacket(c)' <=> InPacket(c)
      BY <3>1, <3>2, <3>3 DEF InPacket, Idle, Msg
    <3> QED
      BY <1>1, <2>2, <2>3, <3>2, <3>3, <3>4 DEF Ends, EndsBefore
  <2> QED
    BY <2>4, <2>5
<1> QED
  BY <1>1, <1>4, <1>5

\* A flush continues the packet that is open, and only the end of a message is
\* followed by anything else.
LEMMA FlushFramed ==
    ASSUME FramedInv, [Next]_vars, DeliveryInv', NEW q \in Seq(Unit), Flushing(q),
           NEW c \in Conns
    PROVE  /\ Chain(wire[c])'
           /\ (sock[c] \in {"idle", "backlog", "open"} => Ends(c))'
<1>0. CoreInv /\ Past /\ TypeOK /\ CoreInv' /\ TypeOK'
  BY DEF FramedInv, DeliveryInv, CoreInv, RoutedInv
<1>1. PICK w \in Seq(Unit) : w = wire[c]
  BY <1>0 DEF TypeOK
<1>2. PICK v \in Seq(Unit) : v = wire'[c]
  BY <1>0 DEF TypeOK
<1>3. PICK m \in Nat : m = pub.msg
  BY <1>0 DEF TypeOK
<1>4. PICK k \in Nat : k = Flushed
  BY <1>0, CoreType DEF Flushing
<1>5. /\ ~Idle /\ msgs' = msgs /\ m \in DOMAIN msgs /\ msgs[m].size \in Nat /\ RunOf(q, m, k)
      /\ m > 0 /\ Len(q) \in Nat /\ k + Len(q) <= msgs[m].size + 1
      /\ Done(m)' = k + Len(q) /\ (Idle' \/ pub'.msg = m)
  BY <1>0, <1>3, <1>4, CoreType DEF Flushing, Msg
<1>6. PICK s \in Seq(Unit) : s = IF Hears(c) THEN w \o q ELSE w
  <2>1. w \o q \in Seq(Unit)
    OBVIOUS
  <2> QED
    BY <2>1
<1>7. /\ Idle' => k + Len(q) = msgs[m].size + 1
      /\ ~Idle' => pub'.msg = m /\ Flushed' = k + Len(q) /\ Msg' = Msg
  BY <1>3, <1>5 DEF Done, Idle, Msg
<1>8. Chain(w) /\ (sock[c] \in {"idle", "backlog", "open"} => Ends(c))
  BY <1>1 DEF FramedInv
<1>9. /\ Chain(s)
      /\ Hears(c) => IF k + Len(q) > 0 THEN EndsBefore(s, m, k + Len(q)) ELSE AtBoundary(s)
  <2>1. CASE Hears(c)
    <3>1. IF k > 0 THEN EndsBefore(w, m, k) ELSE AtBoundary(w)
      BY <1>1, <1>3, <1>4, <1>5, <1>8, <2>1 DEF Hears, Ends, InPacket
    <3> QED
      BY <1>5, <1>6, <1>8, <2>1, <3>1, GrowChain
  <2>2. CASE ~Hears(c)
    BY <1>6, <1>8, <2>2
  <2> QED
    BY <2>1, <2>2
<1>10. EndsBefore(s, m, msgs[m].size + 1) => AtBoundary(s)
  BY <1>5 DEF EndsBefore, AtBoundary, IsLast
<1>11. ASSUME sock[c] \in {"idle", "backlog", "open"}, Idle' \/ ~Hears(c)
       PROVE  AtBoundary(s)
  <2>1. CASE Hears(c)
    <3>1. k + Len(q) = msgs[m].size + 1 /\ k + Len(q) > 0
      BY <1>5, <1>7, <1>11, <2>1
    <3> QED
      BY <1>9, <1>10, <2>1, <3>1
  <2>2. CASE ~Hears(c)
    <3>1. ~InPacket(c)
      <4>1. c \in Msg.to => Established(c)
        BY <1>3, <1>5 DEF DeliveryInv, FramedInv, CoreInv, ToEstablished, Msg
      <4> QED
        BY <1>11, <2>2, <4>1 DEF InPacket, Hears, Established
    <3> QED
      BY <1>1, <1>6, <1>8, <1>11, <2>2, <3>1 DEF Ends
  <2> QED
    BY <2>1, <2>2
<1>12. ASSUME sock'[c] \in {"idle", "backlog", "open"}
       PROVE  sock[c] \in {"idle", "backlog", "open"}
  BY <1>0, <1>12, NextSock
<1>13. CASE v = s
  <2>1. Chain(v)'
    BY <1>5, <1>9, <1>13 DEF Chain, Follows, IsFirst, IsLast
  <2>2. AtBoundary(s) => AtBoundary(v)'
    BY <1>5, <1>13 DEF AtBoundary, IsLast
  <2>3. ASSUME sock'[c] \in {"idle", "backlog", "open"} PROVE Ends(c)'
    <3>1. CASE Idle' \/ ~Hears(c)
      <4>1. AtBoundary(v)'
        BY <1>11, <1>12, <2>2, <2>3, <3>1
      <4>2. ~InPacket(c)'
        <5>1. ASSUME ~Idle', c \in Msg.to PROVE Hears(c)
          <6>1. Established(c)
            BY <1>3, <1>5, <5>1 DEF DeliveryInv, FramedInv, CoreInv, ToEstablished, Msg
          <6> QED
            BY <1>12, <2>3, <5>1, <6>1 DEF Hears, Established
        <5> QED
          BY <1>7, <3>1, <5>1 DEF InPacket
      <4> QED
        BY <1>2, <4>1, <4>2 DEF Ends
    <3>2. CASE ~Idle' /\ Hears(c)
      <4>1. Flushed' = k + Len(q) /\ pub'.msg = m /\ Msg' = Msg
        BY <1>7, <3>2
      <4>2. InPacket(c)' <=> k + Len(q) > 0
        BY <3>2, <4>1 DEF InPacket, Hears
      <4>3. EndsBefore(s, m, k + Len(q)) => EndsBefore(wire[c], pub.msg, Flushed)'
        BY <1>2, <1>13, <4>1 DEF EndsBefore
      <4> QED
        BY <1>2, <1>9, <2>2, <3>2, <4>2, <4>3 DEF Ends
    <3> QED
      BY <3>1, <3>2
  <2> QED
    BY <1>2, <2>1, <2>3
<1>14. CASE v # s
  <2>1. PICK u \in Unit : u.kind = "ack" /\ v = Append(s, u) /\ sock[c] = "open" /\ Idle'
    <3> DEFINE ack == [kind |-> "ack", msg |-> pub.msg, n |-> 0]
    <3>1. ack \in Unit /\ ack.kind = "ack"
      BY <1>3 DEF Unit
    <3>2. v = Append(s, ack) /\ sock[c] = "open" /\ Idle'
      BY <1>1, <1>2, <1>6, <1>14 DEF Flushing, Receives
    <3> QED
      BY <3>1, <3>2
  <2>2. AtBoundary(s)
    BY <1>11, <2>1
  <2>3. Chain(v) /\ AtBoundary(v)
    BY <1>9, <2>1, <2>2, GrowAck
  <2>4. Chain(v)' /\ AtBoundary(v)'
    BY <1>5, <2>3 DEF Chain, AtBoundary, Follows, IsFirst, IsLast
  <2> QED
    BY <1>2, <2>1, <2>4 DEF Ends, InPacket
<1> QED
  BY <1>13, <1>14

LEMMA NextFramed == FramedInv /\ [Next]_vars => FramedInv'
<1> SUFFICES ASSUME FramedInv, [Next]_vars PROVE FramedInv'
  OBVIOUS
<1>1. DeliveryInv' /\ CoreInv
  BY NextDelivery DEF FramedInv, DeliveryInv
<1>2. CASE Still
  BY <1>1, <1>2, StillFramed DEF FramedInv
<1>3. ASSUME NEW q \in Seq(Unit), Flushing(q) PROVE FramedInv'
  BY <1>1, <1>3, FlushFramed DEF FramedInv
<1> QED
  BY <1>1, <1>2, <1>3, Growth

\* What a peer is sent is a sequence of whole packets, for any sizes of messages
\* and of the buffer, and between two messages every open stream is at the end
\* of a packet.
THEOREM WellFramedAlways == Spec => []WellFramed
<1>1. FramedInv => WellFramed
  BY DEF FramedInv, WellFramed, Chain, Ends, InPacket, AtBoundary
<1> QED
  BY <1>1, InitFramed, NextFramed, PTL DEF Spec

(***************************************************************************)
(* The broker implements PubSub: what its peers see is a sequence of       *)
(* messages, each handed whole to everyone subscribed when it was published *)
(* and still there, and none before the last has been handed out.          *)
(***************************************************************************)

-----------------------------------------------------------------------------
(* Messages received whole.                                                *)

LEMMA CompleteHas ==
    ASSUME NEW c, NEW m
    PROVE  Complete(c, m) <=> \A n \in 0..msgs[m].size : Has(c, m, n)
BY DEF Complete, Has

\* As long as nothing is written nobody has more messages, and nobody has a
\* message that has just begun.
LEMMA StillWhole ==
    ASSUME DeliveryInv, [Next]_vars, TypeOK', Still, NEW c \in Conns, NEW m \in DOMAIN msgs'
    PROVE  IF m \in DOMAIN msgs THEN Complete(c, m)' <=> Complete(c, m) ELSE ~Complete(c, m)'
<1>1. CoreInv /\ Past /\ wire' = wire
  BY DEF DeliveryInv, Still
<1>2. CASE m \in DOMAIN msgs
  BY <1>1, <1>2, Growth DEF Complete
<1>3. CASE m \notin DOMAIN msgs
  <2>1. msgs'[m].size \in Nat
    <3>1. msgs' \in Seq([topic : Topics, size : Nat, src : Conns \cup {Local},
                         to : SUBSET Conns])
      BY DEF TypeOK
    <3> QED
      BY <3>1, MessageType
  <2>2. ASSUME Complete(c, m)' PROVE FALSE
    <3>1. 0 \in 0..msgs'[m].size
      BY <2>1
    <3>2. PICK i \in DOMAIN wire[c] : wire[c][i].msg = m
      BY <1>1, <2>2, <3>1 DEF Complete
    <3> QED
      BY <1>1, <1>3, <3>2 DEF Past
  <2> QED
    BY <1>3, <2>2
<1> QED
  BY <1>2, <1>3

\* A flush makes whole the message in progress only, and only where it is heard.
LEMMA FlushWhole ==
    ASSUME DeliveryInv, [Next]_vars, TypeOK', NEW q \in Seq(Unit), Flushing(q),
           NEW c \in Conns, NEW m \in DOMAIN msgs
    PROVE  /\ Complete(c, m) => Complete(c, m)'
           /\ Complete(c, m)' => Complete(c, m) \/ (m = pub.msg /\ Hears(c))
<1>1. CoreInv /\ TypeOK /\ msgs' = msgs /\ RunOf(q, pub.msg, Flushed) /\ DOMAIN q = 1..Len(q)
  BY DEF DeliveryInv, CoreInv, RoutedInv, Flushing
<1>2. ASSUME NEW n, Has(c, m, n) PROVE Has(c, m, n)'
  <2>1. PICK i \in DOMAIN wire[c] :
            wire[c][i].kind # "ack" /\ wire[c][i].msg = m /\ wire[c][i].n = n
    BY <1>2 DEF Has
  <2>2. i \in DOMAIN wire'[c] /\ wire'[c][i] = wire[c][i]
    BY <1>1, <2>1, Received
  <2> QED
    BY <2>1, <2>2 DEF Has
<1>3. ASSUME NEW n, Has(c, m, n)', ~(m = pub.msg /\ Hears(c)) PROVE Has(c, m, n)
  <2>1. PICK i \in DOMAIN wire'[c] :
            wire'[c][i].kind # "ack" /\ wire'[c][i].msg = m /\ wire'[c][i].n = n
    BY <1>3 DEF Has
  <2>2. /\ i \in 1..Len(wire'[c]) /\ Len(wire[c]) \in Nat /\ Len(wire'[c]) \in Nat
        /\ DOMAIN wire[c] = 1..Len(wire[c])
    BY <1>1, <2>1, Received
  <2>3. CASE i <= Len(wire[c])
    <3>1. i \in DOMAIN wire[c]
      BY <2>2, <2>3
    <3>2. wire'[c][i] = wire[c][i]
      BY <1>1, <2>2, <3>1, Received
    <3> QED
      BY <2>1, <3>1, <3>2 DEF Has
  <2>4. CASE Hears(c) /\ i - Len(wire[c]) \in 1..Len(q)
    <3>1. PICK j \in 1..Len(q) : i = Len(wire[c]) + j
      BY <2>2, <2>4
    <3>2. wire'[c][i] = q[j]
      BY <1>1, <2>4, <3>1, Received
    <3> QED
      BY <1>1, <1>3, <2>1, <2>4, <3>2 DEF RunOf
  <2> QED
    BY <1>1, <2>1, <2>2, <2>3, <2>4, Received
<1>4. Complete(c, m) => Complete(c, m)'
  BY <1>1, <1>2 DEF Complete, Has
<1>5. ASSUME Complete(c, m)', ~(m = pub.msg /\ Hears(c)) PROVE Complete(c, m)
  <2>1. \A n \in 0..msgs[m].size : Has(c, m, n)'
    BY <1>1, <1>5 DEF Complete, Has
  <2>2. \A n \in 0..msgs[m].size : Has(c, m, n)
    BY <1>3, <1>5, <2>1
  <2> QED
    BY <2>2, CompleteHas
<1> QED
  BY <1>4, <1>5

-----------------------------------------------------------------------------
(* Connections and their filters.                                          *)

LEMMA LifeStep ==
    ASSUME TypeOK, TypeOK', [Next]_vars
    PROVE  Promise!PeersChange
<1>1. ASSUME NEW c \in Conns
      PROVE  /\ Life(c)' \in {"new", "open", "gone"}
             /\ \/ Life(c)' \in {Life(c), "gone"}
                \/ Life(c) = "new" /\ Life(c)' = "open"
  <2>1. sock[c] \in {"idle", "backlog", "open", "gone", "closed"}
        /\ sock'[c] \in {"idle", "backlog", "open", "gone", "closed"}
    BY DEF TypeOK
  <2>2. \/ sock'[c] = sock[c] \/ sock'[c] = "closed" \/ sock'[c] = "gone"
        \/ sock[c] = "idle" /\ sock'[c] = "backlog"
        \/ sock[c] = "backlog" /\ sock'[c] = "open"
    BY NextSock
  <2> QED
    BY <2>1, <2>2 DEF Life
<1>2. Lives' \in [Conns -> {"new", "open", "gone"}]
  BY <1>1 DEF Lives
<1>3. \A c \in Conns : Lives'[c] = Life(c)' /\ Lives[c] = Life(c)
  BY DEF Lives
<1> QED
  BY <1>1, <1>2, <1>3 DEF Promise!PeersChange

\* The list after a removal holds everyone but, perhaps, the one removed.
LEMMA RemovedSet ==
    ASSUME NEW S, NEW s \in Seq(S), NEW i \in 1..Len(s)
    PROVE  \A x : x # s[i] => (x \in ToSet(RemoveAt(s, i)) <=> x \in ToSet(s))
<1> DEFINE r == RemoveAt(s, i)
<1>0. /\ r \in Seq(S) /\ Len(r) = Len(s) - 1
      /\ \A k \in 1..(Len(s) - 1) : r[k] = IF k < i THEN s[k] ELSE s[k + 1]
  BY RemoveAtType
<1>1. Len(s) \in Nat /\ i \in Nat
  OBVIOUS
<1> HIDE DEF r
<1>2. DOMAIN r = 1..(Len(s) - 1) /\ DOMAIN s = 1..Len(s)
  BY <1>0, <1>1
<1>3. ASSUME NEW x, x # s[i], x \in ToSet(r) PROVE x \in ToSet(s)
  <2>1. PICK k \in 1..(Len(s) - 1) : x = r[k]
    BY <1>2, <1>3 DEF ToSet
  <2>2. k \in DOMAIN s /\ k + 1 \in DOMAIN s
    BY <1>1, <1>2
  <2> QED
    BY <1>0, <1>1, <2>1, <2>2 DEF ToSet
<1>4. ASSUME NEW x, x # s[i], x \in ToSet(s) PROVE x \in ToSet(r)
  <2>1. PICK k \in 1..Len(s) : x = s[k]
    BY <1>2, <1>4 DEF ToSet
  <2>2. CASE k < i
    <3>1. k \in 1..(Len(s) - 1)
      BY <1>1, <2>2
    <3> QED
      BY <1>0, <1>1, <1>2, <2>1, <2>2, <3>1 DEF ToSet
  <2>3. CASE k > i
    <3>1. k - 1 \in 1..(Len(s) - 1) /\ ~(k - 1 < i) /\ (k - 1) + 1 = k
      BY <1>1, <2>3
    <3> QED
      BY <1>0, <1>1, <1>2, <2>1, <3>1 DEF ToSet
  <2> QED
    BY <1>1, <1>4, <2>1, <2>2, <2>3
<1> QED
  BY <1>3, <1>4 DEF r

\* A step changes the filters of one connection at most, and none while a
\* message is being forwarded.
FiltersStep ==
    \/ UNCHANGED FiltersHeld
    \/ /\ Idle
       /\ \E c \in Conns, fs \in SUBSET Filters :
             Established(c) /\ FiltersHeld' = [FiltersHeld EXCEPT ![c] = fs]

LEMMA OneChanged ==
    ASSUME TypeOK', Idle, NEW c \in Conns, Established(c),
           \A d \in Conns \ {c} : /\ subs'[d] = subs[d]
                                  /\ d \in ToSet(clients') <=> d \in ToSet(clients)
    PROVE  FiltersStep
<1> DEFINE fs == IF c \in ToSet(clients') THEN subs'[c] ELSE {}
<1>1. fs \in SUBSET Filters
  BY DEF TypeOK
<1>2. FiltersHeld' = [FiltersHeld EXCEPT ![c] = fs]
  BY DEF FiltersHeld
<1> QED
  BY <1>1, <1>2 DEF FiltersStep

LEMMA NextFilters ==
    ASSUME GrantedInv, TypeOK', [Next]_vars
    PROVE  FiltersStep
<1>0. TypeOK
  BY DEF GrantedInv
<1>1. ASSUME UNCHANGED <<clients, subs>> PROVE FiltersStep
  BY <1>1 DEF FiltersStep, FiltersHeld
<1>2. CASE UNCHANGED vars \/ PeerStep \/ NoClientWaiting \/ AcceptClient
             \/ KeepAliveExpires \/ EndPass \/ AppStep
  BY <1>1, <1>2 DEF vars, PeerStep, PeerConnects, PeerSends, PeerLeaves, loopVars, subVars,
                    NoClientWaiting, AcceptClient, KeepAliveExpires, EndPass, AppStep,
                    AppPublish
<1>3. CASE HandleStop \/ Answer \/ HandlePublish \/ WriteUnit \/ SourceLost \/ Send
  BY <1>1, <1>3 DEF HandleStop, Answer, HandlePublish, WriteUnit, SourceLost, Send, loopVars,
                    subVars
<1>4. CASE HandleConnect \/ HandshakeGivesUp
  <2>1. /\ Idle /\ turn = "connect" /\ clients' = <<fresh>> \o clients /\ UNCHANGED subs
    BY <1>4 DEF HandleConnect, HandshakeGivesUp, Arrived, AddClient, subVars
  <2>2. fresh \in Conns /\ Established(fresh) /\ clients \in Seq(Conns)
    BY <1>0, <2>1 DEF TypeOK, GrantedInv
  <2>3. ToSet(clients') = {fresh} \cup ToSet(clients)
    <3>1. /\ DOMAIN clients = 1..Len(clients) /\ Len(clients) \in Nat
          /\ DOMAIN clients' = 1..(Len(clients) + 1)
          /\ clients'[1] = fresh
          /\ \A i \in 1..Len(clients) : clients'[i + 1] = clients[i]
          /\ \A i \in 2..(Len(clients) + 1) : i - 1 \in 1..Len(clients)
                                              /\ clients'[i] = clients[i - 1]
      BY <2>1, <2>2
    <3>2. 1 \in DOMAIN clients' /\ \A i \in 1..Len(clients) : i + 1 \in DOMAIN clients'
      BY <3>1
    <3>3. \A i \in DOMAIN clients' : i = 1 \/ i \in 2..(Len(clients) + 1)
      BY <3>1
    <3>4. ToSet(clients') \subseteq {fresh} \cup ToSet(clients)
      BY <3>1, <3>3 DEF ToSet
    <3>5. fresh \in ToSet(clients')
      BY <3>1, <3>2 DEF ToSet
    <3>6. ASSUME NEW i \in 1..Len(clients) PROVE clients[i] \in ToSet(clients')
      BY <3>1, <3>2 DEF ToSet
    <3>7. ToSet(clients) \subseteq ToSet(clients')
      BY <3>1, <3>6 DEF ToSet
    <3> QED
      BY <3>4, <3>5, <3>7
  <2> QED
    BY <2>1, <2>2, <2>3, OneChanged
<1>5. CASE EndTurn
  <2>1. Idle /\ at \in 1..Len(clients) /\ clients \in Seq(Conns) /\ Active = clients[at]
    BY <1>0, <1>5 DEF EndTurn, InTurn, TypeOK, Active
  <2>2. Active \in Conns /\ Established(Active)
    BY <1>5, ActiveEstablished DEF EndTurn
  <2>3. \/ UNCHANGED <<clients, subs>>
        \/ clients' = RemoveAt(clients, at) /\ subs' = [subs EXCEPT ![Active] = {}]
    BY <1>5 DEF EndTurn
  <2>4. ASSUME clients' = RemoveAt(clients, at), subs' = [subs EXCEPT ![Active] = {}]
        PROVE  FiltersStep
    <3>1. \A d \in Conns \ {Active} : d \in ToSet(clients') <=> d \in ToSet(clients)
      BY <2>1, <2>4, RemovedSet
    <3>2. \A d \in Conns \ {Active} : subs'[d] = subs[d]
      BY <1>0, <2>4 DEF TypeOK
    <3> QED
      BY <2>1, <2>2, <3>1, <3>2, OneChanged
  <2> QED
    BY <1>1, <2>3, <2>4
<1>6. CASE Subscribe \/ Unsubscribe
  <2>1. /\ Idle /\ Active \in Conns /\ Established(Active) /\ UNCHANGED clients
    <3>1. PICK types : Arrived(types)
      BY <1>6 DEF Subscribe, Unsubscribe
    <3> QED
      BY <1>6, <3>1, ActiveEstablished DEF Arrived, Subscribe, Unsubscribe
  <2>2. UNCHANGED subs \/ \E fs : subs' = [subs EXCEPT ![Active] = fs]
    BY <1>6 DEF Subscribe, Unsubscribe, subVars
  <2>3. \A d \in Conns \ {Active} : subs'[d] = subs[d]
    BY SMTT(30), <1>0, <2>2 DEF TypeOK
  <2> QED
    BY <2>1, <2>3, OneChanged
<1> QED
  BY <1>2, <1>3, <1>4, <1>5, <1>6 DEF Next, ServerStep, TimedStep

-----------------------------------------------------------------------------
(* Messages.                                                               *)

LEMMA InitPublished ==
    ASSUME msgs = <<>>
    PROVE  Published = <<>>
<1>1. DOMAIN Published = 1..0
  BY DEF Published
<1>2. Published \in [1..0 -> {}]
  BY <1>1 DEF Published
<1> QED
  BY <1>2

\* What PubSub knows of the messages.
LEMMA PublishedSeq ==
    ASSUME TypeOK
    PROVE  /\ Published \in Seq([topic : Topics, to : SUBSET Conns])
           /\ Len(Published) = Len(msgs) /\ Len(msgs) \in Nat
           /\ DOMAIN msgs = 1..Len(msgs)
           /\ \A m \in DOMAIN msgs :
                 Published[m] = [topic |-> msgs[m].topic, to |-> msgs[m].to]
<1> DEFINE M == [topic : Topics, to : SUBSET Conns]
<1>1. Len(msgs) \in Nat /\ DOMAIN msgs = 1..Len(msgs)
  <2>1. PICK S : msgs \in Seq(S)
    BY DEF TypeOK
  <2> QED
    BY <2>1
<1>2. ASSUME NEW m \in DOMAIN msgs
      PROVE  [topic |-> msgs[m].topic, to |-> msgs[m].to] \in M
  BY MessageType DEF TypeOK
<1> HIDE DEF M
<1>3. Published \in [1..Len(msgs) -> M]
  BY <1>1, <1>2 DEF Published
<1>4. Published \in Seq(M) /\ Len(Published) = Len(msgs)
  BY <1>1, <1>3
<1>5. \A m \in DOMAIN msgs : Published[m] = [topic |-> msgs[m].topic, to |-> msgs[m].to]
  BY DEF Published
<1> QED
  BY <1>1, <1>4, <1>5 DEF M

LEMMA NextPublished ==
    ASSUME TypeOK, NEW r, msgs' = Append(msgs, r)
    PROVE  Published' = Append(Published, [topic |-> r.topic, to |-> r.to])
<1> DEFINE e == [topic |-> r.topic, to |-> r.to]
           p == Append(Published, e)
<1>1. /\ Len(msgs) \in Nat /\ DOMAIN msgs = 1..Len(msgs)
      /\ DOMAIN msgs' = 1..(Len(msgs) + 1) /\ msgs'[Len(msgs) + 1] = r
      /\ \A m \in 1..Len(msgs) : msgs'[m] = msgs[m]
  <2>1. PICK S : msgs \in Seq(S)
    BY DEF TypeOK
  <2> QED
    BY <2>1
<1> HIDE DEF e
<1>2. PICK S : Published \in Seq(S) /\ e \in S
  <2>1. PICK T : Published \in Seq(T)
    BY PublishedSeq
  <2>2. Published \in Seq(T \cup {e})
    BY <2>1, SeqMonotonic
  <2> QED
    BY <2>2
<1>3. Len(Published) = Len(msgs)
  BY PublishedSeq
<1>4. /\ DOMAIN p = 1..(Len(msgs) + 1) /\ p[Len(msgs) + 1] = e
      /\ \A m \in 1..Len(msgs) : p[m] = Published[m]
      /\ p = [m \in 1..(Len(msgs) + 1) |-> p[m]]
  <2>1. p \in Seq(S) /\ Len(p) = Len(msgs) + 1
    BY <1>2, <1>3
  <2>2. p[Len(msgs) + 1] = e /\ \A m \in 1..Len(msgs) : p[m] = Published[m]
    BY <1>1, <1>2, <1>3
  <2> HIDE DEF p
  <2>3. p \in [1..(Len(msgs) + 1) -> S]
    BY <2>1, LenProperties
  <2> QED
    BY <2>2, <2>3
<1> HIDE DEF p
<1>5. Published' = [m \in 1..(Len(msgs) + 1) |-> [topic |-> msgs'[m].topic, to |-> msgs'[m].to]]
  BY <1>1 DEF Published
<1>6. ASSUME NEW m \in 1..(Len(msgs) + 1)
      PROVE  p[m] = [topic |-> msgs'[m].topic, to |-> msgs'[m].to]
  <2>1. CASE m \in 1..Len(msgs)
    BY <1>1, <1>4, <2>1 DEF Published
  <2>2. CASE m = Len(msgs) + 1
    BY <1>1, <1>4, <2>2 DEF e
  <2> QED
    BY <1>1, <2>1, <2>2
<1> QED
  BY <1>4, <1>5, <1>6 DEF p, e

-----------------------------------------------------------------------------
(* The theorem.                                                            *)

LEMMA InitRefines == Init => Promise!Init
<1> SUFFICES ASSUME Init PROVE Promise!Init
  OBVIOUS
<1>1. Lives = [c \in Conns |-> "new"]
  BY DEF Init, Lives, Life
<1>2. FiltersHeld = [c \in Conns |-> {}]
  BY DEF Init, FiltersHeld, ToSet
<1>3. msgs = <<>> /\ Idle
  BY DEF Init, NoPub, Idle
<1>4. Whole = [c \in Conns |-> {}]
  BY <1>3 DEF Whole
<1> QED
  BY <1>1, <1>2, <1>3, <1>4, InitPublished DEF Promise!Init

LEMMA Stutters ==
    ASSUME TypeOK, TypeOK', [Next]_vars, UNCHANGED <<FiltersHeld, Published, Whole>>, Idle' = Idle
    PROVE  Promise!Next
<1>1. Promise!PeersChange
  BY LifeStep
<1> QED
  BY <1>1 DEF Promise!Next, Promise!Come

\* Nothing but a change of connections or filters can be seen of a quiet step.
LEMMA QuietRefines ==
    ASSUME DeliveryInv, DeliveryInv', [Next]_vars, Quiet
    PROVE  Promise!Next
<1>1. TypeOK /\ TypeOK' /\ GrantedInv
  BY DEF DeliveryInv, CoreInv, RoutedInv
<1>2. UNCHANGED <<msgs, wire, pub>>
  BY DEF Quiet, pubVars
<1>3. UNCHANGED <<Published, Whole>> /\ Idle' = Idle
  BY <1>2 DEF Published, Whole, Complete, Idle
<1>4. FiltersStep /\ Promise!PeersChange
  BY <1>1, NextFilters, LifeStep
<1>5. CASE UNCHANGED FiltersHeld
  BY <1>1, <1>3, <1>5, Stutters
<1>6. CASE Idle /\ \E c \in Conns, fs \in SUBSET Filters :
                      Established(c) /\ FiltersHeld' = [FiltersHeld EXCEPT ![c] = fs]
  <2>1. PICK c \in Conns, fs \in SUBSET Filters :
            Established(c) /\ FiltersHeld' = [FiltersHeld EXCEPT ![c] = fs]
    BY <1>6
  <2>2. Lives[c] # "new"
    BY <2>1 DEF Lives, Life, Established
  <2>3. Promise!Resubscribe
    BY <1>3, <1>4, <1>6, <2>1, <2>2 DEF Promise!Resubscribe
  <2> QED
    BY <2>3 DEF Promise!Next
<1> QED
  BY <1>4, <1>5, <1>6 DEF FiltersStep

LEMMA SameSeen ==
    ASSUME UNCHANGED <<sock, clients, subs>>
    PROVE  UNCHANGED <<Lives, FiltersHeld>>
BY DEF Lives, Life, FiltersHeld

\* A message begins: it is for those whose filters match, and nobody has it.
LEMMA BegunRefines ==
    ASSUME DeliveryInv, DeliveryInv', [Next]_vars, Begun
    PROVE  Promise!Next
<1>1. TypeOK /\ TypeOK' /\ CoreInv /\ Past
  BY DEF DeliveryInv, CoreInv, RoutedInv
<1>2. PICK t \in Topics, n \in Nat, s \in Conns \cup {Local}, a \in BOOLEAN :
          BeginPublish(t, n, s, a)
  BY DEF Begun
<1> DEFINE to == {c \in ToSet(clients) : Subscribes(c, t)}
           r == [topic |-> t, size |-> n, src |-> s, to |-> to]
<1>3. Idle /\ UNCHANGED <<Lives, FiltersHeld>>
  BY SameSeen DEF Begun
<1>4. Published' = Append(Published, [topic |-> t, to |-> to])
  <2>1. msgs' = Append(msgs, r)
    BY <1>2 DEF BeginPublish
  <2>2. Published' = Append(Published, [topic |-> r.topic, to |-> r.to])
    BY <1>1, <2>1, NextPublished
  <2> QED
    BY <2>2
<1>5. to = Promise!Subscribers(t)
  <2>1. ToSet(clients) \subseteq Conns
    BY <1>1 DEF TypeOK, ToSet
  <2> QED
    BY <2>1 DEF Promise!Subscribers, FiltersHeld, Subscribes
<1>6. ~Idle' /\ wire' = wire /\ DOMAIN msgs' = DOMAIN msgs \cup {Len(msgs) + 1}
      /\ \A k \in DOMAIN msgs : msgs'[k] = msgs[k] /\ k # Len(msgs) + 1
  BY <1>1, BegunEffect
<1>7. UNCHANGED Whole
  <2>1. ASSUME NEW c \in Conns, NEW m \in DOMAIN msgs PROVE Complete(c, m)' <=> Complete(c, m)
    BY <1>6, <2>1 DEF Complete
  <2>2. ASSUME NEW c \in Conns, NEW m, m = Len(msgs) + 1 PROVE ~Complete(c, m)'
    <3>1. msgs'[m].size \in Nat
      <4>1. m \in DOMAIN msgs'
        BY <1>6, <2>2
      <4>2. msgs' \in Seq([topic : Topics, size : Nat, src : Conns \cup {Local},
                           to : SUBSET Conns])
        BY <1>1 DEF TypeOK
      <4> QED
        BY <4>1, <4>2, MessageType
    <3>2. ASSUME Complete(c, m)' PROVE FALSE
      <4>1. 0 \in 0..msgs'[m].size
        BY <3>1
      <4>2. PICK i \in DOMAIN wire[c] : wire[c][i].msg = m
        BY <1>6, <3>2, <4>1 DEF Complete
      <4>3. m \in DOMAIN msgs
        BY <1>1, <4>2 DEF Past
      <4> QED
        BY <1>6, <2>2, <4>3
    <3> QED
      BY <3>2
  <2> QED
    BY <1>6, <2>1, <2>2 DEF Whole
<1> HIDE DEF to, r
<1>8. Promise!Publish(t)
  BY <1>3, <1>4, <1>5, <1>6, <1>7 DEF Promise!Publish
<1> QED
  BY <1>8 DEF Promise!Next

\* Some of those it is for now have the message whole.
LEMMA FlushRefines ==
    ASSUME DeliveryInv, DeliveryInv', [Next]_vars, NEW q \in Seq(Unit), Flushing(q),
           UNCHANGED <<sock, clients, subs>>
    PROVE  Promise!Next
<1>1. TypeOK /\ TypeOK' /\ CoreInv /\ CoreInv'
  BY DEF DeliveryInv, CoreInv, RoutedInv
<1>2. UNCHANGED <<Lives, FiltersHeld>>
  BY SameSeen
<1>3. /\ ~Idle /\ msgs' = msgs /\ pub.msg \in DOMAIN msgs /\ pub.msg = Len(msgs)
      /\ Msg.to \subseteq Conns
  BY <1>1, CoreType DEF Flushing, CoreInv, Underway
<1>4. UNCHANGED Published
  BY <1>3 DEF Published
<1>5. /\ Len(Published) = pub.msg /\ Published[Len(Published)].to = Msg.to
      /\ Promise!Current.to = Msg.to
  <2>1. Len(Published) = pub.msg
    BY <1>1, <1>3, PublishedSeq
  <2>2. Published[pub.msg] = [topic |-> Msg.topic, to |-> Msg.to]
    BY <1>3 DEF Published, Msg
  <2> QED
    BY <2>1, <2>2 DEF Promise!Current
<1> DEFINE cs == {c \in Msg.to : Lives[c] = "open" /\ Complete(c, Len(msgs))'}
           got(c) == IF c \in cs THEN Whole[c] \cup {Len(Published)} ELSE Whole[c]
<1>6. cs \in SUBSET {c \in Msg.to : Lives[c] = "open"}
  OBVIOUS
<1>7. \A c \in Conns : Hears(c) <=> c \in Msg.to /\ Lives[c] = "open"
  BY <1>1 DEF Hears, Lives, Life, TypeOK
<1>8. ASSUME NEW c \in Conns
      PROVE  Whole'[c] = got(c)
  <2>1. Whole[c] = {m \in DOMAIN msgs : Complete(c, m)}
        /\ Whole'[c] = {m \in DOMAIN msgs : Complete(c, m)'}
    BY <1>3 DEF Whole
  <2>2. ASSUME NEW m \in DOMAIN msgs
        PROVE  /\ Complete(c, m) => Complete(c, m)'
               /\ Complete(c, m)' => Complete(c, m) \/ (m = pub.msg /\ Hears(c))
    BY <1>1, FlushWhole
  <2>3. c \in cs <=> Hears(c) /\ Complete(c, Len(msgs))'
    BY <1>7
  <2>4. \A m : m = Len(msgs) => (Complete(c, Len(msgs))' <=> Complete(c, m)')
    BY <1>3 DEF Complete
  <2> QED
    BY <1>3, <1>5, <2>1, <2>2, <2>3, <2>4
<1>9. Whole' = [c \in Conns |-> got(c)]
  BY <1>8 DEF Whole
<1> HIDE DEF cs
<1>10. Promise!Deliver
  BY <1>3, <1>5, <1>6, <1>9 DEF Promise!Deliver
<1>11. CASE ~Idle'
  <2>1. Promise!Hand
    BY <1>2, <1>3, <1>4, <1>10, <1>11 DEF Promise!Hand
  <2> QED
    BY <2>1 DEF Promise!Next
<1>12. CASE Idle'
  <2>1. ASSUME NEW c \in Msg.to, Lives[c] = "open" PROVE Len(Published) \in Whole'[c]
    <3>1. PICK m \in DOMAIN msgs : m = pub.msg
      BY <1>3
    <3>2. m # pub'.msg /\ msgs[m].size \in Nat
      <4>1. \A k \in DOMAIN msgs : k # 0
        BY <1>1, PublishedSeq
      <4> QED
        BY <1>1, <1>3, <1>12, <3>1, <4>1, CoreType DEF Idle, Msg
    <3>3. sock'[c] = "open" /\ c \in msgs'[m].to /\ c \in Conns
      BY <1>1, <1>3, <1>7, <2>1, <3>1 DEF Hears, Msg
    <3>4. ASSUME NEW n \in 0..msgs[m].size PROVE Has(c, m, n)'
      <4>1. n \in Nat /\ n < Done(m)'
        BY <1>3, <3>2, <3>4 DEF Done
      <4> QED
        BY <1>3, <3>3, <4>1 DEF DeliveryInv, Served
    <3>5. Complete(c, m)'
      BY <1>3, <3>4 DEF Complete, Has
    <3> QED
      BY <1>3, <1>5, <3>1, <3>3, <3>5 DEF Whole
  <2>2. Promise!Finish
    BY <1>2, <1>4, <1>5, <1>10, <1>12, <2>1 DEF Promise!Finish
  <2> QED
    BY <2>2 DEF Promise!Next
<1> QED
  BY <1>11, <1>12

LEMMA NextRefines == DeliveryInv /\ DeliveryInv' /\ [Next]_vars => [Promise!Next]_Promise!vars
<1> SUFFICES ASSUME DeliveryInv, DeliveryInv', [Next]_vars PROVE Promise!Next
  OBVIOUS
<1>1. TypeOK /\ TypeOK' /\ CoreInv
  BY DEF DeliveryInv, CoreInv, RoutedInv
<1>2. CASE WriteUnit \/ Send \/ SourceLost
  <2>1. UNCHANGED <<clients, subs>> /\ (SourceLost \/ UNCHANGED sock)
    BY <1>2 DEF WriteUnit, Send, SourceLost, loopVars, subVars, peerVars
  <2>2. CASE WriteUnit \/ Send
    <3>1. ~Idle /\ UNCHANGED <<msgs, sock>> /\ pub.msg \in DOMAIN msgs
      BY <1>1, <2>2, CoreType DEF WriteUnit, Send, peerVars
    <3>2. CASE Still
      <4>1. pub'.msg = pub.msg /\ wire' = wire
        BY <3>1, <3>2 DEF Still
      <4>2. UNCHANGED <<FiltersHeld, Published, Whole>> /\ Idle' = Idle
        BY <2>1, <3>1, <4>1 DEF FiltersHeld, Published, Whole, Complete, Idle
      <4> QED
        BY <1>1, <4>2, Stutters
    <3>3. ASSUME NEW q \in Seq(Unit), Flushing(q) PROVE Promise!Next
      BY <2>1, <3>1, <3>3, FlushRefines
    <3> QED
      BY <1>1, <3>2, <3>3, Growth
  <2>3. CASE SourceLost
    <3>1. UNCHANGED <<msgs, wire>> /\ pub'.msg = pub.msg
      BY <1>1, <2>3 DEF SourceLost, TypeOK
    <3>2. UNCHANGED <<FiltersHeld, Published, Whole>> /\ Idle' = Idle
      BY <2>1, <3>1 DEF FiltersHeld, Published, Whole, Complete, Idle
    <3> QED
      BY <1>1, <3>2, Stutters
  <2> QED
    BY <1>2, <2>2, <2>3
<1> QED
  BY <1>1, <1>2, StepKinds, QuietRefines, BegunRefines

\* The broker does what PubSub promises, for any connections, filters, messages
\* and buffer size: buffering, flags, turns and removals cannot be seen.
THEOREM BrokerImplementsPubSub == Spec => ImplementsPubSub
<1>1. Spec => []DeliveryInv
  BY DeliveryAlways
<1> QED
  BY <1>1, InitRefines, NextRefines, PTL DEF Spec, ImplementsPubSub, Promise!Spec
=============================================================================
