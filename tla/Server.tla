------------------------------- MODULE Server -------------------------------
(***************************************************************************)
(* The PicoMQTT broker: PicoMQTT::Server with its Server::Client           *)
(* connections (server.cpp, connection.cpp, publisher.cpp).                *)
(*                                                                         *)
(* The broker is one thread: the application calls Server::loop() again    *)
(* and again.  A pass accepts at most one new connection, waits for its    *)
(* CONNECT, and then gives every connection in the linked list `clients'   *)
(* one turn of at most MaxPackets packets.  A PUBLISH is forwarded while   *)
(* its payload is still being read from the publisher's socket, through    *)
(* one buffer, to the connections whose `subscribed' flag is set.  Peers   *)
(* connect, send and vanish between any two steps of the broker.           *)
(*                                                                         *)
(* Payload, header and buffer are counted in units (a unit stands for a    *)
(* run of bytes): unit 0 of a message is its header with the topic, units  *)
(* 1..size are its payload.                                                *)
(***************************************************************************)
EXTENDS Naturals, Sequences, FiniteSets, SequencesExt

CONSTANTS
    Conns,          \* connections a peer may open; each is used once
    Sockets,        \* number of listening sockets (ServerSocketMux; 1 without it)
    Local,          \* the application on the device, as a publisher
    Topics,         \* topics published to
    Filters,        \* topic filters peers ask for
    LongFilters,    \* those longer than PICOMQTT_MAX_TOPIC_SIZE
    ValidFilters,   \* those not too long that is_valid_topic_filter accepts
    Matches,        \* <<filter, topic>> pairs topic_matches accepts
    Packets,        \* packets a peer may send
    BufferSize,     \* PICOMQTT_OUTGOING_BUFFER_SIZE, in units
    MaxPackets,     \* packets handled per turn (10 in the code)
    MaxSubs,        \* PICOMQTT_MAX_SUBSCRIPTIONS_PER_PACKET
    MaxInbox,       \* bound: unread packets per connection
    MaxMsgs         \* bound: messages published in a behaviour

PacketTypes == {"CONNECT", "PUBLISH", "SUBSCRIBE", "UNSUBSCRIBE", "DISCONNECT",
                "PINGREQ", "PUBREC", "PUBREL", "PUBCOMP", "OTHER"}

ASSUME ConstantsAssumption ==
    /\ Local \notin Conns
    /\ Sockets \in Nat \ {0}
    /\ LongFilters \subseteq Filters
    /\ ValidFilters \subseteq Filters \ LongFilters
    /\ Matches \subseteq ValidFilters \X Topics
    /\ BufferSize \in Nat \ {0}
    /\ MaxPackets \in Nat \ {0}
    /\ MaxSubs \in Nat \ {0}
    /\ MaxInbox \in Nat /\ MaxMsgs \in Nat

\* What the handlers read from a packet, by type.  `accepted' is the outcome of
\* parsing a CONNECT and of Server::auth; `ok' says that flags and message id
\* are right; `bad' are the topics of a SUBSCRIBE that ask for a QoS above 2;
\* `fits' says that the topic is within PICOMQTT_MAX_TOPIC_SIZE; `ack' says that
\* the QoS and the message id call for an acknowledgement.
\*
\* `cut' says where the bytes of a SUBSCRIBE or UNSUBSCRIBE end although more were
\* announced, `filters' being the topics that are whole: where the length of
\* another topic should begin, or inside one that is too long ("length"); in the
\* text or the QoS of one that is not ("text").  A length of which one byte comes
\* is either case, as the number it makes with the missing byte is too long or not.
Cuts == {"no", "length", "text"}

ASSUME PacketsAssumption ==
    \A p \in Packets :
        /\ p.type \in PacketTypes
        /\ p.type = "CONNECT" => p.accepted \in BOOLEAN
        /\ p.type = "PUBLISH" => /\ p.topic \in Topics
                                 /\ p.size \in Nat
                                 /\ p.ack \in BOOLEAN
                                 /\ p.fits \in BOOLEAN
        /\ p.type = "SUBSCRIBE" => /\ p.filters \in Seq(Filters)
                                   /\ p.ok \in BOOLEAN
                                   /\ p.bad \subseteq DOMAIN p.filters
                                   /\ p.cut \in Cuts
        /\ p.type = "UNSUBSCRIBE" => /\ p.filters \in Seq(Filters)
                                     /\ p.ok \in BOOLEAN
                                     /\ p.cut \in Cuts

VARIABLES
    sock,        \* state of each connection's TCP socket
    backlog,     \* connections each listening socket has not handed over yet
    inbox,       \* packets that arrived on each connection and are unread
    clients,     \* Server::clients, most recent first
    subs,        \* filters in each Server::Client's subscription list
    granted,     \* filters the peer has seen acknowledged (SUBACK / UNSUBACK)
    subscribed,  \* the Server::Client::subscribed flags
    turn,        \* where Server::loop() is: "accept", "connect" or "serve", or
                 \* "stuck" in a handler that waits for bytes which never come
    fresh,       \* the connection whose Server::Client is being constructed
    at,          \* position in clients of the connection having its turn
    quota,       \* packets the connection having its turn may still submit
    pub,         \* the Publish being written, NoPub if there is none
    msgs,        \* every message published so far, with who should get it
    wire         \* PUBLISH units and acknowledgements sent on each connection

peerVars == <<sock, inbox>>
loopVars == <<turn, fresh, at, quota, clients>>
subVars  == <<subs, granted>>
pubVars  == <<subscribed, pub, msgs, wire>>
vars == <<sock, backlog, inbox, clients, subs, granted, subscribed, turn,
          fresh, at, quota, pub, msgs, wire>>

NoPub == [msg |-> 0, next |-> 0, buf |-> <<>>, ack |-> FALSE, lost |-> FALSE]

Unit == [kind : {"unit", "zero", "ack"}, msg : Nat, n : Nat]

TypeOK ==
    /\ sock \in [Conns -> {"idle", "backlog", "open", "gone", "closed"}]
    /\ backlog \in [1..Sockets -> Seq(Conns)]
    /\ inbox \in [Conns -> Seq(Packets)]
    /\ clients \in Seq(Conns)
    /\ subs \in [Conns -> SUBSET Filters]
    /\ granted \in [Conns -> SUBSET Filters]
    /\ subscribed \in [Conns -> BOOLEAN]
    /\ turn \in {"accept", "connect", "serve", "stuck"}
    /\ fresh \in Conns \cup {Local}
    /\ turn = "connect" => fresh \in Conns
    /\ at \in Nat \ {0}
    /\ quota \in 0..MaxPackets
    /\ msgs \in Seq([topic : Topics, size : Nat, src : Conns \cup {Local},
                     to : SUBSET Conns])
    /\ pub \in [msg : Nat, next : Nat, buf : Seq(Unit), ack : BOOLEAN,
                lost : BOOLEAN]
    /\ pub.msg <= Len(msgs)
    /\ wire \in [Conns -> Seq(Unit)]

Init ==
    /\ sock = [c \in Conns |-> "idle"]
    /\ backlog = [s \in 1..Sockets |-> <<>>]
    /\ inbox = [c \in Conns |-> <<>>]
    /\ clients = <<>>
    /\ subs = [c \in Conns |-> {}]
    /\ granted = [c \in Conns |-> {}]
    /\ subscribed = [c \in Conns |-> FALSE]
    /\ turn = "accept" /\ fresh = Local /\ at = 1 /\ quota = MaxPackets
    /\ pub = NoPub
    /\ msgs = <<>>
    /\ wire = [c \in Conns |-> <<>>]

-----------------------------------------------------------------------------
(* Peers and network.                                                      *)

\* The peer opens a TCP connection to a listening socket, which queues it.
PeerConnects(c, s) ==
    /\ sock[c] = "idle"
    /\ sock' = [sock EXCEPT ![c] = "backlog"]
    /\ backlog' = [backlog EXCEPT ![s] = Append(@, c)]
    /\ UNCHANGED <<inbox, loopVars, subVars, pubVars>>

QueuedPublishes ==
    {e \in Conns \X (1..MaxInbox) :
        e[2] <= Len(inbox[e[1]]) /\ inbox[e[1]][e[2]].type = "PUBLISH"}

\* Bound: a behaviour has at most MaxMsgs messages, sent or about to be.
MayPublish == Len(msgs) + Cardinality(QueuedPublishes) < MaxMsgs

CutOff(p) == p.type \in {"SUBSCRIBE", "UNSUBSCRIBE"} /\ p.cut # "no"

\* Nothing follows a packet whose rest does not come.
PeerSends(c, p) ==
    /\ sock[c] \in {"backlog", "open"}
    /\ Len(inbox[c]) < MaxInbox
    /\ \A i \in DOMAIN inbox[c] : ~CutOff(inbox[c][i])
    /\ p.type = "PUBLISH" => MayPublish
    /\ inbox' = [inbox EXCEPT ![c] = Append(@, p)]
    /\ UNCHANGED <<sock, backlog, loopVars, subVars, pubVars>>

\* The peer closes the connection or vanishes.  Packets that have arrived may
\* stay readable or be lost, and nothing written from now on reaches the peer.
\* An abort() after a failed write has the effect of the second alternative.
PeerLeaves(c) ==
    /\ sock[c] \in {"backlog", "open", "gone"}
    /\ sock' = [sock EXCEPT ![c] = "gone"]
    /\ \/ UNCHANGED inbox
       \/ inbox' = [inbox EXCEPT ![c] = <<>>]
    /\ UNCHANGED <<backlog, loopVars, subVars, pubVars>>

\* ::Client::connected(): unread data keeps a half-closed socket connected.
Connected(c) == sock[c] = "open" \/ (sock[c] = "gone" /\ inbox[c] # <<>>)

-----------------------------------------------------------------------------
(* Server::loop(): accepting, turns and removal.                           *)

Idle == pub.msg = 0      \* no message is being forwarded

Active == IF turn = "connect" THEN fresh ELSE clients[at]

InTurn == turn = "serve" /\ at <= Len(clients) /\ Idle

\* Mutant: only the first listening socket is asked.
Offering_First == {s \in {1} : backlog[s] # <<>>}

\* The listening sockets whose accept() returns a connection.
Offering == {s \in 1..Sockets : backlog[s] # <<>>}

NoClientWaiting ==
    /\ turn = "accept" /\ Idle /\ Offering = {}
    /\ turn' = "serve" /\ at' = 1 /\ quota' = MaxPackets
    /\ UNCHANGED <<peerVars, backlog, fresh, clients, subVars, pubVars>>

\* ServerSocketMux::accept_client asks the sockets in the order they were given in
\* and hands over one connection of the first that has any; the constructor of
\* Server::Client starts to wait for CONNECT.
AcceptClient ==
    /\ turn = "accept" /\ Idle
    /\ \E s \in Offering :
          /\ \A r \in Offering : s <= r
          /\ fresh' = Head(backlog[s])
          /\ backlog' = [backlog EXCEPT ![s] = Tail(@)]
    /\ sock' = IF sock[fresh'] = "backlog"
               THEN [sock EXCEPT ![fresh'] = "open"] ELSE sock
    /\ turn' = "connect"
    /\ UNCHANGED <<inbox, at, quota, clients, subVars, pubVars>>

\* The constructor has returned: the connection becomes the head of the list,
\* connected or not, and the turns begin.
AddClient ==
    /\ clients' = <<fresh>> \o clients
    /\ turn' = "serve" /\ at' = 1 /\ quota' = MaxPackets
    /\ fresh' = Local

\* Connection::on_timeout, on_protocol_violation and on_disconnect all end in
\* stop(): the socket is closed and its unread data is gone.
Stop(c) ==
    /\ sock' = [sock EXCEPT ![c] = "closed"]
    /\ inbox' = [inbox EXCEPT ![c] = <<>>]

\* Mutant: the wait for CONNECT has no timeout.
HandshakeGivesUp_NoTimeout ==
    /\ turn = "connect" /\ Idle /\ ~Connected(fresh)
    /\ AddClient
    /\ UNCHANGED <<peerVars, backlog, subVars, pubVars>>

\* wait_for_reply leaves its loop without a CONNECT: socket_timeout_millis have
\* passed (on_timeout closes the socket) or the connection is lost.
HandshakeGivesUp ==
    /\ turn = "connect" /\ Idle
    /\ IF Connected(fresh) THEN Stop(fresh) ELSE UNCHANGED peerVars
    /\ AddClient
    /\ UNCHANGED <<backlog, subVars, pubVars>>

\* Nothing was read for keep_alive_millis when the turn begins.
KeepAliveExpires ==
    /\ InTurn /\ quota = MaxPackets
    /\ Stop(Active)
    /\ quota' = 0
    /\ UNCHANGED <<backlog, turn, fresh, at, clients, subVars, pubVars>>

TurnOver == quota = 0 \/ inbox[Active] = <<>>

\* Mutant: only connections the broker stopped itself are unlinked.
EndTurn_KeepsLost ==
    /\ InTurn /\ TurnOver
    /\ quota' = MaxPackets
    /\ IF sock[Active] # "closed"
       THEN at' = at + 1 /\ UNCHANGED <<clients, subs>>
       ELSE /\ clients' = RemoveAt(clients, at)
            /\ subs' = [subs EXCEPT ![Active] = {}]
            /\ UNCHANGED at
    /\ UNCHANGED <<peerVars, backlog, turn, fresh, granted, pubVars>>

\* Next connection; one that is no longer connected is unlinked and deleted.
EndTurn ==
    /\ InTurn /\ TurnOver
    /\ quota' = MaxPackets
    /\ IF Connected(Active)
       THEN at' = at + 1 /\ UNCHANGED <<clients, subs>>
       ELSE /\ clients' = RemoveAt(clients, at)
            /\ subs' = [subs EXCEPT ![Active] = {}]
            /\ UNCHANGED at
    /\ UNCHANGED <<peerVars, backlog, turn, fresh, granted, pubVars>>

EndPass ==
    /\ turn = "serve" /\ at > Len(clients)
    /\ turn' = "accept" /\ at' = 1
    /\ UNCHANGED <<peerVars, backlog, fresh, quota, clients, subVars, pubVars>>

-----------------------------------------------------------------------------
(* Packets.  During the handshake wait_for_reply(CONNECT) hands every packet *)
(* that is not a CONNECT to the same handle_packet that the turns use.       *)

\* Mutant: no limit on the packets of one turn.
Arrived_NoLimit(types) ==
    /\ Idle
    /\ turn = "connect" \/ InTurn
    /\ inbox[Active] # <<>>
    /\ Head(inbox[Active]).type \in types

Arrived(types) ==
    /\ Idle
    /\ turn = "connect" \/ (InTurn /\ quota > 0)
    /\ inbox[Active] # <<>>
    /\ Head(inbox[Active]).type \in types

Packet == Head(inbox[Active])

Pop ==
    /\ inbox' = [inbox EXCEPT ![Active] = Tail(@)]
    /\ UNCHANGED sock

\* Mutant: the loop counter is not advanced.
Count_Forgotten == quota' = quota

\* One more packet of the turn's for loop; the handshake counts none.
Count == quota' = IF turn = "serve" THEN quota - 1 ELSE quota

\* The constructor's handler: CONNACK, and a stop unless it accepts.
HandleConnect ==
    /\ turn = "connect" /\ Arrived({"CONNECT"})
    /\ IF Packet.accepted THEN Pop ELSE Stop(fresh)
    /\ AddClient
    /\ UNCHANGED <<backlog, subVars, pubVars>>

\* DISCONNECT, and packets no client may send at this point: a second CONNECT
\* and whatever handle_packet has no case for.
HandleStop ==
    /\ Arrived({"DISCONNECT", "OTHER"}) \/ (turn = "serve" /\ Arrived({"CONNECT"}))
    /\ Stop(Active) /\ Count
    /\ UNCHANGED <<backlog, turn, fresh, at, clients, subVars, pubVars>>

\* PINGREQ, PUBREC and PUBREL are answered, PUBCOMP is not; a PUBLISH whose
\* topic is too long is dropped and acknowledged.
Answer ==
    /\ \/ Arrived({"PINGREQ", "PUBREC", "PUBREL", "PUBCOMP"})
       \/ Arrived({"PUBLISH"}) /\ ~Packet.fits
    /\ Pop /\ Count
    /\ UNCHANGED <<backlog, turn, fresh, at, clients, subVars, pubVars>>

\* Mutant: topics beyond the limit are reported as accepted.
Suback_NoLimit(p, i) == p.filters[i] \in ValidFilters

\* Return code of the i-th topic of a SUBSCRIBE: TRUE for success (0x00).
Suback(p, i) == i <= MaxSubs /\ p.filters[i] \in ValidFilters

\* read_u16() makes 65535 of a length that is not there, ignore() of so many bytes
\* takes none, and the loop over the topics begins again.  A topic that is skipped
\* (beyond the limit of a SUBSCRIBE) ends there too when it is cut.
WaitsForever(p) ==
    \/ p.cut = "length"
    \/ p.cut = "text" /\ p.type = "SUBSCRIBE" /\ Len(p.filters) >= MaxSubs

\* The topics whose QoS on_subscribe reads and finds above 2; it does not look at
\* that of a topic it skips.
Offending(p) == {i \in p.bad : i <= MaxSubs /\ p.filters[i] \notin LongFilters}

\* The topics on_subscribe gets through.
Handled(p) == {i \in DOMAIN p.filters : p.ok /\ \A j \in Offending(p) : i < j}

Accepted(p) == {p.filters[i] : i \in {j \in Handled(p) :
                                j <= MaxSubs /\ p.filters[j] \in ValidFilters}}

\* Server::Client::on_subscribe.  The topics before a bad QoS, or before one whose
\* text never arrives, are subscribed before the connection is dropped.  When the
\* length of a topic never arrives the handler does not return; otherwise a
\* SUBACK is sent.
Subscribe ==
    /\ Arrived({"SUBSCRIBE"})
    /\ LET c == Active
           p == Packet
           endless == p.ok /\ Offending(p) = {} /\ WaitsForever(p)
           dropped == ~p.ok \/ Offending(p) # {} \/ (p.cut = "text" /\ ~WaitsForever(p))
       IN  /\ subs' = [subs EXCEPT ![c] = @ \cup Accepted(p)]
           /\ \/ dropped /\ Stop(c) /\ UNCHANGED <<granted, turn>>
              \/ endless /\ turn' = "stuck" /\ UNCHANGED <<peerVars, granted>>
              \/ /\ ~dropped /\ ~endless
                 /\ Pop
                 /\ granted' = IF sock[c] # "open" THEN granted
                      ELSE [granted EXCEPT ![c] =
                               @ \cup {p.filters[i] : i \in {j \in Handled(p) : Suback(p, j)}}]
                 /\ UNCHANGED turn
    /\ Count
    /\ UNCHANGED <<backlog, fresh, at, clients, pubVars>>

\* Server::Client::on_unsubscribe and Subscriber::unsubscribe; when the topics are
\* cut off it ends without UNSUBACK, the connection lost, or not at all.
Unsubscribe ==
    /\ Arrived({"UNSUBSCRIBE"})
    /\ LET c == Active
           p == Packet
           endless == p.ok /\ WaitsForever(p)
           dropped == ~p.ok \/ p.cut = "text"
       IN  /\ subs' = IF p.ok THEN [subs EXCEPT ![c] = @ \ ToSet(p.filters)] ELSE subs
           /\ \/ dropped /\ Stop(c) /\ UNCHANGED <<granted, turn>>
              \/ endless /\ turn' = "stuck" /\ UNCHANGED <<peerVars, granted>>
              \/ /\ ~dropped /\ ~endless
                 /\ Pop
                 /\ granted' = [granted EXCEPT ![c] = @ \ ToSet(p.filters)]
                 /\ UNCHANGED turn
    /\ Count
    /\ UNCHANGED <<backlog, fresh, at, clients, pubVars>>

-----------------------------------------------------------------------------
(* Forwarding: Server::begin_publish, OutgoingPacket and PrintMux.          *)

\* get_subscription(topic) # nullptr
Subscribes(c, topic) == \E f \in subs[c] : <<f, topic>> \in Matches

\* Mutant: flags are set but never cleared.
SetSubscribed_KeepsOldFlags(topic) ==
    [c \in Conns |-> subscribed[c] \/ (c \in ToSet(clients) /\ Subscribes(c, topic))]

\* set_subscribed recomputes the flag of every connection in the list.
SetSubscribed(topic) ==
    [c \in Conns |-> IF c \in ToSet(clients) THEN Subscribes(c, topic)
                                             ELSE subscribed[c]]

\* begin_publish: flags are set, the Publish starts with an empty buffer.
BeginPublish(topic, size, src, ack) ==
    /\ subscribed' = SetSubscribed(topic)
    /\ msgs' = Append(msgs, [topic |-> topic, size |-> size, src |-> src,
                             to |-> {c \in ToSet(clients) : Subscribes(c, topic)}])
    /\ pub' = [NoPub EXCEPT !.msg = Len(msgs) + 1, !.ack = ack]
    /\ UNCHANGED wire

\* Mutant: the PUBLISH is acknowledged before it is forwarded.
HandlePublish_AcksFirst ==
    /\ Arrived({"PUBLISH"}) /\ Packet.fits
    /\ subscribed' = SetSubscribed(Packet.topic)
    /\ msgs' = Append(msgs, [topic |-> Packet.topic, size |-> Packet.size, src |-> Active,
            to |-> {c \in ToSet(clients) : Subscribes(c, Packet.topic)}])
    /\ pub' = [NoPub EXCEPT !.msg = Len(msgs) + 1]
    /\ wire' = IF Packet.ack
               THEN [wire EXCEPT ![Active] =
                       Append(@, [kind |-> "ack", msg |-> Len(msgs) + 1, n |-> 0])]
               ELSE wire
    /\ Pop /\ Count
    /\ UNCHANGED <<backlog, turn, fresh, at, clients, subVars>>

\* Server::Client::on_message begins to forward a PUBLISH.
HandlePublish ==
    /\ Arrived({"PUBLISH"}) /\ Packet.fits
    /\ BeginPublish(Packet.topic, Packet.size, Active, Packet.ack)
    /\ Pop /\ Count
    /\ UNCHANGED <<backlog, turn, fresh, at, clients, subVars>>

\* The application publishes: between two passes, or from on_disconnected.
AppPublish(topic, size) ==
    /\ Idle /\ MayPublish
    /\ turn = "accept" \/ (InTurn /\ TurnOver /\ ~Connected(Active))
    /\ BeginPublish(topic, size, Local, FALSE)
    /\ UNCHANGED <<backlog, peerVars, loopVars, subVars>>

Msg == msgs[pub.msg]

\* Mutant: writing ends at the first flagged connection that is lost.
PrintMux_StopsAtLost(units) ==
    [c \in Conns |->
        IF \E i \in DOMAIN clients :
               /\ clients[i] = c /\ subscribed[c]
               /\ \A j \in 1..i : subscribed[clients[j]] => sock[clients[j]] = "open"
        THEN wire[c] \o units ELSE wire[c]]

\* PrintMux::write reaches the flagged connections; a socket that is no longer
\* open swallows the bytes.
PrintMux(units) ==
    [c \in Conns |-> IF c \in ToSet(clients) /\ subscribed[c] /\ sock[c] = "open"
                     THEN wire[c] \o units ELSE wire[c]]

\* Mutant: the buffer is not emptied by a flush.
WriteUnit_KeepsBuffer ==
    /\ ~Idle /\ pub.next <= Msg.size
    /\ LET unit == [kind |-> IF pub.lost THEN "zero" ELSE "unit",
                    msg |-> pub.msg, n |-> pub.next]
           buf == Append(pub.buf, unit)
       IN  /\ pub' = [pub EXCEPT !.next = @ + 1, !.buf = buf]
           /\ wire' = IF Len(buf) >= BufferSize THEN PrintMux(buf) ELSE wire
    /\ UNCHANGED <<backlog, peerVars, loopVars, subVars, subscribed, msgs>>

\* Mutant: the payload of a lost publisher is not filled up.
WriteUnit_StopsWhenLost ==
    /\ ~Idle /\ pub.next <= Msg.size /\ ~pub.lost
    /\ LET unit == [kind |-> "unit", msg |-> pub.msg, n |-> pub.next]
           buf == Append(pub.buf, unit)
           full == Len(buf) >= BufferSize
       IN  /\ pub' = [pub EXCEPT !.next = @ + 1, !.buf = IF full THEN <<>> ELSE buf]
           /\ wire' = IF full THEN PrintMux(buf) ELSE wire
    /\ UNCHANGED <<backlog, peerVars, loopVars, subVars, subscribed, msgs>>

\* The next unit goes into the buffer, which is flushed when it is full.  Once
\* the publisher is lost send() fills up the payload.
WriteUnit ==
    /\ ~Idle /\ pub.next <= Msg.size
    /\ LET unit == [kind |-> IF pub.lost THEN "zero" ELSE "unit",
                    msg |-> pub.msg, n |-> pub.next]
           buf == Append(pub.buf, unit)
           full == Len(buf) >= BufferSize
       IN  /\ pub' = [pub EXCEPT !.next = @ + 1, !.buf = IF full THEN <<>> ELSE buf]
           /\ wire' = IF full THEN PrintMux(buf) ELSE wire
    /\ UNCHANGED <<backlog, peerVars, loopVars, subVars, subscribed, msgs>>

\* Mutant: a read that timed out leaves the connection open.
SourceLost_KeepsOpen ==
    /\ ~Idle /\ Msg.src \in Conns /\ ~pub.lost
    /\ pub.next \in 1..Msg.size
    /\ pub' = [pub EXCEPT !.lost = TRUE]
    /\ UNCHANGED <<backlog, peerVars, loopVars, subVars, subscribed, msgs, wire>>

\* A read of the payload times out or finds the publisher's connection lost.
SourceLost ==
    /\ ~Idle /\ Msg.src \in Conns /\ ~pub.lost
    /\ pub.next \in 1..Msg.size
    /\ Stop(Msg.src)
    /\ pub' = [pub EXCEPT !.lost = TRUE]
    /\ UNCHANGED <<backlog, loopVars, subVars, subscribed, msgs, wire>>

\* Mutant: the acknowledgement overtakes what is left in the buffer.
Send_AckOvertakes ==
    /\ ~Idle /\ pub.next = Msg.size + 1
    /\ LET s == Msg.src
           ack == [kind |-> "ack", msg |-> pub.msg, n |-> 0]
           rest == PrintMux(pub.buf)
       IN  wire' = IF pub.ack /\ s \in Conns /\ sock[s] = "open"
                   THEN [rest EXCEPT ![s] = wire[s] \o <<ack>> \o
                           SubSeq(@, Len(wire[s]) + 1, Len(@))] ELSE rest
    /\ pub' = NoPub
    /\ UNCHANGED <<backlog, peerVars, loopVars, subVars, subscribed, msgs>>

\* Mutant: what is left in the buffer is not flushed.
Send_DropsBuffer ==
    /\ ~Idle /\ pub.next = Msg.size + 1
    /\ LET s == Msg.src
           ack == [kind |-> "ack", msg |-> pub.msg, n |-> 0]
       IN  wire' = IF pub.ack /\ s \in Conns /\ sock[s] = "open"
                   THEN [wire EXCEPT ![s] = Append(@, ack)] ELSE wire
    /\ pub' = NoPub
    /\ UNCHANGED <<backlog, peerVars, loopVars, subVars, subscribed, msgs>>

\* send() flushes what is left in the buffer; on_message returns and
\* handle_packet acknowledges the PUBLISH.
Send ==
    /\ ~Idle /\ pub.next = Msg.size + 1
    /\ LET sent == PrintMux(pub.buf)
           s == Msg.src
           ack == [kind |-> "ack", msg |-> pub.msg, n |-> 0]
       IN  wire' = IF pub.ack /\ s \in Conns /\ sock[s] = "open"
                   THEN [sent EXCEPT ![s] = Append(@, ack)] ELSE sent
    /\ pub' = NoPub
    /\ UNCHANGED <<backlog, peerVars, loopVars, subVars, subscribed, msgs>>

-----------------------------------------------------------------------------
(* The specification.                                                      *)

Sizes == {p.size : p \in {q \in Packets : q.type = "PUBLISH"}}

PeerStep == \E c \in Conns :
    \/ PeerLeaves(c)
    \/ \E s \in 1..Sockets : PeerConnects(c, s)
    \/ \E p \in Packets : PeerSends(c, p)

ServerStep ==
    \/ NoClientWaiting \/ AcceptClient \/ EndTurn \/ EndPass
    \/ HandleConnect \/ HandleStop \/ Answer \/ Subscribe \/ Unsubscribe
    \/ HandlePublish \/ WriteUnit \/ Send

TimedStep == HandshakeGivesUp \/ KeepAliveExpires \/ SourceLost

AppStep == \E t \in Topics, n \in Sizes : AppPublish(t, n)

Next == PeerStep \/ ServerStep \/ TimedStep \/ AppStep

Spec == Init /\ [][Next]_vars

\* loop() is called again and again and none of its steps blocks for ever; the
\* wait for CONNECT ends whatever the peer sends, because every round of
\* wait_for_reply compares the time that passed with socket_timeout_millis.
Fairness == WF_vars(ServerStep) /\ SF_vars(HandshakeGivesUp)

FairSpec == Spec /\ Fairness

-----------------------------------------------------------------------------
(* Properties.                                                             *)

\* The first and the last unit of a packet; an acknowledgement is both.
IsFirst(u) == u.kind = "ack" \/ u.n = 0
IsLast(u) == u.kind = "ack" \/ u.n = msgs[u.msg].size

Follows(u, v) ==
    IF IsLast(u) THEN IsFirst(v)
    ELSE v.kind # "ack" /\ v.msg = u.msg /\ v.n = u.n + 1

Complete(c, m) ==
    \A n \in 0..msgs[m].size : \E i \in DOMAIN wire[c] :
        wire[c][i].kind # "ack" /\ wire[c][i].msg = m /\ wire[c][i].n = n

\* No byte of a message is written to a connection that had no matching
\* subscription when the message began, whichever flags earlier messages and
\* removed connections left behind (set_subscribed, PrintMux::write).
Routed ==
    \A c \in Conns : \A i \in DOMAIN wire[c] :
        wire[c][i].kind # "ack" => c \in msgs[wire[c][i].msg].to

\* What a connection is sent is a sequence of whole packets: units of one
\* message follow each other with nothing in between, and whenever the broker
\* is between packets every open stream is at a packet boundary.
WellFramed ==
    \A c \in Conns : wire[c] # <<>> =>
        /\ IsFirst(wire[c][1])
        /\ \A i \in 1..(Len(wire[c]) - 1) : Follows(wire[c][i], wire[c][i + 1])
        /\ Idle /\ sock[c] = "open" => IsLast(wire[c][Len(wire[c])])

\* A message that is no longer being forwarded has reached, whole, every
\* connection that should get it and is still open: a buffer that was not
\* flushed, a publisher lost halfway or another subscriber's failure loses
\* nothing.
EveryoneServed ==
    \A m \in DOMAIN msgs : m # pub.msg =>
        \A c \in msgs[m].to : sock[c] = "open" => Complete(c, m)

\* Messages reach a connection in the order they were published in, none twice.
InOrder ==
    \A c \in Conns : \A i, j \in DOMAIN wire[c] :
        i < j /\ wire[c][i].kind # "ack" /\ wire[c][j].kind # "ack" =>
            \/ wire[c][i].msg < wire[c][j].msg
            \/ wire[c][i].msg = wire[c][j].msg /\ wire[c][i].n < wire[c][j].n

\* PUBACK and PUBREC go to the publisher alone and only when the message has
\* been written to every subscriber that is still there.
AckedMeansForwarded ==
    \A c \in Conns : \A i \in DOMAIN wire[c] : wire[c][i].kind = "ack" =>
        LET m == wire[c][i].msg
        IN  msgs[m].src = c /\ \A d \in msgs[m].to : sock[d] = "open" => Complete(d, m)

\* Payload made up by send() is only ever seen when the publisher was cut off.
FilledOnlyWhenLost ==
    \A c \in Conns : \A i \in DOMAIN wire[c] : wire[c][i].kind = "zero" =>
        LET s == msgs[wire[c][i].msg].src IN s \in Conns /\ sock[s] = "closed"

\* A peer that is connected knows its subscriptions: those that SUBACKs granted
\* and UNSUBACKs did not end are the ones messages are matched against.  While a
\* SUBSCRIBE waits for bytes that never come no message is matched any more.
GrantedIsActive ==
    \A c \in Conns : sock[c] = "open" /\ turn # "stuck" => granted[c] = subs[c]

\* The broker is inside on_subscribe or on_unsubscribe of a packet whose bytes end
\* where a topic should begin.  The handler has no way out, not even when the peer
\* is gone; apart from it the broker serves its peers as the properties below say.
Stuck == turn = "stuck"

\* Every connection that arrives, on whichever listening socket, is handed over
\* in the end: no handshake holds the broker for ever and no socket is forgotten.
BacklogServed == \A c \in Conns : sock[c] = "backlog" ~> sock[c] # "backlog" \/ Stuck

\* However much other peers send, a connection in the list gets its turn again
\* and again (connection.cpp: at most 10 packets in one go).
TurnsKeepComing ==
    \A c \in Conns : []<>(c \in ToSet(clients) => (InTurn /\ Active = c) \/ Stuck)

\* A connection that is lost or was stopped leaves the list and is deleted.
DeadAreRemoved ==
    \A c \in Conns : (c \in ToSet(clients) /\ ~Connected(c))
                        ~> (c \notin ToSet(clients) \/ Stuck)

\* What Connection::loop() says its limit is for: no connection starves the others.
\* A SUBSCRIBE that is cut off does, for ever.
NoneStarved ==
    \A c \in Conns : []<>(c \in ToSet(clients) => InTurn /\ Active = c)

\* A message that has begun is forwarded to its end.
PublishCompletes == ~Idle ~> Idle

-----------------------------------------------------------------------------
(* What the broker implements: PubSub, in which a message is delivered to a  *)
(* connection in one step and nothing else is known of it.                   *)

Life(c) == CASE sock[c] \in {"idle", "backlog"} -> "new"
             [] sock[c] = "open" -> "open"
             [] OTHER -> "gone"

Lives == [c \in Conns |-> Life(c)]

\* Those of the connections in the list: a removed one is not asked.
FiltersHeld == [c \in Conns |-> IF c \in ToSet(clients) THEN subs[c] ELSE {}]

Published == [m \in DOMAIN msgs |-> [topic |-> msgs[m].topic, to |-> msgs[m].to]]

\* The messages each connection has whole.
Whole == [c \in Conns |-> {m \in DOMAIN msgs : Complete(c, m)}]

Promise == INSTANCE PubSub WITH
    life <- Lives, filters <- FiltersHeld, sent <- Published, busy <- ~Idle, got <- Whole

\* Seen through the messages each connection has whole, buffer, flags, turns and
\* removals are invisible: every step of the broker is a step of PubSub or none.
ImplementsPubSub == Promise!Spec
=============================================================================
