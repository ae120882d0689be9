------------------------------- MODULE Client -------------------------------
(***************************************************************************)
(* The MQTT client: PicoMQTT::Client on top of BasicClient and Connection   *)
(* (client.cpp, connection.cpp), against a broker reached over TCP.         *)
(*                                                                         *)
(* Every request of the client blocks: it writes a packet and then reads    *)
(* packets in wait_for_reply until the reply comes, the connection is lost  *)
(* or socket_timeout_millis have passed.  Messages that arrive meanwhile    *)
(* run the application's callbacks, which may call the client again, so     *)
(* `frames' is the stack of the calls in progress, innermost first.         *)
(*                                                                         *)
(* The broker is any MQTT broker: it answers each request once, in order,   *)
(* after any time; packets in flight are lost only with the connection.     *)
(***************************************************************************)
EXTENDS Naturals, Sequences, SequencesExt

CONSTANTS
    Filters,     \* topic filters the application uses
    Refused,     \* those for which the broker's SUBACK reports a failure
    NoFilter,    \* no filter
    Reentrant,   \* kinds of application: TRUE if callbacks call the client while it waits
    MaxId,       \* largest message id (65535 in the code)
    MaxPackets,  \* packets handled by one Connection::loop() (10 in the code)
    MaxDown,     \* bound: packets queued for the client when the broker sends a message
    MaxPublish,  \* bound: messages the application publishes
    MaxFaults,   \* bound: lost connections, refusals and timeouts
    MaxDepth     \* bound: nested calls

ASSUME ConstantsAssumption ==
    /\ Refused \subseteq Filters /\ NoFilter \notin Filters
    /\ Reentrant \subseteq BOOLEAN
    /\ MaxId \in Nat \ {0} /\ MaxPackets \in Nat \ {0}
    /\ MaxDown \in Nat \ {0} /\ MaxDepth \in Nat \ {0}
    /\ MaxPublish \in Nat /\ MaxFaults \in Nat

VARIABLES
    reentrant,      \* do callbacks call the client even while a reply is awaited?
    link,           \* the socket: "up", "lost" (by the peer) or "down"
    up,             \* packets on their way to the broker
    down,           \* packets on their way to the client
    session,        \* has the broker accepted CONNECT on this connection?
    brokerSubs,     \* the broker's subscriptions of this session
    subscriptions,  \* filters in the client's subscription list
    frames,         \* calls in progress, innermost first
    lastId,         \* MessageIdGenerator::value
    told,           \* the lifecycle callback that fired last
    published,      \* number of messages published by the application
    received,       \* messages the broker has received
    confirmed,      \* messages for which publish() with QoS 1 returned true
    violated,       \* did on_protocol_violation run?
    faults          \* faults so far

netVars == <<link, up, down>>
brokerVars == <<session, brokerSubs, received>>
appVars == <<subscriptions, told, published, confirmed>>
vars == <<reentrant, link, up, down, session, brokerSubs, subscriptions, frames,
          lastId, told, published, received, confirmed, violated, faults>>

\* What each call that blocks is waiting for.
Reply == [connect |-> "CONNACK", resub |-> "SUBACK", subscribe |-> "SUBACK",
          replace |-> "UNSUBACK", unsubscribe |-> "UNSUBACK",
          publish |-> "PUBACK", ping |-> "PINGRESP"]

\* A call: `arg' is its filter or message, `id' its message id, `rest' the
\* subscriptions that Client::loop() still has to renew, `left' the packets
\* Connection::loop() may still handle; `done' and `ok' say how a wait ended.
Call(op, arg, id) == [op |-> op, arg |-> arg, id |-> id, rest |-> <<>>,
                      left |-> MaxPackets, done |-> FALSE, ok |-> FALSE]

Calls == [op : DOMAIN Reply \cup {"enter", "loop", "callback"},
          arg : Filters \cup {NoFilter} \cup 1..MaxPublish, id : 0..MaxId,
          rest : Seq(Filters), left : 0..MaxPackets, done : BOOLEAN, ok : BOOLEAN]

Packets == [type : {"CONNECT", "SUBSCRIBE", "UNSUBSCRIBE", "PUBLISH", "PINGREQ",
                    "CONNACK", "SUBACK", "UNSUBACK", "PUBACK", "PINGRESP"},
            arg : Filters \cup {NoFilter} \cup 1..MaxPublish, id : 0..MaxId,
            ok : BOOLEAN]

\* Types.  Requests have an id that is not zero, even after the counter has wrapped.
TypeOK ==
    /\ reentrant \in Reentrant
    /\ link \in {"up", "lost", "down"}
    /\ up \in Seq(Packets) /\ down \in Seq(Packets)
    /\ \A i \in DOMAIN up : up[i].type \in {"SUBSCRIBE", "UNSUBSCRIBE"} => up[i].id # 0
    /\ session \in BOOLEAN /\ brokerSubs \subseteq Filters
    /\ subscriptions \in Seq(Filters)
    /\ frames \in Seq(Calls)
    /\ lastId \in 0..MaxId
    /\ told \in {"nothing", "connected", "disconnected"}
    /\ published \in 0..MaxPublish
    /\ received \subseteq 1..MaxPublish /\ confirmed \subseteq 1..MaxPublish
    /\ violated \in BOOLEAN /\ faults \in 0..MaxFaults

Init ==
    /\ reentrant \in Reentrant
    /\ link = "down" /\ up = <<>> /\ down = <<>>
    /\ session = FALSE /\ brokerSubs = {} /\ received = {}
    /\ subscriptions = <<>> /\ frames = <<>> /\ lastId = 0
    /\ told = "nothing" /\ published = 0 /\ confirmed = {}
    /\ violated = FALSE /\ faults = 0

Connected == link = "up" \/ (link = "lost" /\ down # <<>>)

Top == frames[1]

Below == Tail(frames)

-----------------------------------------------------------------------------
(* Connection: writing, waiting and closing.                                *)

\* client.stop(): packets not read yet are gone, and what the broker makes of
\* packets still on their way no longer concerns this session.
Stop == link' = "down" /\ up' = <<>> /\ down' = <<>>

OnDisconnect == Stop /\ told' = "disconnected"

\* Mutant: zero is not skipped when the ids start again.
NextId_NoSkip == (lastId + 1) % (MaxId + 1)

\* MessageIdGenerator::generate: a uint16_t counter that skips zero.
NextId == IF lastId = MaxId THEN 1 ELSE lastId + 1

\* OutgoingPacket::send() of a whole packet.  A socket that the peer has closed
\* swallows it, or the write fails and ClientWrapper::write aborts.
Write(packet) ==
    \/ link = "up" /\ up' = Append(up, packet) /\ UNCHANGED <<link, down>>
    \/ link # "up" /\ UNCHANGED netVars
    \/ link = "lost" /\ Stop

Request(type, arg, id) == [type |-> type, arg |-> arg, id |-> id, ok |-> TRUE]

\* Sends a request with a new message id; `call' becomes the innermost call.
Ask(type, op, arg, below) ==
    /\ lastId' = NextId
    /\ Write(Request(type, arg, NextId))
    /\ frames' = <<Call(op, arg, NextId)>> \o below

\* Mutant: any PUBACK confirms the message being published.
Matches_AnyPuback(reply) == Top.op \in {"connect", "ping", "publish"} \/ reply.id = Top.id

\* Is this the reply to the request of the innermost call?
Matches(reply) == Top.op \in {"connect", "ping"} \/ reply.id = Top.id

Waiting == frames # <<>> /\ Top.op \in DOMAIN Reply /\ ~Top.done

WaitOver(ok) == frames' = [frames EXCEPT ![1].done = TRUE, ![1].ok = ok]

Arriving == Connected /\ down # <<>>

\* wait_for_reply hands the reply to the call's handler.
GetReply ==
    /\ Waiting /\ Arriving /\ down[1].type = Reply[Top.op]
    /\ LET reply == down[1]
           matches == Matches(reply)
       IN  \/ /\ Top.op = "connect" /\ ~reply.ok
              /\ Stop /\ WaitOver(FALSE) /\ UNCHANGED <<told, violated>>
           \/ /\ Top.op \in {"resub", "subscribe", "replace", "unsubscribe"} /\ ~matches
              /\ OnDisconnect /\ violated' = TRUE /\ WaitOver(FALSE)
           \/ /\ Top.op \in {"connect", "publish"} => reply.ok
              /\ Top.op = "publish" \/ matches
              /\ down' = Tail(down) /\ WaitOver(matches)
              /\ UNCHANGED <<link, up, told, violated>>
    /\ UNCHANGED <<reentrant, brokerVars, subscriptions, published, confirmed, lastId, faults>>

\* Mutant: a wait that has timed out leaves the connection open.
Timeout_KeepsOpen ==
    /\ Waiting /\ Connected /\ faults < MaxFaults
    /\ WaitOver(FALSE) /\ faults' = faults + 1
    /\ UNCHANGED <<reentrant, netVars, brokerVars, appVars, lastId, violated>>

\* No reply within socket_timeout_millis: on_timeout.
Timeout ==
    /\ Waiting /\ Connected /\ faults < MaxFaults
    /\ OnDisconnect /\ WaitOver(FALSE) /\ faults' = faults + 1
    /\ UNCHANGED <<reentrant, brokerVars, subscriptions, published, confirmed, lastId, violated>>

\* The connection was lost before the reply came: wait_for_reply just returns.
WaitLost ==
    /\ Waiting /\ ~Connected
    /\ WaitOver(FALSE)
    /\ UNCHANGED <<reentrant, netVars, brokerVars, appVars, lastId, violated, faults>>

\* Callbacks may call the client: always, or only when nothing is awaited.
MayCallBack ==
    /\ Len(frames) < MaxDepth
    /\ reentrant \/ \A i \in DOMAIN frames : frames[i].op \notin DOMAIN Reply

\* handle_packet for a packet that no call is waiting for: a message fires its
\* callback, anything else here is a protocol violation.  `calls' are the
\* calls in progress once the packet has been taken.
HandlePacket(calls) ==
    \/ /\ down[1].type = "PUBLISH"
       /\ down' = Tail(down)
       /\ \/ frames' = calls
          \/ /\ MayCallBack /\ down[1].arg \in ToSet(subscriptions)
             /\ frames' = <<Call("callback", NoFilter, 0)>> \o calls
       /\ UNCHANGED <<link, up, told, violated>>
    \/ /\ down[1].type # "PUBLISH"
       /\ OnDisconnect /\ violated' = TRUE
       /\ frames' = calls

GetOther ==
    /\ Waiting /\ Arriving /\ down[1].type # Reply[Top.op]
    /\ HandlePacket(frames)
    /\ UNCHANGED <<reentrant, brokerVars, subscriptions, published, confirmed, lastId, faults>>

-----------------------------------------------------------------------------
(* Client::loop() and BasicClient::loop().                                  *)

\* Reconnecting is due, but no connection can be established.
ConnectFails ==
    /\ frames = <<>> /\ ~Connected /\ faults < MaxFaults
    /\ Stop /\ faults' = faults + 1
    /\ UNCHANGED <<reentrant, brokerVars, appVars, frames, lastId, violated>>

\* Mutant: a socket closed by the peer is not taken for disconnected.
Connect_OnlyIfDown ==
    /\ frames = <<>> /\ link = "down"
    /\ link' = "up" /\ down' = <<>>
    /\ up' = <<Request("CONNECT", NoFilter, 0)>>
    /\ session' = FALSE /\ brokerSubs' = {}
    /\ lastId' = 0
    /\ frames' = <<Call("connect", NoFilter, 0)>>
    /\ UNCHANGED <<reentrant, received, appVars, violated, faults>>

\* BasicClient::connect: a new connection, CONNECT with a clean session.
Connect ==
    /\ frames = <<>> /\ ~Connected
    /\ link' = "up" /\ down' = <<>>
    /\ up' = <<Request("CONNECT", NoFilter, 0)>>
    /\ session' = FALSE /\ brokerSubs' = {}
    /\ lastId' = 0
    /\ frames' = <<Call("connect", NoFilter, 0)>>
    /\ UNCHANGED <<reentrant, received, appVars, violated, faults>>

\* Mutant: the last entry of the subscription list is not renewed.
Renew_SkipsLast(rest, below) ==
    IF Len(rest) <= 1
    THEN /\ told' = "connected"
         /\ frames' = <<Call("callback", NoFilter, 0), Call("enter", NoFilter, 0)>> \o below
         /\ UNCHANGED <<netVars, lastId>>
    ELSE /\ lastId' = NextId
         /\ Write(Request("SUBSCRIBE", rest[1], NextId))
         /\ frames' = <<[Call("resub", rest[1], NextId) EXCEPT !.rest = Tail(rest)]>> \o below
         /\ UNCHANGED told

\* Subscriptions are renewed one by one, whatever became of the one before;
\* then on_connect fires the callback and the loop goes on.
Renew(rest, below) ==
    IF rest = <<>>
    THEN /\ told' = "connected"
         /\ frames' = <<Call("callback", NoFilter, 0), Call("enter", NoFilter, 0)>> \o below
         /\ UNCHANGED <<netVars, lastId>>
    ELSE /\ lastId' = NextId
         /\ Write(Request("SUBSCRIBE", rest[1], NextId))
         /\ frames' = <<[Call("resub", rest[1], NextId) EXCEPT !.rest = Tail(rest)]>> \o below
         /\ UNCHANGED told

\* connect() returns client.connected(); if it is false loop() returns.
ConnectReturns ==
    /\ frames # <<>> /\ Top.op = "connect" /\ Top.done
    /\ IF Connected THEN Renew(subscriptions, Below)
       ELSE frames' = Below /\ UNCHANGED <<netVars, told, lastId>>
    /\ UNCHANGED <<reentrant, brokerVars, subscriptions, published, confirmed, violated, faults>>

ResubReturns ==
    /\ frames # <<>> /\ Top.op = "resub" /\ Top.done
    /\ Renew(Top.rest, Below)
    /\ UNCHANGED <<reentrant, brokerVars, subscriptions, published, confirmed, violated, faults>>

EnterLoop ==
    /\ frames = <<>> /\ Connected
    /\ frames' = <<Call("enter", NoFilter, 0)>>
    /\ UNCHANGED <<reentrant, netVars, brokerVars, appVars, lastId, violated, faults>>

\* Nothing was written for keep_alive_millis: BasicClient::loop() pings first.
Ping ==
    /\ frames # <<>> /\ Top.op = "enter" /\ Connected
    /\ Write(Request("PINGREQ", NoFilter, 0))
    /\ frames' = <<Call("ping", NoFilter, 0)>> \o Below
    /\ UNCHANGED <<reentrant, brokerVars, appVars, lastId, violated, faults>>

StartReading ==
    /\ frames # <<>>
    /\ Top.op = "enter" \/ (Top.op = "ping" /\ Top.done)
    /\ frames' = <<Call("loop", NoFilter, 0)>> \o Below
    /\ UNCHANGED <<reentrant, netVars, brokerVars, appVars, lastId, violated, faults>>

\* Mutant: the packets of one loop() are not counted.
ReadPacket_NoLimit ==
    /\ frames # <<>> /\ Top.op = "loop" /\ down # <<>>
    /\ HandlePacket(frames)
    /\ UNCHANGED <<reentrant, brokerVars, subscriptions, published, confirmed, lastId, faults>>

\* Connection::loop().
ReadPacket ==
    /\ frames # <<>> /\ Top.op = "loop" /\ Top.left > 0 /\ down # <<>>
    /\ HandlePacket([frames EXCEPT ![1].left = @ - 1])
    /\ UNCHANGED <<reentrant, brokerVars, subscriptions, published, confirmed, lastId, faults>>

LoopReturns ==
    /\ frames # <<>> /\ Top.op = "loop" /\ (Top.left = 0 \/ down = <<>>)
    /\ frames' = Below
    /\ UNCHANGED <<reentrant, netVars, brokerVars, appVars, lastId, violated, faults>>

-----------------------------------------------------------------------------
(* Calls of the application, between two calls of loop() or in a callback.  *)

MayCall ==
    IF frames = <<>> THEN TRUE ELSE Top.op = "callback" /\ Len(frames) < MaxDepth

\* Client::subscribe of a filter that is not in the list yet.
Subscribe(f) ==
    /\ MayCall /\ f \notin ToSet(subscriptions)
    /\ subscriptions' = <<f>> \o subscriptions
    /\ Ask("SUBSCRIBE", "subscribe", f, frames)
    /\ UNCHANGED <<reentrant, brokerVars, told, published, confirmed, violated, faults>>

\* Otherwise the virtual unsubscribe(topic_filter) comes first, with an
\* UNSUBSCRIBE to the broker,
Replace(f) ==
    /\ MayCall
    /\ \E i \in DOMAIN subscriptions :
          /\ subscriptions[i] = f /\ \A j \in 1..(i - 1) : subscriptions[j] # f
          /\ subscriptions' = RemoveAt(subscriptions, i)
    /\ Ask("UNSUBSCRIBE", "replace", f, frames)
    /\ UNCHANGED <<reentrant, brokerVars, told, published, confirmed, violated, faults>>

\* and when it returns the new subscription is made, also if a callback has
\* subscribed to the filter meanwhile: then the list has it twice.
ReplaceReturns ==
    /\ frames # <<>> /\ Top.op = "replace" /\ Top.done
    /\ subscriptions' = <<Top.arg>> \o subscriptions
    /\ Ask("SUBSCRIBE", "subscribe", Top.arg, Below)
    /\ UNCHANGED <<reentrant, brokerVars, told, published, confirmed, violated, faults>>

\* Client::unsubscribe, by filter or by id; without a subscription it does nothing.
Unsubscribe(f) ==
    /\ MayCall
    /\ \E i \in DOMAIN subscriptions :
          subscriptions[i] = f /\ subscriptions' = RemoveAt(subscriptions, i)
    /\ Ask("UNSUBSCRIBE", "unsubscribe", f, frames)
    /\ UNCHANGED <<reentrant, brokerVars, told, published, confirmed, violated, faults>>

\* publish() with QoS 0 writes the message and returns; when the client is not
\* connected it goes to dummy_print.  Ids are generated for it as well.
PublishQos0 ==
    /\ MayCall /\ published < MaxPublish
    /\ published' = published + 1
    /\ lastId' = NextId
    /\ IF Connected THEN Write(Request("PUBLISH", published + 1, 0))
       ELSE UNCHANGED netVars
    /\ UNCHANGED <<reentrant, brokerVars, subscriptions, frames, told, confirmed, violated, faults>>

\* publish() with QoS 1 waits for PUBACK.
PublishQos1 ==
    /\ MayCall /\ published < MaxPublish
    /\ published' = published + 1
    /\ Ask("PUBLISH", "publish", published + 1, frames)
    /\ UNCHANGED <<reentrant, brokerVars, subscriptions, told, confirmed, violated, faults>>

\* Mutant: publish() returns true unless the client is disconnected.
PublishReturns_IfConnected ==
    /\ frames # <<>> /\ Top.op = "publish" /\ Top.done
    /\ confirmed' = IF Top.ok \/ link = "down" THEN confirmed \cup {Top.arg} ELSE confirmed
    /\ frames' = Below
    /\ UNCHANGED <<reentrant, netVars, brokerVars, subscriptions, told, published, lastId,
                   violated, faults>>

\* on_publish_complete returns whether the PUBACK was for this message.
PublishReturns ==
    /\ frames # <<>> /\ Top.op = "publish" /\ Top.done
    /\ confirmed' = IF Top.ok THEN confirmed \cup {Top.arg} ELSE confirmed
    /\ frames' = Below
    /\ UNCHANGED <<reentrant, netVars, brokerVars, subscriptions, told, published, lastId,
                   violated, faults>>

CallReturns ==
    /\ frames # <<>> /\ Top.op \in {"subscribe", "unsubscribe"} /\ Top.done
    /\ frames' = Below
    /\ UNCHANGED <<reentrant, netVars, brokerVars, appVars, lastId, violated, faults>>

\* disconnect(): DISCONNECT and stop(); on_disconnect is not called.
Disconnect ==
    /\ MayCall /\ link # "down"
    /\ Stop
    /\ UNCHANGED <<reentrant, brokerVars, appVars, frames, lastId, violated, faults>>

CallbackReturns ==
    /\ frames # <<>> /\ Top.op = "callback"
    /\ frames' = Below
    /\ UNCHANGED <<reentrant, netVars, brokerVars, appVars, lastId, violated, faults>>

-----------------------------------------------------------------------------
(* The broker and the network.                                             *)

Respond(type, ok) ==
    down' = Append(down, [type |-> type, arg |-> NoFilter, id |-> up[1].id, ok |-> ok])

\* The broker takes the next packet of an open connection.
BrokerReceives ==
    /\ link = "up" /\ up # <<>>
    /\ up' = Tail(up)
    /\ \/ /\ up[1].type = "CONNECT"
          /\ session' = TRUE /\ Respond("CONNACK", TRUE)
          /\ UNCHANGED <<brokerSubs, received>>
       \/ /\ up[1].type = "SUBSCRIBE"
          /\ brokerSubs' = brokerSubs \cup ({up[1].arg} \ Refused)
          /\ Respond("SUBACK", up[1].arg \notin Refused)
          /\ UNCHANGED <<session, received>>
       \/ /\ up[1].type = "UNSUBSCRIBE"
          /\ brokerSubs' = brokerSubs \ {up[1].arg}
          /\ Respond("UNSUBACK", TRUE)
          /\ UNCHANGED <<session, received>>
       \/ /\ up[1].type = "PUBLISH"
          /\ received' = received \cup {up[1].arg}
          /\ IF up[1].id = 0 THEN UNCHANGED down ELSE Respond("PUBACK", TRUE)
          /\ UNCHANGED <<session, brokerSubs>>
       \/ /\ up[1].type = "PINGREQ"
          /\ Respond("PINGRESP", TRUE)
          /\ UNCHANGED brokerVars
    /\ UNCHANGED <<reentrant, link, appVars, frames, lastId, violated, faults>>

\* CONNECT is refused: a CONNACK that says so, and the broker hangs up.
BrokerRefuses ==
    /\ link = "up" /\ up # <<>> /\ up[1].type = "CONNECT" /\ faults < MaxFaults
    /\ link' = "lost" /\ up' = <<>> /\ Respond("CONNACK", FALSE)
    /\ faults' = faults + 1
    /\ UNCHANGED <<reentrant, brokerVars, appVars, frames, lastId, violated>>

BrokerPublishes ==
    /\ link = "up" /\ session /\ Len(down) < MaxDown
    /\ \E f \in brokerSubs :
          down' = Append(down, [type |-> "PUBLISH", arg |-> f, id |-> 0, ok |-> TRUE])
    /\ UNCHANGED <<reentrant, link, up, brokerVars, appVars, frames, lastId, violated, faults>>

\* The peer closes the connection or it breaks; packets that had arrived can
\* still be read, or are lost as well.
LinkLost ==
    /\ link = "up" /\ faults < MaxFaults
    /\ link' = "lost" /\ up' = <<>> /\ faults' = faults + 1
    /\ down' \in {down, <<>>}
    /\ UNCHANGED <<reentrant, brokerVars, appVars, frames, lastId, violated>>

-----------------------------------------------------------------------------
(* The specification.                                                      *)

ReadStep == GetReply \/ GetOther \/ ReadPacket

ReturnStep ==
    \/ WaitLost \/ ConnectReturns \/ ResubReturns \/ StartReading \/ LoopReturns
    \/ ReplaceReturns \/ PublishReturns \/ CallReturns

LoopStep == Connect \/ EnterLoop

AppStep ==
    \/ PublishQos0 \/ PublishQos1 \/ Disconnect \/ CallbackReturns
    \/ \E f \in Filters : Subscribe(f) \/ Replace(f) \/ Unsubscribe(f)

BrokerStep == BrokerReceives \/ BrokerPublishes

FaultStep == Timeout \/ ConnectFails \/ BrokerRefuses \/ LinkLost

Next == ReadStep \/ ReturnStep \/ LoopStep \/ Ping \/ AppStep \/ BrokerStep \/ FaultStep

Spec == Init /\ [][Next]_vars

\* The program reads and returns without waiting for anything else, the broker
\* answers, callbacks return, and the application calls loop() again and again
\* (it may make other calls in between, so this fairness is strong).
Fairness ==
    /\ WF_vars(ReadStep) /\ WF_vars(ReturnStep) /\ WF_vars(BrokerReceives)
    /\ SF_vars(CallbackReturns) /\ SF_vars(LoopStep)

FairSpec == Spec /\ Fairness

-----------------------------------------------------------------------------
(* Properties.                                                             *)

Replies == {"CONNACK", "SUBACK", "UNSUBACK", "PUBACK", "PINGRESP"}

\* No reply outlives its call: between calls nothing is on its way, in either
\* direction, that answers or will be answered; so a later call cannot take an
\* old reply for its own, and loop() finds nothing but messages.
NoStaleReply ==
    ~reentrant /\ frames = <<>> /\ link # "down" =>
        /\ \A i \in DOMAIN down : down[i].type \notin Replies
        /\ \A i \in DOMAIN up : up[i].type = "PUBLISH" /\ up[i].id = 0

\* README.md:66 "Re-subscribing to topics is never required": between calls a
\* client with a working connection has at the broker exactly the
\* subscriptions of its list that the broker grants.
InSync ==
    ~reentrant /\ frames = <<>> /\ link = "up" =>
        session /\ brokerSubs = ToSet(subscriptions) \ Refused

\* publish() with QoS 1 returns true only for messages the broker has, even when
\* callbacks publish and subscribe inside its wait and take each other's replies.
ConfirmedAreReceived == confirmed \subseteq received

\* A client whose callbacks keep away from the client while it is waiting never
\* accuses a correct broker of a protocol violation.
NoViolation == reentrant \/ ~violated

\* README.md:166 "New subscriptions can be added at any point": the client never
\* accuses a correct broker, whenever its callbacks subscribe.
NeverAccuses == ~violated

\* connected_callback fires.
OnConnect ==
    /\ frames # <<>> /\ Top.op \in {"connect", "resub"} /\ Top.done
    /\ Len(frames') > Len(frames)

\* README.md:218 "fire callbacks after connecting and disconnecting": between
\* two calls of connected_callback the client was told of the disconnection.
DisconnectsAreTold == [][OnConnect => told # "connected"]_vars

\* When no more faults happen the client gets a session again, and again after
\* each disconnect() of the application.
Recovers == []<>(link = "up" /\ session)

\* loop() and every other call comes back, however many messages the broker
\* keeps sending.
CallsReturn == []<>(frames = <<>>)
=============================================================================
