# PicoMQTT in TLA+

Models, model checks and proofs for PicoMQTT, an MQTT 3.1.1 broker and client
for microcontrollers. Paths are relative to the repository; `server.cpp` and
the other bare names are in `src/PicoMQTT/`.

## 1. The system

PicoMQTT is single-threaded. The application calls `loop()` of a broker or a
client again and again; everything else happens inside that call: sockets are
polled, packets are read and handled, callbacks of the application run. What
makes it hard is that the peers are not in that thread: they connect, send,
stall and vanish between any two steps, many steps block with a timeout, and
callbacks call back into the library in the middle of other work.

| component | state | operations | interacts with |
|---|---|---|---|
| `Server` (server.cpp) | linked list of connections, each with a `subscribed` flag; one `PrintMux` | `loop`, `begin_publish`, `set_subscribed` | accepts sockets, gives connections turns, writes messages to the flagged ones |
| `Server::Client` (server.cpp) | client id, keep-alive, subscription list | constructor (handshake), `on_subscribe`, `on_unsubscribe`, `on_message`, `handle_packet`, `loop` | forwards a PUBLISH through the `Server` while it is still reading it |
| `Server::IncomingPublish` | position in the packet | `read`, destructor | copies what a callback reads into the outgoing `Publish`, the destructor the rest |
| `Connection` (connection.cpp) | times of the last read and write, next message id | `wait_for_reply`, `handle_packet`, `loop`, `disconnect`, `on_timeout`, `on_protocol_violation`, `on_disconnect` | base of both sides |
| `ClientWrapper` (client_wrapper.cpp) | the socket, its timeout | `read`, `write`, `abort` | turns short reads and writes into a closed socket |
| `BasicClient`, `Client` (client.cpp) | host, credentials, will, last reconnect attempt, callbacks | `connect`, `loop`, `subscribe`, `unsubscribe`, `begin_publish`, `on_publish_complete` | every request waits for its reply and handles other packets meanwhile |
| `Subscriber`, `SubscribedMessageListener` (subscriber.cpp) | linked list of filters, newest first, with callbacks | `subscribe`, `unsubscribe` by filter or id, `get_subscription`, `fire_message_callbacks`; `topic_matches`, `is_valid_topic_filter`, `get_topic_element` | used by `Server`, `Server::Client` and `Client` |
| `OutgoingPacket`, `Publisher::Publish` | buffer, position in the packet | `write*`, `write_from_client`, `flush`, `send` | buffer for `PrintMux` or a socket |
| `IncomingPacket` | position in the packet | `read_header`, `read*`, `ignore`, destructor (skips what is left) | reads the socket through `ClientWrapper` |
| `ServerLocalSubscribe`, `BufferClient` | - | `publish`, `publish_P` | local delivery after sending |
| `ServerSocketMux`, socket templates (server.h) | listening sockets | `accept_client` | asked by `Server::loop` |

### What is hard, and what makes each component correct

* **Broker, forwarding.** One buffer and one set of flags serve every message.
  A subscriber may fail between two flushes, the publisher may stop in the
  middle of the payload after its length was sent on, and the publisher's
  acknowledgement goes to the same socket as the payload it subscribes to.
  Correct: messages go exactly to the connections that had a matching
  subscription, whole and in order; every stream stays a sequence of whole
  packets; an acknowledgement comes last.
* **Broker, scheduling.** The handshake of one connection blocks all others; a
  peer that never stops sending must not keep its turn; connections are
  unlinked while the list is traversed. Correct: waiting connections are
  accepted, everybody gets turns, the dead are removed.
* **Broker, subscriptions.** A SUBSCRIBE is processed topic by topic and may
  fail in the middle; its answer is computed by a second loop with its own
  limit. Correct: what the peer was told is what the broker matches against.
* **Client.** Requests block, callbacks run while they block, and callbacks may
  issue requests. Connections are lost at any step. Correct: a reply is never
  taken for another request's, `publish` confirms only what the broker has, the
  broker's subscriptions agree with the list, the client reconnects.
* **Topic filters.** Two character scanners. Correct: they agree with the
  definition of filters and matching on topic levels.
* **Framing.** Nothing marks the start of a packet but the end of the one before,
  and its bytes are taken by many readers: the handler, a callback, the
  destructors, a nested wait. Some reads abort the connection when they fail,
  some do not. Correct: together they take exactly the packet, or the connection
  is closed, and handling ends.
* **Subscription nodes.** Nodes live on the heap and their addresses are ids. Two
  loops hold a pointer into the list while callbacks change it, and replacing
  a subscription waits for the broker between deletion and insertion. Correct:
  nothing held is freed unless a callback named that very filter, and renewing
  misses nothing.
* **Timers.** Two programs watch each other with clocks that wrap, a keep-alive cut
  to whole seconds and a test of the clock before the data is looked at. Correct:
  the living are kept, the silent noticed within a bound.

`PROJECT.json` lists these hazards with their lines and the properties that
cover them.

## 2. The modules

| module | models | properties checked |
|---|---|---|
| `PubSub` | what a broker promises; the abstract specification | `Delivered`, `OnlySubscribers` (proved) |
| `Server` | `Server`, `Server::Client`, the parts of `Connection`, `OutgoingPacket` and `ClientWrapper` it uses; implements `PubSub` | 14 |
| `ServerCallbacks` | the broker with message callbacks that publish | `EveryoneServed` |
| `Client` | `Client`, `BasicClient`, `Connection`, against any broker | 9 |
| `TopicFilter` | the scanners of `Subscriber` | 3 |
| `Framing` | `IncomingPacket`, `ClientWrapper`, `BufferClient`, `IncomingPublish`, and the reading parts of `Connection` and of `Server::Client` (`on_subscribe`, `on_unsubscribe`) | 4 |
| `Subscriptions` | `Subscriber`, `SubscribedMessageListener`, `Client`'s changes to the list and its renewal | 3 |
| `Receiver` | composes `Framing` and `Subscriptions` | as these, and `TypeOK` |
| `KeepAlive` | keep-alive on both sides, `millis()`, `wait_for_reply`'s timeout and deadline | 5 |
| `Outgoing` | `OutgoingPacket`, buffered and unbuffered, and `ClientWrapper::write` | 4 |
| `Server_proofs`, `PubSub_proofs`, `Receiver_proofs`, `Outgoing_proofs`, `Client_proofs`, `KeepAlive_proofs`, `TopicFilter_proofs`, `SequenceLemmas` | theorems | section 4 |
| `MCServer`, `MCServerCallbacks`, `MCClient`, `MCReceiver` | instances for TLC | |

### Server

The variables and the code:

* `sock`, `inbox`, `backlog`: the TCP sockets, the packets that have arrived on
  them, and the connections the listening socket has not handed over. Peers move
  them with `PeerConnects`, `PeerSends` and `PeerLeaves` between any two steps.
* `clients`, `subs`, `subscribed`: `Server::clients`, each `Server::Client`'s
  subscription list and its `subscribed` flag. `granted` is what the peer was told.
* `turn`, `fresh`, `at`, `quota`: the position in `Server::loop()`: accepting, in
  the constructor of `Server::Client`, at the `at`-th connection of the list with
  `quota` packets left of the ten of `Connection::loop()`, or `"stuck"` in a handler.
* `pub`: the `Publish` being written: message, next unit, buffer, whether it is to be
  acknowledged, whether its publisher was lost. `msgs` and `wire` record what was
  published, for whom, and what each socket was sent.

Handlers are single actions with everything they do: `HandleConnect`
(CONNACK, stop on refusal, then the connection joins the list), `Subscribe`,
`Unsubscribe`, `Answer`, `HandleStop`, `EndTurn` (next connection, or unlink and
delete). Only forwarding is split: `HandlePublish` or `AppPublish`, then one
`WriteUnit` for the header and for each unit of payload, `SourceLost` when a
read fails, and `Send`. Between these steps peers act, no other handler does:
the code is one thread. Payload is counted in units because only the
boundaries matter: header, a flush in the middle, the end.

`Sockets` listening sockets share the backlog; `Offering` is the fixed order in which
`ServerSocketMux::accept_client` asks them.

The payload of a PUBLISH may fail to arrive, and so may the end of a SUBSCRIBE or an
UNSUBSCRIBE; all other packets are whole when their handlers read them. `cut` says where
such a request ends. In the text of a topic the handler returns without an answer and the
connection is closed. Where the length of a topic should be, `read_u16` makes
65535 of nothing, `ignore(65535)` takes nothing, and the loop over the topics
(server.cpp:274, :335) begins again, also after the socket is closed: `turn` becomes
`"stuck"` and no action of the broker is possible any more. `WaitsForever` is this case
and that of a topic beyond the limit, which is skipped in the same way. No packet follows one
that is cut off: bytes that come later are no packet of their own but the rest of this one.
`bad` are topics that ask for a QoS above 2; that of a topic that is skipped
(`LongFilters`, or beyond the limit) is not looked at (`Offending`). What `wire` records are PUBLISH units and their
acknowledgements; the replies that are written in one piece inside one handler
(CONNACK, SUBACK, PINGRESP) are left out. An application publishes between two
passes and from `on_disconnected`; `on_connected` is the same state as between
passes for everything that is published. The other virtual functions an application may
override (`on_subscribe`, `on_unsubscribe`, `auth`) are taken to return and to change nothing
here.

`BacklogServed`, `TurnsKeepComing` and `DeadAreRemoved` hold except when the broker is
`Stuck`; `server_cut` checks `NoneStarved`, without this exception, and it is violated.

### PubSub, and how Server implements it

`PubSub` has connections that come and go, sets of filters, messages with the
connections they are for, and what each has received whole. Subscriptions change
between messages, never during one; a message ends when everyone it is for has
it or is gone. There are no buffers, flags, turns or packets. `Server!Promise`
maps: `life` to `Lives` (in the backlog, open, or closed by either side),
`filters` to `FiltersHeld`, `sent` to `Published`, `busy` to a message being in
progress, `got` to the messages whose header and units are all in the
connection's wire. `ImplementsPubSub` is a property of `server_forward`, and a
theorem.

### ServerCallbacks

`fire_message_callbacks` runs after the header of the message was written and
while part of its payload may still be in the buffer. `CallbackPublish` is a
`publish()` in a callback that was given the whole payload: it recomputes the
flags, runs to its end, and leaves the outer message to the new flags.

### Client

`frames` is the stack of calls in progress. A call that waits stands for
`wait_for_reply`; `GetReply`, `GetOther`, `Timeout` and `WaitLost` are the
outcomes of one round of its loop; the `*Returns` actions are what the caller does
next. `HandlePacket` starts a callback by pushing a frame, and the
application's calls are possible when the stack is empty or a callback is on
top. `Renew` is the loop of `Client::loop()` over the subscriptions. The list
it walks is the one it found at the start. `up` and `down` are the packets in
flight, `session` and `brokerSubs` the broker's side; the broker answers
everything, in order, after any time, or refuses CONNECT.

With `FALSE` in `Reentrant` there are behaviours in which callbacks call the
client only when nothing is awaited, with `TRUE` those in which they always may.
`InSync` and `NoViolation` are claimed for the first kind, the others for both.
Messages may be published for any subscription the broker has. `faults` counts
lost connections, refusals and timeouts.

### TopicFilter

The scanners, against `WellFormed` and `MQTTMatches`, which split strings into levels
first. A pointer into a string is a position; each loop is a recursive function of
the positions of its pointers, whose value is what the loop returns when it has come
there (`TopicMatches`, `SkipElements`), or of the number of characters read, whose value is
the state (`FilterState`). The state of the model is a filter and a topic that grow character
by character.

### Framing

`stream` is the sequence of packets a peer sends, `taken` the number of its bytes
that were read, `frames` the stack of `IncomingPacket`s that exist, each with the
phase of the code that reads it next. One action is one read or one callback.
Bytes are counted; values matter in headers only, which `LengthDigits` writes and
`DecodedSize` reads, in fixed width. A read takes fewer bytes than it asks for
whenever time runs out or the connection fails. `TakeBlock` then closes the
connection, `TakeBytes` (single bytes) does not, and that difference is why
`link` may become `"astray"`: alive, with the next byte inside a packet. From there
on the bytes are not followed. A block that `available_wait` cuts short is one
failing read. An `IncomingPublish` and the packet it was moved from are one
frame, in which `moved` is what the packet left behind would still read. `Skip`, the
destructor, reads to the end of the packet or until the connection fails; of a packet in
memory it takes all, and nothing from the connection. `SizeAssumption` says that every packet's
length fits into the decoder's integer.

The requests a broker takes are read topic by topic: `ReadRequest` the id, `NextTopic` a
length, `ReadFilter` and `ReadQos`, or `PassOver` for a topic that is too long or one too many,
`TopicsEnd` when nothing is left. `payload` is what all topics of the request have together,
and `TopicsInPlace` says that every length is read where one is. The loop ends when everything
is read, and not because a read failed; where a length is missing nothing is read at all.
`HandlersReturn` exempts this loop when a byte is missing (`Starving`), as `Stuck` is exempted in
`Server`, and nothing else. A reply whose id is cut off closes the connection if it is a SUBACK or
UNSUBACK; a PUBACK leaves it as it is and its message unconfirmed (`ReadReply`).

`InFrame` names the two ways to lose the place, and excludes others: a single-byte
read that fails inside a packet, and a callback that waits for a reply before it
has read its own packet (`early`). Both follow from what the code does. No line
of the documentation denies them, so there is no run that expects a violation.

### Subscriptions and Receiver

`heap` and `list` are the nodes and the links. A pointer held while application
code runs is a record that remembers what happened to it: `freed`, the node was
deleted; `touched`, the application named its filter. `running` holds those of
`fire_message_callbacks`, `walk` that of `Client::loop`. `Insert` may reuse any
free address, one just freed included.

`SubscribedMessageListener::subscribe` calls the virtual `unsubscribe` first. On a
connected `Client` that sends UNSUBSCRIBE and handles messages until UNSUBACK, so
`subscribe` of a listed filter is split there: `ReplaceBegins` deletes, `replacing`
is the stack of calls that wait, `ReplaceEnds` inserts and sends SUBSCRIBE. A
callback that subscribes the same filter in between leaves it listed twice: the
callback meant to be replaced stays behind the other, and unsubscribing one of
them ends both at the broker. `raced` records these filters; `ListIsSound` and
`RenewalIsComplete` exempt them and nothing else.

`HeldIsSafe` says who may free what is held: only application code that
names that very filter, whatever else it changes. When it does, the fault is there: the
`std::function` that runs is deleted (subscriber.cpp:229), or `Client::loop` reads `s->next`
from a node that is gone (client.cpp:299). It excludes every other way to get there; it does not
deny these two.

`Receiver` is one connection of either side. A message found by `Framing` runs the
callback found in `Subscriptions`; a change to the list on a connected `Client`
opens a wait in `Framing`, whose messages run further callbacks; a broker's
changes are over at once, and `PublishLocal` is
`ServerLocalSubscribe::publish`, whose packet is in memory.

### KeepAlive

One clock, `millis`, counted modulo `Wrap`, stands for both boards, since each
compares its own values only. `Tick` lets time pass unless somebody is due: the
application calls the client's `loop()` every `Gap`, the broker reaches every
connection every `Pass`, the network delivers, and the client has read what came before,
within `Delay`. `TimingAssumption`
says what these must be for the tolerance and the timeout to suffice:
`Second + Gap + Delay + Pass <= Tolerance + 2` (a second is lost in the whole
seconds of CONNECT), `Delay + Gap + Delay + Pass <= Second + Tolerance` (for keep-alives
of less than a second or so: a client that waits for the answer to its last ping sends
no other, so its packets are two deliveries, a `loop()` and a pass apart however short the
keep-alive)
and `Delay + Pass + Delay < SocketTimeout`. The clock starts anywhere. The run is at the
edge: without the assumption, `Tolerance` 2 drops a live client and `SocketTimeout` 3
gives up a live broker. `ServerTurn` reads all that has arrived, `ServerDrops` looks at
the clock before.

The client's wait for PINGRESP has two limits. Each read of `wait_for_reply` ends after
`SocketTimeout` without a byte (`readStart`, `NoPingresp`); the loop around the reads compares
the clock with its own start (`waitStart`, `PastDeadline`) before every one of them, and so gives up
after a packet that was not the answer (`GetPublish`). The deadline is what ends the wait when a
broker makes no more rounds but its application, or another connection's turn, goes on sending
messages (`"sender"` in `alive`): `WaitsEnd`. It is also a way to give up a broker that lives, which
`LiveServerIsKept` excludes when the timing is as assumed: the answer was read before. Two
socket timeouts must not fill the clock (`SocketTimeout + SocketTimeout < Wrap`).

A keep-alive of more seconds than CONNECT can carry is excluded by `TimingAssumption`: `connect()`
sends it cut to 16 bits (client.cpp:68), the broker then expects pings sooner than the client
sends them, and drops it.

### Outgoing

One packet from `write_header` to `send()`. `capacity` is
`PICOMQTT_OUTGOING_BUFFER_SIZE` of the build, 0 without a buffer; `size`, `pos`, `buffer`
and `state` are the members of `OutgoingPacket`; `link` and `printed` are the socket
and what it has taken. `handed` is what the packet was given, and a byte is its
number in it, 0 if `send()` made it up, so that one lost, repeated or out of place
shows. `job` is the call in progress: one round of its loop is an action
(`WriteChunk`, `ReadChunk`), since the chunks are cut in four ways: at the end of the
buffer, at the end of a scratch buffer, byte by byte, or by what the other client
gives. `SocketWrite` fails after any number of bytes; then an unbuffered call counts
nothing and ends, while a buffered one goes on and counts, as the code does. Callers
write no more than they declared, and call `send()` once, as `Publish` and its
users do.

## 3. The runs

All passing runs finish in under four minutes with two workers, also when others
run beside them.

| run | bounds | shows |
|---|---|---|
| `server_forward` | 2 connections, 2 topics, 2 valid filters, 2 messages, payload 0 or 2, buffer 2, subscriptions with a refused filter and limit 2 | `TypeOK`; messages are routed (`Routed`), complete (`EveryoneServed`), ordered (`InOrder`), framed (`WellFramed`), acknowledged after forwarding (`AckedMeansForwarded`), filled up only when the publisher was cut off (`FilledOnlyWhenLost`); what the peer was told is what is matched (`GrantedIsActive`); the broker implements `PubSub` (`ImplementsPubSub`) |
| `server_turns` | 2 connections on 2 sockets, 2 packets per turn, every kind of packet that keeps or ends a connection or is cut off, fairness | `BacklogServed`, `TurnsKeepComing`, `DeadAreRemoved`, `PublishCompletes` |
| `server_cut` | 2 connections on 2 sockets, one SUBSCRIBE that is cut off, fairness | **violated**: `NoneStarved` |
| `server_callbacks` | as `server_forward` | **violated**: `EveryoneServed` |
| `topic_filter` | all filters and topics of length up to 4 over 5 characters | `ValidationIsGrammar`, `MatchingIsLevelwise`, `ElementsAreLevels` |
| `client_sync` | 2 filters, one refused, ids up to 4, 2 messages, 2 faults, callbacks that call back and others, depth 3 | `TypeOK`, `NoStaleReply`, `InSync`, `ConfirmedAreReceived`, `NoViolation` |
| `client_recovers` | 1 filter, 2 faults, fairness | `Recovers`, `CallsReturn` |
| `client_subscribe_in_callback` | callbacks that call back, no faults | **violated**: `NeverAccuses` |
| `client_disconnected_callback` | 1 filter, 2 faults | **violated**: `DisconnectsAreTold` |
| `receiving` | 2 packets (messages, replies, requests with one or two topics, limit 1), 2 addresses, 2 filters, callbacks 2 deep, fairness | `TypeOK`; `InFrame`, `TopicsInPlace`, `AckedIsOffered`, `HandlersReturn`; `ListIsSound`, `HeldIsSafe`, `RenewalIsComplete` |
| `keep_alive` | clock of 11 values, second of 2, keep-alives 1, 2, 3 and 5 | `LiveClientIsKept`, `LiveServerIsKept`, `SilentClientIsDropped`, `SilentServerIsNoticed`, `WaitsEnd` |
| `outgoing` | buffers of 0 (none), 1, 2, 3, 5, scratch buffer of 2, header of 2, packets of 0 to 5 bytes, fairness | `TypeOK`, `NothingIsLost`, `SentIsWhole`, `WritesReturn` |

**Why these bounds.** Two connections make one a subscriber and one a
publisher, or one both, or, when the application publishes, a subscriber that
fails and one that does not.
A payload of 2 with a header of 1 and a buffer of 2 has a flush in the middle
and a rest for `send()`; a payload of 0 and 1 end below and exactly at a flush.
Two messages show flags and buffer left over from the first. A packet is in flight
while another is handled, and a turn takes up to two. The third topic of a SUBSCRIBE is
beyond the limit of two, the second is refused. A connection is used once, so the first of two
listening sockets cannot be offered connections without end: that `ServerSocketMux` would then
never ask the second (server.h:93) is outside of what `BacklogServed` shows. Ids up to 4
wrap within one run of the client. Four characters are enough for a wildcard
with a level on each side and for the parent rule. Symmetry under permutation
of the connections is used in the runs without liveness; `ImplementsPubSub` has no
liveness part and treats all connections alike.

`Receiver.cfg` sets `Base` to 4, so that a message with a topic, an id and a payload has
two length digits; `MaxTopic` 1 and `MaxMessage` 3 let that message be delivered, and
the garbled lengths 0 and 4 lie below and above `MaxTopic`. Two packets are one
whose handling is disturbed and the one that has to begin where it ends; two
frames a wait inside a callback, two callbacks one of them inside the other.
Two addresses and filters are a node deleted and another at its address. The limit of one topic makes the second topic of a SUBSCRIBE one that is passed
over, and the garbled length 4 does the same to any topic. `Room`
bounds memory: each `subscribe()` under way will find an address. In
`KeepAlive.cfg` intervals span the wrap of the clock from every start, and the
keep-alives include ones that are not whole seconds, and 1, which announces none; 11
values of the clock are the fewest `TimingAssumption` allows.
In `Outgoing.cfg` packets with their header end before, at and behind the end of
every buffer, and the largest is cut by the scratch buffer twice.

**Fairness.** The application calls `loop()` again and again and none of its
steps blocks for ever, so a step of the broker that stays possible is taken:
`WF_vars(ServerStep)`. The wait for CONNECT ends whatever the peer sends,
because each round of `wait_for_reply` compares the elapsed time with the
timeout: `SF_vars(HandshakeGivesUp)`. A read of payload that stalls is covered by the
weak fairness of `ServerStep`: if data comes `WriteUnit` goes on, and if it does not
`SourceLost` makes `send()` fill up the rest. In `Client` the program's own
steps and the broker's answers are weakly fair; calling `loop()` and returning
from callbacks are strongly fair, because the application may do other things
in between. Faults, messages and calls of the application are never forced.
In `Receiver` a read returns at the latest when its time is up, and callbacks
return: `WF_vars(Handling)`; new packets, requests and changes are not forced. In
`Outgoing` a call that has begun goes on, since reads and writes return:
`WF_vars(Working)`; that the caller calls again is not assumed.

## 4. What is proved

### The broker

For any number of connections, any packets, topics, filters, limits and buffer size,
from `ConstantsAssumption` and `PacketsAssumption` (shapes of the constants).

* `TypeCorrect`: `Spec => []TypeOK`, one lemma per group of actions.
* `RoutedAlways`: `Spec => []Routed`. `Routed` speaks of what has been written, and
  the next flush writes what is in the buffer to whoever is flagged, so the
  inductive invariant `RoutedInv` adds: every buffered unit belongs to the
  message in progress (`BufferOwn`), and while a message is in progress a
  listed connection that is flagged is one the message is for (`FlagsAgree`).
  The second is where the single thread matters: the list changes only
  between messages.
* `GrantedAlways`: `Spec => []GrantedIsActive`. Inductive only with the fact that
  packets are never handled for a connection that still is in the backlog
  (`GrantedInv`): such a connection would be open later with subscriptions
  its peer was not told of.
* `InOrderAlways`, `EveryoneServedAlways`, `AckedMeansForwardedAlways`,
  `FilledOnlyWhenLostAlways`, `WellFramedAlways`. They share `CoreInv`:
  the buffer holds the units of the message in progress from `Flushed` on, in
  order (`Underway`), so that `pub` alone says what has left it. Lemma `Growth` then
  reduces every step of the broker to two cases: the wires stay as they are
  (`Still`), or a run of units `q` is appended to those that hear, from `Flushed` on
  (`Flushing(q)`). Each property is carried through these two only:
  `DeliveryInv` adds what the wires may already hold (`Past`) and must
  (`Served`); `LostInv` says a made-up unit is of a message whose publisher is gone;
  `FramedInv` says each wire is a chain of packets, and where it ends.
* `BrokerImplementsPubSub`: `Spec => ImplementsPubSub`. A flush
  that completes nothing stutters, one that completes the message for some is
  `Hand`, `Send` is `Finish`, the turns are `Come`, `Resubscribe` or nothing.
* `PromiseKept` (`PubSub_proofs`): of the service itself, `[]Delivered` and
  `[]OnlySubscribers`. With the refinement they hold of the broker.

### The list of subscriptions

`Receiver_proofs`, for any addresses, filters, packets and depth of callbacks, from the
shapes of the constants: `ListIsSoundAlways`, `HeldIsSafeAlways`,
`RenewalIsCompleteAlways`. All changes the
application can make are one kind of step, `Edit(i, n, a, f)`: the node at position `i` is
deleted, if any, and if `n` is 1 one with the same filter inserted in front. The
invariant `ListInv` is kept by edits:

* `Linked`: the list links the allocated nodes, once each. `Unique`: two nodes have
  one filter only if it was raced. `Outstanding`: nor has any the filter of a
  `subscribe()` under way; without this the insertion at its end breaks `Unique`.
* `Held`: a pointer that is not freed still points to a node of the filter it was taken
  for. It is why reuse of an address does no harm: the address is free only
  after the pointer was marked.
* `Progress`: everything at or before the node the loop is at has been requested. New nodes
  come in front, so the position moves (`Place`) but nothing unrequested passes
  it; the loop's node may itself be deleted, and then the loop claims nothing.
* `AtRest`: between two nodes of the loop no application code runs.

### The stream

`Receiver_proofs`, for any packets, numbers of bits and length digits, and depth of waits and
callbacks, from `FramingAssumption`, `PacketAssumption` and `SizeAssumption`.

* `LengthSurvives`: what `write_packet_length` writes, `read_header` decodes, modulo the width of
  its integer. `DigitPlace` has wrapped, too, by the last digits; the proof carries the
  value of the digits read so far (`Value`) along both loops.
* `InFrameAlways`, `AckedIsOfferedAlways`, `TypesAlways`. Inductive is `FrameInv`: every frame
  is fine (`Fine`: it never reads past its packet, and what it will acknowledge was
  offered), those below the innermost are in a callback that has read its packet (`Nested`), and
  what was taken plus what is left of the packet being handled ends where one ends (`Placed`).
  `Nested` is why a wait in a callback does no harm when the callback has read its packet, and
  `early` marks those that have not. Lemmas `TopStep`, `PopStep` and `PushStep` reduce
  every action to what it does to the innermost frame.

### Keep-alive

`KeepAlive_proofs`, for every width of the clock, keep-alive and timing that `TimingAssumption`
allows: `LiveClientsAreKept`, `LiveServersAreKept`, `SilentClientsAreDropped`,
`SilentServersAreNoticed`, `EveryWaitEnds`. No property is inductive alone: whether a client is
dropped depends on
what is on its way. The invariant adds: `ClientTimes`, `WaitTimes` and `ServerTimes` bound what the
timers of each side can show, so that no difference of the clock has wrapped; `OnePing` and
`PingToken` say where the one ping is that a waiting client is owed an answer to, and by
where it is how long ago the wait began: less than the deadline while the broker makes its rounds
(`AnswerInTime`), whatever messages the wait has read; `Covered` bounds how long the broker has read nothing by
the packet that is to end it, under way (`UnderWay`) or to be written in time
(`ToBeWritten`). The second inequality of `TimingAssumption` came out of this proof.

### Topic filters

`TopicFilter_proofs`, for any characters and strings of any length: `MatcherIsLevelwise` and
`ValidationIsGrammarAlways`, `MatchingIsLevelwiseAlways`, `ElementsAreLevelsAlways`.
`LevelsTo(s, n)` are the levels of the first `n` characters; all but the last of them are
final (`Continues`). The scanner's state says what the last level is (`Describes`): empty,
without a wildcard, `+`, `#`, or part of no level of the grammar. The matcher's pointers always stand where the levels read agree
(`Consistent`): those before the last match, and the last ones are equal without a
wildcard, or the filter's is `+`, the topic's is complete, and it is not empty at the end of
the topic. From there what is left decides: `MatchStep` goes through the cases of the loop, and
the theorem is induction from the end of the filter.

Recursive functions are within reach by `SequenceLemmas`: the library's
induction theorems have an operator as parameter, which the provers cannot instantiate;
`Induction`, `StrongInduction` and `Recursion` have a set, or functions, and are proved from
well-foundedness.

### OutgoingPacket

`Outgoing_proofs`, for every size of the buffer, none included, and of the packet, from
`OutgoingAssumption`: `TypeAlways`, `NothingIsLostAlways`, `SentIsWholeAlways`.
`NothingIsLost` says that what the socket has taken and what is buffered are a
beginning of what was handed over, as far as the call in progress has come
(the rest of a failed connection aside). By itself it is not inductive; `IInv` adds:
the buffer has room between chunks (`Room`), or a chunk would be empty; where a
job's bytes are in `handed` (`JobOK`, `HeaderOK`); that position and job together
count what went out while the connection is up (`CountOK`), so that what `send()`
fills up is exactly what is missing (`FillOK`, `SentOK`). Lemmas `PutInOrder` and
`FlushInOrder` say once what appending and flushing do to the order, over
lemma `WriteBeginning` for a socket that takes only a part, and each action cites them.

### The client

`Client_proofs`, for any filters, refused ones, width of message ids, limits and depth of
calls, from `ConstantsAssumption`: `TypeCorrect`, `NoStaleReplyAlways`, `InSyncAlways`,
`NoViolationAlways`, `ConfirmedUnlessIdsRunOut` and `ConfirmedAreReceivedAlways`. `TypeInv` adds to the types what the packets and calls of
each kind carry (`SentOK`, `CallOK`: a SUBSCRIBE has a filter and an id that is not zero), and
holds of every application. The rest, `Calm`, is claimed when callbacks leave a
waiting client alone:

* `Alone`: only the innermost call waits; so application code runs only when
  nothing is awaited (`MayCallQuiet`).
* `Talk`: a conversation is silent, or the request of the innermost call is the
  last packet on its way to the broker, or its reply is on its way back; all other
  packets are messages. Without it a stale reply could be there to be taken.
* `Agreed`: what the broker has, with the request on its way (`Coming`), is what the
  list has, without what renewing has not asked for yet (`Left`). The list and the
  broker differ at every other moment, so `InSync` alone is not inductive.
* `ListOK`: no filter is listed twice, what is left to renew is listed, and a
  filter being replaced is not; the first would fail if callbacks could
  subscribe during a replacement (`raced` in `Subscriptions`).

Three lemmas carry the steps: `Begins` (a request is written, or the connection is
gone), `Resting` (a step between requests that asks nothing) and `CalmResponse` (the
broker answers); each action is one of these, or takes a reply or gives up.

`ConfirmedAreReceived` is about callbacks that publish inside a wait too, where `Calm`
says nothing: a nested wait takes the outer call's reply and an outer one the
nested call's, so that replies are left over, and every publication and
subscription draws an id from a counter that wraps. It does depend on the ids: with a
single one TLC finds the outer publication's PUBACK taken by a nested publish()
that the broker never had, and reported as its success. The hypothesis `IdsSuffice` is
that no publish() waits until its id is about to come round: fewer messages were
published since it began than there are ids, by the depth of calls at least. The run
`client_sync` lies within it, like every client of `MaxPublish + MaxDepth <= MaxId + 1`
(`ConfirmedAreReceivedAlways`); the program, which has 65535 ids, leaves it only when nearly
that many messages are published by callbacks inside one publish() that waits.

The invariant is `Sound`, of the calls, the packets and the socket. It bounds what may be
on its way by counting (`NumIn`, `Total`): replies due are no more than the calls that
wait for one (`Balanced`: each wait ends by taking one or by closing the
connection); a publication or PUBACK still on its way is no older than the ids that the
messages since some waiting publish() and the other waiting calls account for (`Recent`,
where a request in front of it counts too, because whoever takes that first stays
behind); so its id is not the next one to be drawn, and `OnItsWay` holds: what is on its way
with the id of a waiting publish() whose message the broker lacks is that message, and no
PUBACK. `TypeInv` lends that ids are drawn in turn (`Since`), `InOrder` that calls within
calls publish later messages. Each step is one of a few changes of these parameters, one after
the other (a packet sent, taken, lost; a call begun, answered, returned), and each
change has a lemma.

### Only model-checked

Liveness, which is out of the prover's reach (`BacklogServed`, `TurnsKeepComing`, `DeadAreRemoved`,
`PublishCompletes`, `Recovers`, `CallsReturn`, `HandlersReturn`, `WritesReturn`); and
`TopicsInPlace`, which counts in multiples of a product of constants. Every other
invariant of the passing runs is a theorem.

## 5. Findings

Four runs show the program doing something other than its documentation or its own comments
say; `PROJECT.json` quotes the lines. (1) A message callback that publishes redirects
the end of the message being forwarded. (2) A SUBSCRIBE or UNSUBSCRIBE whose bytes end where a topic
should begin holds the broker for ever, also when its connection is gone. (3) `subscribe()` in a
callback can make the client close a healthy connection. (4) A connection closed by the peer is
replaced without `disconnected_callback`.

More came up, which the properties name as exceptions, so that passing runs say that
there are no others:

* `raced`: a filter is listed twice after it was subscribed while it was being replaced.
* `"astray"`: a reader goes on inside a packet after a single-byte read has timed out;
  `early`: or because a callback waited for a reply before reading its own packet.
* `Stuck` and `Starving`: finding (2), in the properties beside it, and in `GrantedIsActive`, since
  nothing is matched any more.
* `touched`: a callback that names its own filter deletes the `std::function` it runs in, one
  that names the filter being renewed deletes the node the loop reads `s->next` from. For `subscribe()`
  this is at odds with the repository's `README.md:166`, "New subscriptions can be added at any
  point".
* `EndsEmpty`: `+` does not match an empty level at the end of a topic, as it should by MQTT 3.1.1
  (4.7.1.3), which `README.md:13` says is implemented.
* `IdsSuffice`: message ids come round inside one `publish()`; see section 4. The runs stay
  within it.

Limits of two kinds are not shown by a run. Keep-alives beyond 16 bits and endless connections to
the first of several sockets are outside of what the bounds and assumptions allow (above). And
MQTT 3.1.1 wants topics that begin with `$` not to be matched by a filter that begins with a
wildcard (4.7.2-1): the matcher has no such rule, and `MQTTMatches` does not state it.

## 6. What could follow

The reconnect interval with the clock of `KeepAlive`.

## 7. Not modelled

* Debug tracing, utilities, examples, benchmarks and tests: no state of their own.
* The platform's TCP stack beyond connected, readable and closed; memory that runs
  out; the destructors of `Server` and `Client` at shutdown.
* The contents of CONNECT (accepted or not) and the last will, which the broker
  skips; retained messages and sessions, which it does not have.
* The reconnect interval: in `Client` an attempt may come at any `loop()`.
* The overloads of `publish` and `subscribe` that only convert their arguments; packets whose
  caller writes more than it declared.
* What a reader makes of bytes after it has lost its place; a fifth length digit, which no
  correct peer sends; the order in which `read_u16` reads its two bytes, which C++
  leaves open; `Client::unsubscribe(id)` with an id that is no longer valid, which
  reads freed memory.
* `ServerLocalSubscribe::publish` is split between `Server` (to the connections,
  first) and `Receiver` (to the callbacks, then).
