------------------------------- MODULE Framing -------------------------------
(***************************************************************************)
(* How packets are cut out of a byte stream (incoming_packet.cpp,           *)
(* client_wrapper.cpp, and the parts of connection.cpp and server.cpp that   *)
(* read).  Nothing marks the start of a packet but where the last one ended, *)
(* so everybody who reads from it, the handler, the application's callback,  *)
(* the IncomingPublish that forwards it and the destructors, must together   *)
(* take exactly its bytes, whatever fails.                                  *)
(*                                                                         *)
(* Bytes are counted, their values matter only in headers.  The time at      *)
(* which bytes arrive is not a variable: a read finds its bytes or not.  The *)
(* read of a block that fails aborts the connection; a single-byte read that *)
(* fails returns -1 and leaves it as it is.                                 *)
(***************************************************************************)
EXTENDS Naturals, Sequences, FiniteSets, SequencesExt

CONSTANTS
    Packets,        \* packets the peer may send
    MaxPackets,     \* bound: packets the peer sends in a behaviour
    Base,           \* values of the payload of a length digit (128)
    MaxDigits,      \* length digits read_header accepts (5)
    Width,          \* number of values of a uint32_t
    MaxTopic,       \* PICOMQTT_MAX_TOPIC_SIZE
    MaxMessage,     \* PICOMQTT_MAX_MESSAGE_SIZE
    MaxSubs,        \* PICOMQTT_MAX_SUBSCRIPTIONS_PER_PACKET
    GarbledSizes,   \* bound: lengths read where a byte of the length is missing
    MaxFrames       \* bound: packets being handled inside each other

ASSUME FramingAssumption ==
    /\ Base \in Nat \ {0, 1}
    /\ MaxDigits \in Nat /\ Width \in Nat \ {0}
    /\ MaxTopic \in Nat /\ MaxMessage \in Nat /\ MaxSubs \in Nat
    /\ GarbledSizes \subseteq Nat /\ \E t \in GarbledSizes : t > MaxTopic
    /\ MaxPackets \in Nat /\ MaxFrames \in Nat

\* `topic' is the length of the topic, `id' says that the QoS calls for a message
\* id and an acknowledgement, `payload' is what follows.  That of a SUBSCRIBE and of
\* an UNSUBSCRIBE is a list of topics of that length, each behind its length and,
\* in a SUBSCRIBE, followed by its QoS.  A REPLY, two bytes, is what some request
\* waits for.
QosBytes(p) == IF p.type = "SUBSCRIBE" THEN 1 ELSE 0

ASSUME PacketAssumption ==
    /\ Packets # {}
    /\ \A p \in Packets :
          /\ p.type \in {"PUBLISH", "SUBSCRIBE", "UNSUBSCRIBE", "REPLY"}
          /\ p.topic \in Nat /\ p.payload \in Nat /\ p.id \in BOOLEAN
          /\ p.type \in {"SUBSCRIBE", "UNSUBSCRIBE"} =>
                p.payload % (2 + p.topic + QosBytes(p)) = 0

VARIABLES
    side,       \* which program reads: "client" or "server"
    stream,     \* the packets the peer sends
    taken,      \* bytes of the stream that have been read
    link,       \* "up", "cut" by the peer (what has arrived can be read), "closed",
                \* or "astray": up, but the next byte to read is inside a packet
    frames,     \* IncomingPackets that exist, the outermost first
    early,      \* a callback waited for a reply before it had read its packet
    offered,    \* messages application code was called for
    acked       \* messages acknowledged to the peer

frameVars == <<side, stream, taken, link, frames, early, offered, acked>>

-----------------------------------------------------------------------------
(* Bytes.                                                                   *)

\* OutgoingPacket::write_packet_length: the lowest digit first, all but the last
\* marked by adding Base.
LengthDigits(size) ==
    LET digits[n \in 0..size] == IF n < Base THEN <<n>>
                                 ELSE <<(n % Base) + Base>> \o digits[n \div Base]
    IN  digits[size]

\* Mutant: digits are shifted by a whole byte.
DecodedSize_Bytes(digits) ==
    LET place[i \in 0..Len(digits)] == IF i = 0 THEN 1 ELSE place[i - 1] * (2 * Base)
        value[i \in 0..Len(digits)] ==
            IF i = 0 THEN 0
            ELSE (value[i - 1] + (digits[i] % Base) * place[i - 1]) % Width
    IN  value[Len(digits)]

\* What a digit is worth that has been shifted i times by the bits of one.
DigitPlace(i) ==
    LET place[j \in 0..i] == IF j = 0 THEN 1 ELSE Base * place[j - 1]
    IN  place[i]

\* read_header: digits are or-ed together, each shifted into its place.
DecodedSize(digits) ==
    LET value[i \in 0..Len(digits)] ==
            IF i = 0 THEN 0
            ELSE (value[i - 1] + (digits[i] % Base) * DigitPlace(i - 1)) % Width
    IN  value[Len(digits)]

\* The bytes of a packet after its header.
BodySize(p) == (IF p.type = "PUBLISH" THEN 2 + p.topic + (IF p.id THEN 2 ELSE 0) ELSE 2)
               + p.payload

\* The largest packet MQTT allows is far from what a uint32_t holds.
ASSUME SizeAssumption == \A p \in Packets : BodySize(p) < Width

HeaderSize(p) == 1 + Len(LengthDigits(BodySize(p)))

\* The first k of some packets end here.
EndIn(packets, k) ==
    LET end[i \in 0..k] == IF i = 0 THEN 0
                           ELSE end[i - 1] + (HeaderSize(packets[i]) + BodySize(packets[i]))
    IN  end[k]

EndOf(k) == EndIn(stream, k)

Total == EndOf(Len(stream))

\* The packet that begins at the next byte to read; 0 if none does.
Begins == IF \E k \in DOMAIN stream : EndOf(k - 1) = taken
         THEN CHOOSE k \in DOMAIN stream : EndOf(k - 1) = taken ELSE 0

-----------------------------------------------------------------------------
(* IncomingPackets.  A frame is a packet being read and what is done with    *)
(* it next; `mode' is who reads it: Connection::loop, wait_for_reply, or      *)
(* ServerLocalSubscribe::publish, whose packet is in memory.                 *)

Phases == {"head", "topic_size", "ignore", "topic", "id", "on_message", "payload",
           "callback", "forward", "ack", "reply", "skip", "again",
           "request", "topics", "filter", "qos", "pass_over"}

\* `k' is the packet of the stream this is, 0 if it is none; `moved' is what the
\* packet an IncomingPublish was made from would still read; `count', up to MaxSubs,
\* is how many topics of a SUBSCRIBE were begun; `garbled' says that a byte of a
\* number that was read is missing.
Frame == [mode : {"loop", "wait", "local"}, phase : Phases, k : Nat, p : Packets,
          size : Nat, pos : Nat, moved : Nat, topic : Nat, count : Nat,
          garbled : BOOLEAN, answered : BOOLEAN]

FramingInit ==
    /\ side \in {"client", "server"}
    /\ stream \in BoundedSeq(Packets, MaxPackets)
    /\ taken = 0 /\ link = "up" /\ frames = <<>>
    /\ early = FALSE
    /\ offered = {} /\ acked = {}

Top == Last(frames)
In(phase) == frames # <<>> /\ Top.phase = phase
SetTop(f) == frames' = Front(frames) \o <<f>>
PopTop == frames' = Front(frames)

\* Packet::get_remaining_size
Remaining == IF Top.pos < Top.size THEN Top.size - Top.pos ELSE 0

Least(a, b) == IF a < b THEN a ELSE b

\* Mutant: read_u8 does not look how much is left.
U16_Unchecked == 2

\* Bytes read_u16 asks the connection for; at the end of a packet it makes do.
U16 == Least(2, Remaining)

\* What is read from a connection that has gone astray is not followed.
Readable == link \in {"up", "cut"}

\* c bytes are read, no more than there are.
Take(c) == /\ ~Readable => c = 0
           /\ taken + c <= Total
           /\ taken' = taken + c

\* A packet in memory, BufferClient, gives whatever is asked for.
TakeMemory(n, c) == c = n /\ UNCHANGED <<taken, link>>

\* Up to n single-byte reads take c bytes: all, or fewer because some failed.  One
\* that fails leaves the connection as it is; it may have been cut before.
TakeBytes(n, c) ==
    /\ c \in 0..n
    /\ IF Top.mode = "local" THEN TakeMemory(n, c)
       ELSE /\ Take(c)
            /\ link' = IF c < n /\ link = "cut" THEN "closed" ELSE link

\* Mutant: the timeout of a block read leaves the connection open.
TakeBlock_KeepsOpen(n, c) == TakeBytes(n, c)

\* ClientWrapper::read(buf, n) takes c bytes: n, or fewer and the connection is
\* aborted, whether time ran out, the connection was lost or a read failed.
TakeBlock(n, c) ==
    /\ c \in 0..n
    /\ IF Top.mode = "local" THEN TakeMemory(n, c)
       ELSE /\ Take(c)
            /\ link' = IF c < n THEN "closed" ELSE link

NewFrame(mode, p) ==
    [mode |-> mode, phase |-> "head", k |-> 0, p |-> p, size |-> 0, pos |-> 0,
     moved |-> 0, topic |-> 0, count |-> 0, garbled |-> FALSE, answered |-> FALSE]

AnyPacket == CHOOSE p \in Packets : TRUE

\* Connection::loop finds a byte to read.
StartLoop ==
    /\ frames = <<>> /\ Readable /\ taken < Total
    /\ frames' = <<NewFrame("loop", AnyPacket)>>
    /\ UNCHANGED <<side, stream, taken, link, early, offered, acked>>

\* A Client's request waits for its reply, from loop() or from a callback.
StartWait ==
    /\ side = "client" /\ Readable /\ Len(frames) < MaxFrames
    /\ frames = <<>> \/ In("callback")
    /\ frames' = Append(frames, NewFrame("wait", AnyPacket))
    /\ early' = (early \/ (frames # <<>> /\ Remaining > 0))
    /\ UNCHANGED <<side, stream, taken, link, offered, acked>>

\* ServerLocalSubscribe::publish hands the message to the callbacks.
StartLocal(p) ==
    /\ side = "server" /\ frames = <<>> /\ p.type = "PUBLISH"
    /\ frames' = <<[NewFrame("local", p) EXCEPT !.phase = "on_message",
                                              !.size = p.payload]>>
    /\ UNCHANGED <<side, stream, taken, link, early, offered, acked>>

-----------------------------------------------------------------------------
(* Reading a packet.                                                        *)

\* What may follow the header of a packet: a REPLY may be the one waited for, and
\* only a broker takes requests.
AfterHeader(p) ==
    CASE p.type = "PUBLISH" -> {"topic_size"}
      [] p.type = "REPLY"   -> IF Top.mode = "wait" THEN {"reply", "skip"} ELSE {"skip"}
      [] OTHER              -> IF side = "server" THEN {"request"} ELSE {"skip"}

\* A whole header is read; a REPLY nobody waits for, and a request to a Client, is a
\* protocol violation and ends the connection.  What a reader that has lost its
\* place makes of the bytes it finds is not followed.
ReadHeader ==
    /\ In("head") /\ Begins # 0 /\ Readable
    /\ LET p == stream[Begins]
           digits == LengthDigits(BodySize(p))
       IN  /\ Len(digits) <= MaxDigits
           /\ Take(HeaderSize(p))
           /\ \E next \in AfterHeader(p) :
                 /\ SetTop([Top EXCEPT !.phase = next, !.p = p, !.k = Begins,
                                       !.size = DecodedSize(digits)])
                 /\ link' = IF next = "skip" THEN "closed" ELSE link
    /\ UNCHANGED <<side, stream, early, offered, acked>>

\* A read fails in the header and the packet is invalid.  Connection::loop, which
\* has seen its first byte, returns and leaves the connection as it is;
\* wait_for_reply closes it.
HeaderFails ==
    /\ In("head") /\ PopTop
    /\ \E c \in 0..(MaxDigits + 1) :
          /\ Top.mode = "loop" => c > 0
          /\ Begins # 0 => c < HeaderSize(stream[Begins])
          /\ Take(c)
          /\ link' = IF Top.mode = "wait" \/ link = "cut" THEN "closed"
                     ELSE IF link = "up" THEN "astray" ELSE link
    /\ UNCHANGED <<side, stream, early, offered, acked>>

\* The lengths that read_u16 may make of c bytes.  A byte that is missing counts as
\* 255; without the first, the number is more than a topic may have.
Lengths(c) == IF c = 2 /\ ~Top.garbled THEN {Top.p.topic}
              ELSE {t \in GarbledSizes : c = 0 => t > MaxTopic}

\* handle_packet, case PUBLISH: the length of the topic.
ReadTopicSize ==
    /\ In("topic_size")
    /\ \E c \in 0..U16 : \E t \in Lengths(c) :
          /\ TakeBytes(U16, c)
          /\ SetTop([Top EXCEPT !.pos = @ + c, !.topic = t,
                        !.phase = IF t > MaxTopic THEN "ignore" ELSE "topic"])
    /\ UNCHANGED <<side, stream, early, offered, acked>>

\* packet.ignore(topic_size), which goes on after a failed read, and
\* on_topic_too_long.
IgnoreTopic ==
    /\ In("ignore")
    /\ \E c \in 0..Least(Top.topic, Remaining) :
          /\ TakeBytes(Least(Top.topic, Remaining), c)
          /\ SetTop([Top EXCEPT !.pos = @ + c,
                                !.phase = IF Top.p.id THEN "id" ELSE "skip"])
    /\ offered' = offered \cup ({Top.k} \ {0})
    /\ UNCHANGED <<side, stream, early, acked>>

\* read_string(topic, topic_size); on failure handle_packet returns.
ReadTopic ==
    /\ In("topic")
    /\ \E c \in 0..Least(Top.topic, Remaining) :
          /\ TakeBlock(Least(Top.topic, Remaining), c)
          /\ SetTop([Top EXCEPT !.pos = @ + c,
                        !.phase = IF c < Top.topic THEN "skip"
                                  ELSE IF Top.p.id THEN "id" ELSE "on_message"])
    /\ UNCHANGED <<side, stream, early, offered, acked>>

\* packet.read_u16() of the message id, which is garbled if a byte is missing.
ReadId ==
    /\ In("id")
    /\ \E c \in 0..2 :
          /\ TakeBytes(U16, c)
          /\ SetTop([Top EXCEPT !.pos = @ + c, !.garbled = c < 2,
                        !.phase = IF Top.topic > MaxTopic THEN "ack" ELSE "on_message"])
    /\ UNCHANGED <<side, stream, early, offered, acked>>

\* The id of the reply is read.  One that does not match ends the connection
\* (SUBACK, UNSUBACK) or leaves the message unconfirmed (PUBACK).
ReadReply ==
    /\ In("reply")
    /\ \E c \in 0..U16 :
          /\ TakeBytes(U16, c) \/ (Take(c) /\ link' = "closed")
          /\ SetTop([Top EXCEPT !.pos = @ + c, !.phase = "skip", !.answered = TRUE])
    /\ UNCHANGED <<side, stream, early, offered, acked>>

-----------------------------------------------------------------------------
(* Requests to the broker: on_subscribe and on_unsubscribe.                 *)

\* The message id is read; it or the flags may be a protocol violation.
ReadRequest ==
    /\ In("request")
    /\ \E c \in 0..U16 :
          \/ /\ TakeBytes(U16, c)
             /\ SetTop([Top EXCEPT !.pos = @ + c, !.phase = "topics", !.garbled = c < 2])
          \/ /\ Take(c) /\ link' = "closed"
             /\ SetTop([Top EXCEPT !.pos = @ + c, !.phase = "skip"])
    /\ UNCHANGED <<side, stream, early, offered, acked>>

\* The length of the next topic.  One that is too long, or one too many for a
\* SUBSCRIBE, is passed over.
NextTopic ==
    /\ In("topics") /\ Remaining > 0
    /\ \E c \in 0..U16 : \E t \in Lengths(c) :
          /\ TakeBytes(U16, c)
          /\ SetTop([Top EXCEPT !.pos = @ + c, !.topic = t, !.garbled = @ \/ c < 2,
                        !.count = Least(@ + 1, MaxSubs),
                        !.phase = IF t > MaxTopic
                                     \/ (Top.p.type = "SUBSCRIBE" /\ Top.count = MaxSubs)
                                  THEN "pass_over" ELSE "filter"])
    /\ UNCHANGED <<side, stream, early, offered, acked>>

\* read_string(topic, topic_size); on failure the handler returns.
ReadFilter ==
    /\ In("filter")
    /\ \E c \in 0..Least(Top.topic, Remaining) :
          /\ TakeBlock(Least(Top.topic, Remaining), c)
          /\ SetTop([Top EXCEPT !.pos = @ + c,
                        !.phase = IF c < Top.topic THEN "skip"
                                  ELSE IF Top.p.type = "SUBSCRIBE" THEN "qos" ELSE "topics"])
    /\ UNCHANGED <<side, stream, early, offered, acked>>

\* A QoS above 2, as a byte that is missing is, ends the connection.
ReadQos ==
    /\ In("qos")
    /\ \E c \in 0..Least(1, Remaining) :
          \/ /\ c = Least(1, Remaining) /\ TakeBytes(c, c)
             /\ SetTop([Top EXCEPT !.pos = @ + c, !.phase = "topics"])
          \/ /\ Take(c) /\ link' = "closed"
             /\ SetTop([Top EXCEPT !.pos = @ + c, !.phase = "skip"])
    /\ UNCHANGED <<side, stream, early, offered, acked>>

\* Mutant: the QoS of a topic that is passed over is not read.
PassOver_LeavesQos ==
    /\ In("pass_over")
    /\ LET n == Least(Top.topic, Remaining)
       IN  \E c \in 0..n :
              /\ TakeBytes(n, c)
              /\ SetTop([Top EXCEPT !.pos = @ + c, !.phase = "topics",
                                    !.garbled = @ \/ c < n])
    /\ UNCHANGED <<side, stream, early, offered, acked>>

\* ignore(topic_size) and the QoS, byte by byte; reads that fail are not noticed.
PassOver ==
    /\ In("pass_over")
    /\ LET n == Least(Top.topic + QosBytes(Top.p), Remaining)
       IN  \E c \in 0..n :
              /\ TakeBytes(n, c)
              /\ SetTop([Top EXCEPT !.pos = @ + c, !.phase = "topics",
                                    !.garbled = @ \/ c < n])
    /\ UNCHANGED <<side, stream, early, offered, acked>>

\* Everything is read, and SUBACK or UNSUBACK is sent.
TopicsEnd ==
    /\ In("topics") /\ Remaining = 0
    /\ link' \in IF link = "cut" THEN {"cut", "closed"} ELSE {link}
    /\ SetTop([Top EXCEPT !.phase = "skip"])
    /\ UNCHANGED <<side, stream, taken, early, offered, acked>>

-----------------------------------------------------------------------------
(* The callbacks.                                                           *)

AfterCallback ==
    IF side = "server" /\ Top.mode = "loop" THEN "forward"
    ELSE IF Top.p.id /\ Top.mode # "local" THEN "ack" ELSE "skip"

\* Mutant: the packet an IncomingPublish was moved from still counts its bytes.
LeftBehind_Everything == Remaining

\* IncomingPacket(IncomingPacket &&): the other has nothing left to read.
LeftBehind == 0

\* on_message finds the callback.  One for the payload as a string reads it first,
\* unless it is too big; others get the packet to read from.
OnMessage(kind) ==
    /\ In("on_message")
    /\ LET first == kind = "payload" /\ Remaining < MaxMessage
       IN  /\ SetTop([Top EXCEPT !.phase = IF first THEN "payload" ELSE "callback",
                                 !.moved = LeftBehind])
           /\ offered' = IF first THEN offered ELSE offered \cup ({Top.k} \ {0})
    /\ UNCHANGED <<side, stream, taken, link, early, acked>>

\* make_payload_callback reads the payload and invokes the callback.
ReadPayload ==
    /\ In("payload")
    /\ TakeBlock(Remaining, Remaining)
    /\ SetTop([Top EXCEPT !.pos = @ + Remaining, !.phase = "callback"])
    /\ offered' = offered \cup ({Top.k} \ {0})
    /\ UNCHANGED <<side, stream, early, acked>>

\* The payload is cut short and the callback not invoked.
PayloadFails ==
    /\ In("payload")
    /\ \E c \in 0..(Remaining - 1) :
          /\ TakeBlock(Remaining, c)
          /\ SetTop([Top EXCEPT !.pos = @ + c, !.phase = AfterCallback])
    /\ UNCHANGED <<side, stream, early, offered, acked>>

\* A callback that has the packet reads as much of it as it likes; whatever else a
\* ::Client can do (write, stop, connect) an IncomingPacket ignores.
CallbackReads ==
    /\ In("callback")
    /\ \E n \in 1..Remaining : \E c \in 0..n :
          /\ TakeBlock(n, c) \/ TakeBytes(n, c)
          /\ SetTop([Top EXCEPT !.pos = @ + c])
    /\ UNCHANGED <<side, stream, early, offered, acked>>

CallbackReturns ==
    /\ In("callback")
    /\ SetTop([Top EXCEPT !.phase = AfterCallback])
    /\ UNCHANGED <<side, stream, taken, link, early, offered, acked>>

\* ~IncomingPublish forwards what the callback left; then the packet it was made
\* from is looked at again.
Forward ==
    /\ In("forward")
    /\ \E c \in 0..Remaining : TakeBlock(Remaining, c)
    /\ SetTop([Top EXCEPT !.pos = Top.size - Top.moved,
                          !.phase = IF Top.p.id THEN "ack" ELSE "skip"])
    /\ UNCHANGED <<side, stream, early, offered, acked>>

\* send_ack.  A garbled id may be acknowledged too: that is for another message.
SendAck ==
    /\ In("ack")
    /\ link' \in IF link = "cut" THEN {"cut", "closed"} ELSE {link}
    /\ acked' = IF ~Top.garbled /\ link = "up" THEN acked \cup {Top.k} ELSE acked
    /\ SetTop([Top EXCEPT !.phase = "skip"])
    /\ UNCHANGED <<side, stream, taken, early, offered>>

-----------------------------------------------------------------------------
(* The end of a packet.                                                     *)

Leave == IF Top.mode = "wait" /\ ~Top.answered
         THEN SetTop([NewFrame("wait", AnyPacket) EXCEPT !.phase = "again"]) ELSE PopTop

\* Mutant: what is left is not read.
Skip_LeavesRest ==
    /\ In("skip")
    /\ Leave
    /\ UNCHANGED <<side, stream, taken, link, early, offered, acked>>

\* Mutant: the loop goes on until everything is read.
Skip_Persists ==
    /\ In("skip")
    /\ \E c \in 0..Remaining :
          /\ TakeBytes(Remaining, c)
          /\ IF c = Remaining THEN Leave ELSE SetTop([Top EXCEPT !.pos = @ + c])
    /\ UNCHANGED <<side, stream, early, offered, acked>>

\* ~IncomingPacket reads what is left, up to the first read that fails.
Skip ==
    /\ In("skip")
    /\ \E c \in 0..Remaining :
          IF c = Remaining \/ link # "up" \/ Top.mode = "local"
          THEN TakeBytes(Remaining, c) ELSE Take(c) /\ link' = "astray"
    /\ Leave
    /\ UNCHANGED <<side, stream, early, offered, acked>>

\* wait_for_reply has handled another packet: it reads the next one if it is still
\* connected and in time, and times out otherwise.
WaitAgain ==
    /\ In("again")
    /\ \/ Readable /\ SetTop(NewFrame("wait", AnyPacket)) /\ UNCHANGED link
       \/ PopTop /\ link' = "closed"
    /\ UNCHANGED <<side, stream, taken, early, offered, acked>>

\* The peer goes away; what it has sent may have arrived before.
PeerCloses ==
    /\ link = "up" /\ link' = "cut"
    /\ UNCHANGED <<side, stream, taken, frames, early, offered, acked>>

\* Steps that do not involve the list of subscriptions.
Reading ==
    \/ ReadHeader \/ HeaderFails \/ ReadTopicSize \/ IgnoreTopic \/ ReadTopic
    \/ ReadId \/ ReadReply \/ ReadPayload \/ Forward \/ SendAck \/ Skip \/ WaitAgain
    \/ ReadRequest \/ NextTopic \/ ReadFilter \/ ReadQos \/ PassOver \/ TopicsEnd

-----------------------------------------------------------------------------
(* Properties.                                                              *)

FramingTypeOK ==
    /\ side \in {"client", "server"}
    /\ stream \in Seq(Packets)
    /\ taken \in 0..Total
    /\ link \in {"up", "cut", "closed", "astray"}
    /\ frames \in Seq(Frame)
    /\ \A i \in DOMAIN frames : frames[i].pos <= frames[i].size
    /\ early \in BOOLEAN
    /\ offered \subseteq DOMAIN stream /\ acked \subseteq DOMAIN stream

\* Two things, and nothing else, can make a reader lose its place on a connection
\* that lives on: a single-byte read that fails inside a packet, and a callback
\* that waits for a reply before it has read its own packet.  Otherwise, however
\* many readers take part, what is left to read of the packet being handled ends
\* where the packet ends, and every header is read where one begins.
InFrame ==
    frames # <<>> /\ Top.mode # "local" /\ Readable /\ ~early =>
        \E k \in 0..Len(stream) : /\ taken + Remaining = EndOf(k)
                                  /\ Remaining > 0 => k = Top.k

\* As long as no byte is missing, a request's topics are read where they are: every
\* length that is read is one, whichever topics before it were passed over.
TopicsInPlace ==
    In("topics") /\ ~Top.garbled =>
        Remaining % (2 + Top.p.topic + QosBytes(Top.p)) = 0

\* No message is acknowledged that no application code was called for, although
\* handle_packet acknowledges it without knowing what on_message did with it.
AckedIsOffered == acked \subseteq offered

\* on_subscribe or on_unsubscribe has missed a byte.  Its loop ends when everything
\* is read and not before, so it may never end.
Starving == In("topics") /\ Remaining > 0 /\ Top.garbled

\* A packet whose rest never comes keeps none of the other handlers: reading ends
\* although nothing limits how often a read may fail (~IncomingPacket, ignore,
\* wait_for_reply).
HandlersReturn == frames # <<>> ~> (frames = <<>> \/ Starving)
=============================================================================
