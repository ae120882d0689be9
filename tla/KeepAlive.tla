------------------------------ MODULE KeepAlive ------------------------------
(***************************************************************************)
(* A Client and a broker keep an eye on each other (client.cpp,              *)
(* server.cpp, connection.cpp): the client pings when it has not written for *)
(* a while and waits for the answer, the broker drops a peer it has not      *)
(* heard of for longer than that and a tolerance.  Both compare millis() with *)
(* remembered values of it, unsigned numbers that wrap.                      *)
(*                                                                         *)
(* Time passes in ticks of one unit of millis().  Each board only compares    *)
(* values of its own clock, so that one clock stands for both.               *)
(***************************************************************************)
EXTENDS Naturals

CONSTANTS
    Wrap,           \* number of values of an unsigned long
    Second,         \* 1000
    MaxSeconds,     \* number of values of the uint16_t in CONNECT
    KeepAlives,     \* keep_alive_millis a Client may be configured with
    Tolerance,      \* keep_alive_tolerance_millis
    SocketTimeout,  \* socket_timeout_millis of the Client
    Gap,            \* the application calls the Client's loop() this often
    Pass,           \* the broker's loop() reaches every connection this often
    Delay           \* the network delivers, and the Client has read what came before,
                    \* within this time

ASSUME KeepAliveAssumption ==
    /\ {Wrap, Second, MaxSeconds} \subseteq Nat \ {0}
    /\ KeepAlives \subseteq Nat
    /\ {Tolerance, SocketTimeout, Gap, Pass, Delay} \subseteq Nat

\* What the configuration must provide: the intervals fit into their types, and
\* loops and network are fast enough for the tolerance and the timeout.
ASSUME TimingAssumption ==
    /\ \A k \in KeepAlives : /\ k \div Second < MaxSeconds
                             /\ k + Gap + SocketTimeout < Wrap
                             /\ k + Tolerance + Pass < Wrap
    /\ SocketTimeout + SocketTimeout < Wrap
    /\ Second + Gap + Delay + Pass <= Tolerance + 2
    /\ Delay + Gap + Delay + Pass <= Second + Tolerance
    /\ Delay + Pass + Delay < SocketTimeout

VARIABLES
    millis,     \* the clock
    alive,      \* whether the "client" runs, the "server" makes its rounds, and the
                \* "sender" in it still forwards what others publish
    link,       \* "up", or who closed it
    keepAlive,  \* keep_alive_millis of the Client
    limit,      \* keep_alive_millis of the broker's connection
    lastWrite,  \* last_write of the Client
    lastRead,   \* last_read of the broker's connection
    waiting,    \* the Client waits for PINGRESP
    waitStart,  \* start of its wait_for_reply, 0 when there is none
    readStart,  \* start of the read it waits in, likewise
    toServer,   \* packets under way: their ages
    toClient,   \* likewise, with their kinds
    arrived,    \* packets the broker can read
    idle,       \* ticks since the Client's loop() ran
    passed,     \* ticks since this connection had its turn
    unread,     \* ticks since the broker read something
    unheard     \* ticks since the Client read something

vars == <<millis, alive, link, keepAlive, limit, lastWrite, lastRead, waiting, waitStart,
          readStart, toServer, toClient, arrived, idle, passed, unread, unheard>>

Packets == {"PINGREQ", "PUBACK", "PINGRESP", "PUBLISH"}
Aged(packets) == [age : 0..Delay, type : packets]
Fresh(type) == [age |-> 0, type |-> type]

\* Mutant: times are compared as if the clock never wrapped.
Elapsed_NoWrap(since) == IF millis >= since THEN millis - since ELSE 0

\* get_millis_since_last_read, get_millis_since_last_write and the like
Elapsed(since) == (millis + Wrap - since) % Wrap

\* keep_alive_millis of the broker's connection, from the seconds in CONNECT
LimitFor(seconds) == IF seconds = 0 THEN 0 ELSE seconds * Second + Tolerance

\* CONNECT has been answered, at any time of the clock.
Init ==
    /\ millis \in 0..(Wrap - 1) /\ alive = {"client", "server", "sender"} /\ link = "up"
    /\ keepAlive \in KeepAlives
    /\ limit = LimitFor((keepAlive \div Second) % MaxSeconds)
    /\ lastWrite = millis /\ lastRead = millis
    /\ waiting = FALSE /\ waitStart = 0 /\ readStart = 0
    /\ toServer = {} /\ toClient = {} /\ arrived = {}
    /\ idle = 0 /\ passed = 0 /\ unread = 0 /\ unheard = 0

-----------------------------------------------------------------------------
(* The Client.                                                              *)

ClientRuns == link = "up" /\ "client" \in alive

\* Mutant: only an idle connection, not an interval, calls for a ping.
PingTime_Later == Elapsed(lastWrite) >= keepAlive + Tolerance

PingTime == Elapsed(lastWrite) >= keepAlive

\* BasicClient::loop: time to ping, or nothing to do.
ClientLoop ==
    /\ ClientRuns /\ ~waiting
    /\ idle' = 0
    /\ IF PingTime
       THEN /\ toServer' = toServer \cup {Fresh("PINGREQ")}
            /\ lastWrite' = millis
            /\ waiting' = TRUE /\ waitStart' = millis /\ readStart' = millis
       ELSE UNCHANGED <<toServer, lastWrite, waiting, waitStart, readStart>>
    /\ UNCHANGED <<millis, alive, link, keepAlive, limit, lastRead, toClient, arrived,
                   passed, unread, unheard>>

\* wait_for_reply returns.
Waited == waiting' = FALSE /\ waitStart' = 0 /\ readStart' = 0 /\ idle' = 0

\* wait_for_reply gets the PINGRESP; outside of a wait it is a protocol violation.
GetPingresp ==
    /\ ClientRuns
    /\ \E p \in toClient : p.type = "PINGRESP" /\ toClient' = toClient \ {p}
    /\ link' = IF waiting THEN link ELSE "client"
    /\ Waited /\ unheard' = 0
    /\ UNCHANGED <<millis, alive, keepAlive, limit, lastWrite, lastRead, toServer,
                   arrived, passed, unread>>

\* What a message with QoS 1 does wherever it is read: its acknowledgement is built
\* by build_packet.
MessageRead ==
    /\ ClientRuns
    /\ \E p \in toClient : p.type = "PUBLISH" /\ toClient' = toClient \ {p}
    /\ toServer' = toServer \cup {Fresh("PUBACK")}
    /\ lastWrite' = millis /\ unheard' = 0
    /\ UNCHANGED <<millis, alive, keepAlive, limit, lastRead, arrived, passed, unread>>

\* wait_for_reply has taken its time, however short its reads were.
PastDeadline == Elapsed(waitStart) >= SocketTimeout

\* on_timeout
GivesUp == link' = "client" /\ Waited

\* wait_for_reply begins another read.
NextRead == readStart' = millis /\ UNCHANGED <<link, waiting, waitStart, idle>>

\* Mutant: any packet ends the wait.
GetPublish_EndsWait == MessageRead /\ Waited /\ UNCHANGED link

\* Mutant: every packet gives the wait its whole time again.
GetPublish_NoDeadline ==
    MessageRead /\ IF waiting THEN NextRead ELSE Waited /\ UNCHANGED link

\* A message is read, by loop() or by wait_for_reply, which looks at its own deadline
\* before it begins another read.
GetPublish ==
    /\ MessageRead
    /\ \/ ~waiting /\ Waited /\ UNCHANGED link
       \/ waiting /\ ~PastDeadline /\ NextRead
       \/ waiting /\ PastDeadline /\ GivesUp

\* Mutant: giving up on the answer leaves the connection open.
NoPingresp_KeepsOpen ==
    /\ ClientRuns /\ waiting /\ Elapsed(readStart) >= SocketTimeout
    /\ Waited
    /\ UNCHANGED <<millis, alive, link, keepAlive, limit, lastWrite, lastRead, toServer,
                   toClient, arrived, passed, unread, unheard>>

\* available_wait ends without a byte, the header is invalid: on_timeout.
NoPingresp ==
    /\ ClientRuns /\ waiting /\ Elapsed(readStart) >= SocketTimeout
    /\ GivesUp
    /\ UNCHANGED <<millis, alive, keepAlive, limit, lastWrite, lastRead, toServer,
                   toClient, arrived, passed, unread, unheard>>

-----------------------------------------------------------------------------
(* The broker.                                                              *)

ServerRuns == link = "up" /\ "server" \in alive

Expired == limit # 0 /\ Elapsed(lastRead) > limit

\* Server::Client::loop: the time since the last read is looked at before what
\* has arrived is read.
ServerDrops ==
    /\ ServerRuns /\ Expired
    /\ link' = "server"
    /\ UNCHANGED <<millis, alive, keepAlive, limit, lastWrite, lastRead, waiting,
                   waitStart, readStart, toServer, toClient, arrived, idle, passed,
                   unread, unheard>>

\* Mutant: only messages count as signs of life.
ServerTurn_PingsIgnored ==
    /\ ServerRuns /\ ~Expired
    /\ passed' = 0 /\ arrived' = {}
    /\ IF "PUBACK" \in arrived THEN lastRead' = millis /\ unread' = 0
                               ELSE UNCHANGED <<lastRead, unread>>
    /\ toClient' = IF "PINGREQ" \in arrived THEN toClient \cup {Fresh("PINGRESP")}
                                            ELSE toClient
    /\ UNCHANGED <<millis, alive, link, keepAlive, limit, lastWrite, waiting, waitStart,
                   readStart, toServer, idle, unheard>>

\* Connection::loop reads what has arrived and answers a ping.
ServerTurn ==
    /\ ServerRuns /\ ~Expired
    /\ passed' = 0 /\ arrived' = {}
    /\ IF arrived # {} THEN lastRead' = millis /\ unread' = 0
                       ELSE UNCHANGED <<lastRead, unread>>
    /\ toClient' = IF "PINGREQ" \in arrived THEN toClient \cup {Fresh("PINGRESP")}
                                            ELSE toClient
    /\ UNCHANGED <<millis, alive, link, keepAlive, limit, lastWrite, waiting, waitStart,
                   readStart, toServer, idle, unheard>>

\* A message for the client comes from another connection, in that connection's turn.
ServerSends ==
    /\ link = "up" /\ "sender" \in alive /\ Fresh("PUBLISH") \notin toClient
    /\ toClient' = toClient \cup {Fresh("PUBLISH")}
    /\ UNCHANGED <<millis, alive, link, keepAlive, limit, lastWrite, lastRead, waiting,
                   waitStart, readStart, toServer, arrived, idle, passed, unread,
                   unheard>>

-----------------------------------------------------------------------------
(* Network and time.                                                        *)

Arrives ==
    /\ link = "up"
    /\ \E p \in toServer : /\ toServer' = toServer \ {p}
                           /\ arrived' = arrived \cup {p.type}
    /\ UNCHANGED <<millis, alive, link, keepAlive, limit, lastWrite, lastRead, waiting,
                   waitStart, readStart, toClient, idle, passed, unread, unheard>>

\* A board loses its power or the network without a word.  A broker may also
\* stop its rounds and still send: one connection keeps it, or its application
\* publishes and does not call loop().
Dies ==
    /\ link = "up"
    /\ \/ "client" \in alive /\ alive' = alive \ {"client"}
       \/ "server" \in alive /\ alive' = alive \ {"server"}
       \/ "sender" \in alive /\ alive' = alive \ {"server", "sender"}
    /\ UNCHANGED <<millis, link, keepAlive, limit, lastWrite, lastRead, waiting,
                   waitStart, readStart, toServer, toClient, arrived, idle, passed,
                   unread, unheard>>

Older(packets) == {[p EXCEPT !.age = @ + 1] : p \in packets}

\* A tick, unless somebody is due.  A board that is dead, or a broker that makes no
\* more rounds, is never due, nor is what is under way to it; time ends when nobody
\* is left who looks at it.
Tick ==
    /\ link = "up"
    /\ "client" \in alive \/ ("server" \in alive /\ limit # 0)
    /\ "client" \in alive =>
          /\ IF waiting THEN Elapsed(readStart) < SocketTimeout ELSE idle < Gap
          /\ \A p \in toClient : p.age < Delay
    /\ "server" \in alive =>
          /\ passed < Pass
          /\ \A p \in toServer : p.age < Delay
    /\ millis' = (millis + 1) % Wrap
    /\ toServer' = IF "server" \in alive THEN Older(toServer) ELSE {}
    /\ toClient' = IF "client" \in alive THEN Older(toClient) ELSE {}
    /\ IF "client" \in alive THEN idle' = (IF waiting THEN idle ELSE idle + 1)
                                  /\ unheard' = unheard + 1
                             ELSE UNCHANGED <<idle, unheard>>
    /\ IF "server" \in alive THEN passed' = passed + 1 /\ unread' = unread + 1
                             ELSE UNCHANGED <<passed, unread>>
    /\ UNCHANGED <<alive, link, keepAlive, limit, lastWrite, lastRead, waiting,
                   waitStart, readStart, arrived>>

Next == \/ ClientLoop \/ GetPingresp \/ GetPublish \/ NoPingresp
        \/ ServerDrops \/ ServerTurn \/ ServerSends
        \/ Arrives \/ Dies \/ Tick

Spec == Init /\ [][Next]_vars

-----------------------------------------------------------------------------
(* Properties.                                                              *)

\* A client whose loop() is called in time is never dropped by the broker, although
\* it pings later than the keep-alive it announced, which is cut to whole seconds,
\* and although the broker looks at its clock before it looks at the data.
LiveClientIsKept == link = "server" => "client" \notin alive

\* A broker that makes its rounds is never given up by the client, whatever messages
\* come between PINGREQ and PINGRESP.
LiveServerIsKept == link = "client" => "server" \notin alive

\* A peer that falls silent is dropped one round after its time is up at the latest,
\* also when the clock wraps meanwhile.
SilentClientIsDropped == ServerRuns /\ limit # 0 => unread <= limit + Pass

\* A broker that falls silent is noticed by the client's own timer and timeout.
SilentServerIsNoticed == ClientRuns => unheard <= keepAlive + Gap + SocketTimeout

\* The wait for an answer ends, at the latest one read after its own deadline, however
\* long a broker that never answers goes on to send messages.
WaitsEnd == ClientRuns /\ waiting => Elapsed(waitStart) < SocketTimeout + SocketTimeout
=============================================================================
