-------------------------- MODULE KeepAlive_proofs --------------------------
(***************************************************************************)
(* Proofs about KeepAlive, for every interval, gap, delay and timeout that *)
(* TimingAssumption allows: neither side gives up a peer that is alive, and  *)
(* each notices in time a peer that is not, whatever the clock shows.      *)
(*                                                                         *)
(* The inductive invariant has five parts.  ClientTimes and ServerTimes    *)
(* bound what the two timers can show, and with it exclude that one of them   *)
(* wraps.  WaitTimes relates the two clocks of a wait, its deadline and the   *)
(* timeout of its current read.  PingToken follows the one ping a waiting   *)
(* client is owed an answer to, and bounds how long ago it was sent by where *)
(* it is.  Covered bounds how long the broker has read nothing, by the packet *)
(* that is to end it.                                                      *)
(***************************************************************************)
EXTENDS KeepAlive, TLAPS

Written == Elapsed(lastWrite)
Reading == Elapsed(readStart)
Waiting == Elapsed(waitStart)

Sides == {"client", "server"}
FromClient == {"PINGREQ", "PUBACK"}
FromServer == {"PINGRESP", "PUBLISH"}

Clocks ==
    /\ millis \in 0..(Wrap - 1) /\ lastWrite \in 0..(Wrap - 1)
    /\ lastRead \in 0..(Wrap - 1) /\ readStart \in 0..(Wrap - 1)
    /\ waitStart \in 0..(Wrap - 1)

Settings ==
    /\ keepAlive \in KeepAlives
    /\ limit = LimitFor((keepAlive \div Second) % MaxSeconds)

TypesOK ==
    /\ Clocks /\ Settings
    /\ alive \subseteq Sides \cup {"sender"} /\ link \in Sides \cup {"up"} /\ waiting \in BOOLEAN
    /\ toServer \subseteq Aged(FromClient) /\ toClient \subseteq Aged(FromServer)
    /\ arrived \subseteq FromClient
    /\ idle \in 0..Gap /\ passed \in 0..Pass
    /\ unread \in Nat /\ unheard \in Nat

\* What the client's timers can show, and how long it has heard nothing.
ClientTimes ==
    ClientRuns =>
        IF waiting
        THEN /\ lastWrite = readStart
             /\ Reading <= SocketTimeout
             /\ unheard <= keepAlive + Gap + Reading
        ELSE /\ Written <= keepAlive + SocketTimeout + idle
             /\ unheard <= Written /\ unheard <= keepAlive + idle

\* A read begins before the deadline of its wait, which is not over much later.
WaitTimes ==
    ClientRuns /\ waiting =>
        Reading <= SocketTimeout /\ Reading <= Waiting /\ Waiting < SocketTimeout + Reading

\* The broker's timer shows what it means to.
ServerTimes ==
    ServerRuns /\ limit # 0 => Elapsed(lastRead) = unread /\ unread <= limit + passed

Pings == {q \in toServer : q.type = "PINGREQ"}
Answers == {r \in toClient : r.type = "PINGRESP"}

\* A ping is in one place at a time, and only while the client waits.
OnePing ==
    ClientRuns =>
        /\ \A q1, q2 \in Pings : q1 = q2
        /\ \A r1, r2 \in Answers : r1 = r2
        /\ Pings # {} => "PINGREQ" \notin arrived
        /\ Pings # {} \/ "PINGREQ" \in arrived => Answers = {}
        /\ ~waiting => Pings = {} /\ Answers = {} /\ "PINGREQ" \notin arrived

\* With both sides alive, a waiting client's ping is somewhere, and it was there soon.
PingToken ==
    ClientRuns /\ ServerRuns /\ waiting =>
        /\ Pings # {} \/ "PINGREQ" \in arrived \/ Answers # {}
        /\ \A q \in Pings : Waiting <= q.age
        /\ "PINGREQ" \in arrived => Waiting <= Delay + passed
        /\ \A r \in Answers : Waiting <= Delay + Pass + r.age

\* The longest the broker reads nothing before the client writes again.
Quiet == IF keepAlive > Delay THEN keepAlive - 1 ELSE Delay

\* Something is under way that the broker is about to read.
UnderWay ==
    \/ \E q \in toServer : unread <= Quiet + Gap + q.age
    \/ arrived # {} /\ unread <= Quiet + Gap + Delay + passed

\* Nothing is, and the client will write in time.
ToBeWritten ==
    /\ toServer = {} /\ arrived = {}
    /\ unread <= Written
    /\ IF waiting THEN \E r \in Answers : unread <= r.age
                  ELSE unread <= Quiet + idle

Covered == ClientRuns /\ ServerRuns /\ limit # 0 => UnderWay \/ ToBeWritten

KeepAliveInv ==
    /\ TypesOK /\ ClientTimes /\ WaitTimes /\ ServerTimes /\ OnePing /\ PingToken
    /\ Covered /\ LiveClientIsKept /\ LiveServerIsKept

-----------------------------------------------------------------------------
(* Arithmetic.                                                             *)

LEMMA ModWrap ==
    ASSUME NEW x \in Nat, x < Wrap + Wrap
    PROVE  x % Wrap = IF x < Wrap THEN x ELSE x - Wrap
BY KeepAliveAssumption, SMT

LEMMA ElapsedIs ==
    ASSUME NEW since \in 0..(Wrap - 1), Clocks
    PROVE  Elapsed(since) = IF millis >= since THEN millis - since ELSE millis + Wrap - since
BY KeepAliveAssumption, ModWrap DEF Elapsed, Clocks


\* MaxSeconds does not cut what KeepAlives holds.
LEMMA SecondsFit ==
    ASSUME NEW m \in Nat \ {0}, NEW x \in Nat, x < m
    PROVE  x % m = x
BY SMT

LEMMA WholeSeconds ==
    ASSUME NEW s \in Nat \ {0}, NEW k \in Nat
    PROVE  /\ k \div s \in Nat
           /\ (k \div s) * s <= k /\ k + 1 <= (k \div s) * s + s
           /\ k \div s # 0 => s <= (k \div s) * s
<1> DEFINE n == k \div s
<1>1. n \in Nat
  BY SMT
<1>2. n * s <= k /\ k < n * s + s
  BY SMT
<1>3. ASSUME n # 0 PROVE s <= n * s
  <2> HIDE DEF n
  <2>1. PICK j \in Nat : n = j + 1
    BY <1>1, <1>3, SMT
  <2>2. n * s = j * s + s /\ j * s \in Nat
    BY <2>1, SMT
  <2> QED BY <2>2, SMT
<1>4. n * s \in Nat
  <2> HIDE DEF n
  <2> QED BY <1>1, SMT
<1> HIDE DEF n
<1>5. k + 1 <= n * s + s
  BY <1>2, <1>4, SMT
<1> QED BY <1>1, <1>2, <1>3, <1>5 DEF n

LEMMA LimitIs ==
    ASSUME Settings
    PROVE  /\ keepAlive \in Nat /\ limit \in Nat
           /\ limit # 0 => /\ Second + Tolerance <= limit
                           /\ keepAlive + 1 + Tolerance <= limit + Second
           /\ limit <= keepAlive + Tolerance
<1> DEFINE n == keepAlive \div Second
           m == n * Second
<1>1. keepAlive \in Nat /\ Second \in Nat \ {0} /\ MaxSeconds \in Nat \ {0} /\ Tolerance \in Nat
  BY KeepAliveAssumption DEF Settings
<1>2. n \in Nat /\ m <= keepAlive /\ keepAlive + 1 <= m + Second /\ (n # 0 => Second <= m)
  BY <1>1, WholeSeconds
<1>3. n % MaxSeconds = n
  BY <1>1, <1>2, TimingAssumption, SecondsFit DEF Settings
<1>4. limit = IF n = 0 THEN 0 ELSE m + Tolerance
  BY <1>3 DEF Settings, LimitFor
<1>5. m \in Nat
  <2> HIDE DEF n
  <2> QED BY <1>1, <1>2, SMT
<1> HIDE DEF n, m
<1> QED BY <1>1, <1>2, <1>4, <1>5, SMT

LEMMA Numbers ==
    /\ Wrap \in Nat \ {0} /\ Second \in Nat \ {0} /\ MaxSeconds \in Nat \ {0}
    /\ Tolerance \in Nat /\ SocketTimeout \in Nat /\ Gap \in Nat /\ Pass \in Nat
    /\ Delay \in Nat
BY KeepAliveAssumption

\* A timer started now shows 0; while it is short of its range, a tick adds 1.
LEMMA TimerStarts ==
    ASSUME NEW now \in 0..(Wrap - 1)
    PROVE  (now + Wrap - now) % Wrap = 0
BY Numbers, ModWrap

LEMMA TimerTicks ==
    ASSUME NEW now \in 0..(Wrap - 1), NEW since \in 0..(Wrap - 1),
           ((now + Wrap - since) % Wrap) + 1 < Wrap
    PROVE  /\ (now + 1) % Wrap \in 0..(Wrap - 1)
           /\ (((now + 1) % Wrap) + Wrap - since) % Wrap = ((now + Wrap - since) % Wrap) + 1
<1>1. (now + 1) % Wrap = IF now + 1 < Wrap THEN now + 1 ELSE 0
  BY Numbers, ModWrap
<1>2. (now + Wrap - since) % Wrap = IF now >= since THEN now - since ELSE now + Wrap - since
  BY Numbers, ModWrap
<1>3. \A t \in 0..(Wrap - 1) :
         (t + Wrap - since) % Wrap = IF t >= since THEN t - since ELSE t + Wrap - since
  BY Numbers, ModWrap
<1> QED BY <1>1, <1>2, <1>3, Numbers

LEMMA TimerRange ==
    ASSUME Clocks, NEW since \in 0..(Wrap - 1)
    PROVE  Elapsed(since) \in 0..(Wrap - 1)
BY Numbers, ElapsedIs DEF Clocks

-----------------------------------------------------------------------------
(* The types.                                                              *)

LEMMA OlderAre ==
    ASSUME NEW kinds, NEW packets \in SUBSET Aged(kinds),
           \A p \in packets : p.age < Delay
    PROVE  /\ Older(packets) \in SUBSET Aged(kinds)
           /\ \A q \in Older(packets) :
                 \E p \in packets : q.age = p.age + 1 /\ q.type = p.type
           /\ \A p \in packets :
                 \E q \in Older(packets) : q.age = p.age + 1 /\ q.type = p.type
<1>1. \A p \in packets : /\ p.age \in 0..Delay /\ p.type \in kinds
                         /\ p.age + 1 \in 0..Delay
                         /\ [p EXCEPT !.age = @ + 1] = [age |-> p.age + 1, type |-> p.type]
  BY Numbers DEF Aged
<1>2. \A p \in packets : /\ [p EXCEPT !.age = @ + 1] \in Aged(kinds)
                         /\ [p EXCEPT !.age = @ + 1].age = p.age + 1
                         /\ [p EXCEPT !.age = @ + 1].type = p.type
  BY <1>1 DEF Aged
<1> QED BY <1>2 DEF Older

LEMMA FreshIs ==
    ASSUME NEW kinds, NEW kind \in kinds
    PROVE  /\ Fresh(kind) \in Aged(kinds)
           /\ Fresh(kind).age = 0 /\ Fresh(kind).type = kind
BY Numbers DEF Fresh, Aged

LEMMA TypesInit == Init => TypesOK
<1> SUFFICES ASSUME Init PROVE TypesOK
  OBVIOUS
<1>1. Settings
  BY DEF Init, Settings
<1>2. Clocks
  BY Numbers DEF Init, Clocks
<1>3. 0 \in 0..Gap /\ 0 \in 0..Pass /\ 0 \in Nat /\ 0 \in 0..(Wrap - 1)
  BY Numbers
<1> QED BY <1>1, <1>2, <1>3 DEF Init, TypesOK, Sides

LEMMA TypesStep == TypesOK /\ [Next]_vars => TypesOK'
<1> SUFFICES ASSUME TypesOK, [Next]_vars PROVE TypesOK'
  OBVIOUS
<1> USE Numbers
<1>0. Settings'
  <2>1. Settings /\ UNCHANGED <<keepAlive, limit>>
    BY DEF Next, vars, TypesOK, ClientLoop, GetPingresp, GetPublish, MessageRead, NoPingresp,
           ServerDrops, ServerTurn, ServerSends, Arrives, Dies, Tick
  <2> QED BY <2>1 DEF Settings
<1>1. CASE ClientLoop
  <2>1. Fresh("PINGREQ") \in Aged(FromClient)
    BY FreshIs DEF FromClient
  <2>2. waiting' \in BOOLEAN
    BY <1>1, Zenon DEF ClientLoop, TypesOK
  <2>3. idle' \in 0..Gap /\ toServer' \subseteq Aged(FromClient)
    BY <1>1, <2>1 DEF ClientLoop, TypesOK
  <2>4. Clocks'
    BY <1>1 DEF ClientLoop, TypesOK, Clocks
  <2> QED BY <1>0, <1>1, <2>2, <2>3, <2>4 DEF ClientLoop, TypesOK
<1>2. CASE GetPingresp
  <2>1. waiting' \in BOOLEAN
    BY <1>2, Zenon DEF GetPingresp, Waited, TypesOK
  <2>2. idle' \in 0..Gap /\ toClient' \subseteq Aged(FromServer) /\ link' \in Sides \cup {"up"}
    BY <1>2 DEF GetPingresp, Waited, TypesOK, Sides
  <2>3. Clocks'
    BY <1>2 DEF GetPingresp, Waited, TypesOK, Clocks
  <2> QED BY <1>0, <1>2, <2>1, <2>2, <2>3 DEF GetPingresp, Waited, TypesOK
<1>3. CASE GetPublish
  <2>1. Fresh("PUBACK") \in Aged(FromClient)
    BY FreshIs DEF FromClient
  <2>2. \/ Waited /\ link' \in {link, "client"}
        \/ NextRead
    BY <1>3 DEF GetPublish, GivesUp
  <2>3. waiting' \in BOOLEAN
    <3>1. CASE Waited
      BY <3>1, Zenon DEF Waited
    <3>2. CASE NextRead
      BY <3>2, Zenon DEF NextRead, TypesOK
    <3> QED BY <2>2, <3>1, <3>2
  <2>4. idle' \in 0..Gap /\ link' \in Sides \cup {"up"}
    BY <2>2 DEF Waited, NextRead, TypesOK, Sides
  <2>5. Clocks'
    BY <1>3, <2>2 DEF GetPublish, MessageRead, Waited, NextRead, TypesOK, Clocks
  <2> QED BY <1>0, <1>3, <2>1, <2>3, <2>4, <2>5 DEF GetPublish, MessageRead, TypesOK
<1>4. CASE NoPingresp
  <2>1. waiting' \in BOOLEAN
    BY <1>4, Zenon DEF NoPingresp, GivesUp, Waited, TypesOK
  <2>2. idle' \in 0..Gap /\ toClient' \subseteq Aged(FromServer) /\ link' \in Sides \cup {"up"}
    BY <1>4 DEF NoPingresp, GivesUp, Waited, TypesOK, Sides
  <2>3. Clocks'
    BY <1>4 DEF NoPingresp, GivesUp, Waited, TypesOK, Clocks
  <2> QED BY <1>0, <1>4, <2>1, <2>2, <2>3 DEF NoPingresp, GivesUp, Waited, TypesOK
<1>5. CASE ServerDrops
  BY <1>0, <1>5 DEF ServerDrops, TypesOK, Clocks, Sides
<1>6. CASE ServerTurn
  <2>1. Fresh("PINGRESP") \in Aged(FromServer)
    BY FreshIs DEF FromServer
  <2> QED BY <1>0, <1>6, <2>1 DEF ServerTurn, TypesOK, Clocks
<1>7. CASE ServerSends
  <2>1. Fresh("PUBLISH") \in Aged(FromServer)
    BY FreshIs DEF FromServer
  <2> QED BY <1>0, <1>7, <2>1 DEF ServerSends, TypesOK, Clocks
<1>8. CASE Arrives
  BY <1>0, <1>8 DEF Arrives, TypesOK, Clocks, Aged
<1>9. CASE Dies
  BY <1>0, <1>9 DEF Dies, TypesOK, Clocks, Sides
<1>10. CASE Tick
  <2>1. millis' \in 0..(Wrap - 1)
    BY <1>10, ModWrap DEF Tick, TypesOK, Clocks
  <2>2. toServer' \subseteq Aged(FromClient)
    BY <1>10, OlderAre DEF Tick, TypesOK
  <2>3. toClient' \subseteq Aged(FromServer)
    BY <1>10, OlderAre DEF Tick, TypesOK
  <2>4. idle' \in 0..Gap /\ passed' \in 0..Pass /\ unread' \in Nat /\ unheard' \in Nat
    BY <1>10 DEF Tick, TypesOK
  <2> QED BY <1>0, <1>10, <2>1, <2>2, <2>3, <2>4 DEF Tick, TypesOK, Clocks
<1>11. CASE UNCHANGED vars
  BY <1>0, <1>11 DEF vars, TypesOK, Clocks
<1> QED BY <1>1, <1>2, <1>3, <1>4, <1>5, <1>6, <1>7, <1>8, <1>9, <1>10, <1>11 DEF Next

-----------------------------------------------------------------------------
(* The timers.                                                             *)

\* What the parts of the invariant say of the numbers, in one place.
LEMMA Ranges ==
    ASSUME TypesOK
    PROVE  /\ Written \in Nat /\ Reading \in Nat /\ Waiting \in Nat /\ Elapsed(lastRead) \in Nat
           /\ keepAlive \in Nat /\ limit \in Nat /\ limit <= keepAlive + Tolerance
           /\ limit # 0 => /\ Second + Tolerance <= limit
                           /\ keepAlive + 1 + Tolerance <= limit + Second
           /\ idle \in 0..Gap /\ passed \in 0..Pass /\ unread \in Nat /\ unheard \in Nat
           /\ keepAlive + Gap + SocketTimeout < Wrap /\ keepAlive + Tolerance + Pass < Wrap
<1>1. /\ Written \in 0..(Wrap - 1) /\ Reading \in 0..(Wrap - 1) /\ Waiting \in 0..(Wrap - 1)
      /\ Elapsed(lastRead) \in 0..(Wrap - 1)
  BY TimerRange DEF TypesOK, Clocks, Written, Reading, Waiting
<1>2. keepAlive + Gap + SocketTimeout < Wrap /\ keepAlive + Tolerance + Pass < Wrap
  BY TimingAssumption DEF TypesOK, Settings
<1>3. Settings /\ idle \in 0..Gap /\ passed \in 0..Pass /\ unread \in Nat /\ unheard \in Nat
  BY DEF TypesOK
<1>4. Wrap \in Nat
  BY Numbers
<1>5. Written \in Nat /\ Reading \in Nat /\ Waiting \in Nat /\ Elapsed(lastRead) \in Nat
  BY <1>1, <1>4
<1> QED BY <1>2, <1>3, <1>5, LimitIs

\* A timer that the step sets shows 0 after it.
LEMMA TimersStart ==
    ASSUME TypesOK, millis' = millis
    PROVE  /\ lastWrite' = millis => Written' = 0
           /\ readStart' = millis => Reading' = 0
           /\ waitStart' = millis => Waiting' = 0
           /\ lastRead' = millis => Elapsed(lastRead)' = 0
BY TimerStarts DEF TypesOK, Clocks, Written, Reading, Waiting, Elapsed

\* A tick moves every timer that is short of its range.
LEMMA TimersTick ==
    ASSUME TypesOK, Tick
    PROVE  /\ Written + 1 < Wrap => Written' = Written + 1
           /\ Reading + 1 < Wrap => Reading' = Reading + 1
           /\ Waiting + 1 < Wrap => Waiting' = Waiting + 1
           /\ Elapsed(lastRead) + 1 < Wrap => Elapsed(lastRead)' = Elapsed(lastRead) + 1
<1>1. /\ millis \in 0..(Wrap - 1) /\ lastWrite \in 0..(Wrap - 1)
      /\ readStart \in 0..(Wrap - 1) /\ waitStart \in 0..(Wrap - 1)
      /\ lastRead \in 0..(Wrap - 1)
  BY DEF TypesOK, Clocks
<1>2. millis' = (millis + 1) % Wrap /\ UNCHANGED <<lastWrite, readStart, waitStart, lastRead>>
  BY DEF Tick
<1>3. Written + 1 < Wrap => Written' = Written + 1
  BY <1>1, <1>2, TimerTicks DEF Written, Elapsed
<1>4. Reading + 1 < Wrap => Reading' = Reading + 1
  BY <1>1, <1>2, TimerTicks DEF Reading, Elapsed
<1>5. Elapsed(lastRead) + 1 < Wrap => Elapsed(lastRead)' = Elapsed(lastRead) + 1
  BY <1>1, <1>2, TimerTicks DEF Elapsed
<1>6. Waiting + 1 < Wrap => Waiting' = Waiting + 1
  BY <1>1, <1>2, TimerTicks DEF Waiting, Elapsed
<1> QED BY <1>3, <1>4, <1>5, <1>6

LEMMA ClientTimesStep == TypesOK /\ ClientTimes /\ [Next]_vars => ClientTimes'
<1> SUFFICES ASSUME TypesOK, ClientTimes, [Next]_vars, ClientRuns' PROVE
      IF waiting'
      THEN lastWrite' = readStart' /\ Reading' <= SocketTimeout
           /\ unheard' <= keepAlive' + Gap + Reading'
      ELSE Written' <= keepAlive' + SocketTimeout + idle'
           /\ unheard' <= Written' /\ unheard' <= keepAlive' + idle'
  BY DEF ClientTimes
<1> USE Numbers
<1>0. /\ Written \in Nat /\ Reading \in Nat /\ keepAlive \in Nat /\ idle \in 0..Gap
      /\ unheard \in Nat /\ keepAlive + Gap + SocketTimeout < Wrap /\ waiting \in BOOLEAN
  BY Ranges DEF TypesOK
<1>1. CASE ClientLoop
  <2>1. ~waiting /\ unheard <= Written /\ unheard <= keepAlive + idle
    BY <1>1 DEF ClientLoop, ClientTimes
  <2>2. CASE PingTime
    <3>1. waiting' /\ lastWrite' = millis /\ readStart' = millis /\ millis' = millis
          /\ unheard' = unheard /\ keepAlive' = keepAlive
      BY <1>1, <2>2 DEF ClientLoop
    <3>2. Reading' = 0
      BY <3>1, TimersStart
    <3> QED BY <1>0, <2>1, <3>1, <3>2
  <2>3. CASE ~PingTime
    <3>1. /\ ~waiting' /\ idle' = 0
          /\ UNCHANGED <<millis, lastWrite, unheard, keepAlive>>
      BY <1>1, <2>1, <2>3 DEF ClientLoop
    <3>2. Written' = Written /\ Written < keepAlive
      BY <1>0, <2>3, <3>1 DEF PingTime, Written, Elapsed
    <3> QED BY <1>0, <2>1, <3>1, <3>2
  <2> QED BY <2>2, <2>3
<1>2. CASE GetPingresp
  <2>1. /\ waiting /\ ~waiting' /\ idle' = 0 /\ unheard' = 0
        /\ UNCHANGED <<millis, lastWrite, keepAlive>>
    BY <1>2 DEF GetPingresp, Waited, ClientRuns
  <2>2. ClientRuns /\ lastWrite = readStart /\ Reading <= SocketTimeout
    BY <1>2, <2>1 DEF GetPingresp, ClientTimes
  <2>3. Written' = Reading
    BY <2>1, <2>2 DEF Written, Reading, Elapsed
  <2> QED BY <1>0, <2>1, <2>2, <2>3
<1>3. CASE GetPublish
  <2>1. /\ lastWrite' = millis /\ millis' = millis /\ unheard' = 0
        /\ UNCHANGED <<keepAlive>>
    BY <1>3 DEF GetPublish, MessageRead
  <2>2. Written' = 0
    BY <2>1, TimersStart
  <2>3. CASE Waited /\ UNCHANGED link
    <3>1. ~waiting' /\ idle' = 0
      BY <2>3 DEF Waited
    <3> QED BY <1>0, <2>1, <2>2, <3>1
  <2>4. CASE waiting /\ NextRead
    <3>1. waiting' /\ readStart' = millis
      BY <2>4 DEF NextRead
    <3>2. Reading' = 0
      BY <2>1, <3>1, TimersStart
    <3> QED BY <1>0, <2>1, <3>1, <3>2
  <2>5. CASE GivesUp
    BY <2>5 DEF GivesUp, ClientRuns
  <2> QED BY <1>3, <2>3, <2>4, <2>5 DEF GetPublish
<1>4. CASE NoPingresp
  BY <1>4 DEF NoPingresp, GivesUp, ClientRuns
<1>5. CASE ServerDrops
  BY <1>5 DEF ServerDrops, ClientRuns
<1>6. CASE ServerTurn \/ ServerSends \/ Arrives \/ Dies \/ UNCHANGED vars
  <2>1. UNCHANGED <<millis, link, waiting, lastWrite, readStart, keepAlive, unheard, idle>>
        /\ ClientRuns
    BY <1>6 DEF ServerTurn, ServerSends, Arrives, Dies, vars, ClientRuns
  <2>2. Written' = Written /\ Reading' = Reading
    BY <2>1 DEF Written, Reading, Elapsed
  <2> QED BY <2>1, <2>2 DEF ClientTimes
<1>7. CASE Tick
  <2>1. /\ ClientRuns /\ UNCHANGED <<waiting, lastWrite, readStart, keepAlive>>
        /\ unheard' = unheard + 1
        /\ IF waiting THEN Reading < SocketTimeout ELSE idle < Gap /\ idle' = idle + 1
    BY <1>7 DEF Tick, ClientRuns, Reading
  <2>2. CASE waiting
    <3>1. Reading' = Reading + 1
      BY <1>0, <1>7, <2>1, <2>2, TimersTick
    <3> QED BY <1>0, <2>1, <2>2, <3>1 DEF ClientTimes
  <2>3. CASE ~waiting
    <3>1. Written <= keepAlive + SocketTimeout + idle /\ idle + 1 <= Gap
      BY <1>0, <2>1, <2>3 DEF ClientTimes
    <3>2. Written' = Written + 1
      BY <1>0, <1>7, <3>1, TimersTick
    <3> QED BY <1>0, <2>1, <2>3, <3>1, <3>2 DEF ClientTimes
  <2> QED BY <2>2, <2>3
<1> QED BY <1>1, <1>2, <1>3, <1>4, <1>5, <1>6, <1>7 DEF Next

\* A wait begins with its first read; another read begins only before the deadline.
LEMMA WaitTimesStep == TypesOK /\ WaitTimes /\ [Next]_vars => WaitTimes'
<1> SUFFICES ASSUME TypesOK, WaitTimes, [Next]_vars, ClientRuns', waiting'
             PROVE  /\ Reading' <= SocketTimeout /\ Reading' <= Waiting'
                    /\ Waiting' < SocketTimeout + Reading'
  BY DEF WaitTimes
<1> USE Numbers
<1>0. /\ Reading \in Nat /\ Waiting \in Nat /\ 0 < SocketTimeout
      /\ SocketTimeout + SocketTimeout < Wrap
  BY Ranges, TimingAssumption
<1>1. CASE ClientLoop
  <2>1. waitStart' = millis /\ readStart' = millis /\ millis' = millis
    BY <1>1 DEF ClientLoop
  <2>2. Reading' = 0 /\ Waiting' = 0
    BY <2>1, TimersStart
  <2> QED BY <1>0, <2>2
<1>2. CASE GetPublish
  <2>1. waiting /\ ~PastDeadline /\ NextRead
    BY <1>2 DEF GetPublish, GivesUp, Waited
  <2>2. readStart' = millis /\ millis' = millis /\ waitStart' = waitStart
    BY <1>2, <2>1 DEF GetPublish, MessageRead, NextRead
  <2>3. Reading' = 0 /\ Waiting' = Waiting
    BY <2>2, TimersStart DEF Waiting, Elapsed
  <2>4. Waiting < SocketTimeout
    BY <1>0, <2>1 DEF PastDeadline, Waiting
  <2> QED BY <1>0, <2>3, <2>4
<1>3. CASE GetPingresp \/ NoPingresp \/ ServerDrops
  BY <1>3 DEF GetPingresp, NoPingresp, GivesUp, Waited, ServerDrops, ClientRuns
<1>4. CASE ServerTurn \/ ServerSends \/ Arrives \/ Dies \/ UNCHANGED vars
  <2>1. UNCHANGED <<millis, waiting, waitStart, readStart>> /\ ClientRuns
    BY <1>4 DEF ServerTurn, ServerSends, Arrives, Dies, vars, ClientRuns
  <2>2. Waiting' = Waiting /\ Reading' = Reading
    BY <2>1 DEF Waiting, Reading, Elapsed
  <2> QED BY <2>1, <2>2 DEF WaitTimes
<1>5. CASE Tick
  <2>1. ClientRuns /\ waiting /\ Reading < SocketTimeout
    BY <1>5 DEF Tick, ClientRuns, Reading
  <2>2. Reading <= Waiting /\ Waiting < SocketTimeout + Reading
    BY <2>1 DEF WaitTimes
  <2>3. Reading' = Reading + 1 /\ Waiting' = Waiting + 1
    BY <1>0, <1>5, <2>1, <2>2, TimersTick
  <2> QED BY <1>0, <2>1, <2>2, <2>3
<1> QED BY <1>1, <1>2, <1>3, <1>4, <1>5 DEF Next

LEMMA ServerTimesStep == TypesOK /\ ServerTimes /\ [Next]_vars => ServerTimes'
<1> SUFFICES ASSUME TypesOK, ServerTimes, [Next]_vars, ServerRuns', limit' # 0
             PROVE  Elapsed(lastRead)' = unread' /\ unread' <= limit' + passed'
  BY DEF ServerTimes
<1> USE Numbers
<1>0. /\ Elapsed(lastRead) \in Nat /\ limit \in Nat /\ limit <= keepAlive + Tolerance
      /\ passed \in 0..Pass /\ unread \in Nat /\ keepAlive \in Nat
      /\ keepAlive + Tolerance + Pass < Wrap
  BY Ranges
<1>1. CASE ServerTurn
  <2>1. /\ UNCHANGED <<millis, limit>> /\ passed' = 0 /\ ~Expired /\ ServerRuns
        /\ \/ lastRead' = millis /\ unread' = 0
           \/ UNCHANGED <<lastRead, unread>>
    BY <1>1 DEF ServerTurn
  <2>2. Elapsed(lastRead) = unread /\ unread <= limit
    BY <1>0, <2>1 DEF ServerTimes, Expired
  <2>3. CASE lastRead' = millis /\ unread' = 0
    <3>1. Elapsed(lastRead)' = 0
      BY <2>1, <2>3, TimersStart
    <3> QED BY <1>0, <2>1, <2>3, <3>1
  <2>4. CASE UNCHANGED <<lastRead, unread>>
    <3>1. Elapsed(lastRead)' = Elapsed(lastRead)
      BY <2>1, <2>4 DEF Elapsed
    <3> QED BY <1>0, <2>1, <2>2, <2>4, <3>1
  <2> QED BY <2>1, <2>3, <2>4
<1>2. CASE ServerDrops \/ NoPingresp
  BY <1>2 DEF ServerDrops, NoPingresp, GivesUp, ServerRuns
<1>3. CASE ClientLoop \/ GetPingresp \/ GetPublish \/ ServerSends \/ Arrives \/ Dies
           \/ UNCHANGED vars
  <2>1. UNCHANGED <<millis, limit, lastRead, passed, unread>>
    BY <1>3 DEF ClientLoop, GetPingresp, GetPublish, MessageRead, ServerSends, Arrives, Dies,
                vars
  <2>2. ServerRuns
    <3>1. CASE GetPublish
      BY <3>1 DEF GetPublish, MessageRead, ServerRuns, ClientRuns
    <3>2. CASE ~GetPublish
      BY <1>3, <3>2 DEF ClientLoop, GetPingresp, ServerSends, Arrives, Dies, vars,
                        ServerRuns, ClientRuns
    <3> QED BY <3>1, <3>2
  <2>3. Elapsed(lastRead)' = Elapsed(lastRead)
    BY <2>1 DEF Elapsed
  <2> QED BY <2>1, <2>2, <2>3 DEF ServerTimes
<1>4. CASE Tick
  <2>1. /\ ServerRuns /\ UNCHANGED <<limit, lastRead>>
        /\ passed < Pass /\ passed' = passed + 1 /\ unread' = unread + 1
    BY <1>4 DEF Tick, ServerRuns
  <2>2. Elapsed(lastRead) = unread /\ unread <= limit + passed
    BY <2>1 DEF ServerTimes
  <2>3. Elapsed(lastRead)' = Elapsed(lastRead) + 1
    BY <1>0, <1>4, <2>1, <2>2, TimersTick
  <2> QED BY <1>0, <2>1, <2>2, <2>3
<1> QED BY <1>1, <1>2, <1>3, <1>4 DEF Next

-----------------------------------------------------------------------------
(* The ping a waiting client is owed an answer to.                         *)

LEMMA PacketsAre ==
    ASSUME TypesOK
    PROVE  /\ \A q \in Pings : q \in toServer /\ q.type = "PINGREQ" /\ q.age \in 0..Delay
           /\ \A r \in Answers : r \in toClient /\ r.type = "PINGRESP" /\ r.age \in 0..Delay
           /\ \A q \in toServer : q.age \in 0..Delay /\ q.type \in FromClient
           /\ \A r \in toClient : r.age \in 0..Delay /\ r.type \in FromServer
BY DEF TypesOK, Aged, Pings, Answers

LEMMA SamePacket ==
    ASSUME NEW kinds, NEW p \in Aged(kinds), NEW q \in Aged(kinds),
           p.age = q.age, p.type = q.type
    PROVE  p = q
BY DEF Aged

\* A tick makes every ping and every answer one older, unless its receiver is dead.
LEMMA PingsTick ==
    ASSUME TypesOK, Tick
    PROVE  /\ \A q \in Pings' : "server" \in alive /\ \E p \in Pings : q.age = p.age + 1
           /\ "server" \in alive => \A p \in Pings : \E q \in Pings' : q.age = p.age + 1
           /\ (\A p1, p2 \in Pings : p1 = p2) => \A q1, q2 \in Pings' : q1 = q2
<1>1. "server" \notin alive => Pings' = {}
  BY DEF Tick, Pings
<1>2. ASSUME "server" \in alive
      PROVE  /\ toServer' \in SUBSET Aged(FromClient)
             /\ \A q \in toServer' :
                   \E p \in toServer : q.age = p.age + 1 /\ q.type = p.type
             /\ \A p \in toServer :
                   \E q \in toServer' : q.age = p.age + 1 /\ q.type = p.type
  <2>1. toServer' = Older(toServer) /\ \A p \in toServer : p.age < Delay
    BY <1>2 DEF Tick
  <2>2. toServer \in SUBSET Aged(FromClient)
    BY DEF TypesOK
  <2> QED BY <2>1, <2>2, OlderAre
<1>3. \A q \in Pings' : "server" \in alive /\ \E p \in Pings : q.age = p.age + 1
  BY <1>1, <1>2 DEF Pings
<1>4. ASSUME "server" \in alive
      PROVE  \A p \in Pings : \E q \in Pings' : q.age = p.age + 1
  BY <1>2, <1>4 DEF Pings
<1>5. ASSUME \A p1, p2 \in Pings : p1 = p2, NEW q1 \in Pings', NEW q2 \in Pings'
      PROVE  q1 = q2
  <2>1. PICK p1 \in Pings : q1.age = p1.age + 1
    BY <1>3
  <2>2. PICK p2 \in Pings : q2.age = p2.age + 1
    BY <1>3
  <2>3. q1.age = q2.age /\ q1.type = "PINGREQ" /\ q2.type = "PINGREQ"
    BY <1>5, <2>1, <2>2 DEF Pings
  <2>4. q1 \in Aged(FromClient) /\ q2 \in Aged(FromClient)
    BY <1>2, <1>3 DEF Pings
  <2> QED BY <2>3, <2>4, SamePacket
<1> QED BY <1>3, <1>4, <1>5

LEMMA AnswersTick ==
    ASSUME TypesOK, Tick
    PROVE  /\ \A q \in Answers' : "client" \in alive /\ \E p \in Answers : q.age = p.age + 1
           /\ "client" \in alive => \A p \in Answers : \E q \in Answers' : q.age = p.age + 1
           /\ (\A p1, p2 \in Answers : p1 = p2) => \A q1, q2 \in Answers' : q1 = q2
<1>1. "client" \notin alive => Answers' = {}
  BY DEF Tick, Answers
<1>2. ASSUME "client" \in alive
      PROVE  /\ toClient' \in SUBSET Aged(FromServer)
             /\ \A q \in toClient' :
                   \E p \in toClient : q.age = p.age + 1 /\ q.type = p.type
             /\ \A p \in toClient :
                   \E q \in toClient' : q.age = p.age + 1 /\ q.type = p.type
  <2>1. toClient' = Older(toClient) /\ \A p \in toClient : p.age < Delay
    BY <1>2 DEF Tick
  <2>2. toClient \in SUBSET Aged(FromServer)
    BY DEF TypesOK
  <2> QED BY <2>1, <2>2, OlderAre
<1>3. \A q \in Answers' : "client" \in alive /\ \E p \in Answers : q.age = p.age + 1
  BY <1>1, <1>2 DEF Answers
<1>4. ASSUME "client" \in alive
      PROVE  \A p \in Answers : \E q \in Answers' : q.age = p.age + 1
  BY <1>2, <1>4 DEF Answers
<1>5. ASSUME \A p1, p2 \in Answers : p1 = p2, NEW q1 \in Answers', NEW q2 \in Answers'
      PROVE  q1 = q2
  <2>1. PICK p1 \in Answers : q1.age = p1.age + 1
    BY <1>3
  <2>2. PICK p2 \in Answers : q2.age = p2.age + 1
    BY <1>3
  <2>3. q1.age = q2.age /\ q1.type = "PINGRESP" /\ q2.type = "PINGRESP"
    BY <1>5, <2>1, <2>2 DEF Answers
  <2>4. q1 \in Aged(FromServer) /\ q2 \in Aged(FromServer)
    BY <1>2, <1>3 DEF Answers
  <2> QED BY <2>3, <2>4, SamePacket
<1> QED BY <1>3, <1>4, <1>5

\* What the other steps do to them.
LEMMA PingSent ==
    ASSUME TypesOK, ClientLoop
    PROVE  /\ Answers' = Answers /\ arrived' = arrived
           /\ IF PingTime
              THEN /\ Pings' = Pings \cup {Fresh("PINGREQ")}
                   /\ waiting' /\ waitStart' = millis /\ millis' = millis
              ELSE Pings' = Pings /\ ~waiting'
<1>1. Fresh("PINGREQ").type = "PINGREQ"
  BY DEF Fresh
<1>2. CASE PingTime
  BY <1>1, <1>2 DEF ClientLoop, Pings, Answers
<1>3. CASE ~PingTime
  BY <1>3 DEF ClientLoop, Pings, Answers
<1> QED BY <1>2, <1>3

LEMMA PingTokenMoves ==
    ASSUME TypesOK
    PROVE  /\ GetPingresp => /\ \E r \in Answers : Answers' = Answers \ {r}
                             /\ Pings' = Pings /\ arrived' = arrived
           /\ GetPublish => UNCHANGED <<Pings, Answers, arrived>>
           /\ ServerTurn => /\ Pings' = Pings /\ arrived' = {}
                            /\ IF "PINGREQ" \in arrived
                               THEN Answers' = Answers \cup {Fresh("PINGRESP")}
                               ELSE Answers' = Answers
           /\ ServerSends => UNCHANGED <<Pings, Answers, arrived>>
           /\ Arrives => /\ Answers' = Answers
                         /\ \/ \E q \in Pings : /\ Pings' = Pings \ {q}
                                                /\ arrived' = arrived \cup {"PINGREQ"}
                            \/ /\ Pings' = Pings
                               /\ arrived' \ {"PUBACK"} = arrived \ {"PUBACK"}
<1>0. Fresh("PINGRESP").type = "PINGRESP" /\ Fresh("PUBLISH").type = "PUBLISH"
      /\ Fresh("PUBACK").type = "PUBACK"
  BY DEF Fresh
<1>1. ASSUME GetPingresp
      PROVE  (\E r \in Answers : Answers' = Answers \ {r}) /\ Pings' = Pings /\ arrived' = arrived
  <2>1. PICK r \in toClient : r.type = "PINGRESP" /\ toClient' = toClient \ {r}
    BY <1>1 DEF GetPingresp
  <2>2. r \in Answers /\ Answers' = Answers \ {r}
    BY <2>1 DEF Answers
  <2> QED BY <1>1, <2>2 DEF GetPingresp, Pings
<1>2. GetPublish => UNCHANGED <<Pings, Answers, arrived>>
  BY <1>0 DEF GetPublish, MessageRead, Pings, Answers
<1>3. ASSUME ServerTurn
      PROVE  /\ Pings' = Pings /\ arrived' = {}
             /\ IF "PINGREQ" \in arrived THEN Answers' = Answers \cup {Fresh("PINGRESP")}
                                         ELSE Answers' = Answers
  BY <1>0, <1>3 DEF ServerTurn, Pings, Answers
<1>4. ServerSends => UNCHANGED <<Pings, Answers, arrived>>
  BY <1>0 DEF ServerSends, Pings, Answers
<1>5. ASSUME Arrives
      PROVE  /\ Answers' = Answers
             /\ \/ \E q \in Pings : /\ Pings' = Pings \ {q}
                                    /\ arrived' = arrived \cup {"PINGREQ"}
                \/ Pings' = Pings /\ arrived' \ {"PUBACK"} = arrived \ {"PUBACK"}
  <2>1. PICK q \in toServer : toServer' = toServer \ {q} /\ arrived' = arrived \cup {q.type}
    BY <1>5 DEF Arrives
  <2>2. Answers' = Answers
    BY <1>5 DEF Arrives, Answers
  <2>3. q.type = "PINGREQ" \/ q.type = "PUBACK"
    BY PacketsAre DEF FromClient
  <2>4. CASE q.type = "PINGREQ"
    <3>1. q \in Pings /\ Pings' = Pings \ {q}
      BY <2>1, <2>4 DEF Pings
    <3> QED BY <2>1, <2>2, <2>4, <3>1
  <2>5. CASE q.type = "PUBACK"
    <3>1. Pings' = Pings
      BY <2>1, <2>5 DEF Pings
    <3> QED BY <2>1, <2>2, <2>5, <3>1
  <2> QED BY <2>3, <2>4, <2>5
<1> QED BY <1>1, <1>2, <1>3, <1>4, <1>5

LEMMA OnePingStep == TypesOK /\ OnePing /\ [Next]_vars => OnePing'
<1> SUFFICES ASSUME TypesOK, OnePing, [Next]_vars, ClientRuns' PROVE
      /\ \A q1, q2 \in Pings' : q1 = q2
      /\ \A r1, r2 \in Answers' : r1 = r2
      /\ Pings' # {} => "PINGREQ" \notin arrived'
      /\ Pings' # {} \/ "PINGREQ" \in arrived' => Answers' = {}
      /\ ~waiting' => Pings' = {} /\ Answers' = {} /\ "PINGREQ" \notin arrived'
  BY DEF OnePing
<1>0. ClientRuns =>
        /\ \A q1, q2 \in Pings : q1 = q2
        /\ \A r1, r2 \in Answers : r1 = r2
        /\ Pings # {} => "PINGREQ" \notin arrived
        /\ Pings # {} \/ "PINGREQ" \in arrived => Answers = {}
        /\ ~waiting => Pings = {} /\ Answers = {} /\ "PINGREQ" \notin arrived
  BY DEF OnePing
<1>1. CASE ClientLoop
  <2>1. ~waiting /\ ClientRuns
    BY <1>1 DEF ClientLoop
  <2>2. CASE PingTime
    <3>1. /\ Pings' = Pings \cup {Fresh("PINGREQ")} /\ Answers' = Answers
          /\ arrived' = arrived /\ waiting'
      BY <1>1, <2>2, PingSent
    <3> QED BY <1>0, <2>1, <3>1
  <2>3. CASE ~PingTime
    <3>1. Pings' = Pings /\ Answers' = Answers /\ arrived' = arrived
      BY <1>1, <2>3, PingSent
    <3> QED BY <1>0, <2>1, <3>1
  <2> QED BY <2>2, <2>3
<1>2. CASE GetPingresp
  <2>1. PICK r \in Answers : Answers' = Answers \ {r} /\ Pings' = Pings /\ arrived' = arrived
    BY <1>2, PingTokenMoves
  <2>2. ClientRuns
    BY <1>2 DEF GetPingresp
  <2> QED BY <1>0, <2>1, <2>2
<1>3. CASE GetPublish \/ ServerSends \/ Dies \/ UNCHANGED vars
  <2>1. UNCHANGED <<Pings, Answers, arrived>>
    BY <1>3, PingTokenMoves DEF Dies, vars, Pings, Answers
  <2>2. ClientRuns
    BY <1>3 DEF GetPublish, MessageRead, ServerSends, Dies, vars, ClientRuns
  <2>3. ~waiting' => ~waiting
    BY <1>3 DEF GetPublish, GivesUp, NextRead, ServerSends, Dies, vars, ClientRuns
  <2> QED BY <1>0, <2>1, <2>2, <2>3
<1>4. CASE NoPingresp \/ ServerDrops
  BY <1>4 DEF NoPingresp, GivesUp, ServerDrops, ClientRuns
<1>5. CASE ServerTurn
  <2>1. ClientRuns /\ waiting' = waiting
    BY <1>5 DEF ServerTurn, ClientRuns
  <2>2. /\ Pings' = Pings /\ arrived' = {}
        /\ IF "PINGREQ" \in arrived THEN Answers' = Answers \cup {Fresh("PINGRESP")}
                                    ELSE Answers' = Answers
    BY <1>5, PingTokenMoves
  <2>3. CASE "PINGREQ" \in arrived
    BY <1>0, <2>1, <2>2, <2>3
  <2>4. CASE "PINGREQ" \notin arrived
    BY <1>0, <2>1, <2>2, <2>4
  <2> QED BY <2>3, <2>4
<1>6. CASE Arrives
  <2>1. ClientRuns /\ waiting' = waiting
    BY <1>6 DEF Arrives, ClientRuns
  <2>2. Answers' = Answers
    BY <1>6, PingTokenMoves
  <2>3. CASE \E q \in Pings : Pings' = Pings \ {q} /\ arrived' = arrived \cup {"PINGREQ"}
    BY <1>0, <2>1, <2>2, <2>3
  <2>4. CASE Pings' = Pings /\ arrived' \ {"PUBACK"} = arrived \ {"PUBACK"}
    <3>1. "PINGREQ" \in arrived' <=> "PINGREQ" \in arrived
      BY <2>4
    <3> QED BY <1>0, <2>1, <2>2, <2>4, <3>1
  <2> QED BY <1>6, <2>3, <2>4, PingTokenMoves
<1>7. CASE Tick
  <2>1. ClientRuns /\ waiting' = waiting /\ arrived' = arrived
    BY <1>7 DEF Tick, ClientRuns
  <2>2. (Pings = {} => Pings' = {}) /\ (Answers = {} => Answers' = {})
    BY <1>7, PingsTick, AnswersTick
  <2>3. (\A q1, q2 \in Pings' : q1 = q2) /\ (\A r1, r2 \in Answers' : r1 = r2)
    BY <1>0, <1>7, <2>1, PingsTick, AnswersTick
  <2> QED BY <1>0, <2>1, <2>2, <2>3
<1> QED BY <1>1, <1>2, <1>3, <1>4, <1>5, <1>6, <1>7 DEF Next

LEMMA PingTokenStep == TypesOK /\ OnePing /\ WaitTimes /\ PingToken /\ [Next]_vars => PingToken'
<1> SUFFICES ASSUME TypesOK, OnePing, WaitTimes, PingToken, [Next]_vars,
                    ClientRuns', ServerRuns', waiting'
             PROVE  /\ Pings' # {} \/ "PINGREQ" \in arrived' \/ Answers' # {}
                    /\ \A q \in Pings' : Waiting' <= q.age
                    /\ "PINGREQ" \in arrived' => Waiting' <= Delay + passed'
                    /\ \A r \in Answers' : Waiting' <= Delay + Pass + r.age
  BY DEF PingToken
<1> USE Numbers
<1>0. /\ Waiting \in Nat /\ Reading \in Nat /\ passed \in 0..Pass /\ keepAlive \in Nat
      /\ SocketTimeout + SocketTimeout < Wrap /\ waiting \in BOOLEAN /\ alive \subseteq Sides \cup {"sender"}
  BY Ranges, TimingAssumption DEF TypesOK
<1>1. /\ \A q \in Pings : q.age \in 0..Delay
      /\ \A r \in Answers : r.age \in 0..Delay
  BY PacketsAre
<1>2. Fresh("PINGREQ").age = 0 /\ Fresh("PINGRESP").age = 0
  BY DEF Fresh
<1>3. ClientRuns /\ ServerRuns /\ waiting =>
        /\ Pings # {} \/ "PINGREQ" \in arrived \/ Answers # {}
        /\ \A q \in Pings : Waiting <= q.age
        /\ "PINGREQ" \in arrived => Waiting <= Delay + passed
        /\ \A r \in Answers : Waiting <= Delay + Pass + r.age
  BY DEF PingToken
<1>4. CASE ClientLoop
  <2>1. ~waiting /\ ClientRuns
    BY <1>4 DEF ClientLoop
  <2>2. PingTime
    BY <1>4, PingSent
  <2>3. /\ Pings' = Pings \cup {Fresh("PINGREQ")} /\ Answers' = Answers
        /\ arrived' = arrived /\ waitStart' = millis /\ millis' = millis
    BY <1>4, <2>2, PingSent
  <2>4. Pings = {} /\ Answers = {} /\ "PINGREQ" \notin arrived
    BY <2>1 DEF OnePing
  <2>5. Waiting' = 0
    BY <2>3, TimersStart
  <2> QED BY <1>2, <2>3, <2>4, <2>5
<1>5. CASE GetPingresp \/ NoPingresp \/ ServerDrops
  BY <1>5 DEF GetPingresp, NoPingresp, GivesUp, Waited, ServerDrops, ServerRuns
<1>6. CASE GetPublish
  <2>1. UNCHANGED <<Pings, Answers, arrived>>
    BY <1>6, PingTokenMoves
  <2>2. waiting /\ NextRead
    BY <1>6 DEF GetPublish, GivesUp, Waited
  <2>3. /\ ClientRuns /\ ServerRuns /\ UNCHANGED <<passed, waitStart, millis>>
    BY <1>6, <2>2 DEF GetPublish, MessageRead, NextRead, ClientRuns, ServerRuns
  <2>4. Waiting' = Waiting
    BY <2>3 DEF Waiting, Elapsed
  <2> QED BY <1>3, <2>1, <2>2, <2>3, <2>4
<1>7. CASE ServerSends \/ Dies \/ UNCHANGED vars
  <2>1. UNCHANGED <<Pings, Answers, arrived>>
    BY <1>7, PingTokenMoves DEF Dies, vars, Pings, Answers
  <2>2. UNCHANGED <<waiting, passed, waitStart, millis>> /\ ClientRuns /\ ServerRuns
    BY <1>7 DEF ServerSends, Dies, vars, ClientRuns, ServerRuns
  <2>3. Waiting' = Waiting
    BY <2>2 DEF Waiting, Elapsed
  <2> QED BY <1>3, <2>1, <2>2, <2>3
<1>8. CASE ServerTurn
  <2>1. /\ UNCHANGED <<waiting, waitStart, millis>> /\ passed' = 0
        /\ ClientRuns /\ ServerRuns /\ waiting
    BY <1>8 DEF ServerTurn, ClientRuns, ServerRuns
  <2>2. Waiting' = Waiting
    BY <2>1 DEF Waiting, Elapsed
  <2>3. /\ Pings' = Pings /\ arrived' = {}
        /\ IF "PINGREQ" \in arrived THEN Answers' = Answers \cup {Fresh("PINGRESP")}
                                    ELSE Answers' = Answers
    BY <1>8, PingTokenMoves
  <2>4. CASE "PINGREQ" \in arrived
    <3>1. Answers' = {Fresh("PINGRESP")} /\ Pings' = {}
      BY <2>1, <2>3, <2>4 DEF OnePing
    <3>2. Waiting <= Delay + Pass
      BY <1>0, <1>3, <2>1, <2>4
    <3> QED BY <1>0, <1>2, <2>2, <2>3, <3>1, <3>2
  <2>5. CASE "PINGREQ" \notin arrived
    BY <1>3, <2>1, <2>2, <2>3, <2>5
  <2> QED BY <2>4, <2>5
<1>9. CASE Arrives
  <2>1. /\ UNCHANGED <<waiting, passed, waitStart, millis>>
        /\ ClientRuns /\ ServerRuns /\ waiting
    BY <1>9 DEF Arrives, ClientRuns, ServerRuns
  <2>2. Waiting' = Waiting
    BY <2>1 DEF Waiting, Elapsed
  <2>3. Answers' = Answers
    BY <1>9, PingTokenMoves
  <2>4. CASE \E q \in Pings : Pings' = Pings \ {q} /\ arrived' = arrived \cup {"PINGREQ"}
    <3>1. PICK q \in Pings : Pings' = Pings \ {q} /\ arrived' = arrived \cup {"PINGREQ"}
      BY <2>4
    <3>2. Waiting <= Delay + passed
      BY <1>0, <1>1, <1>3, <2>1
    <3> QED BY <1>3, <2>1, <2>2, <2>3, <3>1, <3>2
  <2>5. CASE Pings' = Pings /\ arrived' \ {"PUBACK"} = arrived \ {"PUBACK"}
    <3>1. "PINGREQ" \in arrived' <=> "PINGREQ" \in arrived
      BY <2>5
    <3> QED BY <1>3, <2>1, <2>2, <2>3, <2>5, <3>1
  <2> QED BY <1>9, <2>4, <2>5, PingTokenMoves
<1>10. CASE Tick
  <2>1. /\ UNCHANGED <<waiting, arrived>> /\ passed' = passed + 1
        /\ ClientRuns /\ ServerRuns /\ waiting /\ Reading < SocketTimeout
    BY <1>10 DEF Tick, ClientRuns, ServerRuns, Reading
  <2>2. Waiting' = Waiting + 1
    <3>1. Waiting + 1 < Wrap
      BY <1>0, <2>1, Numbers DEF WaitTimes
    <3> QED BY <1>10, <3>1, TimersTick
  <2>3. "client" \in alive /\ "server" \in alive
    BY <2>1 DEF ClientRuns, ServerRuns
  <2>4. (Pings # {} => Pings' # {}) /\ (Answers # {} => Answers' # {})
    BY <1>10, <2>3, PingsTick, AnswersTick
  <2>5. ASSUME NEW q \in Pings' PROVE Waiting' <= q.age
    <3>1. PICK p \in Pings : q.age = p.age + 1
      BY <1>10, <2>3, PingsTick
    <3> QED BY <1>0, <1>1, <1>3, <2>1, <2>2, <3>1
  <2>6. ASSUME NEW r \in Answers' PROVE Waiting' <= Delay + Pass + r.age
    <3>1. PICK p \in Answers : r.age = p.age + 1
      BY <1>10, <2>3, AnswersTick
    <3> QED BY <1>0, <1>1, <1>3, <2>1, <2>2, <3>1
  <2>7. "PINGREQ" \in arrived' => Waiting' <= Delay + passed'
    BY <1>0, <1>3, <2>1, <2>2
  <2> QED BY <1>3, <2>1, <2>4, <2>5, <2>6, <2>7
<1> QED BY <1>4, <1>5, <1>6, <1>7, <1>8, <1>9, <1>10 DEF Next

\* With both sides alive, the answer comes before the deadline.
LEMMA AnswerInTime ==
    ASSUME TypesOK, PingToken, ClientRuns, ServerRuns, waiting
    PROVE  Waiting < SocketTimeout
<1>1. /\ Waiting \in Nat /\ passed \in 0..Pass
      /\ \A q \in Pings : q.age \in 0..Delay
      /\ \A r \in Answers : r.age \in 0..Delay
  BY Ranges, PacketsAre
<1>2. Waiting <= Delay + Pass + Delay
  <2>1. CASE Pings # {}
    BY <1>1, <2>1, Numbers DEF PingToken
  <2>2. CASE "PINGREQ" \in arrived
    BY <1>1, <2>2, Numbers DEF PingToken
  <2>3. CASE Answers # {}
    BY <1>1, <2>3, Numbers DEF PingToken
  <2> QED BY <2>1, <2>2, <2>3 DEF PingToken
<1> QED BY <1>1, <1>2, Numbers, TimingAssumption

LEMMA LiveServerStep ==
    TypesOK /\ WaitTimes /\ OnePing /\ PingToken /\ LiveServerIsKept /\ [Next]_vars
    => LiveServerIsKept'
<1> SUFFICES ASSUME TypesOK, WaitTimes, OnePing, PingToken, LiveServerIsKept, [Next]_vars,
                    link' = "client"
             PROVE  "server" \notin alive'
  BY DEF LiveServerIsKept
<1>1. CASE NoPingresp
  <2>1. ClientRuns /\ waiting /\ Reading >= SocketTimeout /\ alive' = alive
    BY <1>1 DEF NoPingresp, Reading
  <2>2. SUFFICES ASSUME ServerRuns PROVE FALSE
    BY <2>1 DEF ServerRuns, ClientRuns
  <2>3. Reading \in Nat /\ Waiting \in Nat /\ Reading <= Waiting
    BY <2>1, Ranges DEF WaitTimes
  <2> QED BY <2>1, <2>2, <2>3, AnswerInTime, Numbers
<1>2. CASE GetPingresp
  <2>1. PICK r \in Answers : TRUE
    BY <1>2, PingTokenMoves
  <2>2. ClientRuns /\ link = "up" /\ ~waiting
    BY <1>2 DEF GetPingresp, ClientRuns
  <2> QED BY <2>1, <2>2 DEF OnePing
<1>3. CASE GetPublish
  <2>1. ClientRuns /\ link = "up" /\ alive' = alive
    BY <1>3 DEF GetPublish, MessageRead, ClientRuns
  <2>2. waiting /\ PastDeadline
    BY <1>3, <2>1 DEF GetPublish, NextRead
  <2>3. SUFFICES ASSUME ServerRuns PROVE FALSE
    BY <2>1 DEF ServerRuns
  <2>4. Waiting >= SocketTimeout /\ Waiting \in Nat
    BY <2>2, Ranges DEF PastDeadline, Waiting
  <2> QED BY <2>1, <2>2, <2>3, <2>4, AnswerInTime, Numbers
<1>4. CASE ClientLoop \/ ServerDrops \/ ServerTurn \/ ServerSends \/ Arrives \/ Tick
  BY <1>4 DEF ClientLoop, ServerDrops, ServerTurn, ServerSends, Arrives, Tick,
              ClientRuns, ServerRuns
<1>5. CASE Dies
  BY <1>5 DEF Dies
<1>6. CASE UNCHANGED vars
  BY <1>6 DEF vars, LiveServerIsKept
<1> QED BY <1>1, <1>2, <1>3, <1>4, <1>5, <1>6 DEF Next

LEMMA StartsQuiet ==
    ASSUME Init
    PROVE  /\ TypesOK /\ Written = 0 /\ Elapsed(lastRead) = 0
           /\ ClientTimes /\ WaitTimes /\ ServerTimes /\ OnePing /\ PingToken
<1>1. /\ TypesOK /\ lastWrite = millis /\ lastRead = millis
      /\ ~waiting /\ unread = 0 /\ unheard = 0 /\ idle = 0 /\ passed = 0
      /\ toServer = {} /\ toClient = {} /\ arrived = {}
  BY TypesInit DEF Init
<1>2. Written = 0 /\ Elapsed(lastRead) = 0
  BY <1>1, TimerStarts DEF TypesOK, Clocks, Elapsed, Written
<1>3. keepAlive \in Nat /\ limit \in Nat
  BY <1>1, Ranges
<1>4. ClientTimes /\ ServerTimes
  BY <1>1, <1>2, <1>3, Numbers DEF ClientTimes, ServerTimes
<1>5. OnePing /\ PingToken /\ WaitTimes
  BY <1>1 DEF OnePing, PingToken, WaitTimes, Pings, Answers
<1> QED BY <1>1, <1>2, <1>4, <1>5

-----------------------------------------------------------------------------
(* The packet that ends the broker's wait.                                 *)

LEMMA QuietIs ==
    ASSUME TypesOK
    PROVE  /\ Quiet \in Nat /\ Delay <= Quiet /\ keepAlive <= Quiet + 1
           /\ limit # 0 => Quiet + Gap + Delay + Pass <= limit
<1>1. /\ keepAlive \in Nat /\ limit \in Nat
      /\ limit # 0 => /\ Second + Tolerance <= limit
                      /\ keepAlive + 1 + Tolerance <= limit + Second
  BY Ranges
<1>2. CASE keepAlive > Delay
  <2>1. Quiet + 1 = keepAlive /\ Quiet \in Nat
    BY <1>1, <1>2, Numbers DEF Quiet
  <2> QED BY <1>1, <1>2, <2>1, Numbers, TimingAssumption
<1>3. CASE ~(keepAlive > Delay)
  <2>1. Quiet = Delay
    BY <1>3 DEF Quiet
  <2> QED BY <1>1, <1>3, <2>1, Numbers, TimingAssumption
<1> QED BY <1>2, <1>3

LEMMA CoveredStep ==
    /\ TypesOK /\ ClientTimes /\ OnePing /\ PingToken /\ Covered
    /\ [Next]_vars /\ PingToken' /\ TypesOK'
    => Covered'
<1> SUFFICES ASSUME TypesOK, ClientTimes, OnePing, PingToken, Covered, [Next]_vars,
                    PingToken', TypesOK', ClientRuns', ServerRuns', limit' # 0
             PROVE  UnderWay' \/ ToBeWritten'
  BY DEF Covered
<1> USE Numbers
<1>0. /\ Written \in Nat /\ Reading \in Nat /\ keepAlive \in Nat /\ unread \in Nat
      /\ idle \in 0..Gap /\ passed \in 0..Pass /\ waiting \in BOOLEAN
      /\ keepAlive + Gap + SocketTimeout < Wrap
      /\ Quiet \in Nat /\ Delay <= Quiet /\ keepAlive <= Quiet + 1
  BY Ranges, QuietIs DEF TypesOK
<1>1. /\ \A q \in toServer : q.age \in 0..Delay
      /\ \A r \in Answers : r.age \in 0..Delay
  BY PacketsAre
<1>2. Fresh("PINGREQ").age = 0 /\ Fresh("PUBACK").age = 0
  BY DEF Fresh
<1>3. keepAlive' = keepAlive /\ limit' = limit /\ Quiet' = Quiet
  BY DEF Next, vars, ClientLoop, GetPingresp, GetPublish, MessageRead, NoPingresp,
         ServerDrops, ServerTurn, ServerSends, Arrives, Dies, Tick, Quiet
<1>4. ASSUME ClientRuns, ServerRuns, ~UnderWay
      PROVE  /\ ToBeWritten /\ unread <= Quiet + Gap
             /\ waiting => unread <= Delay
  <2>1. ToBeWritten
    BY <1>3, <1>4 DEF Covered
  <2>2. waiting => unread <= Delay
    BY <1>0, <1>1, <2>1 DEF ToBeWritten
  <2>3. ~waiting => unread <= Quiet + idle
    BY <2>1 DEF ToBeWritten
  <2> QED BY <1>0, <2>1, <2>2, <2>3
<1>5. CASE ClientLoop
  <2>1. /\ ClientRuns /\ ServerRuns /\ ~waiting /\ toServer \subseteq toServer'
        /\ UNCHANGED <<arrived, unread, passed, millis>> /\ idle' = 0
    BY <1>5 DEF ClientLoop, ClientRuns, ServerRuns
  <2>2. CASE UnderWay
    BY <1>3, <2>1, <2>2 DEF UnderWay
  <2>3. CASE ~UnderWay /\ PingTime
    <3>1. Fresh("PINGREQ") \in toServer'
      BY <1>5, <2>3 DEF ClientLoop
    <3>2. unread' <= Quiet' + Gap + Fresh("PINGREQ").age
      BY <1>0, <1>2, <1>3, <1>4, <2>1, <2>3
    <3> QED BY <3>1, <3>2 DEF UnderWay
  <2>4. CASE ~UnderWay /\ ~PingTime
    <3>1. UNCHANGED <<toServer, lastWrite, waiting>>
      BY <1>5, <2>4 DEF ClientLoop
    <3>2. Written' = Written /\ Written < keepAlive
      BY <1>0, <2>1, <2>4, <3>1 DEF PingTime, Written, Elapsed
    <3>3. toServer = {} /\ arrived = {} /\ unread <= Written
      BY <1>4, <2>1, <2>4 DEF ToBeWritten
    <3>4. unread <= Quiet
      BY <1>0, <3>2, <3>3
    <3> QED BY <1>0, <1>3, <2>1, <3>1, <3>2, <3>3, <3>4 DEF ToBeWritten
  <2> QED BY <2>2, <2>3, <2>4
<1>6. CASE GetPingresp
  <2>1. /\ ClientRuns /\ ServerRuns /\ waiting /\ ~waiting'
        /\ UNCHANGED <<toServer, arrived, unread, passed, millis, lastWrite>> /\ idle' = 0
    BY <1>6 DEF GetPingresp, Waited, ClientRuns, ServerRuns
  <2>2. CASE UnderWay
    BY <1>3, <2>1, <2>2 DEF UnderWay
  <2>3. CASE ~UnderWay
    <3>1. toServer = {} /\ arrived = {} /\ unread <= Written /\ unread <= Delay
      BY <1>4, <2>1, <2>3 DEF ToBeWritten
    <3>2. Written' = Written
      BY <2>1 DEF Written, Elapsed
    <3> QED BY <1>0, <1>3, <2>1, <3>1, <3>2 DEF ToBeWritten
  <2> QED BY <2>2, <2>3
<1>7. CASE GetPublish
  <2>1. /\ ClientRuns /\ ServerRuns /\ toServer' = toServer \cup {Fresh("PUBACK")}
        /\ UNCHANGED <<arrived, unread, passed>>
    BY <1>7 DEF GetPublish, MessageRead, ClientRuns, ServerRuns
  <2>2. CASE UnderWay
    BY <1>3, <2>1, <2>2 DEF UnderWay
  <2>3. CASE ~UnderWay
    <3>1. unread' <= Quiet' + Gap + Fresh("PUBACK").age
      BY <1>0, <1>2, <1>3, <1>4, <2>1, <2>3
    <3> QED BY <2>1, <3>1 DEF UnderWay
  <2> QED BY <2>2, <2>3
<1>8. CASE NoPingresp \/ ServerDrops
  BY <1>8 DEF NoPingresp, GivesUp, ServerDrops, ClientRuns
<1>9. CASE ServerTurn
  <2>1. /\ ClientRuns /\ ServerRuns /\ arrived' = {} /\ passed' = 0
        /\ UNCHANGED <<toServer, waiting, idle, millis, lastWrite>>
    BY <1>9 DEF ServerTurn, ClientRuns, ServerRuns
  <2>2. Written' = Written
    BY <2>1 DEF Written, Elapsed
  <2>3. CASE arrived # {}
    <3>1. unread' = 0
      BY <1>9, <2>3 DEF ServerTurn
    <3>2. CASE toServer # {}
      <4>1. PICK q \in toServer : TRUE
        BY <3>2
      <4>2. q \in toServer' /\ unread' <= Quiet' + Gap + q.age
        BY <1>0, <1>1, <1>3, <2>1, <3>1, <4>1
      <4> QED BY <4>2 DEF UnderWay
    <3>3. CASE toServer = {}
      <4>1. waiting' => \E r \in Answers' : unread' <= r.age
        <5> SUFFICES ASSUME waiting' PROVE \E r \in Answers' : unread' <= r.age
          OBVIOUS
        <5>1. Answers' # {}
          BY <2>1, <3>3 DEF PingToken, Pings
        <5>2. \A r \in Answers' : r \in Aged(FromServer)
          BY DEF TypesOK, Answers
        <5>3. \A r \in Answers' : 0 <= r.age
          BY <5>2 DEF Aged
        <5> QED BY <3>1, <5>1, <5>3
      <4>2. unread' <= Written' /\ unread' <= Quiet' + idle'
        BY <1>0, <1>3, <2>1, <2>2, <3>1
      <4> QED BY <2>1, <3>3, <4>1, <4>2 DEF ToBeWritten
    <3> QED BY <3>2, <3>3
  <2>4. CASE arrived = {}
    <3>1. unread' = unread /\ Answers \subseteq Answers'
      BY <1>9, <2>4 DEF ServerTurn, Answers
    <3>2. CASE UnderWay
      BY <1>3, <2>1, <2>4, <3>1, <3>2 DEF UnderWay
    <3>3. CASE ~UnderWay
      <4>1. /\ toServer = {} /\ unread <= Written
            /\ IF waiting THEN \E r \in Answers : unread <= r.age ELSE unread <= Quiet + idle
        BY <1>4, <2>1, <3>3 DEF ToBeWritten
      <4>2. IF waiting' THEN \E r \in Answers' : unread' <= r.age ELSE unread' <= Quiet' + idle'
        BY <1>3, <2>1, <3>1, <4>1
      <4> QED BY <2>1, <2>2, <3>1, <4>1, <4>2 DEF ToBeWritten
    <3> QED BY <3>2, <3>3
  <2> QED BY <2>3, <2>4
<1>10. CASE ServerSends \/ UNCHANGED vars
  <2>1. /\ ClientRuns /\ ServerRuns /\ Answers' = Answers
        /\ UNCHANGED <<toServer, arrived, unread, passed, waiting, idle, millis, lastWrite>>
    BY <1>10, PingTokenMoves DEF ServerSends, vars, ClientRuns, ServerRuns, Answers
  <2>2. Written' = Written
    BY <2>1 DEF Written, Elapsed
  <2>3. UnderWay \/ ToBeWritten
    BY <1>4, <2>1
  <2>4. CASE UnderWay
    BY <1>3, <2>1, <2>4 DEF UnderWay
  <2>5. CASE ToBeWritten
    BY <1>3, <2>1, <2>2, <2>5 DEF ToBeWritten
  <2> QED BY <2>3, <2>4, <2>5
<1>11. CASE Arrives
  <2>1. PICK p \in toServer : toServer' = toServer \ {p} /\ arrived' = arrived \cup {p.type}
    BY <1>11 DEF Arrives
  <2>2. ClientRuns /\ ServerRuns /\ UNCHANGED <<unread, passed>>
    BY <1>11 DEF Arrives, ClientRuns, ServerRuns
  <2>3. UnderWay
    BY <1>4, <2>1, <2>2 DEF ToBeWritten
  <2>4. CASE \E q \in toServer : unread <= Quiet + Gap + q.age
    <3>1. PICK q \in toServer : unread <= Quiet + Gap + q.age
      BY <2>4
    <3>2. CASE q = p
      <4>1. unread' <= Quiet' + Gap + Delay + passed'
        BY <1>0, <1>1, <1>3, <2>2, <3>1
      <4> QED BY <2>1, <4>1 DEF UnderWay
    <3>3. CASE q # p
      BY <1>3, <2>1, <2>2, <3>1, <3>3 DEF UnderWay
    <3> QED BY <3>2, <3>3
  <2>5. CASE arrived # {} /\ unread <= Quiet + Gap + Delay + passed
    BY <1>3, <2>1, <2>2, <2>5 DEF UnderWay
  <2> QED BY <2>3, <2>4, <2>5 DEF UnderWay
<1>12. CASE Dies
  BY <1>12 DEF Dies, ClientRuns, ServerRuns
<1>13. CASE Tick
  <2>1. /\ ClientRuns /\ ServerRuns /\ UNCHANGED <<waiting, arrived>>
        /\ passed' = passed + 1 /\ unread' = unread + 1
        /\ "client" \in alive /\ "server" \in alive
        /\ IF waiting THEN Reading < SocketTimeout ELSE idle < Gap /\ idle' = idle + 1
    BY <1>13 DEF Tick, ClientRuns, ServerRuns, Reading
  <2>2. /\ \A q \in toServer : \E p \in toServer' : p.age = q.age + 1
        /\ toServer = {} => toServer' = {}
    <3>1. toServer' = Older(toServer) /\ (\A q \in toServer : q.age < Delay)
          /\ toServer \in SUBSET Aged(FromClient)
      BY <1>13, <2>1 DEF Tick, TypesOK
    <3> QED BY <3>1, OlderAre
  <2>3. CASE \E q \in toServer : unread <= Quiet + Gap + q.age
    <3>1. PICK q \in toServer : unread <= Quiet + Gap + q.age
      BY <2>3
    <3>2. PICK p \in toServer' : p.age = q.age + 1
      BY <2>2
    <3>3. unread' <= Quiet' + Gap + p.age
      BY <1>0, <1>1, <1>3, <2>1, <3>1, <3>2
    <3> QED BY <3>3 DEF UnderWay
  <2>4. CASE arrived # {} /\ unread <= Quiet + Gap + Delay + passed
    <3>1. unread' <= Quiet' + Gap + Delay + passed'
      BY <1>0, <1>3, <2>1, <2>4
    <3> QED BY <2>1, <2>4, <3>1 DEF UnderWay
  <2>5. CASE ~UnderWay
    <3>1. /\ toServer = {} /\ arrived = {} /\ unread <= Written
          /\ IF waiting THEN \E r \in Answers : unread <= r.age ELSE unread <= Quiet + idle
      BY <1>4, <2>1, <2>5 DEF ToBeWritten
    <3>2. Written + 1 < Wrap
      <4>1. CASE waiting
        BY <1>0, <2>1, <4>1 DEF ClientTimes, Written, Reading
      <4>2. CASE ~waiting
        BY <1>0, <2>1, <4>2 DEF ClientTimes
      <4> QED BY <4>1, <4>2
    <3>3. Written' = Written + 1
      BY <1>13, <3>2, TimersTick
    <3>4. CASE waiting
      <4>1. PICK r \in Answers : unread <= r.age
        BY <3>1, <3>4
      <4>2. PICK s \in Answers' : s.age = r.age + 1
        BY <1>13, <2>1, AnswersTick
      <4>3. unread' <= s.age /\ unread' <= Written'
        BY <1>0, <1>1, <2>1, <3>1, <3>3, <4>1, <4>2
      <4> QED BY <2>1, <2>2, <3>1, <3>4, <4>3 DEF ToBeWritten
    <3>5. CASE ~waiting
      <4>1. unread' <= Quiet' + idle' /\ unread' <= Written'
        BY <1>0, <1>3, <2>1, <3>1, <3>3, <3>5
      <4> QED BY <2>1, <2>2, <3>1, <3>5, <4>1 DEF ToBeWritten
    <3> QED BY <3>4, <3>5
  <2> QED BY <2>3, <2>4, <2>5 DEF UnderWay
<1> QED BY <1>5, <1>6, <1>7, <1>8, <1>9, <1>10, <1>11, <1>12, <1>13 DEF Next

LEMMA LiveClientStep ==
    /\ TypesOK /\ ServerTimes /\ Covered /\ LiveClientIsKept /\ [Next]_vars
    => LiveClientIsKept'
<1> SUFFICES ASSUME TypesOK, ServerTimes, Covered, LiveClientIsKept, [Next]_vars,
                    link' = "server"
             PROVE  "client" \notin alive'
  BY DEF LiveClientIsKept
<1>1. CASE ServerDrops
  <2>1. /\ ServerRuns /\ limit # 0 /\ Elapsed(lastRead) > limit /\ alive' = alive
    BY <1>1 DEF ServerDrops, Expired
  <2>2. SUFFICES ASSUME ClientRuns PROVE FALSE
    BY <2>1 DEF ServerRuns, ClientRuns
  <2>3. /\ unread \in Nat /\ limit \in Nat /\ passed \in 0..Pass /\ idle \in 0..Gap
        /\ Quiet \in Nat /\ Delay <= Quiet /\ Quiet + Gap + Delay + Pass <= limit
    BY <2>1, Ranges, QuietIs
  <2>4. /\ \A q \in toServer : q.age \in 0..Delay
        /\ \A r \in Answers : r.age \in 0..Delay
    BY PacketsAre
  <2>5. unread > limit
    BY <2>1 DEF ServerTimes
  <2>6. CASE UnderWay
    BY <2>3, <2>4, <2>5, <2>6, Numbers DEF UnderWay
  <2>7. CASE ToBeWritten
    <3>1. CASE waiting
      BY <2>3, <2>4, <2>5, <2>7, <3>1, Numbers DEF ToBeWritten
    <3>2. CASE ~waiting
      BY <2>3, <2>5, <2>7, <3>2, Numbers DEF ToBeWritten
    <3> QED BY <3>1, <3>2
  <2> QED BY <2>1, <2>2, <2>6, <2>7 DEF Covered
<1>2. CASE ClientLoop \/ GetPingresp \/ NoPingresp \/ ServerTurn \/ ServerSends
           \/ Arrives \/ Dies \/ Tick
  BY <1>2 DEF ClientLoop, GetPingresp, NoPingresp, GivesUp, ServerTurn, ServerSends,
              Arrives, Dies, Tick, ClientRuns, ServerRuns
<1>3. CASE GetPublish
  BY <1>3 DEF GetPublish, GivesUp, NextRead, MessageRead, ClientRuns
<1>4. CASE UNCHANGED vars
  BY <1>4 DEF vars, LiveClientIsKept
<1> QED BY <1>1, <1>2, <1>3, <1>4 DEF Next

\* The whole invariant, which each step keeps.
LEMMA KeepAliveInvStep == KeepAliveInv /\ [Next]_vars => KeepAliveInv'
<1> SUFFICES ASSUME KeepAliveInv, [Next]_vars PROVE KeepAliveInv'
  OBVIOUS
<1>1. /\ TypesOK /\ ClientTimes /\ WaitTimes /\ ServerTimes /\ OnePing /\ PingToken
      /\ Covered /\ LiveClientIsKept /\ LiveServerIsKept
  BY DEF KeepAliveInv
<1>2. TypesOK' /\ ClientTimes' /\ WaitTimes' /\ ServerTimes' /\ OnePing' /\ PingToken'
  BY <1>1, TypesStep, ClientTimesStep, WaitTimesStep, ServerTimesStep, OnePingStep,
     PingTokenStep
<1>3. Covered' /\ LiveClientIsKept' /\ LiveServerIsKept'
  BY <1>1, <1>2, CoveredStep, LiveClientStep, LiveServerStep
<1> QED BY <1>2, <1>3 DEF KeepAliveInv

LEMMA KeepAliveInvStarts == Init => KeepAliveInv
<1> SUFFICES ASSUME Init PROVE KeepAliveInv
  OBVIOUS
<1>1. /\ TypesOK /\ Written = 0 /\ ClientTimes /\ WaitTimes /\ ServerTimes /\ OnePing /\ PingToken
      /\ Quiet \in Nat
  BY StartsQuiet, QuietIs
<1>2. /\ toServer = {} /\ arrived = {} /\ unread = 0 /\ idle = 0 /\ ~waiting /\ link = "up"
  BY DEF Init
<1>3. Covered
  BY <1>1, <1>2 DEF Covered, ToBeWritten
<1> QED BY <1>1, <1>2, <1>3 DEF KeepAliveInv, LiveClientIsKept, LiveServerIsKept

-----------------------------------------------------------------------------
(* The theorems.                                                           *)

\* The inductive invariant: timers that do not wrap, one ping that is followed from
\* client.cpp to the broker and back, and the packet the broker is about to read.
THEOREM KeepAliveInvariant == Spec => []KeepAliveInv
BY KeepAliveInvStarts, KeepAliveInvStep, PTL DEF Spec

\* LiveClientIsKept: a client whose loop() is called in time is never dropped, however
\* the seconds of its keep-alive were cut and whatever the clock shows: what it writes
\* next, or what is already on its way, is read before the broker's limit is over.
THEOREM LiveClientsAreKept == Spec => []LiveClientIsKept
<1>1. KeepAliveInv => LiveClientIsKept
  BY DEF KeepAliveInv
<1> QED BY <1>1, KeepAliveInvariant, PTL

\* LiveServerIsKept: a broker that makes its rounds is never given up.  Its answer to a
\* ping comes within two deliveries and a round, before the client's wait is past its
\* deadline and so before any of its reads, none begun sooner, times out.
THEOREM LiveServersAreKept == Spec => []LiveServerIsKept
<1>1. KeepAliveInv => LiveServerIsKept
  BY DEF KeepAliveInv
<1> QED BY <1>1, KeepAliveInvariant, PTL

\* SilentClientIsDropped: once the broker's connection has read nothing for longer
\* than its limit, the next round of its loop ends it, at every reading of the clock.
THEOREM SilentClientsAreDropped == Spec => []SilentClientIsDropped
<1>1. KeepAliveInv => SilentClientIsDropped
  <2> SUFFICES ASSUME KeepAliveInv, ServerRuns, limit # 0 PROVE unread <= limit + Pass
    BY DEF SilentClientIsDropped
  <2>1. limit \in Nat /\ passed \in 0..Pass /\ unread \in Nat
    BY Ranges DEF KeepAliveInv
  <2>2. unread <= limit + passed
    BY DEF KeepAliveInv, ServerTimes
  <2> QED BY <2>1, <2>2, Numbers
<1> QED BY <1>1, KeepAliveInvariant, PTL

\* SilentServerIsNoticed: a client hears something, or gives up, within the keep-alive,
\* one gap between two calls of loop() and the timeout of the read that waits.
THEOREM SilentServersAreNoticed == Spec => []SilentServerIsNoticed
<1>1. KeepAliveInv => SilentServerIsNoticed
  <2> SUFFICES ASSUME KeepAliveInv, ClientRuns
               PROVE  unheard <= keepAlive + Gap + SocketTimeout
    BY DEF SilentServerIsNoticed
  <2>1. /\ keepAlive \in Nat /\ idle \in 0..Gap /\ unheard \in Nat /\ Reading \in Nat
        /\ waiting \in BOOLEAN
    BY Ranges DEF KeepAliveInv, TypesOK
  <2>2. CASE waiting
    BY <2>1, <2>2, Numbers DEF KeepAliveInv, ClientTimes
  <2>3. CASE ~waiting
    BY <2>1, <2>3, Numbers DEF KeepAliveInv, ClientTimes
  <2> QED BY <2>2, <2>3
<1> QED BY <1>1, KeepAliveInvariant, PTL

\* WaitsEnd: a client that waits for PINGRESP stops waiting, one way or another, within
\* twice the timeout, also if messages come one after the other and the answer never.
THEOREM EveryWaitEnds == Spec => []WaitsEnd
<1>1. KeepAliveInv => WaitsEnd
  <2> SUFFICES ASSUME KeepAliveInv, ClientRuns, waiting
               PROVE  Waiting < SocketTimeout + SocketTimeout
    BY DEF WaitsEnd, Waiting
  <2>1. Reading \in Nat /\ Waiting \in Nat
    BY Ranges DEF KeepAliveInv
  <2>2. Reading <= SocketTimeout /\ Waiting < SocketTimeout + Reading
    BY DEF KeepAliveInv, WaitTimes
  <2> QED BY <2>1, <2>2, Numbers
<1> QED BY <1>1, KeepAliveInvariant, PTL
=============================================================================
