---------------------------- MODULE Client_proofs ----------------------------
(***************************************************************************)
(* Theorems about Client, for any filters, width of message ids, limits and  *)
(* depth of calls.  Whatever applications do, types are kept and requests      *)
(* have ids, and unless ids run out publish() confirms only what the broker    *)
(* has.  If callbacks leave a waiting client alone, replies do not outlive     *)
(* their calls, no correct broker is accused, and between calls the broker     *)
(* has the subscriptions of the list that it grants.                          *)
(***************************************************************************)
EXTENDS Client, SequenceLemmas

-----------------------------------------------------------------------------
(* Types, with the arguments that packets and calls of each kind have.       *)

SentOK(p) ==
    /\ p.type \in {"CONNECT", "SUBSCRIBE", "UNSUBSCRIBE", "PUBLISH", "PINGREQ"}
    /\ p.type \in {"SUBSCRIBE", "UNSUBSCRIBE"} => p.arg \in Filters /\ p.id # 0
    /\ p.type = "PUBLISH" => p.arg \in 1..MaxPublish

CallOK(c) ==
    /\ c.op \in {"resub", "subscribe", "replace", "unsubscribe"} => c.arg \in Filters
    /\ c.op = "publish" => c.arg \in 1..MaxPublish
    /\ c.op \in {"resub", "subscribe", "replace", "unsubscribe", "publish"} => c.id # 0

Sent == {p \in Packets : SentOK(p)}
Answers == {p \in Packets :
               p.type \in Replies \cup {"PUBLISH"} /\ (p.type = "PUBLISH" => p.id = 0)}
Made == {c \in Calls : CallOK(c)}

TypeInv ==
    /\ reentrant \in Reentrant
    /\ link \in {"up", "lost", "down"}
    /\ up \in Seq(Sent) /\ down \in Seq(Answers)
    /\ session \in BOOLEAN /\ brokerSubs \subseteq Filters
    /\ subscriptions \in Seq(Filters)
    /\ frames \in Seq(Made)
    /\ lastId \in 0..MaxId
    /\ told \in {"nothing", "connected", "disconnected"}
    /\ published \in 0..MaxPublish
    /\ received \subseteq 1..MaxPublish /\ confirmed \subseteq 1..MaxPublish
    /\ violated \in BOOLEAN /\ faults \in 0..MaxFaults

-----------------------------------------------------------------------------
(* The conversation with the broker, when callbacks leave a waiting client     *)
(* alone.                                                                   *)

\* Only the innermost call waits.
Alone == \A i \in DOMAIN frames : i > 1 => frames[i].op \notin DOMAIN Reply

LinkOK == (link # "up" => up = <<>>) /\ (link = "down" => down = <<>>)

\* What each call that blocks has sent.
Asked == [connect |-> "CONNECT", resub |-> "SUBSCRIBE", subscribe |-> "SUBSCRIBE",
          replace |-> "UNSUBSCRIBE", unsubscribe |-> "UNSUBSCRIBE",
          publish |-> "PUBLISH", ping |-> "PINGREQ"]

OneWay(p) == p.type = "PUBLISH" /\ p.id = 0
NoRequest == \A i \in DOMAIN up : OneWay(up[i])
NoReply == \A i \in DOMAIN down : down[i].type = "PUBLISH"

\* The request of the innermost call is the last packet on its way,
Requested ==
    /\ up # <<>> /\ \A i \in DOMAIN up : i # Len(up) => OneWay(up[i])
    /\ up[Len(up)].type = Asked[Top.op]
    /\ up[Len(up)].id = Top.id /\ up[Len(up)].arg = Top.arg

\* or its reply is, among messages.
Answered ==
    \E k \in DOMAIN down :
        /\ down[k].type = Reply[Top.op] /\ down[k].id = Top.id
        /\ \A i \in DOMAIN down : i # k => down[i].type = "PUBLISH"

Talk ==
    \/ NoReply /\ NoRequest
    \/ Waiting /\ NoReply /\ Requested
    \/ Waiting /\ NoRequest /\ Answered

-----------------------------------------------------------------------------
(* The subscriptions.                                                       *)

Distinct(s) == \A i, j \in DOMAIN s : i # j => s[i] # s[j]

\* Those that connecting or renewing has not requested yet.
Left ==
    CASE frames # <<>> /\ Top.op = "connect" -> ToSet(subscriptions)
      [] frames # <<>> /\ Top.op = "resub" -> ToSet(Top.rest)
      [] OTHER -> {}

\* What the broker will have once it has received the request on its way.
Coming ==
    CASE ~NoRequest /\ Top.op \in {"resub", "subscribe"} ->
             brokerSubs \cup ({Top.arg} \ Refused)
      [] ~NoRequest /\ Top.op \in {"replace", "unsubscribe"} -> brokerSubs \ {Top.arg}
      [] OTHER -> brokerSubs

ListOK ==
    /\ Distinct(subscriptions)
    /\ frames # <<>> /\ Top.op = "replace" => Top.arg \notin ToSet(subscriptions)
    /\ frames # <<>> /\ Top.op = "resub" =>
          /\ Distinct(Top.rest) /\ ToSet(Top.rest) \subseteq ToSet(subscriptions)
          /\ Top.arg \notin ToSet(Top.rest)

Agreed ==
    link = "up" =>
        /\ session \/ (~NoRequest /\ Top.op = "connect")
        /\ Coming = (ToSet(subscriptions) \ Left) \ Refused

Calm == Alone /\ LinkOK /\ Talk /\ ListOK /\ Agreed /\ ~violated

IInv == TypeInv /\ (~reentrant => Calm)

-----------------------------------------------------------------------------
(* Sequences.                                                               *)

LEMMA Wider ==
    ASSUME NEW A, NEW B, A \subseteq B, NEW s \in Seq(A)
    PROVE  s \in Seq(B)
<1>1. Len(s) \in Nat /\ s \in [1..Len(s) -> A]
  OBVIOUS
<1>2. s \in [1..Len(s) -> B]
  BY <1>1
<1> QED
  BY <1>1, <1>2

LEMMA TailType ==
    ASSUME NEW S, NEW s \in Seq(S), s # <<>>
    PROVE  /\ Tail(s) \in Seq(S) /\ Len(Tail(s)) = Len(s) - 1
           /\ \A k \in 1..(Len(s) - 1) : Tail(s)[k] = s[k + 1]
           /\ Len(s) \in Nat /\ Len(s) >= 1 /\ s[1] \in S
<1>1. Len(s) \in Nat /\ Len(s) >= 1
  BY EmptySeq, LenProperties
<1> QED
  BY <1>1, HeadTailProperties, ElementOfSeq

LEMMA AppendType ==
    ASSUME NEW S, NEW s \in Seq(S), NEW a \in S
    PROVE  /\ Append(s, a) \in Seq(S) /\ Len(Append(s, a)) = Len(s) + 1
           /\ \A k \in 1..Len(s) : Append(s, a)[k] = s[k]
           /\ Append(s, a)[Len(s) + 1] = a /\ Len(s) \in Nat
BY AppendProperties, LenProperties

-----------------------------------------------------------------------------
(* Types.                                                                   *)

LEMMA Blocks ==
    DOMAIN Reply = {"connect", "resub", "subscribe", "replace", "unsubscribe", "publish", "ping"}
BY DEF Reply

LEMMA NoneEmpty ==
    ASSUME TypeInv
    PROVE  /\ NoFilter \in Filters \cup {NoFilter} \cup 1..MaxPublish
           /\ 0 \in 0..MaxId /\ MaxPackets \in 0..MaxPackets /\ NextId \in 0..MaxId
           /\ NextId # 0
<1>1. MaxId \in Nat /\ MaxId >= 1 /\ MaxPackets \in Nat
  BY ConstantsAssumption
<1> QED
  BY <1>1 DEF TypeInv, NextId

\* A call of the program itself, without an argument or an id.
LEMMA PlainCall ==
    ASSUME TypeInv, NEW op \in {"connect", "ping", "enter", "loop", "callback"}
    PROVE  Call(op, NoFilter, 0) \in Made
<1>1. op \in DOMAIN Reply \cup {"enter", "loop", "callback"}
  BY Blocks
<1>2. Call(op, NoFilter, 0) \in Calls /\ Call(op, NoFilter, 0).op = op
  BY <1>1, NoneEmpty DEF Call, Calls
<1>3. CallOK(Call(op, NoFilter, 0))
  BY <1>2 DEF CallOK
<1> QED
  BY <1>2, <1>3 DEF Made

LEMMA NewRequest ==
    ASSUME NEW type \in {"CONNECT", "SUBSCRIBE", "UNSUBSCRIBE", "PUBLISH", "PINGREQ"},
           NEW arg \in Filters \cup {NoFilter} \cup 1..MaxPublish, NEW id \in 0..MaxId,
           type \in {"SUBSCRIBE", "UNSUBSCRIBE"} => arg \in Filters /\ id # 0,
           type = "PUBLISH" => arg \in 1..MaxPublish
    PROVE  /\ Request(type, arg, id) \in Sent
           /\ Request(type, arg, id).type = type
           /\ Request(type, arg, id).arg = arg /\ Request(type, arg, id).id = id
BY DEF Request, Sent, Packets, SentOK

LEMMA WriteTypes ==
    ASSUME TypeInv, NEW p \in Sent, Write(p)
    PROVE  link' \in {"up", "lost", "down"} /\ up' \in Seq(Sent) /\ down' \in Seq(Answers)
<1>1. Append(up, p) \in Seq(Sent) /\ <<>> \in Seq(Sent) /\ <<>> \in Seq(Answers)
  BY AppendType DEF TypeInv
<1> QED
  BY <1>1 DEF Write, Stop, TypeInv, netVars

LEMMA TopBelow ==
    ASSUME TypeInv, frames # <<>>
    PROVE  /\ Top \in Made /\ Below \in Seq(Made)
           /\ Len(frames) \in Nat /\ Len(frames) >= 1 /\ Len(Below) = Len(frames) - 1
           /\ \A k \in 1..(Len(frames) - 1) : Below[k] = frames[k + 1]
BY TailType DEF TypeInv, Top, Below

LEMMA Pushed ==
    ASSUME NEW c \in Made, NEW below \in Seq(Made)
    PROVE  /\ <<c>> \o below \in Seq(Made) /\ Len(<<c>> \o below) = Len(below) + 1
           /\ (<<c>> \o below)[1] = c /\ <<c>> \o below # <<>>
           /\ \A k \in 1..Len(below) : (<<c>> \o below)[k + 1] = below[k]
<1>1. Len(below) \in Nat
  OBVIOUS
<1> QED
  BY <1>1, InFront

LEMMA TwoPushed ==
    ASSUME NEW c \in Made, NEW d \in Made, NEW below \in Seq(Made)
    PROVE  <<c, d>> \o below = <<c>> \o (<<d>> \o below)
<1>1. <<c>> \in Seq(Made) /\ <<d>> \in Seq(Made)
  OBVIOUS
<1>2. <<c>> \o <<d>> = <<c, d>>
  <2>1. /\ <<c>> \o <<d>> \in Seq(Made) /\ Len(<<c>> \o <<d>>) = 2
        /\ (<<c>> \o <<d>>)[1] = c /\ (<<c>> \o <<d>>)[1 + 1] = d
    BY <1>1, InFront
  <2>2. <<c, d>> \in Seq(Made) /\ Len(<<c, d>>) = 2 /\ <<c, d>>[1] = c /\ <<c, d>>[2] = d
    OBVIOUS
  <2>3. \A k \in 1..2 : (<<c>> \o <<d>>)[k] = <<c, d>>[k]
    BY <2>1, <2>2
  <2> QED
    BY <2>1, <2>2, <2>3, SeqEqual
<1>3. (<<c>> \o <<d>>) \o below = <<c>> \o (<<d>> \o below)
  BY <1>1, ConcatAssociative
<1> QED
  BY <1>2, <1>3

LEMMA AskTypes ==
    ASSUME TypeInv, NEW type, NEW op, NEW arg, NEW below \in Seq(Made),
           \/ type = "SUBSCRIBE" /\ op \in {"resub", "subscribe"} /\ arg \in Filters
           \/ type = "UNSUBSCRIBE" /\ op \in {"replace", "unsubscribe"} /\ arg \in Filters
           \/ type = "PUBLISH" /\ op = "publish" /\ arg \in 1..MaxPublish,
           Ask(type, op, arg, below)
    PROVE  /\ link' \in {"up", "lost", "down"}
           /\ up' \in Seq(Sent) /\ down' \in Seq(Answers)
           /\ frames' \in Seq(Made) /\ lastId' \in 0..MaxId
<1>1. Request(type, arg, NextId) \in Sent
  BY NoneEmpty, NewRequest
<1>2. Call(op, arg, NextId) \in Made
  <2>1. op \in DOMAIN Reply \cup {"enter", "loop", "callback"}
        /\ arg \in Filters \cup {NoFilter} \cup 1..MaxPublish
    BY Blocks
  <2>2. NextId \in 0..MaxId /\ NextId # 0
    BY NoneEmpty
  <2>3. /\ Call(op, arg, NextId) \in Calls /\ Call(op, arg, NextId).op = op
        /\ Call(op, arg, NextId).arg = arg /\ Call(op, arg, NextId).id = NextId
    BY <2>1, <2>2, NoneEmpty DEF Call, Calls
  <2> DEFINE c == Call(op, arg, NextId)
  <2> HIDE DEF c
  <2>4. CallOK(c)
    BY <2>2, <2>3 DEF CallOK, c
  <2>5. c \in Made
    BY <2>3, <2>4 DEF Made, c
  <2> QED
    BY <2>5 DEF c
<1> QED
  BY <1>1, <1>2, WriteTypes, Pushed, NoneEmpty DEF Ask

LEMMA WaitOverTypes ==
    ASSUME TypeInv, frames # <<>>, NEW ok \in BOOLEAN, WaitOver(ok)
    PROVE  /\ frames' \in Seq(Made) /\ Len(frames') = Len(frames) /\ frames' # <<>>
           /\ \A k \in 1..Len(frames) : k # 1 => frames'[k] = frames[k]
           /\ frames'[1] = [frames[1] EXCEPT !.done = TRUE, !.ok = ok]
<1> DEFINE c == [frames[1] EXCEPT !.done = TRUE, !.ok = ok]
<1>1. frames[1] \in Made /\ Len(frames) \in Nat /\ Len(frames) >= 1
  BY TopBelow DEF Top
<1>2. c \in Made
  BY <1>1 DEF Made, Calls, CallOK
<1>3. frames \in [1..Len(frames) -> Made] /\ frames \in Seq(Made)
  BY DEF TypeInv
<1>4. frames' = [frames EXCEPT ![1] = c]
  BY <1>1, <1>3 DEF WaitOver
<1> HIDE DEF c
<1>5. frames' \in [1..Len(frames) -> Made] /\ Len(frames) \in Nat
      /\ frames'[1] = c /\ \A k \in 1..Len(frames) : k # 1 => frames'[k] = frames[k]
  BY <1>1, <1>2, <1>3, <1>4
<1>6. frames' \in Seq(Made) /\ Len(frames') = Len(frames)
  BY <1>5
<1> QED
  BY <1>1, <1>5, <1>6 DEF c

LEMMA HandleTypes ==
    ASSUME TypeInv, down # <<>>, NEW calls \in Seq(Made), HandlePacket(calls)
    PROVE  /\ link' \in {"up", "lost", "down"}
           /\ up' \in Seq(Sent) /\ down' \in Seq(Answers) /\ frames' \in Seq(Made)
           /\ told' \in {"nothing", "connected", "disconnected"} /\ violated' \in BOOLEAN
<1>1. Tail(down) \in Seq(Answers) /\ <<>> \in Seq(Sent) /\ <<>> \in Seq(Answers)
  BY TailType DEF TypeInv
<1>2. <<Call("callback", NoFilter, 0)>> \o calls \in Seq(Made)
  BY PlainCall, Pushed
<1> QED
  BY <1>1, <1>2 DEF HandlePacket, OnDisconnect, Stop, TypeInv

LEMMA ResubCall ==
    ASSUME TypeInv, NEW rest \in Seq(Filters), rest # <<>>
    PROVE  LET c == [Call("resub", rest[1], NextId) EXCEPT !.rest = Tail(rest)]
           IN  /\ c \in Made /\ c.op = "resub" /\ c.arg = rest[1] /\ c.id = NextId
               /\ c.rest = Tail(rest) /\ c.done = FALSE
<1> DEFINE d == Call("resub", rest[1], NextId)
<1>1. /\ rest[1] \in Filters /\ Tail(rest) \in Seq(Filters)
      /\ rest[1] \in Filters \cup {NoFilter} \cup 1..MaxPublish
  BY TailType
<1>2. "resub" \in DOMAIN Reply \cup {"enter", "loop", "callback"}
  BY Blocks
<1>3. NextId \in 0..MaxId /\ NextId # 0
  BY NoneEmpty
<1>4. d \in Calls /\ d.op = "resub" /\ d.arg = rest[1] /\ d.id = NextId /\ d.done = FALSE
  BY <1>1, <1>2, <1>3, NoneEmpty DEF Call, Calls
<1> HIDE DEF d
<1>5. [d EXCEPT !.rest = Tail(rest)] \in Calls
  BY <1>1, <1>4 DEF Calls
<1>6. LET c == [d EXCEPT !.rest = Tail(rest)]
      IN  /\ c.op = "resub" /\ c.arg = rest[1] /\ c.id = NextId
          /\ c.rest = Tail(rest) /\ c.done = FALSE
  BY <1>4 DEF Calls
<1>7. [d EXCEPT !.rest = Tail(rest)] \in Made
  BY <1>1, <1>3, <1>5, <1>6 DEF Made, CallOK
<1> QED
  BY <1>6, <1>7 DEF d

LEMMA RenewTypes ==
    ASSUME TypeInv, NEW rest \in Seq(Filters), NEW below \in Seq(Made), Renew(rest, below)
    PROVE  /\ link' \in {"up", "lost", "down"}
           /\ up' \in Seq(Sent) /\ down' \in Seq(Answers) /\ frames' \in Seq(Made)
           /\ told' \in {"nothing", "connected", "disconnected"} /\ lastId' \in 0..MaxId
<1>1. CASE rest = <<>>
  <2>1. <<Call("enter", NoFilter, 0)>> \o below \in Seq(Made)
    BY PlainCall, Pushed
  <2>2. <<Call("callback", NoFilter, 0)>> \o (<<Call("enter", NoFilter, 0)>> \o below) \in Seq(Made)
    BY <2>1, PlainCall, Pushed
  <2>3. frames' = <<Call("callback", NoFilter, 0), Call("enter", NoFilter, 0)>> \o below
    BY <1>1 DEF Renew
  <2>4. frames' = <<Call("callback", NoFilter, 0)>> \o (<<Call("enter", NoFilter, 0)>> \o below)
    BY <2>3, PlainCall, TwoPushed
  <2> QED
    BY <1>1, <2>2, <2>4 DEF Renew, TypeInv, netVars
<1>2. CASE rest # <<>>
  <2> DEFINE c == [Call("resub", rest[1], NextId) EXCEPT !.rest = Tail(rest)]
  <2>1. c \in Made /\ rest[1] \in Filters /\ NextId \in 0..MaxId /\ NextId # 0
    BY <1>2, ResubCall, TailType, NoneEmpty
  <2> HIDE DEF c
  <2>2. <<c>> \o below \in Seq(Made)
    BY <2>1, Pushed
  <2>3. Request("SUBSCRIBE", rest[1], NextId) \in Sent
    BY <2>1, NewRequest
  <2>4. /\ lastId' = NextId /\ Write(Request("SUBSCRIBE", rest[1], NextId))
        /\ frames' = <<c>> \o below /\ told' = told
    BY <1>2 DEF Renew, c
  <2> QED
    BY <2>1, <2>2, <2>3, <2>4, WriteTypes DEF TypeInv
<1> QED
  BY <1>1, <1>2

\* The call of loop() has handled one packet more.
LEMMA OneLeft ==
    ASSUME NEW c \in Made, c.left > 0
    PROVE  [c EXCEPT !.left = @ - 1] \in Made /\ [c EXCEPT !.left = @ - 1].op = c.op
<1> DEFINE d == [c EXCEPT !.left = @ - 1]
<1>1. c \in Calls /\ CallOK(c) /\ c.left - 1 \in 0..MaxPackets
  BY ConstantsAssumption DEF Made, Calls
<1>2. d \in Calls
  BY <1>1 DEF Calls
<1>3. d.op = c.op /\ d.arg = c.arg /\ d.id = c.id
  BY <1>1 DEF Calls
<1> HIDE DEF d
<1>4. CallOK(d)
  BY <1>1, <1>3 DEF CallOK
<1> QED
  BY <1>2, <1>3, <1>4 DEF Made, d

LEMMA TypesOfWaits ==
    ASSUME TypeInv, GetReply \/ Timeout \/ WaitLost \/ GetOther
    PROVE  TypeInv'
<1>1. <<>> \in Seq(Sent) /\ <<>> \in Seq(Answers)
  OBVIOUS
<1>2. ASSUME GetReply PROVE TypeInv'
  <2>1. frames # <<>> /\ down # <<>>
    BY <1>2 DEF GetReply, Waiting, Arriving
  <2>2. Tail(down) \in Seq(Answers)
    BY <2>1, TailType DEF TypeInv
  <2>3. PICK ok \in BOOLEAN : WaitOver(ok)
    BY <1>2 DEF GetReply, Matches
  <2>4. frames' \in Seq(Made)
    BY <2>1, <2>3, WaitOverTypes
  <2>5. /\ link' \in {"up", "lost", "down"} /\ up' \in Seq(Sent) /\ down' \in Seq(Answers)
        /\ told' \in {"nothing", "connected", "disconnected"} /\ violated' \in BOOLEAN
    BY <1>1, <1>2, <2>2 DEF GetReply, OnDisconnect, Stop, TypeInv
  <2> QED
    BY <1>2, <2>4, <2>5 DEF GetReply, TypeInv, brokerVars
<1>3. ASSUME Timeout PROVE TypeInv'
  <2>1. frames' \in Seq(Made)
    BY <1>3, WaitOverTypes DEF Timeout, Waiting
  <2>2. faults' \in 0..MaxFaults
    BY <1>3, ConstantsAssumption DEF Timeout, TypeInv
  <2> QED
    BY <1>1, <1>3, <2>1, <2>2 DEF Timeout, OnDisconnect, Stop, TypeInv, brokerVars
<1>4. ASSUME WaitLost PROVE TypeInv'
  <2>1. frames' \in Seq(Made)
    BY <1>4, WaitOverTypes DEF WaitLost, Waiting
  <2> QED
    BY <1>4, <2>1 DEF WaitLost, TypeInv, netVars, brokerVars, appVars
<1>5. ASSUME GetOther PROVE TypeInv'
  BY <1>5, HandleTypes DEF GetOther, Arriving, TypeInv, brokerVars
<1> QED
  BY <1>2, <1>3, <1>4, <1>5

LEMMA TypesOfLoop ==
    ASSUME TypeInv,
           \/ ConnectFails \/ Connect \/ ConnectReturns \/ ResubReturns
           \/ EnterLoop \/ Ping \/ StartReading \/ ReadPacket \/ LoopReturns
    PROVE  TypeInv'
<1>1. <<>> \in Seq(Sent) /\ <<>> \in Seq(Answers) /\ <<>> \in Seq(Made)
  OBVIOUS
<1>2. ASSUME ConnectFails PROVE TypeInv'
  <2>1. faults' \in 0..MaxFaults
    BY <1>2, ConstantsAssumption DEF ConnectFails, TypeInv
  <2> QED
    BY <1>1, <1>2, <2>1 DEF ConnectFails, Stop, TypeInv, brokerVars, appVars
<1>3. ASSUME Connect PROVE TypeInv'
  <2>1. Request("CONNECT", NoFilter, 0) \in Sent
    BY NoneEmpty, NewRequest
  <2>2. Call("connect", NoFilter, 0) \in Made
    BY PlainCall
  <2>3. up' \in Seq(Sent) /\ frames' \in Seq(Made)
    BY <1>3, <2>1, <2>2 DEF Connect
  <2> QED
    BY <1>1, <1>3, <2>3, NoneEmpty DEF Connect, TypeInv, appVars
<1>4. ASSUME ConnectReturns PROVE TypeInv'
  <2>1. Below \in Seq(Made) /\ subscriptions \in Seq(Filters)
    BY <1>4, TopBelow DEF ConnectReturns, TypeInv
  <2>2. CASE Connected
    BY <1>4, <2>1, <2>2, RenewTypes DEF ConnectReturns, TypeInv, brokerVars
  <2>3. CASE ~Connected
    BY <1>4, <2>1, <2>3 DEF ConnectReturns, TypeInv, brokerVars, netVars
  <2> QED
    BY <2>2, <2>3
<1>5. ASSUME ResubReturns PROVE TypeInv'
  <2>1. Below \in Seq(Made) /\ Top.rest \in Seq(Filters)
    BY <1>5, TopBelow DEF ResubReturns, Made, Calls
  <2> QED
    BY <1>5, <2>1, RenewTypes DEF ResubReturns, TypeInv, brokerVars
<1>6. ASSUME EnterLoop PROVE TypeInv'
  <2>1. frames' \in Seq(Made)
    BY <1>6, PlainCall DEF EnterLoop
  <2> QED
    BY <1>6, <2>1 DEF EnterLoop, TypeInv, netVars, brokerVars, appVars
<1>7. ASSUME Ping PROVE TypeInv'
  <2>1. Request("PINGREQ", NoFilter, 0) \in Sent
    BY NoneEmpty, NewRequest
  <2>2. Below \in Seq(Made)
    BY <1>7, TopBelow DEF Ping
  <2>3. frames' \in Seq(Made)
    BY <1>7, <2>2, PlainCall, Pushed DEF Ping
  <2> QED
    BY <1>7, <2>1, <2>3, WriteTypes DEF Ping, TypeInv, brokerVars, appVars
<1>8. ASSUME StartReading PROVE TypeInv'
  <2>1. Below \in Seq(Made)
    BY <1>8, TopBelow DEF StartReading
  <2>2. frames' \in Seq(Made)
    BY <1>8, <2>1, PlainCall, Pushed DEF StartReading
  <2> QED
    BY <1>8, <2>2 DEF StartReading, TypeInv, netVars, brokerVars, appVars
<1>9. ASSUME ReadPacket PROVE TypeInv'
  <2> DEFINE c == [frames[1] EXCEPT !.left = @ - 1]
             calls == [frames EXCEPT ![1].left = @ - 1]
  <2>1. frames[1] \in Made /\ Len(frames) \in Nat /\ Len(frames) >= 1 /\ frames[1].left > 0
    BY <1>9, TopBelow DEF ReadPacket, Top
  <2>2. c \in Made
    BY <2>1, OneLeft
  <2>3. frames \in [1..Len(frames) -> Made]
    BY DEF TypeInv
  <2>4. calls = [frames EXCEPT ![1] = c]
    BY <2>1, <2>3
  <2>5. calls \in Seq(Made)
    <3> HIDE DEF c
    <3>1. [frames EXCEPT ![1] = c] \in [1..Len(frames) -> Made]
      BY <2>1, <2>2, <2>3
    <3> QED
      BY <2>1, <2>4, <3>1
  <2>6. down # <<>> /\ HandlePacket(calls)
    BY <1>9 DEF ReadPacket
  <2> HIDE DEF calls
  <2> QED
    BY <1>9, <2>5, <2>6, HandleTypes DEF ReadPacket, TypeInv, brokerVars
<1>10. ASSUME LoopReturns PROVE TypeInv'
  BY <1>10, TopBelow DEF LoopReturns, TypeInv, netVars, brokerVars, appVars
<1> QED
  BY <1>2, <1>3, <1>4, <1>5, <1>6, <1>7, <1>8, <1>9, <1>10

LEMMA TypesOfCalls ==
    ASSUME TypeInv, NEW f,
           \/ f \in Filters /\ (Subscribe(f) \/ Replace(f) \/ Unsubscribe(f))
           \/ ReplaceReturns \/ PublishQos0 \/ PublishQos1 \/ PublishReturns
           \/ CallReturns \/ Disconnect \/ CallbackReturns
    PROVE  TypeInv'
<1>1. frames \in Seq(Made) /\ subscriptions \in Seq(Filters)
  BY DEF TypeInv
<1>2. ASSUME f \in Filters, Subscribe(f) PROVE TypeInv'
  <2>1. subscriptions' \in Seq(Filters)
    BY <1>1, <1>2, InFront DEF Subscribe
  <2>2. Ask("SUBSCRIBE", "subscribe", f, frames)
    BY <1>2 DEF Subscribe
  <2>3. /\ link' \in {"up", "lost", "down"} /\ up' \in Seq(Sent) /\ down' \in Seq(Answers)
        /\ frames' \in Seq(Made) /\ lastId' \in 0..MaxId
    BY <1>1, <1>2, <2>2, AskTypes
  <2> QED
    BY <1>2, <2>1, <2>3 DEF Subscribe, TypeInv, brokerVars
<1>3. ASSUME f \in Filters, Replace(f) PROVE TypeInv'
  <2>1. subscriptions' \in Seq(Filters)
    BY <1>1, <1>3, RemoveAtType DEF Replace
  <2>2. Ask("UNSUBSCRIBE", "replace", f, frames)
    BY <1>3 DEF Replace
  <2>3. /\ link' \in {"up", "lost", "down"} /\ up' \in Seq(Sent) /\ down' \in Seq(Answers)
        /\ frames' \in Seq(Made) /\ lastId' \in 0..MaxId
    BY <1>1, <1>3, <2>2, AskTypes
  <2> QED
    BY <1>3, <2>1, <2>3 DEF Replace, TypeInv, brokerVars
<1>4. ASSUME ReplaceReturns PROVE TypeInv'
  <2>1. Top.arg \in Filters /\ Below \in Seq(Made)
    BY <1>4, TopBelow DEF ReplaceReturns, Made, CallOK
  <2>2. subscriptions' \in Seq(Filters)
    BY <1>1, <1>4, <2>1, InFront DEF ReplaceReturns
  <2>3. Ask("SUBSCRIBE", "subscribe", Top.arg, Below)
    BY <1>4 DEF ReplaceReturns
  <2>4. /\ link' \in {"up", "lost", "down"} /\ up' \in Seq(Sent) /\ down' \in Seq(Answers)
        /\ frames' \in Seq(Made) /\ lastId' \in 0..MaxId
    BY <2>1, <2>3, AskTypes
  <2> QED
    BY <1>4, <2>2, <2>4 DEF ReplaceReturns, TypeInv, brokerVars
<1>5. ASSUME f \in Filters, Unsubscribe(f) PROVE TypeInv'
  <2>1. subscriptions' \in Seq(Filters)
    BY <1>1, <1>5, RemoveAtType DEF Unsubscribe
  <2>2. Ask("UNSUBSCRIBE", "unsubscribe", f, frames)
    BY <1>5 DEF Unsubscribe
  <2>3. /\ link' \in {"up", "lost", "down"} /\ up' \in Seq(Sent) /\ down' \in Seq(Answers)
        /\ frames' \in Seq(Made) /\ lastId' \in 0..MaxId
    BY <1>1, <1>5, <2>2, AskTypes
  <2> QED
    BY <1>5, <2>1, <2>3 DEF Unsubscribe, TypeInv, brokerVars
<1>6. ASSUME PublishQos0 PROVE TypeInv'
  <2>1. published + 1 \in 1..MaxPublish /\ published' \in 0..MaxPublish
    BY <1>6, ConstantsAssumption DEF PublishQos0, TypeInv
  <2>2. Request("PUBLISH", published + 1, 0) \in Sent
    BY <2>1, NoneEmpty, NewRequest
  <2>3. link' \in {"up", "lost", "down"} /\ up' \in Seq(Sent) /\ down' \in Seq(Answers)
    BY <1>6, <2>2, WriteTypes DEF PublishQos0, TypeInv, netVars
  <2> QED
    BY <1>6, <2>1, <2>3, NoneEmpty DEF PublishQos0, TypeInv, brokerVars
<1>7. ASSUME PublishQos1 PROVE TypeInv'
  <2>1. published + 1 \in 1..MaxPublish /\ published' \in 0..MaxPublish
    BY <1>7, ConstantsAssumption DEF PublishQos1, TypeInv
  <2>2. Ask("PUBLISH", "publish", published + 1, frames)
    BY <1>7 DEF PublishQos1
  <2>3. /\ link' \in {"up", "lost", "down"} /\ up' \in Seq(Sent) /\ down' \in Seq(Answers)
        /\ frames' \in Seq(Made) /\ lastId' \in 0..MaxId
    BY <1>1, <2>1, <2>2, AskTypes
  <2> QED
    BY <1>7, <2>1, <2>3 DEF PublishQos1, TypeInv, brokerVars
<1>8. ASSUME PublishReturns PROVE TypeInv'
  <2>1. Top.arg \in 1..MaxPublish /\ Below \in Seq(Made)
    BY <1>8, TopBelow DEF PublishReturns, Made, CallOK
  <2> QED
    BY <1>8, <2>1 DEF PublishReturns, TypeInv, netVars, brokerVars
<1>9. ASSUME CallReturns PROVE TypeInv'
  BY <1>9, TopBelow DEF CallReturns, TypeInv, netVars, brokerVars, appVars
<1>10. ASSUME Disconnect PROVE TypeInv'
  BY <1>10 DEF Disconnect, Stop, TypeInv, brokerVars, appVars
<1>11. ASSUME CallbackReturns PROVE TypeInv'
  BY <1>11, TopBelow DEF CallbackReturns, TypeInv, netVars, brokerVars, appVars
<1> QED
  BY <1>2, <1>3, <1>4, <1>5, <1>6, <1>7, <1>8, <1>9, <1>10, <1>11

\* What the broker answers to the first packet.
LEMMA Response ==
    ASSUME TypeInv, up # <<>>, NEW type \in Replies, NEW ok \in BOOLEAN, Respond(type, ok)
    PROVE  \E p \in Answers : p.type = type /\ p.id = up[1].id /\ down' = Append(down, p)
<1> DEFINE p == [type |-> type, arg |-> NoFilter, id |-> up[1].id, ok |-> ok]
<1>1. up[1].id \in 0..MaxId
  BY TailType DEF TypeInv, Sent, Packets
<1>2. p \in Answers
  BY <1>1, NoneEmpty DEF Answers, Packets, Replies
<1> QED
  BY <1>2 DEF Respond

LEMMA TypesOfNetwork ==
    ASSUME TypeInv, BrokerReceives \/ BrokerRefuses \/ BrokerPublishes \/ LinkLost
    PROVE  TypeInv'
<1>1. <<>> \in Seq(Sent) /\ <<>> \in Seq(Answers) /\ down \in Seq(Answers)
  BY DEF TypeInv
<1>2. ASSUME BrokerReceives PROVE TypeInv'
  <2>1. up # <<>> /\ up[1] \in Sent /\ Tail(up) \in Seq(Sent)
    BY <1>2, TailType DEF BrokerReceives, TypeInv
  <2>2. ASSUME NEW type \in Replies, NEW ok \in BOOLEAN, Respond(type, ok)
        PROVE  down' \in Seq(Answers)
    BY <1>1, <2>1, <2>2, Response, AppendType
  <2>3. {"CONNACK", "SUBACK", "UNSUBACK", "PUBACK", "PINGRESP"} = Replies
    BY DEF Replies
  <2>4. CASE up[1].type = "CONNECT"
    <3>1. Respond("CONNACK", TRUE) /\ session' = TRUE
      BY <1>2, <2>4 DEF BrokerReceives
    <3>2. down' \in Seq(Answers)
      BY <2>2, <2>3, <3>1
    <3> QED
      BY <1>2, <2>1, <2>4, <3>1, <3>2 DEF BrokerReceives, TypeInv, appVars
  <2>5. CASE up[1].type = "SUBSCRIBE"
    <3>1. Respond("SUBACK", up[1].arg \notin Refused)
      BY <1>2, <2>5 DEF BrokerReceives
    <3>2. down' \in Seq(Answers) /\ up[1].arg \in Filters
      BY <2>1, <2>2, <2>3, <2>5, <3>1 DEF Sent, SentOK
    <3>3. brokerSubs' \subseteq Filters
      BY <1>2, <2>5, <3>2 DEF BrokerReceives, TypeInv
    <3> QED
      BY <1>2, <2>1, <2>5, <3>2, <3>3 DEF BrokerReceives, TypeInv, appVars
  <2>6. CASE up[1].type = "UNSUBSCRIBE"
    <3>1. Respond("UNSUBACK", TRUE)
      BY <1>2, <2>6 DEF BrokerReceives
    <3>2. down' \in Seq(Answers)
      BY <2>2, <2>3, <3>1
    <3>3. brokerSubs' \subseteq Filters
      BY <1>2, <2>6 DEF BrokerReceives, TypeInv
    <3> QED
      BY <1>2, <2>1, <2>6, <3>2, <3>3 DEF BrokerReceives, TypeInv, appVars
  <2>7. CASE up[1].type = "PUBLISH"
    <3>1. down' = down \/ Respond("PUBACK", TRUE)
      BY <1>2, <2>7 DEF BrokerReceives
    <3>2. down' \in Seq(Answers)
      BY <1>1, <2>2, <2>3, <3>1
    <3>3. received' \subseteq 1..MaxPublish
      BY <1>2, <2>1, <2>7 DEF BrokerReceives, TypeInv, Sent, SentOK
    <3> QED
      BY <1>2, <2>1, <2>7, <3>2, <3>3 DEF BrokerReceives, TypeInv, appVars
  <2>8. CASE up[1].type = "PINGREQ"
    <3>1. Respond("PINGRESP", TRUE) /\ UNCHANGED brokerVars
      BY <1>2, <2>8 DEF BrokerReceives
    <3>2. down' \in Seq(Answers)
      BY <2>2, <2>3, <3>1
    <3> QED
      BY <1>2, <2>1, <3>1, <3>2 DEF BrokerReceives, TypeInv, appVars, brokerVars
  <2> QED
    BY <2>1, <2>4, <2>5, <2>6, <2>7, <2>8 DEF Sent, SentOK
<1>3. ASSUME BrokerRefuses PROVE TypeInv'
  <2>1. PICK p \in Answers : down' = Append(down, p)
    BY <1>3, Response DEF BrokerRefuses, Replies
  <2>2. down' \in Seq(Answers)
    BY <1>1, <2>1, AppendType
  <2>3. faults' \in 0..MaxFaults
    BY <1>3, ConstantsAssumption DEF BrokerRefuses, TypeInv
  <2> QED
    BY <1>1, <1>3, <2>2, <2>3 DEF BrokerRefuses, TypeInv, brokerVars, appVars
<1>4. ASSUME BrokerPublishes PROVE TypeInv'
  <2>1. PICK f \in brokerSubs :
            down' = Append(down, [type |-> "PUBLISH", arg |-> f, id |-> 0, ok |-> TRUE])
    BY <1>4 DEF BrokerPublishes
  <2>2. [type |-> "PUBLISH", arg |-> f, id |-> 0, ok |-> TRUE] \in Answers
    BY NoneEmpty DEF TypeInv, Answers, Packets
  <2>3. down' \in Seq(Answers)
    BY <1>1, <2>1, <2>2, AppendType
  <2> QED
    BY <1>4, <2>3 DEF BrokerPublishes, TypeInv, brokerVars, appVars
<1>5. ASSUME LinkLost PROVE TypeInv'
  <2>1. faults' \in 0..MaxFaults
    BY <1>5, ConstantsAssumption DEF LinkLost, TypeInv
  <2> QED
    BY <1>1, <1>5, <2>1 DEF LinkLost, TypeInv, brokerVars, appVars
<1> QED
  BY <1>2, <1>3, <1>4, <1>5

LEMMA TypeStep ==
    ASSUME TypeInv, [Next]_vars
    PROVE  TypeInv'
<1>1. CASE ReadStep
  BY <1>1, TypesOfWaits, TypesOfLoop DEF ReadStep
<1>2. CASE ReturnStep
  BY <1>2, TypesOfWaits, TypesOfLoop, TypesOfCalls DEF ReturnStep
<1>3. CASE LoopStep \/ Ping
  BY <1>3, TypesOfLoop DEF LoopStep
<1>4. CASE AppStep
  BY <1>4, TypesOfCalls DEF AppStep
<1>5. CASE BrokerStep \/ FaultStep
  BY <1>5, TypesOfWaits, TypesOfLoop, TypesOfNetwork DEF BrokerStep, FaultStep
<1>6. CASE UNCHANGED vars
  BY <1>6 DEF TypeInv, vars
<1> QED
  BY <1>1, <1>2, <1>3, <1>4, <1>5, <1>6 DEF Next

LEMMA TypeInit ==
    ASSUME Init
    PROVE  TypeInv
<1>1. <<>> \in Seq(Sent) /\ <<>> \in Seq(Answers) /\ <<>> \in Seq(Made) /\ <<>> \in Seq(Filters)
  OBVIOUS
<1>2. 0 \in 0..MaxId /\ 0 \in 0..MaxPublish /\ 0 \in 0..MaxFaults
  BY ConstantsAssumption
<1> QED
  BY <1>1, <1>2 DEF Init, TypeInv

LEMMA TypeFollows ==
    ASSUME TypeInv
    PROVE  TypeOK
<1>1. Sent \subseteq Packets /\ Answers \subseteq Packets /\ Made \subseteq Calls
  BY DEF Sent, Answers, Made
<1>2. up \in Seq(Packets) /\ down \in Seq(Packets) /\ frames \in Seq(Calls)
  BY <1>1, Wider DEF TypeInv
<1>3. \A i \in DOMAIN up : up[i].type \in {"SUBSCRIBE", "UNSUBSCRIBE"} => up[i].id # 0
  BY ElementOfSeq DEF TypeInv, Sent, SentOK
<1> QED
  BY <1>2, <1>3 DEF TypeInv, TypeOK

\* Whatever faults happen and however the application nests its calls, every
\* variable keeps its type, and no request is sent with the message id zero
\* (MessageIdGenerator, connection.h), whatever the width of the counter.
THEOREM TypeCorrect == Spec => []TypeOK
<1>1. Init => TypeInv
  BY TypeInit
<1>2. TypeInv /\ [Next]_vars => TypeInv'
  BY TypeStep
<1>3. TypeInv => TypeOK
  BY TypeFollows
<1> QED
  BY <1>1, <1>2, <1>3, PTL DEF Spec

-----------------------------------------------------------------------------
(* The conversation.                                                        *)

LEMMA AskedAndReply ==
    ASSUME NEW op \in DOMAIN Reply
    PROVE  /\ Reply[op] \in Replies /\ Reply[op] # "PUBLISH"
           /\ op # "publish" => Asked[op] # "PUBLISH"
           /\ Asked[op] = "CONNECT" <=> op = "connect"
           /\ Asked[op] = "CONNECT" => Reply[op] = "CONNACK"
           /\ Asked[op] = "SUBSCRIBE" <=> op \in {"resub", "subscribe"}
           /\ Asked[op] = "SUBSCRIBE" => Reply[op] = "SUBACK"
           /\ Asked[op] = "UNSUBSCRIBE" <=> op \in {"replace", "unsubscribe"}
           /\ Asked[op] = "UNSUBSCRIBE" => Reply[op] = "UNSUBACK"
           /\ Asked[op] = "PUBLISH" => Reply[op] = "PUBACK"
           /\ Asked[op] = "PINGREQ" => Reply[op] = "PINGRESP"
BY DEF Reply, Asked, Replies

\* Between requests nothing that asks or answers is on its way, and the broker has
\* the subscriptions that were to be requested.
LEMMA Quiet ==
    ASSUME Calm, ~Waiting
    PROVE  /\ NoReply /\ NoRequest
           /\ link = "up" => session /\ brokerSubs = (ToSet(subscriptions) \ Left) \ Refused
<1>1. NoReply /\ NoRequest
  BY DEF Calm, Talk
<1> QED
  BY <1>1 DEF Calm, Agreed, Coming

\* What a write does to a quiet connection.
LEMMA WriteQuiet ==
    ASSUME TypeInv, LinkOK, NoReply, NoRequest, NEW p \in Sent, Write(p)
    PROVE  /\ NoReply' /\ LinkOK' /\ (OneWay(p) => NoRequest')
           /\ link' = "up" => link = "up" /\ up' = Append(up, p)
           /\ link' # "up" => NoRequest'
<1>1. CASE link = "up" /\ up' = Append(up, p) /\ UNCHANGED <<link, down>>
  <2>1. /\ Append(up, p) \in Seq(Sent) /\ Len(Append(up, p)) = Len(up) + 1
        /\ \A k \in 1..Len(up) : Append(up, p)[k] = up[k]
        /\ Append(up, p)[Len(up) + 1] = p /\ Len(up) \in Nat
    BY AppendType DEF TypeInv
  <2>2. OneWay(p) => NoRequest'
    <3>1. \A k \in 1..(Len(up) + 1) : k = Len(up) + 1 \/ k \in 1..Len(up)
      BY <2>1
    <3> QED
      BY <1>1, <2>1, <3>1 DEF NoRequest, TypeInv
  <2> QED
    BY <1>1, <2>2 DEF LinkOK, NoReply
<1>2. CASE link # "up" /\ UNCHANGED netVars
  BY <1>2 DEF netVars, LinkOK, NoReply, NoRequest
<1>3. CASE link = "lost" /\ Stop
  BY <1>3 DEF Stop, LinkOK, NoReply, NoRequest
<1> QED
  BY <1>1, <1>2, <1>3 DEF Write

LEMMA NoneBelow ==
    ASSUME TypeInv, Alone, frames # <<>>
    PROVE  \A i \in DOMAIN Below : Below[i].op \notin DOMAIN Reply
<1>1. /\ Len(frames) \in Nat /\ Len(frames) >= 1 /\ Below \in Seq(Made)
      /\ Len(Below) = Len(frames) - 1
      /\ \A k \in 1..(Len(frames) - 1) : Below[k] = frames[k + 1]
  BY TopBelow
<1>2. \A k \in 1..(Len(frames) - 1) : k + 1 \in DOMAIN frames /\ k + 1 > 1
  BY <1>1 DEF TypeInv
<1> QED
  BY <1>1, <1>2 DEF Alone

LEMMA AlonePush ==
    ASSUME NEW c \in Made, NEW below \in Seq(Made), frames' = <<c>> \o below,
           \A i \in DOMAIN below : below[i].op \notin DOMAIN Reply
    PROVE  Alone' /\ frames' # <<>> /\ Top' = c
<1>1. /\ frames' \in Seq(Made) /\ Len(frames') = Len(below) + 1 /\ Len(below) \in Nat
      /\ frames'[1] = c /\ frames' # <<>>
      /\ \A k \in 1..Len(below) : frames'[k + 1] = below[k]
  BY Pushed
<1>2. \A i \in DOMAIN frames' : i > 1 => i - 1 \in 1..Len(below) /\ (i - 1) + 1 = i
  BY <1>1
<1>3. \A i \in DOMAIN frames' : i > 1 => frames'[i] = below[i - 1] /\ i - 1 \in DOMAIN below
  BY <1>1, <1>2
<1> QED
  BY <1>1, <1>3 DEF Alone, Top

\* A request begins: it is on its way, or the connection is not there any more.
LEMMA Begins ==
    ASSUME TypeInv, Calm, ~Waiting, NEW c \in Made, NEW below \in Seq(Made), NEW p \in Sent,
           c.op \in DOMAIN Reply, c.done = FALSE,
           \A i \in DOMAIN below : below[i].op \notin DOMAIN Reply,
           p.type = Asked[c.op], p.id = c.id, p.arg = c.arg,
           Write(p), frames' = <<c>> \o below
    PROVE  /\ Alone' /\ LinkOK' /\ Talk' /\ frames' # <<>> /\ Top' = c
           /\ link' = "up" => link = "up" /\ ~NoRequest'
<1>1. Alone' /\ frames' # <<>> /\ Top' = c
  BY AlonePush
<1>2. Waiting'
  BY <1>1 DEF Waiting
<1>3. NoReply /\ NoRequest /\ LinkOK
  BY Quiet DEF Calm
<1>4. /\ NoReply' /\ LinkOK'
      /\ link' = "up" => link = "up" /\ up' = Append(up, p)
      /\ link' # "up" => NoRequest'
  BY <1>3, WriteQuiet
<1>5. ~OneWay(p)
  BY AskedAndReply DEF OneWay, Made, CallOK
<1>6. CASE link' = "up"
  <2>1. up' = Append(up, p)
    BY <1>4, <1>6
  <2>2. /\ up' \in Seq(Sent) /\ Len(up') = Len(up) + 1 /\ Len(up) \in Nat
        /\ \A k \in 1..Len(up) : up'[k] = up[k]
        /\ up'[Len(up')] = p
    BY <2>1, AppendType DEF TypeInv
  <2>3. up' # <<>> /\ DOMAIN up' = 1..(Len(up) + 1) /\ Len(up') \in DOMAIN up'
    BY <2>2
  <2>4. ~NoRequest'
    BY <1>5, <2>2, <2>3 DEF NoRequest, OneWay
  <2>5. \A i \in DOMAIN up' : i # Len(up') => OneWay(up'[i])
    <3>1. \A i \in DOMAIN up' : i # Len(up') => i \in 1..Len(up)
      BY <2>2, <2>3
    <3>2. \A i \in 1..Len(up) : OneWay(up[i])
      BY <1>3 DEF NoRequest, TypeInv
    <3> QED
      BY <2>2, <3>1, <3>2 DEF OneWay
  <2>6. Requested'
    BY <1>1, <2>2, <2>3, <2>5 DEF Requested, OneWay
  <2> QED
    BY <1>1, <1>2, <1>4, <1>6, <2>4, <2>6 DEF Talk
<1>7. CASE link' # "up"
  BY <1>1, <1>4, <1>7 DEF Talk
<1> QED
  BY <1>6, <1>7

\* A step between requests that asks nothing.
LEMMA Resting ==
    ASSUME TypeInv, Calm, ~Waiting, NoReply', NoRequest', LinkOK', Alone',
           link' = "up" => link = "up", link = "up" => Left = {},
           frames' = <<>> \/ Top'.op \notin {"connect", "resub", "replace"},
           UNCHANGED <<session, brokerSubs, subscriptions, violated>>
    PROVE  Calm'
<1>1. link = "up" => session /\ brokerSubs = (ToSet(subscriptions) \ Left) \ Refused
  BY Quiet
<1>2. Talk'
  BY DEF Talk
<1>3. ListOK'
  BY DEF ListOK, Calm
<1>4. Left' = {}
  BY DEF Left
<1>5. Coming' = brokerSubs'
  BY DEF Coming
<1>6. Agreed'
  BY <1>1, <1>4, <1>5 DEF Agreed
<1> QED
  BY <1>2, <1>3, <1>6 DEF Calm

\* The innermost call has its answer, or gives up: nothing else about the stack changes.
LEMMA TopKept ==
    ASSUME TypeInv, Calm, Waiting, NEW ok \in BOOLEAN, WaitOver(ok), UNCHANGED subscriptions
    PROVE  /\ Alone' /\ ~Waiting' /\ ListOK' /\ Left' = Left /\ frames # <<>> /\ frames' # <<>>
           /\ Top'.op = Top.op /\ Top'.arg = Top.arg
<1>1. frames # <<>> /\ Top.op \in DOMAIN Reply /\ frames \in Seq(Made)
  BY DEF Waiting, TypeInv
<1>2. /\ frames' \in Seq(Made) /\ Len(frames') = Len(frames) /\ frames' # <<>>
      /\ \A k \in 1..Len(frames) : k # 1 => frames'[k] = frames[k]
      /\ frames'[1] = [frames[1] EXCEPT !.done = TRUE, !.ok = ok]
  BY <1>1, WaitOverTypes
<1>3. frames[1] \in Calls /\ Len(frames) \in Nat
  BY <1>1, TopBelow DEF Made, Top
<1>4. /\ Top'.op = Top.op /\ Top'.arg = Top.arg /\ Top'.rest = Top.rest /\ Top'.done = TRUE
  BY <1>2, <1>3 DEF Top, Calls
<1>5. Alone'
  <2>1. DOMAIN frames' = DOMAIN frames /\ DOMAIN frames = 1..Len(frames)
    BY <1>1, <1>2
  <2>2. \A i \in DOMAIN frames : i > 1 => frames'[i] = frames[i]
    BY <1>2, <1>3, <2>1
  <2> QED
    BY <2>1, <2>2 DEF Calm, Alone
<1>6. ListOK'
  BY <1>1, <1>2, <1>4 DEF Calm, ListOK
<1>7. Left' = Left
  BY <1>1, <1>2, <1>4 DEF Left
<1>8. ~Waiting'
  BY <1>4 DEF Waiting
<1> QED
  BY <1>1, <1>2, <1>4, <1>5, <1>6, <1>7, <1>8

\* Giving up with the connection closed.
LEMMA GivesUp ==
    ASSUME TypeInv, Calm, Waiting, NEW ok \in BOOLEAN, WaitOver(ok), Stop,
           UNCHANGED <<subscriptions, violated>>
    PROVE  Calm'
<1>1. LinkOK' /\ Talk' /\ link' # "up"
  BY DEF Stop, LinkOK, Talk, NoReply, NoRequest
<1> QED
  BY <1>1, TopKept DEF Calm, Agreed

LEMMA CalmTimeout ==
    ASSUME TypeInv, Calm, Timeout \/ WaitLost
    PROVE  Calm'
<1>1. ASSUME Timeout PROVE Calm'
  BY <1>1, GivesUp DEF Timeout, OnDisconnect
<1>2. ASSUME WaitLost PROVE Calm'
  <2>1. Waiting /\ ~Connected /\ WaitOver(FALSE) /\ UNCHANGED <<netVars, subscriptions, violated>>
    BY <1>2 DEF WaitLost, appVars
  <2>2. link # "up" /\ up = <<>> /\ down = <<>>
    BY <2>1 DEF Connected, Calm, LinkOK, TypeInv
  <2>3. LinkOK' /\ Talk' /\ link' # "up"
    BY <2>1, <2>2 DEF netVars, LinkOK, Talk, NoReply, NoRequest
  <2> QED
    BY <2>1, <2>3, TopKept DEF Calm, Agreed
<1> QED
  BY <1>1, <1>2

\* The first packet taken from the stream: what follows it.
LEMMA Taken ==
    ASSUME TypeInv, down # <<>>, down' = Tail(down)
    PROVE  /\ down' \in Seq(Answers) /\ DOMAIN down = 1..Len(down) /\ Len(down) \in Nat
           /\ 1 \in DOMAIN down /\ DOMAIN down' = 1..(Len(down) - 1)
           /\ \A k \in DOMAIN down' : k + 1 \in DOMAIN down /\ down'[k] = down[k + 1]
           /\ \A k \in DOMAIN down : k # 1 => k - 1 \in DOMAIN down' /\ down'[k - 1] = down[k]
<1>1. /\ Tail(down) \in Seq(Answers) /\ Len(Tail(down)) = Len(down) - 1
      /\ \A k \in 1..(Len(down) - 1) : Tail(down)[k] = down[k + 1]
      /\ Len(down) \in Nat /\ Len(down) >= 1
  BY TailType DEF TypeInv
<1>2. DOMAIN down = 1..Len(down) /\ DOMAIN down' = 1..(Len(down) - 1)
  BY <1>1 DEF TypeInv
<1>3. \A k \in DOMAIN down : k # 1 => k - 1 \in DOMAIN down' /\ (k - 1) + 1 = k
  BY <1>1, <1>2
<1>4. \A k \in DOMAIN down : k # 1 => down'[k - 1] = down[k]
  BY <1>1, <1>2, <1>3
<1> QED
  BY <1>1, <1>2, <1>3, <1>4

\* The reply that is found is the one that was asked for.
LEMMA CalmReply ==
    ASSUME TypeInv, Calm, GetReply
    PROVE  Calm'
<1>1. /\ Waiting /\ down # <<>> /\ down[1].type = Reply[Top.op]
      /\ UNCHANGED <<session, brokerSubs, subscriptions>>
  BY DEF GetReply, Arriving, brokerVars
<1>2. Top.op \in DOMAIN Reply /\ 1 \in DOMAIN down /\ Reply[Top.op] # "PUBLISH"
  <2>1. Top.op \in DOMAIN Reply
    BY <1>1 DEF Waiting
  <2>2. 1 \in DOMAIN down
    BY <1>1, TailType DEF TypeInv
  <2> QED
    BY <2>1, <2>2, AskedAndReply
<1>3. /\ NoRequest /\ down[1].id = Top.id
      /\ \A i \in DOMAIN down : i # 1 => down[i].type = "PUBLISH"
  <2>1. ~NoReply
    BY <1>1, <1>2 DEF NoReply
  <2>2. NoRequest /\ Answered
    BY <2>1 DEF Calm, Talk
  <2>3. PICK k \in DOMAIN down :
            /\ down[k].id = Top.id
            /\ \A i \in DOMAIN down : i # k => down[i].type = "PUBLISH"
    BY <2>2 DEF Answered
  <2>4. k = 1
    BY <1>1, <1>2, <2>3
  <2> QED
    BY <2>2, <2>3, <2>4
<1>4. Matches(down[1])
  BY <1>3 DEF Matches
<1>5. CASE Stop /\ WaitOver(FALSE) /\ UNCHANGED violated
  BY <1>1, <1>5, GivesUp
<1>6. CASE /\ down' = Tail(down) /\ UNCHANGED <<link, up, violated>>
           /\ \E ok \in BOOLEAN : WaitOver(ok)
  <2>1. NoReply'
    BY <1>1, <1>3, <1>6, Taken DEF NoReply
  <2>2. NoRequest'
    BY <1>3, <1>6 DEF NoRequest
  <2>3. LinkOK'
    <3>1. down' = <<>> \/ link # "down"
      BY <1>1 DEF Calm, LinkOK
    <3> QED
      BY <1>6, <3>1 DEF Calm, LinkOK
  <2>4. PICK ok \in BOOLEAN : WaitOver(ok)
    BY <1>6
  <2>5. Alone' /\ ListOK' /\ Left' = Left
    BY <1>1, <2>4, TopKept
  <2>6. Agreed'
    <3>1. link' = "up" => session /\ brokerSubs = (ToSet(subscriptions) \ Left) \ Refused
      BY <1>3, <1>6 DEF Calm, Agreed, Coming
    <3>2. Coming' = brokerSubs'
      BY <2>2 DEF Coming
    <3> QED
      BY <1>1, <2>5, <3>1, <3>2 DEF Agreed
  <2> QED
    BY <1>6, <2>1, <2>2, <2>3, <2>5, <2>6 DEF Calm, Talk
<1> QED
  BY <1>4, <1>5, <1>6 DEF GetReply, Matches

\* Anything else that a waiting client finds is a message, which calls nothing back.
LEMMA CalmOther ==
    ASSUME TypeInv, Calm, ~reentrant, GetOther
    PROVE  Calm'
<1>1. /\ Waiting /\ down # <<>> /\ down[1].type # Reply[Top.op] /\ HandlePacket(frames)
      /\ UNCHANGED <<session, brokerSubs, subscriptions>>
  BY DEF GetOther, Arriving, brokerVars
<1>2. 1 \in DOMAIN down
  BY <1>1, TailType DEF TypeInv
<1>3. down[1].type = "PUBLISH"
  <2>1. CASE NoReply
    BY <1>2, <2>1 DEF NoReply
  <2>2. CASE ~NoReply
    <3>1. PICK k \in DOMAIN down :
              /\ down[k].type = Reply[Top.op]
              /\ \A i \in DOMAIN down : i # k => down[i].type = "PUBLISH"
      BY <2>2 DEF Calm, Talk, Answered
    <3> QED
      BY <1>1, <1>2, <3>1
  <2> QED
    BY <2>1, <2>2
<1>4. ~MayCallBack
  <2>1. Top.op \in DOMAIN Reply /\ 1 \in DOMAIN frames
    BY <1>1, TopBelow DEF Waiting, TypeInv
  <2> QED
    BY <2>1 DEF MayCallBack, Top
<1>5. down' = Tail(down) /\ UNCHANGED <<frames, link, up, violated>>
  BY <1>1, <1>3, <1>4 DEF HandlePacket
<1>6. /\ \A k \in DOMAIN down' : k + 1 \in DOMAIN down /\ down'[k] = down[k + 1]
      /\ \A k \in DOMAIN down : k # 1 => k - 1 \in DOMAIN down' /\ down'[k - 1] = down[k]
      /\ DOMAIN down = 1..Len(down) /\ DOMAIN down' = 1..(Len(down) - 1)
  BY <1>1, <1>5, Taken
<1>7. NoReply => NoReply'
  BY <1>6 DEF NoReply
<1>8. Answered => Answered'
  <2> SUFFICES ASSUME Answered PROVE Answered'
    OBVIOUS
  <2>1. PICK k \in DOMAIN down :
            /\ down[k].type = Reply[Top.op] /\ down[k].id = Top.id
            /\ \A i \in DOMAIN down : i # k => down[i].type = "PUBLISH"
    BY DEF Answered
  <2>2. k # 1
    BY <1>1, <2>1
  <2>3. k - 1 \in DOMAIN down' /\ down'[k - 1] = down[k]
    BY <1>6, <2>2
  <2>4. \A i \in DOMAIN down' : i # k - 1 => down'[i].type = "PUBLISH"
    <3>1. \A i \in DOMAIN down' : i # k - 1 => i + 1 # k
      BY <1>6
    <3> QED
      BY <1>6, <2>1, <3>1
  <2>5. Top' = Top
    BY <1>5 DEF Top
  <2> QED
    BY <2>1, <2>3, <2>4, <2>5 DEF Answered
<1>9. (NoRequest' <=> NoRequest) /\ (Requested' <=> Requested) /\ (Waiting' <=> Waiting)
  BY <1>5 DEF NoRequest, Requested, Waiting, Top
<1>10. Talk'
  BY <1>7, <1>8, <1>9 DEF Calm, Talk
<1>11. Alone' /\ ListOK' /\ LinkOK'
  <2>1. link # "down"
    BY <1>1 DEF Calm, LinkOK
  <2> QED
    BY <1>1, <1>5, <2>1 DEF Calm, Alone, ListOK, LinkOK, Top
<1>12. Agreed'
  <2>1. Left' = Left /\ Coming' = Coming
    BY <1>1, <1>5, <1>9 DEF Left, Coming, Top
  <2> QED
    BY <1>1, <1>5, <1>9, <2>1 DEF Calm, Agreed, Top
<1> QED
  BY <1>5, <1>10, <1>11, <1>12 DEF Calm

-----------------------------------------------------------------------------
(* The network and the broker.                                              *)

\* The first packet the broker takes: what follows it.
LEMMA TakenUp ==
    ASSUME TypeInv, up # <<>>, up' = Tail(up)
    PROVE  /\ up' \in Seq(Sent) /\ DOMAIN up = 1..Len(up) /\ Len(up) \in Nat /\ Len(up) >= 1
           /\ Len(up') = Len(up) - 1 /\ DOMAIN up' = 1..(Len(up) - 1)
           /\ \A k \in DOMAIN up' : k + 1 \in DOMAIN up /\ up'[k] = up[k + 1]
<1>1. /\ Tail(up) \in Seq(Sent) /\ Len(Tail(up)) = Len(up) - 1
      /\ \A k \in 1..(Len(up) - 1) : Tail(up)[k] = up[k + 1]
      /\ Len(up) \in Nat /\ Len(up) >= 1
  BY TailType DEF TypeInv
<1>2. DOMAIN up = 1..Len(up) /\ DOMAIN up' = 1..(Len(up) - 1)
  BY <1>1 DEF TypeInv
<1> QED
  BY <1>1, <1>2

LEMMA Added ==
    ASSUME TypeInv, NEW p \in Answers, down' = Append(down, p)
    PROVE  /\ DOMAIN down = 1..Len(down) /\ Len(down) \in Nat
           /\ DOMAIN down' = 1..(Len(down) + 1) /\ down'[Len(down) + 1] = p
           /\ \A k \in DOMAIN down : k \in DOMAIN down' /\ down'[k] = down[k]
           /\ \A k \in DOMAIN down' : k \in DOMAIN down \/ k = Len(down) + 1
<1>1. /\ down' \in Seq(Answers) /\ Len(down') = Len(down) + 1
      /\ \A k \in 1..Len(down) : down'[k] = down[k]
      /\ down'[Len(down) + 1] = p /\ Len(down) \in Nat
  BY AppendType DEF TypeInv
<1>2. DOMAIN down = 1..Len(down) /\ DOMAIN down' = 1..(Len(down) + 1)
  BY <1>1 DEF TypeInv
<1> QED
  BY <1>1, <1>2

\* Not yet the request: messages without an acknowledgement.
LEMMA CalmOneWay ==
    ASSUME TypeInv, Calm, up # <<>>, OneWay(up[1]), link = "up", up' = Tail(up),
           UNCHANGED <<link, down, frames, session, brokerSubs, subscriptions, violated>>
    PROVE  Calm'
<1>1. /\ DOMAIN up = 1..Len(up) /\ Len(up) \in Nat /\ Len(up) >= 1
      /\ Len(up') = Len(up) - 1 /\ DOMAIN up' = 1..(Len(up) - 1)
      /\ \A k \in DOMAIN up' : k + 1 \in DOMAIN up /\ up'[k] = up[k + 1]
  BY TakenUp
<1>2. NoRequest => NoRequest'
  BY <1>1 DEF NoRequest, OneWay
<1>3. Waiting /\ Requested => Requested' /\ ~NoRequest'
  <2> SUFFICES ASSUME Waiting, Requested PROVE Requested' /\ ~NoRequest'
    OBVIOUS
  <2>0. ~OneWay(up[Len(up)])
    <3>1. Top.op \in DOMAIN Reply /\ Top \in Made
      BY TopBelow DEF Waiting
    <3> QED
      BY <3>1, AskedAndReply DEF Requested, OneWay, Made, CallOK
  <2>1. Len(up) # 1
    BY <2>0
  <2>2. Len(up') \in DOMAIN up' /\ up'[Len(up')] = up[Len(up)]
    BY <1>1, <2>1
  <2>3. up' # <<>>
    BY <1>1, <2>1
  <2>4. \A i \in DOMAIN up' : i # Len(up') => OneWay(up'[i])
    <3>1. \A i \in DOMAIN up' : i # Len(up') => i + 1 # Len(up)
      BY <1>1
    <3> QED
      BY <1>1, <3>1 DEF Requested, OneWay
  <2>5. Top' = Top
    BY DEF Top
  <2> QED
    BY <2>0, <2>2, <2>3, <2>4, <2>5 DEF Requested, NoRequest, OneWay
<1>4. NoReply' <=> NoReply
  BY DEF NoReply
<1>5. (Answered' <=> Answered) /\ (Waiting' <=> Waiting)
  BY DEF Answered, Waiting, Top
<1>6. Talk'
  BY <1>2, <1>3, <1>4, <1>5 DEF Calm, Talk
<1>7. NoRequest' <=> NoRequest
  BY <1>2, <1>3 DEF Calm, Talk
<1>8. Left' = Left /\ Coming' = Coming
  BY <1>7 DEF Left, Coming, Top
<1> QED
  BY <1>6, <1>7, <1>8 DEF Calm, Alone, LinkOK, ListOK, Agreed, Top

\* The broker has received the request, and its reply is on the way.
LEMMA CalmResponse ==
    ASSUME TypeInv, Calm, up # <<>>, ~OneWay(up[1]), up' = Tail(up), link # "down",
           link' \in {"up", "lost"}, link' = "up" => link = "up",
           NEW p \in Answers, p.id = up[1].id, down' = Append(down, p),
           Waiting => p.type = Reply[Top.op],
           link' = "up" => /\ session' = (session \/ up[1].type = "CONNECT")
                           /\ brokerSubs' = Coming,
           UNCHANGED <<frames, subscriptions, violated>>
    PROVE  Calm'
<1>1. /\ DOMAIN up = 1..Len(up) /\ Len(up) \in Nat /\ Len(up) >= 1
      /\ Len(up') = Len(up) - 1 /\ DOMAIN up' = 1..(Len(up) - 1)
      /\ \A k \in DOMAIN up' : k + 1 \in DOMAIN up /\ up'[k] = up[k + 1]
      /\ up' \in Seq(Sent)
  BY TakenUp
<1>2. Waiting /\ NoReply /\ Requested /\ ~NoRequest
  BY <1>1 DEF Calm, Talk, NoRequest
<1>3. Len(up) = 1
  BY <1>1, <1>2 DEF Requested
<1>4. up' = <<>> /\ NoRequest'
  <2>1. up' = <<>>
    BY <1>1, <1>3, EmptySeq
  <2> QED
    BY <2>1 DEF NoRequest
<1>5. Top' = Top /\ Waiting'
  BY <1>2 DEF Top, Waiting
<1>6. Answered'
  <2>1. /\ Len(down) + 1 \in DOMAIN down' /\ down'[Len(down) + 1] = p
        /\ \A k \in DOMAIN down : down'[k] = down[k]
        /\ \A k \in DOMAIN down' : k \in DOMAIN down \/ k = Len(down) + 1
    BY Added
  <2>2. \A k \in DOMAIN down' : k # Len(down) + 1 => down'[k].type = "PUBLISH"
    BY <1>2, <2>1 DEF NoReply
  <2>3. p.type = Reply[Top.op] /\ p.id = Top.id
    BY <1>2, <1>3 DEF Requested
  <2> QED
    BY <1>5, <2>1, <2>2, <2>3 DEF Answered
<1>7. Left' = Left /\ Coming' = brokerSubs'
  BY <1>4 DEF Left, Coming, Top
<1>8. Agreed'
  <2>1. Top.op \in DOMAIN Reply /\ up[1].type = Asked[Top.op]
    BY <1>2, <1>3 DEF Waiting, Requested
  <2>2. up[1].type = "CONNECT" <=> Top.op = "connect"
    BY <2>1, AskedAndReply
  <2>3. link' = "up" => session' /\ brokerSubs' = (ToSet(subscriptions) \ Left) \ Refused
    BY <2>2 DEF Calm, Agreed
  <2> QED
    BY <1>7, <2>3 DEF Agreed
<1>9. LinkOK'
  BY <1>4 DEF LinkOK
<1>10. Alone' /\ ListOK'
  BY DEF Calm, Alone, ListOK, Top
<1> QED
  BY <1>4, <1>5, <1>6, <1>8, <1>9, <1>10 DEF Calm, Talk

LEMMA CalmBroker ==
    ASSUME TypeInv, Calm, BrokerReceives
    PROVE  Calm'
<1>1. /\ link = "up" /\ up # <<>> /\ up' = Tail(up)
      /\ UNCHANGED <<link, frames, subscriptions, violated>>
      /\ up[1] \in Sent
  BY TailType DEF BrokerReceives, appVars, TypeInv
<1>2. CASE OneWay(up[1])
  <2>1. UNCHANGED <<down, session, brokerSubs>>
    BY <1>2 DEF BrokerReceives, OneWay
  <2> QED
    BY <1>1, <1>2, <2>1, CalmOneWay
<1>3. CASE ~OneWay(up[1])
  <2>1. Waiting /\ Requested /\ ~NoRequest
    <3>1. 1 \in DOMAIN up
      BY <1>1, TailType DEF TypeInv
    <3> QED
      BY <1>3, <3>1 DEF Calm, Talk, NoRequest
  <2>2. Len(up) = 1
    <3>1. 1 \in DOMAIN up
      BY <1>1, TailType DEF TypeInv
    <3> QED
      BY <1>3, <2>1, <3>1 DEF Requested
  <2>3. Top.op \in DOMAIN Reply /\ up[1].type = Asked[Top.op] /\ up[1].arg = Top.arg
    BY <2>1, <2>2 DEF Waiting, Requested
  <2>6. /\ up[1].type = "SUBSCRIBE" => Reply[Top.op] = "SUBACK" /\ Top.op \in {"resub", "subscribe"}
        /\ up[1].type = "UNSUBSCRIBE" =>
              Reply[Top.op] = "UNSUBACK" /\ Top.op \in {"replace", "unsubscribe"}
        /\ up[1].type = "PUBLISH" => Reply[Top.op] = "PUBACK"
        /\ up[1].type = "PINGREQ" => Reply[Top.op] = "PINGRESP"
        /\ up[1].type \notin {"SUBSCRIBE", "UNSUBSCRIBE"} =>
              Top.op \notin {"resub", "subscribe", "replace", "unsubscribe"}
    BY <2>3, AskedAndReply
  <2>4. \E type \in Replies, ok \in BOOLEAN :
            /\ Respond(type, ok) /\ type = Reply[Top.op]
            /\ session' = (session \/ up[1].type = "CONNECT") /\ brokerSubs' = Coming
    <3>1. CASE up[1].type = "CONNECT"
      BY <2>3, <3>1, AskedAndReply DEF BrokerReceives, Replies, Coming
    <3>2. CASE up[1].type = "SUBSCRIBE"
      <4>1. Respond("SUBACK", up[1].arg \notin Refused) /\ "SUBACK" = Reply[Top.op]
        BY <2>6, <3>2 DEF BrokerReceives
      <4>2. session' = session /\ brokerSubs' = Coming
        BY <2>1, <2>3, <2>6, <3>2 DEF BrokerReceives, Coming
      <4>3. "SUBACK" \in Replies /\ (up[1].arg \notin Refused) \in BOOLEAN
        BY DEF Replies
      <4>4. session' = (session \/ up[1].type = "CONNECT")
        BY <3>2, <4>2 DEF TypeInv
      <4> QED
        BY <4>1, <4>2, <4>3, <4>4
    <3>3. CASE up[1].type = "UNSUBSCRIBE"
      <4>1. Respond("UNSUBACK", TRUE) /\ "UNSUBACK" = Reply[Top.op]
        BY <2>6, <3>3 DEF BrokerReceives
      <4>2. session' = session /\ brokerSubs' = Coming
        BY <2>1, <2>3, <2>6, <3>3 DEF BrokerReceives, Coming
      <4>3. session' = (session \/ up[1].type = "CONNECT")
        BY <3>3, <4>2 DEF TypeInv
      <4> QED
        BY <4>1, <4>2, <4>3 DEF Replies
    <3>4. CASE up[1].type = "PUBLISH"
      <4>1. Respond("PUBACK", TRUE) /\ "PUBACK" = Reply[Top.op]
        BY <1>3, <2>6, <3>4 DEF BrokerReceives, OneWay
      <4>2. session' = session /\ brokerSubs' = Coming
        BY <2>6, <3>4 DEF BrokerReceives, Coming
      <4>3. session' = (session \/ up[1].type = "CONNECT")
        BY <3>4, <4>2 DEF TypeInv
      <4> QED
        BY <4>1, <4>2, <4>3 DEF Replies
    <3>5. CASE up[1].type = "PINGREQ"
      <4>1. Respond("PINGRESP", TRUE) /\ "PINGRESP" = Reply[Top.op]
        BY <2>6, <3>5 DEF BrokerReceives
      <4>2. session' = session /\ brokerSubs' = Coming
        BY <2>6, <3>5 DEF BrokerReceives, Coming, brokerVars
      <4>3. session' = (session \/ up[1].type = "CONNECT")
        BY <3>5, <4>2 DEF TypeInv
      <4> QED
        BY <4>1, <4>2, <4>3 DEF Replies
    <3> QED
      BY <1>1, <3>1, <3>2, <3>3, <3>4, <3>5 DEF Sent, SentOK
  <2>5. PICK p \in Answers : p.type = Reply[Top.op] /\ p.id = up[1].id /\ down' = Append(down, p)
    BY <1>1, <2>4, Response
  <2> QED
    BY <1>1, <1>3, <2>4, <2>5, CalmResponse
<1> QED
  BY <1>2, <1>3

LEMMA CalmNetwork ==
    ASSUME TypeInv, Calm, BrokerRefuses \/ BrokerPublishes \/ LinkLost
    PROVE  Calm'
<1>1. ASSUME BrokerRefuses PROVE Calm'
  <2>1. /\ link = "up" /\ up # <<>> /\ up[1].type = "CONNECT" /\ link' = "lost" /\ up' = <<>>
        /\ UNCHANGED <<frames, subscriptions, violated>>
    BY <1>1 DEF BrokerRefuses, appVars
  <2>2. 1 \in DOMAIN up /\ ~OneWay(up[1])
    BY <2>1, TailType DEF TypeInv, OneWay
  <2>3. Waiting /\ Requested
    BY <2>2 DEF Calm, Talk, NoRequest
  <2>4. Len(up) = 1
    BY <2>2, <2>3 DEF Requested
  <2>5. Tail(up) = <<>>
    <3>1. Tail(up) \in Seq(Sent) /\ Len(Tail(up)) = 0
      BY <2>1, <2>4, TailType DEF TypeInv
    <3> QED
      BY <3>1, EmptySeq
  <2>6. Top.op \in DOMAIN Reply /\ Reply[Top.op] = "CONNACK"
    <3>1. Top.op \in DOMAIN Reply /\ Asked[Top.op] = "CONNECT"
      BY <2>1, <2>3, <2>4 DEF Waiting, Requested
    <3> QED
      BY <3>1, AskedAndReply
  <2>7. PICK p \in Answers : p.type = "CONNACK" /\ p.id = up[1].id /\ down' = Append(down, p)
    BY <1>1, <2>1, Response DEF BrokerRefuses, Replies
  <2> QED
    BY <2>1, <2>2, <2>5, <2>6, <2>7, CalmResponse
<1>2. ASSUME BrokerPublishes PROVE Calm'
  <2>1. /\ link = "up"
        /\ UNCHANGED <<link, up, session, brokerSubs, frames, subscriptions, violated>>
    BY <1>2 DEF BrokerPublishes, brokerVars, appVars
  <2>2. PICK f \in brokerSubs :
            down' = Append(down, [type |-> "PUBLISH", arg |-> f, id |-> 0, ok |-> TRUE])
    BY <1>2 DEF BrokerPublishes
  <2> DEFINE p == [type |-> "PUBLISH", arg |-> f, id |-> 0, ok |-> TRUE]
  <2>3. p \in Answers /\ p.type = "PUBLISH"
    BY NoneEmpty DEF TypeInv, Answers, Packets
  <2>4. down' = Append(down, p)
    BY <2>2
  <2> HIDE DEF p
  <2>5. /\ \A k \in DOMAIN down : k \in DOMAIN down' /\ down'[k] = down[k]
        /\ \A k \in DOMAIN down' : k \in DOMAIN down \/ down'[k] = p
    BY <2>3, <2>4, Added
  <2>6. NoReply => NoReply'
    BY <2>3, <2>5 DEF NoReply
  <2>7. Answered => Answered'
    <3>1. Top' = Top
      BY <2>1 DEF Top
    <3> QED
      BY <2>3, <2>5, <3>1 DEF Answered
  <2>8. (NoRequest' <=> NoRequest) /\ (Requested' <=> Requested) /\ (Waiting' <=> Waiting)
    BY <2>1 DEF NoRequest, Requested, Waiting, Top
  <2>9. Left' = Left /\ Coming' = Coming
    BY <2>1, <2>8 DEF Left, Coming, Top
  <2> QED
    BY <2>1, <2>6, <2>7, <2>8, <2>9 DEF Calm, Talk, Alone, LinkOK, ListOK, Agreed, Top
<1>3. ASSUME LinkLost PROVE Calm'
  <2>1. /\ link' = "lost" /\ up' = <<>> /\ down' \in {down, <<>>}
        /\ UNCHANGED <<frames, subscriptions, violated>>
    BY <1>3 DEF LinkLost, appVars
  <2>2. NoRequest' /\ LinkOK' /\ (NoReply => NoReply')
    BY <2>1 DEF NoRequest, LinkOK, NoReply
  <2>3. Answered /\ ~NoReply' => Answered'
    <3>1. down' = <<>> => NoReply'
      BY DEF NoReply
    <3> QED
      BY <2>1, <3>1 DEF Answered, Top
  <2>4. Waiting' <=> Waiting
    BY <2>1 DEF Waiting, Top
  <2> QED
    BY <2>1, <2>2, <2>3, <2>4 DEF Calm, Talk, Alone, ListOK, Agreed, Top
<1> QED
  BY <1>1, <1>2, <1>3

-----------------------------------------------------------------------------
(* The list and what has been requested of it.                              *)

LEMMA FrontSet ==
    ASSUME NEW S, NEW s \in Seq(S), NEW a \in S
    PROVE  /\ ToSet(<<a>> \o s) = {a} \cup ToSet(s)
           /\ Distinct(s) /\ a \notin ToSet(s) => Distinct(<<a>> \o s)
<1> DEFINE t == <<a>> \o s
<1>1. /\ t \in Seq(S) /\ Len(t) = Len(s) + 1 /\ t[1] = a /\ Len(s) \in Nat
      /\ \A k \in 1..Len(s) : t[k + 1] = s[k]
  BY InFront
<1> HIDE DEF t
<1>2. DOMAIN t = 1..(Len(s) + 1) /\ DOMAIN s = 1..Len(s)
  BY <1>1
<1>3. \A k \in DOMAIN t : k = 1 \/ (k - 1 \in DOMAIN s /\ t[k] = s[k - 1])
  <2>1. \A k \in DOMAIN t : k = 1 \/ (k - 1 \in 1..Len(s) /\ (k - 1) + 1 = k)
    BY <1>1, <1>2
  <2> QED
    BY <1>1, <1>2, <2>1
<1>4. \A k \in DOMAIN s : k + 1 \in DOMAIN t /\ t[k + 1] = s[k]
  BY <1>1, <1>2
<1>5. 1 \in DOMAIN t
  BY <1>1, <1>2
<1>6. ToSet(t) = {a} \cup ToSet(s)
  <2>1. \A k \in DOMAIN t : t[k] = a \/ t[k] \in ToSet(s)
    BY <1>1, <1>3 DEF ToSet
  <2>2. a \in ToSet(t) /\ \A k \in DOMAIN s : s[k] \in ToSet(t)
    BY <1>1, <1>4, <1>5 DEF ToSet
  <2> QED
    BY <2>1, <2>2 DEF ToSet
<1>7. ASSUME Distinct(s), a \notin ToSet(s) PROVE Distinct(t)
  <2> SUFFICES ASSUME NEW i \in DOMAIN t, NEW j \in DOMAIN t, i # j PROVE t[i] # t[j]
    BY DEF Distinct
  <2>1. \A k \in DOMAIN s : s[k] # a
    BY <1>7 DEF ToSet
  <2>2. i - 1 # j - 1
    BY <1>1, <1>2
  <2> QED
    BY <1>1, <1>3, <1>7, <2>1, <2>2 DEF Distinct
<1> QED
  BY <1>6, <1>7 DEF t

LEMMA TailSet ==
    ASSUME NEW S, NEW s \in Seq(S), s # <<>>, Distinct(s)
    PROVE  /\ ToSet(Tail(s)) = ToSet(s) \ {s[1]} /\ s[1] \in ToSet(s)
           /\ Distinct(Tail(s))
<1> DEFINE t == Tail(s)
<1>1. /\ t \in Seq(S) /\ Len(t) = Len(s) - 1 /\ Len(s) \in Nat /\ Len(s) >= 1
      /\ \A k \in 1..(Len(s) - 1) : t[k] = s[k + 1]
  BY TailType
<1> HIDE DEF t
<1>2. DOMAIN t = 1..(Len(s) - 1) /\ DOMAIN s = 1..Len(s) /\ 1 \in DOMAIN s
  BY <1>1
<1>3. \A k \in DOMAIN t : k + 1 \in DOMAIN s /\ k + 1 # 1 /\ t[k] = s[k + 1]
  BY <1>1, <1>2
<1>4. \A k \in DOMAIN s : k # 1 => k - 1 \in DOMAIN t /\ t[k - 1] = s[k]
  <2>1. \A k \in DOMAIN s : k # 1 => k - 1 \in 1..(Len(s) - 1) /\ (k - 1) + 1 = k
    BY <1>1, <1>2
  <2> QED
    BY <1>1, <1>2, <2>1
<1>5. \A k \in DOMAIN t : t[k] \in ToSet(s) /\ t[k] # s[1]
  BY <1>2, <1>3 DEF Distinct, ToSet
<1>6. \A k \in DOMAIN s : s[k] # s[1] => s[k] \in ToSet(t)
  BY <1>4 DEF ToSet
<1>7. ToSet(t) = ToSet(s) \ {s[1]} /\ s[1] \in ToSet(s)
  BY <1>2, <1>5, <1>6 DEF ToSet
<1>8. Distinct(t)
  <2> SUFFICES ASSUME NEW i \in DOMAIN t, NEW j \in DOMAIN t, i # j PROVE t[i] # t[j]
    BY DEF Distinct
  <2>1. i + 1 # j + 1
    BY <1>1, <1>2
  <2> QED
    BY <1>3, <2>1 DEF Distinct
<1> QED
  BY <1>7, <1>8 DEF t

LEMMA RemovedSet ==
    ASSUME NEW S, NEW s \in Seq(S), NEW i \in DOMAIN s, Distinct(s)
    PROVE  ToSet(RemoveAt(s, i)) = ToSet(s) \ {s[i]} /\ Distinct(RemoveAt(s, i))
<1> DEFINE t == RemoveAt(s, i)
<1>1. Len(s) \in Nat /\ DOMAIN s = 1..Len(s) /\ i \in 1..Len(s)
  OBVIOUS
<1>2. /\ t \in Seq(S) /\ Len(t) = Len(s) - 1
      /\ \A k \in 1..(Len(s) - 1) : t[k] = IF k < i THEN s[k] ELSE s[k + 1]
  BY <1>1, RemoveAtType
<1> HIDE DEF t
<1> DEFINE Old(k) == IF k < i THEN k ELSE k + 1
<1>3. DOMAIN t = 1..(Len(s) - 1)
  BY <1>1, <1>2
<1>4. \A k \in DOMAIN t : Old(k) \in DOMAIN s /\ Old(k) # i /\ t[k] = s[Old(k)]
  BY <1>1, <1>2, <1>3
<1>5. \A k \in DOMAIN s : k # i => \E l \in DOMAIN t : t[l] = s[k]
  <2> SUFFICES ASSUME NEW k \in DOMAIN s, k # i PROVE \E l \in DOMAIN t : t[l] = s[k]
    OBVIOUS
  <2>1. CASE k < i
    <3>1. k \in DOMAIN t /\ t[k] = s[k]
      BY <1>1, <1>2, <1>3, <2>1
    <3> QED
      BY <3>1
  <2>2. CASE k > i
    <3>1. k - 1 \in DOMAIN t /\ ~(k - 1 < i) /\ (k - 1) + 1 = k
      BY <1>1, <1>3, <2>2
    <3>2. t[k - 1] = s[k]
      BY <1>2, <1>3, <3>1
    <3> QED
      BY <3>1, <3>2
  <2> QED
    BY <1>1, <2>1, <2>2
<1>6. \A k, l \in DOMAIN t : k # l => Old(k) # Old(l)
  BY <1>1, <1>3
<1>7. Distinct(t)
  <2> SUFFICES ASSUME NEW k \in DOMAIN t, NEW l \in DOMAIN t, k # l PROVE t[k] # t[l]
    BY DEF Distinct
  <2>1. Old(k) \in DOMAIN s /\ Old(l) \in DOMAIN s /\ t[k] = s[Old(k)] /\ t[l] = s[Old(l)]
    BY <1>4
  <2>2. Old(k) # Old(l)
    BY <1>6
  <2> HIDE DEF Old
  <2> QED
    BY <2>1, <2>2 DEF Distinct
<1>8. ToSet(t) = ToSet(s) \ {s[i]}
  <2>1. \A k \in DOMAIN t : t[k] \in ToSet(s) /\ t[k] # s[i]
    <3> SUFFICES ASSUME NEW k \in DOMAIN t PROVE t[k] \in ToSet(s) /\ t[k] # s[i]
      OBVIOUS
    <3>1. Old(k) \in DOMAIN s /\ Old(k) # i /\ t[k] = s[Old(k)]
      BY <1>4
    <3> HIDE DEF Old
    <3> QED
      BY <3>1 DEF Distinct, ToSet
  <2>2. \A k \in DOMAIN s : s[k] # s[i] => s[k] \in ToSet(t)
    BY <1>5 DEF ToSet
  <2> QED
    BY <2>1, <2>2 DEF ToSet
<1> QED
  BY <1>7, <1>8 DEF t

-----------------------------------------------------------------------------
(* Calls.                                                                   *)

\* Application code runs only while nothing is awaited.
LEMMA MayCallQuiet ==
    ASSUME TypeInv, Calm, MayCall
    PROVE  /\ ~Waiting /\ Left = {} /\ frames \in Seq(Made)
           /\ \A i \in DOMAIN frames : frames[i].op \notin DOMAIN Reply
           /\ frames = <<>> \/ Top.op = "callback"
<1>1. frames = <<>> \/ Top.op = "callback"
  BY DEF MayCall
<1>2. "callback" \notin DOMAIN Reply
  BY Blocks
<1>3. frames \in Seq(Made) /\ \A i \in DOMAIN frames : i = 1 \/ i > 1
  BY DEF TypeInv
<1>4. \A i \in DOMAIN frames : frames[i].op \notin DOMAIN Reply
  BY <1>1, <1>2, <1>3 DEF Calm, Alone, Top
<1> QED
  BY <1>1, <1>2, <1>3, <1>4 DEF Waiting, Left

LEMMA Asks ==
    ASSUME TypeInv, Calm, ~Waiting, NEW type, NEW op, NEW arg, NEW below \in Seq(Made),
           \/ type = "SUBSCRIBE" /\ op = "subscribe" /\ arg \in Filters
           \/ type = "UNSUBSCRIBE" /\ op \in {"replace", "unsubscribe"} /\ arg \in Filters
           \/ type = "PUBLISH" /\ op = "publish" /\ arg \in 1..MaxPublish,
           \A i \in DOMAIN below : below[i].op \notin DOMAIN Reply,
           Ask(type, op, arg, below)
    PROVE  /\ Alone' /\ LinkOK' /\ Talk' /\ frames' # <<>> /\ Top'.op = op /\ Top'.arg = arg
           /\ link' = "up" => link = "up" /\ ~NoRequest'
<1> DEFINE c == Call(op, arg, NextId)
           p == Request(type, arg, NextId)
<1>1. /\ op \in DOMAIN Reply /\ op \in DOMAIN Reply \cup {"enter", "loop", "callback"}
      /\ arg \in Filters \cup {NoFilter} \cup 1..MaxPublish
  BY Blocks
<1>2. NextId \in 0..MaxId /\ NextId # 0
  BY NoneEmpty
<1>3. /\ c \in Calls /\ c.op = op /\ c.arg = arg /\ c.id = NextId /\ c.done = FALSE
  BY <1>1, <1>2, NoneEmpty DEF Call, Calls
<1>4. p \in Sent /\ p.type = type /\ p.arg = arg /\ p.id = NextId
  BY <1>1, <1>2, NewRequest
<1>5. type = Asked[op]
  BY DEF Asked
<1>6. Write(p) /\ frames' = <<c>> \o below
  BY DEF Ask
<1> HIDE DEF c, p
<1>7. c \in Made
  BY <1>1, <1>2, <1>3 DEF Made, CallOK
<1> QED
  BY <1>1, <1>3, <1>4, <1>5, <1>6, <1>7, Begins

LEMMA CalmSubscribe ==
    ASSUME TypeInv, Calm, NEW f \in Filters,
           Subscribe(f) \/ (ReplaceReturns /\ f = Top.arg)
    PROVE  Calm'
<1>1. \E below \in Seq(Made) : /\ Ask("SUBSCRIBE", "subscribe", f, below)
                               /\ \A i \in DOMAIN below : below[i].op \notin DOMAIN Reply
  <2>1. CASE Subscribe(f)
    BY <2>1, MayCallQuiet DEF Subscribe
  <2>2. CASE ReplaceReturns /\ f = Top.arg
    BY <2>2, TopBelow, NoneBelow DEF ReplaceReturns, Calm
  <2> QED
    BY <2>1, <2>2
<1>2. /\ ~Waiting /\ Left = {} /\ f \notin ToSet(subscriptions)
      /\ subscriptions' = <<f>> \o subscriptions /\ UNCHANGED <<session, brokerSubs, violated>>
  <2>1. CASE Subscribe(f)
    BY <2>1, MayCallQuiet DEF Subscribe, brokerVars
  <2>2. CASE ReplaceReturns /\ f = Top.arg
    BY <2>2 DEF ReplaceReturns, Waiting, Left, Calm, ListOK, brokerVars
  <2> QED
    BY <2>1, <2>2
<1>3. /\ Alone' /\ LinkOK' /\ Talk' /\ frames' # <<>> /\ Top'.op = "subscribe" /\ Top'.arg = f
      /\ link' = "up" => link = "up" /\ ~NoRequest'
  BY <1>1, <1>2, Asks
<1>4. ToSet(subscriptions') = {f} \cup ToSet(subscriptions) /\ Distinct(subscriptions')
  BY <1>2, FrontSet DEF TypeInv, Calm, ListOK
<1>5. ListOK'
  BY <1>3, <1>4 DEF ListOK
<1>6. Agreed'
  <2> SUFFICES ASSUME link' = "up"
               PROVE  session' /\ Coming' = (ToSet(subscriptions') \ Left') \ Refused
    BY DEF Agreed
  <2>1. session /\ brokerSubs = ToSet(subscriptions) \ Refused
    BY <1>2, <1>3, Quiet
  <2>2. Coming' = brokerSubs \cup ({f} \ Refused)
    BY <1>2, <1>3 DEF Coming
  <2>3. Left' = {}
    BY <1>3 DEF Left
  <2> QED
    BY <1>2, <1>4, <2>1, <2>2, <2>3
<1> QED
  BY <1>2, <1>3, <1>5, <1>6 DEF Calm

LEMMA CalmUnsubscribe ==
    ASSUME TypeInv, Calm, NEW f \in Filters, Replace(f) \/ Unsubscribe(f)
    PROVE  Calm'
<1>1. PICK op \in {"replace", "unsubscribe"}, i \in DOMAIN subscriptions :
          /\ Ask("UNSUBSCRIBE", op, f, frames)
          /\ subscriptions[i] = f /\ subscriptions' = RemoveAt(subscriptions, i)
  BY DEF Replace, Unsubscribe
<1>2. MayCall /\ UNCHANGED <<session, brokerSubs, violated>>
  BY DEF Replace, Unsubscribe, brokerVars
<1>3. /\ ~Waiting /\ Left = {} /\ frames \in Seq(Made)
      /\ \A k \in DOMAIN frames : frames[k].op \notin DOMAIN Reply
  BY <1>2, MayCallQuiet
<1>4. /\ Alone' /\ LinkOK' /\ Talk' /\ frames' # <<>> /\ Top'.op = op /\ Top'.arg = f
      /\ link' = "up" => link = "up" /\ ~NoRequest'
  BY <1>1, <1>3, Asks
<1>5. ToSet(subscriptions') = ToSet(subscriptions) \ {f} /\ Distinct(subscriptions')
  BY <1>1, RemovedSet DEF TypeInv, Calm, ListOK
<1>6. ListOK'
  BY <1>4, <1>5 DEF ListOK
<1>7. Agreed'
  <2> SUFFICES ASSUME link' = "up"
               PROVE  session' /\ Coming' = (ToSet(subscriptions') \ Left') \ Refused
    BY DEF Agreed
  <2>1. session /\ brokerSubs = ToSet(subscriptions) \ Refused
    BY <1>3, <1>4, Quiet
  <2>2. Coming' = brokerSubs \ {f}
    BY <1>2, <1>4 DEF Coming
  <2>3. Left' = {}
    BY <1>4 DEF Left
  <2> QED
    BY <1>2, <1>5, <2>1, <2>2, <2>3
<1> QED
  BY <1>2, <1>4, <1>6, <1>7 DEF Calm

-----------------------------------------------------------------------------
(* Connecting and renewing.                                                 *)

LEMMA CalmRenew ==
    ASSUME TypeInv, Calm, ~Waiting, NEW rest \in Seq(Filters), NEW below \in Seq(Made),
           \A i \in DOMAIN below : below[i].op \notin DOMAIN Reply,
           Renew(rest, below), Distinct(rest), ToSet(rest) \subseteq ToSet(subscriptions),
           link = "up" => Left = ToSet(rest),
           UNCHANGED <<session, brokerSubs, subscriptions, violated>>
    PROVE  Calm'
<1>1. NoReply /\ NoRequest /\ LinkOK
  BY Quiet DEF Calm
<1>2. CASE rest = <<>>
  <2> DEFINE d == Call("callback", NoFilter, 0)
             e == Call("enter", NoFilter, 0)
  <2>1. /\ d \in Made /\ e \in Made
        /\ d.op = "callback" /\ e.op = "enter"
    BY PlainCall DEF Call
  <2> HIDE DEF d, e
  <2>2. UNCHANGED netVars /\ frames' = <<d, e>> \o below
    BY <1>2 DEF Renew, d, e
  <2>3. frames' = <<d>> \o (<<e>> \o below)
    BY <2>1, <2>2, TwoPushed
  <2>4. /\ <<e>> \o below \in Seq(Made) /\ Len(<<e>> \o below) = Len(below) + 1
        /\ (<<e>> \o below)[1] = e
        /\ \A k \in 1..Len(below) : (<<e>> \o below)[k + 1] = below[k]
        /\ Len(below) \in Nat /\ DOMAIN below = 1..Len(below)
    BY <2>1, Pushed
  <2> DEFINE b == <<e>> \o below
  <2> HIDE DEF b
  <2>5. \A i \in DOMAIN b : b[i].op \notin DOMAIN Reply
    <3>1. \A i \in DOMAIN b : i = 1 \/ (i - 1 \in DOMAIN below /\ b[i] = below[i - 1])
      <4>1. \A i \in DOMAIN b : i = 1 \/ (i - 1 \in 1..Len(below) /\ (i - 1) + 1 = i)
        BY <2>4 DEF b
      <4> QED
        BY <2>4, <4>1 DEF b
    <3> QED
      BY <2>1, <2>4, <3>1, Blocks DEF b
  <2>6. b \in Seq(Made) /\ frames' = <<d>> \o b
    BY <2>3, <2>4 DEF b
  <2>7. Alone' /\ frames' # <<>> /\ Top' = d
    BY <2>1, <2>5, <2>6, AlonePush
  <2>8. NoReply' /\ NoRequest' /\ LinkOK' /\ link' = link
    BY <1>1, <2>2 DEF netVars, NoReply, NoRequest, LinkOK
  <2>9. link = "up" => Left = {}
    BY <1>2 DEF ToSet
  <2> QED
    BY <2>1, <2>7, <2>8, <2>9, Resting
<1>3. CASE rest # <<>>
  <2> DEFINE c == [Call("resub", rest[1], NextId) EXCEPT !.rest = Tail(rest)]
             p == Request("SUBSCRIBE", rest[1], NextId)
  <2>1. /\ c \in Made /\ c.op = "resub" /\ c.arg = rest[1] /\ c.id = NextId
        /\ c.rest = Tail(rest) /\ c.done = FALSE
    BY <1>3, ResubCall
  <2>2. p \in Sent /\ p.type = "SUBSCRIBE" /\ p.arg = rest[1] /\ p.id = NextId
    BY <1>3, TailType, NoneEmpty, NewRequest
  <2>3. Write(p) /\ frames' = <<c>> \o below
    BY <1>3 DEF Renew
  <2> HIDE DEF c, p
  <2>4. "resub" \in DOMAIN Reply /\ Asked["resub"] = "SUBSCRIBE"
    BY Blocks DEF Asked
  <2>5. /\ Alone' /\ LinkOK' /\ Talk' /\ frames' # <<>> /\ Top' = c
        /\ link' = "up" => link = "up" /\ ~NoRequest'
    BY <2>1, <2>2, <2>3, <2>4, Begins
  <2>6. /\ ToSet(Tail(rest)) = ToSet(rest) \ {rest[1]} /\ rest[1] \in ToSet(rest)
        /\ Distinct(Tail(rest))
    BY <1>3, TailSet
  <2>7. ListOK'
    BY <2>1, <2>5, <2>6 DEF Calm, ListOK
  <2>8. Agreed'
    <3> SUFFICES ASSUME link' = "up"
                 PROVE  session' /\ Coming' = (ToSet(subscriptions') \ Left') \ Refused
      BY DEF Agreed
    <3>1. session /\ brokerSubs = (ToSet(subscriptions) \ ToSet(rest)) \ Refused
      BY <2>5, Quiet
    <3>2. Coming' = brokerSubs \cup ({rest[1]} \ Refused)
      BY <2>1, <2>5 DEF Coming
    <3>3. Left' = ToSet(rest) \ {rest[1]}
      BY <2>1, <2>5, <2>6 DEF Left
    <3> QED
      BY <2>6, <3>1, <3>2, <3>3
  <2> QED
    BY <2>5, <2>7, <2>8 DEF Calm
<1> QED
  BY <1>2, <1>3

LEMMA CalmConnect ==
    ASSUME TypeInv, Calm, Connect \/ ConnectReturns \/ ResubReturns
    PROVE  Calm'
<1>1. ASSUME Connect PROVE Calm'
  <2> DEFINE c == Call("connect", NoFilter, 0)
             p == Request("CONNECT", NoFilter, 0)
  <2>1. c \in Made /\ c.op = "connect" /\ c.done = FALSE /\ c.id = 0 /\ c.arg = NoFilter
    BY PlainCall DEF Call
  <2>2. p.type = "CONNECT" /\ p.id = 0 /\ p.arg = NoFilter
    BY DEF Request
  <2>3. frames' = <<c>> /\ up' = <<p>> /\ down' = <<>> /\ link' = "up" /\ brokerSubs' = {}
        /\ UNCHANGED <<subscriptions, violated>>
    BY <1>1 DEF Connect, appVars
  <2> HIDE DEF c, p
  <2>4. frames' # <<>> /\ Top' = c /\ DOMAIN frames' = {1} /\ Len(up') = 1 /\ DOMAIN up' = {1}
        /\ up' # <<>> /\ up'[1] = p
    BY <2>3 DEF Top
  <2>5. Alone' /\ LinkOK' /\ NoReply'
    BY <2>3, <2>4 DEF Alone, LinkOK, NoReply
  <2>6. Requested' /\ ~NoRequest'
    BY <2>1, <2>2, <2>4 DEF Requested, NoRequest, OneWay, Asked
  <2>7. Waiting'
    BY <2>1, <2>4, Blocks DEF Waiting
  <2>8. ListOK'
    BY <2>1, <2>3, <2>4 DEF Calm, ListOK
  <2>9. Agreed'
    <3>1. Left' = ToSet(subscriptions')
      BY <2>1, <2>4 DEF Left
    <3>2. Coming' = {}
      BY <2>1, <2>3, <2>4 DEF Coming
    <3> QED
      BY <2>1, <2>4, <2>6, <3>1, <3>2 DEF Agreed
  <2> QED
    BY <2>3, <2>5, <2>6, <2>7, <2>8, <2>9 DEF Calm, Talk
<1>2. ASSUME ConnectReturns PROVE Calm'
  <2>1. /\ frames # <<>> /\ Top.op = "connect" /\ ~Waiting
        /\ UNCHANGED <<session, brokerSubs, subscriptions, violated>>
    BY <1>2 DEF ConnectReturns, Waiting, brokerVars
  <2>2. Below \in Seq(Made) /\ \A i \in DOMAIN Below : Below[i].op \notin DOMAIN Reply
    BY <2>1, TopBelow, NoneBelow DEF Calm
  <2>3. CASE Connected
    <3>1. Renew(subscriptions, Below)
      BY <1>2, <2>3 DEF ConnectReturns
    <3>2. Left = ToSet(subscriptions)
      BY <2>1 DEF Left
    <3>3. subscriptions \in Seq(Filters) /\ Distinct(subscriptions)
      BY DEF TypeInv, Calm, ListOK
    <3> QED
      BY <2>1, <2>2, <3>1, <3>2, <3>3, CalmRenew
  <2>4. CASE ~Connected
    <3>1. frames' = Below /\ UNCHANGED netVars /\ link # "up"
      BY <1>2, <2>4 DEF ConnectReturns, Connected
    <3>2. Alone' /\ (frames' = <<>> \/ Top'.op \notin {"connect", "resub", "replace"})
      <4>1. frames' = <<>> \/ 1 \in DOMAIN frames'
        BY <2>2, <3>1, TailType
      <4> QED
        BY <2>2, <3>1, <4>1, Blocks DEF Alone, Top
    <3>3. NoReply' /\ NoRequest' /\ LinkOK'
      BY <2>1, <3>1, Quiet DEF Calm, netVars, NoReply, NoRequest, LinkOK
    <3> QED
      BY <2>1, <3>1, <3>2, <3>3, Resting DEF netVars
  <2> QED
    BY <2>3, <2>4
<1>3. ASSUME ResubReturns PROVE Calm'
  <2>1. /\ frames # <<>> /\ Top.op = "resub" /\ ~Waiting /\ Renew(Top.rest, Below)
        /\ UNCHANGED <<session, brokerSubs, subscriptions, violated>>
    BY <1>3 DEF ResubReturns, Waiting, brokerVars
  <2>2. Below \in Seq(Made) /\ \A i \in DOMAIN Below : Below[i].op \notin DOMAIN Reply
    BY <2>1, TopBelow, NoneBelow DEF Calm
  <2>3. Top.rest \in Seq(Filters)
    BY <2>1, TopBelow DEF Made, Calls
  <2>4. Distinct(Top.rest) /\ ToSet(Top.rest) \subseteq ToSet(subscriptions)
    BY <2>1 DEF Calm, ListOK
  <2>5. Left = ToSet(Top.rest)
    BY <2>1 DEF Left
  <2> QED
    BY <2>1, <2>2, <2>3, <2>4, <2>5, CalmRenew
<1> QED
  BY <1>1, <1>2, <1>3

\* A ping, or a publication that is acknowledged.
LEMMA CalmRequests ==
    ASSUME TypeInv, Calm, Ping \/ PublishQos1
    PROVE  Calm'
<1>1. /\ ~Waiting /\ Left = {} /\ UNCHANGED <<session, brokerSubs, subscriptions, violated>>
  <2>1. CASE Ping
    BY <2>1, Blocks DEF Ping, Waiting, Left, brokerVars, appVars
  <2>2. CASE PublishQos1
    BY <2>2, MayCallQuiet DEF PublishQos1, brokerVars
  <2> QED
    BY <2>1, <2>2
<1>2. /\ Alone' /\ LinkOK' /\ Talk' /\ frames' # <<>> /\ Top'.op \in {"ping", "publish"}
      /\ link' = "up" => link = "up"
  <2>1. CASE Ping
    <3> DEFINE c == Call("ping", NoFilter, 0)
               p == Request("PINGREQ", NoFilter, 0)
    <3>1. c \in Made /\ c.op = "ping" /\ c.done = FALSE /\ c.id = 0 /\ c.arg = NoFilter
      BY PlainCall DEF Call
    <3>2. p.type = "PINGREQ" /\ p.id = 0 /\ p.arg = NoFilter
      BY DEF Request
    <3>3. p \in Sent
      BY NoneEmpty, NewRequest
    <3>4. Write(p) /\ frames' = <<c>> \o Below /\ frames # <<>>
      BY <2>1 DEF Ping
    <3> HIDE DEF c, p
    <3>5. Below \in Seq(Made) /\ \A i \in DOMAIN Below : Below[i].op \notin DOMAIN Reply
      BY <3>4, TopBelow, NoneBelow DEF Calm
    <3>6. "ping" \in DOMAIN Reply /\ Asked["ping"] = "PINGREQ"
      BY Blocks DEF Asked
    <3>7. p.type = Asked[c.op] /\ p.id = c.id /\ p.arg = c.arg /\ c.op \in DOMAIN Reply
      BY <3>1, <3>2, <3>6
    <3> QED
      BY ONLY TypeInv, Calm, <1>1, <3>1, <3>3, <3>4, <3>5, <3>7, Begins
  <2>2. CASE PublishQos1
    <3>1. /\ frames \in Seq(Made) /\ \A i \in DOMAIN frames : frames[i].op \notin DOMAIN Reply
          /\ Ask("PUBLISH", "publish", published + 1, frames)
      BY <2>2, MayCallQuiet DEF PublishQos1
    <3>2. published + 1 \in 1..MaxPublish
      BY <2>2, ConstantsAssumption DEF PublishQos1, TypeInv
    <3> QED
      BY <1>1, <3>1, <3>2, Asks
  <2> QED
    BY <2>1, <2>2
<1>3. ListOK'
  BY <1>1, <1>2 DEF Calm, ListOK
<1>4. Agreed'
  <2> SUFFICES ASSUME link' = "up"
               PROVE  session' /\ Coming' = (ToSet(subscriptions') \ Left') \ Refused
    BY DEF Agreed
  <2>1. session /\ brokerSubs = ToSet(subscriptions) \ Refused
    BY <1>1, <1>2, Quiet
  <2>2. Coming' = brokerSubs' /\ Left' = {}
    BY <1>2 DEF Coming, Left
  <2> QED
    BY <1>1, <2>1, <2>2
<1> QED
  BY <1>1, <1>2, <1>3, <1>4 DEF Calm

\* A publication that is not acknowledged.
LEMMA CalmPublish ==
    ASSUME TypeInv, Calm, PublishQos0
    PROVE  Calm'
<1>1. /\ ~Waiting /\ Left = {} /\ frames' = frames
      /\ frames = <<>> \/ Top.op = "callback"
      /\ UNCHANGED <<session, brokerSubs, subscriptions, violated>>
  BY MayCallQuiet DEF PublishQos0, brokerVars
<1>2. NoReply /\ NoRequest /\ LinkOK
  BY <1>1, Quiet DEF Calm
<1>3. NoReply' /\ NoRequest' /\ LinkOK' /\ (link' = "up" => link = "up")
  <2>1. CASE UNCHANGED netVars
    BY <1>2, <2>1 DEF netVars, NoReply, NoRequest, LinkOK
  <2>2. CASE Write(Request("PUBLISH", published + 1, 0))
    <3> DEFINE p == Request("PUBLISH", published + 1, 0)
    <3>1. published + 1 \in 1..MaxPublish
      BY ConstantsAssumption DEF PublishQos0, TypeInv
    <3>2. p \in Sent /\ OneWay(p)
      BY <3>1, NoneEmpty, NewRequest DEF OneWay
    <3> HIDE DEF p
    <3> QED
      BY <1>2, <2>2, <3>2, WriteQuiet DEF p
  <2> QED
    BY <2>1, <2>2 DEF PublishQos0
<1>4. Alone' /\ (frames' = <<>> \/ Top'.op \notin {"connect", "resub", "replace"})
  BY <1>1 DEF Calm, Alone, Top
<1> QED
  BY <1>1, <1>3, <1>4, Resting

\* A call returns to the one below it.
LEMMA CalmReturn ==
    ASSUME TypeInv, Calm, LoopReturns \/ PublishReturns \/ CallReturns \/ CallbackReturns
    PROVE  Calm'
<1>1. /\ frames # <<>> /\ ~Waiting /\ Left = {} /\ frames' = Below /\ UNCHANGED netVars
      /\ UNCHANGED <<session, brokerSubs, subscriptions, violated>>
  <2>1. CASE LoopReturns
    BY <2>1, Blocks DEF LoopReturns, Waiting, Left, brokerVars, appVars
  <2>2. CASE PublishReturns
    BY <2>2 DEF PublishReturns, Waiting, Left, brokerVars
  <2>3. CASE CallReturns
    BY <2>3 DEF CallReturns, Waiting, Left, brokerVars, appVars
  <2>4. CASE CallbackReturns
    BY <2>4, Blocks DEF CallbackReturns, Waiting, Left, brokerVars, appVars
  <2> QED
    BY <2>1, <2>2, <2>3, <2>4
<1>2. Below \in Seq(Made) /\ \A i \in DOMAIN Below : Below[i].op \notin DOMAIN Reply
  BY <1>1, TopBelow, NoneBelow DEF Calm
<1>3. Alone' /\ (frames' = <<>> \/ Top'.op \notin {"connect", "resub", "replace"})
  <2>1. frames' = <<>> \/ 1 \in DOMAIN frames'
    BY <1>1, <1>2, TailType
  <2> QED
    BY <1>1, <1>2, <2>1, Blocks DEF Alone, Top
<1>4. NoReply' /\ NoRequest' /\ LinkOK' /\ link' = link
  BY <1>1, Quiet DEF Calm, netVars, NoReply, NoRequest, LinkOK
<1> QED
  BY <1>1, <1>3, <1>4, Resting

LEMMA CalmStops ==
    ASSUME TypeInv, Calm, ConnectFails \/ Disconnect
    PROVE  Calm'
<1>1. /\ ~Waiting /\ Left = {} /\ frames' = frames /\ Stop
      /\ frames = <<>> \/ Top.op = "callback"
      /\ UNCHANGED <<session, brokerSubs, subscriptions, violated>>
  <2>1. CASE ConnectFails
    BY <2>1 DEF ConnectFails, Waiting, Left, brokerVars, appVars
  <2>2. CASE Disconnect
    BY <2>2, MayCallQuiet DEF Disconnect, brokerVars, appVars
  <2> QED
    BY <2>1, <2>2
<1>2. NoReply' /\ NoRequest' /\ LinkOK' /\ link' # "up"
  BY <1>1 DEF Stop, NoReply, NoRequest, LinkOK
<1>3. Alone' /\ (frames' = <<>> \/ Top'.op \notin {"connect", "resub", "replace"})
  BY <1>1 DEF Calm, Alone, Top
<1> QED
  BY <1>1, <1>2, <1>3, Resting

LEMMA CalmEnters ==
    ASSUME TypeInv, Calm, EnterLoop \/ StartReading
    PROVE  Calm'
<1>1. /\ ~Waiting /\ Left = {} /\ UNCHANGED netVars
      /\ UNCHANGED <<session, brokerSubs, subscriptions, violated>>
  <2>1. CASE EnterLoop
    BY <2>1 DEF EnterLoop, Waiting, Left, brokerVars, appVars
  <2>2. CASE StartReading
    BY <2>2, Blocks DEF StartReading, Waiting, Left, brokerVars, appVars
  <2> QED
    BY <2>1, <2>2
<1>2. Alone' /\ frames' # <<>> /\ Top'.op \in {"enter", "loop"}
  <2>1. CASE EnterLoop
    <3> DEFINE c == Call("enter", NoFilter, 0)
    <3>1. frames' = <<c>> /\ c.op = "enter"
      BY <2>1 DEF EnterLoop, Call
    <3> HIDE DEF c
    <3> QED
      BY <3>1 DEF Alone, Top
  <2>2. CASE StartReading
    <3> DEFINE c == Call("loop", NoFilter, 0)
    <3>1. c \in Made /\ c.op = "loop" /\ frames' = <<c>> \o Below /\ frames # <<>>
      BY <2>2, PlainCall DEF StartReading, Call
    <3> HIDE DEF c
    <3>2. Below \in Seq(Made) /\ \A i \in DOMAIN Below : Below[i].op \notin DOMAIN Reply
      BY <3>1, TopBelow, NoneBelow DEF Calm
    <3> QED
      BY <3>1, <3>2, AlonePush
  <2> QED
    BY <2>1, <2>2
<1>3. NoReply' /\ NoRequest' /\ LinkOK' /\ link' = link
  BY <1>1, Quiet DEF Calm, netVars, NoReply, NoRequest, LinkOK
<1> QED
  BY <1>1, <1>2, <1>3, Resting

\* Connection::loop() finds nothing but messages.
LEMMA CalmRead ==
    ASSUME TypeInv, Calm, ~reentrant, ReadPacket
    PROVE  Calm'
<1> DEFINE c == [frames[1] EXCEPT !.left = @ - 1]
           calls == [frames EXCEPT ![1].left = @ - 1]
<1>1. /\ frames # <<>> /\ Top.op = "loop" /\ Top.left > 0 /\ down # <<>>
      /\ HandlePacket(calls) /\ UNCHANGED <<session, brokerSubs, subscriptions>>
  BY DEF ReadPacket, brokerVars
<1>2. ~Waiting /\ Left = {}
  BY <1>1, Blocks DEF Waiting, Left
<1>3. NoReply /\ NoRequest /\ LinkOK
  BY <1>2, Quiet DEF Calm
<1>4. /\ calls \in Seq(Made) /\ Len(calls) = Len(frames) /\ calls[1].op = "loop"
      /\ \A k \in DOMAIN calls : calls[k].op \notin DOMAIN Reply
      /\ calls # <<>>
  <2>1. frames[1] \in Made /\ Len(frames) \in Nat /\ Len(frames) >= 1
    BY <1>1, TopBelow DEF Top
  <2>2. c \in Made /\ c.op = "loop"
    <3>1. frames[1].op = "loop" /\ frames[1].left > 0
      BY <1>1 DEF Top
    <3> QED
      BY <2>1, <3>1, OneLeft
  <2>3. frames \in [1..Len(frames) -> Made] /\ frames \in Seq(Made)
    BY DEF TypeInv
  <2>4. calls = [frames EXCEPT ![1] = c]
    BY <2>1, <2>3
  <2> HIDE DEF c, calls
  <2>5. /\ calls \in [1..Len(frames) -> Made] /\ calls[1] = c
        /\ \A k \in 1..Len(frames) : k # 1 => calls[k] = frames[k]
    BY <2>1, <2>2, <2>3, <2>4
  <2>6. calls \in Seq(Made) /\ Len(calls) = Len(frames) /\ DOMAIN calls = 1..Len(frames)
    BY <2>1, <2>5
  <2>7. \A k \in 1..Len(frames) : k # 1 => k > 1 /\ k \in DOMAIN frames
    BY <2>1, <2>3
  <2>8. \A k \in DOMAIN calls : calls[k].op \notin DOMAIN Reply
    BY <2>2, <2>5, <2>6, <2>7, Blocks DEF Calm, Alone
  <2> QED
    BY <2>1, <2>2, <2>5, <2>6, <2>8
<1> HIDE DEF c, calls
<1>5. down[1].type = "PUBLISH"
  <2>1. 1 \in DOMAIN down
    BY <1>1, Taken, TailType DEF TypeInv
  <2> QED
    BY <1>3, <2>1 DEF NoReply
<1>6. down' = Tail(down) /\ UNCHANGED <<link, up, violated>>
  BY <1>1, <1>5 DEF HandlePacket
<1>7. Alone' /\ frames' # <<>> /\ Top'.op \in {"loop", "callback"}
  <2>1. CASE frames' = calls
    BY <1>4, <2>1 DEF Alone, Top
  <2>2. CASE frames' = <<Call("callback", NoFilter, 0)>> \o calls
    <3> DEFINE d == Call("callback", NoFilter, 0)
    <3>1. d \in Made /\ d.op = "callback"
      BY PlainCall DEF Call
    <3> HIDE DEF d
    <3> QED
      BY <1>4, <2>2, <3>1, AlonePush DEF d
  <2> QED
    BY <1>1, <1>5, <2>1, <2>2 DEF HandlePacket
<1>8. NoReply' /\ NoRequest' /\ LinkOK'
  <2>1. NoReply'
    BY <1>1, <1>3, <1>6, Taken DEF NoReply
  <2>2. link # "down"
    BY <1>1, <1>3 DEF LinkOK
  <2> QED
    BY <1>3, <1>6, <2>1, <2>2 DEF NoRequest, LinkOK
<1> QED
  BY <1>1, <1>2, <1>6, <1>7, <1>8, Resting

-----------------------------------------------------------------------------
(* The invariant.                                                           *)

LEMMA CalmStep ==
    ASSUME TypeInv, Calm, ~reentrant, [Next]_vars
    PROVE  Calm'
<1>1. CASE ReadStep
  BY <1>1, CalmReply, CalmOther, CalmRead DEF ReadStep
<1>2. CASE ReturnStep
  <2>1. CASE ReplaceReturns
    <3>1. Top.arg \in Filters
      BY <2>1, TopBelow DEF ReplaceReturns, Made, CallOK
    <3> QED
      BY <2>1, <3>1, CalmSubscribe
  <2>2. CASE ~ReplaceReturns
    BY <1>2, <2>2, CalmTimeout, CalmConnect, CalmEnters, CalmReturn DEF ReturnStep
  <2> QED
    BY <2>1, <2>2
<1>3. CASE LoopStep \/ Ping
  BY <1>3, CalmConnect, CalmEnters, CalmRequests DEF LoopStep
<1>4. CASE AppStep
  BY <1>4, CalmPublish, CalmRequests, CalmStops, CalmReturn, CalmSubscribe, CalmUnsubscribe
     DEF AppStep
<1>5. CASE BrokerStep \/ FaultStep
  BY <1>5, CalmBroker, CalmNetwork, CalmTimeout, CalmStops DEF BrokerStep, FaultStep
<1>6. CASE UNCHANGED vars
  <2>1. /\ UNCHANGED <<link, up, down, session, brokerSubs, subscriptions, frames, violated>>
    BY <1>6 DEF vars
  <2>2. /\ NoReply' <=> NoReply
        /\ NoRequest' <=> NoRequest
        /\ Requested' <=> Requested
        /\ Answered' <=> Answered
        /\ Waiting' <=> Waiting
    BY <2>1 DEF NoReply, NoRequest, Requested, Answered, Waiting, Top
  <2>3. Left' = Left /\ Coming' = Coming
    BY <2>1, <2>2 DEF Left, Coming, Top
  <2> QED
    BY <2>1, <2>2, <2>3 DEF Calm, Alone, LinkOK, Talk, ListOK, Agreed, Top
<1> QED
  BY <1>1, <1>2, <1>3, <1>4, <1>5, <1>6 DEF Next

LEMMA CalmInit ==
    ASSUME Init
    PROVE  Calm
<1>1. /\ link = "down" /\ up = <<>> /\ down = <<>> /\ subscriptions = <<>> /\ frames = <<>>
      /\ violated = FALSE
  BY DEF Init
<1> QED
  BY <1>1 DEF Calm, Alone, LinkOK, Talk, NoReply, NoRequest, ListOK, Distinct, Agreed

\* The kind of the application does not change.
LEMMA SameKind ==
    ASSUME [Next]_vars
    PROVE  UNCHANGED reentrant
<1>1. CASE ReadStep
  BY <1>1 DEF ReadStep, GetReply, GetOther, ReadPacket
<1>2. CASE ReturnStep
  BY <1>2 DEF ReturnStep, WaitLost, ConnectReturns, ResubReturns, StartReading, LoopReturns,
              ReplaceReturns, PublishReturns, CallReturns
<1>3. CASE LoopStep \/ Ping
  BY <1>3 DEF LoopStep, Connect, EnterLoop, Ping
<1>4. CASE AppStep
  BY <1>4 DEF AppStep, PublishQos0, PublishQos1, Disconnect, CallbackReturns,
              Subscribe, Replace, Unsubscribe
<1>5. CASE BrokerStep \/ FaultStep
  BY <1>5 DEF BrokerStep, BrokerReceives, BrokerPublishes, FaultStep, Timeout, ConnectFails,
              BrokerRefuses, LinkLost
<1>6. CASE UNCHANGED vars
  BY <1>6 DEF vars
<1> QED
  BY <1>1, <1>2, <1>3, <1>4, <1>5, <1>6 DEF Next

LEMMA Invariance == Spec => []IInv
<1>1. Init => IInv
  BY TypeInit, CalmInit DEF IInv
<1>2. IInv /\ [Next]_vars => IInv'
  BY TypeStep, CalmStep, SameKind DEF IInv
<1> QED
  BY <1>1, <1>2, PTL DEF Spec

\* When all calls of the client have returned, no reply to any of them can still
\* arrive (wait_for_reply in client.cpp reads until its reply has come or closes
\* the connection): no later request can take it for its own.
THEOREM NoStaleReplyAlways == Spec => []NoStaleReply
<1>1. IInv => NoStaleReply
  <2> SUFFICES ASSUME IInv, ~reentrant, frames = <<>>
               PROVE  /\ \A i \in DOMAIN down : down[i].type \notin Replies
                      /\ \A i \in DOMAIN up : up[i].type = "PUBLISH" /\ up[i].id = 0
    BY DEF NoStaleReply
  <2>1. NoReply /\ NoRequest
    BY Quiet DEF IInv, Waiting
  <2> QED
    BY <2>1 DEF NoReply, NoRequest, OneWay, Replies
<1> QED
  BY <1>1, Invariance, PTL

\* Between calls, whatever connections were lost, refused or timed out before,
\* the broker of an open connection has just the subscriptions of the client's list that
\* it grants: Client::loop() has renewed them, and subscribe() and unsubscribe()
\* have told it of every change.
THEOREM InSyncAlways == Spec => []InSync
<1>1. IInv => InSync
  <2> SUFFICES ASSUME IInv, ~reentrant, frames = <<>>, link = "up"
               PROVE  session /\ brokerSubs = ToSet(subscriptions) \ Refused
    BY DEF InSync
  <2>1. Left = {}
    BY DEF Left
  <2> QED
    BY <2>1, Quiet DEF IInv, Waiting
<1> QED
  BY <1>1, Invariance, PTL

\* on_protocol_violation is never called with a broker that answers every request
\* once, unless callbacks call the client while it waits.
THEOREM NoViolationAlways == Spec => []NoViolation
<1>1. IInv => NoViolation
  BY DEF IInv, Calm, NoViolation
<1> QED
  BY <1>1, Invariance, PTL

-----------------------------------------------------------------------------
(* Confirmations.  Callbacks that call the client while it waits can take     *)
(* each other's replies, and message ids are used again.  What is said about  *)
(* the calls s, the packets u and d on their way, the socket k, the last id,   *)
(* the number n of messages published and the messages r received has these    *)
(* as parameters: a step is then a few changes, one after the other.          *)

\* Requests for which SUBACK or UNSUBACK is due, and these replies; publications
\* for which PUBACK is due, and PUBACK.
AskPackets == {p \in Packets : p.type \in {"SUBSCRIBE", "UNSUBSCRIBE", "SUBACK", "UNSUBACK"}}
PubPackets == {p \in Packets : p.type = "PUBACK" \/ (p.type = "PUBLISH" /\ p.id # 0)}

\* The calls that wait for them, and publications about to be confirmed.
AskOps == {"resub", "subscribe", "replace", "unsubscribe"}
AskCalls == {c \in Made : c.op \in AskOps /\ ~c.done}
PubCalls == {c \in Made : c.op = "publish" /\ ~c.done}
OkCalls == {c \in Made : c.op = "publish" /\ c.done /\ c.ok}

Total(s, T) == NumIn(s, Len(s), T)

\* MessageIdGenerator::generate, and how many ids it has returned since m.
IdAfter(id) == IF id = MaxId THEN 1 ELSE id + 1
Since(id, m) == IF m <= id THEN id - m ELSE id + MaxId - m

\* No more replies are due than calls wait for one.
Balanced(s, u, d, calls, packets) == Total(d, packets) + Total(u, packets) <= Total(s, calls)

\* Calls within calls publish later messages.
InOrder(s, n) ==
    \A i \in 1..Len(s) : s[i].op = "publish" =>
        /\ s[i].arg <= n
        /\ \A j \in 1..Len(s) : i < j /\ s[j].op = "publish" => s[j].arg < s[i].arg

\* A publication with id m that is still on its way with b requests before it is
\* not older than the ids that messages after that of some waiting publish() and
\* the other waiting calls account for.
Recent(s, id, n, m, b) ==
    \E c \in ToSet(s) :
        c \in PubCalls /\ Since(id, m) + b <= (n - c.arg) + Total(s, AskCalls)

AllRecent(s, u, d, id, n) ==
    /\ \A i \in 1..Len(d) : d[i] \in PubPackets =>
           Recent(s, id, n, d[i].id, NumIn(d, i, AskPackets))
    /\ \A i \in 1..Len(u) : u[i] \in PubPackets =>
           Recent(s, id, n, u[i].id, Total(d, AskPackets) + NumIn(u, i, AskPackets))

\* A message that the broker does not have is not confirmed by anything on its
\* way to the client; on an open connection it is on its way to the broker.
OnItsWay(s, u, d, k, r) ==
    \A c \in ToSet(s) : c \in PubCalls /\ c.arg \notin r =>
        /\ \A i \in 1..Len(d) : d[i] \in PubPackets => d[i].id # c.id
        /\ k = "up" => \E i \in 1..Len(u) :
               u[i] \in PubPackets /\ u[i].id = c.id /\ u[i].arg = c.arg
        /\ \A i \in 1..Len(u) : u[i] \in PubPackets /\ u[i].id = c.id => u[i].arg = c.arg

Known(s, r) == \A c \in ToSet(s) : c \in OkCalls => c.arg \in r

Types(s, u, d, id, n) ==
    s \in Seq(Made) /\ u \in Seq(Sent) /\ d \in Seq(Answers) /\ id \in 0..MaxId /\ n \in Nat

Open(u, d, k) == (k # "up" => u = <<>>) /\ (k = "down" => d = <<>>)

Sound(s, u, d, k, id, n, r) ==
    /\ Types(s, u, d, id, n) /\ Open(u, d, k)
    /\ Balanced(s, u, d, AskCalls, AskPackets) /\ Balanced(s, u, d, PubCalls, PubPackets)
    /\ InOrder(s, n) /\ AllRecent(s, u, d, id, n)
    /\ OnItsWay(s, u, d, k, r) /\ Known(s, r)

-----------------------------------------------------------------------------
(* The counts and the orders when a sequence grows or shrinks.               *)

LEMMA TotalType ==
    ASSUME NEW S, NEW s \in Seq(S), NEW T
    PROVE  Total(s, T) \in Nat /\ Total(s, T) <= Len(s)
<1>1. Len(s) \in Nat
  OBVIOUS
<1> QED
  BY <1>1, NumInType DEF Total

LEMMA TotalEmpty ==
    ASSUME NEW T
    PROVE  Total(<<>>, T) = 0
<1>1. Len(<<>>) = 0
  OBVIOUS
<1> QED
  BY <1>1, NumInNone DEF Total

LEMMA TotalFront ==
    ASSUME NEW S, NEW s \in Seq(S), NEW a \in S, NEW T
    PROVE  Total(<<a>> \o s, T) = Total(s, T) + (IF a \in T THEN 1 ELSE 0)
<1>1. Len(<<a>> \o s) = Len(s) + 1
  BY InFront
<1> QED
  BY <1>1, NumInFront DEF Total

LEMMA TotalTail ==
    ASSUME NEW S, NEW s \in Seq(S), s # <<>>, NEW T
    PROVE  Total(s, T) = Total(Tail(s), T) + (IF s[1] \in T THEN 1 ELSE 0)
<1>1. Len(Tail(s)) = Len(s) - 1 /\ Len(s) \in Nat /\ Len(s) >= 1
  BY TailType
<1>2. Len(s) - 1 \in 0..(Len(s) - 1) /\ (Len(s) - 1) + 1 = Len(s)
  BY <1>1
<1>3. NumIn(s, (Len(s) - 1) + 1, T)
         = NumIn(Tail(s), Len(s) - 1, T) + (IF s[1] \in T THEN 1 ELSE 0)
  BY <1>2, NumInTail
<1> QED
  BY <1>1, <1>2, <1>3 DEF Total

LEMMA TotalAppend ==
    ASSUME NEW S, NEW s \in Seq(S), NEW a \in S, NEW T
    PROVE  Total(Append(s, a), T) = Total(s, T) + (IF a \in T THEN 1 ELSE 0)
<1>1. Len(Append(s, a)) = Len(s) + 1
  BY AppendType
<1> QED
  BY <1>1, NumInAppend DEF Total

\* The calls s with one more in front.
LEMMA OrderFront ==
    ASSUME NEW s \in Seq(Made), NEW c \in Made, NEW n
    PROVE  InOrder(<<c>> \o s, n) <=>
               /\ InOrder(s, n)
               /\ c.op = "publish" =>
                      c.arg <= n /\ \A e \in ToSet(s) : e.op = "publish" => e.arg < c.arg
<1> DEFINE t == <<c>> \o s
<1>1. /\ Len(t) = Len(s) + 1 /\ t[1] = c /\ Len(s) \in Nat
      /\ \A i \in 1..Len(s) : t[i + 1] = s[i]
  BY InFront
<1> HIDE DEF t
<1>2. \A i \in 1..Len(t) : i = 1 \/ (i - 1 \in 1..Len(s) /\ t[i] = s[i - 1])
  <2>1. \A i \in 1..Len(t) : i = 1 \/ (i - 1 \in 1..Len(s) /\ (i - 1) + 1 = i)
    BY <1>1
  <2> QED
    BY <1>1, <2>1
<1>3. \A i \in 1..Len(s) : i + 1 \in 1..Len(t) /\ t[i + 1] = s[i]
  BY <1>1
<1>4. 1 \in 1..Len(t)
  BY <1>1
<1>5. DOMAIN s = 1..Len(s)
  OBVIOUS
<1>6. ASSUME InOrder(t, n) PROVE InOrder(s, n)
  <2> SUFFICES ASSUME NEW i \in 1..Len(s), s[i].op = "publish"
               PROVE  /\ s[i].arg <= n
                      /\ \A j \in 1..Len(s) : i < j /\ s[j].op = "publish" => s[j].arg < s[i].arg
    BY DEF InOrder
  <2>1. i + 1 \in 1..Len(t) /\ t[i + 1] = s[i]
    BY <1>3
  <2>2. /\ s[i].arg <= n
        /\ \A j \in 1..Len(t) : i + 1 < j /\ t[j].op = "publish" => t[j].arg < s[i].arg
    BY <1>6, <2>1 DEF InOrder
  <2>3. ASSUME NEW j \in 1..Len(s), i < j, s[j].op = "publish" PROVE s[j].arg < s[i].arg
    <3>1. j + 1 \in 1..Len(t) /\ t[j + 1] = s[j] /\ i + 1 < j + 1
      BY <1>3, <2>3
    <3> QED
      BY <2>2, <2>3, <3>1
  <2> QED
    BY <2>2, <2>3
<1>7. ASSUME InOrder(t, n), c.op = "publish"
      PROVE  c.arg <= n /\ \A e \in ToSet(s) : e.op = "publish" => e.arg < c.arg
  <2>1. c.arg <= n /\ \A j \in 1..Len(t) : 1 < j /\ t[j].op = "publish" => t[j].arg < c.arg
    BY <1>1, <1>4, <1>7 DEF InOrder
  <2>2. ASSUME NEW j \in 1..Len(s), s[j].op = "publish" PROVE s[j].arg < c.arg
    <3>1. j + 1 \in 1..Len(t) /\ t[j + 1] = s[j] /\ 1 < j + 1
      BY <1>3
    <3> QED
      BY <2>1, <2>2, <3>1
  <2> QED
    BY <1>5, <2>1, <2>2 DEF ToSet
<1>8. ASSUME InOrder(s, n),
             c.op = "publish" =>
                 c.arg <= n /\ \A e \in ToSet(s) : e.op = "publish" => e.arg < c.arg
      PROVE  InOrder(t, n)
  <2> SUFFICES ASSUME NEW i \in 1..Len(t), t[i].op = "publish"
               PROVE  /\ t[i].arg <= n
                      /\ \A j \in 1..Len(t) : i < j /\ t[j].op = "publish" => t[j].arg < t[i].arg
    BY DEF InOrder
  <2>1. ASSUME NEW j \in 1..Len(t), i < j
        PROVE  j - 1 \in 1..Len(s) /\ t[j] = s[j - 1]
    BY <1>1, <1>2, <2>1
  <2>2. CASE i = 1
    BY <1>1, <1>5, <1>8, <2>1, <2>2 DEF ToSet
  <2>3. CASE i # 1
    <3>1. i - 1 \in 1..Len(s) /\ t[i] = s[i - 1]
      BY <1>2, <2>3
    <3>2. \A j \in 1..Len(t) : i < j => j - 1 \in 1..Len(s) /\ t[j] = s[j - 1] /\ i - 1 < j - 1
      BY <1>1, <2>1
    <3> QED
      BY <1>8, <3>1, <3>2 DEF InOrder
  <2> QED
    BY <2>2, <2>3
<1> QED
  BY <1>6, <1>7, <1>8 DEF t

LEMMA CallsFront ==
    ASSUME NEW s \in Seq(Made), NEW c \in Made
    PROVE  /\ <<c>> \o s \in Seq(Made) /\ ToSet(<<c>> \o s) = {c} \cup ToSet(s)
           /\ ToSet(s) \subseteq Made
           /\ Total(s, AskCalls) \in Nat /\ Total(s, PubCalls) \in Nat
           /\ Total(<<c>> \o s, AskCalls) = Total(s, AskCalls) + (IF c \in AskCalls THEN 1 ELSE 0)
           /\ Total(<<c>> \o s, PubCalls) = Total(s, PubCalls) + (IF c \in PubCalls THEN 1 ELSE 0)
<1>1. ToSet(<<c>> \o s) = {c} \cup ToSet(s)
  BY FrontSet
<1>2. ToSet(s) \subseteq Made
  BY DEF ToSet
<1> QED
  BY <1>1, <1>2, Pushed, TotalType, TotalFront

LEMMA SinceType ==
    ASSUME NEW id \in 0..MaxId, NEW m \in 0..MaxId
    PROVE  /\ Since(id, m) \in Nat /\ IdAfter(id) \in 1..MaxId
           /\ Since(IdAfter(id), m) <= Since(id, m) + 1 /\ Since(IdAfter(id), m) \in Nat
           /\ Since(IdAfter(id), IdAfter(id)) = 0
           /\ Since(id, IdAfter(id)) = MaxId - 1
<1>1. MaxId \in Nat /\ MaxId >= 1
  BY ConstantsAssumption
<1> QED
  BY <1>1 DEF Since, IdAfter

\* For each open publication of s there is one of t that is not later.
Covered(s, t) ==
    \A c \in ToSet(s) : c \in PubCalls => \E e \in ToSet(t) : e \in PubCalls /\ e.arg <= c.arg

LEMMA PubArgs ==
    ASSUME NEW c \in PubCalls
    PROVE  c.arg \in Nat
BY ConstantsAssumption DEF PubCalls, Made, CallOK

LEMMA SameCovered ==
    ASSUME NEW s, NEW t, ToSet(s) \cap PubCalls \subseteq ToSet(t)
    PROVE  Covered(s, t)
<1> SUFFICES ASSUME NEW c \in ToSet(s), c \in PubCalls
             PROVE  \E e \in ToSet(t) : e \in PubCalls /\ e.arg <= c.arg
  BY DEF Covered
<1>1. c \in ToSet(t) /\ c.arg <= c.arg
  BY PubArgs
<1> QED
  BY <1>1

\* A publication stays recent as long as every id generated is accounted for.
LEMMA StillRecent ==
    ASSUME NEW s, NEW t, NEW id, NEW n, NEW m, NEW b, Recent(s, id, n, m, b),
           NEW id2, NEW n2, NEW b2,
           Since(id, m) \in Nat, b \in Nat, n \in Nat, Total(s, AskCalls) \in Nat,
           Since(id2, m) \in Nat, b2 \in Nat, n2 \in Nat, Total(t, AskCalls) \in Nat,
           Covered(s, t),
           Since(id2, m) + b2 + n + Total(s, AskCalls)
               <= Since(id, m) + b + n2 + Total(t, AskCalls)
    PROVE  Recent(t, id2, n2, m, b2)
<1>1. PICK c \in ToSet(s) : c \in PubCalls /\ Since(id, m) + b <= (n - c.arg) + Total(s, AskCalls)
  BY DEF Recent
<1>2. PICK e \in ToSet(t) : e \in PubCalls /\ e.arg <= c.arg
  BY <1>1 DEF Covered
<1>3. c.arg \in Nat /\ e.arg \in Nat
  BY <1>1, <1>2, PubArgs
<1>4. Since(id2, m) + b2 <= (n2 - e.arg) + Total(t, AskCalls)
  BY <1>1, <1>2, <1>3
<1> QED
  BY <1>2, <1>4 DEF Recent

-----------------------------------------------------------------------------
(* One change at a time.                                                    *)

LEMMA Ids ==
    ASSUME NEW s, NEW u, NEW d, NEW id, NEW n, Types(s, u, d, id, n)
    PROVE  /\ Len(u) \in Nat /\ Len(d) \in Nat
           /\ \A i \in 1..Len(u) : u[i] \in Sent /\ u[i].id \in 0..MaxId
           /\ \A i \in 1..Len(d) : d[i] \in Answers /\ d[i].id \in 0..MaxId
BY ElementOfSeq DEF Types, Sent, Answers, Packets

\* How the ids, the messages and the calls that wait may change.
Accounted(s, t, id, n, id2, n2) ==
    /\ ToSet(s) \cap PubCalls \subseteq ToSet(t)
    /\ \A m \in 0..MaxId :
           Since(id2, m) + n + Total(s, AskCalls) <= Since(id, m) + n2 + Total(t, AskCalls)

LEMMA RecentKept ==
    ASSUME NEW s, NEW u, NEW d, NEW id, NEW n, Types(s, u, d, id, n),
           NEW t, NEW id2, NEW n2, Types(t, u, d, id2, n2),
           AllRecent(s, u, d, id, n), Accounted(s, t, id, n, id2, n2)
    PROVE  AllRecent(t, u, d, id2, n2)
<1>1. /\ s \in Seq(Made) /\ t \in Seq(Made) /\ u \in Seq(Sent) /\ d \in Seq(Answers)
      /\ n \in Nat /\ n2 \in Nat /\ id \in 0..MaxId /\ id2 \in 0..MaxId
  BY DEF Types
<1>2. /\ Total(s, AskCalls) \in Nat /\ Total(t, AskCalls) \in Nat
      /\ Total(d, AskPackets) \in Nat
  BY <1>1, TotalType
<1>3. ASSUME NEW m \in 0..MaxId, NEW b \in Nat, Recent(s, id, n, m, b)
      PROVE  Recent(t, id2, n2, m, b)
  <2>1. Since(id, m) \in Nat /\ Since(id2, m) \in Nat
    BY <1>1, SinceType
  <2>2. Covered(s, t)
    BY SameCovered DEF Accounted
  <2>3. Since(id2, m) + n + Total(s, AskCalls) <= Since(id, m) + n2 + Total(t, AskCalls)
    BY DEF Accounted
  <2>4. Since(id2, m) + b + n + Total(s, AskCalls) <= Since(id, m) + b + n2 + Total(t, AskCalls)
    <3> DEFINE x == Since(id, m)
               y == Since(id2, m)
               p == Total(s, AskCalls)
               q == Total(t, AskCalls)
    <3>1. /\ x \in Nat /\ y \in Nat /\ p \in Nat /\ q \in Nat /\ n \in Nat /\ n2 \in Nat
          /\ y + n + p <= x + n2 + q
      BY <1>1, <1>2, <2>1, <2>3
    <3> HIDE DEF x, y, p, q
    <3>2. y + b + n + p <= x + b + n2 + q
      BY <3>1
    <3> QED
      BY <3>2 DEF x, y, p, q
  <2> QED
    BY <1>1, <1>2, <1>3, <2>1, <2>2, <2>4, StillRecent
<1>4. ASSUME NEW i \in 1..Len(d), d[i] \in PubPackets
      PROVE  Recent(t, id2, n2, d[i].id, NumIn(d, i, AskPackets))
  <2>1. d[i].id \in 0..MaxId /\ NumIn(d, i, AskPackets) \in Nat
    <3>1. d[i].id \in 0..MaxId /\ i \in Nat
      BY Ids
    <3> QED
      BY <3>1, NumInType
  <2>2. Recent(s, id, n, d[i].id, NumIn(d, i, AskPackets))
    BY <1>4 DEF AllRecent
  <2> QED
    BY <1>3, <2>1, <2>2
<1>5. ASSUME NEW i \in 1..Len(u), u[i] \in PubPackets
      PROVE  Recent(t, id2, n2, u[i].id, Total(d, AskPackets) + NumIn(u, i, AskPackets))
  <2>1. u[i].id \in 0..MaxId /\ NumIn(u, i, AskPackets) \in Nat
    <3>1. u[i].id \in 0..MaxId /\ i \in Nat
      BY Ids
    <3> QED
      BY <3>1, NumInType
  <2>2. Total(d, AskPackets) + NumIn(u, i, AskPackets) \in Nat
    BY <1>2, <2>1
  <2>3. Recent(s, id, n, u[i].id, Total(d, AskPackets) + NumIn(u, i, AskPackets))
    BY <1>5 DEF AllRecent
  <2> QED
    BY <1>3, <2>1, <2>2, <2>3
<1> QED
  BY <1>4, <1>5 DEF AllRecent

\* A call that waits for nothing returns.
LEMMA PopSound ==
    ASSUME NEW c \in Made, NEW s \in Seq(Made), NEW u, NEW d, NEW k, NEW id, NEW n, NEW r,
           Sound(<<c>> \o s, u, d, k, id, n, r), c \notin AskCalls \cup PubCalls
    PROVE  Sound(s, u, d, k, id, n, r)
<1> DEFINE t == <<c>> \o s
<1>1. /\ t \in Seq(Made) /\ ToSet(t) = {c} \cup ToSet(s)
      /\ Total(s, AskCalls) \in Nat /\ Total(s, PubCalls) \in Nat
      /\ Total(t, AskCalls) = Total(s, AskCalls) /\ Total(t, PubCalls) = Total(s, PubCalls)
  BY CallsFront
<1>2. InOrder(t, n) => InOrder(s, n)
  BY OrderFront
<1> HIDE DEF t
<1>3. Sound(t, u, d, k, id, n, r)
  BY DEF t
<1>4. /\ Types(t, u, d, id, n) /\ Open(u, d, k) /\ InOrder(t, n) /\ AllRecent(t, u, d, id, n)
      /\ Balanced(t, u, d, AskCalls, AskPackets) /\ Balanced(t, u, d, PubCalls, PubPackets)
      /\ OnItsWay(t, u, d, k, r) /\ Known(t, r)
  BY <1>3 DEF Sound
<1>5. Types(s, u, d, id, n)
  BY <1>4 DEF Types
<1>6. Accounted(t, s, id, n, id, n)
  <2>1. n \in Nat /\ id \in 0..MaxId
    BY <1>4 DEF Types
  <2>2. \A m \in 0..MaxId : Since(id, m) \in Nat
    BY <2>1, SinceType
  <2> QED
    BY <1>1, <2>1, <2>2 DEF Accounted
<1>7. AllRecent(s, u, d, id, n)
  BY <1>4, <1>5, <1>6, RecentKept
<1>8. OnItsWay(s, u, d, k, r) /\ Known(s, r)
  BY <1>1, <1>4 DEF OnItsWay, Known
<1>9. Balanced(s, u, d, AskCalls, AskPackets) /\ Balanced(s, u, d, PubCalls, PubPackets)
  BY <1>1, <1>4 DEF Balanced
<1> QED
  BY <1>2, <1>4, <1>5, <1>7, <1>8, <1>9 DEF Sound

\* A call begins that waits for nothing that is counted.
LEMMA PushSound ==
    ASSUME NEW c \in Made, NEW s \in Seq(Made), NEW u, NEW d, NEW k, NEW id, NEW n, NEW r,
           Sound(s, u, d, k, id, n, r), c.op # "publish", c \notin AskCalls
    PROVE  Sound(<<c>> \o s, u, d, k, id, n, r)
<1> DEFINE t == <<c>> \o s
<1>1. c \notin PubCalls /\ c \notin OkCalls
  BY DEF PubCalls, OkCalls
<1>2. /\ t \in Seq(Made) /\ ToSet(t) = {c} \cup ToSet(s)
      /\ Total(s, AskCalls) \in Nat /\ Total(s, PubCalls) \in Nat
      /\ Total(t, AskCalls) = Total(s, AskCalls) /\ Total(t, PubCalls) = Total(s, PubCalls)
  BY <1>1, CallsFront
<1>3. InOrder(s, n) => InOrder(t, n)
  BY OrderFront
<1> HIDE DEF t
<1>4. /\ Types(s, u, d, id, n) /\ Open(u, d, k) /\ InOrder(s, n) /\ AllRecent(s, u, d, id, n)
      /\ Balanced(s, u, d, AskCalls, AskPackets) /\ Balanced(s, u, d, PubCalls, PubPackets)
      /\ OnItsWay(s, u, d, k, r) /\ Known(s, r)
  BY DEF Sound
<1>5. Types(t, u, d, id, n)
  BY <1>2, <1>4 DEF Types
<1>6. Accounted(s, t, id, n, id, n)
  <2>1. n \in Nat /\ id \in 0..MaxId
    BY <1>4 DEF Types
  <2>2. \A m \in 0..MaxId : Since(id, m) \in Nat
    BY <2>1, SinceType
  <2> QED
    BY <1>2, <2>1, <2>2 DEF Accounted
<1>7. AllRecent(t, u, d, id, n)
  BY <1>4, <1>5, <1>6, RecentKept
<1>8. OnItsWay(t, u, d, k, r) /\ Known(t, r)
  BY <1>1, <1>2, <1>4 DEF OnItsWay, Known
<1>9. Balanced(t, u, d, AskCalls, AskPackets) /\ Balanced(t, u, d, PubCalls, PubPackets)
  BY <1>2, <1>4 DEF Balanced
<1>10. Sound(t, u, d, k, id, n, r)
  BY <1>3, <1>4, <1>5, <1>7, <1>8, <1>9 DEF Sound
<1> QED
  BY <1>10 DEF t

\* The connection ends: nothing is on its way to the broker any more, and to the
\* client nothing or what had arrived.
LEMMA EndSound ==
    ASSUME NEW s, NEW u, NEW d, NEW k, NEW id, NEW n, NEW r, Sound(s, u, d, k, id, n, r),
           NEW k2 \in {"lost", "down"}, NEW d2 \in {d, <<>>}, k2 = "down" => d2 = <<>>
    PROVE  Sound(s, <<>>, d2, k2, id, n, r)
<1>1. /\ Types(s, u, d, id, n) /\ InOrder(s, n) /\ AllRecent(s, u, d, id, n)
      /\ Balanced(s, u, d, AskCalls, AskPackets) /\ Balanced(s, u, d, PubCalls, PubPackets)
      /\ OnItsWay(s, u, d, k, r) /\ Known(s, r)
  BY DEF Sound
<1>2. /\ <<>> \in Seq(Sent) /\ <<>> \in Seq(Answers) /\ Len(<<>>) = 0
      /\ s \in Seq(Made) /\ u \in Seq(Sent) /\ d \in Seq(Answers)
  BY <1>1 DEF Types
<1>3. Types(s, <<>>, d2, id, n) /\ Open(<<>>, d2, k2)
  BY <1>1, <1>2 DEF Types, Open
<1>4. \A i : ~(i \in 1..0)
  OBVIOUS
<1>5. AllRecent(s, <<>>, d2, id, n)
  BY <1>1, <1>2, <1>4 DEF AllRecent
<1>6. OnItsWay(s, <<>>, d2, k2, r)
  BY <1>1, <1>2, <1>4 DEF OnItsWay
<1>7. ASSUME NEW C, NEW P, Balanced(s, u, d, C, P) PROVE Balanced(s, <<>>, d2, C, P)
  <2>1. /\ Total(s, C) \in Nat /\ Total(u, P) \in Nat /\ Total(d, P) \in Nat
        /\ Total(<<>>, P) = 0
    BY <1>2, TotalType, TotalEmpty
  <2> QED
    BY <1>7, <2>1 DEF Balanced
<1>8. Balanced(s, <<>>, d2, AskCalls, AskPackets) /\ Balanced(s, <<>>, d2, PubCalls, PubPackets)
  BY <1>1, <1>7
<1> QED
  BY <1>1, <1>3, <1>5, <1>6, <1>8 DEF Sound

\* With nothing on its way, the innermost call gives up waiting.
LEMMA GiveUpSound ==
    ASSUME NEW c \in Made, NEW s \in Seq(Made), NEW k, NEW id, NEW n, NEW r,
           Sound(<<c>> \o s, <<>>, <<>>, k, id, n, r), k # "up",
           NEW e \in Made, e.done, ~e.ok, e.op = c.op, e.arg = c.arg
    PROVE  Sound(<<e>> \o s, <<>>, <<>>, k, id, n, r)
<1> DEFINE t == <<c>> \o s
           v == <<e>> \o s
<1>1. e \notin AskCalls /\ e \notin PubCalls /\ e \notin OkCalls
  BY DEF AskCalls, PubCalls, OkCalls
<1>2. /\ v \in Seq(Made) /\ ToSet(v) = {e} \cup ToSet(s) /\ ToSet(t) = {c} \cup ToSet(s)
  BY CallsFront
<1>3. InOrder(t, n) => InOrder(v, n)
  BY OrderFront
<1> HIDE DEF t, v
<1>4. Sound(t, <<>>, <<>>, k, id, n, r)
  BY DEF t
<1>5. /\ Types(t, <<>>, <<>>, id, n) /\ Open(<<>>, <<>>, k) /\ InOrder(t, n)
      /\ OnItsWay(t, <<>>, <<>>, k, r) /\ Known(t, r)
  BY <1>4 DEF Sound
<1>6. Types(v, <<>>, <<>>, id, n) /\ Len(<<>>) = 0 /\ \A i : ~(i \in 1..0)
  BY <1>2, <1>5 DEF Types
<1>7. AllRecent(v, <<>>, <<>>, id, n)
  BY <1>6 DEF AllRecent
<1>8. OnItsWay(v, <<>>, <<>>, k, r) /\ Known(v, r)
  BY <1>1, <1>2, <1>5, <1>6 DEF OnItsWay, Known
<1>9. ASSUME NEW C, NEW P PROVE Balanced(v, <<>>, <<>>, C, P)
  <2>1. Total(v, C) \in Nat /\ Total(<<>>, P) = 0
    BY <1>2, TotalType, TotalEmpty
  <2> QED
    BY <2>1 DEF Balanced
<1>10. Sound(v, <<>>, <<>>, k, id, n, r)
  BY <1>3, <1>5, <1>6, <1>7, <1>8, <1>9 DEF Sound
<1> QED
  BY <1>10 DEF v

Pending(u, d) ==
    \/ \E i \in 1..Len(u) : u[i] \in PubPackets
    \/ \E i \in 1..Len(d) : d[i] \in PubPackets

\* The first packet for the client is taken, and a call that had asked for it ends.
LEMMA RecentTaken ==
    ASSUME NEW s, NEW u, NEW d, NEW id, NEW n, Types(s, u, d, id, n), d # <<>>,
           NEW t \in Seq(Made), AllRecent(s, u, d, id, n),
           Pending(u, Tail(d)) => Covered(s, t),
           Total(s, AskCalls) <= Total(t, AskCalls) + (IF d[1] \in AskPackets THEN 1 ELSE 0)
    PROVE  AllRecent(t, u, Tail(d), id, n)
<1> DEFINE v == Tail(d)
           first == IF d[1] \in AskPackets THEN 1 ELSE 0
<1>1. /\ s \in Seq(Made) /\ u \in Seq(Sent) /\ d \in Seq(Answers)
      /\ n \in Nat /\ id \in 0..MaxId /\ first \in Nat
  BY DEF Types
<1>2. /\ Total(s, AskCalls) \in Nat /\ Total(t, AskCalls) \in Nat
      /\ Total(d, AskPackets) \in Nat
  BY <1>1, TotalType
<1>3. /\ v \in Seq(Answers) /\ Len(v) = Len(d) - 1 /\ Len(d) \in Nat /\ Len(d) >= 1
      /\ \A k \in 1..Len(v) : v[k] = d[k + 1]
  BY <1>1, TailType
<1>4. Total(d, AskPackets) = Total(v, AskPackets) + first
  BY <1>1, TotalTail
<1>5. \A k \in 0..Len(v) : NumIn(d, k + 1, AskPackets) = NumIn(v, k, AskPackets) + first
  BY <1>1, <1>3, NumInTail
<1>6. Total(v, AskPackets) \in Nat
  BY <1>3, TotalType
<1>7. Total(s, AskCalls) <= Total(t, AskCalls) + first
  OBVIOUS
<1> HIDE DEF v, first
<1>8. ASSUME NEW m \in 0..MaxId, NEW b \in Nat, Recent(s, id, n, m, b + first), Covered(s, t)
      PROVE  Recent(t, id, n, m, b)
  <2>1. Since(id, m) \in Nat /\ b + first \in Nat
    BY <1>1, SinceType
  <2> DEFINE x == Since(id, m)
             p == Total(s, AskCalls)
             q == Total(t, AskCalls)
  <2>2. x + b + n + p <= x + (b + first) + n + q
    <3>1. x \in Nat /\ p \in Nat /\ q \in Nat /\ p <= q + first
      BY <1>2, <1>7, <2>1
    <3> HIDE DEF x, p, q
    <3> QED
      BY <1>1, <3>1
  <2> QED
    BY <1>1, <1>2, <1>8, <2>1, <2>2, StillRecent
<1>9. ASSUME NEW i \in 1..Len(v), v[i] \in PubPackets
      PROVE  Recent(t, id, n, v[i].id, NumIn(v, i, AskPackets))
  <2>1. i + 1 \in 1..Len(d) /\ v[i] = d[i + 1] /\ i \in 0..Len(v) /\ i \in Nat
    BY <1>3
  <2>2. d[i + 1].id \in 0..MaxId /\ NumIn(v, i, AskPackets) \in Nat
    <3>1. NumIn(v, i, AskPackets) \in Nat
      BY <2>1, NumInType
    <3> QED
      BY <2>1, <3>1, Ids
  <2>3. Recent(s, id, n, d[i + 1].id, NumIn(d, i + 1, AskPackets))
    BY <1>9, <2>1 DEF AllRecent
  <2>4. Recent(s, id, n, v[i].id, NumIn(v, i, AskPackets) + first)
    BY <1>5, <2>1, <2>3
  <2>5. Covered(s, t)
    BY <1>9 DEF Pending, v
  <2> QED
    BY <1>8, <2>1, <2>2, <2>4, <2>5
<1>10. ASSUME NEW i \in 1..Len(u), u[i] \in PubPackets
       PROVE  Recent(t, id, n, u[i].id, Total(v, AskPackets) + NumIn(u, i, AskPackets))
  <2>1. u[i].id \in 0..MaxId /\ i \in Nat
    BY Ids
  <2>2. NumIn(u, i, AskPackets) \in Nat
    BY <2>1, NumInType
  <2>3. Recent(s, id, n, u[i].id, Total(d, AskPackets) + NumIn(u, i, AskPackets))
    BY <1>10 DEF AllRecent
  <2>4. Total(d, AskPackets) + NumIn(u, i, AskPackets)
           = (Total(v, AskPackets) + NumIn(u, i, AskPackets)) + first
    BY <1>1, <1>4, <1>6, <2>2
  <2>5. Total(v, AskPackets) + NumIn(u, i, AskPackets) \in Nat
    BY <1>6, <2>2
  <2>6. Recent(s, id, n, u[i].id, (Total(v, AskPackets) + NumIn(u, i, AskPackets)) + first)
    BY <2>3, <2>4
  <2>7. Covered(s, t)
    BY <1>10 DEF Pending, v
  <2> QED
    BY <1>8, <2>1, <2>5, <2>6, <2>7
<1>11. AllRecent(t, u, v, id, n)
  BY <1>9, <1>10 DEF AllRecent
<1> QED
  BY <1>11 DEF v

LEMMA OnItsWayTaken ==
    ASSUME NEW s, NEW u, NEW d \in Seq(Answers), d # <<>>, NEW k, NEW r, NEW t,
           OnItsWay(s, u, d, k, r), ToSet(t) \cap PubCalls \subseteq ToSet(s)
    PROVE  OnItsWay(t, u, Tail(d), k, r)
<1>1. \A i \in 1..Len(Tail(d)) : i + 1 \in 1..Len(d) /\ Tail(d)[i] = d[i + 1]
  BY TailType
<1> QED
  BY <1>1 DEF OnItsWay

\* A packet is taken that no call counts on.
LEMMA TakeSound ==
    ASSUME NEW s, NEW u, NEW d, NEW k, NEW id, NEW n, NEW r, Sound(s, u, d, k, id, n, r),
           d # <<>>, d[1] \notin AskPackets, d[1] \notin PubPackets
    PROVE  Sound(s, u, Tail(d), k, id, n, r)
<1>1. /\ Types(s, u, d, id, n) /\ Open(u, d, k) /\ InOrder(s, n) /\ AllRecent(s, u, d, id, n)
      /\ Balanced(s, u, d, AskCalls, AskPackets) /\ Balanced(s, u, d, PubCalls, PubPackets)
      /\ OnItsWay(s, u, d, k, r) /\ Known(s, r)
  BY DEF Sound
<1>2. s \in Seq(Made) /\ d \in Seq(Answers)
  BY <1>1 DEF Types
<1>3. Types(s, u, Tail(d), id, n) /\ Open(u, Tail(d), k)
  BY <1>1, <1>2, TailType DEF Types, Open
<1>4. Covered(s, s)
  BY SameCovered
<1>5. AllRecent(s, u, Tail(d), id, n)
  <2>1. Total(s, AskCalls) \in Nat
    BY <1>2, TotalType
  <2>2. Total(s, AskCalls) <= Total(s, AskCalls) + (IF d[1] \in AskPackets THEN 1 ELSE 0)
    BY <2>1
  <2> QED
    BY <1>1, <1>2, <1>4, <2>2, RecentTaken
<1>6. OnItsWay(s, u, Tail(d), k, r)
  BY <1>1, <1>2, OnItsWayTaken
<1>7. Total(Tail(d), AskPackets) = Total(d, AskPackets)
      /\ Total(Tail(d), PubPackets) = Total(d, PubPackets)
  <2>1. Tail(d) \in Seq(Answers)
    BY <1>2, TailType
  <2>2. Total(Tail(d), AskPackets) \in Nat /\ Total(Tail(d), PubPackets) \in Nat
    BY <2>1, TotalType
  <2> QED
    BY <1>2, <2>2, TotalTail
<1> QED
  BY <1>1, <1>3, <1>5, <1>6, <1>7 DEF Sound, Balanced

\* SUBACK or UNSUBACK ends the innermost call, which waits for one of them.
LEMMA TakeAskSound ==
    ASSUME NEW c \in AskCalls, NEW s \in Seq(Made), NEW u, NEW d, NEW k, NEW id, NEW n, NEW r,
           Sound(<<c>> \o s, u, d, k, id, n, r), d # <<>>, d[1] \in AskPackets,
           NEW e \in Made, e.done, e.op = c.op
    PROVE  Sound(<<e>> \o s, u, Tail(d), k, id, n, r)
<1> DEFINE t == <<c>> \o s
           v == <<e>> \o s
<1>1. /\ c \in Made /\ c \notin PubCalls
      /\ e \notin AskCalls /\ e \notin PubCalls /\ e \notin OkCalls
      /\ e.op # "publish" /\ d[1] \notin PubPackets
  BY DEF AskCalls, AskOps, PubCalls, OkCalls, AskPackets, PubPackets
<1>2. /\ t \in Seq(Made) /\ v \in Seq(Made)
      /\ ToSet(v) = {e} \cup ToSet(s) /\ ToSet(t) = {c} \cup ToSet(s)
      /\ Total(s, AskCalls) \in Nat /\ Total(s, PubCalls) \in Nat
      /\ Total(t, AskCalls) = Total(s, AskCalls) + 1 /\ Total(t, PubCalls) = Total(s, PubCalls)
      /\ Total(v, AskCalls) = Total(s, AskCalls) /\ Total(v, PubCalls) = Total(s, PubCalls)
  BY <1>1, CallsFront
<1>3. InOrder(t, n) => InOrder(v, n)
  BY <1>1, OrderFront
<1> HIDE DEF t, v
<1>4. Sound(t, u, d, k, id, n, r)
  BY DEF t
<1>5. /\ Types(t, u, d, id, n) /\ Open(u, d, k) /\ InOrder(t, n) /\ AllRecent(t, u, d, id, n)
      /\ Balanced(t, u, d, AskCalls, AskPackets) /\ Balanced(t, u, d, PubCalls, PubPackets)
      /\ OnItsWay(t, u, d, k, r) /\ Known(t, r)
  BY <1>4 DEF Sound
<1>6. d \in Seq(Answers) /\ u \in Seq(Sent) /\ Tail(d) \in Seq(Answers)
  BY <1>5, TailType DEF Types
<1>7. Types(v, u, Tail(d), id, n) /\ Open(u, Tail(d), k)
  BY <1>2, <1>5, <1>6, TailType DEF Types, Open
<1>8. Covered(t, v)
  BY <1>1, <1>2, SameCovered
<1>9. AllRecent(v, u, Tail(d), id, n)
  <2>1. Total(t, AskCalls) <= Total(v, AskCalls) + (IF d[1] \in AskPackets THEN 1 ELSE 0)
    BY <1>2
  <2> QED
    BY <1>2, <1>5, <1>8, <2>1, RecentTaken
<1>10. ToSet(v) \cap PubCalls \subseteq ToSet(t)
  BY <1>1, <1>2
<1>11. OnItsWay(v, u, Tail(d), k, r)
  BY <1>5, <1>6, <1>10, OnItsWayTaken
<1>12. Known(v, r)
  BY <1>1, <1>2, <1>5 DEF Known
<1>13. /\ Total(Tail(d), AskPackets) \in Nat /\ Total(Tail(d), PubPackets) \in Nat
       /\ Total(u, AskPackets) \in Nat /\ Total(u, PubPackets) \in Nat
  BY <1>6, TotalType
<1>14. Total(d, AskPackets) = Total(Tail(d), AskPackets) + 1
       /\ Total(d, PubPackets) = Total(Tail(d), PubPackets)
  BY <1>1, <1>6, <1>13, TotalTail
<1>15. Balanced(v, u, Tail(d), AskCalls, AskPackets) /\ Balanced(v, u, Tail(d), PubCalls, PubPackets)
  BY <1>2, <1>5, <1>13, <1>14 DEF Balanced
<1>16. Sound(v, u, Tail(d), k, id, n, r)
  BY <1>3, <1>5, <1>7, <1>9, <1>11, <1>12, <1>15 DEF Sound
<1> QED
  BY <1>16 DEF v

LEMMA PendingCounted ==
    ASSUME NEW u \in Seq(Sent), NEW d \in Seq(Answers), Pending(u, d)
    PROVE  Total(d, PubPackets) + Total(u, PubPackets) >= 1
<1>1. Len(u) \in Nat /\ Len(d) \in Nat
  OBVIOUS
<1>2. Total(d, PubPackets) \in Nat /\ Total(u, PubPackets) \in Nat
  BY TotalType
<1>3. CASE \E i \in 1..Len(u) : u[i] \in PubPackets
  <2>1. Total(u, PubPackets) >= 1
    BY <1>1, <1>3, NumInSome DEF Total
  <2> QED
    BY <1>2, <2>1
<1>4. CASE \E i \in 1..Len(d) : d[i] \in PubPackets
  <2>1. Total(d, PubPackets) >= 1
    BY <1>1, <1>4, NumInSome DEF Total
  <2> QED
    BY <1>2, <2>1
<1> QED
  BY <1>3, <1>4 DEF Pending

LEMMA CallsCounted ==
    ASSUME NEW s \in Seq(Made), NEW C, Total(s, C) >= 1
    PROVE  \E e \in ToSet(s) : e \in C
<1>1. Len(s) \in Nat /\ DOMAIN s = 1..Len(s)
  OBVIOUS
<1>2. PICK i \in 1..Len(s) : s[i] \in C
  BY <1>1, NumInWitness DEF Total
<1> QED
  BY <1>1, <1>2 DEF ToSet

\* PUBACK ends the innermost call, a publish(), whose message the broker has if
\* the id is that of the message.
LEMMA TakePubackSound ==
    ASSUME NEW c \in PubCalls, NEW s \in Seq(Made), NEW u, NEW d, NEW k, NEW id, NEW n, NEW r,
           Sound(<<c>> \o s, u, d, k, id, n, r), d # <<>>, d[1] \in PubPackets,
           NEW e \in Made, e.done, e.op = c.op, e.arg = c.arg, e.ok => d[1].id = c.id
    PROVE  Sound(<<e>> \o s, u, Tail(d), k, id, n, r)
<1> DEFINE t == <<c>> \o s
           v == <<e>> \o s
<1>1. /\ c \in Made /\ c \notin AskCalls /\ c.op = "publish" /\ d[1] \notin AskPackets
      /\ e \notin AskCalls /\ e \notin PubCalls /\ e.op = "publish"
  BY DEF AskCalls, AskOps, PubCalls, AskPackets, PubPackets
<1>2. /\ t \in Seq(Made) /\ v \in Seq(Made) /\ ToSet(s) \subseteq Made
      /\ ToSet(v) = {e} \cup ToSet(s) /\ ToSet(t) = {c} \cup ToSet(s)
      /\ Total(s, AskCalls) \in Nat /\ Total(s, PubCalls) \in Nat
      /\ Total(t, AskCalls) = Total(s, AskCalls) /\ Total(t, PubCalls) = Total(s, PubCalls) + 1
      /\ Total(v, AskCalls) = Total(s, AskCalls) /\ Total(v, PubCalls) = Total(s, PubCalls)
  BY <1>1, CallsFront
<1>3. InOrder(t, n) <=>
          InOrder(s, n) /\ c.arg <= n
          /\ \A f \in ToSet(s) : f.op = "publish" => f.arg < c.arg
  BY <1>1, OrderFront
<1>4. InOrder(v, n) <=>
          InOrder(s, n) /\ e.arg <= n
          /\ \A f \in ToSet(s) : f.op = "publish" => f.arg < e.arg
  BY <1>1, OrderFront
<1> HIDE DEF t, v
<1>5. Sound(t, u, d, k, id, n, r)
  BY DEF t
<1>6. /\ Types(t, u, d, id, n) /\ Open(u, d, k) /\ InOrder(t, n) /\ AllRecent(t, u, d, id, n)
      /\ Balanced(t, u, d, AskCalls, AskPackets) /\ Balanced(t, u, d, PubCalls, PubPackets)
      /\ OnItsWay(t, u, d, k, r) /\ Known(t, r)
  BY <1>5 DEF Sound
<1>7. d \in Seq(Answers) /\ u \in Seq(Sent) /\ Tail(d) \in Seq(Answers) /\ 1 \in 1..Len(d)
  BY <1>6, TailType DEF Types
<1>8. Types(v, u, Tail(d), id, n) /\ Open(u, Tail(d), k)
  BY <1>2, <1>6, <1>7, TailType DEF Types, Open
<1>9. /\ Total(Tail(d), AskPackets) \in Nat /\ Total(Tail(d), PubPackets) \in Nat
      /\ Total(u, AskPackets) \in Nat /\ Total(u, PubPackets) \in Nat
  BY <1>7, TotalType
<1>10. Total(d, PubPackets) = Total(Tail(d), PubPackets) + 1
       /\ Total(d, AskPackets) = Total(Tail(d), AskPackets)
  BY <1>1, <1>7, <1>9, TotalTail
<1>11. Balanced(v, u, Tail(d), AskCalls, AskPackets) /\ Balanced(v, u, Tail(d), PubCalls, PubPackets)
  BY <1>2, <1>6, <1>9, <1>10 DEF Balanced
\* If another publication is pending, another publish() waits, and it is earlier.
<1>12. ASSUME Pending(u, Tail(d)) PROVE Covered(t, v)
  <2>1. Total(s, PubCalls) >= 1
    <3>1. Total(Tail(d), PubPackets) + Total(u, PubPackets) >= 1
      BY <1>7, <1>12, PendingCounted
    <3> QED
      BY <1>2, <1>9, <1>11, <3>1 DEF Balanced
  <2>2. PICK f \in ToSet(s) : f \in PubCalls
    BY <2>1, CallsCounted
  <2>3. f.arg < c.arg /\ f.arg \in Nat /\ c.arg \in Nat
    BY <1>3, <1>6, <2>2, PubArgs DEF PubCalls
  <2>4. ASSUME NEW g \in ToSet(t), g \in PubCalls
        PROVE  \E h \in ToSet(v) : h \in PubCalls /\ h.arg <= g.arg
    <3>1. CASE g = c
      BY <1>2, <2>2, <2>3, <3>1
    <3>2. CASE g \in ToSet(s)
      BY <1>2, <2>4, <3>2, PubArgs
    <3> QED
      BY <1>2, <3>1, <3>2
  <2> QED
    BY <2>4 DEF Covered
<1>13. AllRecent(v, u, Tail(d), id, n)
  <2>1. Total(t, AskCalls) <= Total(v, AskCalls) + (IF d[1] \in AskPackets THEN 1 ELSE 0)
    BY <1>1, <1>2
  <2> QED
    BY <1>2, <1>6, <1>12, <2>1, RecentTaken
<1>14. OnItsWay(v, u, Tail(d), k, r)
  <2>1. ToSet(v) \cap PubCalls \subseteq ToSet(t)
    BY <1>1, <1>2
  <2> QED
    BY <1>6, <1>7, <2>1, OnItsWayTaken
<1>15. e.ok => c.arg \in r
  BY <1>2, <1>6, <1>7 DEF OnItsWay
<1>16. Known(v, r)
  BY <1>2, <1>6, <1>15 DEF Known, OkCalls
<1>17. Sound(v, u, Tail(d), k, id, n, r)
  BY <1>3, <1>4, <1>6, <1>8, <1>11, <1>13, <1>14, <1>16 DEF Sound
<1> QED
  BY <1>17 DEF v

-----------------------------------------------------------------------------
(* Packets sent and received.                                               *)

\* A packet is sent, not a publication to be confirmed.
LEMMA RecentSent ==
    ASSUME NEW s, NEW u \in Seq(Sent), NEW d, NEW id, NEW n, AllRecent(s, u, d, id, n),
           NEW p \in Sent, p \notin PubPackets
    PROVE  AllRecent(s, Append(u, p), d, id, n)
<1> DEFINE w == Append(u, p)
<1>1. /\ Len(u) \in Nat /\ Len(w) = Len(u) + 1 /\ w[Len(u) + 1] = p
      /\ \A i \in 1..Len(u) : w[i] = u[i]
  BY AppendType
<1>2. \A i \in 0..Len(u) : NumIn(w, i, AskPackets) = NumIn(u, i, AskPackets)
  BY NumInAppend
<1> HIDE DEF w
<1>3. ASSUME NEW i \in 1..Len(w), w[i] \in PubPackets
      PROVE  i \in 1..Len(u) /\ w[i] = u[i] /\ NumIn(w, i, AskPackets) = NumIn(u, i, AskPackets)
  <2>1. i \in 1..Len(u)
    BY <1>1, <1>3
  <2> QED
    BY <1>1, <1>2, <2>1
<1>4. AllRecent(s, w, d, id, n)
  BY <1>3 DEF AllRecent
<1> QED
  BY <1>4 DEF w

LEMMA OnItsWaySent ==
    ASSUME NEW s, NEW u \in Seq(Sent), NEW d, NEW k, NEW r, OnItsWay(s, u, d, k, r),
           NEW p \in Sent, p \notin PubPackets
    PROVE  OnItsWay(s, Append(u, p), d, k, r)
<1> DEFINE w == Append(u, p)
<1>1. /\ Len(u) \in Nat /\ Len(w) = Len(u) + 1 /\ w[Len(u) + 1] = p
      /\ \A i \in 1..Len(u) : w[i] = u[i]
  BY AppendType
<1> HIDE DEF w
<1>2. \A i \in 1..Len(w) : w[i] \in PubPackets => i \in 1..Len(u) /\ w[i] = u[i]
  BY <1>1
<1>3. \A i \in 1..Len(u) : i \in 1..Len(w) /\ w[i] = u[i]
  BY <1>1
<1>4. OnItsWay(s, w, d, k, r)
  BY <1>2, <1>3 DEF OnItsWay
<1> QED
  BY <1>4 DEF w

LEMMA SendSound ==
    ASSUME NEW s, NEW u, NEW d, NEW id, NEW n, NEW r, Sound(s, u, d, "up", id, n, r),
           NEW p \in Sent, p \notin AskPackets, p \notin PubPackets
    PROVE  Sound(s, Append(u, p), d, "up", id, n, r)
<1>1. /\ Types(s, u, d, id, n) /\ InOrder(s, n) /\ AllRecent(s, u, d, id, n)
      /\ Balanced(s, u, d, AskCalls, AskPackets) /\ Balanced(s, u, d, PubCalls, PubPackets)
      /\ OnItsWay(s, u, d, "up", r) /\ Known(s, r)
  BY DEF Sound
<1>2. u \in Seq(Sent)
  BY <1>1 DEF Types
<1>3. Types(s, Append(u, p), d, id, n) /\ Open(Append(u, p), d, "up")
  BY <1>1, AppendType DEF Types, Open
<1>4. Total(Append(u, p), AskPackets) = Total(u, AskPackets)
      /\ Total(Append(u, p), PubPackets) = Total(u, PubPackets)
  <2>1. Total(u, AskPackets) \in Nat /\ Total(u, PubPackets) \in Nat
    BY <1>2, TotalType
  <2> QED
    BY <1>2, <2>1, TotalAppend
<1> QED
  BY <1>1, <1>2, <1>3, <1>4, RecentSent, OnItsWaySent DEF Sound, Balanced

\* A call begins that waits for SUBACK or UNSUBACK.  What it asks is sent, or the
\* connection is not open any more.
LEMMA AskSound ==
    ASSUME NEW c \in AskCalls, NEW s, NEW u, NEW d, NEW k, NEW id, NEW n, NEW r,
           Sound(s, u, d, k, id, n, r), NEW p \in Sent, p \in AskPackets, NEW w,
           (w = Append(u, p) /\ k = "up") \/ (w = u /\ k # "up")
    PROVE  Sound(<<c>> \o s, w, d, k, IdAfter(id), n, r)
<1> DEFINE t == <<c>> \o s
<1>1. c \in Made /\ c \notin PubCalls /\ c \notin OkCalls /\ c.op # "publish" /\ p \notin PubPackets
  BY DEF AskCalls, AskOps, PubCalls, OkCalls, AskPackets, PubPackets
<1>2. /\ Types(s, u, d, id, n) /\ Open(u, d, k) /\ InOrder(s, n) /\ AllRecent(s, u, d, id, n)
      /\ Balanced(s, u, d, AskCalls, AskPackets) /\ Balanced(s, u, d, PubCalls, PubPackets)
      /\ OnItsWay(s, u, d, k, r) /\ Known(s, r)
  BY DEF Sound
<1>3. s \in Seq(Made) /\ u \in Seq(Sent) /\ d \in Seq(Answers) /\ id \in 0..MaxId /\ n \in Nat
  BY <1>2 DEF Types
<1>4. /\ t \in Seq(Made) /\ ToSet(t) = {c} \cup ToSet(s)
      /\ Total(s, AskCalls) \in Nat /\ Total(s, PubCalls) \in Nat
      /\ Total(t, AskCalls) = Total(s, AskCalls) + 1 /\ Total(t, PubCalls) = Total(s, PubCalls)
  BY <1>1, <1>3, CallsFront
<1>5. InOrder(t, n)
  BY <1>1, <1>2, <1>3, OrderFront
<1> HIDE DEF t
<1>6. IdAfter(id) \in 0..MaxId
  BY <1>3, SinceType
<1>7. w \in Seq(Sent)
  BY <1>3, AppendType
<1>8. Types(t, w, d, IdAfter(id), n) /\ Types(t, u, d, IdAfter(id), n) /\ Open(w, d, k)
  BY <1>2, <1>3, <1>4, <1>6, <1>7 DEF Types, Open
<1>9. Accounted(s, t, id, n, IdAfter(id), n)
  <2> SUFFICES ASSUME NEW m \in 0..MaxId
               PROVE  Since(IdAfter(id), m) + n + Total(s, AskCalls)
                          <= Since(id, m) + n + Total(t, AskCalls)
    BY <1>4 DEF Accounted
  <2> DEFINE x == Since(id, m)
             y == Since(IdAfter(id), m)
  <2>1. x \in Nat /\ y \in Nat /\ y <= x + 1
    BY <1>3, SinceType
  <2> HIDE DEF x, y
  <2>2. y + n + Total(s, AskCalls) <= x + n + Total(t, AskCalls)
    BY <1>3, <1>4, <2>1
  <2> QED
    BY <2>2 DEF x, y
<1>10. AllRecent(t, u, d, IdAfter(id), n)
  BY <1>2, <1>8, <1>9, RecentKept
<1>11. AllRecent(t, w, d, IdAfter(id), n)
  BY <1>1, <1>3, <1>10, RecentSent
<1>12. OnItsWay(t, u, d, k, r) /\ Known(t, r)
  BY <1>1, <1>2, <1>4 DEF OnItsWay, Known
<1>13. OnItsWay(t, w, d, k, r)
  BY <1>1, <1>3, <1>12, OnItsWaySent
<1>14. /\ Total(w, AskPackets) <= Total(u, AskPackets) + 1
       /\ Total(w, PubPackets) = Total(u, PubPackets)
       /\ Total(u, AskPackets) \in Nat /\ Total(u, PubPackets) \in Nat
       /\ Total(w, AskPackets) \in Nat /\ Total(w, PubPackets) \in Nat
       /\ Total(d, AskPackets) \in Nat /\ Total(d, PubPackets) \in Nat
  <2>1. /\ Total(u, AskPackets) \in Nat /\ Total(u, PubPackets) \in Nat
        /\ Total(w, AskPackets) \in Nat /\ Total(w, PubPackets) \in Nat
        /\ Total(d, AskPackets) \in Nat /\ Total(d, PubPackets) \in Nat
    BY <1>3, <1>7, TotalType
  <2>2. CASE w = Append(u, p)
    BY <1>1, <1>3, <2>1, <2>2, TotalAppend
  <2>3. CASE w = u
    BY <2>1, <2>3
  <2> QED
    BY <2>1, <2>2, <2>3
<1>15. Balanced(t, w, d, AskCalls, AskPackets) /\ Balanced(t, w, d, PubCalls, PubPackets)
  BY <1>2, <1>4, <1>14 DEF Balanced
<1>16. Sound(t, w, d, k, IdAfter(id), n, r)
  BY <1>5, <1>8, <1>11, <1>12, <1>13, <1>15 DEF Sound
<1> QED
  BY <1>16 DEF t

\* A message with QoS 0 takes an id as well.
LEMMA CountSound ==
    ASSUME NEW s, NEW u, NEW d, NEW k, NEW id, NEW n, NEW r, Sound(s, u, d, k, id, n, r)
    PROVE  Sound(s, u, d, k, IdAfter(id), n + 1, r)
<1>1. /\ Types(s, u, d, id, n) /\ Open(u, d, k) /\ InOrder(s, n) /\ AllRecent(s, u, d, id, n)
      /\ Balanced(s, u, d, AskCalls, AskPackets) /\ Balanced(s, u, d, PubCalls, PubPackets)
      /\ OnItsWay(s, u, d, k, r) /\ Known(s, r)
  BY DEF Sound
<1>2. s \in Seq(Made) /\ id \in 0..MaxId /\ n \in Nat
  BY <1>1 DEF Types
<1>3. IdAfter(id) \in 0..MaxId
  BY <1>2, SinceType
<1>4. Types(s, u, d, IdAfter(id), n + 1)
  BY <1>1, <1>3 DEF Types
<1>5. Accounted(s, s, id, n, IdAfter(id), n + 1)
  <2> SUFFICES ASSUME NEW m \in 0..MaxId
               PROVE  Since(IdAfter(id), m) + n + Total(s, AskCalls)
                          <= Since(id, m) + (n + 1) + Total(s, AskCalls)
    BY DEF Accounted
  <2> DEFINE x == Since(id, m)
             y == Since(IdAfter(id), m)
             q == Total(s, AskCalls)
  <2>1. x \in Nat /\ y \in Nat /\ y <= x + 1 /\ q \in Nat
    BY <1>2, SinceType, TotalType
  <2> HIDE DEF x, y, q
  <2>2. y + n + q <= x + (n + 1) + q
    BY <1>2, <2>1
  <2> QED
    BY <2>2 DEF x, y, q
<1>6. AllRecent(s, u, d, IdAfter(id), n + 1)
  BY <1>1, <1>4, <1>5, RecentKept
<1>7. InOrder(s, n + 1)
  <2>1. \A i \in 1..Len(s) : s[i].op = "publish" => s[i].arg \in Nat
    BY <1>2, ElementOfSeq, ConstantsAssumption DEF Made, CallOK
  <2> QED
    BY <1>1, <1>2, <2>1 DEF InOrder
<1> QED
  BY <1>1, <1>4, <1>6, <1>7 DEF Sound

LEMMA OrderLater ==
    ASSUME NEW s \in Seq(Made), NEW n \in Nat, InOrder(s, n)
    PROVE  /\ InOrder(s, n + 1)
           /\ \A e \in ToSet(s) : e.op = "publish" => e.arg < n + 1
<1>1. \A i \in 1..Len(s) : s[i].op = "publish" => s[i].arg \in Nat
  BY ElementOfSeq, ConstantsAssumption DEF Made, CallOK
<1>2. \A i \in 1..Len(s) : s[i].op = "publish" => s[i].arg <= n
  BY DEF InOrder
<1>3. \A i \in 1..Len(s) : s[i].op = "publish" => s[i].arg <= n + 1 /\ s[i].arg < n + 1
  BY <1>1, <1>2
<1>4. DOMAIN s = 1..Len(s)
  OBVIOUS
<1> QED
  BY <1>3, <1>4 DEF InOrder, ToSet

\* No publication on its way has the id m.
Fresh(u, d, m) ==
    /\ \A i \in 1..Len(d) : d[i] \in PubPackets => d[i].id # m
    /\ \A i \in 1..Len(u) : u[i] \in PubPackets => u[i].id # m

\* Unless almost as many messages as there are ids were published while some
\* publish() waits, the next id is not that of a publication on its way.
LEMMA NextIsFresh ==
    ASSUME NEW s, NEW u, NEW d, NEW id, NEW n, Types(s, u, d, id, n), AllRecent(s, u, d, id, n),
           \A c \in ToSet(s) : c \in PubCalls => (n - c.arg) + Total(s, AskCalls) < MaxId - 1
    PROVE  Fresh(u, d, IdAfter(id))
<1>1. /\ s \in Seq(Made) /\ u \in Seq(Sent) /\ d \in Seq(Answers)
      /\ id \in 0..MaxId /\ n \in Nat /\ MaxId \in Nat
  BY ConstantsAssumption DEF Types
<1>2. ASSUME NEW b \in Nat PROVE ~Recent(s, id, n, IdAfter(id), b)
  <2> SUFFICES ASSUME NEW c \in ToSet(s), c \in PubCalls,
                      Since(id, IdAfter(id)) + b <= (n - c.arg) + Total(s, AskCalls)
               PROVE  FALSE
    BY DEF Recent
  <2>1. Since(id, IdAfter(id)) = MaxId - 1 /\ c.arg \in Nat /\ Total(s, AskCalls) \in Nat
    BY <1>1, SinceType, PubArgs, TotalType
  <2>2. (n - c.arg) + Total(s, AskCalls) < MaxId - 1
    OBVIOUS
  <2> QED
    BY <1>1, <2>1, <2>2
<1>3. ASSUME NEW i \in 1..Len(d), d[i] \in PubPackets PROVE d[i].id # IdAfter(id)
  <2>1. i \in Nat
    BY Ids
  <2>2. NumIn(d, i, AskPackets) \in Nat
    BY <2>1, NumInType
  <2> QED
    BY <1>2, <1>3, <2>2 DEF AllRecent
<1>4. ASSUME NEW i \in 1..Len(u), u[i] \in PubPackets PROVE u[i].id # IdAfter(id)
  <2>1. i \in Nat
    BY Ids
  <2>2. NumIn(u, i, AskPackets) \in Nat /\ Total(d, AskPackets) \in Nat
    BY <1>1, <2>1, NumInType, TotalType
  <2>3. Total(d, AskPackets) + NumIn(u, i, AskPackets) \in Nat
    BY <2>2
  <2> QED
    BY <1>2, <1>4, <2>3 DEF AllRecent
<1> QED
  BY <1>3, <1>4 DEF Fresh

\* publish() with QoS 1 begins to wait.
LEMMA PublishSound ==
    ASSUME NEW c \in PubCalls, NEW s, NEW u, NEW d, NEW k, NEW id, NEW n, NEW r,
           Sound(s, u, d, k, id, n, r), Fresh(u, d, IdAfter(id)),
           c.id = IdAfter(id), c.arg = n + 1,
           NEW p \in Sent, p.type = "PUBLISH", p.id = c.id, p.arg = c.arg, NEW w,
           (w = Append(u, p) /\ k = "up") \/ (w = u /\ k # "up")
    PROVE  Sound(<<c>> \o s, w, d, k, IdAfter(id), n + 1, r)
<1> DEFINE t == <<c>> \o s
           id2 == IdAfter(id)
<1>1. /\ Types(s, u, d, id, n) /\ Open(u, d, k) /\ InOrder(s, n) /\ AllRecent(s, u, d, id, n)
      /\ Balanced(s, u, d, AskCalls, AskPackets) /\ Balanced(s, u, d, PubCalls, PubPackets)
      /\ OnItsWay(s, u, d, k, r) /\ Known(s, r)
  BY DEF Sound
<1>2. /\ s \in Seq(Made) /\ u \in Seq(Sent) /\ d \in Seq(Answers)
      /\ id \in 0..MaxId /\ n \in Nat /\ Len(u) \in Nat
  BY <1>1 DEF Types
<1>3. id2 \in 1..MaxId /\ id2 \in 0..MaxId /\ id2 # 0
  <2>1. IdAfter(id) \in 1..MaxId /\ MaxId \in Nat
    BY <1>2, SinceType, ConstantsAssumption
  <2> QED
    BY <2>1
<1>4. /\ c \in Made /\ c \notin AskCalls /\ c \notin OkCalls /\ c.op = "publish"
      /\ p \in PubPackets /\ p \notin AskPackets
  BY <1>3 DEF AskCalls, AskOps, PubCalls, OkCalls, AskPackets, PubPackets, Sent
<1>5. /\ t \in Seq(Made) /\ ToSet(t) = {c} \cup ToSet(s)
      /\ Total(s, AskCalls) \in Nat /\ Total(s, PubCalls) \in Nat
      /\ Total(t, AskCalls) = Total(s, AskCalls) /\ Total(t, PubCalls) = Total(s, PubCalls) + 1
  BY <1>2, <1>4, CallsFront
<1>6. InOrder(t, n + 1)
  <2>1. InOrder(s, n + 1) /\ \A e \in ToSet(s) : e.op = "publish" => e.arg < c.arg
    BY <1>1, <1>2, OrderLater
  <2>2. c.arg <= n + 1
    BY <1>2
  <2> QED
    BY <1>2, <1>4, <2>1, <2>2, OrderFront
<1> HIDE DEF t, id2
<1>7. /\ c.id = id2 /\ p.id = id2 /\ Fresh(u, d, id2)
  BY DEF id2
<1>8. w \in Seq(Sent)
  BY <1>2, AppendType
<1>9. Types(t, w, d, id2, n + 1) /\ Types(t, u, d, id2, n + 1) /\ Open(w, d, k)
  BY <1>1, <1>2, <1>3, <1>5, <1>8 DEF Types, Open
<1>10. Accounted(s, t, id, n, id2, n + 1)
  <2> SUFFICES ASSUME NEW m \in 0..MaxId
               PROVE  Since(id2, m) + n + Total(s, AskCalls)
                          <= Since(id, m) + (n + 1) + Total(t, AskCalls)
    BY <1>5 DEF Accounted
  <2> DEFINE x == Since(id, m)
             y == Since(id2, m)
  <2>1. x \in Nat /\ y \in Nat /\ y <= x + 1
    BY <1>2, SinceType DEF id2
  <2> HIDE DEF x, y
  <2>2. y + n + Total(s, AskCalls) <= x + (n + 1) + Total(t, AskCalls)
    BY <1>2, <1>5, <2>1
  <2> QED
    BY <2>2 DEF x, y
<1>11. AllRecent(t, u, d, id2, n + 1)
  BY <1>1, <1>9, <1>10, RecentKept
<1>12. CASE w = u /\ k # "up"
  <2>1. OnItsWay(t, u, d, k, r) /\ Known(t, r)
    <3>1. u = <<>> /\ Len(<<>>) = 0 /\ \A i : ~(i \in 1..0)
      BY <1>1, <1>12 DEF Open
    <3> QED
      BY <1>1, <1>4, <1>5, <1>7, <1>12, <3>1 DEF OnItsWay, Known, Fresh
  <2>2. Balanced(t, u, d, AskCalls, AskPackets) /\ Balanced(t, u, d, PubCalls, PubPackets)
    <3>1. Total(d, PubPackets) \in Nat /\ Total(u, PubPackets) \in Nat
      BY <1>2, TotalType
    <3> QED
      BY <1>1, <1>5, <3>1 DEF Balanced
  <2>3. Sound(t, w, d, k, id2, n + 1, r)
    BY <1>6, <1>9, <1>11, <1>12, <2>1, <2>2 DEF Sound
  <2> QED
    BY <2>3 DEF t, id2
<1>13. CASE w = Append(u, p) /\ k = "up"
  <2>1. /\ Len(w) = Len(u) + 1 /\ w[Len(u) + 1] = p /\ Len(u) + 1 \in 1..Len(w)
        /\ \A i \in 1..Len(u) : w[i] = u[i] /\ i \in 1..Len(w)
    BY <1>2, <1>13, AppendType
  <2>2. \A i \in 1..Len(w) : i \in 1..Len(u) \/ i = Len(u) + 1
    BY <1>2, <2>1
  <2>3. /\ \A i \in 0..Len(u) : NumIn(w, i, AskPackets) = NumIn(u, i, AskPackets)
        /\ NumIn(w, Len(u) + 1, AskPackets) = Total(u, AskPackets)
        /\ Total(w, AskPackets) = Total(u, AskPackets)
        /\ Total(w, PubPackets) = Total(u, PubPackets) + 1
    <3>1. Total(u, AskPackets) \in Nat /\ Total(u, PubPackets) \in Nat
      BY <1>2, TotalType
    <3>2. \A i \in 0..Len(u) : NumIn(w, i, AskPackets) = NumIn(u, i, AskPackets)
      <4>1. \A i \in 0..Len(u) : NumIn(Append(u, p), i, AskPackets) = NumIn(u, i, AskPackets)
        <5>1. u \in Seq(Sent)
          BY <1>2
        <5> QED
          BY <5>1, NumInAppend
      <4> QED
        BY <1>13, <4>1
    <3>3. Total(w, AskPackets) = Total(u, AskPackets)
          /\ Total(w, PubPackets) = Total(u, PubPackets) + 1
      BY <1>2, <1>4, <1>13, <3>1, TotalAppend
    <3> QED
      BY <2>1, <3>2, <3>3 DEF Total
  <2>4. /\ Total(d, AskPackets) \in Nat /\ Total(u, AskPackets) \in Nat
        /\ Total(d, PubPackets) \in Nat /\ Total(u, PubPackets) \in Nat
    BY <1>2, TotalType
  <2>5. Balanced(t, w, d, AskCalls, AskPackets) /\ Balanced(t, w, d, PubCalls, PubPackets)
    BY <1>1, <1>5, <2>3, <2>4 DEF Balanced
  <2>6. Recent(t, id2, n + 1, p.id, Total(d, AskPackets) + NumIn(w, Len(u) + 1, AskPackets))
    <3>1. Since(id2, id2) = 0
      BY <1>2, SinceType DEF id2
    <3>2. Total(d, AskPackets) + Total(u, AskPackets) <= Total(t, AskCalls)
      BY <1>1, <1>5 DEF Balanced
    <3>3. Since(id2, p.id) + (Total(d, AskPackets) + NumIn(w, Len(u) + 1, AskPackets))
              <= ((n + 1) - c.arg) + Total(t, AskCalls)
      BY <1>2, <1>5, <1>7, <2>3, <2>4, <3>1, <3>2
    <3>4. c \in ToSet(t)
      BY <1>5
    <3> QED
      BY <3>3, <3>4 DEF Recent
  <2>7. AllRecent(t, w, d, id2, n + 1)
    <3>1. \A i \in 1..Len(u) : i \in 0..Len(u)
      BY <1>2
    <3> QED
      BY <1>11, <2>1, <2>2, <2>3, <2>6, <3>1 DEF AllRecent
  <2>8. Known(t, r)
    BY <1>1, <1>4, <1>5 DEF Known
  <2>9. ASSUME NEW e \in ToSet(s), e \in PubCalls, e.arg \notin r
        PROVE  /\ \A i \in 1..Len(d) : d[i] \in PubPackets => d[i].id # e.id
               /\ \E i \in 1..Len(w) : w[i] \in PubPackets /\ w[i].id = e.id /\ w[i].arg = e.arg
               /\ \A i \in 1..Len(w) : w[i] \in PubPackets /\ w[i].id = e.id => w[i].arg = e.arg
    <3>1. /\ \A i \in 1..Len(d) : d[i] \in PubPackets => d[i].id # e.id
          /\ \E i \in 1..Len(u) : u[i] \in PubPackets /\ u[i].id = e.id /\ u[i].arg = e.arg
          /\ \A i \in 1..Len(u) : u[i] \in PubPackets /\ u[i].id = e.id => u[i].arg = e.arg
      BY <1>1, <1>13, <2>9 DEF OnItsWay
    <3>2. e.id # id2
      BY <1>7, <3>1 DEF Fresh
    <3> QED
      BY <1>7, <2>1, <2>2, <3>1, <3>2
  <2>10. /\ \A i \in 1..Len(d) : d[i] \in PubPackets => d[i].id # c.id
         /\ \E i \in 1..Len(w) : w[i] \in PubPackets /\ w[i].id = c.id /\ w[i].arg = c.arg
         /\ \A i \in 1..Len(w) : w[i] \in PubPackets /\ w[i].id = c.id => w[i].arg = c.arg
    BY <1>4, <1>7, <2>1, <2>2 DEF Fresh
  <2>11. OnItsWay(t, w, d, k, r)
    BY <1>5, <2>9, <2>10 DEF OnItsWay
  <2>12. Sound(t, w, d, k, id2, n + 1, r)
    BY <1>6, <1>9, <2>5, <2>7, <2>8, <2>11 DEF Sound
  <2> QED
    BY <2>12 DEF t, id2
<1> QED
  BY <1>12, <1>13

-----------------------------------------------------------------------------
(* Packets on their way.                                                    *)

\* The broker takes a packet and its reply is on its way.
LEMMA RecentAnswered ==
    ASSUME NEW s, NEW u \in Seq(Sent), NEW d \in Seq(Answers), NEW id, NEW n,
           AllRecent(s, u, d, id, n), u # <<>>,
           NEW q \in Answers, q \in AskPackets <=> u[1] \in AskPackets,
           q \in PubPackets => u[1] \in PubPackets /\ q.id = u[1].id
    PROVE  AllRecent(s, Tail(u), Append(d, q), id, n)
<1> DEFINE v == Tail(u)
           w == Append(d, q)
           first == IF u[1] \in AskPackets THEN 1 ELSE 0
<1>1. /\ v \in Seq(Sent) /\ Len(v) = Len(u) - 1 /\ Len(u) \in Nat /\ Len(u) >= 1
      /\ \A i \in 1..Len(v) : v[i] = u[i + 1]
  BY TailType
<1>2. /\ w \in Seq(Answers) /\ Len(w) = Len(d) + 1 /\ w[Len(d) + 1] = q
      /\ \A i \in 1..Len(d) : w[i] = d[i]
      /\ Len(d) \in Nat
  BY AppendType
<1>3. \A i \in 0..Len(d) : NumIn(w, i, AskPackets) = NumIn(d, i, AskPackets)
  BY NumInAppend
<1>4. Total(w, AskPackets) = Total(d, AskPackets) + first
  BY TotalAppend
<1>5. \A i \in 0..(Len(u) - 1) : NumIn(u, i + 1, AskPackets) = NumIn(v, i, AskPackets) + first
  BY NumInTail
<1>6. Total(d, AskPackets) \in Nat /\ first \in Nat
  BY TotalType
<1> HIDE DEF v, w
<1>7. ASSUME NEW i \in 1..Len(w), w[i] \in PubPackets
      PROVE  Recent(s, id, n, w[i].id, NumIn(w, i, AskPackets))
  <2>1. CASE i = Len(d) + 1
    <3>1. u[1] \in PubPackets /\ w[i].id = u[1].id /\ 1 \in 1..Len(u)
      BY <1>1, <1>2, <1>7, <2>1
    <3>2. Recent(s, id, n, u[1].id, Total(d, AskPackets) + NumIn(u, 1, AskPackets))
      BY <3>1 DEF AllRecent
    <3>3. NumIn(u, 0 + 1, AskPackets) = NumIn(v, 0, AskPackets) + first
      BY <1>1, <1>5
    <3>4. NumIn(u, 1, AskPackets) = first
      BY <1>6, <3>3, NumInNone
    <3>5. NumIn(w, i, AskPackets) = Total(w, AskPackets)
      BY <1>2, <2>1 DEF Total
    <3> QED
      BY <1>4, <3>1, <3>2, <3>4, <3>5
  <2>2. CASE i # Len(d) + 1
    <3>1. i \in 1..Len(d) /\ i \in 0..Len(d) /\ w[i] = d[i]
      BY <1>2, <2>2
    <3> QED
      BY <1>3, <1>7, <3>1 DEF AllRecent
  <2> QED
    BY <2>1, <2>2
<1>8. ASSUME NEW i \in 1..Len(v), v[i] \in PubPackets
      PROVE  Recent(s, id, n, v[i].id, Total(w, AskPackets) + NumIn(v, i, AskPackets))
  <2>1. i + 1 \in 1..Len(u) /\ v[i] = u[i + 1] /\ i \in 0..(Len(u) - 1) /\ i \in Nat
    BY <1>1
  <2>2. NumIn(v, i, AskPackets) \in Nat
    BY <2>1, NumInType
  <2>3. Recent(s, id, n, u[i + 1].id, Total(d, AskPackets) + NumIn(u, i + 1, AskPackets))
    BY <1>8, <2>1 DEF AllRecent
  <2>4. NumIn(u, i + 1, AskPackets) = NumIn(v, i, AskPackets) + first
    BY <1>5, <2>1
  <2>5. Total(d, AskPackets) + NumIn(u, i + 1, AskPackets)
            = Total(w, AskPackets) + NumIn(v, i, AskPackets)
    BY <1>4, <1>6, <2>2, <2>4
  <2> QED
    BY <2>1, <2>3, <2>5
<1>9. AllRecent(s, v, w, id, n)
  BY <1>7, <1>8 DEF AllRecent
<1> QED
  BY <1>9 DEF v, w

LEMMA OnItsWayAnswered ==
    ASSUME NEW s, NEW u \in Seq(Sent), NEW d \in Seq(Answers), NEW k, NEW r, NEW r2,
           OnItsWay(s, u, d, k, r), u # <<>>, r \subseteq r2,
           u[1] \in PubPackets => u[1].arg \in r2,
           NEW q \in Answers, q \in PubPackets => u[1] \in PubPackets /\ q.id = u[1].id
    PROVE  OnItsWay(s, Tail(u), Append(d, q), k, r2)
<1> DEFINE v == Tail(u)
           w == Append(d, q)
<1>1. /\ Len(v) = Len(u) - 1 /\ Len(u) \in Nat /\ Len(u) >= 1
      /\ \A i \in 1..Len(v) : v[i] = u[i + 1]
  BY TailType
<1>2. /\ Len(w) = Len(d) + 1 /\ w[Len(d) + 1] = q /\ Len(d) \in Nat
      /\ \A i \in 1..Len(d) : w[i] = d[i]
  BY AppendType
<1> HIDE DEF v, w
<1>3. \A i \in 1..Len(v) : i + 1 \in 1..Len(u) /\ v[i] = u[i + 1]
  BY <1>1
<1>4. \A i \in 1..Len(w) : w[i] = q \/ (i \in 1..Len(d) /\ w[i] = d[i])
  BY <1>2
<1>5. \A i \in 1..Len(u) : i = 1 \/ (i - 1 \in 1..Len(v) /\ v[i - 1] = u[i])
  <2>1. \A i \in 1..Len(u) : i = 1 \/ (i - 1 \in 1..Len(v) /\ (i - 1) + 1 = i)
    BY <1>1
  <2> QED
    BY <1>1, <2>1
<1>6. 1 \in 1..Len(u)
  BY <1>1
<1>7. ASSUME NEW c \in ToSet(s), c \in PubCalls, c.arg \notin r2
      PROVE  /\ \A i \in 1..Len(w) : w[i] \in PubPackets => w[i].id # c.id
             /\ k = "up" => \E i \in 1..Len(v) :
                    v[i] \in PubPackets /\ v[i].id = c.id /\ v[i].arg = c.arg
             /\ \A i \in 1..Len(v) : v[i] \in PubPackets /\ v[i].id = c.id => v[i].arg = c.arg
  <2>1. /\ \A i \in 1..Len(d) : d[i] \in PubPackets => d[i].id # c.id
        /\ k = "up" => \E i \in 1..Len(u) :
               u[i] \in PubPackets /\ u[i].id = c.id /\ u[i].arg = c.arg
        /\ \A i \in 1..Len(u) : u[i] \in PubPackets /\ u[i].id = c.id => u[i].arg = c.arg
    BY <1>7 DEF OnItsWay
  <2>2. u[1] \in PubPackets => u[1].id # c.id
    BY <1>6, <1>7, <2>1
  <2>3. \A i \in 1..Len(w) : w[i] \in PubPackets => w[i].id # c.id
    BY <1>4, <2>1, <2>2
  <2>4. \A i \in 1..Len(v) : v[i] \in PubPackets /\ v[i].id = c.id => v[i].arg = c.arg
    BY <1>3, <2>1
  <2>5. ASSUME k = "up"
        PROVE  \E i \in 1..Len(v) : v[i] \in PubPackets /\ v[i].id = c.id /\ v[i].arg = c.arg
    <3>1. PICK i \in 1..Len(u) : u[i] \in PubPackets /\ u[i].id = c.id /\ u[i].arg = c.arg
      BY <2>1, <2>5
    <3>2. i # 1
      BY <2>2, <3>1
    <3> QED
      BY <1>5, <3>1, <3>2
  <2> QED
    BY <2>3, <2>4, <2>5
<1>8. OnItsWay(s, v, w, k, r2)
  BY <1>7 DEF OnItsWay
<1> QED
  BY <1>8 DEF v, w

LEMMA AnswerSound ==
    ASSUME NEW s, NEW u, NEW d, NEW id, NEW n, NEW r, NEW r2,
           Sound(s, u, d, "up", id, n, r), u # <<>>, r \subseteq r2,
           u[1] \in PubPackets => u[1].arg \in r2,
           NEW q \in Answers, q \in AskPackets <=> u[1] \in AskPackets,
           q \in PubPackets <=> u[1] \in PubPackets, q \in PubPackets => q.id = u[1].id
    PROVE  Sound(s, Tail(u), Append(d, q), "up", id, n, r2)
<1>1. /\ Types(s, u, d, id, n) /\ InOrder(s, n) /\ AllRecent(s, u, d, id, n)
      /\ Balanced(s, u, d, AskCalls, AskPackets) /\ Balanced(s, u, d, PubCalls, PubPackets)
      /\ OnItsWay(s, u, d, "up", r) /\ Known(s, r)
  BY DEF Sound
<1>2. u \in Seq(Sent) /\ d \in Seq(Answers) /\ s \in Seq(Made)
  BY <1>1 DEF Types
<1>3. Tail(u) \in Seq(Sent) /\ Append(d, q) \in Seq(Answers)
  BY <1>2, TailType, AppendType
<1>4. Types(s, Tail(u), Append(d, q), id, n) /\ Open(Tail(u), Append(d, q), "up")
  BY <1>1, <1>3 DEF Types, Open
<1>5. AllRecent(s, Tail(u), Append(d, q), id, n)
  BY <1>1, <1>2, RecentAnswered
<1>6. OnItsWay(s, Tail(u), Append(d, q), "up", r2)
  BY <1>1, <1>2, OnItsWayAnswered
<1>7. Known(s, r2)
  BY <1>1 DEF Known
<1>8. ASSUME NEW C, NEW P, Balanced(s, u, d, C, P), q \in P <=> u[1] \in P
      PROVE  Balanced(s, Tail(u), Append(d, q), C, P)
  <2>1. /\ Total(Tail(u), P) \in Nat /\ Total(d, P) \in Nat /\ Total(s, C) \in Nat
    BY <1>2, <1>3, TotalType
  <2>2. Total(u, P) = Total(Tail(u), P) + (IF u[1] \in P THEN 1 ELSE 0)
    BY <1>2, TotalTail
  <2>3. Total(Append(d, q), P) = Total(d, P) + (IF q \in P THEN 1 ELSE 0)
    BY <1>2, TotalAppend
  <2> QED
    BY <1>8, <2>1, <2>2, <2>3 DEF Balanced
<1>9. Balanced(s, Tail(u), Append(d, q), AskCalls, AskPackets)
      /\ Balanced(s, Tail(u), Append(d, q), PubCalls, PubPackets)
  BY <1>1, <1>8
<1> QED
  BY <1>1, <1>4, <1>5, <1>6, <1>7, <1>9 DEF Sound

\* A message of the broker is on its way to the client.
LEMMA ArriveSound ==
    ASSUME NEW s, NEW u, NEW d, NEW id, NEW n, NEW r, Sound(s, u, d, "up", id, n, r),
           NEW q \in Answers, q \notin AskPackets, q \notin PubPackets
    PROVE  Sound(s, u, Append(d, q), "up", id, n, r)
<1> DEFINE w == Append(d, q)
<1>1. /\ Types(s, u, d, id, n) /\ InOrder(s, n) /\ AllRecent(s, u, d, id, n)
      /\ Balanced(s, u, d, AskCalls, AskPackets) /\ Balanced(s, u, d, PubCalls, PubPackets)
      /\ OnItsWay(s, u, d, "up", r) /\ Known(s, r)
  BY DEF Sound
<1>2. d \in Seq(Answers)
  BY <1>1 DEF Types
<1>3. /\ w \in Seq(Answers) /\ Len(w) = Len(d) + 1 /\ w[Len(d) + 1] = q /\ Len(d) \in Nat
      /\ \A i \in 1..Len(d) : w[i] = d[i]
  BY <1>2, AppendType
<1>4. \A i \in 0..Len(d) : NumIn(w, i, AskPackets) = NumIn(d, i, AskPackets)
  BY <1>2, NumInAppend
<1>5. Total(w, AskPackets) = Total(d, AskPackets) /\ Total(w, PubPackets) = Total(d, PubPackets)
  <2>1. Total(d, AskPackets) \in Nat /\ Total(d, PubPackets) \in Nat
    BY <1>2, TotalType
  <2> QED
    BY <1>2, <2>1, TotalAppend
<1> HIDE DEF w
<1>6. \A i \in 1..Len(w) : w[i] \in PubPackets => i \in 1..Len(d) /\ i \in 0..Len(d) /\ w[i] = d[i]
  BY <1>3
<1>7. Types(s, u, w, id, n) /\ Open(u, w, "up")
  BY <1>1, <1>3 DEF Types, Open
<1>8. AllRecent(s, u, w, id, n)
  BY <1>1, <1>4, <1>5, <1>6 DEF AllRecent
<1>9. OnItsWay(s, u, w, "up", r)
  BY <1>1, <1>6 DEF OnItsWay
<1>10. Sound(s, u, w, "up", id, n, r)
  BY <1>1, <1>5, <1>7, <1>8, <1>9 DEF Sound, Balanced
<1> QED
  BY <1>10 DEF w

\* The broker takes a packet that it does not reply to.
LEMMA DropSound ==
    ASSUME NEW s, NEW u, NEW d, NEW id, NEW n, NEW r, NEW r2,
           Sound(s, u, d, "up", id, n, r), u # <<>>, r \subseteq r2,
           u[1] \notin AskPackets, u[1] \notin PubPackets
    PROVE  Sound(s, Tail(u), d, "up", id, n, r2)
<1> DEFINE v == Tail(u)
<1>1. /\ Types(s, u, d, id, n) /\ InOrder(s, n) /\ AllRecent(s, u, d, id, n)
      /\ Balanced(s, u, d, AskCalls, AskPackets) /\ Balanced(s, u, d, PubCalls, PubPackets)
      /\ OnItsWay(s, u, d, "up", r) /\ Known(s, r)
  BY DEF Sound
<1>2. u \in Seq(Sent) /\ d \in Seq(Answers)
  BY <1>1 DEF Types
<1>3. /\ v \in Seq(Sent) /\ Len(v) = Len(u) - 1 /\ Len(u) \in Nat /\ Len(u) >= 1
      /\ \A i \in 1..Len(v) : v[i] = u[i + 1]
  BY <1>2, TailType
<1>4. \A i \in 1..Len(v) : NumIn(u, i + 1, AskPackets) = NumIn(v, i, AskPackets)
  <2>1. \A i \in 0..(Len(u) - 1) : NumIn(u, i + 1, AskPackets) = NumIn(v, i, AskPackets) + 0
    BY <1>2, NumInTail
  <2>2. \A i \in 1..Len(v) : i \in Nat /\ i \in 0..(Len(u) - 1)
    BY <1>3
  <2>3. \A i \in Nat : NumIn(v, i, AskPackets) \in Nat
    BY NumInType
  <2> QED
    BY <2>1, <2>2, <2>3
<1>5. Total(u, AskPackets) = Total(v, AskPackets) /\ Total(u, PubPackets) = Total(v, PubPackets)
  <2>1. Total(v, AskPackets) \in Nat /\ Total(v, PubPackets) \in Nat
    BY <1>3, TotalType
  <2> QED
    BY <1>2, <2>1, TotalTail
<1> HIDE DEF v
<1>6. \A i \in 1..Len(v) : i + 1 \in 1..Len(u) /\ v[i] = u[i + 1]
  BY <1>3
<1>7. \A i \in 1..Len(u) : i = 1 \/ (i - 1 \in 1..Len(v) /\ v[i - 1] = u[i])
  <2>1. \A i \in 1..Len(u) : i = 1 \/ (i - 1 \in 1..Len(v) /\ (i - 1) + 1 = i)
    BY <1>3
  <2> QED
    BY <1>3, <2>1
<1>8. Types(s, v, d, id, n) /\ Open(v, d, "up")
  BY <1>1, <1>3 DEF Types, Open
<1>9. AllRecent(s, v, d, id, n)
  BY <1>1, <1>4, <1>6 DEF AllRecent
<1>10. OnItsWay(s, v, d, "up", r2)
  <2> SUFFICES ASSUME NEW c \in ToSet(s), c \in PubCalls, c.arg \notin r2
               PROVE  /\ \A i \in 1..Len(d) : d[i] \in PubPackets => d[i].id # c.id
                      /\ \E i \in 1..Len(v) :
                             v[i] \in PubPackets /\ v[i].id = c.id /\ v[i].arg = c.arg
                      /\ \A i \in 1..Len(v) :
                             v[i] \in PubPackets /\ v[i].id = c.id => v[i].arg = c.arg
    BY DEF OnItsWay
  <2>1. /\ \A i \in 1..Len(d) : d[i] \in PubPackets => d[i].id # c.id
        /\ \E i \in 1..Len(u) : u[i] \in PubPackets /\ u[i].id = c.id /\ u[i].arg = c.arg
        /\ \A i \in 1..Len(u) : u[i] \in PubPackets /\ u[i].id = c.id => u[i].arg = c.arg
    BY <1>1 DEF OnItsWay
  <2>2. \A i \in 1..Len(v) : v[i] \in PubPackets /\ v[i].id = c.id => v[i].arg = c.arg
    <3> SUFFICES ASSUME NEW i \in 1..Len(v), v[i] \in PubPackets, v[i].id = c.id
                 PROVE  v[i].arg = c.arg
      OBVIOUS
    <3>1. i + 1 \in 1..Len(u) /\ v[i] = u[i + 1]
      BY <1>6
    <3> QED
      BY <2>1, <3>1
  <2>3. PICK i \in 1..Len(u) : u[i] \in PubPackets /\ u[i].id = c.id /\ u[i].arg = c.arg
    BY <2>1
  <2>4. i - 1 \in 1..Len(v) /\ v[i - 1] = u[i]
    BY <1>7, <2>3
  <2> QED
    BY <2>1, <2>2, <2>3, <2>4
<1>11. Known(s, r2)
  BY <1>1 DEF Known
<1>12. Sound(s, v, d, "up", id, n, r2)
  BY <1>1, <1>5, <1>8, <1>9, <1>10, <1>11 DEF Sound, Balanced
<1> QED
  BY <1>12 DEF v

-----------------------------------------------------------------------------
(* The steps, as such changes.                                              *)

Now == Sound(frames, up, down, link, lastId, published, received)

LEMMA NothingSound ==
    ASSUME NEW k, NEW id \in 0..MaxId, NEW n \in Nat, NEW r
    PROVE  Sound(<<>>, <<>>, <<>>, k, id, n, r)
<1>1. <<>> \in Seq(Made) /\ <<>> \in Seq(Sent) /\ <<>> \in Seq(Answers) /\ Len(<<>>) = 0
  OBVIOUS
<1>2. (\A i : ~(i \in 1..0)) /\ ToSet(<<>>) = {}
  BY DEF ToSet
<1>3. Types(<<>>, <<>>, <<>>, id, n) /\ Open(<<>>, <<>>, k)
  BY <1>1 DEF Types, Open
<1>4. InOrder(<<>>, n) /\ AllRecent(<<>>, <<>>, <<>>, id, n)
  BY <1>1, <1>2 DEF InOrder, AllRecent
<1>5. OnItsWay(<<>>, <<>>, <<>>, k, r) /\ Known(<<>>, r)
  BY <1>2 DEF OnItsWay, Known
<1>6. ASSUME NEW C, NEW P PROVE Balanced(<<>>, <<>>, <<>>, C, P)
  BY TotalEmpty DEF Balanced
<1> QED
  BY <1>3, <1>4, <1>5, <1>6 DEF Sound

LEMMA FramesAre ==
    ASSUME TypeInv, frames # <<>>
    PROVE  frames = <<Top>> \o Below /\ Top \in Made /\ Below \in Seq(Made)
<1>1. /\ Top \in Made /\ Below \in Seq(Made) /\ Len(frames) \in Nat /\ Len(frames) >= 1
      /\ Len(Below) = Len(frames) - 1 /\ frames \in Seq(Made)
      /\ \A i \in 1..(Len(frames) - 1) : Below[i] = frames[i + 1]
  BY TopBelow DEF TypeInv
<1> DEFINE t == <<Top>> \o Below
<1>2. /\ t \in Seq(Made) /\ Len(t) = Len(Below) + 1 /\ t[1] = Top
      /\ \A i \in 1..Len(Below) : t[i + 1] = Below[i]
  BY <1>1, Pushed
<1> HIDE DEF t
<1>3. ASSUME NEW i \in 1..Len(frames) PROVE t[i] = frames[i]
  <2>1. CASE i = 1
    BY <1>2, <2>1 DEF Top
  <2>2. CASE i # 1
    <3>1. i - 1 \in 1..(Len(frames) - 1) /\ i - 1 \in 1..Len(Below) /\ (i - 1) + 1 = i
      BY <1>1, <2>2
    <3>2. t[(i - 1) + 1] = Below[i - 1] /\ Below[i - 1] = frames[(i - 1) + 1]
      BY <1>1, <1>2, <3>1
    <3> QED
      BY <3>1, <3>2
  <2> QED
    BY <2>1, <2>2
<1>4. t = frames
  BY <1>1, <1>2, <1>3, SeqEqual
<1> QED
  BY <1>1, <1>4 DEF t

\* The innermost call stops waiting.
LEMMA Over ==
    ASSUME TypeInv, frames # <<>>, NEW ok \in BOOLEAN, WaitOver(ok)
    PROVE  \E e \in Made :
               /\ frames' = <<e>> \o Below
               /\ e.done /\ e.ok = ok /\ e.op = Top.op /\ e.arg = Top.arg
<1> DEFINE e == [Top EXCEPT !.done = TRUE, !.ok = ok]
<1>1. /\ Top \in Made /\ Below \in Seq(Made) /\ Len(frames) \in Nat /\ Len(frames) >= 1
      /\ Len(Below) = Len(frames) - 1
      /\ \A i \in 1..(Len(frames) - 1) : Below[i] = frames[i + 1]
  BY TopBelow
<1>2. e \in Made /\ e.done /\ e.ok = ok /\ e.op = Top.op /\ e.arg = Top.arg
  BY <1>1 DEF Made, Calls, CallOK
<1>3. /\ frames' \in Seq(Made) /\ Len(frames') = Len(frames)
      /\ \A i \in 1..Len(frames) : i # 1 => frames'[i] = frames[i]
      /\ frames'[1] = e
  BY WaitOverTypes DEF Top
<1> DEFINE t == <<e>> \o Below
<1> HIDE DEF e
<1>4. /\ t \in Seq(Made) /\ Len(t) = Len(Below) + 1 /\ t[1] = e
      /\ \A i \in 1..Len(Below) : t[i + 1] = Below[i]
  BY <1>1, <1>2, Pushed
<1> HIDE DEF t
<1>5. ASSUME NEW i \in 1..Len(frames) PROVE t[i] = frames'[i]
  <2>1. CASE i = 1
    BY <1>3, <1>4, <2>1
  <2>2. CASE i # 1
    <3>1. i - 1 \in 1..(Len(frames) - 1) /\ i - 1 \in 1..Len(Below) /\ (i - 1) + 1 = i
      BY <1>1, <2>2
    <3>2. t[(i - 1) + 1] = Below[i - 1] /\ Below[i - 1] = frames[(i - 1) + 1]
      BY <1>1, <1>4, <3>1
    <3> QED
      BY <1>3, <2>2, <3>1, <3>2
  <2> QED
    BY <2>1, <2>2
<1>6. Len(t) = Len(frames')
  BY <1>1, <1>3, <1>4
<1>7. t = frames'
  BY <1>3, <1>4, <1>5, <1>6, SeqEqual
<1> QED
  BY <1>2, <1>7 DEF t

LEMMA WriteSound ==
    ASSUME NEW s, NEW id, NEW n, NEW r, Sound(s, up, down, link, id, n, r),
           NEW p \in Sent, p \notin AskPackets, p \notin PubPackets, Write(p)
    PROVE  Sound(s, up', down', link', id, n, r)
<1>1. CASE link = "up" /\ up' = Append(up, p) /\ UNCHANGED <<link, down>>
  BY <1>1, SendSound
<1>2. CASE UNCHANGED netVars
  BY <1>2 DEF netVars
<1>3. CASE Stop
  BY <1>3, EndSound DEF Stop
<1> QED
  BY <1>1, <1>2, <1>3 DEF Write

\* A request that does not count: CONNECT, PINGREQ, and PUBLISH with QoS 0.
LEMMA PlainRequest ==
    ASSUME NEW type \in {"CONNECT", "PINGREQ", "PUBLISH"},
           NEW arg \in Filters \cup {NoFilter} \cup 1..MaxPublish,
           type = "PUBLISH" => arg \in 1..MaxPublish
    PROVE  /\ Request(type, arg, 0) \in Sent
           /\ Request(type, arg, 0) \notin AskPackets /\ Request(type, arg, 0) \notin PubPackets
<1>1. 0 \in 0..MaxId
  BY ConstantsAssumption
<1>2. /\ Request(type, arg, 0) \in Sent
      /\ Request(type, arg, 0).type = type /\ Request(type, arg, 0).id = 0
  BY <1>1, NewRequest
<1> QED
  BY <1>2 DEF AskPackets, PubPackets

LEMMA AskWriteSound ==
    ASSUME NEW s, NEW id, NEW n, NEW r, Sound(s, up, down, link, id, n, r),
           NEW p \in Sent, p \in AskPackets, Write(p), NEW c \in AskCalls
    PROVE  Sound(<<c>> \o s, up', down', link', IdAfter(id), n, r)
<1>1. CASE link = "up" /\ up' = Append(up, p) /\ UNCHANGED <<link, down>>
  <2>1. Sound(<<c>> \o s, up', down, link, IdAfter(id), n, r)
    BY <1>1, AskSound
  <2> QED
    BY <1>1, <2>1
<1>2. CASE link # "up" /\ UNCHANGED netVars
  <2>1. Sound(<<c>> \o s, up, down, link, IdAfter(id), n, r)
    BY <1>2, AskSound
  <2> QED
    BY <1>2, <2>1 DEF netVars
<1>3. CASE Stop
  <2>1. Sound(s, <<>>, <<>>, "down", id, n, r)
    BY EndSound
  <2>2. Sound(<<c>> \o s, <<>>, <<>>, "down", IdAfter(id), n, r)
    BY <2>1, AskSound
  <2> QED
    BY <1>3, <2>2 DEF Stop
<1> QED
  BY <1>1, <1>2, <1>3 DEF Write

\* subscribe() and unsubscribe() ask the broker.
LEMMA AskStepSound ==
    ASSUME TypeInv, NEW below \in Seq(Made),
           Sound(below, up, down, link, lastId, published, received),
           NEW type \in {"SUBSCRIBE", "UNSUBSCRIBE"}, NEW op \in AskOps, NEW arg \in Filters,
           Ask(type, op, arg, below)
    PROVE  Sound(frames', up', down', link', lastId', published, received)
<1> DEFINE p == Request(type, arg, NextId)
           c == Call(op, arg, NextId)
<1>1. NextId \in 0..MaxId /\ NextId # 0 /\ NextId = IdAfter(lastId)
  BY NoneEmpty DEF NextId, IdAfter
<1>2. p \in Sent /\ p.type = type
  BY <1>1, NewRequest
<1>3. p \in AskPackets
  BY <1>2 DEF AskPackets, Sent
<1>4. c \in AskCalls
  <2>1. op \in DOMAIN Reply \cup {"enter", "loop", "callback"}
        /\ arg \in Filters \cup {NoFilter} \cup 1..MaxPublish
    BY Blocks DEF AskOps
  <2>2. c \in Calls /\ c.op = op /\ c.arg = arg /\ c.id = NextId /\ ~c.done
    BY <1>1, <2>1, NoneEmpty DEF Call, Calls
  <2> HIDE DEF c
  <2>3. CallOK(c)
    BY <1>1, <2>2 DEF CallOK, AskOps
  <2> QED
    BY <2>2, <2>3 DEF Made, AskCalls
<1> HIDE DEF p, c
<1>5. lastId' = NextId /\ Write(p) /\ frames' = <<c>> \o below
  BY DEF Ask, p, c
<1>6. Sound(<<c>> \o below, up', down', link', IdAfter(lastId), published, received)
  BY <1>2, <1>3, <1>4, <1>5, AskWriteSound
<1> QED
  BY <1>1, <1>5, <1>6

LEMMA RenewSound ==
    ASSUME TypeInv, NEW below \in Seq(Made), NEW rest \in Seq(Filters),
           Sound(below, up, down, link, lastId, published, received), Renew(rest, below)
    PROVE  Sound(frames', up', down', link', lastId', published, received)
<1>1. CASE rest = <<>>
  <2> DEFINE b == Call("callback", NoFilter, 0)
             e == Call("enter", NoFilter, 0)
  <2>1. b \in Made /\ e \in Made /\ b.op = "callback" /\ e.op = "enter"
    BY PlainCall DEF Call
  <2> HIDE DEF b, e
  <2>2. /\ frames' = <<b, e>> \o below /\ lastId' = lastId
        /\ up' = up /\ down' = down /\ link' = link
    BY <1>1 DEF Renew, b, e, netVars
  <2>3. b \notin AskCalls /\ e \notin AskCalls
    BY <2>1 DEF AskCalls, AskOps
  <2>4. <<e>> \o below \in Seq(Made)
    BY <2>1, Pushed
  <2>5. Sound(<<e>> \o below, up, down, link, lastId, published, received)
    BY <2>1, <2>3, PushSound
  <2>6. Sound(<<b>> \o (<<e>> \o below), up, down, link, lastId, published, received)
    BY <2>1, <2>3, <2>4, <2>5, PushSound
  <2>7. frames' = <<b>> \o (<<e>> \o below)
    BY <2>1, <2>2, TwoPushed
  <2> QED
    BY <2>2, <2>6, <2>7
<1>2. CASE rest # <<>>
  <2> DEFINE c == [Call("resub", rest[1], NextId) EXCEPT !.rest = Tail(rest)]
             p == Request("SUBSCRIBE", rest[1], NextId)
  <2>1. /\ c \in Made /\ c.op = "resub" /\ ~c.done /\ rest[1] \in Filters
        /\ NextId \in 0..MaxId /\ NextId # 0 /\ NextId = IdAfter(lastId)
    BY <1>2, ResubCall, TailType, NoneEmpty DEF NextId, IdAfter
  <2> HIDE DEF c
  <2>2. c \in AskCalls
    BY <2>1 DEF AskCalls, AskOps
  <2>3. p \in Sent /\ p.type = "SUBSCRIBE"
    BY <2>1, NewRequest
  <2> HIDE DEF p
  <2>4. p \in AskPackets
    BY <2>3 DEF AskPackets, Sent
  <2>5. lastId' = NextId /\ Write(p) /\ frames' = <<c>> \o below
    BY <1>2 DEF Renew, c, p
  <2>6. Sound(<<c>> \o below, up', down', link', IdAfter(lastId), published, received)
    BY <2>2, <2>3, <2>4, <2>5, AskWriteSound
  <2> QED
    BY <2>1, <2>5, <2>6
<1> QED
  BY <1>1, <1>2

LEMMA HandleSound ==
    ASSUME NEW calls \in Seq(Made), down # <<>>,
           TypeInv, Sound(calls, up, down, link, lastId, published, received),
           HandlePacket(calls)
    PROVE  Sound(frames', up', down', link', lastId, published, received)
<1>1. CASE down[1].type # "PUBLISH"
  <2>1. Stop /\ frames' = calls
    BY <1>1 DEF HandlePacket, OnDisconnect
  <2> QED
    BY <2>1, EndSound DEF Stop
<1>2. CASE down[1].type = "PUBLISH"
  <2>1. down[1] \in Answers
    BY TailType DEF TypeInv
  <2>2. down[1] \notin AskPackets /\ down[1] \notin PubPackets
    BY <1>2, <2>1 DEF Answers, AskPackets, PubPackets
  <2>3. Sound(calls, up, Tail(down), link, lastId, published, received)
    BY <2>2, TakeSound
  <2> DEFINE b == Call("callback", NoFilter, 0)
  <2>4. b \in Made /\ b.op = "callback"
    BY PlainCall DEF Call
  <2> HIDE DEF b
  <2>5. b \notin AskCalls
    BY <2>4 DEF AskCalls, AskOps
  <2>6. Sound(<<b>> \o calls, up, Tail(down), link, lastId, published, received)
    BY <2>3, <2>4, <2>5, PushSound
  <2>7. /\ down' = Tail(down) /\ up' = up /\ link' = link
        /\ frames' = calls \/ frames' = <<b>> \o calls
    BY <1>2 DEF HandlePacket, b
  <2> QED
    BY <2>3, <2>6, <2>7
<1> QED
  BY <1>1, <1>2

LEMMA GiveUpStep ==
    ASSUME TypeInv, frames # <<>>, NEW k, k # "up", NEW id, NEW n, NEW r,
           Sound(frames, <<>>, <<>>, k, id, n, r), WaitOver(FALSE)
    PROVE  Sound(frames', <<>>, <<>>, k, id, n, r)
<1>1. frames = <<Top>> \o Below /\ Top \in Made /\ Below \in Seq(Made)
  BY FramesAre
<1>2. PICK e \in Made : /\ frames' = <<e>> \o Below
                        /\ e.done /\ e.ok = FALSE /\ e.op = Top.op /\ e.arg = Top.arg
  BY Over
<1>3. Sound(<<Top>> \o Below, <<>>, <<>>, k, id, n, r)
  BY <1>1
<1>4. Sound(<<e>> \o Below, <<>>, <<>>, k, id, n, r)
  BY <1>1, <1>2, <1>3, GiveUpSound
<1> QED
  BY <1>2, <1>4

LEMMA SoundStop ==
    ASSUME TypeInv, Now, frames # <<>>, Stop, WaitOver(FALSE),
           UNCHANGED <<lastId, published, received>>
    PROVE  Now'
<1>1. Sound(frames, <<>>, <<>>, "down", lastId, published, received)
  BY EndSound DEF Now
<1>2. Sound(frames', <<>>, <<>>, "down", lastId, published, received)
  BY <1>1, GiveUpStep
<1> QED
  BY <1>2 DEF Now, Stop

LEMMA SoundWaits ==
    ASSUME TypeInv, Now, Timeout \/ WaitLost
    PROVE  Now'
<1>1. CASE Timeout
  BY <1>1, SoundStop DEF Timeout, Waiting, OnDisconnect, brokerVars
<1>2. CASE WaitLost
  <2>1. frames # <<>> /\ WaitOver(FALSE)
        /\ UNCHANGED <<up, down, link, lastId, published, received>>
    BY <1>2 DEF WaitLost, Waiting, netVars, brokerVars, appVars
  <2>2. link # "up" /\ up = <<>> /\ down = <<>>
    BY <1>2 DEF WaitLost, Connected, Now, Sound, Open, TypeInv
  <2>3. Sound(frames', <<>>, <<>>, link, lastId, published, received)
    BY <2>1, <2>2, GiveUpStep DEF Now
  <2> QED
    BY <2>1, <2>2, <2>3 DEF Now
<1> QED
  BY <1>1, <1>2

LEMMA SoundReply ==
    ASSUME TypeInv, Now, GetReply
    PROVE  Now'
<1>1. /\ frames # <<>> /\ Top.op \in DOMAIN Reply /\ ~Top.done
      /\ down # <<>> /\ down[1].type = Reply[Top.op]
      /\ UNCHANGED <<lastId, published, received>>
  BY DEF GetReply, Waiting, Arriving, brokerVars
<1>2. frames = <<Top>> \o Below /\ Top \in Made /\ Below \in Seq(Made)
  BY <1>1, FramesAre
<1>3. CASE Stop /\ WaitOver(FALSE)
  BY <1>1, <1>3, SoundStop
<1>4. CASE /\ Top.op = "publish" \/ Matches(down[1])
           /\ down' = Tail(down) /\ WaitOver(Matches(down[1])) /\ UNCHANGED <<link, up>>
  <2>1. PICK e \in Made : /\ frames' = <<e>> \o Below
                          /\ e.done /\ e.ok = Matches(down[1])
                          /\ e.op = Top.op /\ e.arg = Top.arg
    <3>1. Matches(down[1]) \in BOOLEAN
      BY DEF Matches
    <3> QED
      BY <1>1, <1>4, <3>1, Over
  <2>2. Sound(<<Top>> \o Below, up, down, link, lastId, published, received)
    BY <1>2 DEF Now
  <2>3. down[1] \in Packets /\ down[1] \in Answers
    BY <1>1, TailType DEF TypeInv, Answers
  <2>4. Sound(<<e>> \o Below, up, Tail(down), link, lastId, published, received)
    <3>1. CASE Top.op \in {"connect", "ping"}
      <4>1. down[1].type \in {"CONNACK", "PINGRESP"}
        BY <1>1, <3>1 DEF Reply
      <4>2. down[1] \notin AskPackets /\ down[1] \notin PubPackets
        BY <4>1 DEF AskPackets, PubPackets
      <4>3. Top \notin AskCalls \cup PubCalls /\ e \notin AskCalls /\ e.op # "publish"
        BY <2>1, <3>1 DEF AskCalls, AskOps, PubCalls
      <4>4. Sound(<<Top>> \o Below, up, Tail(down), link, lastId, published, received)
        BY <1>1, <2>2, <4>2, TakeSound
      <4>5. Sound(Below, up, Tail(down), link, lastId, published, received)
        BY <1>2, <4>3, <4>4, PopSound
      <4> QED
        BY <1>2, <4>3, <4>5, PushSound
    <3>2. CASE Top.op \in AskOps
      <4>1. down[1].type \in {"SUBACK", "UNSUBACK"}
        BY <1>1, <3>2 DEF Reply, AskOps
      <4>2. down[1] \in AskPackets
        BY <2>3, <4>1 DEF AskPackets
      <4>3. Top \in AskCalls
        BY <1>1, <1>2, <3>2 DEF AskCalls
      <4> QED
        BY <1>1, <1>2, <2>1, <2>2, <4>2, <4>3, TakeAskSound
    <3>3. CASE Top.op = "publish"
      <4>1. down[1].type = "PUBACK"
        BY <1>1, <3>3 DEF Reply
      <4>2. down[1] \in PubPackets
        BY <2>3, <4>1 DEF PubPackets
      <4>3. Top \in PubCalls
        BY <1>1, <1>2, <3>3 DEF PubCalls
      <4>4. e.ok => down[1].id = Top.id
        BY <2>1, <3>3 DEF Matches
      <4> QED
        BY <1>1, <1>2, <2>1, <2>2, <4>2, <4>3, <4>4, TakePubackSound
    <3> QED
      BY <1>1, <3>1, <3>2, <3>3, Blocks DEF AskOps
  <2> QED
    BY <1>1, <1>4, <2>1, <2>4 DEF Now
<1> QED
  BY <1>3, <1>4 DEF GetReply, OnDisconnect

LEMMA SoundRead ==
    ASSUME TypeInv, Now, GetOther \/ ReadPacket
    PROVE  Now'
<1>1. frames \in Seq(Made)
  BY DEF TypeInv
<1>2. CASE GetOther
  <2>1. down # <<>> /\ HandlePacket(frames) /\ UNCHANGED <<lastId, published, received>>
    BY <1>2 DEF GetOther, Arriving, brokerVars
  <2>2. Sound(frames', up', down', link', lastId, published, received)
    BY <1>1, <2>1, HandleSound DEF Now
  <2> QED
    BY <2>1, <2>2 DEF Now
<1>3. CASE ReadPacket
  <2> DEFINE calls == [frames EXCEPT ![1].left = @ - 1]
             c == [Top EXCEPT !.left = @ - 1]
  <2>1. /\ frames # <<>> /\ Top.op = "loop" /\ Top.left > 0
        /\ down # <<>> /\ HandlePacket(calls) /\ UNCHANGED <<lastId, published, received>>
    BY <1>3 DEF ReadPacket, brokerVars
  <2>2. frames = <<Top>> \o Below /\ Top \in Made /\ Below \in Seq(Made)
    BY <2>1, FramesAre
  <2>3. c \in Made /\ c.op = "loop"
    BY <2>1, <2>2, OneLeft
  <2>4. calls = <<c>> \o Below
    <3>1. /\ Len(Below) = Len(frames) - 1 /\ Len(frames) \in Nat /\ Len(frames) >= 1
          /\ \A i \in 1..(Len(frames) - 1) : Below[i] = frames[i + 1]
      BY <2>1, TopBelow
    <3>2. frames \in [1..Len(frames) -> Made]
      BY <1>1
    <3>3. calls = [frames EXCEPT ![1] = c]
      BY <3>1, <3>2 DEF Top
    <3> HIDE DEF c, calls
    <3>4. calls \in [1..Len(frames) -> Made] /\ calls[1] = c
          /\ \A i \in 1..Len(frames) : i # 1 => calls[i] = frames[i]
      BY <2>3, <3>1, <3>2, <3>3
    <3>5. calls \in Seq(Made) /\ Len(calls) = Len(frames)
      BY <3>1, <3>4
    <3> DEFINE t == <<c>> \o Below
    <3>6. /\ t \in Seq(Made) /\ Len(t) = Len(Below) + 1 /\ t[1] = c
          /\ \A i \in 1..Len(Below) : t[i + 1] = Below[i]
      BY <2>2, <2>3, Pushed
    <3> HIDE DEF t
    <3>7. ASSUME NEW i \in 1..Len(frames) PROVE t[i] = calls[i]
      <4>1. CASE i = 1
        BY <3>4, <3>6, <4>1
      <4>2. CASE i # 1
        <5>1. i - 1 \in 1..(Len(frames) - 1) /\ i - 1 \in 1..Len(Below) /\ (i - 1) + 1 = i
          BY <3>1, <4>2
        <5>2. t[(i - 1) + 1] = Below[i - 1] /\ Below[i - 1] = frames[(i - 1) + 1]
          BY <3>1, <3>6, <5>1
        <5> QED
          BY <3>4, <4>2, <5>1, <5>2
      <4> QED
        BY <4>1, <4>2
    <3>8. Len(t) = Len(calls)
      BY <3>1, <3>5, <3>6
    <3>9. t = calls
      BY <3>5, <3>6, <3>7, <3>8, SeqEqual
    <3> QED
      BY <3>9 DEF t
  <2> HIDE DEF c, calls
  <2>5. Top \notin AskCalls \cup PubCalls /\ c \notin AskCalls /\ c.op # "publish"
    BY <2>1, <2>3 DEF AskCalls, AskOps, PubCalls
  <2>6. Sound(<<Top>> \o Below, up, down, link, lastId, published, received)
    BY <2>2 DEF Now
  <2>7. Sound(Below, up, down, link, lastId, published, received)
    BY <2>2, <2>5, <2>6, PopSound
  <2>8. Sound(<<c>> \o Below, up, down, link, lastId, published, received)
    BY <2>2, <2>3, <2>5, <2>7, PushSound
  <2>9. <<c>> \o Below \in Seq(Made)
    BY <2>2, <2>3, Pushed
  <2>10. Sound(frames', up', down', link', lastId, published, received)
    BY <2>1, <2>4, <2>8, <2>9, HandleSound
  <2> QED
    BY <2>1, <2>10 DEF Now
<1> QED
  BY <1>2, <1>3

\* The innermost call, which waits for nothing, goes.
LEMMA Popped ==
    ASSUME TypeInv, Now, frames # <<>>,
           Top.done \/ Top.op \in {"callback", "enter", "loop", "connect", "ping"}
    PROVE  /\ Below \in Seq(Made)
           /\ Sound(Below, up, down, link, lastId, published, received)
<1>1. frames = <<Top>> \o Below /\ Top \in Made /\ Below \in Seq(Made)
  BY FramesAre
<1>2. Top \notin AskCalls \cup PubCalls
  BY DEF AskCalls, AskOps, PubCalls
<1>3. Sound(<<Top>> \o Below, up, down, link, lastId, published, received)
  BY <1>1 DEF Now
<1> QED
  BY <1>1, <1>2, <1>3, PopSound

LEMMA SoundReturns ==
    ASSUME TypeInv, Now, LoopReturns \/ CallReturns \/ CallbackReturns \/ PublishReturns
    PROVE  Now'
<1>1. /\ frames # <<>> /\ frames' = Below
      /\ UNCHANGED <<up, down, link, lastId, published, received>>
      /\ Top.done \/ Top.op \in {"callback", "enter", "loop", "connect", "ping"}
  BY DEF LoopReturns, CallReturns, CallbackReturns, PublishReturns, netVars, brokerVars, appVars
<1> QED
  BY <1>1, Popped DEF Now

LEMMA SoundLoop ==
    ASSUME TypeInv, Now, EnterLoop \/ StartReading \/ Ping
    PROVE  Now'
<1>1. ASSUME NEW op \in {"enter", "loop", "ping"}
      PROVE  /\ Call(op, NoFilter, 0) \in Made /\ Call(op, NoFilter, 0).op = op
             /\ Call(op, NoFilter, 0) \notin AskCalls
  BY PlainCall DEF Call, AskCalls, AskOps
<1>2. CASE EnterLoop
  <2> DEFINE c == Call("enter", NoFilter, 0)
  <2>1. frames = <<>> /\ frames' = <<c>> /\ frames \in Seq(Made)
        /\ UNCHANGED <<up, down, link, lastId, published, received>>
    BY <1>2 DEF EnterLoop, netVars, brokerVars, appVars, TypeInv
  <2>2. c \in Made /\ c.op = "enter" /\ c \notin AskCalls
    BY <1>1
  <2> HIDE DEF c
  <2>3. Sound(<<c>> \o frames, up, down, link, lastId, published, received)
    BY <2>1, <2>2, PushSound DEF Now
  <2>4. frames' = <<c>> \o frames
    BY <2>1, <2>2
  <2> QED
    BY <2>1, <2>3, <2>4 DEF Now
<1>3. CASE StartReading
  <2> DEFINE c == Call("loop", NoFilter, 0)
  <2>1. /\ frames # <<>> /\ frames' = <<c>> \o Below
        /\ UNCHANGED <<up, down, link, lastId, published, received>>
        /\ Top.done \/ Top.op \in {"callback", "enter", "loop", "connect", "ping"}
    BY <1>3 DEF StartReading, netVars, brokerVars, appVars
  <2>2. c \in Made /\ c.op = "loop" /\ c \notin AskCalls
    BY <1>1
  <2> HIDE DEF c
  <2>3. Sound(<<c>> \o Below, up, down, link, lastId, published, received)
    BY <2>1, <2>2, Popped, PushSound
  <2> QED
    BY <2>1, <2>3 DEF Now
<1>4. CASE Ping
  <2> DEFINE c == Call("ping", NoFilter, 0)
             p == Request("PINGREQ", NoFilter, 0)
  <2>1. /\ frames # <<>> /\ frames' = <<c>> \o Below /\ Write(p) /\ Top.op = "enter"
        /\ UNCHANGED <<lastId, published, received>>
    BY <1>4 DEF Ping, brokerVars, appVars
  <2>2. c \in Made /\ c.op = "ping" /\ c \notin AskCalls
    BY <1>1
  <2>3. p \in Sent /\ p \notin AskPackets /\ p \notin PubPackets
    BY PlainRequest
  <2> HIDE DEF c, p
  <2>4. Below \in Seq(Made) /\ Sound(Below, up, down, link, lastId, published, received)
    BY <2>1, Popped
  <2>5. Sound(Below, up', down', link', lastId, published, received)
    BY <2>1, <2>3, <2>4, WriteSound
  <2>6. Sound(<<c>> \o Below, up', down', link', lastId, published, received)
    BY <2>2, <2>4, <2>5, PushSound
  <2> QED
    BY <2>1, <2>6 DEF Now
<1> QED
  BY <1>2, <1>3, <1>4

LEMMA SoundConnect ==
    ASSUME TypeInv, Now, Connect \/ ConnectFails \/ ConnectReturns \/ ResubReturns
    PROVE  Now'
<1>1. CASE Connect
  <2> DEFINE c == Call("connect", NoFilter, 0)
             p == Request("CONNECT", NoFilter, 0)
  <2>1. /\ frames' = <<c>> /\ up' = <<p>> /\ down' = <<>> /\ link' = "up" /\ lastId' = 0
        /\ published' = published /\ received' = received
    BY <1>1 DEF Connect, appVars
  <2>2. c \in Made /\ c.op = "connect" /\ c \notin AskCalls
    BY PlainCall DEF Call, AskCalls, AskOps
  <2>3. p \in Sent /\ p \notin AskPackets /\ p \notin PubPackets
    BY PlainRequest
  <2> HIDE DEF c, p
  <2>4. 0 \in 0..MaxId /\ published \in Nat
    BY ConstantsAssumption DEF TypeInv
  <2>5. Sound(<<>>, <<>>, <<>>, "up", 0, published, received)
    BY <2>4, NothingSound
  <2>6. Sound(<<>>, Append(<<>>, p), <<>>, "up", 0, published, received)
    BY <2>3, <2>5, SendSound
  <2>7. <<>> \in Seq(Made) /\ Append(<<>>, p) = <<p>> /\ <<c>> \o <<>> = <<c>>
    BY <2>2
  <2>8. Sound(<<>>, <<p>>, <<>>, "up", 0, published, received)
    BY <2>6, <2>7
  <2>9. Sound(<<c>> \o <<>>, <<p>>, <<>>, "up", 0, published, received)
    BY <2>2, <2>7, <2>8, PushSound
  <2> QED
    BY <2>1, <2>7, <2>9 DEF Now
<1>2. CASE ConnectFails
  <2>1. Stop /\ UNCHANGED <<frames, lastId, published, received>>
    BY <1>2 DEF ConnectFails, brokerVars, appVars
  <2> QED
    BY <2>1, EndSound DEF Stop, Now
<1>3. CASE ConnectReturns
  <2>1. /\ frames # <<>> /\ Top.done /\ UNCHANGED <<published, received>>
        /\ subscriptions \in Seq(Filters)
    BY <1>3 DEF ConnectReturns, brokerVars, TypeInv
  <2>2. Below \in Seq(Made) /\ Sound(Below, up, down, link, lastId, published, received)
    BY <2>1, Popped
  <2>3. CASE Connected
    <3>1. Renew(subscriptions, Below)
      BY <1>3, <2>3 DEF ConnectReturns
    <3> QED
      BY <2>1, <2>2, <3>1, RenewSound DEF Now
  <2>4. CASE ~Connected
    <3>1. frames' = Below /\ UNCHANGED <<up, down, link, lastId>>
      BY <1>3, <2>4 DEF ConnectReturns, netVars
    <3> QED
      BY <2>1, <2>2, <3>1 DEF Now
  <2> QED
    BY <2>3, <2>4
<1>4. CASE ResubReturns
  <2>1. /\ frames # <<>> /\ Top.done /\ UNCHANGED <<published, received>>
        /\ Renew(Top.rest, Below)
    BY <1>4 DEF ResubReturns, brokerVars
  <2>2. Below \in Seq(Made) /\ Sound(Below, up, down, link, lastId, published, received)
    BY <2>1, Popped
  <2>3. Top.rest \in Seq(Filters)
    BY <2>1, TopBelow DEF Made, Calls
  <2> QED
    BY <2>1, <2>2, <2>3, RenewSound DEF Now
<1> QED
  BY <1>1, <1>2, <1>3, <1>4

LEMMA SoundAsks ==
    ASSUME TypeInv, Now, NEW f \in Filters,
           Subscribe(f) \/ Replace(f) \/ Unsubscribe(f) \/ ReplaceReturns
    PROVE  Now'
<1>1. frames \in Seq(Made) /\ UNCHANGED <<published, received>>
  BY DEF TypeInv, Subscribe, Replace, Unsubscribe, ReplaceReturns, brokerVars
<1>2. "subscribe" \in AskOps /\ "replace" \in AskOps /\ "unsubscribe" \in AskOps
  BY DEF AskOps
<1>3. CASE Subscribe(f)
  <2>1. Ask("SUBSCRIBE", "subscribe", f, frames)
    BY <1>3 DEF Subscribe
  <2> QED
    BY <1>1, <1>2, <2>1, AskStepSound DEF Now
<1>4. CASE Replace(f)
  <2>1. Ask("UNSUBSCRIBE", "replace", f, frames)
    BY <1>4 DEF Replace
  <2> QED
    BY <1>1, <1>2, <2>1, AskStepSound DEF Now
<1>5. CASE Unsubscribe(f)
  <2>1. Ask("UNSUBSCRIBE", "unsubscribe", f, frames)
    BY <1>5 DEF Unsubscribe
  <2> QED
    BY <1>1, <1>2, <2>1, AskStepSound DEF Now
<1>6. CASE ReplaceReturns
  <2>1. frames # <<>> /\ Top.done /\ Ask("SUBSCRIBE", "subscribe", Top.arg, Below)
    BY <1>6 DEF ReplaceReturns
  <2>2. Top.arg \in Filters
    BY <1>6, TopBelow DEF ReplaceReturns, Made, CallOK
  <2>3. Below \in Seq(Made) /\ Sound(Below, up, down, link, lastId, published, received)
    BY <2>1, Popped
  <2> QED
    BY <1>1, <1>2, <2>1, <2>2, <2>3, AskStepSound DEF Now
<1> QED
  BY <1>3, <1>4, <1>5, <1>6

\* No publish() has waited for almost as long as it takes until ids are used
\* again: fewer messages were published since than there are ids, by as many as
\* there can be calls in progress.
IdsSuffice ==
    \A i \in DOMAIN frames :
        frames[i].op = "publish" /\ ~frames[i].done =>
            (published - frames[i].arg) + MaxDepth <= MaxId

LEMMA SoundPublish0 ==
    ASSUME TypeInv, Now, PublishQos0
    PROVE  Now'
<1> DEFINE p == Request("PUBLISH", published + 1, 0)
<1>1. /\ published' = published + 1 /\ lastId' = NextId /\ UNCHANGED <<frames, received>>
      /\ (Connected /\ Write(p)) \/ UNCHANGED netVars
  BY DEF PublishQos0, brokerVars
<1>2. NextId = IdAfter(lastId) /\ published + 1 \in 1..MaxPublish
  BY ConstantsAssumption DEF NextId, IdAfter, PublishQos0, TypeInv
<1>3. p \in Sent /\ p \notin AskPackets /\ p \notin PubPackets
  BY <1>2, PlainRequest
<1> HIDE DEF p
<1>4. Sound(frames, up, down, link, IdAfter(lastId), published + 1, received)
  BY CountSound DEF Now
<1>5. Sound(frames, up', down', link', IdAfter(lastId), published + 1, received)
  <2>1. CASE Write(p)
    BY <1>3, <1>4, <2>1, WriteSound
  <2>2. CASE UNCHANGED netVars
    BY <1>4, <2>2 DEF netVars
  <2> QED
    BY <1>1, <2>1, <2>2
<1> QED
  BY <1>1, <1>2, <1>5 DEF Now

\* A callback or the application between two calls of loop() publishes: the calls
\* that wait and the messages published since are fewer than the ids.
LEMMA EnoughIds ==
    ASSUME TypeInv, IdsSuffice, MayCall
    PROVE  \A c \in ToSet(frames) : c \in PubCalls =>
               (published - c.arg) + Total(frames, AskCalls) < MaxId - 1
<1> SUFFICES ASSUME NEW i \in DOMAIN frames, frames[i] \in PubCalls
             PROVE  (published - frames[i].arg) + Total(frames, AskCalls) < MaxId - 1
  BY DEF ToSet
<1>1. frames \in Seq(Made) /\ DOMAIN frames = 1..Len(frames)
  BY DEF TypeInv
<1>2. frames # <<>>
  BY <1>1
<1>3. Top.op = "callback" /\ Len(frames) < MaxDepth
  BY <1>2 DEF MayCall
<1>4. /\ frames = <<Top>> \o Below /\ Top \in Made /\ Below \in Seq(Made)
      /\ Len(Below) = Len(frames) - 1 /\ Len(frames) \in Nat
  BY <1>2, FramesAre, TopBelow
<1>5. Top \notin AskCalls
  BY <1>3 DEF AskCalls, AskOps
<1>6. Total(Below, AskCalls) \in Nat /\ Total(Below, AskCalls) <= Len(frames) - 1
  BY <1>4, TotalType
<1>7. Total(frames, AskCalls) = Total(Below, AskCalls)
  <2>1. Total(<<Top>> \o Below, AskCalls) = Total(Below, AskCalls) + 0
    BY <1>4, <1>5, TotalFront
  <2> QED
    BY <1>4, <1>6, <2>1
<1>8. (published - frames[i].arg) + MaxDepth <= MaxId
  BY DEF IdsSuffice, PubCalls
<1>9. /\ frames[i].arg \in Nat /\ published \in Nat /\ MaxDepth \in Nat /\ MaxId \in Nat
  BY PubArgs, ConstantsAssumption DEF TypeInv
<1>10. Total(frames, AskCalls) \in Nat /\ Total(frames, AskCalls) <= MaxDepth - 2
  <2>1. Len(frames) - 1 <= MaxDepth - 2
    BY <1>3, <1>4, <1>9
  <2> QED
    BY <1>4, <1>6, <1>7, <1>9, <2>1
<1> QED
  BY <1>8, <1>9, <1>10

LEMMA SoundPublish1 ==
    ASSUME TypeInv, Now, IdsSuffice, PublishQos1
    PROVE  Now'
<1> DEFINE p == Request("PUBLISH", published + 1, NextId)
           c == Call("publish", published + 1, NextId)
<1>1. /\ published' = published + 1 /\ lastId' = NextId /\ received' = received
      /\ Write(p) /\ frames' = <<c>> \o frames
  BY DEF PublishQos1, Ask, brokerVars
<1>2. /\ NextId = IdAfter(lastId) /\ NextId \in 0..MaxId /\ NextId # 0
      /\ published + 1 \in 1..MaxPublish /\ published \in Nat
  BY NoneEmpty, ConstantsAssumption DEF NextId, IdAfter, PublishQos1, TypeInv
<1>3. /\ p \in Sent /\ p.type = "PUBLISH" /\ p.id = NextId /\ p.arg = published + 1
  BY <1>2, NewRequest
<1>4. c \in PubCalls /\ c.id = NextId /\ c.arg = published + 1
  <2>1. "publish" \in DOMAIN Reply \cup {"enter", "loop", "callback"}
        /\ published + 1 \in Filters \cup {NoFilter} \cup 1..MaxPublish
    BY <1>2, Blocks
  <2>2. /\ c \in Calls /\ c.op = "publish" /\ c.arg = published + 1 /\ c.id = NextId
        /\ ~c.done
    BY <1>2, <2>1, NoneEmpty DEF Call, Calls
  <2> HIDE DEF c
  <2>3. CallOK(c)
    BY <1>2, <2>2 DEF CallOK
  <2> QED
    BY <2>2, <2>3 DEF Made, PubCalls
<1> HIDE DEF p, c
<1>5. Types(frames, up, down, lastId, published) /\ AllRecent(frames, up, down, lastId, published)
  BY DEF Now, Sound
<1>6. Fresh(up, down, IdAfter(lastId))
  <2>1. MayCall
    BY DEF PublishQos1
  <2>2. \A e \in ToSet(frames) : e \in PubCalls =>
            (published - e.arg) + Total(frames, AskCalls) < MaxId - 1
    BY <2>1, EnoughIds
  <2> QED
    BY <1>5, <2>2, NextIsFresh
<1>7. /\ c.id = IdAfter(lastId) /\ c.arg = published + 1
      /\ p.id = c.id /\ p.arg = c.arg
  BY <1>2, <1>3, <1>4
<1>8. Sound(frames, up, down, link, lastId, published, received)
  BY DEF Now
<1>9. Sound(<<c>> \o frames, up', down', link', IdAfter(lastId), published + 1, received)
  <2>1. CASE link = "up" /\ up' = Append(up, p) /\ UNCHANGED <<link, down>>
    <3>1. Sound(<<c>> \o frames, up', down, link, IdAfter(lastId), published + 1, received)
      BY <1>3, <1>4, <1>6, <1>7, <1>8, <2>1, PublishSound
    <3> QED
      BY <2>1, <3>1
  <2>2. CASE link # "up" /\ UNCHANGED netVars
    <3>1. Sound(<<c>> \o frames, up, down, link, IdAfter(lastId), published + 1, received)
      BY <1>3, <1>4, <1>6, <1>7, <1>8, <2>2, PublishSound
    <3> QED
      BY <2>2, <3>1 DEF netVars
  <2>3. CASE Stop
    <3>1. Sound(frames, <<>>, <<>>, "down", lastId, published, received)
      BY <1>8, EndSound
    <3>2. Fresh(<<>>, <<>>, IdAfter(lastId))
      <4>1. Len(<<>>) = 0 /\ \A i : ~(i \in 1..0)
        OBVIOUS
      <4> QED
        BY <4>1 DEF Fresh
    <3>3. Sound(<<c>> \o frames, <<>>, <<>>, "down", IdAfter(lastId), published + 1, received)
      BY <1>3, <1>4, <1>7, <3>1, <3>2, PublishSound
    <3> QED
      BY <2>3, <3>3 DEF Stop
  <2> QED
    BY <1>1, <2>1, <2>2, <2>3 DEF Write
<1> QED
  BY <1>1, <1>2, <1>9 DEF Now

LEMMA SoundBroker ==
    ASSUME TypeInv, Now, BrokerReceives
    PROVE  Now' /\ received \subseteq received'
<1>1. /\ up # <<>> /\ link = "up" /\ link' = "up" /\ up' = Tail(up)
      /\ UNCHANGED <<frames, lastId, published>>
  BY DEF BrokerReceives, appVars
<1>2. up[1] \in Sent /\ up[1] \in Packets
  BY <1>1, TailType DEF TypeInv, Sent
<1>3. Sound(frames, up, down, "up", lastId, published, received)
  BY <1>1 DEF Now
<1>4. /\ up[1] \in AskPackets <=> up[1].type \in {"SUBSCRIBE", "UNSUBSCRIBE"}
      /\ up[1] \in PubPackets <=> up[1].type = "PUBLISH" /\ up[1].id # 0
  BY <1>2 DEF AskPackets, PubPackets, Sent, SentOK
<1>5. ASSUME NEW type \in Replies, NEW ok \in BOOLEAN, Respond(type, ok),
             type \in {"SUBACK", "UNSUBACK"} <=> up[1] \in AskPackets,
             type = "PUBACK" <=> up[1] \in PubPackets,
             received \subseteq received', up[1] \in PubPackets => up[1].arg \in received'
      PROVE  Now'
  <2>1. PICK q \in Answers : q.type = type /\ q.id = up[1].id /\ down' = Append(down, q)
    BY <1>1, <1>5, Response
  <2>2. q \in AskPackets <=> type \in {"SUBACK", "UNSUBACK"}
    BY <2>1 DEF AskPackets, Answers, Replies
  <2>3. q \in PubPackets <=> type = "PUBACK"
    BY <1>5, <2>1 DEF PubPackets, Answers, Replies
  <2>4. /\ q \in AskPackets <=> up[1] \in AskPackets
        /\ q \in PubPackets <=> up[1] \in PubPackets
    BY <1>5, <2>2, <2>3
  <2>5. Sound(frames, Tail(up), Append(down, q), "up", lastId, published, received')
    BY <1>1, <1>3, <1>5, <2>1, <2>4, AnswerSound
  <2> QED
    BY <1>1, <2>1, <2>5 DEF Now
<1>6. /\ "CONNACK" \in Replies /\ "SUBACK" \in Replies /\ "UNSUBACK" \in Replies
      /\ "PUBACK" \in Replies /\ "PINGRESP" \in Replies
  BY DEF Replies
<1>7. CASE up[1].type = "CONNECT"
  <2>1. Respond("CONNACK", TRUE) /\ received' = received
    BY <1>7 DEF BrokerReceives
  <2> QED
    BY <1>4, <1>5, <1>6, <1>7, <2>1
<1>8. CASE up[1].type = "SUBSCRIBE"
  <2>1. Respond("SUBACK", up[1].arg \notin Refused) /\ received' = received
    BY <1>8 DEF BrokerReceives
  <2> QED
    BY <1>4, <1>5, <1>6, <1>8, <2>1
<1>9. CASE up[1].type = "UNSUBSCRIBE"
  <2>1. Respond("UNSUBACK", TRUE) /\ received' = received
    BY <1>9 DEF BrokerReceives
  <2> QED
    BY <1>4, <1>5, <1>6, <1>9, <2>1
<1>10. CASE up[1].type = "PUBLISH" /\ up[1].id # 0
  <2>1. Respond("PUBACK", TRUE) /\ received' = received \cup {up[1].arg}
    BY <1>10 DEF BrokerReceives
  <2>2. received \subseteq received' /\ up[1].arg \in received'
    BY <2>1
  <2> QED
    BY <1>4, <1>5, <1>6, <1>10, <2>1, <2>2
<1>11. CASE up[1].type = "PUBLISH" /\ up[1].id = 0
  <2>1. down' = down /\ received \subseteq received'
    BY <1>11 DEF BrokerReceives
  <2>2. up[1] \notin AskPackets /\ up[1] \notin PubPackets
    BY <1>4, <1>11
  <2>3. Sound(frames, Tail(up), down, "up", lastId, published, received')
    BY <1>1, <1>3, <2>1, <2>2, DropSound
  <2> QED
    BY <1>1, <2>1, <2>3 DEF Now
<1>12. CASE up[1].type = "PINGREQ"
  <2>1. Respond("PINGRESP", TRUE) /\ received' = received
    BY <1>12 DEF BrokerReceives, brokerVars
  <2> QED
    BY <1>4, <1>5, <1>6, <1>12, <2>1
<1> QED
  BY <1>2, <1>7, <1>8, <1>9, <1>10, <1>11, <1>12 DEF Sent, SentOK

LEMMA SoundNetwork ==
    ASSUME TypeInv, Now, BrokerPublishes \/ BrokerRefuses \/ LinkLost \/ Disconnect
    PROVE  Now'
<1>1. UNCHANGED <<frames, lastId, published, received>>
  BY DEF BrokerPublishes, BrokerRefuses, LinkLost, Disconnect, brokerVars, appVars
<1>2. CASE BrokerPublishes
  <2>1. /\ link = "up" /\ link' = "up" /\ up' = up
        /\ \E f \in brokerSubs :
               down' = Append(down, [type |-> "PUBLISH", arg |-> f, id |-> 0, ok |-> TRUE])
    BY <1>2 DEF BrokerPublishes
  <2>2. PICK f \in brokerSubs :
            down' = Append(down, [type |-> "PUBLISH", arg |-> f, id |-> 0, ok |-> TRUE])
    BY <2>1
  <2> DEFINE q == [type |-> "PUBLISH", arg |-> f, id |-> 0, ok |-> TRUE]
  <2>3. q \in Answers
    BY NoneEmpty DEF TypeInv, Answers, Packets
  <2>4. q \notin AskPackets /\ q \notin PubPackets
    BY DEF AskPackets, PubPackets
  <2>5. down' = Append(down, q)
    BY <2>2
  <2> HIDE DEF q
  <2>6. Sound(frames, up, down, "up", lastId, published, received)
    BY <2>1 DEF Now
  <2>7. Sound(frames, up, Append(down, q), "up", lastId, published, received)
    BY <2>3, <2>4, <2>6, ArriveSound
  <2> QED
    BY <1>1, <2>1, <2>5, <2>7 DEF Now
<1>3. CASE BrokerRefuses
  <2>1. /\ up # <<>> /\ link = "up" /\ link' = "lost" /\ up' = <<>>
        /\ Respond("CONNACK", FALSE)
    BY <1>3 DEF BrokerRefuses
  <2>2. PICK q \in Answers : q.type = "CONNACK" /\ down' = Append(down, q)
    BY <2>1, Response DEF Replies
  <2>3. q \notin AskPackets /\ q \notin PubPackets
    BY <2>2 DEF AskPackets, PubPackets
  <2>4. Sound(frames, up, down, "up", lastId, published, received)
    BY <2>1 DEF Now
  <2>5. Sound(frames, up, Append(down, q), "up", lastId, published, received)
    BY <2>3, <2>4, ArriveSound
  <2>6. Sound(frames, <<>>, Append(down, q), "lost", lastId, published, received)
    BY <2>5, EndSound
  <2> QED
    BY <1>1, <2>1, <2>2, <2>6 DEF Now
<1>4. CASE LinkLost
  <2>1. link' = "lost" /\ up' = <<>> /\ down' \in {down, <<>>}
    BY <1>4 DEF LinkLost
  <2>2. Sound(frames, <<>>, down', "lost", lastId, published, received)
    BY <2>1, EndSound DEF Now
  <2> QED
    BY <1>1, <2>1, <2>2 DEF Now
<1>5. CASE Disconnect
  BY <1>1, <1>5, EndSound DEF Disconnect, Stop, Now
<1> QED
  BY <1>2, <1>3, <1>4, <1>5

\* publish() returns.
LEMMA Confirms ==
    ASSUME TypeInv, Now, confirmed \subseteq received, PublishReturns
    PROVE  confirmed' \subseteq received'
<1>1. /\ frames # <<>> /\ Top.op = "publish" /\ Top.done /\ received' = received
      /\ confirmed' = IF Top.ok THEN confirmed \cup {Top.arg} ELSE confirmed
  BY DEF PublishReturns, brokerVars
<1>2. frames = <<Top>> \o Below /\ Top \in Made /\ Below \in Seq(Made)
  BY <1>1, FramesAre
<1>3. Top \in ToSet(frames)
  BY <1>2, CallsFront
<1>4. Top.ok => Top.arg \in received
  BY <1>1, <1>2, <1>3 DEF Now, Sound, Known, OkCalls
<1> QED
  BY <1>1, <1>4

LEMMA ConfirmStep ==
    ASSUME TypeInv, Now, confirmed \subseteq received, IdsSuffice, [Next]_vars
    PROVE  Now' /\ confirmed' \subseteq received'
<1>1. CASE ReadStep
  <2>1. UNCHANGED <<confirmed, received>>
    BY <1>1 DEF ReadStep, GetReply, GetOther, ReadPacket, brokerVars
  <2> QED
    BY <1>1, <2>1, SoundReply, SoundRead DEF ReadStep
<1>2. CASE ReturnStep
  <2>1. CASE PublishReturns
    BY <2>1, SoundReturns, Confirms
  <2>2. CASE ReplaceReturns
    <3>1. Top.arg \in Filters /\ UNCHANGED <<confirmed, received>>
      BY <2>2, TopBelow DEF ReplaceReturns, Made, CallOK, brokerVars
    <3> QED
      BY <2>2, <3>1, SoundAsks
  <2>3. CASE ~PublishReturns /\ ~ReplaceReturns
    <3>1. UNCHANGED <<confirmed, received>>
      BY <1>2, <2>3 DEF ReturnStep, WaitLost, ConnectReturns, ResubReturns, StartReading,
                       LoopReturns, CallReturns, brokerVars, appVars
    <3> QED
      BY <1>2, <2>3, <3>1, SoundWaits, SoundConnect, SoundLoop, SoundReturns DEF ReturnStep
  <2> QED
    BY <2>1, <2>2, <2>3
<1>3. CASE LoopStep \/ Ping
  <2>1. UNCHANGED <<confirmed, received>>
    BY <1>3 DEF LoopStep, Connect, EnterLoop, Ping, brokerVars, appVars
  <2> QED
    BY <1>3, <2>1, SoundConnect, SoundLoop DEF LoopStep
<1>4. CASE AppStep
  <2>1. UNCHANGED <<confirmed, received>>
    BY <1>4 DEF AppStep, PublishQos0, PublishQos1, Disconnect, CallbackReturns,
                Subscribe, Replace, Unsubscribe, brokerVars, appVars
  <2> QED
    BY <1>4, <2>1, SoundPublish0, SoundPublish1, SoundNetwork, SoundReturns, SoundAsks
       DEF AppStep
<1>5. CASE BrokerReceives
  <2>1. confirmed' = confirmed
    BY <1>5 DEF BrokerReceives, appVars
  <2> QED
    BY <1>5, <2>1, SoundBroker
<1>6. CASE BrokerPublishes \/ FaultStep
  <2>1. UNCHANGED <<confirmed, received>>
    BY <1>6 DEF BrokerPublishes, FaultStep, Timeout, ConnectFails, BrokerRefuses, LinkLost,
                brokerVars, appVars
  <2> QED
    BY <1>6, <2>1, SoundWaits, SoundConnect, SoundNetwork DEF FaultStep
<1>7. CASE UNCHANGED vars
  BY <1>7 DEF vars, Now
<1> QED
  BY <1>1, <1>2, <1>3, <1>4, <1>5, <1>6, <1>7 DEF Next, BrokerStep

\* publish() with QoS 1 returns true only for messages the broker has, also when
\* callbacks publish and subscribe inside its wait and take each other's replies
\* (on_publish_complete and wait_for_reply in client.cpp compare message ids), as
\* long as no publish() waits until the ids come round: with 65535 ids, and calls
\* nested less deep than D, until 65535 - D more messages have been published.
THEOREM ConfirmedUnlessIdsRunOut == Spec /\ []IdsSuffice => []ConfirmedAreReceived
<1> DEFINE CInv == TypeInv /\ Now /\ confirmed \subseteq received
<1>1. Init => CInv
  <2> SUFFICES ASSUME Init PROVE CInv
    OBVIOUS
  <2>1. /\ frames = <<>> /\ up = <<>> /\ down = <<>> /\ lastId = 0 /\ published = 0
        /\ confirmed = {}
    BY DEF Init
  <2>2. lastId \in 0..MaxId /\ published \in Nat
    BY <2>1, ConstantsAssumption
  <2>3. Sound(<<>>, <<>>, <<>>, link, lastId, published, received)
    BY <2>2, NothingSound
  <2> QED
    BY <2>1, <2>3, TypeInit DEF Now
<1>2. CInv /\ IdsSuffice /\ [Next]_vars => CInv'
  BY TypeStep, ConfirmStep
<1>3. CInv => ConfirmedAreReceived
  BY DEF ConfirmedAreReceived
<1> HIDE DEF CInv
<1> QED
  BY <1>1, <1>2, <1>3, PTL DEF Spec

\* In particular a client whose ids outnumber its messages and the calls in
\* progress together is never told that a message was received that was not.
THEOREM ConfirmedAreReceivedAlways ==
    ASSUME MaxPublish + MaxDepth <= MaxId + 1
    PROVE  Spec => []ConfirmedAreReceived
<1>1. Spec => []TypeInv
  <2>1. Init => TypeInv
    BY TypeInit
  <2>2. TypeInv /\ [Next]_vars => TypeInv'
    BY TypeStep
  <2> QED
    BY <2>1, <2>2, PTL DEF Spec
<1>2. TypeInv => IdsSuffice
  <2> SUFFICES ASSUME TypeInv, NEW i \in DOMAIN frames, frames[i].op = "publish"
               PROVE  (published - frames[i].arg) + MaxDepth <= MaxId
    BY DEF IdsSuffice
  <2>1. frames \in Seq(Made)
    BY DEF TypeInv
  <2>2. frames[i] \in Made
    BY <2>1, ElementOfSeq
  <2>3. frames[i].arg \in 1..MaxPublish /\ published \in 0..MaxPublish
    BY <2>2 DEF Made, CallOK, TypeInv
  <2>4. MaxPublish \in Nat /\ MaxDepth \in Nat /\ MaxId \in Nat
        /\ MaxPublish + MaxDepth <= MaxId + 1
    BY ConstantsAssumption
  <2> QED
    BY <2>3, <2>4
<1> QED
  BY <1>1, <1>2, ConfirmedUnlessIdsRunOut, PTL
=============================================================================
