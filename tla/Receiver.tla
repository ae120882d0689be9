------------------------------- MODULE Receiver -------------------------------
(***************************************************************************)
(* One connection of a Client or a broker: packets are read (Framing), their *)
(* messages find callbacks in the list of subscriptions (Subscriptions), and  *)
(* the callbacks read, change that list and, on a Client, wait for replies,   *)
(* which reads further packets inside the first.                             *)
(***************************************************************************)
EXTENDS Framing, Subscriptions

vars == <<frameVars, subsVars>>

Init == FramingInit /\ SubsInit

\* A Client's own loop has got past Client::loop's renewal; a broker has none.
Settled == side = "server" \/ walk.state = "done"

\* Control is with application code, in a callback or between calls of loop(), or
\* in a call it has made that has nothing left to wait for.
AppCode == IF frames = <<>> THEN Settled ELSE In("callback")

AppRuns == AppCode /\ (frames = <<>> => Readable) /\ ~Replacing

\* Connection::loop has a packet to handle.
LoopReads == Settled /\ ~Replacing /\ StartLoop /\ UNCHANGED subsVars

\* on_message: fire_message_callbacks runs one callback, or on_extra_message.
Message ==
    \E t \in Topics, kind \in {"payload", "stream"} :
        /\ OnMessage(kind) /\ Fire(t)
        /\ Matching(t) = {} => kind = "stream"

Returns == ~Replacing /\ (CallbackReturns \/ PayloadFails) /\ FireReturns

\* A request of a connected Client waits for its reply; otherwise it is over at once.
Waits == side = "client" /\ Readable

Await == IF Waits THEN StartWait ELSE UNCHANGED frameVars

\* Client::subscribe and unsubscribe send a request after the list has changed and
\* wait for the answer; a broker's only change the list.
ChangeList == AppRuns /\ (IF Waits THEN Asking ELSE Change) /\ Await

\* subscribe() has its UNSUBACK, or has waited in vain, and goes on.
ReplaceGoesOn == AppCode /\ ReplaceEnds /\ Await

\* A QoS 1 publish or a ping waits as well.
Request == AppRuns /\ StartWait /\ UNCHANGED subsVars

\* Client::loop, connected anew, renews the subscriptions one by one.
RenewalBegins ==
    /\ side = "client" /\ taken = 0 /\ link = "up" /\ frames = <<>>
    /\ WalkBegins /\ UNCHANGED frameVars

RenewalAsks ==
    /\ frames = <<>> /\ WalkAsks
    /\ Await

RenewalNext == frames = <<>> /\ WalkNext /\ UNCHANGED frameVars

\* ServerLocalSubscribe::publish
PublishLocal == \E p \in Packets : StartLocal(p) /\ UNCHANGED subsVars

\* The library goes on with what it does.
Handling == (~AppCode /\ Reading /\ UNCHANGED subsVars) \/ Message \/ Returns \/ ReplaceGoesOn

Next ==
    \/ Handling \/ LoopReads \/ ChangeList \/ Request \/ PublishLocal
    \/ RenewalBegins \/ RenewalAsks \/ RenewalNext
    \/ ((CallbackReads /\ ~Replacing) \/ PeerCloses) /\ UNCHANGED subsVars

\* A read returns, at the latest when its time is up, calls go on, callbacks return.
Spec == Init /\ [][Next]_vars /\ WF_vars(Handling)

\* Types; however packets are cut and calls nested, no packet is read beyond its
\* size, and pointers that are held name nodes or what was freed.
TypeOK == FramingTypeOK /\ SubsTypeOK
=============================================================================
