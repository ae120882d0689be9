--------------------------- MODULE ServerCallbacks ---------------------------
(***************************************************************************)
(* Server with message callbacks that publish.  fire_message_callbacks runs *)
(* while the message it reports is being forwarded: its payload has been    *)
(* read and written to the Publish, what is left of it is in the Publish's  *)
(* buffer, and publish.send() comes after the callback.  A publish() in the *)
(* callback therefore runs to its end in the middle of another message.     *)
(***************************************************************************)
EXTENDS Server

\* Server::publish(t, ...) called by a callback that was given the payload.
CallbackPublish(t, n) ==
    /\ ~Idle /\ MayPublish
    /\ Msg.src \in Conns /\ ~pub.lost /\ pub.next = Msg.size + 1
    /\ LET m == Len(msgs) + 1
           flags == SetSubscribed(t)
           units == [i \in 1..(n + 1) |-> [kind |-> "unit", msg |-> m, n |-> i - 1]]
       IN  /\ subscribed' = flags
           /\ msgs' = Append(msgs, [topic |-> t, size |-> n, src |-> Local,
                     to |-> {c \in ToSet(clients) : Subscribes(c, t)}])
           /\ wire' = [c \in Conns |->
                         IF c \in ToSet(clients) /\ flags[c] /\ sock[c] = "open"
                         THEN wire[c] \o units ELSE wire[c]]
    /\ UNCHANGED <<backlog, peerVars, loopVars, subVars, pub>>

NextWithCallbacks == Next \/ \E t \in Topics, n \in Sizes : CallbackPublish(t, n)

SpecWithCallbacks == Init /\ [][NextWithCallbacks]_vars
=============================================================================
