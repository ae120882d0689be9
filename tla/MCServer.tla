------------------------------ MODULE MCServer ------------------------------
(***************************************************************************)
(* Instances of Server for TLC.  Connections and topics are model values;  *)
(* each configuration picks the packets its question needs.                *)
(***************************************************************************)
EXTENDS Server, TLC

CONSTANTS c1, c2, app, t1, t2, f1, f2, f3

Connect(accepted) == [type |-> "CONNECT", accepted |-> accepted]
Publication(t, n, ack, fits) ==
    [type |-> "PUBLISH", topic |-> t, size |-> n, ack |-> ack, fits |-> fits]
Subscription(fs, ok, bad, cut) ==
    [type |-> "SUBSCRIBE", filters |-> fs, ok |-> ok, bad |-> bad, cut |-> cut]
Cancellation(fs, ok, cut) ==
    [type |-> "UNSUBSCRIBE", filters |-> fs, ok |-> ok, cut |-> cut]
Plain(type) == [type |-> type]

Peers == {c1, c2}

\* f1 is a plain filter, f2 a wildcard, f3 is longer than the limit.
MatchesDef == {<<f1, t1>>, <<f2, t1>>, <<f2, t2>>}

\* Forwarding: every connection may publish and subscribe, with a filter that is
\* refused, whose QoS nobody looks at, and one that may be beyond the limit of a
\* packet.
ForwardPackets ==
    {Connect(TRUE), Subscription(<<f1, f3, f2>>, TRUE, {2}, "no"),
     Publication(t1, 2, TRUE, TRUE), Publication(t2, 0, FALSE, TRUE),
     Publication(t1, 2, TRUE, FALSE)}

\* Turns: peers that may flood the broker, with packets that keep the connection,
\* packets that end it and packets that are cut off.
TurnPackets ==
    {Connect(TRUE), Connect(FALSE), Plain("OTHER"), Plain("PINGREQ"),
     Subscription(<<f1, f2>>, TRUE, {2}, "no"), Subscription(<<f1>>, TRUE, {}, "length"),
     Cancellation(<<f1>>, TRUE, "no"), Cancellation(<<f1>>, TRUE, "text"),
     Cancellation(<<>>, TRUE, "length"), Publication(t1, 1, FALSE, TRUE)}

\* Two peers that only subscribe, and one of the packets is cut off.
CutPackets == {Connect(TRUE), Subscription(<<f1>>, TRUE, {}, "length")}

AnySymmetry == Permutations(Conns)
=============================================================================
