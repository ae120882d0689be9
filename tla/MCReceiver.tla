------------------------------ MODULE MCReceiver ------------------------------
(***************************************************************************)
(* The instance of Receiver for TLC.                                       *)
(***************************************************************************)
EXTENDS Receiver

CONSTANTS f1, f2, t1

Reply == [type |-> "REPLY", topic |-> 0, id |-> FALSE, payload |-> 0]
Publication == [type |-> "PUBLISH", topic |-> 1, id |-> TRUE, payload |-> 1]

Subscription == [type |-> "SUBSCRIBE", topic |-> 1, id |-> TRUE, payload |-> 8]
Cancellation == [type |-> "UNSUBSCRIBE", topic |-> 1, id |-> TRUE, payload |-> 3]

\* A message with QoS 1, a reply, and requests for two topics and for one.
MCPackets == {Publication, Reply, Subscription, Cancellation}

MCMatches == {<<f1, t1>>, <<f2, t1>>}
=============================================================================
