------------------------------- MODULE PubSub -------------------------------
(***************************************************************************)
(* What a broker promises, without buffers, flags, turns or packets: a      *)
(* message is for the connections that are subscribed to its topic when it  *)
(* is published, each gets it whole or is gone, and the next message is not *)
(* published before everyone has it.  Server implements this.               *)
(***************************************************************************)
EXTENDS Naturals, Sequences

CONSTANTS
    Conns,      \* connections
    Topics,     \* topics published to
    Filters,    \* topic filters
    Matches     \* <<filter, topic>> pairs that match

VARIABLES
    life,       \* "new", "open" or "gone", for each connection
    filters,    \* filters each connection is subscribed to
    sent,       \* messages published so far, with the connections they are for
    busy,       \* the last of them is being delivered
    got         \* messages each connection has received whole

vars == <<life, filters, sent, busy, got>>

Init ==
    /\ life = [c \in Conns |-> "new"]
    /\ filters = [c \in Conns |-> {}]
    /\ sent = <<>>
    /\ busy = FALSE
    /\ got = [c \in Conns |-> {}]

\* A connection opens once and is gone for good.
PeersChange ==
    /\ life' \in [Conns -> {"new", "open", "gone"}]
    /\ \A c \in Conns : \/ life'[c] \in {life[c], "gone"}
                        \/ life[c] = "new" /\ life'[c] = "open"

\* Connections come and go at any time.
Come == PeersChange /\ UNCHANGED <<filters, sent, busy, got>>

\* Subscriptions of a connection that came change between messages, never during one.
Resubscribe ==
    /\ ~busy
    /\ \E c \in Conns, fs \in SUBSET Filters :
          life[c] # "new" /\ filters' = [filters EXCEPT ![c] = fs]
    /\ PeersChange
    /\ UNCHANGED <<sent, busy, got>>

Subscribers(t) == {c \in Conns : \E f \in filters[c] : <<f, t>> \in Matches}

Publish(t) ==
    /\ ~busy
    /\ sent' = Append(sent, [topic |-> t, to |-> Subscribers(t)])
    /\ busy' = TRUE
    /\ UNCHANGED <<life, filters, got>>

Current == sent[Len(sent)]

\* Some of those the message is for and who do not have it yet receive it.
Deliver ==
    /\ busy
    /\ \E cs \in SUBSET {c \in Current.to : life[c] = "open"} :
          got' = [c \in Conns |-> IF c \in cs THEN got[c] \cup {Len(sent)} ELSE got[c]]

Hand == Deliver /\ UNCHANGED <<life, filters, sent, busy>>

\* Delivery ends when everyone it is for has the message or is gone.
Finish ==
    /\ Deliver
    /\ \A c \in Current.to : life[c] = "open" => Len(sent) \in got'[c]
    /\ busy' = FALSE
    /\ UNCHANGED <<life, filters, sent>>

Next == Come \/ Resubscribe \/ (\E t \in Topics : Publish(t)) \/ Hand \/ Finish

Spec == Init /\ [][Next]_vars

-----------------------------------------------------------------------------
(* The promise, for whoever uses a broker.                                  *)

\* Every message but the one under way is with all that it was for and that stayed.
Delivered ==
    \A m \in DOMAIN sent : (busy /\ m = Len(sent)) \/
        \A c \in sent[m].to : life[c] = "open" => m \in got[c]

\* Nobody receives what was not for them.
OnlySubscribers == \A c \in Conns : \A m \in got[c] : m \in DOMAIN sent /\ c \in sent[m].to
=============================================================================
