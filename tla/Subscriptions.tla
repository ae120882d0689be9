---------------------------- MODULE Subscriptions ----------------------------
(***************************************************************************)
(* The subscription list of a client or a broker (subscriber.cpp) as what   *)
(* it is: nodes on a heap, linked newest first, whose addresses are given   *)
(* out as ids and used again by later nodes.                                *)
(*                                                                         *)
(* Two loops hold a pointer into the list while application code runs:      *)
(* fire_message_callbacks, whose callback belongs to the node found, and     *)
(* Client::loop, which renews every subscription after connecting and       *)
(* handles messages, with their callbacks, while it waits for each SUBACK.   *)
(* And subscribe() itself does: where it replaces a subscription it calls the *)
(* virtual unsubscribe(), which on a connected Client sends UNSUBSCRIBE and    *)
(* handles messages until UNSUBACK comes, before the new node is inserted.    *)
(***************************************************************************)
EXTENDS Naturals, Sequences, FiniteSets, SequencesExt

CONSTANTS
    Addrs,      \* addresses the allocator may return
    Filters,    \* valid topic filters
    Topics,     \* topics of messages
    Matches,    \* <<filter, topic>> pairs topic_matches accepts
    NoAddr,     \* nullptr
    NoFilter,   \* what is at an address that is not allocated
    MaxDepth    \* bound: callbacks that run inside each other

ASSUME SubscriptionsAssumption ==
    /\ NoAddr \notin Addrs /\ NoFilter \notin Filters
    /\ IsFiniteSet(Filters) /\ IsFiniteSet(Addrs)
    /\ Matches \subseteq Filters \X Topics
    /\ MaxDepth \in Nat

VARIABLES
    heap,       \* the filter of the node allocated at each address
    list,       \* addresses from Subscriber::subscriptions on, along next
    running,    \* callbacks in progress, the outermost first
    walk,       \* the loop in Client::loop that renews the subscriptions
    asked,      \* filters requested from the broker on this connection
    replacing,  \* calls of subscribe() that wait for UNSUBACK, the outermost first
    raced       \* filters subscribed once more while such a call was under way

subsVars == <<heap, list, running, walk, asked, replacing, raced>>

\* A pointer to a node, held across calls of application code: `freed', the node
\* was deleted meanwhile; `touched', the application subscribed or unsubscribed
\* the node's own filter meanwhile.
Pointer == [addr : Addrs \cup {NoAddr}, filter : Filters \cup {NoFilter},
            freed : BOOLEAN, touched : BOOLEAN]

PointTo(a) == [addr |-> a, filter |-> heap[a], freed |-> FALSE, touched |-> FALSE]
Null == [addr |-> NoAddr, filter |-> NoFilter, freed |-> FALSE, touched |-> FALSE]

\* Any subscriptions may have been made before.
SubsInit ==
    /\ list \in {q \in BoundedSeq(Addrs, Cardinality(Filters)) : IsInjective(q)}
    /\ \E fs \in [DOMAIN list -> Filters] :
          /\ IsInjective(fs)
          /\ heap = [a \in Addrs |-> IF \E i \in DOMAIN list : list[i] = a
                                     THEN fs[CHOOSE i \in DOMAIN list : list[i] = a]
                                     ELSE NoFilter]
    /\ running = <<>>
    /\ walk = [state |-> "none", s |-> Null]
    /\ asked = {}
    /\ replacing = <<>> /\ raced = {}

-----------------------------------------------------------------------------
(* Changing the list.                                                       *)

\* Mutant: the text given is matched against the filters as a topic would be.
At_Matching(f) == {i \in DOMAIN list : \E t \in Topics :
                      <<heap[list[i]], t>> \in Matches /\ <<f, t>> \in Matches}

\* Positions of the nodes unsubscribe(f) compares equal; it stops at the first.
At(f) == {i \in DOMAIN list : heap[list[i]] = f}

\* Positions of those that are deleted.
Dropped(f) == {i \in At(f) : \A j \in At(f) : i <= j}

\* The list without the node at a position in `dropped', of which there is at most one.
Without(dropped) == IF dropped = {} THEN list
                    ELSE RemoveAt(list, CHOOSE i \in dropped : TRUE)

\* What happens to a pointer held elsewhere when f, its own or another filter, is
\* (un)subscribed and the nodes at the positions `dropped' are deleted.
After(p, dropped, f) == [p EXCEPT !.freed = @ \/ \E i \in dropped : list[i] = p.addr,
                                  !.touched = @ \/ p.filter = f]

Delete(dropped, f) ==
    /\ running' = [i \in DOMAIN running |-> After(running[i], dropped, f)]
    /\ walk' = IF walk.state = "waiting"
               THEN [walk EXCEPT !.s = After(walk.s, dropped, f)] ELSE walk

Freed(dropped) == [a \in Addrs |-> IF \E i \in dropped : list[i] = a THEN NoFilter
                                   ELSE heap[a]]

Free(dropped) == {a \in Addrs : Freed(dropped)[a] = NoFilter}

\* A new node may get any free address, one that was just freed included.
Insert(f, dropped) ==
    \E a \in Free(dropped) :
        /\ list' = <<a>> \o Without(dropped)
        /\ heap' = [Freed(dropped) EXCEPT ![a] = f]

\* bound: memory is left for every subscribe() under way.
Room(dropped) == Len(replacing) < Cardinality(Free(dropped))

\* f is subscribed while an outer call replaces it.
Race(f) == raced' = raced \cup {g \in {f} : \E i \in DOMAIN replacing : replacing[i].filter = f}

\* Mutant: a node with the same filter stays in the list.
SubscribeFilter_KeepsOld(f) ==
    /\ Room({}) /\ Delete({}, f) /\ Insert(f, {})
    /\ asked' = asked \cup {f}
    /\ Race(f) /\ UNCHANGED replacing

\* Mutant: a subscription made in between is left to the next connection.
SubscribeFilter_NotSent(f) ==
    /\ Room(Dropped(f)) /\ Delete(Dropped(f), f) /\ Insert(f, Dropped(f))
    /\ Race(f) /\ UNCHANGED <<asked, replacing>>

\* subscribe(f, callback): the old node is deleted, a new one inserted in front.
\* A Client then sends SUBSCRIBE.
SubscribeFilter(f) ==
    /\ Room(Dropped(f)) /\ Delete(Dropped(f), f) /\ Insert(f, Dropped(f))
    /\ asked' = asked \cup {f}
    /\ Race(f) /\ UNCHANGED replacing

\* subscribe(f, callback) on a connected Client: the old node is deleted and
\* UNSUBSCRIBE sent,
ReplaceBegins(f) ==
    /\ At(f) # {}
    /\ Delete(Dropped(f), f)
    /\ list' = Without(Dropped(f)) /\ heap' = Freed(Dropped(f))
    /\ asked' = asked \ {f}
    /\ Race(f)
    /\ replacing' = Append(replacing, [filter |-> f, depth |-> Len(running)])

\* The innermost application code is inside subscribe(), between the two.
Replacing == replacing # <<>> /\ Last(replacing).depth = Len(running)

\* and when unsubscribe() returns the new node is inserted and SUBSCRIBE sent,
\* whatever callbacks have done to the list meanwhile.
ReplaceEnds ==
    /\ Replacing
    /\ Delete({}, Last(replacing).filter) /\ Insert(Last(replacing).filter, {})
    /\ asked' = asked \cup {Last(replacing).filter}
    /\ replacing' = Front(replacing)
    /\ UNCHANGED raced

\* unsubscribe(f); a Client sends UNSUBSCRIBE if there was such a subscription.
UnsubscribeFilter(f) ==
    /\ At(f) # {}
    /\ Delete(Dropped(f), f)
    /\ list' = Without(Dropped(f)) /\ heap' = Freed(Dropped(f))
    /\ asked' = asked \ {f}
    /\ UNCHANGED <<replacing, raced>>

\* unsubscribe(id) looks for the address, whichever subscription lives there now.
UnsubscribeId(id) ==
    LET dropped == {i \in DOMAIN list : list[i] = id}
    IN  /\ dropped # {}
        /\ Delete(dropped, heap[id])
        /\ list' = Without(dropped) /\ heap' = Freed(dropped)
        /\ asked' = asked \ {heap[id]}
        /\ UNCHANGED <<replacing, raced>>

-----------------------------------------------------------------------------
(* Using the list.                                                          *)

Matching(t) == {i \in DOMAIN list : <<heap[list[i]], t>> \in Matches}

\* fire_message_callbacks(topic): the callback of the first node that matches
\* begins, or on_extra_message if none does; the loop returns after it.
Fire(t) ==
    /\ Len(running) < MaxDepth
    /\ \/ Matching(t) = {} /\ running' = Append(running, Null)
       \/ \E i \in Matching(t) : /\ \A j \in Matching(t) : i <= j
                                /\ running' = Append(running, PointTo(list[i]))
    /\ UNCHANGED <<heap, list, walk, asked, replacing, raced>>

FireReturns ==
    /\ running # <<>>
    /\ running' = Front(running)
    /\ UNCHANGED <<heap, list, walk, asked, replacing, raced>>

\* Client::loop has connected: for (s = subscriptions; s; ...)
WalkBegins ==
    /\ walk.state = "none" /\ running = <<>>
    /\ walk' = IF list = <<>> THEN [state |-> "done", s |-> Null]
                              ELSE [state |-> "at", s |-> PointTo(list[1])]
    /\ asked' = {}
    /\ UNCHANGED <<heap, list, running, replacing, raced>>

Position(a) == CHOOSE j \in DOMAIN list : list[j] = a

\* Mutant: the loop holds the next node, not this one, while it waits.
WalkAsks_HoldsNext ==
    /\ walk.state = "at"
    /\ asked' = asked \cup {heap[walk.s.addr]}
    /\ LET i == Position(walk.s.addr)
       IN  walk' = [state |-> "waiting",
                    s |-> [PointTo(list[IF i < Len(list) THEN i + 1 ELSE i])
                              EXCEPT !.filter = walk.s.filter]]
    /\ UNCHANGED <<heap, list, running, replacing, raced>>

\* BasicClient::subscribe(s->topic) sends SUBSCRIBE and waits, s in hand.
WalkAsks ==
    /\ walk.state = "at"
    /\ asked' = asked \cup {heap[walk.s.addr]}
    /\ walk' = [walk EXCEPT !.state = "waiting"]
    /\ UNCHANGED <<heap, list, running, replacing, raced>>

\* s = s->next.  If the node was deleted meanwhile what is read is not defined;
\* the model ends the loop there.
WalkNext ==
    /\ walk.state = "waiting" /\ running = <<>>
    /\ IF walk.s.freed THEN walk' = [state |-> "corrupt", s |-> Null]
       ELSE LET i == Position(walk.s.addr)
            IN  walk' = IF i = Len(list) THEN [state |-> "done", s |-> Null]
                        ELSE [state |-> "at", s |-> PointTo(list[i + 1])]
    /\ UNCHANGED <<heap, list, running, asked, replacing, raced>>

\* What the application may call, where nothing has to be awaited.
Change == \/ \E f \in Filters : SubscribeFilter(f) \/ UnsubscribeFilter(f)
          \/ \E id \in Addrs : UnsubscribeId(id)

\* The same calls on a connected Client, up to the request they begin to wait for.
Asking == \/ \E f \in Filters : \/ At(f) = {} /\ SubscribeFilter(f)
                               \/ ReplaceBegins(f) \/ UnsubscribeFilter(f)
          \/ \E id \in Addrs : UnsubscribeId(id)

-----------------------------------------------------------------------------
(* Properties.                                                              *)

SubsTypeOK ==
    /\ heap \in [Addrs -> Filters \cup {NoFilter}]
    /\ list \in BoundedSeq(Addrs, Cardinality(Addrs))
    /\ running \in Seq(Pointer)
    /\ walk \in [state : {"none", "at", "waiting", "done", "corrupt"}, s : Pointer]
    /\ asked \in SUBSET Filters
    /\ replacing \in Seq([filter : Filters, depth : 0..MaxDepth])
    /\ raced \in SUBSET Filters

Listed == {heap[list[i]] : i \in DOMAIN list}

\* However subscribing, replacing and unsubscribing alternate, the list links
\* exactly the nodes that are allocated, once each: nothing leaks.  No filter is
\* in it twice, so that no callback that was replaced stays behind the new one,
\* unless application code subscribed a filter while it was being replaced.
ListIsSound ==
    /\ \A i, j \in DOMAIN list : i # j =>
          list[i] # list[j] /\ (heap[list[i]] # heap[list[j]] \/ heap[list[i]] \in raced)
    /\ \A a \in Addrs : heap[a] # NoFilter <=> \E i \in DOMAIN list : list[i] = a

\* What is held while application code runs, the std::function that is running
\* (fire_message_callbacks) and the node from which Client::loop, waiting for a SUBACK,
\* reads the next, is deleted only by code that subscribes or unsubscribes its very
\* filter meanwhile.  Whatever else is changed, at whatever depth, is harmless.
HeldIsSafe ==
    /\ \A i \in DOMAIN running : running[i].freed => running[i].touched
    /\ walk.state \in {"at", "waiting"} /\ walk.s.freed => walk.s.touched

\* When the loop is through, every subscription of the list has been requested
\* on this connection, those that callbacks added on the way included.  (Of a
\* filter that is listed twice, unsubscribing one ends both at the broker.)
RenewalIsComplete == walk.state = "done" => Listed \subseteq asked \cup raced
=============================================================================
