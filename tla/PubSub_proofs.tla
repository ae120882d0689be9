---------------------------- MODULE PubSub_proofs ----------------------------
(***************************************************************************)
(* What follows from PubSub alone, and so holds of anything that            *)
(* implements it: subscribers that stay get every message whole, and        *)
(* nobody else gets any.                                                    *)
(***************************************************************************)
EXTENDS PubSub, SequenceTheorems, TLAPS

Message == [topic : Topics, to : SUBSET Conns]

TypeInv ==
    /\ life \in [Conns -> {"new", "open", "gone"}]
    /\ filters \in [Conns -> SUBSET Filters]
    /\ sent \in Seq(Message)
    /\ busy \in BOOLEAN
    /\ busy => Len(sent) > 0
    /\ got \in [Conns -> SUBSET Nat]

\* Whoever subscribes, and whoever a message is for, has come.
CameInv ==
    /\ \A c \in Conns : filters[c] # {} => life[c] # "new"
    /\ \A m \in DOMAIN sent : \A c \in sent[m].to : life[c] # "new"

PromiseInv == TypeInv /\ CameInv /\ Delivered /\ OnlySubscribers

LEMMA InitPromise == Init => PromiseInv
<1> SUFFICES ASSUME Init PROVE PromiseInv
  OBVIOUS
<1>1. sent = <<>> /\ <<>> \in Seq(Message) /\ DOMAIN sent = {}
  BY DEF Init
<1>2. TypeInv
  BY <1>1 DEF Init, TypeInv
<1> QED
  BY <1>1, <1>2 DEF Init, PromiseInv, CameInv, Delivered, OnlySubscribers

LEMMA MessageTo ==
    ASSUME NEW ms \in Seq(Message), NEW m \in DOMAIN ms
    PROVE  ms[m].to \in SUBSET Conns /\ m \in Nat
<1>1. ms[m] \in Message /\ m \in Nat
  OBVIOUS
<1> QED
  BY <1>1 DEF Message

\* Nobody comes to be open who was there, or was meant, before without being open.
LEMMA PeersKeep ==
    ASSUME TypeInv, PeersChange, NEW c \in Conns
    PROVE  /\ life'[c] \in {"new", "open", "gone"}
           /\ life[c] # "new" => life'[c] # "new" /\ (life'[c] = "open" => life[c] = "open")
BY DEF TypeInv, PeersChange

LEMMA PeersPromise ==
    ASSUME PromiseInv, PeersChange, UNCHANGED <<sent, busy, got>>
    PROVE  /\ \A m \in DOMAIN sent : \A c \in sent[m].to : life'[c] # "new"
           /\ Delivered' /\ OnlySubscribers'
<1>1. ASSUME NEW m \in DOMAIN sent, NEW c \in sent[m].to
      PROVE  life'[c] # "new" /\ (life'[c] = "open" => life[c] = "open")
  <2>1. c \in Conns
    BY MessageTo DEF PromiseInv, TypeInv
  <2> QED
    BY <2>1, PeersKeep DEF PromiseInv, CameInv
<1> QED
  BY <1>1 DEF PromiseInv, Delivered, OnlySubscribers

LEMMA PublishPromise ==
    ASSUME PromiseInv, NEW t \in Topics, Publish(t)
    PROVE  PromiseInv'
<1> DEFINE e == [topic |-> t, to |-> Subscribers(t)]
<1>1. e \in Message /\ e.to = Subscribers(t) /\ Subscribers(t) \subseteq Conns
  BY DEF Message, Subscribers
<1>2. sent' = Append(sent, e) /\ ~busy /\ busy' = TRUE /\ UNCHANGED <<life, filters, got>>
  BY DEF Publish
<1> HIDE DEF e
<1>3. /\ sent' \in Seq(Message) /\ Len(sent') = Len(sent) + 1 /\ Len(sent) \in Nat
      /\ DOMAIN sent = 1..Len(sent) /\ DOMAIN sent' = 1..(Len(sent) + 1)
      /\ sent'[Len(sent) + 1] = e /\ \A m \in 1..Len(sent) : sent'[m] = sent[m]
  BY <1>1, <1>2 DEF PromiseInv, TypeInv
<1>4. TypeInv'
  BY <1>2, <1>3 DEF PromiseInv, TypeInv
<1>5. \A c \in Subscribers(t) : life[c] # "new"
  BY DEF PromiseInv, CameInv, Subscribers
<1>6. \A m \in DOMAIN sent' : m \in DOMAIN sent \/ m = Len(sent')
  BY <1>3
<1>7. CameInv'
  BY <1>1, <1>2, <1>3, <1>5, <1>6 DEF PromiseInv, CameInv
<1>8. Delivered'
  BY <1>2, <1>3, <1>6 DEF PromiseInv, Delivered
<1>9. OnlySubscribers'
  BY <1>2, <1>3 DEF PromiseInv, OnlySubscribers
<1> QED
  BY <1>4, <1>7, <1>8, <1>9 DEF PromiseInv

LEMMA DeliverPromise ==
    ASSUME PromiseInv, Deliver, UNCHANGED <<life, filters, sent>>,
           \/ UNCHANGED busy
           \/ /\ busy' = FALSE
              /\ \A c \in Current.to : life[c] = "open" => Len(sent) \in got'[c]
    PROVE  PromiseInv'
<1>1. PICK cs \in SUBSET {c \in Current.to : life[c] = "open"} :
          got' = [c \in Conns |-> IF c \in cs THEN got[c] \cup {Len(sent)} ELSE got[c]]
  BY DEF Deliver
<1>2. busy /\ Len(sent) \in DOMAIN sent /\ Len(sent) \in Nat
  BY DEF Deliver, PromiseInv, TypeInv
<1>3. Current = sent[Len(sent)] /\ Current.to \subseteq Conns
  BY <1>2, MessageTo DEF PromiseInv, TypeInv, Current
<1>4. TypeInv'
  BY <1>1, <1>2 DEF PromiseInv, TypeInv
<1>5. \A c \in Conns : got[c] \subseteq got'[c] /\ got'[c] \subseteq got[c] \cup {Len(sent)}
                       /\ (Len(sent) \in got'[c] => Len(sent) \in got[c] \/ c \in Current.to)
  BY <1>1 DEF PromiseInv, TypeInv
<1>6. OnlySubscribers'
  BY <1>2, <1>3, <1>5 DEF PromiseInv, OnlySubscribers
<1>7. Delivered'
  <2>1. ASSUME NEW m \in DOMAIN sent, ~(busy' /\ m = Len(sent)),
               NEW c \in sent[m].to, life[c] = "open"
        PROVE  m \in got'[c]
    <3>1. c \in Conns
      BY <2>1, MessageTo DEF PromiseInv, TypeInv
    <3>2. CASE m = Len(sent)
      BY <1>2, <1>3, <2>1, <3>2
    <3>3. CASE m # Len(sent)
      BY <1>5, <2>1, <3>1, <3>3 DEF PromiseInv, Delivered
    <3> QED
      BY <3>2, <3>3
  <2> QED
    BY <2>1 DEF Delivered
<1> QED
  BY <1>4, <1>6, <1>7 DEF PromiseInv, CameInv

LEMMA NextPromise == PromiseInv /\ [Next]_vars => PromiseInv'
<1> SUFFICES ASSUME PromiseInv, [Next]_vars PROVE PromiseInv'
  OBVIOUS
<1>1. CASE UNCHANGED vars
  BY <1>1 DEF vars, PromiseInv, TypeInv, CameInv, Delivered, OnlySubscribers
<1>2. CASE Come \/ Resubscribe
  <2>1. PeersChange /\ UNCHANGED <<sent, busy, got>>
    BY <1>2 DEF Come, Resubscribe
  <2>2. UNCHANGED filters \/ \E c \in Conns, fs \in SUBSET Filters :
            life[c] # "new" /\ filters' = [filters EXCEPT ![c] = fs]
    BY <1>2 DEF Come, Resubscribe
  <2>3. TypeInv'
    BY <2>1, <2>2 DEF PromiseInv, TypeInv, PeersChange
  <2>4. \A c \in Conns : filters'[c] # {} => life[c] # "new"
    BY <2>2 DEF PromiseInv, CameInv, TypeInv
  <2>5. \A c \in Conns : filters'[c] # {} => life'[c] # "new"
    BY <2>1, <2>4, PeersKeep DEF PromiseInv
  <2> QED
    BY <2>1, <2>3, <2>5, PeersPromise DEF PromiseInv, CameInv
<1>3. CASE \E t \in Topics : Publish(t)
  BY <1>3, PublishPromise
<1>4. CASE Hand \/ Finish
  BY <1>4, DeliverPromise DEF Hand, Finish
<1> QED
  BY <1>1, <1>2, <1>3, <1>4 DEF Next

\* What a broker promises its subscribers: every message but the one under way is
\* with all that it was for and that stayed, and with nobody it was not for.
THEOREM PromiseKept == Spec => [](Delivered /\ OnlySubscribers)
<1>1. PromiseInv => Delivered /\ OnlySubscribers
  BY DEF PromiseInv
<1> QED
  BY <1>1, InitPromise, NextPromise, PTL DEF Spec
=============================================================================
