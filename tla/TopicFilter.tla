----------------------------- MODULE TopicFilter -----------------------------
(***************************************************************************)
(* Topic filters: Subscriber::is_valid_topic_filter, topic_matches and      *)
(* get_topic_element (subscriber.cpp), which scan C strings one character   *)
(* at a time, against the level-wise definitions of MQTT 3.1.1 section 4.7. *)
(*                                                                         *)
(* Filters and topics are sequences over Chars, which has the separator,    *)
(* both wildcards and a few ordinary characters.                            *)
(***************************************************************************)
EXTENDS Naturals, Sequences, SequencesExt

CONSTANTS
    Chars,      \* characters of filters and topics
    MaxLen      \* bound: length of a filter and of a topic

ASSUME CharsAssumption == {"/", "+", "#"} \subseteq Chars /\ MaxLen \in Nat

-----------------------------------------------------------------------------
(* The code.  Pointers into a string are positions; the terminating zero    *)
(* is at Len + 1.                                                          *)

\* The inner loops for '+' and for the end of an element: from j on to the next
\* separator, or to the end.
SeparatorFrom(t, j) ==
    CHOOSE k \in j..(Len(t) + 1) : /\ k = Len(t) + 1 \/ t[k] = "/"
                                   /\ \A l \in j..(k - 1) : t[l] # "/"

\* Mutant: "home/#" does not match its parent topic "home".
TopicMatches_NoParent(p, t) ==
    LET matches[i \in 1..(Len(p) + 1)] ==
            [j \in 1..(Len(t) + 1) |->
                IF i = Len(p) + 1 THEN j = Len(t) + 1
                ELSE \/ p[i] = "#"
                     \/ p[i] = "+" /\ j <= Len(t) /\ matches[i + 1][SeparatorFrom(t, j)]
                     \/ /\ p[i] \notin {"#", "+"} /\ j <= Len(t) /\ p[i] = t[j]
                        /\ matches[i + 1][j + 1]]
    IN  matches[1][1]

\* topic_matches(p, t): what its loop returns when its pointers are at i and j.
TopicMatches(p, t) ==
    LET matches[i \in 1..(Len(p) + 1)] ==
            [j \in 1..(Len(t) + 1) |->
                IF i = Len(p) + 1 THEN j = Len(t) + 1
                ELSE \/ p[i] = "#"
                     \/ j = Len(t) + 1 /\ i + 1 = Len(p) /\ p[i] = "/" /\ p[i + 1] = "#"
                     \/ p[i] = "+" /\ j <= Len(t) /\ matches[i + 1][SeparatorFrom(t, j)]
                     \/ /\ p[i] \notin {"#", "+"} /\ j <= Len(t) /\ p[i] = t[j]
                        /\ matches[i + 1][j + 1]]
    IN  matches[1][1]

\* Mutant: '+' need not be followed by a separator.
FilterState_LaxPlus(state, ch) ==
    CASE state \in {"segment_start", "separator"} ->
            (CASE ch = "#" -> "end"
               [] ch = "/" -> "segment_start"
               [] OTHER -> "segment_cont")
      [] state = "segment_cont" ->
            (CASE ch = "/" -> "segment_start"
               [] ch \in {"+", "#"} -> "invalid"
               [] OTHER -> "segment_cont")
      [] OTHER -> "invalid"

\* One turn of the loop of is_valid_topic_filter for a character other than
\* the terminating zero; "invalid" stands for return false.
FilterState(state, ch) ==
    CASE state = "segment_start" ->
            (CASE ch = "+" -> "separator"
               [] ch = "#" -> "end"
               [] ch = "/" -> "segment_start"
               [] OTHER -> "segment_cont")
      [] state = "segment_cont" ->
            (CASE ch = "/" -> "segment_start"
               [] ch \in {"+", "#"} -> "invalid"
               [] OTHER -> "segment_cont")
      [] state = "separator" -> IF ch = "/" THEN "segment_start" ELSE "invalid"
      [] OTHER -> "invalid"

\* The loop ends at the terminating zero in any of its four states.
IsValidTopicFilter(f) ==
    LET state[i \in 0..Len(f)] == IF i = 0 THEN "segment_start"
                                  ELSE FilterState(state[i - 1], f[i])
    IN  f # <<>> /\ state[Len(f)] # "invalid"

\* Mutant: an index past the end yields the last element.
SkipElements_StopsAtLast(t, index) ==
    LET skip[j \in 1..(Len(t) + 1)] ==
            [k \in 0..index |-> IF k = 0 \/ SeparatorFrom(t, j) > Len(t) THEN j
                                ELSE skip[SeparatorFrom(t, j) + 1][k - 1]]
    IN  skip[1][index]

\* The first loop of get_topic_element: past as many separators as index says; where
\* it ends when it is at j and index has come down to k.
SkipElements(t, index) ==
    LET skip[j \in 1..(Len(t) + 1)] ==
            [k \in 0..index |-> IF k = 0 \/ j > Len(t) THEN j
                                ELSE skip[j + 1][IF t[j] = "/" THEN k - 1 ELSE k]]
    IN  skip[1][index]

GetTopicElement(t, index) ==
    LET start == SkipElements(t, index)
    IN  SubSeq(t, start, SeparatorFrom(t, start) - 1)

-----------------------------------------------------------------------------
(* The definitions of MQTT 3.1.1, on topic levels.                          *)

\* The levels of a filter or topic: a separator ends one and begins the next.
Levels(s) ==
    LET levels[i \in 0..Len(s)] ==
            IF i = 0 THEN << <<>> >>
            ELSE LET before == levels[i - 1]
                 IN  IF s[i] = "/" THEN Append(before, <<>>)
                     ELSE [before EXCEPT ![Len(before)] = Append(@, s[i])]
    IN  levels[Len(s)]

WellFormed(f) ==
    /\ f # <<>>
    /\ LET L == Levels(f)
       IN  \A k \in 1..Len(L) :
               \/ {"+", "#"} \cap ToSet(L[k]) = {}
               \/ L[k] = <<"+">>
               \/ L[k] = <<"#">> /\ k = Len(L)

LevelMatches(f, t) == f = <<"+">> \/ f = t

MQTTMatches(f, t) ==
    LET F == Levels(f)
        T == Levels(t)
        n == Len(F)
    IN  \/ n = Len(T) /\ \A k \in 1..n : LevelMatches(F[k], T[k])
        \/ /\ F[n] = <<"#">> /\ n - 1 <= Len(T)
           /\ \A k \in 1..(n - 1) : LevelMatches(F[k], T[k])

-----------------------------------------------------------------------------
(* All filters and topics up to MaxLen, character by character.            *)

VARIABLES filter, topic

vars == <<filter, topic>>

TopicChars == Chars \ {"+", "#"}

Init == filter = <<>> /\ topic = <<>>

\* The filter is complete before the topic is begun, so that each pair is
\* reached in one way.
Next ==
    \/ /\ topic = <<>> /\ Len(filter) < MaxLen
       /\ \E c \in Chars : filter' = Append(filter, c)
       /\ UNCHANGED topic
    \/ /\ Len(topic) < MaxLen
       /\ \E c \in TopicChars : topic' = Append(topic, c)
       /\ UNCHANGED filter

Spec == Init /\ [][Next]_vars

Applies == IsValidTopicFilter(filter) /\ topic # <<>>

\* The scanner accepts exactly the filters of the grammar: wildcards occupy a
\* whole level and '#' is the last one.
ValidationIsGrammar == IsValidTopicFilter(filter) <=> WellFormed(filter)

\* The topic ends with an empty level where the filter has '+'.
EndsEmpty(f, t) ==
    LET F == Levels(f)
        T == Levels(t)
    IN  T[Len(T)] = <<>> /\ Len(F) >= Len(T) /\ F[Len(T)] = <<"+">>

\* topic_matches agrees with matching level by level (MQTT 3.1.1, 4.7.1) but for one
\* case: '+' does not match an empty level at the end of the topic, "home/+" not
\* "home/".
MatchingIsLevelwise ==
    Applies => (TopicMatches(filter, topic)
                    <=> MQTTMatches(filter, topic) /\ ~EndsEmpty(filter, topic))

\* get_topic_element(topic, i) is level i, and empty past the last level.
ElementsAreLevels ==
    \A i \in 0..MaxLen :
        GetTopicElement(topic, i) =
            IF i < Len(Levels(topic)) THEN Levels(topic)[i + 1] ELSE <<>>
=============================================================================
