------------------------- MODULE TopicFilter_proofs -------------------------
(***************************************************************************)
(* Theorems about TopicFilter, for filters and topics of every length over   *)
(* any characters.                                                          *)
(*                                                                         *)
(* Each of the code's loops is a function on positions; it is shown to exist *)
(* (Recursion) and followed along the string by induction, its value at a    *)
(* position described by the levels that have been read so far (LevelsTo):   *)
(* the state of the scanner says what the last of them may become, the       *)
(* pointers of the matcher that the levels before them agree.                *)
(***************************************************************************)
EXTENDS TopicFilter, SequenceLemmas

-----------------------------------------------------------------------------
(* Levels.                                                                 *)

\* What the next character does to the levels found before it.
Grow(before, c) == IF c = "/" THEN Append(before, <<>>)
                   ELSE [before EXCEPT ![Len(before)] = Append(@, c)]

\* What Grow does to the last level and to the number of levels.
LEMMA GrowIs ==
    ASSUME NEW C, NEW L \in Seq(Seq(C)), Len(L) >= 1, NEW c \in C
    PROVE  /\ Grow(L, c) \in Seq(Seq(C)) /\ Len(Grow(L, c)) >= Len(L)
           /\ c = "/" => /\ Len(Grow(L, c)) = Len(L) + 1
                         /\ \A k \in 1..Len(L) : Grow(L, c)[k] = L[k]
                         /\ Grow(L, c)[Len(L) + 1] = <<>>
           /\ c # "/" => /\ Len(Grow(L, c)) = Len(L)
                         /\ \A k \in 1..(Len(L) - 1) : Grow(L, c)[k] = L[k]
                         /\ Grow(L, c)[Len(L)] = Append(L[Len(L)], c)
<1> DEFINE m == Len(L)
<1>1. m \in Nat /\ m \in 1..m /\ L[m] \in Seq(C)
  OBVIOUS
<1>2. CASE c = "/"
  <2>1. Grow(L, c) = Append(L, <<>>) /\ <<>> \in Seq(C)
    BY <1>2 DEF Grow
  <2>2. Append(L, <<>>) \in Seq(Seq(C)) /\ Len(Append(L, <<>>)) = m + 1
    BY <2>1
  <2>3. (\A k \in 1..m : Append(L, <<>>)[k] = L[k]) /\ Append(L, <<>>)[m + 1] = <<>>
    BY <2>1
  <2>4. Len(Append(L, <<>>)) >= m
    BY <1>1, <2>2
  <2> QED
    BY <1>2, <2>1, <2>2, <2>3, <2>4
<1>3. CASE c # "/"
  <2> DEFINE x == Append(L[m], c)
             G == [L EXCEPT ![m] = x]
  <2>1. Grow(L, c) = G
    BY <1>3 DEF Grow
  <2>2. x \in Seq(C)
    BY <1>1
  <2> HIDE DEF x
  <2>3. G \in Seq(Seq(C)) /\ Len(G) = m /\ G[m] = x
        /\ \A k \in 1..(m - 1) : G[k] = L[k]
    BY <1>1, <2>2
  <2> HIDE DEF G
  <2> QED
    BY <1>1, <1>3, <2>1, <2>3 DEF x
<1> QED
  BY <1>2, <1>3

LEMMA GrowOpens ==
    ASSUME NEW C, NEW L \in Seq(Seq(C)), Len(L) >= 1, "/" \in C
    PROVE  /\ Len(Grow(L, "/")) = Len(L) + 1 /\ Grow(L, "/")[Len(L) + 1] = <<>>
           /\ \A k \in 1..Len(L) : Grow(L, "/")[k] = L[k]
  BY GrowIs

LEMMA GrowExtends ==
    ASSUME NEW C, NEW L \in Seq(Seq(C)), Len(L) >= 1, NEW c \in C, c # "/"
    PROVE  /\ Len(Grow(L, c)) = Len(L) /\ Grow(L, c)[Len(L)] = Append(L[Len(L)], c)
           /\ \A k \in 1..(Len(L) - 1) : Grow(L, c)[k] = L[k]
<1>1. Len(Grow(L, c)) = Len(L) /\ Grow(L, c)[Len(L)] = Append(L[Len(L)], c)
  BY GrowIs
<1>2. \A k \in 1..(Len(L) - 1) : Grow(L, c)[k] = L[k]
  BY GrowIs
<1> QED
  BY <1>1, <1>2

IsSplit(s, f) ==
    f = [i \in 0..Len(s) |-> IF i = 0 THEN << <<>> >> ELSE Grow(f[i - 1], s[i])]

\* The levels of the first n characters of s.
LevelsTo(s, n) == (CHOOSE f : IsSplit(s, f))[n]

\* The recursive definition of Levels has a value.
LEMMA SplitExists ==
    ASSUME NEW C, NEW s \in Seq(C)
    PROVE  \E f : IsSplit(s, f)
<1> DEFINE n == Len(s)
           S == {L \in Seq(Seq(C)) : Len(L) >= 1}
           start == << <<>> >>
           step == [p \in (1..n) \X S |-> Grow(p[2], s[p[1]])]
<1>1. n \in Nat /\ start \in S
  OBVIOUS
<1>2. step \in [(1..n) \X S -> S]
  <2> SUFFICES ASSUME NEW p \in (1..n) \X S PROVE Grow(p[2], s[p[1]]) \in S
    OBVIOUS
  <2>1. s[p[1]] \in C /\ p[2] \in Seq(Seq(C)) /\ Len(p[2]) >= 1
    OBVIOUS
  <2>2. Grow(p[2], s[p[1]]) \in Seq(Seq(C)) /\ Len(Grow(p[2], s[p[1]])) >= Len(p[2])
    BY <2>1, GrowIs
  <2> QED
    BY <2>1, <2>2
<1>3. \A i \in 1..n : \A L \in S : step[<<i, L>>] = Grow(L, s[i])
  OBVIOUS
<1> HIDE DEF step, S, start, n
<1>4. PICK f \in [0..n -> S] : Computes(f, n, start, step)
  BY <1>1, <1>2, Recursion
<1>5. ASSUME NEW i \in 0..n
      PROVE  f[i] = IF i = 0 THEN start ELSE Grow(f[i - 1], s[i])
  <2>1. i # 0 => i \in 1..n /\ i - 1 \in 0..n
    BY <1>1
  <2> QED
    BY <1>3, <1>4, <2>1 DEF Computes
<1>6. f = [i \in 0..n |-> IF i = 0 THEN start ELSE Grow(f[i - 1], s[i])]
  <2>1. f = [i \in 0..n |-> f[i]]
    OBVIOUS
  <2> QED
    BY <1>5, <2>1
<1> QED
  BY <1>6 DEF start, n, IsSplit

\* The levels of a string, character by character.
LEMMA LevelsToIs ==
    ASSUME NEW C, NEW s \in Seq(C)
    PROVE  /\ LevelsTo(s, 0) = << <<>> >> /\ Levels(s) = LevelsTo(s, Len(s))
           /\ \A n \in 0..Len(s) : LevelsTo(s, n) \in Seq(Seq(C)) /\ Len(LevelsTo(s, n)) >= 1
           /\ \A n \in 1..Len(s) : LevelsTo(s, n) = Grow(LevelsTo(s, n - 1), s[n])
<1> DEFINE f == CHOOSE g : IsSplit(s, g)
<1>1. IsSplit(s, f)
  BY SplitExists
<1>2. Levels(s) = f[Len(s)]
  BY DEF Levels, IsSplit, Grow
<1>3. \A n : LevelsTo(s, n) = f[n]
  BY DEF LevelsTo
<1> HIDE DEF f
<1>4. f[0] = << <<>> >> /\ \A n \in 1..Len(s) : f[n] = Grow(f[n - 1], s[n])
  <2>1. \A n \in 0..Len(s) : f[n] = IF n = 0 THEN << <<>> >> ELSE Grow(f[n - 1], s[n])
    BY <1>1, Zenon DEF IsSplit
  <2>2. 0 \in 0..Len(s) /\ \A n \in 1..Len(s) : n \in 0..Len(s) /\ n # 0
    OBVIOUS
  <2> QED
    BY <2>1, <2>2, Zenon
<1> HIDE DEF f
<1> DEFINE T == {n \in Nat : n <= Len(s) => f[n] \in Seq(Seq(C)) /\ Len(f[n]) >= 1}
<1>5. 0 \in T
  <2>1. << <<>> >> \in Seq(Seq(C)) /\ Len(<< <<>> >>) = 1
    OBVIOUS
  <2>2. f[0] \in Seq(Seq(C)) /\ Len(f[0]) >= 1
    BY <1>4, <2>1
  <2> QED
    BY <2>2
<1>6. ASSUME NEW n \in Nat, n \in T PROVE n + 1 \in T
  <2> SUFFICES ASSUME n + 1 <= Len(s)
               PROVE  f[n + 1] \in Seq(Seq(C)) /\ Len(f[n + 1]) >= 1
    OBVIOUS
  <2>1. n + 1 \in 1..Len(s) /\ (n + 1) - 1 = n /\ s[n + 1] \in C
    OBVIOUS
  <2>2. f[n] \in Seq(Seq(C)) /\ Len(f[n]) >= 1
    BY <1>6
  <2>3. f[n + 1] = Grow(f[n], s[n + 1])
    BY <1>4, <2>1
  <2>4. Grow(f[n], s[n + 1]) \in Seq(Seq(C)) /\ Len(Grow(f[n], s[n + 1])) >= Len(f[n])
    BY <2>1, <2>2, GrowIs
  <2> QED
    BY <2>2, <2>3, <2>4
<1> HIDE DEF T
<1>7. Nat \subseteq T
  BY <1>5, <1>6, Induction
<1>8. \A n \in 0..Len(s) : f[n] \in Seq(Seq(C)) /\ Len(f[n]) >= 1
  BY <1>7 DEF T
<1> QED
  BY <1>2, <1>3, <1>4, <1>8

\* b goes on where a ends.
Starts(a, b) == Len(a) <= Len(b) /\ \A j \in 1..Len(a) : b[j] = a[j]

\* All levels but the last are final, and the last can only go on.
Continues(A, B) == /\ Len(A) <= Len(B)
                   /\ \A k \in 1..(Len(A) - 1) : B[k] = A[k]
                   /\ Starts(A[Len(A)], B[Len(A)])

LEMMA AppendStarts ==
    ASSUME NEW C, NEW a \in Seq(C), NEW b \in Seq(C), NEW c \in C, Starts(a, b)
    PROVE  Starts(a, Append(b, c))
<1>1. Len(Append(b, c)) = Len(b) + 1 /\ \A j \in 1..Len(b) : Append(b, c)[j] = b[j]
  OBVIOUS
<1>2. Len(a) \in Nat /\ Len(b) \in Nat /\ Len(a) <= Len(b)
  BY DEF Starts
<1>3. \A j \in 1..Len(a) : j \in 1..Len(b)
  BY <1>2
<1> QED
  BY <1>1, <1>2, <1>3 DEF Starts

\* A character more leaves all levels but the last as they are.
LEMMA GrowContinues ==
    ASSUME NEW C, NEW A \in Seq(Seq(C)), NEW B \in Seq(Seq(C)), Len(A) >= 1, NEW c \in C,
           Continues(A, B)
    PROVE  Continues(A, Grow(B, c))
<1> DEFINE G == Grow(B, c)
           m == Len(A)
           n == Len(B)
<1>1. m \in Nat /\ n \in Nat /\ 1 <= m /\ m <= n /\ Starts(A[m], B[m])
      /\ \A k \in 1..(m - 1) : B[k] = A[k]
  <2>1. m \in Nat /\ n \in Nat /\ 1 <= m
    OBVIOUS
  <2> QED
    BY <2>1 DEF Continues
<1>2. /\ G \in Seq(Seq(C)) /\ Len(G) >= n
      /\ c = "/" => /\ Len(G) = n + 1
                    /\ \A k \in 1..n : G[k] = B[k]
      /\ c # "/" => /\ Len(G) = n
                    /\ \A k \in 1..(n - 1) : G[k] = B[k]
                    /\ G[n] = Append(B[n], c)
  <2>1. Len(B) >= 1
    BY <1>1
  <2> QED
    BY <2>1, GrowIs
<1>3. A[m] \in Seq(C) /\ B[m] \in Seq(C)
  BY <1>1
<1> SUFFICES m <= Len(G) /\ (\A k \in 1..(m - 1) : G[k] = A[k]) /\ Starts(A[m], G[m])
  BY DEF Continues
<1> HIDE DEF G, m, n
<1>4. Len(G) \in Nat /\ m <= Len(G)
  BY <1>1, <1>2, SMTT(20)
<1>5. \A k \in 1..(m - 1) : G[k] = A[k]
  <2> TAKE k \in 1..(m - 1)
  <2>1. k \in 1..n /\ k \in 1..(n - 1)
    BY <1>1
  <2>2. G[k] = B[k]
    BY <1>2, <2>1
  <2> QED
    BY <1>1, <2>2
<1>6. Starts(A[m], G[m])
  <2>1. CASE c = "/" \/ m # n
    <3>1. m \in 1..n /\ (m # n => m \in 1..(n - 1))
      BY <1>1
    <3>2. G[m] = B[m]
      BY <1>2, <2>1, <3>1
    <3> QED
      BY <1>1, <3>2
  <2>2. CASE c # "/" /\ m = n
    <3>1. G[m] = Append(B[m], c)
      BY <1>2, <2>2
    <3> QED
      BY <1>1, <1>3, <3>1, AppendStarts
  <2> QED
    BY <2>1, <2>2
<1> QED
  BY <1>4, <1>5, <1>6

\* What is found in the beginning of a string is not taken back.
LEMMA LevelsContinue ==
    ASSUME NEW C, NEW s \in Seq(C), NEW i \in 0..Len(s)
    PROVE  \A n \in i..Len(s) : Continues(LevelsTo(s, i), LevelsTo(s, n))
<1> DEFINE A == LevelsTo(s, i)
           T == {n \in Nat : n \in i..Len(s) => Continues(A, LevelsTo(s, n))}
<1>1. A \in Seq(Seq(C)) /\ Len(A) >= 1
  BY LevelsToIs
<1>2. Continues(A, A)
  BY <1>1 DEF Continues, Starts
<1>3. 0 \in T
  <2> SUFFICES ASSUME 0 \in i..Len(s) PROVE Continues(A, LevelsTo(s, 0))
    OBVIOUS
  <2>1. i = 0
    OBVIOUS
  <2> QED
    BY <1>2, <2>1
<1>4. ASSUME NEW n \in Nat, n \in T PROVE n + 1 \in T
  <2> SUFFICES ASSUME n + 1 \in i..Len(s) PROVE Continues(A, LevelsTo(s, n + 1))
    OBVIOUS
  <2>1. CASE n + 1 = i
    BY <1>2, <2>1
  <2>2. CASE n + 1 # i
    <3>1. n \in i..Len(s) /\ n \in 0..Len(s) /\ n + 1 \in 1..Len(s) /\ (n + 1) - 1 = n
      BY <2>2
    <3>2. Continues(A, LevelsTo(s, n))
      BY <1>4, <3>1
    <3>3. LevelsTo(s, n) \in Seq(Seq(C)) /\ s[n + 1] \in C
      BY <3>1, LevelsToIs
    <3>4. LevelsTo(s, n + 1) = Grow(LevelsTo(s, n), s[n + 1])
      <4>1. LevelsTo(s, n + 1) = Grow(LevelsTo(s, (n + 1) - 1), s[n + 1])
        BY <3>1, LevelsToIs
      <4> QED
        BY <3>1, <4>1
    <3> HIDE DEF A
    <3> QED
      BY <1>1, <3>2, <3>3, <3>4, GrowContinues
  <2> QED
    BY <2>1, <2>2
<1> HIDE DEF T
<1>5. Nat \subseteq T
  BY <1>3, <1>4, Induction
<1>6. \A n \in i..Len(s) : n \in Nat
  OBVIOUS
<1> QED
  BY <1>5, <1>6 DEF T

\* So it is with all of the string.
LEMMA LevelsFinal ==
    ASSUME NEW C, NEW s \in Seq(C), NEW i \in 0..Len(s)
    PROVE  /\ Levels(s) \in Seq(Seq(C)) /\ Len(Levels(s)) >= 1
           /\ LevelsTo(s, i) \in Seq(Seq(C)) /\ Len(LevelsTo(s, i)) >= 1
           /\ Continues(LevelsTo(s, i), Levels(s))
<1>1. Len(s) \in i..Len(s) /\ Len(s) \in 0..Len(s)
  OBVIOUS
<1> QED
  BY <1>1, LevelsToIs, LevelsContinue

\* What the next character says about the level it meets.
LEMMA LevelGoesOn ==
    ASSUME NEW C, NEW s \in Seq(C), NEW i \in 0..(Len(s) - 1), NEW m, NEW a,
           m = Len(LevelsTo(s, i)), a = LevelsTo(s, i)[m]
    PROVE  /\ s[i + 1] = "/" => Len(Levels(s)) > m /\ Levels(s)[m] = a
           /\ s[i + 1] # "/" => /\ Len(Levels(s)[m]) > Len(a)
                                /\ Levels(s)[m][Len(a) + 1] = s[i + 1]
<1> DEFINE A == LevelsTo(s, i)
           B == LevelsTo(s, i + 1)
           L == Levels(s)
           c == s[i + 1]
<1>1. i \in 0..Len(s) /\ i + 1 \in 0..Len(s) /\ i + 1 \in 1..Len(s) /\ (i + 1) - 1 = i
  OBVIOUS
<1>2. A \in Seq(Seq(C)) /\ Len(A) >= 1 /\ L \in Seq(Seq(C)) /\ Len(L) >= 1
      /\ Continues(B, L) /\ c \in C /\ B = Grow(A, c)
  <2>1. B = Grow(LevelsTo(s, (i + 1) - 1), c)
    BY <1>1, LevelsToIs
  <2>2. c \in C
    BY <1>1
  <2> QED
    BY <1>1, <2>1, <2>2, LevelsFinal
<1>3. m = Len(A) /\ a = A[m]
  OBVIOUS
<1> HIDE DEF A, B, L, c
<1>4. m \in Nat /\ m >= 1 /\ a \in Seq(C)
  BY <1>2, <1>3
<1>5. ASSUME c = "/" PROVE Len(L) > m /\ L[m] = a
  <2>1. Len(B) = m + 1 /\ B[m] = a
    <3>1. Len(B) = Len(A) + 1 /\ \A k \in 1..Len(A) : B[k] = A[k]
      BY <1>2, <1>5, GrowIs
    <3>2. m \in 1..Len(A)
      BY <1>3, <1>4
    <3> QED
      BY <1>3, <3>1, <3>2
  <2>2. Len(B) <= Len(L) /\ L[m] = B[m] /\ Len(L) \in Nat
    <3>1. m \in 1..(Len(B) - 1)
      BY <1>4, <2>1
    <3> QED
      BY <1>2, <3>1 DEF Continues
  <2> QED
    BY <1>4, <2>1, <2>2
<1>6. ASSUME c # "/" PROVE Len(L[m]) > Len(a) /\ L[m][Len(a) + 1] = c
  <2>1. Len(B) = m /\ B[m] = Append(a, c)
    <3>1. Len(B) = Len(A) /\ B[Len(A)] = Append(A[Len(A)], c)
      BY <1>2, <1>6, GrowIs
    <3> QED
      BY <1>3, <3>1
  <2>2. Starts(Append(a, c), L[m]) /\ m <= Len(L)
    BY <1>2, <2>1 DEF Continues
  <2>3. Len(Append(a, c)) = Len(a) + 1 /\ Append(a, c)[Len(a) + 1] = c
        /\ Len(a) \in Nat
    BY <1>2, <1>4
  <2>4. L[m] \in Seq(C)
    <3>1. m \in 1..Len(L)
      BY <1>2, <1>4, <2>2
    <3> QED
      BY <1>2, <3>1
  <2>5. Len(L[m]) \in Nat
    BY <2>4
  <2>6. Len(a) + 1 \in 1..Len(Append(a, c))
    BY <2>3
  <2> QED
    BY <2>2, <2>3, <2>5, <2>6, SMTT(20) DEF Starts
<1> QED
  BY <1>5, <1>6 DEF L, c

-----------------------------------------------------------------------------
(* Validation.                                                             *)

States == {"segment_start", "segment_cont", "separator", "end", "invalid"}

IsScan(f, g) == g = [i \in 0..Len(f) |-> IF i = 0 THEN "segment_start"
                                         ELSE FilterState(g[i - 1], f[i])]

\* The state of is_valid_topic_filter after n characters.
StateAfter(f, n) == (CHOOSE g : IsScan(f, g))[n]

\* The recursive definition of the scanner's states has a value.
LEMMA ScanExists ==
    ASSUME NEW f \in Seq(Chars)
    PROVE  \E g : IsScan(f, g)
<1> DEFINE n == Len(f)
           step == [p \in (1..n) \X States |-> FilterState(p[2], f[p[1]])]
<1>1. n \in Nat /\ "segment_start" \in States
  BY DEF States
<1>2. step \in [(1..n) \X States -> States]
  BY DEF FilterState, States
<1>3. \A i \in 1..n : \A q \in States : step[<<i, q>>] = FilterState(q, f[i])
  OBVIOUS
<1> HIDE DEF step, n
<1>4. PICK g \in [0..n -> States] : Computes(g, n, "segment_start", step)
  BY <1>1, <1>2, Recursion
<1>5. ASSUME NEW i \in 0..n
      PROVE  g[i] = IF i = 0 THEN "segment_start" ELSE FilterState(g[i - 1], f[i])
  <2>1. i # 0 => i \in 1..n /\ i - 1 \in 0..n
    BY <1>1
  <2> QED
    BY <1>3, <1>4, <2>1 DEF Computes
<1>6. g = [i \in 0..n |-> IF i = 0 THEN "segment_start" ELSE FilterState(g[i - 1], f[i])]
  <2>1. g = [i \in 0..n |-> g[i]]
    OBVIOUS
  <2> QED
    BY <1>5, <2>1
<1> QED
  BY <1>6 DEF n, IsScan

\* The state of the scanner, character by character.
LEMMA StateAfterIs ==
    ASSUME NEW f \in Seq(Chars)
    PROVE  /\ StateAfter(f, 0) = "segment_start"
           /\ \A n \in 1..Len(f) : StateAfter(f, n) = FilterState(StateAfter(f, n - 1), f[n])
           /\ IsValidTopicFilter(f) <=> f # <<>> /\ StateAfter(f, Len(f)) # "invalid"
<1> DEFINE g == CHOOSE h : IsScan(f, h)
<1>1. IsScan(f, g)
  BY ScanExists
<1>2. IsValidTopicFilter(f) <=> f # <<>> /\ g[Len(f)] # "invalid"
  BY DEF IsValidTopicFilter, IsScan
<1>3. \A n : StateAfter(f, n) = g[n]
  BY DEF StateAfter
<1> HIDE DEF g
<1>4. g[0] = "segment_start" /\ \A n \in 1..Len(f) : g[n] = FilterState(g[n - 1], f[n])
  BY <1>1 DEF IsScan
<1> QED
  BY <1>2, <1>3, <1>4

HasWildcard(l) == \E j \in 1..Len(l) : l[j] \in {"+", "#"}

LEMMA WildcardInAppend ==
    ASSUME NEW C, NEW l \in Seq(C), NEW c \in C
    PROVE  /\ HasWildcard(Append(l, c)) <=> HasWildcard(l) \/ c \in {"+", "#"}
           /\ Len(Append(l, c)) = Len(l) + 1 /\ Append(l, c) # <<>>
           /\ l # <<>> => Len(Append(l, c)) >= 2
           /\ l = <<>> => Append(l, c) = <<c>>
<1>1. Len(Append(l, c)) = Len(l) + 1 /\ Append(l, c)[Len(l) + 1] = c /\ Len(l) \in Nat
      /\ \A j \in 1..Len(l) : Append(l, c)[j] = l[j]
  OBVIOUS
<1>2. \A j \in 1..(Len(l) + 1) : j = Len(l) + 1 \/ j \in 1..Len(l)
  BY <1>1
<1>3. Len(l) + 1 \in 1..(Len(l) + 1) /\ \A j \in 1..Len(l) : j \in 1..(Len(l) + 1)
  BY <1>1
<1>4. HasWildcard(Append(l, c)) <=> HasWildcard(l) \/ c \in {"+", "#"}
  <2>1. ASSUME HasWildcard(Append(l, c)), ~HasWildcard(l) PROVE c \in {"+", "#"}
    BY <1>1, <1>2, <2>1 DEF HasWildcard
  <2>2. ASSUME HasWildcard(l) \/ c \in {"+", "#"} PROVE HasWildcard(Append(l, c))
    BY <1>1, <1>3, <2>2 DEF HasWildcard
  <2> QED
    BY <2>1, <2>2
<1>5. Append(l, c) # <<>>
  BY <1>1
<1>6. l # <<>> => Len(l) >= 1
  BY <1>1
<1>7. l = <<>> => Append(l, c) = <<c>>
  OBVIOUS
<1> QED
  BY <1>1, <1>4, <1>5, <1>6, <1>7

LEMMA WildcardAlone ==
    /\ HasWildcard(<<"+">>) /\ HasWildcard(<<"#">>) /\ ~HasWildcard(<<>>)
    /\ <<"+">> # <<"#">> /\ <<"+">> # <<>> /\ <<"#">> # <<>>
<1>1. Len(<<"+">>) = 1 /\ Len(<<"#">>) = 1 /\ Len(<<>>) = 0
      /\ <<"+">>[1] = "+" /\ <<"#">>[1] = "#"
  OBVIOUS
<1>2. "+" # "#"
  OBVIOUS
<1>3. 1 \in 1..1 /\ 1..0 = {}
  OBVIOUS
<1>4. HasWildcard(<<"+">>) /\ HasWildcard(<<"#">>) /\ ~HasWildcard(<<>>)
  BY <1>1, <1>3 DEF HasWildcard
<1> QED
  BY <1>1, <1>2, <1>4

LevelIsFine(l) == ~HasWildcard(l) \/ l = <<"+">>

\* Whatever follows, this is not a beginning of a filter.
Hopeless(A) == \E k \in 1..Len(A) :
                  HasWildcard(A[k]) /\ (Len(A[k]) >= 2 \/ (k < Len(A) /\ A[k] # <<"+">>))

\* What the state of the scanner says of the levels it has seen.
Describes(q, A) ==
    /\ q # "invalid" => \A k \in 1..(Len(A) - 1) : LevelIsFine(A[k])
    /\ q = "segment_start" => A[Len(A)] = <<>>
    /\ q = "segment_cont" => A[Len(A)] # <<>> /\ ~HasWildcard(A[Len(A)])
    /\ q = "separator" => A[Len(A)] = <<"+">>
    /\ q = "end" => A[Len(A)] = <<"#">>
    /\ q = "invalid" => Hopeless(A)

\* One turn of the scanner keeps the description true.
LEMMA StepDescribes ==
    ASSUME NEW A \in Seq(Seq(Chars)), Len(A) >= 1, NEW q \in States, NEW c \in Chars,
           Describes(q, A)
    PROVE  FilterState(q, c) \in States /\ Describes(FilterState(q, c), Grow(A, c))
<1> DEFINE G == Grow(A, c)
           m == Len(A)
           l == A[m]
           r == FilterState(q, c)
           x == Append(l, c)
<1>1. m \in Nat /\ m >= 1 /\ l \in Seq(Chars)
  OBVIOUS
<1>2. /\ G \in Seq(Seq(Chars)) /\ Len(G) >= m
      /\ c = "/" => /\ Len(G) = m + 1
                    /\ \A k \in 1..m : G[k] = A[k]
                    /\ G[m + 1] = <<>>
      /\ c # "/" => /\ Len(G) = m
                    /\ \A k \in 1..(m - 1) : G[k] = A[k]
                    /\ G[m] = x
  BY GrowIs
<1>3. /\ HasWildcard(x) <=> HasWildcard(l) \/ c \in {"+", "#"}
      /\ x # <<>> /\ (l # <<>> => Len(x) >= 2) /\ (l = <<>> => x = <<c>>)
  BY <1>1, WildcardInAppend
<1>4. r \in States
  BY DEF FilterState, States
<1>5. /\ q # "invalid" => \A k \in 1..(m - 1) : LevelIsFine(A[k])
      /\ q = "segment_start" => l = <<>>
      /\ q = "segment_cont" => l # <<>> /\ ~HasWildcard(l)
      /\ q = "separator" => l = <<"+">>
      /\ q = "end" => l = <<"#">>
      /\ q = "invalid" => Hopeless(A)
  BY DEF Describes
<1> SUFFICES r \in States /\ Describes(r, G)
  OBVIOUS
<1> HIDE DEF G, m, l, r, x
<1>6. \A k \in 1..(m - 1) : k \in 1..m
  BY <1>1
<1>7. CASE q = "invalid"
  <2>1. r = "invalid"
    BY <1>7 DEF r, FilterState
  <2>2. PICK k \in 1..m : HasWildcard(A[k]) /\ (Len(A[k]) >= 2 \/ (k < m /\ A[k] # <<"+">>))
    BY <1>5, <1>7 DEF Hopeless, m
  <2>3. CASE k = m /\ c # "/"
    <3>1. HasWildcard(x) /\ Len(x) >= 2
      <4>1. HasWildcard(l) /\ l # <<>>
        BY <2>2, <2>3, WildcardAlone DEF l
      <4> QED
        BY <1>3, <4>1
    <3>2. G[m] = x /\ m \in 1..Len(G)
      BY <1>1, <1>2, <2>3
    <3>3. Hopeless(G)
      BY <3>1, <3>2 DEF Hopeless
    <3> QED
      BY <1>4, <2>1, <3>3 DEF Describes
  <2>4. CASE ~(k = m /\ c # "/")
    <3>1. G[k] = A[k] /\ k \in 1..Len(G) /\ (k < m => k < Len(G))
      <4>1. k # m => k \in 1..(m - 1)
        BY <1>1
      <4>2. G[k] = A[k]
        BY <1>2, <2>4, <4>1
      <4>3. Len(G) \in Nat /\ Len(G) >= m
        BY <1>2
      <4>4. k \in 1..Len(G) /\ (k < m => k < Len(G))
        BY <1>1, <4>3
      <4> QED
        BY <4>2, <4>4
    <3>2. Hopeless(G)
      BY <2>2, <3>1 DEF Hopeless
    <3> QED
      BY <1>4, <2>1, <3>2 DEF Describes
  <2> QED
    BY <2>3, <2>4
<1>8. CASE q # "invalid" /\ c = "/"
  <2>1. CASE q = "end"
    <3>1. r = "invalid"
      BY <1>8, <2>1 DEF r, FilterState
    <3>2. G[m] = <<"#">> /\ m \in 1..Len(G) /\ m < Len(G)
      <4>1. m \in 1..m /\ A[m] = <<"#">>
        BY <1>1, <1>5, <2>1 DEF l
      <4>2. Len(G) = m + 1 /\ G[m] = A[m]
        BY <1>2, <1>8, <4>1
      <4> QED
        BY <1>1, <4>1, <4>2
    <3>3. Hopeless(G)
      BY <3>2, WildcardAlone DEF Hopeless
    <3> QED
      BY <1>4, <3>1, <3>3 DEF Describes
  <2>2. CASE q # "end"
    <3>1. r = "segment_start"
      <4>1. q \in {"segment_start", "segment_cont", "separator"}
        BY <1>8, <2>2 DEF States
      <4>2. c = "/" /\ "/" # "+" /\ "/" # "#"
        BY <1>8
      <4> QED
        BY <4>1, <4>2 DEF r, FilterState
    <3>2. Len(G) - 1 = m /\ G[Len(G)] = <<>>
      BY <1>1, <1>2, <1>8, SMTT(20)
    <3>3. LevelIsFine(l)
      BY <1>5, <1>8, <2>2, WildcardAlone DEF LevelIsFine, States
    <3>4. ASSUME NEW k \in 1..m PROVE LevelIsFine(G[k])
      <4>1. k = m \/ k \in 1..(m - 1)
        BY <1>1
      <4> QED
        BY <1>2, <1>5, <1>8, <3>3, <4>1 DEF l
    <3> QED
      BY <1>4, <3>1, <3>2, <3>4 DEF Describes
  <2> QED
    BY <2>1, <2>2
<1>9. CASE q # "invalid" /\ c # "/"
  <2>1. Len(G) = m /\ G[m] = x /\ \A k \in 1..(m - 1) : LevelIsFine(G[k])
    BY <1>2, <1>5, <1>9
  <2>2. m \in 1..Len(G)
    BY <1>1, <2>1
  <2>3. CASE l = <<>>
    <3>1. q = "segment_start"
      BY <1>5, <1>9, <2>3, WildcardAlone DEF States
    <3>2. x = <<c>> /\ ~HasWildcard(l)
      BY <1>3, <2>3, WildcardAlone
    <3>3. r = IF c = "+" THEN "separator" ELSE IF c = "#" THEN "end" ELSE "segment_cont"
      <4>1. CASE c = "+"
        BY <3>1, <4>1 DEF r, FilterState
      <4>2. CASE c = "#"
        BY <3>1, <4>2 DEF r, FilterState
      <4>3. CASE c \notin {"+", "#"}
        BY <1>9, <3>1, <4>3 DEF r, FilterState
      <4> QED
        BY <4>1, <4>2, <4>3
    <3>4. c \notin {"+", "#"} => ~HasWildcard(x)
      BY <1>3, <3>2
    <3> QED
      BY <1>3, <1>4, <2>1, <3>2, <3>3, <3>4 DEF Describes
  <2>4. CASE l # <<>>
    <3>1. q \in {"segment_cont", "separator", "end"} /\ Len(x) >= 2
      BY <1>3, <1>5, <1>9, <2>4 DEF States
    <3>2. CASE q = "segment_cont" /\ c \notin {"+", "#"}
      <4>1. r = "segment_cont"
        BY <1>9, <3>2 DEF r, FilterState
      <4>2. ~HasWildcard(x)
        BY <1>3, <1>5, <3>2
      <4> QED
        BY <1>3, <1>4, <2>1, <4>1, <4>2 DEF Describes
    <3>3. CASE ~(q = "segment_cont" /\ c \notin {"+", "#"})
      <4>1. r = "invalid"
        BY <1>9, <3>1, <3>3 DEF r, FilterState
      <4>2. HasWildcard(x)
        BY <1>3, <1>5, <3>1, <3>3, WildcardAlone
      <4>3. Hopeless(G)
        BY <2>1, <2>2, <3>1, <4>2 DEF Hopeless
      <4> QED
        BY <1>4, <4>1, <4>3 DEF Describes
    <3> QED
      BY <3>2, <3>3
  <2> QED
    BY <2>3, <2>4
<1> QED
  BY <1>7, <1>8, <1>9

\* So it holds wherever the scanner is.
LEMMA StatesDescribe ==
    ASSUME NEW f \in Seq(Chars)
    PROVE  \A n \in 0..Len(f) :
              StateAfter(f, n) \in States /\ Describes(StateAfter(f, n), LevelsTo(f, n))
<1> DEFINE P(n) == StateAfter(f, n) \in States /\ Describes(StateAfter(f, n), LevelsTo(f, n))
           T == {n \in Nat : n <= Len(f) => P(n)}
<1>1. 0 \in T
  <2>1. StateAfter(f, 0) = "segment_start" /\ LevelsTo(f, 0) = << <<>> >>
    BY StateAfterIs, LevelsToIs
  <2>2. Describes("segment_start", << <<>> >>)
    <3>1. Len(<< <<>> >>) = 1 /\ << <<>> >>[1] = <<>>
      OBVIOUS
    <3>2. 1..(1 - 1) = {}
      OBVIOUS
    <3> QED
      BY <3>1, <3>2 DEF Describes
  <2>3. P(0)
    BY <2>1, <2>2 DEF States
  <2> QED
    BY <2>3
<1>2. ASSUME NEW n \in Nat, n \in T PROVE n + 1 \in T
  <2> SUFFICES ASSUME n + 1 <= Len(f) PROVE P(n + 1)
    OBVIOUS
  <2>1. n \in 0..Len(f) /\ n + 1 \in 1..Len(f) /\ (n + 1) - 1 = n /\ f[n + 1] \in Chars
    OBVIOUS
  <2>2. P(n)
    BY <1>2
  <2>3. StateAfter(f, n + 1) = FilterState(StateAfter(f, n), f[n + 1])
    <3>1. StateAfter(f, n + 1) = FilterState(StateAfter(f, (n + 1) - 1), f[n + 1])
      BY <2>1, StateAfterIs
    <3> QED
      BY <2>1, <3>1
  <2>4. LevelsTo(f, n + 1) = Grow(LevelsTo(f, n), f[n + 1])
    <3>1. LevelsTo(f, n + 1) = Grow(LevelsTo(f, (n + 1) - 1), f[n + 1])
      BY <2>1, LevelsToIs
    <3> QED
      BY <2>1, <3>1
  <2>5. LevelsTo(f, n) \in Seq(Seq(Chars)) /\ Len(LevelsTo(f, n)) >= 1
    BY <2>1, LevelsToIs
  <2> QED
    BY <2>1, <2>2, <2>3, <2>4, <2>5, StepDescribes
<1> HIDE DEF T, P
<1>3. Nat \subseteq T
  BY <1>1, <1>2, Induction
<1>4. \A n \in 0..Len(f) : P(n)
  BY <1>3 DEF T
<1> QED
  BY <1>4 DEF P

\* What WellFormed says of wildcards, of a level's positions.
LEMMA NoWildcards ==
    ASSUME NEW C, NEW l \in Seq(C)
    PROVE  {"+", "#"} \cap ToSet(l) = {} <=> ~HasWildcard(l)
<1>1. ToSet(l) = {l[j] : j \in 1..Len(l)}
  BY DEF ToSet
<1> QED
  BY <1>1 DEF HasWildcard

\* The scanner of subscribe() accepts exactly the filters of the grammar, whatever
\* their length and characters (is_valid_topic_filter).
THEOREM ScannerIsGrammar == \A f \in Seq(Chars) : IsValidTopicFilter(f) <=> WellFormed(f)
<1> SUFFICES ASSUME NEW f \in Seq(Chars), f # <<>>
             PROVE  IsValidTopicFilter(f) <=> WellFormed(f)
  BY DEF IsValidTopicFilter, WellFormed
<1> DEFINE L == Levels(f)
           q == StateAfter(f, Len(f))
           Good(k) == ~HasWildcard(L[k]) \/ L[k] = <<"+">> \/ (L[k] = <<"#">> /\ k = Len(L))
<1>1. q \in States /\ Describes(q, L) /\ L \in Seq(Seq(Chars)) /\ Len(L) >= 1
  <2>1. Len(f) \in 0..Len(f)
    OBVIOUS
  <2> QED
    BY <2>1, StatesDescribe, LevelsToIs
<1>2. IsValidTopicFilter(f) <=> q # "invalid"
  BY StateAfterIs
<1>3. WellFormed(f) <=> \A k \in 1..Len(L) : Good(k)
  <2>1. \A k \in 1..Len(L) : {"+", "#"} \cap ToSet(L[k]) = {} <=> ~HasWildcard(L[k])
    BY <1>1, NoWildcards
  <2> HIDE DEF L
  <2> QED
    BY <2>1 DEF WellFormed, L
<1> HIDE DEF L, q
<1>4. CASE q = "invalid"
  <2>1. PICK k \in 1..Len(L) : /\ HasWildcard(L[k])
                               /\ Len(L[k]) >= 2 \/ (k < Len(L) /\ L[k] # <<"+">>)
    BY <1>1, <1>4 DEF Describes, Hopeless
  <2>2. ~(Len(<<"+">>) >= 2) /\ ~(Len(<<"#">>) >= 2)
    OBVIOUS
  <2>3. ~Good(k)
    <3>1. CASE Len(L[k]) >= 2
      <4>1. \A l \in {<<"+">>, <<"#">>} : ~(Len(l) >= 2)
        BY <2>2, Zenon
      <4>2. L[k] \notin {<<"+">>, <<"#">>}
        BY <3>1, <4>1, Zenon
      <4> QED
        BY <2>1, <4>2
    <3>2. CASE k < Len(L) /\ L[k] # <<"+">>
      <4>1. k # Len(L)
        BY <3>2
      <4> QED
        BY <2>1, <3>2, <4>1
    <3> QED
      BY <2>1, <3>1, <3>2
  <2> QED
    BY <1>2, <1>3, <1>4, <2>3
<1>5. CASE q # "invalid"
  <2>1. ASSUME NEW k \in 1..Len(L) PROVE Good(k)
    <3>1. CASE k # Len(L)
      <4>1. k \in 1..(Len(L) - 1)
        BY <1>1, <3>1
      <4> QED
        BY <1>1, <1>5, <4>1 DEF Describes, LevelIsFine
    <3>2. CASE k = Len(L)
      BY <1>1, <1>5, <3>2, WildcardAlone DEF Describes, States
    <3> QED
      BY <3>1, <3>2
  <2> QED
    BY <1>2, <1>3, <1>5, <2>1
<1> QED
  BY <1>4, <1>5

-----------------------------------------------------------------------------
(* Elements.                                                               *)

\* Where the inner loops end.
LEMMA SeparatorFromIs ==
    ASSUME NEW C, NEW s \in Seq(C), NEW j \in 1..(Len(s) + 1)
    PROVE  /\ SeparatorFrom(s, j) \in j..(Len(s) + 1)
           /\ SeparatorFrom(s, j) = Len(s) + 1 \/ s[SeparatorFrom(s, j)] = "/"
           /\ \A l \in j..(SeparatorFrom(s, j) - 1) : s[l] # "/"
<1> DEFINE T == {k \in j..(Len(s) + 1) : k = Len(s) + 1 \/ s[k] = "/"}
           P(k) == /\ k = Len(s) + 1 \/ s[k] = "/"
                   /\ \A l \in j..(k - 1) : s[l] # "/"
<1>1. T \in SUBSET Nat /\ Len(s) + 1 \in T
  OBVIOUS
<1>2. PICK e \in T : \A k \in T : e <= k
  BY <1>1, LeastNat
<1>3. e \in j..(Len(s) + 1) /\ (e = Len(s) + 1 \/ s[e] = "/")
  OBVIOUS
<1>4. ASSUME NEW l \in j..(e - 1) PROVE s[l] # "/"
  <2> SUFFICES ASSUME s[l] = "/" PROVE FALSE
    OBVIOUS
  <2>1. l \in T /\ ~(e <= l)
    BY <1>3
  <2> QED
    BY <1>2, <2>1
<1>5. \E k \in j..(Len(s) + 1) : P(k)
  BY <1>3, <1>4
<1>6. SeparatorFrom(s, j) = CHOOSE k \in j..(Len(s) + 1) : P(k)
  BY DEF SeparatorFrom
<1> HIDE DEF P
<1>7. SeparatorFrom(s, j) \in j..(Len(s) + 1) /\ P(SeparatorFrom(s, j))
  BY <1>5, <1>6, Zenon
<1> QED
  BY <1>7 DEF P

LEMMA SubSeqGrows ==
    ASSUME NEW C, NEW s \in Seq(C), NEW j \in 1..(Len(s) + 1), NEW n \in (j - 1)..(Len(s) - 1)
    PROVE  SubSeq(s, j, n + 1) = Append(SubSeq(s, j, n), s[n + 1])
<1> DEFINE a == SubSeq(s, j, n)
           b == SubSeq(s, j, n + 1)
           c == Append(a, s[n + 1])
<1>1. j \in Nat /\ n \in Nat /\ Len(s) \in Nat /\ 1 <= j /\ j <= n + 1 /\ n + 1 <= Len(s)
      /\ s[n + 1] \in C
  OBVIOUS
<1>2. a = [i \in 1..(n - j + 1) |-> s[i + j - 1]] /\ b = [i \in 1..(n - j + 2) |-> s[i + j - 1]]
  OBVIOUS
<1>3. a \in Seq(C) /\ Len(a) = n - j + 1
  OBVIOUS
<1>4. b \in Seq(C) /\ Len(b) = n - j + 2
  OBVIOUS
<1>5. c \in Seq(C) /\ Len(c) = n - j + 2 /\ c[n - j + 2] = s[n + 1]
      /\ \A i \in 1..(n - j + 1) : c[i] = a[i]
  <2> HIDE DEF a
  <2> QED
    BY <1>1, <1>3
<1>6. ASSUME NEW i \in 1..(n - j + 2) PROVE b[i] = c[i]
  <2>1. CASE i = n - j + 2
    <3>1. i + j - 1 = n + 1
      BY <1>1, <2>1
    <3> QED
      BY <1>2, <1>5, <2>1, <3>1
  <2>2. CASE i # n - j + 2
    <3>1. i \in 1..(n - j + 1)
      BY <1>1, <2>2
    <3> QED
      BY <1>2, <1>5, <3>1
  <2> QED
    BY <2>1, <2>2
<1> HIDE DEF a, b, c
<1>7. b = c
  <2>1. Len(b) = Len(c) /\ Len(b) \in Nat /\ \A i \in 1..Len(b) : b[i] = c[i]
    BY <1>1, <1>4, <1>5, <1>6
  <2> QED
    BY <1>4, <1>5, <2>1, SeqEqual
<1> QED
  BY <1>7 DEF a, b, c

\* The level that begins at j goes on to the next separator.
LEMMA LevelEnds ==
    ASSUME NEW C, NEW s \in Seq(C), NEW j \in 1..(Len(s) + 1), NEW m, NEW e,
           m = Len(LevelsTo(s, j - 1)), LevelsTo(s, j - 1)[m] = <<>>,
           e = SeparatorFrom(s, j)
    PROVE  /\ Len(LevelsTo(s, e - 1)) = m /\ LevelsTo(s, e - 1)[m] = SubSeq(s, j, e - 1)
           /\ m \in 1..Len(Levels(s)) /\ Levels(s)[m] = SubSeq(s, j, e - 1)
<1> DEFINE P(n) == Len(LevelsTo(s, n)) = m /\ LevelsTo(s, n)[m] = SubSeq(s, j, n)
           T == {n \in Nat : n \in (j - 1)..(e - 1) => P(n)}
<1>1. /\ e \in j..(Len(s) + 1) /\ (e = Len(s) + 1 \/ s[e] = "/")
      /\ \A l \in j..(e - 1) : s[l] # "/"
  BY SeparatorFromIs
<1>2. j \in Nat /\ e \in Nat /\ Len(s) \in Nat /\ 1 <= j /\ j <= e /\ e <= Len(s) + 1
      /\ j - 1 \in 0..Len(s) /\ e - 1 \in 0..Len(s)
  BY <1>1
<1>3. P(j - 1)
  <2>1. SubSeq(s, j, j - 1) = <<>>
    OBVIOUS
  <2> QED
    BY <2>1
<1>4. 0 \in T
  <2>1. 0 \in (j - 1)..(e - 1) => j - 1 = 0
    BY <1>2
  <2> HIDE DEF P
  <2> QED
    BY <1>3, <2>1
<1>5. ASSUME NEW n \in Nat, n \in T PROVE n + 1 \in T
  <2> SUFFICES ASSUME n + 1 \in (j - 1)..(e - 1) PROVE P(n + 1)
    OBVIOUS
  <2>1. CASE n + 1 = j - 1
    <3> HIDE DEF P
    <3> QED
      BY <1>3, <2>1
  <2>2. CASE n + 1 # j - 1
    <3>1. n \in (j - 1)..(e - 1) /\ n \in 0..Len(s) /\ n + 1 \in 1..Len(s) /\ n + 1 \in j..(e - 1)
          /\ (n + 1) - 1 = n /\ n \in (j - 1)..(Len(s) - 1)
      BY <1>2, <2>2
    <3>2. P(n)
      BY <1>5, <3>1
    <3>3. LevelsTo(s, n) \in Seq(Seq(C)) /\ Len(LevelsTo(s, n)) >= 1 /\ s[n + 1] \in C
      BY <3>1, LevelsToIs
    <3>4. LevelsTo(s, n + 1) = Grow(LevelsTo(s, n), s[n + 1])
      <4>1. LevelsTo(s, n + 1) = Grow(LevelsTo(s, (n + 1) - 1), s[n + 1])
        BY <3>1, LevelsToIs
      <4> QED
        BY <3>1, <4>1
    <3>5. s[n + 1] # "/"
      BY <1>1, <3>1
    <3>6. Len(LevelsTo(s, n + 1)) = m /\ LevelsTo(s, n + 1)[m] = Append(SubSeq(s, j, n), s[n + 1])
      <4> DEFINE A == LevelsTo(s, n)
                 c == s[n + 1]
      <4>1. A \in Seq(Seq(C)) /\ Len(A) >= 1 /\ c \in C /\ c # "/"
            /\ Len(A) = m /\ A[m] = SubSeq(s, j, n) /\ LevelsTo(s, n + 1) = Grow(A, c)
        BY <3>2, <3>3, <3>4, <3>5
      <4> HIDE DEF A, c
      <4>2. Len(Grow(A, c)) = Len(A) /\ Grow(A, c)[Len(A)] = Append(A[Len(A)], c)
        BY <4>1, GrowIs
      <4> QED
        BY <4>1, <4>2 DEF c
    <3>7. SubSeq(s, j, n + 1) = Append(SubSeq(s, j, n), s[n + 1])
      BY <3>1, SubSeqGrows
    <3> QED
      BY <3>6, <3>7
  <2> QED
    BY <2>1, <2>2
<1> HIDE DEF T
<1>6. Nat \subseteq T
  BY <1>4, <1>5, Induction
<1>7. P(e - 1)
  <2>1. e - 1 \in Nat /\ e - 1 \in (j - 1)..(e - 1)
    BY <1>2
  <2> HIDE DEF P
  <2> QED
    BY <1>6, <2>1 DEF T
<1>8. m \in 1..Len(Levels(s)) /\ Levels(s)[m] = SubSeq(s, j, e - 1)
  <2>1. /\ Levels(s) \in Seq(Seq(C)) /\ Len(Levels(s)) >= 1
        /\ LevelsTo(s, e - 1) \in Seq(Seq(C)) /\ m >= 1
        /\ Continues(LevelsTo(s, e - 1), Levels(s))
    BY <1>2, <1>7, LevelsFinal
  <2>2. m \in Nat /\ m <= Len(Levels(s))
    BY <1>7, <2>1 DEF Continues
  <2>3. m \in 1..Len(Levels(s))
    BY <2>1, <2>2
  <2>4. CASE e = Len(s) + 1
    <3>1. e - 1 = Len(s)
      BY <1>2, <2>4
    <3> QED
      BY <1>7, <2>3, <3>1, LevelsToIs
  <2>5. CASE e # Len(s) + 1
    <3>1. e - 1 \in 0..(Len(s) - 1) /\ (e - 1) + 1 = e
      BY <1>2, <2>5
    <3>2. Levels(s)[m] = LevelsTo(s, e - 1)[m]
      <4> DEFINE i == e - 1
                 a == LevelsTo(s, i)[m]
      <4>1. i \in 0..(Len(s) - 1) /\ s[i + 1] = "/" /\ m = Len(LevelsTo(s, i))
        BY <1>1, <1>7, <2>5, <3>1
      <4>2. a = LevelsTo(s, i)[m]
        OBVIOUS
      <4> HIDE DEF i, a
      <4>3. Levels(s)[m] = a
        BY <4>1, <4>2, LevelGoesOn
      <4> QED
        BY <4>3 DEF i, a
    <3> QED
      BY <1>7, <2>3, <3>2
  <2> QED
    BY <2>4, <2>5
<1> QED
  BY <1>7, <1>8

IsSkip(t, index, f) ==
    f = [j \in 1..(Len(t) + 1) |->
            [k \in 0..index |-> IF k = 0 \/ j > Len(t) THEN j
                                ELSE f[j + 1][IF t[j] = "/" THEN k - 1 ELSE k]]]

\* The recursive definition of SkipElements has a value.
LEMMA SkipExists ==
    ASSUME NEW C, NEW t \in Seq(C), NEW index \in Nat
    PROVE  \E f : IsSkip(t, index, f)
<1> DEFINE n == Len(t)
           S == [0..index -> Int]
           At(j, h) == [k \in 0..index |-> IF k = 0 \/ j > n THEN j
                                           ELSE h[IF t[j] = "/" THEN k - 1 ELSE k]]
           start == At(n + 1, 0)
           step == [p \in (1..n) \X S |-> At(n + 1 - p[1], p[2])]
<1>1. n \in Nat
  OBVIOUS
<1>2. start \in S
  <2> HIDE DEF n
  <2>1. \A k \in 0..index : n + 1 > n /\ n + 1 \in Int
    BY <1>1
  <2> QED
    BY <2>1
<1>3. step \in [(1..n) \X S -> S]
  <2> SUFFICES ASSUME NEW i \in 1..n, NEW h \in S PROVE At(n + 1 - i, h) \in S
    OBVIOUS
  <2> DEFINE j == n + 1 - i
  <2>1. j \in Int
    OBVIOUS
  <2> HIDE DEF j, n
  <2>2. ASSUME NEW k \in 0..index
        PROVE  (IF k = 0 \/ j > n THEN j ELSE h[IF t[j] = "/" THEN k - 1 ELSE k]) \in Int
    <3>1. k # 0 => k - 1 \in 0..index
      OBVIOUS
    <3> QED
      BY <2>1, <3>1
  <2>3. At(j, h) \in S
    BY <2>2
  <2> QED
    BY <2>3 DEF j
<1>4. \A i \in 1..n : \A h \in S : step[<<i, h>>] = At(n + 1 - i, h)
  OBVIOUS
<1> HIDE DEF step, S, n, start, At
<1>5. PICK g \in [0..n -> S] : Computes(g, n, start, step)
  BY <1>1, <1>2, <1>3, Recursion
<1> DEFINE f == [j \in 1..(n + 1) |-> g[n + 1 - j]]
<1>6. ASSUME NEW j \in 1..(n + 1) PROVE f[j] = At(j, f[j + 1])
  <2>1. CASE j = n + 1
    <3>1. f[j] = start
      BY <1>1, <1>5, <2>1 DEF Computes
    <3>2. \A k \in 0..index : n + 1 > n
      BY <1>1
    <3>3. \A h : At(n + 1, h) = start
      BY <3>2 DEF At, start
    <3> QED
      BY <2>1, <3>1, <3>3
  <2>2. CASE j # n + 1
    <3> DEFINE i == n + 1 - j
    <3>1. i \in 1..n /\ i - 1 \in 0..n /\ n + 1 - i = j /\ j + 1 \in 1..(n + 1)
          /\ n + 1 - (j + 1) = i - 1
      BY <1>1, <2>2
    <3>2. f[j] = g[i] /\ f[j + 1] = g[i - 1]
      BY <3>1
    <3> HIDE DEF i, f
    <3>3. g[i] = step[<<i, g[i - 1]>>] /\ g[i - 1] \in S
      BY <1>5, <3>1 DEF Computes
    <3>4. step[<<i, g[i - 1]>>] = At(n + 1 - i, g[i - 1])
      BY <1>4, <3>1, <3>3
    <3> QED
      BY <3>1, <3>2, <3>3, <3>4
  <2> QED
    BY <2>1, <2>2
<1>7. f = [j \in 1..(n + 1) |-> f[j]]
  OBVIOUS
<1> HIDE DEF f
<1>8. f = [j \in 1..(n + 1) |-> At(j, f[j + 1])]
  BY <1>6, <1>7
<1> QED
  BY <1>8 DEF IsSkip, n, At

\* get_topic_element returns the level of its index, and nothing beyond the last, for
\* topics of every length.
THEOREM ElementIsLevel ==
    \A t \in Seq(Chars) : \A index \in Nat :
        GetTopicElement(t, index) =
            IF index < Len(Levels(t)) THEN Levels(t)[index + 1] ELSE <<>>
<1> SUFFICES ASSUME NEW t \in Seq(Chars), NEW index \in Nat
             PROVE  GetTopicElement(t, index) =
                       IF index < Len(Levels(t)) THEN Levels(t)[index + 1] ELSE <<>>
  OBVIOUS
<1> DEFINE n == Len(t)
           L == Levels(t)
           f == CHOOSE h : IsSkip(t, index, h)
           Element(x) == SubSeq(t, x, SeparatorFrom(t, x) - 1)
           Right(x) == Element(x) = IF index < Len(L) THEN L[index + 1] ELSE <<>>
           \* The loop at j: what is left of the index are the levels still to pass.
           Passing(j, k) == /\ Len(LevelsTo(t, j - 1)) + k = index + 1
                            /\ k = 0 => LevelsTo(t, j - 1)[Len(LevelsTo(t, j - 1))] = <<>>
           P(j) == \A k \in 0..index : Passing(j, k) => Right(f[j][k])
<1>1. IsSkip(t, index, f)
  BY SkipExists
<1>2. GetTopicElement(t, index) = Element(f[1][index])
  <2>1. SkipElements(t, index) = f[1][index]
    BY DEF SkipElements, IsSkip
  <2> QED
    BY <2>1 DEF GetTopicElement
<1> HIDE DEF f
<1>3. \A j \in 1..(n + 1) : \A k \in 0..index :
         f[j][k] = IF k = 0 \/ j > n THEN j ELSE f[j + 1][IF t[j] = "/" THEN k - 1 ELSE k]
  <2> DEFINE Row(j) == [k \in 0..index |->
                           IF k = 0 \/ j > n THEN j
                           ELSE f[j + 1][IF t[j] = "/" THEN k - 1 ELSE k]]
  <2>1. f = [j \in 1..(n + 1) |-> Row(j)]
    BY <1>1 DEF IsSkip
  <2>2. \A j : \A k \in 0..index :
           Row(j)[k] = IF k = 0 \/ j > n THEN j ELSE f[j + 1][IF t[j] = "/" THEN k - 1 ELSE k]
    BY Zenon
  <2> HIDE DEF Row
  <2>3. \A j \in 1..(n + 1) : f[j] = Row(j)
    BY <2>1, Zenon
  <2> QED
    BY <2>2, <2>3, Zenon
<1>4. n \in Nat /\ L \in Seq(Seq(Chars)) /\ Len(L) >= 1 /\ L = LevelsTo(t, n)
  BY LevelsToIs
<1>5. ASSUME NEW j \in 1..(n + 1), Passing(j, 0) PROVE Right(j)
  <2> DEFINE m == Len(LevelsTo(t, j - 1))
             e == SeparatorFrom(t, j)
  <2>1. m = Len(LevelsTo(t, j - 1)) /\ e = SeparatorFrom(t, j)
        /\ m + 0 = index + 1 /\ LevelsTo(t, j - 1)[m] = <<>>
    BY <1>5
  <2> HIDE DEF m, e
  <2>2. m \in 1..Len(L) /\ L[m] = SubSeq(t, j, e - 1)
    BY <2>1, LevelEnds
  <2>3. m = index + 1 /\ index < Len(L)
    BY <1>4, <2>1, <2>2
  <2> QED
    BY <2>1, <2>2, <2>3
<1>6. ASSUME NEW k \in 0..index, k # 0, Passing(n + 1, k) PROVE Right(n + 1)
  <2>1. (n + 1) - 1 = n
    BY <1>4
  <2>2. Len(L) + k = index + 1
    BY <1>4, <1>6, <2>1
  <2>3. ~(index < Len(L))
    BY <1>4, <1>6, <2>2
  <2>4. SeparatorFrom(t, n + 1) = n + 1
    BY SeparatorFromIs
  <2>5. Element(n + 1) = <<>>
    BY <1>4, <2>4
  <2> HIDE DEF Element, L
  <2> QED
    BY <2>3, <2>5
<1>7. P(n + 1)
  <2> SUFFICES ASSUME NEW k \in 0..index, Passing(n + 1, k) PROVE Right(f[n + 1][k])
    OBVIOUS
  <2>1. n + 1 \in 1..(n + 1) /\ n + 1 > n
    BY <1>4
  <2>2. f[n + 1][k] = n + 1
    BY <1>3, <2>1
  <2>3. Right(n + 1)
    <3> HIDE DEF Passing, Right, n
    <3> QED
      BY <1>5, <1>6, <2>1
  <2> HIDE DEF Right
  <2> QED
    BY <2>2, <2>3
<1>8. ASSUME NEW j \in 1..n, P(j + 1) PROVE P(j)
  <2> SUFFICES ASSUME NEW k \in 0..index, Passing(j, k) PROVE Right(f[j][k])
    OBVIOUS
  <2>1. j \in 1..(n + 1) /\ ~(j > n) /\ (j + 1) - 1 = j /\ j \in 0..n
        /\ t[j] \in Chars
    BY <1>4
  <2>2. CASE k = 0
    <3>1. f[j][k] = j /\ Right(j)
      <4> HIDE DEF Right, Passing
      <4> QED
        BY <1>3, <1>5, <2>1, <2>2
    <3> HIDE DEF Right
    <3> QED
      BY <3>1
  <2>3. CASE k # 0
    <3> DEFINE l == IF t[j] = "/" THEN k - 1 ELSE k
               A == LevelsTo(t, j - 1)
    <3>1. f[j][k] = f[j + 1][l] /\ l \in 0..index
      BY <1>3, <2>1, <2>3
    <3>2. A \in Seq(Seq(Chars)) /\ Len(A) >= 1 /\ LevelsTo(t, j) = Grow(A, t[j])
      <4>1. j - 1 \in 0..Len(t)
        BY <2>1
      <4> QED
        BY <4>1, LevelsToIs
    <3>3. Len(A) + k = index + 1
      OBVIOUS
    <3>4. Len(Grow(A, t[j])) + l = index + 1
          /\ (l = 0 => Grow(A, t[j])[Len(Grow(A, t[j]))] = <<>>)
      <4>1. CASE t[j] = "/"
        <5>1. Len(Grow(A, t[j])) = Len(A) + 1 /\ Grow(A, t[j])[Len(A) + 1] = <<>>
          <6>1. A \in Seq(Seq(Chars)) /\ Len(A) >= 1 /\ "/" \in Chars
            BY <3>2, <4>1, CharsAssumption
          <6> HIDE DEF A
          <6>2. Len(Grow(A, "/")) = Len(A) + 1 /\ Grow(A, "/")[Len(A) + 1] = <<>>
            BY <6>1, GrowOpens
          <6> QED
            BY <4>1, <6>2
        <5>2. l = k - 1
          BY <4>1
        <5> HIDE DEF A, l
        <5>3. Len(A) \in Nat
          BY <3>2
        <5> QED
          BY <3>3, <5>1, <5>2, <5>3
      <4>2. CASE t[j] # "/"
        <5>1. Len(Grow(A, t[j])) = Len(A)
          BY <2>1, <3>2, <4>2, GrowIs
        <5>2. l = k
          BY <4>2
        <5> HIDE DEF A, l
        <5> QED
          BY <2>3, <3>3, <5>1, <5>2
      <4> QED
        BY <4>1, <4>2
    <3>5. Passing(j + 1, l)
      <4> HIDE DEF A, l
      <4> QED
        BY <2>1, <3>2, <3>4
    <3>6. Right(f[j + 1][l])
      <4> HIDE DEF l, Right, Passing
      <4> QED
        BY <1>8, <3>1, <3>5
    <3> HIDE DEF l, Right
    <3> QED
      BY <3>1, <3>6
  <2> QED
    BY <2>2, <2>3
<1> DEFINE T == {i \in Nat : i <= n => P(n + 1 - i)}
<1> HIDE DEF P, n
<1>9. 0 \in T
  <2>1. n + 1 - 0 = n + 1
    BY <1>4
  <2> QED
    BY <1>7, <2>1
<1>10. ASSUME NEW i \in Nat, i \in T PROVE i + 1 \in T
  <2> SUFFICES ASSUME i + 1 <= n PROVE P(n + 1 - (i + 1))
    OBVIOUS
  <2>1. n + 1 - (i + 1) \in 1..n /\ n + 1 - (i + 1) + 1 = n + 1 - i /\ i <= n
    BY <1>4
  <2> QED
    BY <1>8, <1>10, <2>1
<1> HIDE DEF T
<1>11. Nat \subseteq T
  BY <1>9, <1>10, Induction
<1>12. P(1)
  <2>1. n + 1 - n = 1 /\ n <= n
    BY <1>4
  <2> QED
    BY <1>4, <1>11, <2>1 DEF T
<1>13. Passing(1, index) /\ index \in 0..index
  <2>1. Len(<< <<>> >>) = 1 /\ << <<>> >>[1] = <<>> /\ 1 - 1 = 0
    OBVIOUS
  <2>2. LevelsTo(t, 0) = << <<>> >>
    BY LevelsToIs
  <2>3. Len(LevelsTo(t, 0)) = 1 /\ LevelsTo(t, 0)[1] = <<>>
    BY <2>1, <2>2, Zenon
  <2>4. Len(LevelsTo(t, 0)) + index = index + 1
    <3>1. 1 + index = index + 1
      OBVIOUS
    <3> QED
      BY <2>3, <3>1, Zenon
  <2>5. LevelsTo(t, 0)[Len(LevelsTo(t, 0))] = <<>>
    BY <2>3, Zenon
  <2>6. index \in 0..index
    OBVIOUS
  <2> QED
    BY <2>1, <2>4, <2>5, <2>6, Zenon
<1>14. Right(f[1][index])
  <2> HIDE DEF Passing, Right
  <2> QED
    BY <1>12, <1>13 DEF P
<1> QED
  BY <1>2, <1>14

-----------------------------------------------------------------------------
(* Matching.                                                               *)

\* In a filter of the grammar a wildcard begins its level and ends it, and '#' ends
\* the filter.
LEMMA WildcardPlace ==
    ASSUME NEW f \in Seq(Chars), WellFormed(f), NEW i \in 1..Len(f), f[i] \in {"+", "#"},
           NEW A, NEW m, A = LevelsTo(f, i - 1), m = Len(A)
    PROVE  /\ A[m] = <<>> /\ m \in 1..Len(Levels(f)) /\ Levels(f)[m] = <<f[i]>>
           /\ f[i] = "#" => i = Len(f) /\ m = Len(Levels(f))
<1> DEFINE L == Levels(f)
           c == f[i]
           a == A[m]
<1>1. i - 1 \in 0..(Len(f) - 1) /\ (i - 1) + 1 = i /\ i - 1 \in 0..Len(f) /\ i \in 0..Len(f)
      /\ c \in Chars /\ c \in {"+", "#"} /\ c # "/"
  OBVIOUS
<1>2. /\ A \in Seq(Seq(Chars)) /\ m \in Nat /\ m >= 1 /\ L \in Seq(Seq(Chars)) /\ Len(L) >= 1
      /\ m <= Len(L) /\ LevelsTo(f, i) = Grow(A, c)
  <2>1. /\ A \in Seq(Seq(Chars)) /\ Len(A) >= 1 /\ L \in Seq(Seq(Chars)) /\ Len(L) >= 1
        /\ Continues(A, L)
    BY <1>1, LevelsFinal
  <2>2. LevelsTo(f, i) = Grow(A, c)
    BY LevelsToIs
  <2>3. m \in Nat /\ m <= Len(L)
    BY <2>1 DEF Continues
  <2> QED
    BY <2>1, <2>2, <2>3
<1>3. m \in 1..Len(L) /\ L[m] \in Seq(Chars) /\ a \in Seq(Chars)
  BY <1>2
<1>4. Len(L[m]) > Len(a) /\ L[m][Len(a) + 1] = c
  <2>1. ASSUME NEW g \in 0..(Len(f) - 1), g = i - 1
        PROVE  Len(L[m]) > Len(a) /\ L[m][Len(a) + 1] = c
    <3>1. m = Len(LevelsTo(f, g)) /\ a = LevelsTo(f, g)[m] /\ f[g + 1] # "/" /\ c = f[g + 1]
      BY <1>1, <2>1
    <3> HIDE DEF a, c, L
    <3>2. Len(L[m]) > Len(a)
      BY <3>1, LevelGoesOn DEF L
    <3>3. L[m][Len(a) + 1] = c
      BY <3>1, LevelGoesOn DEF L
    <3> QED
      BY <3>2, <3>3
  <2> QED
    BY <1>1, <2>1
<1> HIDE DEF a, c, L
<1>5. HasWildcard(L[m])
  <2>1. Len(a) + 1 \in 1..Len(L[m])
    BY <1>3, <1>4
  <2> QED
    BY <1>1, <1>4, <2>1 DEF HasWildcard
<1>6. L[m] = <<"+">> \/ (L[m] = <<"#">> /\ m = Len(L))
  <2>1. {"+", "#"} \cap ToSet(L[m]) # {}
    BY <1>3, <1>5, NoWildcards
  <2> QED
    BY <1>3, <2>1 DEF WellFormed, L
<1>7. Len(L[m]) = 1
  BY <1>6
<1>8. a = <<>>
  <2>1. Len(a) = 0
    BY <1>3, <1>4, <1>7
  <2> QED
    BY <1>3, <2>1
<1>9. L[m] = <<c>>
  <2>1. L[m][1] = c
    BY <1>4, <1>8
  <2> QED
    BY <1>6, <2>1
<1>10. ASSUME c = "#" PROVE i = Len(f) /\ m = Len(L)
  <2>1. m = Len(L)
    BY <1>6, <1>9, <1>10
  <2>2. ASSUME i # Len(f) PROVE FALSE
    <3>1. i \in 0..(Len(f) - 1)
      BY <2>2
    <3> DEFINE B == LevelsTo(f, i)
               b == B[m]
    <3>2. Len(B) = m /\ b = Append(a, c)
      <4>1. A \in Seq(Seq(Chars)) /\ Len(A) >= 1 /\ c \in Chars /\ c # "/"
        BY <1>1, <1>2
      <4>2. Len(Grow(A, c)) = Len(A) /\ Grow(A, c)[Len(A)] = Append(A[Len(A)], c)
        BY <4>1, GrowExtends
      <4> QED
        BY <1>2, <4>2 DEF a
    <3>3. m = Len(LevelsTo(f, i)) /\ b = LevelsTo(f, i)[m]
      BY <3>2
    <3>4. Len(b) = 1
      BY <1>8, <3>2
    <3> HIDE DEF B, b
    <3>5. /\ f[i + 1] = "/" => Len(L) > m
          /\ f[i + 1] # "/" => Len(L[m]) > Len(b)
      BY <3>1, <3>3, LevelGoesOn DEF L
    <3> QED
      BY <1>2, <1>7, <2>1, <3>4, <3>5
  <2> QED
    BY <2>1, <2>2
<1> QED
  BY <1>3, <1>8, <1>9, <1>10 DEF L, c, a

\* A level that is '+' ends with it.
LEMMA PlusThenSeparator ==
    ASSUME NEW f \in Seq(Chars), WellFormed(f), NEW i \in 0..(Len(f) - 1),
           NEW m, m = Len(LevelsTo(f, i)), LevelsTo(f, i)[m] = <<"+">>
    PROVE  f[i + 1] = "/"
<1> SUFFICES ASSUME f[i + 1] # "/" PROVE FALSE
  OBVIOUS
<1> DEFINE L == Levels(f)
           a == LevelsTo(f, i)[m]
<1>1. a = LevelsTo(f, i)[m] /\ a = <<"+">>
  OBVIOUS
<1>2. Len(a) = 1 /\ a[1] = "+"
  BY <1>1
<1> HIDE DEF a, L
<1>3. Len(L[m]) > Len(a)
  BY <1>1, LevelGoesOn DEF L
<1>4. i \in 0..Len(f)
  OBVIOUS
<1>5. L \in Seq(Seq(Chars)) /\ Continues(LevelsTo(f, i), L) /\ m \in Nat /\ m >= 1
  BY <1>4, LevelsFinal DEF L
<1>6. m \in 1..Len(L) /\ Starts(a, L[m])
  BY <1>1, <1>5 DEF Continues
<1>7. L[m] \in Seq(Chars)
  BY <1>5, <1>6
<1>8. L[m][1] = "+" /\ Len(L[m]) >= 2 /\ 1 \in 1..Len(L[m])
  BY <1>2, <1>3, <1>6, <1>7 DEF Starts
<1>9. HasWildcard(L[m])
  BY <1>8 DEF HasWildcard
<1>10. {"+", "#"} \cap ToSet(L[m]) # {}
  BY <1>7, <1>9, NoWildcards
<1>11. L[m] = <<"+">> \/ L[m] = <<"#">>
  BY <1>6, <1>10 DEF WellFormed, L
<1>12. ~(Len(<<"+">>) >= 2) /\ ~(Len(<<"#">>) >= 2)
  OBVIOUS
<1> QED
  BY <1>8, <1>11, <1>12, Zenon

\* The filter up to i and the topic up to j agree, level by level.  '+' is given all of its
\* level, and an empty one only if the topic goes on.
Consistent(A, U, t, j) ==
    /\ Len(U) = Len(A)
    /\ \A k \in 1..(Len(A) - 1) : LevelMatches(A[k], U[k])
    /\ \/ A[Len(A)] = U[Len(A)] /\ ~HasWildcard(A[Len(A)])
       \/ /\ A[Len(A)] = <<"+">>
          /\ j = Len(t) + 1 \/ t[j] = "/"
          /\ U[Len(A)] # <<>> \/ j <= Len(t)

\* The same ordinary character in both keeps them consistent.
LEMMA StepOrdinary ==
    ASSUME NEW A \in Seq(Seq(Chars)), Len(A) >= 1, NEW U \in Seq(Seq(Chars)),
           NEW t \in Seq(Chars), NEW j \in 1..Len(t), NEW c \in Chars,
           c \notin {"+", "#"}, t[j] = c, Consistent(A, U, t, j)
    PROVE  Consistent(Grow(A, c), Grow(U, c), t, j + 1)
<1> DEFINE m == Len(A)
           G == Grow(A, c)
           H == Grow(U, c)
<1>1. m \in Nat /\ m >= 1 /\ Len(U) = m /\ m \in 1..m /\ j \in Nat /\ j <= Len(t) /\ Len(t) \in Nat
  BY DEF Consistent
<1>0. Len(U) >= 1
  BY DEF Consistent
<1>2. A[m] \in Seq(Chars) /\ U[m] \in Seq(Chars)
  BY <1>1
<1>3. /\ \A k \in 1..(m - 1) : LevelMatches(A[k], U[k])
      /\ \/ A[m] = U[m] /\ ~HasWildcard(A[m])
         \/ A[m] = <<"+">> /\ c = "/"
  BY <1>1 DEF Consistent
<1>4. CASE c = "/"
  <2>1. Len(G) = m + 1 /\ G[m + 1] = <<>> /\ \A k \in 1..m : G[k] = A[k]
    <3>1. /\ Len(Grow(A, c)) = Len(A) + 1 /\ Grow(A, c)[Len(A) + 1] = <<>>
          /\ \A k \in 1..Len(A) : Grow(A, c)[k] = A[k]
      BY <1>4, GrowIs
    <3> QED
      BY <3>1
  <2>2. Len(H) = m + 1 /\ H[m + 1] = <<>> /\ \A k \in 1..m : H[k] = U[k]
    <3>1. /\ Len(Grow(U, c)) = Len(U) + 1 /\ Grow(U, c)[Len(U) + 1] = <<>>
          /\ \A k \in 1..Len(U) : Grow(U, c)[k] = U[k]
      BY <1>0, <1>4, GrowIs
    <3> QED
      BY <1>1, <3>1
  <2> HIDE DEF G, H, m
  <2>3. ASSUME NEW k \in 1..m PROVE LevelMatches(G[k], H[k])
    <3>1. k = m \/ k \in 1..(m - 1)
      BY <1>1
    <3>2. LevelMatches(A[k], U[k])
      BY <1>3, <3>1 DEF LevelMatches
    <3> QED
      BY <2>1, <2>2, <3>2
  <2>4. Len(G) - 1 = m /\ G[Len(G)] = H[Len(G)] /\ ~HasWildcard(G[Len(G)]) /\ Len(H) = Len(G)
    BY <1>1, <2>1, <2>2, WildcardAlone
  <2>5. Consistent(G, H, t, j + 1)
    BY <2>3, <2>4 DEF Consistent
  <2> QED
    BY <2>5 DEF G, H
<1>5. CASE c # "/"
  <2>1. Len(G) = m /\ G[m] = Append(A[m], c) /\ \A k \in 1..(m - 1) : G[k] = A[k]
    <3>1. /\ Len(Grow(A, c)) = Len(A) /\ Grow(A, c)[Len(A)] = Append(A[Len(A)], c)
          /\ \A k \in 1..(Len(A) - 1) : Grow(A, c)[k] = A[k]
      BY <1>5, GrowExtends
    <3> QED
      BY <3>1
  <2>2. Len(H) = m /\ H[m] = Append(U[m], c) /\ \A k \in 1..(m - 1) : H[k] = U[k]
    <3>1. /\ Len(Grow(U, c)) = Len(U) /\ Grow(U, c)[Len(U)] = Append(U[Len(U)], c)
          /\ \A k \in 1..(Len(U) - 1) : Grow(U, c)[k] = U[k]
      BY <1>0, <1>5, GrowExtends
    <3> QED
      BY <1>1, <3>1
  <2> HIDE DEF G, H, m
  <2>3. \A k \in 1..(m - 1) : LevelMatches(G[k], H[k])
    BY <1>3, <2>1, <2>2
  <2>4. A[m] = U[m] /\ ~HasWildcard(A[m])
    BY <1>3, <1>5
  <2>5. G[m] = H[m] /\ ~HasWildcard(G[m])
    BY <1>2, <2>1, <2>2, <2>4, WildcardInAppend
  <2> QED
    BY <2>1, <2>2, <2>3, <2>5 DEF Consistent, G, H
<1> QED
  BY <1>4, <1>5

\* So does '+' with what the topic has up to its next separator.
LEMMA StepPlus ==
    ASSUME NEW A \in Seq(Seq(Chars)), Len(A) >= 1, A[Len(A)] = <<>>,
           NEW t \in Seq(Chars), NEW j \in 1..Len(t), Consistent(A, LevelsTo(t, j - 1), t, j),
           NEW e, e = SeparatorFrom(t, j)
    PROVE  Consistent(Grow(A, "+"), LevelsTo(t, e - 1), t, e)
<1> DEFINE m == Len(A)
           U == LevelsTo(t, j - 1)
           V == LevelsTo(t, e - 1)
           G == Grow(A, "+")
<1>1. /\ m \in Nat /\ m >= 1 /\ Len(t) \in Nat /\ j \in Nat /\ e \in Nat
      /\ j - 1 \in 0..Len(t) /\ e - 1 \in (j - 1)..Len(t) /\ e - 1 \in 0..Len(t)
      /\ j \in 1..(Len(t) + 1) /\ e \in j..(Len(t) + 1) /\ (e = Len(t) + 1 \/ t[e] = "/")
      /\ \A l \in j..(e - 1) : t[l] # "/"
  <2>1. j \in 1..(Len(t) + 1)
    OBVIOUS
  <2>2. /\ e \in j..(Len(t) + 1) /\ (e = Len(t) + 1 \/ t[e] = "/")
        /\ \A l \in j..(e - 1) : t[l] # "/"
    BY <2>1, SeparatorFromIs
  <2>3. Len(t) \in Nat /\ j \in Nat /\ m \in Nat /\ m >= 1 /\ j >= 1 /\ j <= Len(t)
    OBVIOUS
  <2>4. e \in Nat /\ e >= j /\ e <= Len(t) + 1
    BY <2>2, <2>3
  <2>5. j - 1 \in 0..Len(t) /\ e - 1 \in (j - 1)..Len(t) /\ e - 1 \in 0..Len(t)
    BY <2>3, <2>4
  <2> HIDE DEF m
  <2> QED
    BY <2>1, <2>2, <2>3, <2>4, <2>5
<1>2. Len(U) = m /\ U[m] = <<>> /\ \A k \in 1..(m - 1) : LevelMatches(A[k], U[k])
  <2>1. <<>> # <<"+">>
    BY WildcardAlone
  <2> QED
    BY <2>1, Zenon DEF Consistent
<1>3. Len(V) = m /\ V[m] = SubSeq(t, j, e - 1)
  <2>1. m = Len(LevelsTo(t, j - 1)) /\ LevelsTo(t, j - 1)[m] = <<>> /\ j \in 1..(Len(t) + 1)
    BY <1>1, <1>2
  <2> HIDE DEF m
  <2> QED
    BY <2>1, LevelEnds, SMTT(20)
<1>4. ASSUME NEW k \in 1..(m - 1) PROVE V[k] = U[k]
  <2>1. Continues(U, V)
    BY <1>1, LevelsContinue
  <2> QED
    BY <1>2, <2>1 DEF Continues
<1>5. Len(G) = m /\ G[m] = <<"+">> /\ \A k \in 1..(m - 1) : G[k] = A[k]
  <2>1. "+" \in Chars /\ "+" # "/"
    BY CharsAssumption
  <2>2. /\ Len(Grow(A, "+")) = Len(A) /\ Grow(A, "+")[Len(A)] = Append(A[Len(A)], "+")
        /\ \A k \in 1..(Len(A) - 1) : Grow(A, "+")[k] = A[k]
    BY <2>1, GrowExtends
  <2>3. Append(<<>>, "+") = <<"+">>
    OBVIOUS
  <2> QED
    BY <2>2, <2>3
<1>6. V[m] # <<>> \/ e <= Len(t)
  <2> SUFFICES ASSUME e > Len(t) PROVE V[m] # <<>>
    BY <1>1
  <2>1. e - 1 \in j..Len(t) /\ Len(SubSeq(t, j, e - 1)) = e - j /\ e - j >= 1
    BY <1>1
  <2>2. SubSeq(t, j, e - 1) # <<>>
    BY <2>1, SMTT(20)
  <2> QED
    BY <1>3, <2>2
<1> HIDE DEF m, U, V, G
<1>7. Consistent(G, V, t, e)
  <2>1. \A k \in 1..(Len(G) - 1) : LevelMatches(G[k], V[k])
    BY <1>2, <1>4, <1>5
  <2> QED
    BY <1>1, <1>3, <1>5, <1>6, <2>1 DEF Consistent
<1> QED
  BY <1>7 DEF G, V

\* One level that does not match settles it, whatever follows.
LEMMA Refuted ==
    ASSUME NEW f, NEW t, NEW k \in Nat, Levels(f) \in Seq(Seq(Chars)), k >= 1,
           k <= Len(Levels(f)), Levels(f)[k] # <<"#">>,
           \/ k > Len(Levels(t))
           \/ ~LevelMatches(Levels(f)[k], Levels(t)[k])
    PROVE  ~MQTTMatches(f, t)
  BY DEF MQTTMatches

\* What topic_matches returns when its pointers are at i and j, if h is what it returns
\* from i + 1 on.
MatchAt(p, t, i, h, j) ==
    IF i = Len(p) + 1 THEN j = Len(t) + 1
    ELSE \/ p[i] = "#"
         \/ j = Len(t) + 1 /\ i + 1 = Len(p) /\ p[i] = "/" /\ p[i + 1] = "#"
         \/ p[i] = "+" /\ j <= Len(t) /\ h[SeparatorFrom(t, j)]
         \/ p[i] \notin {"#", "+"} /\ j <= Len(t) /\ p[i] = t[j] /\ h[j + 1]

IsMatch(p, t, f) ==
    f = [i \in 1..(Len(p) + 1) |-> [j \in 1..(Len(t) + 1) |-> MatchAt(p, t, i, f[i + 1], j)]]

LEMMA MatchIsBoolean ==
    ASSUME NEW p, NEW t, NEW i, NEW h, NEW j
    PROVE  MatchAt(p, t, i, h, j) \in BOOLEAN
  BY DEF MatchAt

\* The recursive definition of TopicMatches has a value.
LEMMA MatchExists ==
    ASSUME NEW C, NEW p \in Seq(C), NEW t
    PROVE  \E f : IsMatch(p, t, f)
<1> DEFINE n == Len(p)
           D == 1..(Len(t) + 1)
           S == [D -> BOOLEAN]
           At(i, h) == [j \in D |-> MatchAt(p, t, i, h, j)]
           start == At(n + 1, 0)
           step == [q \in (1..n) \X S |-> At(n + 1 - q[1], q[2])]
<1>1. n \in Nat
  OBVIOUS
<1> HIDE DEF D
<1>2. \A i, h : At(i, h) \in S
  BY MatchIsBoolean
<1> HIDE DEF n, S, At
<1>3. start \in S /\ step \in [(1..n) \X S -> S]
  BY <1>2
<1>4. \A i \in 1..n : \A h \in S : step[<<i, h>>] = At(n + 1 - i, h)
  OBVIOUS
<1> HIDE DEF step, start
<1>5. PICK g \in [0..n -> S] : Computes(g, n, start, step)
  BY <1>1, <1>3, Recursion
<1> DEFINE f == [i \in 1..(n + 1) |-> g[n + 1 - i]]
<1>6. ASSUME NEW i \in 1..(n + 1) PROVE f[i] = At(i, f[i + 1])
  <2>1. CASE i = n + 1
    <3>1. f[i] = start
      BY <1>1, <1>5, <2>1 DEF Computes
    <3>2. At(n + 1, f[i + 1]) = start
      <4>1. \A j \in D : \A h : MatchAt(p, t, n + 1, h, j) = MatchAt(p, t, n + 1, 0, j)
        BY DEF MatchAt, n
      <4> QED
        BY <4>1 DEF At, start
    <3> QED
      BY <2>1, <3>1, <3>2
  <2>2. CASE i # n + 1
    <3> DEFINE l == n + 1 - i
    <3>1. l \in 1..n /\ l - 1 \in 0..n /\ n + 1 - l = i /\ i + 1 \in 1..(n + 1)
          /\ n + 1 - (i + 1) = l - 1
      BY <1>1, <2>2
    <3>2. f[i] = g[l] /\ f[i + 1] = g[l - 1]
      BY <3>1
    <3> HIDE DEF l, f
    <3>3. g[l] = step[<<l, g[l - 1]>>] /\ g[l - 1] \in S
      BY <1>5, <3>1 DEF Computes
    <3>4. step[<<l, g[l - 1]>>] = At(n + 1 - l, g[l - 1])
      BY <1>4, <3>1, <3>3
    <3> QED
      BY <3>1, <3>2, <3>3, <3>4
  <2> QED
    BY <2>1, <2>2
<1>7. f = [i \in 1..(n + 1) |-> f[i]]
  OBVIOUS
<1> HIDE DEF f
<1>8. f = [i \in 1..(n + 1) |-> At(i, f[i + 1])]
  BY <1>6, <1>7
<1> QED
  BY <1>8 DEF IsMatch, n, At, D

LEMMA MatchValue ==
    ASSUME NEW p, NEW t, NEW f, IsMatch(p, t, f)
    PROVE  \A i \in 1..(Len(p) + 1) : \A j \in 1..(Len(t) + 1) :
              f[i][j] = MatchAt(p, t, i, f[i + 1], j)
<1> DEFINE Row(i) == [j \in 1..(Len(t) + 1) |-> MatchAt(p, t, i, f[i + 1], j)]
<1>1. f = [i \in 1..(Len(p) + 1) |-> Row(i)]
  BY DEF IsMatch
<1>2. \A i : \A j \in 1..(Len(t) + 1) : Row(i)[j] = MatchAt(p, t, i, f[i + 1], j)
  BY Zenon
<1> HIDE DEF Row
<1>3. \A i \in 1..(Len(p) + 1) : f[i] = Row(i)
  BY <1>1, Zenon
<1> QED
  BY <1>2, <1>3, Zenon

LEMMA TopicMatchesIs ==
    ASSUME NEW p \in Seq(Chars), NEW t
    PROVE  \E f : IsMatch(p, t, f) /\ TopicMatches(p, t) = f[1][1]
<1> DEFINE f == CHOOSE h : IsMatch(p, t, h)
<1>1. IsMatch(p, t, f)
  BY MatchExists
<1>2. TopicMatches(p, t) = f[1][1]
  BY DEF TopicMatches, IsMatch, MatchAt
<1> QED
  BY <1>1, <1>2

\* The levels read of the filter and of the topic, g and h characters far.
Agree(f, g, t, h) == Consistent(LevelsTo(f, g), LevelsTo(t, h), t, h + 1)

Verdict(f, t) == MQTTMatches(f, t) /\ ~EndsEmpty(f, t)

\* The levels that are complete match for good.
LEMMA Agreement ==
    ASSUME NEW f \in Seq(Chars), NEW g \in 0..Len(f), NEW t \in Seq(Chars), NEW h \in 0..Len(t),
           Agree(f, g, t, h), NEW m, m = Len(LevelsTo(f, g))
    PROVE  /\ Levels(f) \in Seq(Seq(Chars)) /\ Levels(t) \in Seq(Seq(Chars))
           /\ m \in Nat /\ m >= 1 /\ m <= Len(Levels(f)) /\ m <= Len(Levels(t))
           /\ m = Len(LevelsTo(t, h)) /\ Len(Levels(f)) \in Nat /\ Len(Levels(t)) \in Nat
           /\ LevelsTo(f, g)[m] \in Seq(Chars) /\ LevelsTo(t, h)[m] \in Seq(Chars)
           /\ \A k \in 1..(m - 1) : LevelMatches(Levels(f)[k], Levels(t)[k])
<1> DEFINE A == LevelsTo(f, g)
           U == LevelsTo(t, h)
           L == Levels(f)
           K == Levels(t)
<1>1. /\ L \in Seq(Seq(Chars)) /\ Len(L) >= 1 /\ A \in Seq(Seq(Chars)) /\ Len(A) >= 1
      /\ Continues(A, L)
  BY LevelsFinal
<1>2. /\ K \in Seq(Seq(Chars)) /\ Len(K) >= 1 /\ U \in Seq(Seq(Chars)) /\ Len(U) >= 1
      /\ Continues(U, K)
  BY LevelsFinal
<1>3. m = Len(A) /\ m = Len(U) /\ \A k \in 1..(m - 1) : LevelMatches(A[k], U[k])
  BY DEF Agree, Consistent
<1> HIDE DEF A, U, L, K
<1>4. m \in Nat /\ m >= 1 /\ m \in 1..m /\ m <= Len(L) /\ m <= Len(K)
  BY <1>1, <1>2, <1>3 DEF Continues
<1>5. A[m] \in Seq(Chars) /\ U[m] \in Seq(Chars)
  <2>1. ASSUME NEW B \in Seq(Seq(Chars)), NEW k \in 1..Len(B) PROVE B[k] \in Seq(Chars)
    OBVIOUS
  <2>2. m \in 1..Len(A) /\ m \in 1..Len(U)
    BY <1>3, <1>4
  <2> QED
    BY <1>1, <1>2, <2>1, <2>2
<1>7. Len(L) \in Nat /\ Len(K) \in Nat
  BY <1>1, <1>2, SMTT(20)
<1>6. \A k \in 1..(m - 1) : LevelMatches(L[k], K[k])
  BY <1>1, <1>2, <1>3 DEF Continues
<1> QED
  BY <1>1, <1>2, <1>3, <1>4, <1>5, <1>6, <1>7, Zenon DEF A, U, L, K

\* A topic read to its end: its last level matches what was read of the filter's.
LEMMA LastLevelMatches ==
    ASSUME NEW f \in Seq(Chars), NEW g \in 0..Len(f), NEW t \in Seq(Chars),
           Agree(f, g, t, Len(t)), NEW m, m = Len(LevelsTo(f, g))
    PROVE  /\ m = Len(Levels(t)) /\ LevelMatches(LevelsTo(f, g)[m], Levels(t)[m])
           /\ ~(LevelsTo(f, g)[m] = <<"+">> /\ Levels(t)[m] = <<>>)
<1> DEFINE a == LevelsTo(f, g)[m]
           u == LevelsTo(t, Len(t))[m]
<1>1. LevelsTo(t, Len(t)) = Levels(t)
  BY LevelsToIs
<1>2. m = Len(LevelsTo(t, Len(t)))
  BY DEF Agree, Consistent
<1>3. \/ a = u /\ ~HasWildcard(a)
      \/ a = <<"+">> /\ (u # <<>> \/ Len(t) + 1 <= Len(t))
  BY Zenon DEF Agree, Consistent
<1>4. ~(Len(t) + 1 <= Len(t))
  OBVIOUS
<1>5. LevelMatches(a, u) /\ ~(a = <<"+">> /\ u = <<>>)
  <2>1. HasWildcard(<<"+">>)
    BY WildcardAlone
  <2> QED
    BY <1>3, <1>4, <2>1, Zenon DEF LevelMatches
<1> QED
  BY <1>1, <1>2, <1>5

\* Both at their ends.
LEMMA BothEnd ==
    ASSUME NEW f \in Seq(Chars), NEW t \in Seq(Chars), Agree(f, Len(f), t, Len(t))
    PROVE  Verdict(f, t)
<1> DEFINE m == Len(LevelsTo(f, Len(f)))
<1>1. LevelsTo(f, Len(f)) = Levels(f) /\ Len(f) \in 0..Len(f) /\ Len(t) \in 0..Len(t)
  BY LevelsToIs
<1>2. m = Len(LevelsTo(f, Len(f)))
  OBVIOUS
<1> HIDE DEF m
<1>3. /\ m \in Nat /\ m >= 1
      /\ \A k \in 1..(m - 1) : LevelMatches(Levels(f)[k], Levels(t)[k])
  BY <1>1, <1>2, Agreement
<1>4. /\ m = Len(Levels(t)) /\ LevelMatches(Levels(f)[m], Levels(t)[m]) /\ m = Len(Levels(f))
      /\ ~(Levels(f)[m] = <<"+">> /\ Levels(t)[m] = <<>>)
  BY <1>1, <1>2, LastLevelMatches
<1>5. \A k \in 1..m : LevelMatches(Levels(f)[k], Levels(t)[k])
  BY <1>3, <1>4
<1> QED
  BY <1>4, <1>5 DEF Verdict, MQTTMatches, EndsEmpty

\* '#' takes the rest of the topic.
LEMMA HashTakesAll ==
    ASSUME NEW f \in Seq(Chars), WellFormed(f), NEW g \in 0..(Len(f) - 1), f[g + 1] = "#",
           NEW t \in Seq(Chars), NEW h \in 0..Len(t), Agree(f, g, t, h)
    PROVE  Verdict(f, t)
<1> DEFINE m == Len(LevelsTo(f, g))
<1>1. g \in 0..Len(f) /\ g + 1 \in 1..Len(f) /\ (g + 1) - 1 = g /\ m = Len(LevelsTo(f, g))
  OBVIOUS
<1>2. m = Len(Levels(f)) /\ Levels(f)[m] = <<"#">>
  <2> DEFINE i == g + 1
             A == LevelsTo(f, i - 1)
  <2>1. i \in 1..Len(f) /\ f[i] = "#" /\ A = LevelsTo(f, i - 1) /\ m = Len(A)
    BY <1>1
  <2> HIDE DEF i, A, m
  <2> QED
    BY <2>1, WildcardPlace
<1> HIDE DEF m
<1>3. /\ m \in Nat /\ m >= 1 /\ m <= Len(Levels(t)) /\ Len(Levels(t)) \in Nat
      /\ \A k \in 1..(m - 1) : LevelMatches(Levels(f)[k], Levels(t)[k])
  BY <1>1, Agreement
<1>4. MQTTMatches(f, t)
  BY <1>2, <1>3 DEF MQTTMatches
<1>5. ~EndsEmpty(f, t)
  <2>1. Len(Levels(f)) >= Len(Levels(t)) => Len(Levels(t)) = m
    BY <1>2, <1>3
  <2>2. <<"#">> # <<"+">>
    BY WildcardAlone
  <2> QED
    BY <1>2, <2>1, <2>2 DEF EndsEmpty
<1> QED
  BY <1>4, <1>5 DEF Verdict

\* What the next character of the topic says, and what that of the filter says unless it
\* is a wildcard, of the level m that the filter has in progress.
TopicSays(t, h, m, a) ==
    /\ t[h + 1] = "/" => /\ Len(Levels(t)) > m
                         /\ \/ a = Levels(t)[m] /\ ~HasWildcard(a)
                            \/ a = <<"+">>
    /\ t[h + 1] # "/" => /\ ~HasWildcard(a) /\ Len(Levels(t)[m]) > Len(a)
                         /\ Levels(t)[m][Len(a) + 1] = t[h + 1]

FilterSays(f, g, m, a) ==
    /\ f[g + 1] = "/" => Len(Levels(f)) > m /\ Levels(f)[m] = a
    /\ f[g + 1] # "/" => /\ a # <<"+">> /\ Len(Levels(f)[m]) > Len(a)
                         /\ Levels(f)[m][Len(a) + 1] = f[g + 1]
                         /\ Levels(f)[m] # <<"+">> /\ Levels(f)[m] # <<"#">>

LEMMA TopicNext ==
    ASSUME NEW f \in Seq(Chars), NEW g \in 0..Len(f), NEW t \in Seq(Chars),
           NEW h \in 0..(Len(t) - 1), Agree(f, g, t, h),
           NEW m, m = Len(LevelsTo(f, g)), NEW a, a = LevelsTo(f, g)[m]
    PROVE  TopicSays(t, h, m, a)
<1> DEFINE u == LevelsTo(t, h)[m]
           K == Levels(t)
<1>1. h + 1 # Len(t) + 1
  OBVIOUS
<1>2. m = Len(LevelsTo(t, h)) /\ u = LevelsTo(t, h)[m]
  BY DEF Agree, Consistent
<1>3. (a = u /\ ~HasWildcard(a)) \/ (a = <<"+">> /\ t[h + 1] = "/")
  BY <1>1, Zenon DEF Agree, Consistent
<1> HIDE DEF u, K
<1>4. ASSUME t[h + 1] = "/" PROVE Len(K) > m /\ K[m] = u
  <2>1. Len(K) > m
    BY <1>2, <1>4, LevelGoesOn DEF K
  <2>2. K[m] = u
    BY <1>2, <1>4, LevelGoesOn DEF K
  <2> QED
    BY <2>1, <2>2
<1>5. ASSUME t[h + 1] # "/" PROVE Len(K[m]) > Len(u) /\ K[m][Len(u) + 1] = t[h + 1]
  <2>1. Len(K[m]) > Len(u)
    BY <1>2, <1>5, LevelGoesOn DEF K
  <2>2. K[m][Len(u) + 1] = t[h + 1]
    BY <1>2, <1>5, LevelGoesOn, SMTT(20) DEF K
  <2> QED
    BY <2>1, <2>2
<1> QED
  BY <1>3, <1>4, <1>5, Zenon DEF K, TopicSays

LEMMA FilterNext ==
    ASSUME NEW f \in Seq(Chars), WellFormed(f), NEW g \in 0..(Len(f) - 1),
           f[g + 1] \notin {"+", "#"}, NEW m, m = Len(LevelsTo(f, g)),
           NEW a, a = LevelsTo(f, g)[m]
    PROVE  FilterSays(f, g, m, a)
<1> DEFINE L == Levels(f)
           c == f[g + 1]
<1>1. /\ c = "/" => Len(L) > m /\ L[m] = a
      /\ c # "/" => Len(L[m]) > Len(a) /\ L[m][Len(a) + 1] = c
  <2> HIDE DEF L
  <2>1. c = "/" => Len(L) > m
    BY LevelGoesOn DEF L
  <2>2. c = "/" => L[m] = a
    BY LevelGoesOn DEF L
  <2>3. c # "/" => Len(L[m]) > Len(a)
    BY LevelGoesOn DEF L
  <2>4. c # "/" => L[m][Len(a) + 1] = c
    BY LevelGoesOn DEF L
  <2> QED
    BY <2>1, <2>2, <2>3, <2>4
<1>2. c # "/" => a # <<"+">>
  BY PlusThenSeparator
<1>3. Len(a) \in Nat
  <2>1. g \in 0..Len(f)
    OBVIOUS
  <2>2. LevelsTo(f, g) \in Seq(Seq(Chars)) /\ Len(LevelsTo(f, g)) >= 1
    BY <2>1, LevelsFinal
  <2>3. a \in Seq(Chars)
    BY <2>2
  <2> QED
    BY <2>3
<1>4. ASSUME NEW w \in {"+", "#"}, L[m] = <<w>> PROVE c = "/"
  <2> SUFFICES ASSUME c # "/" PROVE FALSE
    OBVIOUS
  <2>1. Len(L[m]) = 1 /\ L[m][1] = w
    BY <1>4
  <2> HIDE DEF c, L
  <2>2. Len(a) = 0 /\ L[m][Len(a) + 1] = c
    BY <1>1, <1>3, <2>1
  <2>3. c = w
    BY <2>1, <2>2
  <2> QED
    BY <2>3 DEF c
<1> QED
  BY <1>1, <1>2, <1>4 DEF c, L, FilterSays

\* The filter is at its end and the topic is not.
LEMMA TopicIsLonger ==
    ASSUME NEW f \in Seq(Chars), NEW t \in Seq(Chars), NEW h \in 0..(Len(t) - 1),
           Agree(f, Len(f), t, h)
    PROVE  ~MQTTMatches(f, t)
<1> DEFINE m == Len(LevelsTo(f, Len(f)))
           a == LevelsTo(f, Len(f))[m]
           L == Levels(f)
           K == Levels(t)
<1>1. LevelsTo(f, Len(f)) = L /\ Len(f) \in 0..Len(f) /\ h \in 0..Len(t) /\ h + 1 # Len(t) + 1
  BY LevelsToIs
<1>2. m = Len(LevelsTo(f, Len(f))) /\ a = LevelsTo(f, Len(f))[m] /\ m = Len(L) /\ a = L[m]
  BY <1>1
<1> HIDE DEF m, a
<1>3. /\ m \in Nat /\ m >= 1 /\ L \in Seq(Seq(Chars)) /\ Len(K) \in Nat
      /\ a \in Seq(Chars)
  BY <1>1, <1>2, Agreement
<1>4. /\ t[h + 1] = "/" => Len(K) > m
      /\ t[h + 1] # "/" => ~HasWildcard(a) /\ Len(K[m]) > Len(a)
  <2>1. TopicSays(t, h, m, a)
    BY <1>1, <1>2, TopicNext
  <2> QED
    BY <2>1 DEF TopicSays
<1>5. ~HasWildcard(a) \/ a = <<"+">>
  BY <1>2, Zenon DEF Agree, Consistent
<1>6. a # <<"#">> /\ (~HasWildcard(a) => a # <<"+">>)
  BY <1>5, WildcardAlone, Zenon
<1>7. CASE t[h + 1] = "/"
  BY <1>2, <1>3, <1>4, <1>6, <1>7 DEF MQTTMatches
<1>8. CASE t[h + 1] # "/"
  <2>1. K[m] # a
    BY <1>3, <1>4, <1>8
  <2>2. ~LevelMatches(L[m], K[m])
    BY <1>2, <1>4, <1>6, <1>8, <2>1 DEF LevelMatches
  <2>3. /\ m \in Nat /\ m >= 1 /\ m <= Len(Levels(f)) /\ Levels(f)[m] # <<"#">>
        /\ Levels(f) \in Seq(Seq(Chars)) /\ ~LevelMatches(Levels(f)[m], Levels(t)[m])
    BY <1>2, <1>3, <1>6, <2>2
  <2> HIDE DEF L, K
  <2> QED
    BY <2>3, Refuted
<1> QED
  BY <1>7, <1>8

\* Two characters that differ.
LEMMA Mismatch ==
    ASSUME NEW f \in Seq(Chars), WellFormed(f), NEW g \in 0..(Len(f) - 1),
           f[g + 1] \notin {"+", "#"}, NEW t \in Seq(Chars), NEW h \in 0..(Len(t) - 1),
           Agree(f, g, t, h), f[g + 1] # t[h + 1]
    PROVE  ~MQTTMatches(f, t)
<1> DEFINE m == Len(LevelsTo(f, g))
           a == LevelsTo(f, g)[m]
           L == Levels(f)
           K == Levels(t)
           c == f[g + 1]
           d == t[h + 1]
<1>1. g \in 0..Len(f) /\ h \in 0..Len(t) /\ m = Len(LevelsTo(f, g)) /\ a = LevelsTo(f, g)[m]
  OBVIOUS
<1> HIDE DEF m, a
<1>2. /\ m \in Nat /\ m >= 1 /\ L \in Seq(Seq(Chars)) /\ m <= Len(L) /\ a \in Seq(Chars)
  BY <1>1, Agreement
<1>3. /\ d = "/" => (a = K[m] /\ ~HasWildcard(a)) \/ a = <<"+">>
      /\ d # "/" => ~HasWildcard(a) /\ Len(K[m]) > Len(a) /\ K[m][Len(a) + 1] = d
  <2>1. TopicSays(t, h, m, a)
    BY <1>1, TopicNext
  <2> QED
    BY <2>1 DEF TopicSays
<1>4. /\ c = "/" => L[m] = a
      /\ c # "/" => /\ a # <<"+">> /\ Len(L[m]) > Len(a) /\ L[m][Len(a) + 1] = c
                    /\ L[m] # <<"+">> /\ L[m] # <<"#">>
  <2>1. FilterSays(f, g, m, a)
    BY <1>1, FilterNext
  <2> QED
    BY <1>1, <2>1 DEF FilterSays
<1>5. c # d
  OBVIOUS
<1>6. Len(a) \in Nat
  BY <1>2
<1> HIDE DEF c, d, L, K
<1>7. L[m] # K[m] /\ L[m] # <<"+">> /\ L[m] # <<"#">>
  <2>1. CASE c = "/"
    <3>1. ~HasWildcard(a) /\ L[m] = a /\ Len(K[m]) > Len(a)
      BY <1>3, <1>4, <1>5, <2>1
    <3>2. L[m] # <<"+">> /\ L[m] # <<"#">>
      BY <3>1, WildcardAlone, Zenon
    <3> QED
      BY <1>6, <3>1, <3>2
  <2>2. CASE c # "/" /\ d = "/"
    <3>1. a = K[m]
      BY <1>3, <1>4, <2>2
    <3> QED
      BY <1>4, <1>6, <2>2, <3>1
  <2>3. CASE c # "/" /\ d # "/"
    BY <1>3, <1>4, <1>5, <2>3
  <2> QED
    BY <2>1, <2>2, <2>3
<1>8. /\ m <= Len(Levels(f)) /\ Levels(f)[m] # <<"#">> /\ Levels(f) \in Seq(Seq(Chars))
      /\ ~LevelMatches(Levels(f)[m], Levels(t)[m])
  BY <1>2, <1>7 DEF LevelMatches, L, K
<1> QED
  BY <1>2, <1>8, Refuted

\* The topic is at its end and the filter goes on in the same level.
LEMMA FilterIsLonger ==
    ASSUME NEW f \in Seq(Chars), WellFormed(f), NEW g \in 0..(Len(f) - 1),
           f[g + 1] \notin {"+", "#", "/"}, NEW t \in Seq(Chars), Agree(f, g, t, Len(t))
    PROVE  ~MQTTMatches(f, t)
<1> DEFINE m == Len(LevelsTo(f, g))
           a == LevelsTo(f, g)[m]
           L == Levels(f)
           K == Levels(t)
<1>1. /\ g \in 0..Len(f) /\ Len(t) \in 0..Len(t) /\ m = Len(LevelsTo(f, g))
      /\ a = LevelsTo(f, g)[m] /\ f[g + 1] \notin {"+", "#"} /\ f[g + 1] # "/"
  OBVIOUS
<1> HIDE DEF m, a
<1>2. /\ m \in Nat /\ m >= 1 /\ L \in Seq(Seq(Chars)) /\ m <= Len(L) /\ a \in Seq(Chars)
  BY <1>1, Agreement
<1>3. a # <<"+">> /\ Len(L[m]) > Len(a) /\ L[m] # <<"+">> /\ L[m] # <<"#">>
  <2>1. FilterSays(f, g, m, a)
    BY <1>1, FilterNext
  <2> QED
    BY <1>1, <2>1 DEF FilterSays
<1>4. LevelMatches(a, K[m])
  BY <1>1, LastLevelMatches
<1>5. a = K[m] /\ Len(a) \in Nat
  BY <1>2, <1>3, <1>4 DEF LevelMatches
<1>6. L[m] # K[m]
  <2> HIDE DEF L, K
  <2> QED
    BY <1>3, <1>5
<1>7. /\ m <= Len(Levels(f)) /\ Levels(f)[m] # <<"#">> /\ Levels(f) \in Seq(Seq(Chars))
      /\ ~LevelMatches(Levels(f)[m], Levels(t)[m])
  BY <1>2, <1>3, <1>6 DEF LevelMatches
<1> HIDE DEF L, K
<1> QED
  BY <1>2, <1>7, Refuted

\* '+' finds the end of the topic.
LEMMA PlusAtEnd ==
    ASSUME NEW f \in Seq(Chars), WellFormed(f), NEW g \in 0..(Len(f) - 1), f[g + 1] = "+",
           NEW t \in Seq(Chars), Agree(f, g, t, Len(t))
    PROVE  EndsEmpty(f, t)
<1> DEFINE m == Len(LevelsTo(f, g))
           i == g + 1
           A == LevelsTo(f, i - 1)
<1>1. /\ i \in 1..Len(f) /\ f[i] = "+" /\ A = LevelsTo(f, i - 1) /\ A = LevelsTo(f, g)
      /\ m = Len(A) /\ g \in 0..Len(f) /\ m = Len(LevelsTo(f, g))
  OBVIOUS
<1> HIDE DEF m, i, A
<1>2. A[m] = <<>> /\ m \in 1..Len(Levels(f)) /\ Levels(f)[m] = <<"+">>
  BY <1>1, WildcardPlace
<1>3. m = Len(Levels(t)) /\ LevelMatches(A[m], Levels(t)[m])
  BY <1>1, LastLevelMatches
<1>4. Levels(t)[m] = <<>>
  BY <1>2, <1>3, WildcardAlone, Zenon DEF LevelMatches
<1>5. Len(Levels(f)) >= m
  BY <1>2
<1> QED
  BY <1>2, <1>3, <1>4, <1>5 DEF EndsEmpty

\* The topic is at its end and a level of the filter ends with it: only "/#" may be left.
LEMMA ParentAtEnd ==
    ASSUME NEW f \in Seq(Chars), WellFormed(f), NEW g \in 0..(Len(f) - 1), f[g + 1] = "/",
           NEW t \in Seq(Chars), Agree(f, g, t, Len(t))
    PROVE  Verdict(f, t) <=> g + 2 = Len(f) /\ f[g + 2] = "#"
<1> DEFINE m == Len(LevelsTo(f, g))
           a == LevelsTo(f, g)[m]
           L == Levels(f)
           K == Levels(t)
           B == LevelsTo(f, g + 1)
<1>1. /\ g \in 0..Len(f) /\ Len(t) \in 0..Len(t) /\ m = Len(LevelsTo(f, g))
      /\ a = LevelsTo(f, g)[m] /\ f[g + 1] \notin {"+", "#"} /\ f[g + 1] = "/"
      /\ g + 1 \in 0..Len(f) /\ g + 1 \in 1..Len(f) /\ (g + 1) - 1 = g
  OBVIOUS
<1> HIDE DEF m, a
<1>2. /\ m \in Nat /\ m >= 1 /\ Len(L) \in Nat
      /\ \A k \in 1..(m - 1) : LevelMatches(L[k], K[k])
  BY <1>1, Agreement
<1>3. Len(L) > m /\ L[m] = a
  <2>1. FilterSays(f, g, m, a)
    BY <1>1, FilterNext
  <2> QED
    BY <1>1, <2>1 DEF FilterSays
<1>4. m = Len(K) /\ LevelMatches(a, K[m]) /\ ~(a = <<"+">> /\ K[m] = <<>>)
  BY <1>1, LastLevelMatches
<1>5. Len(B) = m + 1 /\ B[m + 1] = <<>>
  <2>1. B = Grow(LevelsTo(f, (g + 1) - 1), f[g + 1])
    BY <1>1, LevelsToIs
  <2>2. B = Grow(LevelsTo(f, g), "/")
    BY <1>1, <2>1
  <2> DEFINE A == LevelsTo(f, g)
  <2>3. A \in Seq(Seq(Chars)) /\ Len(A) >= 1 /\ "/" \in Chars
    BY <1>1, LevelsFinal, CharsAssumption
  <2> HIDE DEF A, B
  <2>4. Len(Grow(A, "/")) = Len(A) + 1 /\ Grow(A, "/")[Len(A) + 1] = <<>>
    BY <2>3, GrowOpens
  <2> QED
    BY <1>1, <2>2, <2>4 DEF A
<1>6. ASSUME g + 2 = Len(f), f[g + 2] = "#" PROVE Len(L) = m + 1 /\ L[m + 1] = <<"#">>
  <2> DEFINE i == g + 2
  <2>1. i \in 1..Len(f) /\ i - 1 = g + 1 /\ f[i] = "#"
    BY <1>1, <1>6
  <2>2. B = LevelsTo(f, i - 1) /\ m + 1 = Len(B)
    BY <1>5, <2>1
  <2> HIDE DEF i, B
  <2> QED
    BY <2>1, <2>2, WildcardPlace DEF L
<1>7. ASSUME Len(L) = m + 1, L[m + 1] = <<"#">> PROVE g + 2 = Len(f) /\ f[g + 2] = "#"
  <2>1. <<>> # <<"#">>
    BY WildcardAlone
  <2>2. g + 1 # Len(f)
    <3> SUFFICES ASSUME g + 1 = Len(f) PROVE FALSE
      OBVIOUS
    <3>1. B = L
      BY LevelsToIs
    <3> QED
      BY <1>5, <1>7, <2>1, <3>1, Zenon
  <2> DEFINE j == g + 1
             i == g + 2
             b == B[m + 1]
             n == m + 1
  <2>3. j \in 0..(Len(f) - 1) /\ n = Len(LevelsTo(f, j)) /\ b = LevelsTo(f, j)[n] /\ b = <<>>
        /\ j + 1 = i /\ i \in 1..Len(f) /\ i - 1 = j
    BY <1>1, <1>5, <2>2
  <2>4. B = LevelsTo(f, i - 1) /\ n = Len(B) /\ L[n] = <<"#">>
    BY <1>5, <1>7, <2>3
  <2>11. j \in 0..(Len(f) - 1) /\ n = Len(LevelsTo(f, j)) /\ b = LevelsTo(f, j)[n]
    BY <2>3
  <2> HIDE DEF b, n, j, i, B, L
  <2>5. f[j + 1] = "/" => L[n] = b
    BY <2>11, LevelGoesOn DEF L
  <2>6. f[j + 1] # "/" => L[n][Len(b) + 1] = f[j + 1]
    BY <2>11, LevelGoesOn, SMTT(20) DEF L
  <2>7. f[i] # "/"
    BY <2>1, <2>3, <2>4, <2>5
  <2>8. <<"#">>[Len(<<>>) + 1] = "#"
    OBVIOUS
  <2>9. f[i] = "#"
    BY <2>3, <2>4, <2>6, <2>7, <2>8
  <2>10. i = Len(f)
    BY <2>3, <2>4, <2>9, WildcardPlace
  <2> QED
    BY <2>9, <2>10 DEF i
<1>8. ~EndsEmpty(f, t)
  BY <1>3, <1>4 DEF EndsEmpty
<1>9. MQTTMatches(f, t) <=> Len(L) = m + 1 /\ L[m + 1] = <<"#">>
  <2>1. \A k \in 1..m : LevelMatches(L[k], K[k])
    BY <1>2, <1>3, <1>4
  <2> HIDE DEF L, K
  <2>2. Len(L) # Len(K)
    BY <1>2, <1>3, <1>4
  <2>3. Len(L) - 1 <= Len(K) <=> Len(L) = m + 1
    BY <1>2, <1>3, <1>4
  <2>4. Len(L) = m + 1 => Len(L) - 1 = m
    BY <1>2
  <2> QED
    BY <2>1, <2>2, <2>3, <2>4 DEF MQTTMatches, L, K
<1> QED
  BY <1>6, <1>7, <1>8, <1>9 DEF Verdict

\* Nothing read, nothing against it.
LEMMA AgreeBegins ==
    ASSUME NEW f \in Seq(Chars), NEW t \in Seq(Chars)
    PROVE  Agree(f, 0, t, 0)
<1>1. Len(<< <<>> >>) = 1 /\ << <<>> >>[1] = <<>> /\ 1..(1 - 1) = {}
  OBVIOUS
<1>2. LevelsTo(f, 0) = << <<>> >> /\ LevelsTo(t, 0) = << <<>> >>
  BY LevelsToIs
<1>3. ~HasWildcard(<<>>)
  BY WildcardAlone
<1> QED
  BY <1>1, <1>2, <1>3, Zenon DEF Agree, Consistent

LEMMA AgreeOrdinary ==
    ASSUME NEW f \in Seq(Chars), NEW g \in 0..(Len(f) - 1), f[g + 1] \notin {"+", "#"},
           NEW t \in Seq(Chars), NEW h \in 0..(Len(t) - 1), f[g + 1] = t[h + 1],
           Agree(f, g, t, h)
    PROVE  Agree(f, g + 1, t, h + 1)
<1> DEFINE A == LevelsTo(f, g)
           U == LevelsTo(t, h)
           c == f[g + 1]
           j == h + 1
<1>1. /\ g \in 0..Len(f) /\ h \in 0..Len(t) /\ j \in 1..Len(t) /\ c \in Chars /\ c \notin {"+", "#"}
      /\ t[j] = c /\ g + 1 \in 1..Len(f) /\ g + 1 \in 0..Len(f) /\ j \in 0..Len(t)
      /\ (g + 1) - 1 = g /\ j - 1 = h
  OBVIOUS
<1>2. A \in Seq(Seq(Chars)) /\ Len(A) >= 1 /\ U \in Seq(Seq(Chars)) /\ Consistent(A, U, t, j)
  BY <1>1, LevelsFinal DEF Agree
<1>3. LevelsTo(f, g + 1) = Grow(A, c)
  <2>1. LevelsTo(f, g + 1) = Grow(LevelsTo(f, (g + 1) - 1), f[g + 1])
    BY <1>1, LevelsToIs
  <2> QED
    BY <1>1, <2>1
<1>4. LevelsTo(t, j) = Grow(U, c)
  <2>1. LevelsTo(t, j) = Grow(LevelsTo(t, j - 1), t[j])
    BY <1>1, LevelsToIs
  <2> QED
    BY <1>1, <2>1
<1> HIDE DEF A, U, c, j
<1>5. Consistent(Grow(A, c), Grow(U, c), t, j + 1)
  BY <1>1, <1>2, StepOrdinary
<1> QED
  BY <1>3, <1>4, <1>5 DEF Agree, j

LEMMA AgreePlus ==
    ASSUME NEW f \in Seq(Chars), WellFormed(f), NEW g \in 0..(Len(f) - 1), f[g + 1] = "+",
           NEW t \in Seq(Chars), NEW h \in 0..(Len(t) - 1), Agree(f, g, t, h)
    PROVE  Agree(f, g + 1, t, SeparatorFrom(t, h + 1) - 1)
<1> DEFINE A == LevelsTo(f, g)
           i == g + 1
           j == h + 1
           e == SeparatorFrom(t, j)
<1>1. /\ g \in 0..Len(f) /\ h \in 0..Len(t) /\ j \in 1..Len(t) /\ i \in 1..Len(f)
      /\ f[i] = "+" /\ i - 1 = g /\ j - 1 = h /\ j \in 1..(Len(t) + 1) /\ i \in 0..Len(f)
  OBVIOUS
<1>2. A \in Seq(Seq(Chars)) /\ Len(A) >= 1 /\ A = LevelsTo(f, i - 1)
      /\ Consistent(A, LevelsTo(t, j - 1), t, j)
  BY <1>1, LevelsFinal DEF Agree
<1>3. LevelsTo(f, i) = Grow(A, "+")
  <2>1. LevelsTo(f, i) = Grow(LevelsTo(f, i - 1), f[i])
    BY <1>1, LevelsToIs
  <2> QED
    BY <1>1, <1>2, <2>1
<1> HIDE DEF A, i, j
<1>4. A[Len(A)] = <<>>
  <2> DEFINE m == Len(A)
  <2>1. m = Len(A)
    OBVIOUS
  <2> HIDE DEF m
  <2>2. A[m] = <<>>
    BY <1>1, <1>2, <2>1, WildcardPlace
  <2> QED
    BY <2>1, <2>2
<1>5. Consistent(Grow(A, "+"), LevelsTo(t, e - 1), t, e)
  BY <1>1, <1>2, <1>4, StepPlus
<1>6. (e - 1) + 1 = e
  <2>1. e \in j..(Len(t) + 1)
    BY <1>1, SeparatorFromIs
  <2> QED
    BY <1>1, <2>1
<1> HIDE DEF e
<1>7. Agree(f, i, t, e - 1)
  BY <1>3, <1>5, <1>6 DEF Agree
<1> QED
  BY <1>7 DEF i, j, e

\* What topic_matches decides at one pair of positions, given that it decides rightly
\* from the next character of the filter on.
LEMMA MatchStep ==
    ASSUME NEW f \in Seq(Chars), WellFormed(f), NEW g \in 0..Len(f),
           NEW t \in Seq(Chars), NEW h \in 0..Len(t), Agree(f, g, t, h),
           NEW rest,
           g < Len(f) => \A k \in 0..Len(t) : Agree(f, g + 1, t, k) => (rest[k + 1] <=> Verdict(f, t))
    PROVE  MatchAt(f, t, g + 1, rest, h + 1) <=> Verdict(f, t)
<1> DEFINE i == g + 1
           j == h + 1
           c == f[i]
<1>1. /\ i = g + 1 /\ j = h + 1 /\ (i = Len(f) + 1 <=> g = Len(f)) /\ (j = Len(t) + 1 <=> h = Len(t))
      /\ (j <= Len(t) <=> h # Len(t)) /\ Len(f) \in Nat /\ Len(t) \in Nat
      /\ (g # Len(f) => g \in 0..(Len(f) - 1) /\ g < Len(f))
      /\ (h # Len(t) => h \in 0..(Len(t) - 1))
      /\ (i + 1 = Len(f) <=> g + 2 = Len(f)) /\ i + 1 = g + 2
  OBVIOUS
<1>2. CASE g = Len(f)
  <2>1. MatchAt(f, t, i, rest, j) <=> h = Len(t)
    BY <1>1, <1>2 DEF MatchAt
  <2>2. h = Len(t) => Verdict(f, t)
    BY <1>2, BothEnd
  <2>3. h # Len(t) => ~Verdict(f, t)
    BY <1>1, <1>2, TopicIsLonger DEF Verdict
  <2> QED
    BY <2>1, <2>2, <2>3
<1>3. CASE g # Len(f)
  <2>1. g \in 0..(Len(f) - 1) /\ g < Len(f) /\ i # Len(f) + 1
    BY <1>1, <1>3
  <2> HIDE DEF i, j
  <2>2. CASE c = "#"
    <3>1. MatchAt(f, t, i, rest, j)
      BY <2>1, <2>2 DEF MatchAt
    <3>2. Verdict(f, t)
      BY <1>1, <2>1, <2>2, HashTakesAll
    <3> QED
      BY <3>1, <3>2 DEF i, j
  <2>3. CASE c = "+"
    <3>0. "+" \notin {"#", "/"}
      OBVIOUS
    <3>1. MatchAt(f, t, i, rest, j) <=> h # Len(t) /\ rest[SeparatorFrom(t, j)]
      BY <1>1, <2>1, <2>3, <3>0 DEF MatchAt
    <3>2. CASE h = Len(t)
      <4>1. EndsEmpty(f, t)
        BY <1>1, <2>1, <2>3, <3>2, PlusAtEnd
      <4> QED
        BY <3>1, <3>2, <4>1 DEF Verdict, i, j
    <3>3. CASE h # Len(t)
      <4> DEFINE e == SeparatorFrom(t, j)
      <4>1. h \in 0..(Len(t) - 1) /\ j \in 1..(Len(t) + 1)
        BY <1>1, <3>3
      <4>2. Agree(f, g + 1, t, e - 1)
        BY <1>1, <2>1, <2>3, <4>1, AgreePlus
      <4>3. e - 1 \in 0..Len(t) /\ (e - 1) + 1 = e
        <5>1. e \in j..(Len(t) + 1)
          BY <4>1, SeparatorFromIs
        <5> HIDE DEF e
        <5> QED
          BY <1>1, <4>1, <5>1
      <4> HIDE DEF e
      <4>4. rest[e] <=> Verdict(f, t)
        BY <2>1, <4>2, <4>3
      <4> QED
        BY <3>1, <3>3, <4>4 DEF i, j, e
    <3> QED
      BY <3>2, <3>3
  <2>4. CASE c \notin {"+", "#"}
    <3>1. MatchAt(f, t, i, rest, j) <=> \/ h = Len(t) /\ g + 2 = Len(f) /\ c = "/" /\ f[g + 2] = "#"
                                        \/ h # Len(t) /\ c = t[j] /\ rest[j + 1]
      BY <1>1, <2>1, <2>4 DEF MatchAt
    <3>2. CASE h = Len(t) /\ c = "/"
      <4>1. Verdict(f, t) <=> g + 2 = Len(f) /\ f[g + 2] = "#"
        BY <1>1, <2>1, <3>2, ParentAtEnd
      <4> QED
        BY <3>1, <3>2, <4>1 DEF i, j
    <3>3. CASE h = Len(t) /\ c # "/"
      <4>1. ~Verdict(f, t)
        <5>1. f[g + 1] \notin {"+", "#", "/"} /\ Agree(f, g, t, Len(t))
          BY <1>1, <2>4, <3>3
        <5> QED
          BY <2>1, <5>1, FilterIsLonger DEF Verdict
      <4> QED
        BY <3>1, <3>3, <4>1 DEF i, j
    <3>4. CASE h # Len(t) /\ c = t[j]
      <4>1. h \in 0..(Len(t) - 1) /\ f[g + 1] \notin {"+", "#"} /\ f[g + 1] = t[h + 1] /\ j \in 0..Len(t)
        BY <1>1, <2>4, <3>4
      <4>2. Agree(f, g + 1, t, h + 1)
        BY <2>1, <4>1, AgreeOrdinary
      <4>3. rest[j + 1] <=> Verdict(f, t)
        BY <1>1, <2>1, <4>1, <4>2
      <4> QED
        BY <3>1, <3>4, <4>3 DEF i, j
    <3>5. CASE h # Len(t) /\ c # t[j]
      <4>1. h \in 0..(Len(t) - 1) /\ f[g + 1] \notin {"+", "#"} /\ f[g + 1] # t[h + 1]
        BY <1>1, <2>4, <3>5
      <4>2. ~Verdict(f, t)
        BY <2>1, <4>1, Mismatch DEF Verdict
      <4> QED
        BY <3>1, <3>5, <4>2 DEF i, j
    <3> QED
      BY <3>2, <3>3, <3>4, <3>5
  <2> QED
    BY <2>2, <2>3, <2>4
<1> QED
  BY <1>2, <1>3

\* topic_matches is the level-wise matching of MQTT but for a '+' that would have to
\* match an empty last level, for topics and filters of every length.
THEOREM MatcherIsLevelwise ==
    \A f, t \in Seq(Chars) :
        IsValidTopicFilter(f) => (TopicMatches(f, t) <=> MQTTMatches(f, t) /\ ~EndsEmpty(f, t))
<1> SUFFICES ASSUME NEW f \in Seq(Chars), NEW t \in Seq(Chars), IsValidTopicFilter(f)
             PROVE  TopicMatches(f, t) <=> Verdict(f, t)
  BY DEF Verdict
<1>1. WellFormed(f)
  BY ScannerIsGrammar
<1>2. PICK M : IsMatch(f, t, M) /\ TopicMatches(f, t) = M[1][1]
  BY TopicMatchesIs
<1> DEFINE n == Len(f)
           P(g) == \A h \in 0..Len(t) : Agree(f, g, t, h) => (M[g + 1][h + 1] <=> Verdict(f, t))
           T == {k \in Nat : k <= n => P(n - k)}
<1>3. n \in Nat /\ Len(t) \in Nat
  OBVIOUS
<1>4. ASSUME NEW g \in 0..n, NEW h \in 0..Len(t)
      PROVE  M[g + 1][h + 1] = MatchAt(f, t, g + 1, M[g + 2], h + 1)
  <2>1. \A i \in 1..(Len(f) + 1) : \A j \in 1..(Len(t) + 1) :
           M[i][j] = MatchAt(f, t, i, M[i + 1], j)
    BY <1>2, MatchValue
  <2>2. g + 1 \in 1..(Len(f) + 1) /\ h + 1 \in 1..(Len(t) + 1) /\ (g + 1) + 1 = g + 2
    OBVIOUS
  <2> QED
    BY <2>1, <2>2
<1>5. ASSUME NEW g \in 0..n, g < n => P(g + 1) PROVE P(g)
  <2> SUFFICES ASSUME NEW h \in 0..Len(t), Agree(f, g, t, h)
               PROVE  M[g + 1][h + 1] <=> Verdict(f, t)
    OBVIOUS
  <2> DEFINE rest == M[g + 2]
  <2>1. g < Len(f) => \A k \in 0..Len(t) : Agree(f, g + 1, t, k) => (rest[k + 1] <=> Verdict(f, t))
    <3>1. (g + 1) + 1 = g + 2
      OBVIOUS
    <3> QED
      BY <1>5, <3>1
  <2> HIDE DEF rest
  <2>2. g \in 0..Len(f)
    OBVIOUS
  <2>3. MatchAt(f, t, g + 1, rest, h + 1) <=> Verdict(f, t)
    BY <1>1, <2>1, <2>2, MatchStep
  <2> QED
    BY <1>4, <2>3 DEF rest
<1> HIDE DEF P, n
<1>6. 0 \in T
  <2>1. n - 0 = n /\ n \in 0..n /\ ~(n < n)
    BY <1>3
  <2> QED
    BY <1>5, <2>1
<1>7. ASSUME NEW k \in Nat, k \in T PROVE k + 1 \in T
  <2> SUFFICES ASSUME k + 1 <= n PROVE P(n - (k + 1))
    OBVIOUS
  <2>1. n - (k + 1) \in 0..n /\ (n - (k + 1)) + 1 = n - k /\ k <= n
    BY <1>3
  <2> QED
    BY <1>5, <1>7, <2>1
<1> HIDE DEF T
<1>8. Nat \subseteq T
  BY <1>6, <1>7, Induction
<1>9. P(0)
  <2>1. n - n = 0 /\ n <= n
    BY <1>3
  <2> QED
    BY <1>3, <1>8, <2>1 DEF T
<1>10. M[1][1] <=> Verdict(f, t)
  <2>1. 0 \in 0..Len(t) /\ 0 + 1 = 1
    BY <1>3
  <2> QED
    BY <1>9, <2>1, AgreeBegins DEF P
<1> QED
  BY <1>2, <1>10

-----------------------------------------------------------------------------
(* The invariants that the run checks, for every Chars and MaxLen.          *)

Strings == filter \in Seq(Chars) /\ topic \in Seq(Chars)

LEMMA StringsAlways == Spec => []Strings
<1>1. Init => Strings
  BY DEF Init, Strings
<1>2. Strings /\ [Next]_vars => Strings'
  <2> SUFFICES ASSUME Strings, [Next]_vars PROVE Strings'
    OBVIOUS
  <2>1. ASSUME NEW c \in Chars, filter' = Append(filter, c), topic' = topic PROVE Strings'
    BY <2>1 DEF Strings
  <2>2. ASSUME NEW c \in TopicChars, topic' = Append(topic, c), filter' = filter PROVE Strings'
    BY <2>2 DEF Strings, TopicChars
  <2>3. CASE UNCHANGED vars
    BY <2>3 DEF Strings, vars
  <2> QED
    BY <2>1, <2>2, <2>3 DEF Next
<1> QED
  BY <1>1, <1>2, PTL DEF Spec

\* subscribe() is refused exactly for the filters outside the grammar.
THEOREM ValidationIsGrammarAlways == Spec => []ValidationIsGrammar
<1>1. Strings => ValidationIsGrammar
  BY ScannerIsGrammar DEF Strings, ValidationIsGrammar
<1> QED
  BY <1>1, StringsAlways, PTL

\* A filter that subscribe() accepted matches the topics of its levels, but for '+'
\* against an empty last level.
THEOREM MatchingIsLevelwiseAlways == Spec => []MatchingIsLevelwise
<1>1. Strings => MatchingIsLevelwise
  BY MatcherIsLevelwise DEF Strings, MatchingIsLevelwise, Applies
<1> QED
  BY <1>1, StringsAlways, PTL

\* get_topic_element(topic, i) is level i of the topic.
THEOREM ElementsAreLevelsAlways == Spec => []ElementsAreLevels
<1>1. Strings => ElementsAreLevels
  <2> SUFFICES ASSUME Strings, NEW i \in 0..MaxLen
               PROVE  GetTopicElement(topic, i) =
                         IF i < Len(Levels(topic)) THEN Levels(topic)[i + 1] ELSE <<>>
    BY DEF ElementsAreLevels
  <2>1. i \in Nat /\ topic \in Seq(Chars)
    BY CharsAssumption DEF Strings
  <2> QED
    BY <2>1, ElementIsLevel
<1> QED
  BY <1>1, StringsAlways, PTL
=============================================================================
