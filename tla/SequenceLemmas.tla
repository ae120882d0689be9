--------------------------- MODULE SequenceLemmas ---------------------------
(***************************************************************************)
(* What the operators of SequencesExt that the models use return,          *)
(* induction and recursion over the natural numbers, and how many elements  *)
(* of a sequence are in a set.                                              *)
(***************************************************************************)
EXTENDS Naturals, Sequences, SequencesExt, SequenceTheorems, FiniteSetTheorems,
        WellFoundedInduction, TLAPS

-----------------------------------------------------------------------------
(* Induction.  The induction theorems of the library have an operator as   *)
(* parameter; these have a set, the numbers of which something is true.    *)

LEMMA NatIsWellOrdered ==
    \E R : IsWellFoundedOn(R, Nat) /\ \A x, y \in Nat : <<y, x>> \in R <=> y < x
<1> DEFINE R == OpToRel(<, Nat)
<1>1. IsWellFoundedOn(R, Nat)
  BY NatLessThanWellFounded
<1>2. \A x, y \in Nat : <<y, x>> \in R <=> y < x
  BY DEF OpToRel
<1> QED
  BY <1>1, <1>2, Zenon

LEMMA LeastNat ==
    ASSUME NEW T \in SUBSET Nat, T # {}
    PROVE  \E x \in T : \A y \in T : x <= y
<1>1. PICK R : IsWellFoundedOn(R, Nat) /\ \A x, y \in Nat : <<y, x>> \in R <=> y < x
  BY NatIsWellOrdered, Zenon
<1>2. PICK x \in T : \A y \in T : ~(<<y, x>> \in R)
  BY <1>1, WFMin
<1>3. \A y \in T : ~(y < x)
  BY <1>1, <1>2, Zenon
<1>4. \A y \in T : x <= y
  BY <1>3
<1> QED
  BY <1>4

LEMMA StrongInduction ==
    ASSUME NEW T, \A n \in Nat : (\A m \in 0..(n - 1) : m \in T) => n \in T
    PROVE  Nat \subseteq T
<1> SUFFICES ASSUME Nat \ T # {} PROVE FALSE
  OBVIOUS
<1>1. PICK n \in Nat \ T : \A m \in Nat \ T : n <= m
  BY LeastNat
<1>2. \A m \in 0..(n - 1) : m \in T
  <2> SUFFICES ASSUME NEW m \in 0..(n - 1), m \notin T PROVE FALSE
    OBVIOUS
  <2>1. m \in Nat \ T /\ ~(n <= m)
    OBVIOUS
  <2> QED
    BY <1>1, <2>1
<1> QED
  BY <1>1, <1>2

LEMMA Induction ==
    ASSUME NEW T, 0 \in T, \A n \in Nat : n \in T => n + 1 \in T
    PROVE  Nat \subseteq T
<1> SUFFICES ASSUME NEW n \in Nat, \A m \in 0..(n - 1) : m \in T PROVE n \in T
  BY StrongInduction
<1>1. CASE n = 0
  BY <1>1
<1>2. CASE n # 0
  <2>1. n - 1 \in Nat /\ n - 1 \in 0..(n - 1) /\ (n - 1) + 1 = n
    BY <1>2
  <2> QED
    BY <2>1
<1> QED
  BY <1>1, <1>2

\* A function computed by recursion over the numbers up to n exists.
Computes(f, n, start, step) ==
    f[0] = start /\ \A i \in 1..n : f[i] = step[<<i, f[i - 1]>>]

LEMMA Recursion ==
    ASSUME NEW n \in Nat, NEW S, NEW start \in S, NEW step \in [(1..n) \X S -> S]
    PROVE  \E f \in [0..n -> S] : Computes(f, n, start, step)
<1> DEFINE T == {m \in Nat : m <= n => \E f \in [0..m -> S] : Computes(f, m, start, step)}
<1>1. 0 \in T
  <2> DEFINE f == [i \in 0..0 |-> start]
  <2>1. f \in [0..0 -> S] /\ f[0] = start
    OBVIOUS
  <2> HIDE DEF f
  <2>2. Computes(f, 0, start, step)
    BY <2>1 DEF Computes
  <2> QED
    BY <2>1, <2>2
<1>2. ASSUME NEW m \in Nat, m \in T PROVE m + 1 \in T
  <2> SUFFICES ASSUME m + 1 <= n
               PROVE  \E f \in [0..(m + 1) -> S] : Computes(f, m + 1, start, step)
    OBVIOUS
  <2>1. PICK f \in [0..m -> S] : Computes(f, m, start, step)
    BY <1>2
  <2> DEFINE next == step[<<m + 1, f[m]>>]
             g == [i \in 0..(m + 1) |-> IF i <= m THEN f[i] ELSE next]
  <2>2. f[m] \in S /\ m + 1 \in 1..n
    OBVIOUS
  <2>3. next \in S
    BY <2>2
  <2> HIDE DEF next
  <2>4. g \in [0..(m + 1) -> S] /\ g[m + 1] = next /\ \A i \in 0..m : g[i] = f[i]
    BY <2>3
  <2> HIDE DEF g
  <2>5. ASSUME NEW i \in 1..(m + 1)
        PROVE  g[i] = step[<<i, g[i - 1]>>]
    <3>1. CASE i = m + 1
      <4>1. i - 1 = m /\ g[i - 1] = f[m]
        BY <2>4, <3>1
      <4> QED
        BY <2>4, <3>1, <4>1 DEF next
    <3>2. CASE i # m + 1
      <4>1. i \in 0..m /\ i \in 1..m /\ i - 1 \in 0..m
        BY <3>2
      <4> QED
        BY <2>1, <2>4, <4>1 DEF Computes
    <3> QED
      BY <3>1, <3>2
  <2>6. g[0] = start
    BY <2>1, <2>4 DEF Computes
  <2>7. Computes(g, m + 1, start, step)
    BY <2>5, <2>6 DEF Computes
  <2> QED
    BY <2>4, <2>7
<1> HIDE DEF T
<1>3. Nat \subseteq T
  BY <1>1, <1>2, Induction
<1> QED
  BY <1>3 DEF T

-----------------------------------------------------------------------------
(* Remainders.                                                             *)

LEMMA DivMod ==
    ASSUME NEW w \in Nat \ {0}, NEW x \in Nat
    PROVE  x % w \in 0..(w - 1) /\ x \div w \in Nat /\ x = w * (x \div w) + (x % w)
<1>1. x % w \in 0..(w - 1) /\ x \div w \in Nat
  <2>1. x % w \in 0..(w - 1)
    OBVIOUS
  <2>2. x \div w \in Nat
    OBVIOUS
  <2> QED
    BY <2>1, <2>2
<1> DEFINE p == w * (x \div w)
<1>2. (x % w) = x - p
  OBVIOUS
<1>3. p \in Nat
  <2> DEFINE q == x \div w
  <2> HIDE DEF q
  <2> QED
    BY <1>1 DEF q
<1> HIDE DEF p
<1>4. x = p + (x % w)
  BY <1>2, <1>3
<1> QED
  BY <1>1, <1>4 DEF p

LEMMA ModIs ==
    ASSUME NEW w \in Nat \ {0}, NEW q \in Nat, NEW r \in 0..(w - 1)
    PROVE  (w * q + r) % w = r
OBVIOUS

LEMMA ModOfMultiple ==
    ASSUME NEW w \in Nat \ {0}, NEW x \in Nat, NEW m \in Nat
    PROVE  (x + w * m) % w = x % w
<1> DEFINE q == x \div w
           r == x % w
<1>1. r \in 0..(w - 1) /\ q \in Nat /\ x = w * q + r
  BY DivMod
<1> HIDE DEF q, r
<1>2. w * q + r + w * m = w * (q + m) + r /\ q + m \in Nat
  BY <1>1
<1>3. (w * (q + m) + r) % w = r
  BY <1>1, <1>2, ModIs
<1> QED
  BY <1>1, <1>2, <1>3 DEF r

LEMMA ModOfSum ==
    ASSUME NEW w \in Nat \ {0}, NEW x \in Nat, NEW y \in Nat
    PROVE  ((x % w) + y) % w = (x + y) % w
<1> DEFINE q == x \div w
           r == x % w
<1>1. r \in 0..(w - 1) /\ q \in Nat /\ x = w * q + r
  BY DivMod
<1> HIDE DEF q, r
<1>2. x + y = (r + y) + w * q /\ r + y \in Nat
  BY <1>1
<1>3. ((r + y) + w * q) % w = (r + y) % w
  BY <1>1, <1>2, ModOfMultiple
<1> QED
  BY <1>2, <1>3 DEF r

LEMMA Distribute ==
    ASSUME NEW b \in Nat, NEW w \in Nat, NEW q \in Nat, NEW r \in Nat
    PROVE  b * (w * q + r) = b * r + w * (b * q)
OBVIOUS

LEMMA ModIsNat ==
    ASSUME NEW w \in Nat \ {0}, NEW x \in Nat
    PROVE  x % w \in Nat
OBVIOUS

-----------------------------------------------------------------------------
(* Sequences.                                                              *)

LEMMA FunctionIsSeq ==
    ASSUME NEW T, NEW n \in Nat, NEW s \in [1..n -> T]
    PROVE  s \in Seq(T)
  BY SeqDef, Zenon

\* An element is removed; those behind it move up.
LEMMA RemoveAtType ==
    ASSUME NEW S, NEW s \in Seq(S), NEW i \in 1..Len(s)
    PROVE  /\ RemoveAt(s, i) \in Seq(S)
           /\ Len(RemoveAt(s, i)) = Len(s) - 1
           /\ \A k \in 1..(Len(s) - 1) :
                  RemoveAt(s, i)[k] = IF k < i THEN s[k] ELSE s[k + 1]
<1>1. SubSeq(s, 1, i - 1) \in Seq(S) /\ Len(SubSeq(s, 1, i - 1)) = i - 1
      /\ \A k \in 1..(i - 1) : SubSeq(s, 1, i - 1)[k] = s[k]
  BY SubSeqProperties, 1 \in Int, i - 1 \in Int
<1>2. SubSeq(s, i + 1, Len(s)) \in Seq(S) /\ Len(SubSeq(s, i + 1, Len(s))) = Len(s) - i
      /\ \A k \in 1..(Len(s) - i) : SubSeq(s, i + 1, Len(s))[k] = s[i + k]
  BY SubSeqProperties, i + 1 \in Int, Len(s) \in Int
<1> DEFINE p == SubSeq(s, 1, i - 1)
           q == SubSeq(s, i + 1, Len(s))
<1>3. RemoveAt(s, i) = p \o q
  BY DEF RemoveAt
<1>4. p \in Seq(S) /\ q \in Seq(S) /\ Len(p) = i - 1 /\ Len(q) = Len(s) - i
  BY <1>1, <1>2
<1> HIDE DEF p, q
<1>5. p \o q \in Seq(S) /\ Len(p \o q) = Len(s) - 1
  <2>1. p \o q \in Seq(S) /\ Len(p \o q) = Len(p) + Len(q)
    BY <1>4, ConcatProperties
  <2>2. Len(s) \in Int /\ i \in Int
    OBVIOUS
  <2>3. Len(p) + Len(q) = Len(s) - 1
    BY <1>4, <2>2
  <2> QED
    BY <2>1, <2>3
<1>6. ASSUME NEW k \in 1..(Len(s) - 1)
      PROVE  (p \o q)[k] = IF k < i THEN s[k] ELSE s[k + 1]
  <2>1. CASE k < i
    BY <1>1, <1>4, <2>1, ConcatProperties DEF p
  <2>2. CASE k >= i
    <3>1. k - (i - 1) \in 1..(Len(s) - i) /\ i + (k - (i - 1)) = k + 1
      BY <2>2
    <3>2. (p \o q)[k] = q[k - Len(p)]
      BY <1>4, <2>2, ConcatProperties
    <3>3. q[k - Len(p)] = s[k + 1]
      BY <1>2, <1>4, <3>1 DEF q
    <3> QED
      BY <2>2, <3>2, <3>3
  <2>3. k < i \/ k >= i
    BY k \in Int, i \in Int
  <2> QED
    BY <2>1, <2>2, <2>3
<1> QED
  BY <1>3, <1>5, <1>6

\* The last element is removed.
LEMMA FrontType ==
    ASSUME NEW S, NEW s \in Seq(S), s # <<>>
    PROVE  /\ Front(s) \in Seq(S) /\ Len(Front(s)) = Len(s) - 1
           /\ \A k \in 1..(Len(s) - 1) : Front(s)[k] = s[k]
           /\ Len(s) \in 1..Len(s) /\ Last(s) = s[Len(s)] /\ Last(s) \in S
<1>1. Len(s) \in Nat /\ Len(s) >= 1
  BY EmptySeq, LenProperties
<1>2. /\ SubSeq(s, 1, Len(s) - 1) \in Seq(S) /\ Len(SubSeq(s, 1, Len(s) - 1)) = Len(s) - 1
      /\ \A k \in 1..(Len(s) - 1) : SubSeq(s, 1, Len(s) - 1)[k] = s[k]
  <2>1. \A k \in 1..(Len(s) - 1) : k \in 1..Len(s)
    BY <1>1
  <2> DEFINE n == Len(s) - 1
  <2>2. n \in Nat /\ n <= Len(s) /\ n = n - 1 + 1 /\ 1 \in Nat
    BY <1>1
  <2> HIDE DEF n
  <2>3. /\ SubSeq(s, 1, n) \in Seq(S) /\ Len(SubSeq(s, 1, n)) = n
        /\ \A k \in 1..n : SubSeq(s, 1, n)[k] = s[k]
    BY <2>2, SMT
  <2> QED
    BY <2>3 DEF n
<1>3. Len(s) \in 1..Len(s) /\ s[Len(s)] \in S
  BY <1>1, ElementOfSeq
<1> QED
  BY <1>2, <1>3 DEF Front, Last

\* An element is put in front; the others move down.
LEMMA InFront ==
    ASSUME NEW S, NEW s \in Seq(S), NEW a \in S
    PROVE  /\ <<a>> \o s \in Seq(S) /\ Len(<<a>> \o s) = Len(s) + 1
           /\ (<<a>> \o s)[1] = a
           /\ \A k \in 1..Len(s) : (<<a>> \o s)[k + 1] = s[k]
<1>1. <<a>> \in Seq(S) /\ Len(<<a>>) = 1 /\ <<a>>[1] = a
  OBVIOUS
<1>2. Len(s) \in Nat
  OBVIOUS
<1>3. <<a>> \o s \in Seq(S) /\ Len(<<a>> \o s) = 1 + Len(s)
  BY <1>1, ConcatProperties
<1>4. (<<a>> \o s)[1] = a
  BY <1>1, <1>2, ConcatProperties
<1>5. ASSUME NEW k \in 1..Len(s) PROVE (<<a>> \o s)[k + 1] = s[k]
  <2>1. k + 1 \in 1..(1 + Len(s)) /\ ~(k + 1 <= 1) /\ (k + 1) - 1 = k
    BY <1>2
  <2> QED
    BY <1>1, <2>1, ConcatProperties
<1> QED
  BY <1>2, <1>3, <1>4, <1>5

\* The beginning of a sequence.
LEMMA Beginning ==
    ASSUME NEW S, NEW s \in Seq(S), NEW n \in 0..Len(s)
    PROVE  /\ SubSeq(s, 1, n) \in Seq(S) /\ Len(SubSeq(s, 1, n)) = n
           /\ \A k \in 1..n : SubSeq(s, 1, n)[k] = s[k]
<1>1. \A i \in 1..n : s[i] \in S
  BY ElementOfSeq
<1> QED
  BY <1>1, SubSeqProperties, 1 \in Int, n \in Int

\* A piece of it.
LEMMA Piece ==
    ASSUME NEW S, NEW s \in Seq(S), NEW a \in Nat, NEW n \in Nat, a + n <= Len(s)
    PROVE  /\ SubSeq(s, a + 1, a + n) \in Seq(S) /\ Len(SubSeq(s, a + 1, a + n)) = n
           /\ \A k \in 1..n : SubSeq(s, a + 1, a + n)[k] = s[a + k]
<1>1. \A i \in (a + 1)..(a + n) : i \in 1..Len(s) /\ s[i] \in S
  BY ElementOfSeq
<1>2. a + 1 \in Int /\ a + n \in Int
  OBVIOUS
<1>3. /\ SubSeq(s, a + 1, a + n) \in Seq(S)
      /\ Len(SubSeq(s, a + 1, a + n)) = IF a + 1 <= a + n THEN (a + n) - (a + 1) + 1 ELSE 0
      /\ \A k \in 1..((a + n) - (a + 1) + 1) : SubSeq(s, a + 1, a + n)[k] = s[(a + 1) + k - 1]
  BY <1>1, <1>2, SubSeqProperties
<1>4. (a + n) - (a + 1) + 1 = n /\ \A k \in 1..n : (a + 1) + k - 1 = a + k
  OBVIOUS
<1> QED
  BY <1>3, <1>4

\* What comes before a piece and the piece make a longer beginning.
LEMMA BeginningAndPiece ==
    ASSUME NEW S, NEW s \in Seq(S), NEW a \in Nat, NEW n \in Nat, a + n <= Len(s)
    PROVE  SubSeq(s, 1, a) \o SubSeq(s, a + 1, a + n) = SubSeq(s, 1, a + n)
<1> DEFINE p == SubSeq(s, 1, a)
           q == SubSeq(s, a + 1, a + n)
           r == SubSeq(s, 1, a + n)
<1>1. /\ p \in Seq(S) /\ Len(p) = a
      /\ \A k \in 1..a : p[k] = s[k]
  BY Beginning
<1>2. /\ q \in Seq(S) /\ Len(q) = n
      /\ \A k \in 1..n : q[k] = s[a + k]
  BY Piece
<1>3. /\ r \in Seq(S) /\ Len(r) = a + n
      /\ \A k \in 1..(a + n) : r[k] = s[k]
  BY Beginning
<1> HIDE DEF p, q, r
<1>4. p \o q \in Seq(S) /\ Len(p \o q) = a + n
  BY <1>1, <1>2, ConcatProperties
<1>5. ASSUME NEW k \in 1..(a + n) PROVE (p \o q)[k] = r[k]
  <2>1. CASE k <= a
    <3>1. k \in 1..a /\ k \in 1..(a + n)
      BY <2>1
    <3>2. (p \o q)[k] = p[k]
      BY <2>1, <3>1, <1>1, <1>2, ConcatProperties
    <3> QED
      BY <3>1, <3>2, <1>1, <1>3
  <2>2. CASE k > a
    <3>1. k - a \in 1..n /\ a + (k - a) = k
      BY <2>2
    <3>2. (p \o q)[k] = q[k - a]
      BY <2>2, <1>1, <1>2, ConcatProperties
    <3> QED
      BY <3>1, <3>2, <1>2, <1>3
  <2>3. k <= a \/ k > a
    OBVIOUS
  <2> QED
    BY <2>1, <2>2, <2>3
<1>6. p \o q = r
  BY <1>3, <1>4, <1>5, SeqEqual
<1> QED
  BY <1>6 DEF p, q, r

\* The beginning of a sequence that is continued.
LEMMA BeginningOfJoin ==
    ASSUME NEW S, NEW s \in Seq(S), NEW t \in Seq(S), NEW n \in 0..Len(s)
    PROVE  SubSeq(s \o t, 1, n) = SubSeq(s, 1, n)
<1>1. /\ SubSeq(s, 1, n) \in Seq(S) /\ Len(SubSeq(s, 1, n)) = n
      /\ \A k \in 1..n : SubSeq(s, 1, n)[k] = s[k]
  BY Beginning
<1>2. s \o t \in Seq(S) /\ Len(s \o t) = Len(s) + Len(t)
  BY ConcatProperties
<1>3. n \in 0..Len(s \o t)
  BY <1>2
<1>4. /\ SubSeq(s \o t, 1, n) \in Seq(S) /\ Len(SubSeq(s \o t, 1, n)) = n
      /\ \A k \in 1..n : SubSeq(s \o t, 1, n)[k] = (s \o t)[k]
  BY <1>2, <1>3, Beginning
<1>5. \A k \in 1..n : (s \o t)[k] = s[k]
  BY ConcatProperties
<1>6. \A k \in 1..n : SubSeq(s \o t, 1, n)[k] = SubSeq(s, 1, n)[k]
  BY <1>1, <1>4, <1>5
<1> QED
  BY <1>1, <1>4, <1>6, SeqEqual

\* A piece that is continued up to where one begins: all of it.
LEMMA WholeSequence ==
    ASSUME NEW S, NEW s \in Seq(S)
    PROVE  SubSeq(s, 1, Len(s)) = s
<1>1. /\ SubSeq(s, 1, Len(s)) \in Seq(S) /\ Len(SubSeq(s, 1, Len(s))) = Len(s)
      /\ \A k \in 1..Len(s) : SubSeq(s, 1, Len(s))[k] = s[k]
  BY Beginning
<1> QED
  BY <1>1, SeqEqual
-----------------------------------------------------------------------------
(* Counting the elements of a set among the first k of a sequence.          *)

NumIn(s, k, T) == Cardinality({j \in 1..k : s[j] \in T})

LEMMA NumInType ==
    ASSUME NEW s, NEW T, NEW k \in Nat
    PROVE  /\ IsFiniteSet({j \in 1..k : s[j] \in T})
           /\ NumIn(s, k, T) \in Nat /\ NumIn(s, k, T) <= k
<1>1. IsFiniteSet(1..k) /\ Cardinality(1..k) = k
  BY FS_Interval
<1>2. {j \in 1..k : s[j] \in T} \in SUBSET (1..k)
  OBVIOUS
<1> QED
  BY <1>1, <1>2, FS_Subset, FS_CardinalityType DEF NumIn

LEMMA NumInNone ==
    ASSUME NEW s, NEW T
    PROVE  NumIn(s, 0, T) = 0
<1>1. {j \in 1..0 : s[j] \in T} = {}
  OBVIOUS
<1> QED
  BY <1>1, FS_EmptySet DEF NumIn

LEMMA NumInNext ==
    ASSUME NEW s, NEW T, NEW k \in Nat
    PROVE  NumIn(s, k + 1, T) = NumIn(s, k, T) + (IF s[k + 1] \in T THEN 1 ELSE 0)
<1> DEFINE A == {j \in 1..k : s[j] \in T}
           B == {j \in 1..(k + 1) : s[j] \in T}
<1>1. IsFiniteSet(A) /\ k + 1 \notin A
  <2>1. IsFiniteSet({j \in 1..k : s[j] \in T})
    BY NumInType
  <2> QED
    BY <2>1
<1>2. B = IF s[k + 1] \in T THEN A \cup {k + 1} ELSE A
  OBVIOUS
<1>3. Cardinality(A) \in Nat
  BY <1>1, FS_CardinalityType
<1> HIDE DEF A, B
<1>4. Cardinality(A \cup {k + 1}) = Cardinality(A) + 1
  BY <1>1, FS_AddElement
<1> QED
  BY <1>2, <1>3, <1>4 DEF NumIn, A, B

\* What is counted depends on no more than the first k elements.
LEMMA NumInSame ==
    ASSUME NEW s, NEW t, NEW T, NEW k \in Nat, \A j \in 1..k : t[j] = s[j]
    PROVE  NumIn(t, k, T) = NumIn(s, k, T)
<1>1. {j \in 1..k : t[j] \in T} = {j \in 1..k : s[j] \in T}
  OBVIOUS
<1> QED
  BY <1>1 DEF NumIn

\* t has the n elements of s behind its first one.
Behind(s, t, n) == \A j \in 1..n : t[j] = s[j + 1]

\* Elements move up when the first one goes.
LEMMA NumInShift ==
    ASSUME NEW s, NEW t, NEW T, NEW n \in Nat, Behind(s, t, n),
           NEW m \in 0..n
    PROVE  NumIn(s, m + 1, T) = NumIn(t, m, T) + (IF s[1] \in T THEN 1 ELSE 0)
<1> DEFINE first == IF s[1] \in T THEN 1 ELSE 0
           K == {k \in Nat : k <= n => NumIn(s, k + 1, T) = NumIn(t, k, T) + first}
<1>1. 0 \in K
  <2>1. NumIn(s, 0 + 1, T) = NumIn(s, 0, T) + first
    BY NumInNext
  <2>2. NumIn(s, 0, T) = 0 /\ NumIn(t, 0, T) = 0
    BY NumInNone
  <2> QED
    BY <2>1, <2>2
<1>2. ASSUME NEW k \in Nat, k \in K PROVE k + 1 \in K
  <2> SUFFICES ASSUME k + 1 <= n
               PROVE  NumIn(s, (k + 1) + 1, T) = NumIn(t, k + 1, T) + first
    OBVIOUS
  <2>1. NumIn(s, k + 1, T) = NumIn(t, k, T) + first
    BY <1>2
  <2>2. NumIn(s, (k + 1) + 1, T) = NumIn(s, k + 1, T) + (IF s[(k + 1) + 1] \in T THEN 1 ELSE 0)
    BY NumInNext, k + 1 \in Nat
  <2>3. NumIn(t, k + 1, T) = NumIn(t, k, T) + (IF t[k + 1] \in T THEN 1 ELSE 0)
    BY NumInNext
  <2>4. t[k + 1] = s[(k + 1) + 1]
    BY k + 1 \in 1..n DEF Behind
  <2>5. NumIn(t, k, T) \in Nat
    BY NumInType
  <2> QED
    BY <2>1, <2>2, <2>3, <2>4, <2>5
<1> HIDE DEF K
<1>3. Nat \subseteq K
  BY <1>1, <1>2, Induction
<1> QED
  BY <1>3 DEF K

LEMMA NumInMonotone ==
    ASSUME NEW s, NEW T, NEW k \in Nat, NEW m \in Nat, k <= m
    PROVE  NumIn(s, k, T) <= NumIn(s, m, T)
<1>1. IsFiniteSet({j \in 1..m : s[j] \in T})
  BY NumInType
<1>2. {j \in 1..k : s[j] \in T} \in SUBSET {j \in 1..m : s[j] \in T}
  OBVIOUS
<1> QED
  BY <1>1, <1>2, FS_Subset DEF NumIn

\* If one of the elements is in the set, it is counted.
LEMMA NumInSome ==
    ASSUME NEW s, NEW T, NEW k \in Nat, NEW i \in 1..k, s[i] \in T
    PROVE  NumIn(s, k, T) >= 1
<1>1. i - 1 \in Nat /\ i = (i - 1) + 1 /\ i \in Nat /\ i <= k
  OBVIOUS
<1>2. NumIn(s, (i - 1) + 1, T) = NumIn(s, i - 1, T) + 1
  BY <1>1, NumInNext
<1>3. NumIn(s, i - 1, T) \in Nat /\ NumIn(s, k, T) \in Nat
  BY <1>1, NumInType
<1>4. NumIn(s, i, T) <= NumIn(s, k, T)
  BY <1>1, NumInMonotone
<1> QED
  BY <1>1, <1>2, <1>3, <1>4

\* and if some are counted, there is one.
LEMMA NumInWitness ==
    ASSUME NEW s, NEW T, NEW k \in Nat, NumIn(s, k, T) >= 1
    PROVE  \E i \in 1..k : s[i] \in T
<1> SUFFICES ASSUME {j \in 1..k : s[j] \in T} = {} PROVE FALSE
  OBVIOUS
<1> QED
  BY FS_EmptySet DEF NumIn

\* Counting in sequences that grow and shrink.
LEMMA NumInAppend ==
    ASSUME NEW S, NEW s \in Seq(S), NEW a \in S, NEW T
    PROVE  /\ \A k \in 0..Len(s) : NumIn(Append(s, a), k, T) = NumIn(s, k, T)
           /\ NumIn(Append(s, a), Len(s) + 1, T)
                 = NumIn(s, Len(s), T) + (IF a \in T THEN 1 ELSE 0)
<1>1. /\ Len(s) \in Nat /\ Append(s, a)[Len(s) + 1] = a
      /\ \A k \in 1..Len(s) : Append(s, a)[k] = s[k]
  BY AppendProperties, LenProperties
<1> DEFINE t == Append(s, a)
<1> HIDE DEF t
<1>2. ASSUME NEW k \in 0..Len(s) PROVE NumIn(t, k, T) = NumIn(s, k, T)
  <2>1. k \in Nat /\ \A j \in 1..k : t[j] = s[j]
    BY <1>1 DEF t
  <2> QED
    BY <2>1, NumInSame
<1>3. NumIn(t, Len(s) + 1, T) = NumIn(t, Len(s), T) + (IF t[Len(s) + 1] \in T THEN 1 ELSE 0)
  BY <1>1, NumInNext
<1>4. t[Len(s) + 1] = a /\ NumIn(t, Len(s), T) = NumIn(s, Len(s), T)
  BY <1>1, <1>2 DEF t
<1> QED
  BY <1>2, <1>3, <1>4 DEF t

LEMMA NumInTail ==
    ASSUME NEW S, NEW s \in Seq(S), s # <<>>, NEW T
    PROVE  \A k \in 0..(Len(s) - 1) :
               NumIn(s, k + 1, T) = NumIn(Tail(s), k, T) + (IF s[1] \in T THEN 1 ELSE 0)
<1>1. Len(s) \in Nat /\ Len(s) >= 1
  BY EmptySeq, LenProperties
<1>2. \A k \in 1..(Len(s) - 1) : Tail(s)[k] = s[k + 1]
  BY <1>1, HeadTailProperties
<1> DEFINE n == Len(s) - 1
           t == Tail(s)
<1>3. n \in Nat /\ Behind(s, t, n)
  BY <1>1, <1>2 DEF Behind
<1> HIDE DEF n, t
<1>4. ASSUME NEW m \in 0..n
      PROVE  NumIn(s, m + 1, T) = NumIn(t, m, T) + (IF s[1] \in T THEN 1 ELSE 0)
  BY <1>3, NumInShift
<1> QED
  BY <1>4 DEF n, t

LEMMA NumInFront ==
    ASSUME NEW S, NEW s \in Seq(S), NEW a \in S, NEW T
    PROVE  NumIn(<<a>> \o s, Len(s) + 1, T) = NumIn(s, Len(s), T) + (IF a \in T THEN 1 ELSE 0)
<1>1. /\ (<<a>> \o s)[1] = a /\ Len(s) \in Nat
      /\ \A k \in 1..Len(s) : s[k] = (<<a>> \o s)[k + 1]
  BY InFront
<1> DEFINE t == <<a>> \o s
<1> HIDE DEF t
<1> DEFINE n == Len(s)
<1>2. n \in Nat /\ n \in 0..n /\ Behind(t, s, n)
  BY <1>1 DEF t, Behind
<1> HIDE DEF n
<1>3. NumIn(t, n + 1, T) = NumIn(s, n, T) + (IF t[1] \in T THEN 1 ELSE 0)
  BY <1>2, NumInShift
<1> QED
  BY <1>1, <1>3 DEF t, n
=============================================================================
