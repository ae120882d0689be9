--------------------------- MODULE Receiver_proofs ---------------------------
(***************************************************************************)
(* Theorems about Receiver, for any packets, sizes, addresses, filters and  *)
(* nested callbacks.                                                        *)
(*                                                                         *)
(* First the stream (Framing): where packets end in it, that read_header     *)
(* gets the length out of the digits that write_packet_length writes, and    *)
(* the invariant that what is left of the packet being handled ends where it *)
(* ends, that outer packets are read to their end, and that whatever is      *)
(* acknowledged was offered.                                                *)
(*                                                                         *)
(* Then the subscription list (Subscriptions): it is sound, the pointers     *)
(* that loops hold into it while application code runs are used safely, and  *)
(* renewing the subscriptions misses none.                                  *)
(***************************************************************************)
EXTENDS Receiver, SequenceLemmas, FiniteSetTheorems

-----------------------------------------------------------------------------
(* Where packets end.                                                      *)

SizeOf(p) == HeaderSize(p) + BodySize(p)

Ends(s, k, f) == f = [i \in 0..k |-> IF i = 0 THEN 0 ELSE f[i - 1] + SizeOf(s[i])]

LEMMA EndsExist == \A s : \A k \in Nat : \E f : Ends(s, k, f)
<1> SUFFICES ASSUME NEW s PROVE \A k \in Nat : \E f : Ends(s, k, f)
  OBVIOUS
<1> DEFINE T == {k \in Nat : \E f : Ends(s, k, f)}
<1>1. 0 \in T
  <2> DEFINE f == [i \in 0..0 |-> 0]
  <2>1. Ends(s, 0, f)
    BY DEF Ends
  <2> QED
    BY <2>1
<1>2. ASSUME NEW k \in Nat, k \in T PROVE k + 1 \in T
  <2>1. PICK f : Ends(s, k, f)
    BY <1>2
  <2> DEFINE g == [i \in 0..(k + 1) |-> IF i <= k THEN f[i] ELSE f[k] + SizeOf(s[k + 1])]
  <2>2. \A i \in 0..k : f[i] = IF i = 0 THEN 0 ELSE f[i - 1] + SizeOf(s[i])
    BY <2>1 DEF Ends
  <2>3. ASSUME NEW i \in 0..(k + 1)
        PROVE  g[i] = IF i = 0 THEN 0 ELSE g[i - 1] + SizeOf(s[i])
    <3>1. CASE i = k + 1
      <4>1. g[i] = f[k] + SizeOf(s[i]) /\ g[i - 1] = f[k] /\ i # 0
        BY <3>1
      <4> QED
        BY <4>1
    <3>2. CASE i # k + 1
      <4>1. i \in 0..k /\ (i # 0 => i - 1 \in 0..k)
        BY <3>2
      <4>2. g[i] = f[i] /\ (i # 0 => g[i - 1] = f[i - 1])
        BY <4>1
      <4> HIDE DEF g
      <4> QED
        BY <2>2, <4>1, <4>2
    <3> QED
      BY <3>1, <3>2
  <2>4. g = [i \in 0..(k + 1) |-> g[i]]
    OBVIOUS
  <2> HIDE DEF g
  <2>5. Ends(s, k + 1, g)
    BY <2>3, <2>4 DEF Ends
  <2> QED
    BY <2>5
<1> HIDE DEF T
<1>3. Nat \subseteq T
  BY <1>1, <1>2, Induction
<1> QED
  BY <1>3 DEF T

\* Two of them agree as far as both go.
LEMMA EndsAgree ==
    ASSUME NEW s, NEW k \in Nat, NEW m \in Nat, NEW f, NEW g, Ends(s, k, f), Ends(s, m, g),
           k <= m
    PROVE  f[k] = g[k]
<1> DEFINE T == {i \in Nat : i <= k => f[i] = g[i]}
<1>1. \A i \in 0..k : /\ f[i] = IF i = 0 THEN 0 ELSE f[i - 1] + SizeOf(s[i])
                      /\ g[i] = IF i = 0 THEN 0 ELSE g[i - 1] + SizeOf(s[i])
  BY DEF Ends
<1>2. 0 \in T
  BY <1>1
<1>3. ASSUME NEW i \in Nat, i \in T PROVE i + 1 \in T
  <2> SUFFICES ASSUME i + 1 <= k PROVE f[i + 1] = g[i + 1]
    OBVIOUS
  <2>1. f[i] = g[i] /\ i + 1 \in 0..k /\ i + 1 # 0 /\ (i + 1) - 1 = i
    BY <1>3
  <2> QED
    BY <1>1, <2>1
<1> HIDE DEF T
<1>4. Nat \subseteq T
  BY <1>2, <1>3, Induction
<1> QED
  BY <1>4 DEF T

\* EndIn does what its recursion says.
LEMMA EndInIs ==
    ASSUME NEW s
    PROVE  /\ EndIn(s, 0) = 0
           /\ \A k \in Nat : EndIn(s, k + 1) = EndIn(s, k) + SizeOf(s[k + 1])
<1>1. ASSUME NEW k \in Nat PROVE \E f : Ends(s, k, f) /\ EndIn(s, k) = f[k]
  <2> DEFINE f == CHOOSE g : Ends(s, k, g)
  <2>1. Ends(s, k, f)
    BY EndsExist
  <2>2. EndIn(s, k) = f[k]
    BY DEF EndIn, Ends, SizeOf
  <2> QED
    BY <2>1, <2>2
<1>2. EndIn(s, 0) = 0
  <2>1. PICK f : Ends(s, 0, f) /\ EndIn(s, 0) = f[0]
    BY <1>1
  <2> QED
    BY <2>1 DEF Ends
<1>3. ASSUME NEW k \in Nat PROVE EndIn(s, k + 1) = EndIn(s, k) + SizeOf(s[k + 1])
  <2>1. PICK f : Ends(s, k, f) /\ EndIn(s, k) = f[k]
    BY <1>1
  <2>2. PICK g : Ends(s, k + 1, g) /\ EndIn(s, k + 1) = g[k + 1]
    BY <1>1
  <2>3. f[k] = g[k]
    BY <2>1, <2>2, EndsAgree
  <2>4. g[k + 1] = g[k] + SizeOf(s[k + 1])
    BY <2>2 DEF Ends
  <2> QED
    BY <2>1, <2>2, <2>3, <2>4
<1> QED
  BY <1>2, <1>3

Places(k, f) == f = [i \in 0..k |-> IF i = 0 THEN 1 ELSE Base * f[i - 1]]

LEMMA PlacesExist == \A k \in Nat : \E f : Places(k, f)
<1> DEFINE T == {k \in Nat : \E f : Places(k, f)}
<1>1. 0 \in T
  <2> DEFINE f == [i \in 0..0 |-> 1]
  <2>1. Places(0, f)
    BY DEF Places
  <2> QED
    BY <2>1
<1>2. ASSUME NEW k \in Nat, k \in T PROVE k + 1 \in T
  <2>1. PICK f : Places(k, f)
    BY <1>2
  <2> DEFINE g == [i \in 0..(k + 1) |-> IF i <= k THEN f[i] ELSE Base * f[k]]
  <2>2. \A i \in 0..k : f[i] = IF i = 0 THEN 1 ELSE Base * f[i - 1]
    BY <2>1 DEF Places
  <2>3. ASSUME NEW i \in 0..(k + 1)
        PROVE  g[i] = IF i = 0 THEN 1 ELSE Base * g[i - 1]
    <3>1. CASE i = k + 1
      <4>1. g[i] = Base * f[k] /\ g[i - 1] = f[k] /\ i # 0
        BY <3>1
      <4> QED
        BY <4>1
    <3>2. CASE i # k + 1
      <4>1. i \in 0..k /\ (i # 0 => i - 1 \in 0..k)
        BY <3>2
      <4>2. g[i] = f[i] /\ (i # 0 => g[i - 1] = f[i - 1])
        BY <4>1
      <4> HIDE DEF g
      <4> QED
        BY <2>2, <4>1, <4>2
    <3> QED
      BY <3>1, <3>2
  <2>4. g = [i \in 0..(k + 1) |-> g[i]]
    OBVIOUS
  <2> HIDE DEF g
  <2>5. Places(k + 1, g)
    BY <2>3, <2>4 DEF Places
  <2> QED
    BY <2>5
<1> HIDE DEF T
<1>3. Nat \subseteq T
  BY <1>1, <1>2, Induction
<1> QED
  BY <1>3 DEF T

LEMMA PlacesAgree ==
    ASSUME NEW k \in Nat, NEW m \in Nat, NEW f, NEW g, Places(k, f), Places(m, g),
           k <= m
    PROVE  f[k] = g[k]
<1> DEFINE T == {i \in Nat : i <= k => f[i] = g[i]}
<1>1. \A i \in 0..k : /\ f[i] = IF i = 0 THEN 1 ELSE Base * f[i - 1]
                      /\ g[i] = IF i = 0 THEN 1 ELSE Base * g[i - 1]
  BY DEF Places
<1>2. 0 \in T
  BY <1>1
<1>3. ASSUME NEW i \in Nat, i \in T PROVE i + 1 \in T
  <2> SUFFICES ASSUME i + 1 <= k PROVE f[i + 1] = g[i + 1]
    OBVIOUS
  <2>1. f[i] = g[i] /\ i + 1 \in 0..k /\ i + 1 # 0 /\ (i + 1) - 1 = i
    BY <1>3
  <2> QED
    BY <1>1, <2>1
<1> HIDE DEF T
<1>4. Nat \subseteq T
  BY <1>2, <1>3, Induction
<1> QED
  BY <1>4 DEF T

LEMMA DigitPlaceIs ==
    /\ DigitPlace(0) = 1
    /\ \A k \in Nat : DigitPlace(k + 1) = Base * DigitPlace(k)
    /\ \A k \in Nat : DigitPlace(k) \in Nat
<1>1. ASSUME NEW k \in Nat PROVE \E f : Places(k, f) /\ DigitPlace(k) = f[k]
  <2> DEFINE f == CHOOSE g : Places(k, g)
  <2>1. Places(k, f)
    BY PlacesExist
  <2>2. DigitPlace(k) = f[k]
    BY DEF DigitPlace, Places
  <2> QED
    BY <2>1, <2>2
<1>2. DigitPlace(0) = 1
  <2>1. PICK f : Places(0, f) /\ DigitPlace(0) = f[0]
    BY <1>1
  <2> QED
    BY <2>1 DEF Places
<1>3. ASSUME NEW k \in Nat PROVE DigitPlace(k + 1) = Base * DigitPlace(k)
  <2>1. PICK f : Places(k, f) /\ DigitPlace(k) = f[k]
    BY <1>1
  <2>2. PICK g : Places(k + 1, g) /\ DigitPlace(k + 1) = g[k + 1]
    BY <1>1
  <2>3. f[k] = g[k]
    BY <2>1, <2>2, PlacesAgree
  <2>4. g[k + 1] = Base * g[k]
    BY <2>2 DEF Places
  <2> QED
    BY <2>1, <2>2, <2>3, <2>4
<1> DEFINE T == {k \in Nat : DigitPlace(k) \in Nat}
<1>4. 0 \in T
  BY <1>2
<1>5. ASSUME NEW k \in Nat, k \in T PROVE k + 1 \in T
  BY <1>3, <1>5, FramingAssumption
<1> HIDE DEF T
<1>6. Nat \subseteq T
  BY <1>4, <1>5, Induction
<1> QED
  BY <1>2, <1>3, <1>6 DEF T

Values(d, k, f) == f = [i \in 0..k |-> IF i = 0 THEN 0 ELSE (f[i - 1] + (d[i] % Base) * DigitPlace(i - 1)) % Width]

LEMMA ValuesExist == \A d : \A k \in Nat : \E f : Values(d, k, f)
<1> SUFFICES ASSUME NEW d PROVE \A k \in Nat : \E f : Values(d, k, f)
  OBVIOUS
<1> DEFINE T == {k \in Nat : \E f : Values(d, k, f)}
<1>1. 0 \in T
  <2> DEFINE f == [i \in 0..0 |-> 0]
  <2>1. Values(d, 0, f)
    BY DEF Values
  <2> QED
    BY <2>1
<1>2. ASSUME NEW k \in Nat, k \in T PROVE k + 1 \in T
  <2>1. PICK f : Values(d, k, f)
    BY <1>2
  <2> DEFINE g == [i \in 0..(k + 1) |-> IF i <= k THEN f[i] ELSE (f[k] + (d[k + 1] % Base) * DigitPlace(k)) % Width]
  <2>2. \A i \in 0..k : f[i] = IF i = 0 THEN 0 ELSE (f[i - 1] + (d[i] % Base) * DigitPlace(i - 1)) % Width
    BY <2>1 DEF Values
  <2>3. ASSUME NEW i \in 0..(k + 1)
        PROVE  g[i] = IF i = 0 THEN 0 ELSE (g[i - 1] + (d[i] % Base) * DigitPlace(i - 1)) % Width
    <3>1. CASE i = k + 1
      <4>1. g[i] = (f[k] + (d[i] % Base) * DigitPlace(i - 1)) % Width /\ g[i - 1] = f[k] /\ i # 0
        BY <3>1
      <4> QED
        BY <4>1
    <3>2. CASE i # k + 1
      <4>1. i \in 0..k /\ (i # 0 => i - 1 \in 0..k)
        BY <3>2
      <4>2. g[i] = f[i] /\ (i # 0 => g[i - 1] = f[i - 1])
        BY <4>1
      <4> HIDE DEF g
      <4> QED
        BY <2>2, <4>1, <4>2
    <3> QED
      BY <3>1, <3>2
  <2>4. g = [i \in 0..(k + 1) |-> g[i]]
    OBVIOUS
  <2> HIDE DEF g
  <2>5. Values(d, k + 1, g)
    BY <2>3, <2>4 DEF Values
  <2> QED
    BY <2>5
<1> HIDE DEF T
<1>3. Nat \subseteq T
  BY <1>1, <1>2, Induction
<1> QED
  BY <1>3 DEF T

LEMMA ValuesAgree ==
    ASSUME NEW d, NEW k \in Nat, NEW m \in Nat, NEW f, NEW g, Values(d, k, f), Values(d, m, g),
           k <= m
    PROVE  f[k] = g[k]
<1> DEFINE T == {i \in Nat : i <= k => f[i] = g[i]}
<1>1. \A i \in 0..k : /\ f[i] = IF i = 0 THEN 0 ELSE (f[i - 1] + (d[i] % Base) * DigitPlace(i - 1)) % Width
                      /\ g[i] = IF i = 0 THEN 0 ELSE (g[i - 1] + (d[i] % Base) * DigitPlace(i - 1)) % Width
  BY DEF Values
<1>2. 0 \in T
  BY <1>1
<1>3. ASSUME NEW i \in Nat, i \in T PROVE i + 1 \in T
  <2> SUFFICES ASSUME i + 1 <= k PROVE f[i + 1] = g[i + 1]
    OBVIOUS
  <2>1. f[i] = g[i] /\ i + 1 \in 0..k /\ i + 1 # 0 /\ (i + 1) - 1 = i
    BY <1>3
  <2> QED
    BY <1>1, <2>1
<1> HIDE DEF T
<1>4. Nat \subseteq T
  BY <1>2, <1>3, Induction
<1> QED
  BY <1>4 DEF T

Value(d, k) ==
    LET value[i \in 0..k] == IF i = 0 THEN 0
                             ELSE (value[i - 1] + (d[i] % Base) * DigitPlace(i - 1)) % Width
    IN  value[k]

LEMMA ValueIs ==
    ASSUME NEW d
    PROVE  /\ Value(d, 0) = 0 /\ DecodedSize(d) = Value(d, Len(d))
           /\ \A k \in Nat :
                 Value(d, k + 1) = (Value(d, k) + (d[k + 1] % Base) * DigitPlace(k)) % Width
<1>1. ASSUME NEW k \in Nat PROVE \E f : Values(d, k, f) /\ Value(d, k) = f[k]
  <2> DEFINE f == CHOOSE g : Values(d, k, g)
  <2>1. Values(d, k, f)
    BY ValuesExist
  <2>2. Value(d, k) = f[k]
    BY DEF Value, Values
  <2> QED
    BY <2>1, <2>2
<1>2. Value(d, 0) = 0
  <2>1. PICK f : Values(d, 0, f) /\ Value(d, 0) = f[0]
    BY <1>1
  <2> QED
    BY <2>1 DEF Values
<1>3. ASSUME NEW k \in Nat
      PROVE  Value(d, k + 1) = (Value(d, k) + (d[k + 1] % Base) * DigitPlace(k)) % Width
  <2>1. PICK f : Values(d, k, f) /\ Value(d, k) = f[k]
    BY <1>1
  <2>2. PICK g : Values(d, k + 1, g) /\ Value(d, k + 1) = g[k + 1]
    BY <1>1
  <2>3. f[k] = g[k]
    BY <2>1, <2>2, ValuesAgree
  <2>4. k + 1 \in 0..(k + 1) /\ k + 1 # 0 /\ (k + 1) - 1 = k
    OBVIOUS
  <2>5. \A i \in 0..(k + 1) :
           g[i] = IF i = 0 THEN 0 ELSE (g[i - 1] + (d[i] % Base) * DigitPlace(i - 1)) % Width
    BY <2>2 DEF Values
  <2>6. g[k + 1] = (g[k] + (d[k + 1] % Base) * DigitPlace(k)) % Width
    BY <2>4, <2>5
  <2> QED
    BY <2>1, <2>2, <2>3, <2>6
<1>4. DecodedSize(d) = Value(d, Len(d))
  BY DEF DecodedSize, Value
<1> QED
  BY <1>2, <1>3, <1>4

-----------------------------------------------------------------------------
(* The length of a packet survives the coding.                             *)

LEMMA Bases == Base \in Nat /\ Base >= 2 /\ Base \in Nat \ {0} /\ Width \in Nat \ {0}
BY FramingAssumption

LEMMA ModOfProduct ==
    ASSUME NEW x \in Nat, NEW y \in Nat
    PROVE  (x + Base * (y % Width)) % Width = (x + Base * y) % Width
<1> DEFINE q == y \div Width
           r == y % Width
<1>1. r \in 0..(Width - 1) /\ q \in Nat /\ y = Width * q + r
  BY Bases, DivMod
<1> HIDE DEF q, r
<1> DEFINE by == Base * y
           br == Base * r
           wbq == Width * (Base * q)
<1>2. by = br + wbq /\ by \in Nat /\ br \in Nat /\ Base * q \in Nat /\ wbq \in Nat
  BY <1>1, Bases, Distribute
<1>3. x + Base * y = (x + Base * r) + Width * (Base * q) /\ x + Base * r \in Nat
  <2> HIDE DEF by, br, wbq
  <2>1. x + by = (x + br) + wbq /\ x + br \in Nat
    BY <1>2
  <2> QED
    BY <2>1 DEF by, br, wbq
<1>4. ((x + Base * r) + Width * (Base * q)) % Width = (x + Base * r) % Width
  BY <1>2, <1>3, Bases, ModOfMultiple
<1> QED
  BY <1>3, <1>4 DEF r

LEMMA DigitIsNat ==
    ASSUME NEW x \in Nat, NEW k \in Nat
    PROVE  (x % Base) \in Nat /\ (x % Base) * DigitPlace(k) \in Nat
<1> DEFINE r == x % Base
           p == DigitPlace(k)
<1>1. r \in Nat
  BY Bases, ModIsNat
<1>2. p \in Nat
  BY DigitPlaceIs
<1> HIDE DEF r, p
<1>3. r * p \in Nat
  BY <1>1, <1>2
<1> QED
  BY <1>1, <1>3 DEF r, p

LEMMA ValueIsNat ==
    ASSUME NEW d \in Seq(Nat)
    PROVE  \A k \in Nat : k <= Len(d) => Value(d, k) \in Nat
<1> DEFINE T == {k \in Nat : k <= Len(d) => Value(d, k) \in Nat}
<1>1. 0 \in T
  BY ValueIs
<1>2. ASSUME NEW k \in Nat, k \in T PROVE k + 1 \in T
  <2> SUFFICES ASSUME k + 1 <= Len(d) PROVE Value(d, k + 1) \in Nat
    OBVIOUS
  <2> DEFINE v == Value(d, k)
             a == (d[k + 1] % Base) * DigitPlace(k)
  <2>1. v \in Nat
    BY <1>2, LenProperties
  <2>2. d[k + 1] \in Nat
    BY ElementOfSeq
  <2>3. a \in Nat
    BY <2>2, DigitIsNat
  <2>4. Value(d, k + 1) = (v + a) % Width
    BY ValueIs
  <2> HIDE DEF v, a
  <2>5. (v + a) % Width \in Nat
    <3>1. v + a \in Nat
      BY <2>1, <2>3
    <3> QED
      BY <3>1, Bases, ModIsNat
  <2> QED
    BY <2>4, <2>5
<1> HIDE DEF T
<1>3. Nat \subseteq T
  BY <1>1, <1>2, Induction
<1> QED
  BY <1>3 DEF T

\* A digit in front shifts the others.
LEMMA ValueOfMore ==
    ASSUME NEW x \in Nat, NEW s \in Seq(Nat)
    PROVE  \A k \in Nat : k <= Len(s) =>
              Value(<<x>> \o s, k + 1) = ((x % Base) + Base * Value(s, k)) % Width
<1> DEFINE d == <<x>> \o s
           r == x % Base
           T == {k \in Nat : k <= Len(s) => Value(d, k + 1) = (r + Base * Value(s, k)) % Width}
<1>1. d \in Seq(Nat) /\ Len(d) = Len(s) + 1 /\ d[1] = x /\ \A k \in 1..Len(s) : d[k + 1] = s[k]
  BY InFront
<1>2. r \in Nat
  BY Bases, ModIsNat
<1>3. Value(d, 0 + 1) = (Value(d, 0) + (d[0 + 1] % Base) * DigitPlace(0)) % Width
  BY ValueIs
<1>4. Value(d, 0) = 0 /\ Value(s, 0) = 0 /\ d[0 + 1] % Base = r /\ DigitPlace(0) = 1
  BY <1>1, ValueIs, DigitPlaceIs
<1> HIDE DEF d, r
<1>5. 0 \in T
  <2>1. 0 + r * 1 = r + Base * 0
    BY <1>2, Bases
  <2> QED
    BY <1>3, <1>4, <2>1
<1>6. ASSUME NEW k \in Nat, k \in T PROVE k + 1 \in T
  <2> SUFFICES ASSUME k + 1 <= Len(s)
               PROVE  Value(d, k + 1 + 1) = (r + Base * Value(s, k + 1)) % Width
    OBVIOUS
  <2> DEFINE v == Value(s, k)
             y == s[k + 1] % Base
             p == DigitPlace(k)
  <2>1. k + 1 \in 1..Len(s) /\ k <= Len(s) /\ Len(s) \in Nat
    BY LenProperties
  <2>2. v \in Nat
    BY <2>1, ValueIsNat
  <2>3. y \in Nat /\ p \in Nat
    <3>1. s[k + 1] \in Nat
      BY <2>1, ElementOfSeq
    <3>2. y \in Nat
      BY <3>1, Bases, ModIsNat
    <3> QED
      BY <3>2, DigitPlaceIs
  <2>4. Value(d, k + 1) = (r + Base * v) % Width
    BY <1>6, <2>1
  <2>5. Value(d, k + 1 + 1) = (Value(d, k + 1) + (d[k + 1 + 1] % Base) * DigitPlace(k + 1)) % Width
    BY ValueIs
  <2>6. d[k + 1 + 1] = s[k + 1] /\ DigitPlace(k + 1) = Base * p
    BY <1>1, <2>1, DigitPlaceIs
  <2>7. Value(s, k + 1) = (v + y * p) % Width
    BY ValueIs
  <2>8. Value(d, k + 1 + 1) = (((r + Base * v) % Width) + y * (Base * p)) % Width
    BY <2>4, <2>5, <2>6
  <2> HIDE DEF v, y, p
  <2>9. y * p \in Nat /\ Base * v \in Nat /\ y * (Base * p) = Base * (y * p)
        /\ y * (Base * p) \in Nat
    BY <2>2, <2>3, Bases
  <2>10. Base * (v + y * p) = Base * v + Base * (y * p)
    <3> DEFINE yp == y * p
    <3>1. yp \in Nat
      BY <2>9
    <3> HIDE DEF yp
    <3>2. Base * (v + yp) = Base * v + Base * yp
      BY <2>2, <3>1, Bases
    <3> QED
      BY <3>2 DEF yp
  <2>11. (((r + Base * v) % Width) + y * (Base * p)) % Width
         = ((r + Base * v) + y * (Base * p)) % Width
    <3>1. r + Base * v \in Nat
      BY <1>2, <2>9
    <3> QED
      BY <2>9, <3>1, Bases, ModOfSum
  <2>12. (r + Base * v) + y * (Base * p) = r + Base * (v + y * p)
    <3> DEFINE bv == Base * v
               byp == Base * (y * p)
    <3>1. bv \in Nat /\ byp \in Nat
      BY <2>9
    <3>2. Base * (v + y * p) = bv + byp /\ y * (Base * p) = byp
      BY <2>9, <2>10
    <3> HIDE DEF bv, byp
    <3>3. (r + bv) + byp = r + (bv + byp)
      BY <1>2, <3>1
    <3> QED
      BY <3>2, <3>3 DEF bv
  <2>13. (r + Base * ((v + y * p) % Width)) % Width = (r + Base * (v + y * p)) % Width
    <3>1. v + y * p \in Nat
      BY <2>2, <2>9
    <3> QED
      BY <1>2, <3>1, Bases, ModOfProduct
  <2> QED
    BY <2>7, <2>8, <2>11, <2>12, <2>13
<1> HIDE DEF T
<1>7. Nat \subseteq T
  BY <1>5, <1>6, Induction
<1> QED
  BY <1>7 DEF T, d, r

LEMMA DivIsLess ==
    ASSUME NEW n \in Nat, n >= Base
    PROVE  n \div Base \in 0..(n - 1)
<1> DEFINE q == n \div Base
<1>1. q \in Nat /\ n = Base * q + (n % Base) /\ (n % Base) \in Nat
  BY Bases, DivMod, ModIsNat
<1> DEFINE r == n % Base
           bq == Base * q
<1> HIDE DEF q
<1>2. bq \in Nat /\ bq <= n
  <2>1. bq \in Nat
    BY <1>1, Bases
  <2>2. r \in Nat /\ n = bq + r
    BY <1>1
  <2> HIDE DEF bq, r
  <2> QED
    BY <2>1, <2>2
<1>3. q + q <= bq
  <2>1. PICK b \in Nat : Base = b + 2
    <3>1. Base - 2 \in Nat /\ Base = (Base - 2) + 2
      BY Bases
    <3> QED
      BY <3>1
  <2>2. bq = b * q + (q + q) /\ b * q \in Nat
    BY <1>1, <2>1
  <2> DEFINE p == b * q
  <2>3. bq = p + (q + q) /\ p \in Nat
    BY <2>2
  <2> HIDE DEF p, bq
  <2> QED
    BY <1>1, <2>3
<1> HIDE DEF bq
<1>4. q <= n - 1
  <2>1. n >= 2
    BY Bases
  <2> QED
    BY <1>1, <1>2, <1>3, <2>1
<1> QED
  BY <1>1, <1>4 DEF q

\* The digits of n, where those of n \div Base are known.
Written(n, rest) == IF n < Base THEN <<n>> ELSE <<(n % Base) + Base>> \o rest

Digits(k, f) == f = [n \in 0..k |-> Written(n, f[n \div Base])]

LEMMA WrittenSmall ==
    ASSUME NEW n \in Nat, n < Base, NEW rest, NEW other
    PROVE  Written(n, rest) = Written(n, other)
  BY Bases DEF Written

LEMMA WrittenLarge ==
    ASSUME NEW n \in Nat, n >= Base, NEW rest
    PROVE  Written(n, rest) = <<(n % Base) + Base>> \o rest
<1>1. ~(n < Base)
  BY Bases
<1> QED
  BY <1>1, Zenon DEF Written

LEMMA DigitsExist == \A k \in Nat : \E f : Digits(k, f)
<1> DEFINE T == {k \in Nat : \E f : Digits(k, f)}
<1>1. 0 \in T
  <2> DEFINE f == [n \in 0..0 |-> <<n>>]
  <2>1. \A n \in 0..0 : n < Base
    BY Bases
  <2>2. \A n \in 0..0 : <<n>> = Written(n, f[n \div Base])
    BY <2>1 DEF Written
  <2>3. Digits(0, f)
    BY <2>2, Zenon DEF Digits
  <2> QED
    BY <2>3
<1>2. ASSUME NEW k \in Nat, k \in T PROVE k + 1 \in T
  <2>1. PICK f : Digits(k, f)
    BY <1>2
  <2> DEFINE g == [n \in 0..(k + 1) |->
                      IF n <= k THEN f[n] ELSE Written(n, f[n \div Base])]
  <2>2. \A n \in 0..k : f[n] = Written(n, f[n \div Base])
    BY <2>1 DEF Digits
  <2>3. \A n \in 0..(k + 1) : g[n] = IF n <= k THEN f[n] ELSE Written(n, f[n \div Base])
    OBVIOUS
  <2>4. g = [n \in 0..(k + 1) |-> g[n]]
    OBVIOUS
  <2> HIDE DEF g
  <2>5. ASSUME NEW n \in 0..(k + 1)
        PROVE  g[n] = Written(n, g[n \div Base])
    <3>1. g[n] = Written(n, f[n \div Base])
      BY <2>2, <2>3
    <3>2. n >= Base => g[n \div Base] = f[n \div Base]
      <4> SUFFICES ASSUME n >= Base PROVE g[n \div Base] = f[n \div Base]
        OBVIOUS
      <4>1. n \div Base \in 0..(n - 1)
        BY DivIsLess
      <4>2. n \div Base \in 0..(k + 1) /\ n \div Base <= k
        BY <4>1
      <4> QED
        BY <2>3, <4>2
    <3>3. CASE n < Base
      <4>1. Written(n, f[n \div Base]) = Written(n, g[n \div Base])
        BY <3>3, WrittenSmall
      <4> QED
        BY <3>1, <4>1
    <3>4. CASE n >= Base
      BY <3>1, <3>2, <3>4
    <3>5. n < Base \/ n >= Base
      BY Bases
    <3> QED
      BY <3>3, <3>4, <3>5
  <2>6. Digits(k + 1, g)
    BY <2>4, <2>5 DEF Digits
  <2> QED
    BY <2>6
<1> HIDE DEF T
<1>3. Nat \subseteq T
  BY <1>1, <1>2, Induction
<1> QED
  BY <1>3 DEF T

LEMMA DigitsAgree ==
    ASSUME NEW k \in Nat, NEW m \in Nat, NEW f, NEW g, Digits(k, f), Digits(m, g), k <= m
    PROVE  f[k] = g[k]
<1> DEFINE T == {n \in Nat : n <= k => f[n] = g[n]}
<1>1. \A n \in 0..k :
         /\ f[n] = Written(n, f[n \div Base])
         /\ g[n] = Written(n, g[n \div Base])
  BY DEF Digits
<1>2. ASSUME NEW n \in Nat, \A i \in 0..(n - 1) : i \in T PROVE n \in T
  <2> SUFFICES ASSUME n <= k PROVE f[n] = g[n]
    OBVIOUS
  <2>1. n >= Base => f[n \div Base] = g[n \div Base]
    <3> SUFFICES ASSUME n >= Base PROVE f[n \div Base] = g[n \div Base]
      OBVIOUS
    <3>1. n \div Base \in 0..(n - 1)
      BY DivIsLess
    <3>2. n \div Base <= k
      BY <3>1
    <3> QED
      BY <1>2, <3>1, <3>2
  <2>2. n < Base => Written(n, f[n \div Base]) = Written(n, g[n \div Base])
    BY WrittenSmall
  <2>3. n \in 0..k /\ (n < Base \/ n >= Base)
    BY Bases
  <2> QED
    BY <1>1, <2>1, <2>2, <2>3
<1> HIDE DEF T
<1>3. Nat \subseteq T
  BY <1>2, StrongInduction
<1> QED
  BY <1>3 DEF T

LEMMA LengthDigitsIs ==
    ASSUME NEW n \in Nat
    PROVE  LengthDigits(n) = Written(n, LengthDigits(n \div Base))
<1>1. ASSUME NEW k \in Nat PROVE \E f : Digits(k, f) /\ LengthDigits(k) = f[k]
  <2> DEFINE f == CHOOSE g : Digits(k, g)
  <2>1. Digits(k, f)
    BY DigitsExist
  <2>2. LengthDigits(k) = f[k]
    BY DEF LengthDigits, Digits, Written
  <2> QED
    BY <2>1, <2>2
<1>2. PICK f : Digits(n, f) /\ LengthDigits(n) = f[n]
  BY <1>1
<1>3. f[n] = Written(n, f[n \div Base])
  BY <1>2 DEF Digits
<1>4. n >= Base => f[n \div Base] = LengthDigits(n \div Base)
  <2> SUFFICES ASSUME n >= Base PROVE f[n \div Base] = LengthDigits(n \div Base)
    OBVIOUS
  <2> DEFINE q == n \div Base
  <2>1. q \in 0..(n - 1)
    BY DivIsLess
  <2> HIDE DEF q
  <2>2. q \in Nat /\ q <= n
    BY <2>1
  <2>3. PICK g : Digits(q, g) /\ LengthDigits(q) = g[q]
    BY <1>1, <2>2
  <2>4. g[q] = f[q]
    BY <1>2, <2>2, <2>3, DigitsAgree
  <2> QED
    BY <2>3, <2>4 DEF q
<1>5. n < Base \/ n >= Base
  BY Bases
<1> QED
  BY <1>2, <1>3, <1>4, <1>5, WrittenSmall

LEMMA LengthDigitsAre == \A n \in Nat : LengthDigits(n) \in Seq(Nat) /\ Len(LengthDigits(n)) >= 1
<1> DEFINE T == {n \in Nat : LengthDigits(n) \in Seq(Nat) /\ Len(LengthDigits(n)) >= 1}
<1>1. ASSUME NEW n \in Nat, \A i \in 0..(n - 1) : i \in T PROVE n \in T
  <2>1. CASE n < Base
    <3>1. <<n>> \in Seq(Nat) /\ Len(<<n>>) = 1
      OBVIOUS
    <3>2. LengthDigits(n) = <<n>>
      BY <2>1, LengthDigitsIs DEF Written
    <3> QED
      BY <3>1, <3>2
  <2>2. CASE n >= Base
    <3> DEFINE s == LengthDigits(n \div Base)
               x == (n % Base) + Base
    <3>1. s \in Seq(Nat)
      <4> DEFINE q == n \div Base
      <4>1. q \in 0..(n - 1)
        BY <2>2, DivIsLess
      <4> HIDE DEF q
      <4>2. q \in T
        BY <1>1, <4>1
      <4>3. LengthDigits(q) \in Seq(Nat)
        BY <4>2
      <4>4. s = LengthDigits(q)
        BY DEF q
      <4> HIDE DEF s
      <4> QED
        BY <4>3, <4>4
    <3>2. x \in Nat
      BY Bases, ModIsNat
    <3>3. LengthDigits(n) = <<x>> \o s
      BY <2>2, WrittenLarge, LengthDigitsIs, Zenon
    <3> HIDE DEF s, x
    <3>4. <<x>> \o s \in Seq(Nat) /\ Len(<<x>> \o s) = Len(s) + 1 /\ Len(s) \in Nat
      BY <3>1, <3>2, InFront, LenProperties
    <3> HIDE DEF T
    <3>5. <<x>> \o s \in Seq(Nat) /\ Len(<<x>> \o s) >= 1
      BY <3>4
    <3>6. LengthDigits(n) \in Seq(Nat) /\ Len(LengthDigits(n)) >= 1
      BY <3>3, <3>5, Zenon
    <3> QED
      BY <3>6 DEF T
  <2>3. n < Base \/ n >= Base
    BY Bases
  <2> QED
    BY <2>1, <2>2, <2>3
<1> HIDE DEF T
<1>2. Nat \subseteq T
  BY <1>1, StrongInduction
<1> QED
  BY <1>2 DEF T
LEMMA ShortLength ==
    ASSUME NEW n \in Nat, n < Base
    PROVE  DecodedSize(LengthDigits(n)) = n % Width
<1> DEFINE d == <<n>>
<1>1. LengthDigits(n) = d
  BY LengthDigitsIs DEF Written
<1>2. Len(d) = 1 /\ d[1] = n
  OBVIOUS
<1> HIDE DEF d
<1>3. /\ DecodedSize(d) = Value(d, 1) /\ Value(d, 0) = 0
      /\ Value(d, 0 + 1) = (Value(d, 0) + (d[0 + 1] % Base) * DigitPlace(0)) % Width
  BY <1>2, ValueIs
<1>4. DigitPlace(0) = 1
  BY DigitPlaceIs
<1>5. d[0 + 1] % Base = n
  <2>1. (Base * 0 + n) % Base = n /\ Base * 0 + n = n
    BY Bases, ModIs
  <2> QED
    BY <1>2, <2>1
<1>6. Value(d, 0) + (d[0 + 1] % Base) * DigitPlace(0) = n /\ 0 + 1 = 1
  BY <1>3, <1>4, <1>5
<1> QED
  BY <1>1, <1>3, <1>6

\* read_header gets a length back from the digits that write_packet_length makes of it,
\* modulo what a uint32_t holds: for any number of digits, and any base.
THEOREM LengthSurvives == \A n \in Nat : DecodedSize(LengthDigits(n)) = n % Width
<1> DEFINE T == {n \in Nat : DecodedSize(LengthDigits(n)) = n % Width}
<1>1. ASSUME NEW n \in Nat, \A i \in 0..(n - 1) : i \in T, n >= Base PROVE n \in T
  <2> DEFINE q == n \div Base
             s == LengthDigits(q)
             r == n % Base
             x == r + Base
  <2>1. q \in 0..(n - 1) /\ q \in Nat
    BY <1>1, DivIsLess
  <2>2. n = r + Base * q /\ r \in 0..(Base - 1)
    BY DivMod, Bases
  <2>3. LengthDigits(n) = <<x>> \o s
    BY <1>1, WrittenLarge, LengthDigitsIs, Zenon
  <2> HIDE DEF q, r
  <2>4. DecodedSize(s) = q % Width /\ s \in Seq(Nat)
    <3>1. q \in T
      BY <1>1, <2>1
    <3> QED
      BY <2>1, <3>1, LengthDigitsAre
  <2>5. x \in Nat /\ r \in Nat
    BY <2>2, Bases
  <2>6. x % Base = r
    <3>1. (Base * 1 + r) % Base = r /\ Base * 1 + r = x
      BY <2>2, Bases, ModIs
    <3> QED
      BY <3>1
  <2> HIDE DEF s, x, T
  <2> DEFINE d == <<x>> \o s
  <2>7. Len(d) = Len(s) + 1 /\ Len(s) \in Nat
    BY <2>4, <2>5, InFront, LenProperties
  <2>8. Value(d, Len(s) + 1) = ((x % Base) + Base * Value(s, Len(s))) % Width
    BY <2>4, <2>5, <2>7, ValueOfMore
  <2>9. DecodedSize(d) = Value(d, Len(d)) /\ DecodedSize(s) = Value(s, Len(s))
    BY ValueIs
  <2>10. DecodedSize(d) = (r + Base * (q % Width)) % Width
    BY <2>4, <2>6, <2>7, <2>8, <2>9
  <2>11. (r + Base * (q % Width)) % Width = (r + Base * q) % Width
    <3>1. q \in Nat /\ r \in Nat
      BY <2>1, <2>5
    <3> QED
      BY <3>1, ModOfProduct, Zenon
  <2>12. DecodedSize(LengthDigits(n)) = n % Width
    BY <2>2, <2>3, <2>10, <2>11
  <2> QED
    BY <2>12 DEF T
<1>2. ASSUME NEW n \in Nat, n < Base PROVE n \in T
  BY <1>2, ShortLength
<1> HIDE DEF T
<1>3. ASSUME NEW n \in Nat, \A i \in 0..(n - 1) : i \in T PROVE n \in T
  BY <1>1, <1>2, <1>3, Bases
<1>4. Nat \subseteq T
  BY <1>3, StrongInduction
<1> QED
  BY <1>4 DEF T

-----------------------------------------------------------------------------
(* Sizes and ends of packets.                                              *)

LEMMA SizesAre ==
    ASSUME NEW p \in Packets
    PROVE  /\ BodySize(p) \in Nat /\ HeaderSize(p) \in Nat /\ HeaderSize(p) >= 2
           /\ SizeOf(p) \in Nat
           /\ DecodedSize(LengthDigits(BodySize(p))) = BodySize(p)
<1>1. p.topic \in Nat /\ p.payload \in Nat
  BY PacketAssumption
<1>2. BodySize(p) \in Nat
  BY <1>1 DEF BodySize
<1>3. LengthDigits(BodySize(p)) \in Seq(Nat) /\ Len(LengthDigits(BodySize(p))) >= 1
  BY <1>2, LengthDigitsAre
<1>4. Len(LengthDigits(BodySize(p))) \in Nat
  BY <1>3, LenProperties
<1>5. HeaderSize(p) \in Nat /\ HeaderSize(p) >= 2
  BY <1>3, <1>4 DEF HeaderSize
<1>6. BodySize(p) % Width = BodySize(p)
  <2>1. (Width * 0 + BodySize(p)) % Width = BodySize(p)
    BY <1>2, Bases, SizeAssumption, ModIs
  <2> QED
    BY <1>2, <2>1, Bases
<1>7. DecodedSize(LengthDigits(BodySize(p))) = BodySize(p)
  BY <1>2, <1>6, LengthSurvives
<1> QED
  BY <1>2, <1>5, <1>7 DEF SizeOf

LEMMA EndsAre ==
    ASSUME stream \in Seq(Packets)
    PROVE  /\ EndOf(0) = 0
           /\ \A k \in 0..Len(stream) : EndOf(k) \in Nat
           /\ \A k \in DOMAIN stream :
                 EndOf(k) = EndOf(k - 1) + HeaderSize(stream[k]) + BodySize(stream[k])
<1>1. Len(stream) \in Nat /\ DOMAIN stream = 1..Len(stream)
      /\ \A k \in 1..Len(stream) : stream[k] \in Packets
  BY LenProperties
<1>2. EndOf(0) = 0 /\ \A k \in Nat : EndOf(k + 1) = EndOf(k) + SizeOf(stream[k + 1])
  BY EndInIs DEF EndOf
<1> DEFINE T == {k \in Nat : k <= Len(stream) => EndOf(k) \in Nat}
<1>3. 0 \in T
  BY <1>2
<1>4. ASSUME NEW k \in Nat, k \in T PROVE k + 1 \in T
  <2> SUFFICES ASSUME k + 1 <= Len(stream) PROVE EndOf(k + 1) \in Nat
    OBVIOUS
  <2>1. EndOf(k) \in Nat
    BY <1>1, <1>4
  <2>2. SizeOf(stream[k + 1]) \in Nat
    BY <1>1, SizesAre
  <2>3. EndOf(k + 1) = EndOf(k) + SizeOf(stream[k + 1])
    BY <1>2
  <2> DEFINE e == EndOf(k)
             z == SizeOf(stream[k + 1])
  <2> HIDE DEF e, z
  <2>4. e + z \in Nat
    BY <2>1, <2>2 DEF e, z
  <2> QED
    BY <2>3, <2>4 DEF e, z
<1> HIDE DEF T
<1>5. Nat \subseteq T
  BY <1>3, <1>4, Induction
<1>6. \A k \in 0..Len(stream) : EndOf(k) \in Nat
  BY <1>1, <1>5 DEF T
<1>7. ASSUME NEW k \in DOMAIN stream
      PROVE  EndOf(k) = EndOf(k - 1) + HeaderSize(stream[k]) + BodySize(stream[k])
  <2>1. k - 1 \in Nat /\ (k - 1) + 1 = k /\ k - 1 \in 0..Len(stream) /\ stream[k] \in Packets
    BY <1>1
  <2>2. EndOf(k) = EndOf(k - 1) + SizeOf(stream[k])
    BY <1>2, <2>1
  <2>3. EndOf(k - 1) \in Nat /\ HeaderSize(stream[k]) \in Nat /\ BodySize(stream[k]) \in Nat
    BY <1>6, <2>1, SizesAre
  <2> DEFINE h == HeaderSize(stream[k])
             b == BodySize(stream[k])
             e == EndOf(k - 1)
  <2>4. EndOf(k) = e + (h + b) /\ e \in Nat /\ h \in Nat /\ b \in Nat
    BY <2>2, <2>3, Zenon DEF SizeOf
  <2> HIDE DEF h, b, e
  <2>5. e + (h + b) = e + h + b
    BY <2>4
  <2> QED
    BY <2>4, <2>5 DEF e, h, b
<1> QED
  BY <1>2, <1>6, <1>7

-----------------------------------------------------------------------------
(* The invariant.                                                          *)

\* What a frame f is, where `told' are the messages offered, `open' says that the
\* connection is not closed, and s is the stream.  A message gets to where it is
\* acknowledged or forwarded only by way of the application, unless its connection
\* was closed on the way.
Fine(f, told, open, s) ==
    /\ f.pos <= f.size /\ f.moved = 0
    /\ f.k \in {0} \cup DOMAIN s
    /\ f.mode = "local" => /\ f.k = 0
                           /\ f.phase \in {"on_message", "payload", "callback", "skip"}
    /\ f.phase \in {"head", "again"} => f.size = 0
    /\ f.phase = "topic" => f.topic <= MaxTopic
    /\ f.phase = "forward" => f.mode = "loop"
    /\ f.mode # "local" =>
          /\ f.phase \notin {"head", "again"} => f.k # 0
          /\ f.phase = "id" /\ f.topic > MaxTopic => f.k \in told
          /\ f.phase = "callback" => f.k \in told
          /\ f.phase \in {"forward", "ack"} /\ open => f.k \in told

AllFine == \A i \in DOMAIN frames : Fine(frames[i], offered, link # "closed", stream)

\* Whoever waits inside a packet does so in its callback, and has read it, unless
\* some callback did not.
Nested == \A i \in DOMAIN frames : i # Len(frames) =>
              /\ frames[i].phase = "callback"
              /\ ~early => frames[i].pos = frames[i].size

\* What a frame will still read from the connection.
Left(f) == IF f.mode = "local" THEN 0 ELSE f.size - f.pos

Ahead == IF frames = <<>> THEN 0 ELSE Left(Top)

\* InFrame, in between packets too.
Placed ==
    Readable /\ ~early =>
        \E k \in 0..Len(stream) : /\ taken + Ahead = EndOf(k)
                                  /\ Ahead > 0 => k = Top.k

FrameInv == FramingTypeOK /\ AllFine /\ Nested /\ AckedIsOffered /\ Placed

-----------------------------------------------------------------------------
(* The stack of frames.                                                    *)

LEMMA FineStays ==
    ASSUME NEW f, NEW s, NEW told, NEW more, NEW open \in BOOLEAN, NEW still \in BOOLEAN,
           Fine(f, told, open, s), told \subseteq more, still => open
    PROVE  Fine(f, more, still, s)
BY DEF Fine

LEMMA TopIs ==
    ASSUME FramingTypeOK, frames # <<>>
    PROVE  /\ Len(frames) \in Nat \ {0} /\ DOMAIN frames = 1..Len(frames)
           /\ Top = frames[Len(frames)] /\ Top \in Frame /\ Top.pos <= Top.size
           /\ \A i \in 1..Len(frames) : frames[i] \in Frame
           /\ Front(frames) \in Seq(Frame) /\ Len(Front(frames)) = Len(frames) - 1
           /\ \A i \in 1..(Len(frames) - 1) : Front(frames)[i] = frames[i]
<1>1. frames \in Seq(Frame) /\ \A i \in DOMAIN frames : frames[i].pos <= frames[i].size
  BY DEF FramingTypeOK
<1>2. /\ Len(frames) \in Nat /\ Len(frames) # 0 /\ DOMAIN frames = 1..Len(frames)
      /\ \A i \in 1..Len(frames) : frames[i] \in Frame
  BY <1>1, EmptySeq, LenProperties
<1>3. /\ Front(frames) \in Seq(Frame) /\ Len(Front(frames)) = Len(frames) - 1
      /\ \A i \in 1..(Len(frames) - 1) : Front(frames)[i] = frames[i]
      /\ Last(frames) = frames[Len(frames)] /\ Last(frames) \in Frame
  BY <1>1, FrontType
<1> QED
  BY <1>1, <1>2, <1>3 DEF Top

LEMMA SetTopIs ==
    ASSUME FramingTypeOK, frames # <<>>, NEW f \in Frame, SetTop(f)
    PROVE  /\ frames' \in Seq(Frame) /\ frames' # <<>> /\ Len(frames') = Len(frames)
           /\ Top' = f /\ frames'[Len(frames)] = f
           /\ \A i \in 1..(Len(frames) - 1) : frames'[i] = frames[i]
<1> DEFINE r == Front(frames)
<1>1. /\ r \in Seq(Frame) /\ Len(r) = Len(frames) - 1 /\ Len(frames) \in Nat \ {0}
      /\ \A i \in 1..(Len(frames) - 1) : r[i] = frames[i]
  BY TopIs
<1>2. frames' = r \o <<f>>
  BY DEF SetTop
<1> HIDE DEF r
<1>3. <<f>> \in Seq(Frame) /\ Len(<<f>>) = 1 /\ <<f>>[1] = f
  OBVIOUS
<1>4. /\ r \o <<f>> \in Seq(Frame) /\ Len(r \o <<f>>) = Len(r) + 1
      /\ \A i \in 1..(Len(r) + 1) : (r \o <<f>>)[i] = IF i <= Len(r) THEN r[i] ELSE <<f>>[i - Len(r)]
  BY <1>1, <1>3, ConcatProperties
<1>5. /\ frames' \in Seq(Frame) /\ Len(frames') = Len(frames) /\ frames'[Len(frames)] = f
      /\ \A i \in 1..(Len(frames) - 1) : frames'[i] = frames[i]
  BY <1>1, <1>2, <1>3, <1>4
<1>6. frames' # <<>>
  BY <1>1, <1>5, EmptySeq
<1>7. Top' = f
  BY <1>5, <1>6, FrontType DEF Top
<1> QED
  BY <1>5, <1>6, <1>7

Links == {"up", "cut", "closed", "astray"}

\* What every step leaves alone or changes in one direction only.
Onward ==
    /\ side' = side /\ stream' = stream
    /\ taken' \in 0..Total /\ link' \in Links
    /\ early' \in BOOLEAN /\ (early => early')
    /\ offered \subseteq offered' /\ offered' \subseteq DOMAIN stream /\ acked' \subseteq offered'
    /\ link = "closed" => link' = "closed"
    /\ Readable' => Readable

LEMMA TypedAfter ==
    ASSUME FramingTypeOK, Onward, frames' \in Seq(Frame),
           \A i \in DOMAIN frames' : frames'[i].pos <= frames'[i].size
    PROVE  FramingTypeOK'
<1>1. Total' = Total
  BY DEF Onward, Total, EndOf
<1> QED
  BY <1>1 DEF FramingTypeOK, Onward, Links

\* The frame on top is replaced by f.
LEMMA TopStep ==
    ASSUME FrameInv, frames # <<>>, NEW f \in Frame, SetTop(f), Onward,
           Fine(f, offered', link' # "closed", stream),
           Readable' /\ ~early' =>
               \E k \in 0..Len(stream) : taken' + Left(f) = EndOf(k) /\ (Left(f) > 0 => k = f.k)
    PROVE  FrameInv'
<1> DEFINE n == Len(frames)
<1>1. /\ frames' \in Seq(Frame) /\ frames' # <<>> /\ Len(frames') = n
      /\ Top' = f /\ frames'[n] = f
      /\ \A i \in 1..(n - 1) : frames'[i] = frames[i]
  BY SetTopIs DEF FrameInv
<1>2. n \in Nat \ {0} /\ DOMAIN frames = 1..n
  BY TopIs DEF FrameInv
<1>3. DOMAIN frames' = 1..n
  BY <1>1, LenProperties
<1> HIDE DEF n
<1>4. stream' = stream /\ (link' # "closed" => link # "closed") /\ offered \subseteq offered'
  BY DEF Onward
<1>5. \A i \in 1..(n - 1) : Fine(frames[i], offered', link' # "closed", stream)
  <2> SUFFICES ASSUME NEW i \in 1..(n - 1)
               PROVE  Fine(frames[i], offered', link' # "closed", stream)
    OBVIOUS
  <2>1. Fine(frames[i], offered, link # "closed", stream)
    BY <1>2 DEF FrameInv, AllFine
  <2> QED
    BY <1>4, <2>1, FineStays
<1>6. \A i \in 1..n : Fine(frames'[i], offered', link' # "closed", stream)
  BY <1>1, <1>2, <1>5
<1>7. AllFine'
  BY <1>3, <1>4, <1>6 DEF AllFine
<1>8. \A i \in 1..n : frames'[i].pos <= frames'[i].size
  BY <1>6 DEF Fine
<1>9. FramingTypeOK'
  BY <1>1, <1>3, <1>8, TypedAfter DEF FrameInv
<1>10. Nested'
  <2>1. \A i \in 1..(n - 1) : /\ frames[i].phase = "callback"
                              /\ ~early => frames[i].pos = frames[i].size
    BY <1>2 DEF FrameInv, Nested, n
  <2>2. \A i \in 1..n : i # n => i \in 1..(n - 1)
    BY <1>2
  <2>3. ~early' => ~early
    BY DEF Onward
  <2> QED
    BY <1>1, <1>3, <2>1, <2>2, <2>3 DEF Nested
<1>11. AckedIsOffered'
  BY DEF Onward, AckedIsOffered
<1>12. Placed'
  <2>1. Ahead' = Left(f)
    BY <1>1 DEF Ahead, Left
  <2>2. \A k : EndOf(k)' = EndOf(k)
    BY <1>4 DEF EndOf
  <2> QED
    BY <1>1, <1>4, <2>1, <2>2 DEF Placed
<1> QED
  BY <1>7, <1>9, <1>10, <1>11, <1>12 DEF FrameInv

\* The frame on top is gone, and what it had to read with it.
LEMMA PopStep ==
    ASSUME FrameInv, frames # <<>>, PopTop, Onward,
           Readable' /\ ~early' => \E k \in 0..Len(stream) : taken' = EndOf(k)
    PROVE  FrameInv'
<1> DEFINE n == Len(frames)
<1>1. /\ n \in Nat \ {0} /\ DOMAIN frames = 1..n
      /\ frames' \in Seq(Frame) /\ Len(frames') = n - 1
      /\ \A i \in 1..(n - 1) : frames'[i] = frames[i]
  BY TopIs DEF FrameInv, PopTop
<1>2. DOMAIN frames' = 1..(n - 1)
  BY <1>1, LenProperties
<1> HIDE DEF n
<1>3. stream' = stream /\ (link' # "closed" => link # "closed") /\ offered \subseteq offered'
  BY DEF Onward
<1>4. \A i \in 1..(n - 1) : Fine(frames'[i], offered', link' # "closed", stream)
  <2> SUFFICES ASSUME NEW i \in 1..(n - 1)
               PROVE  Fine(frames[i], offered', link' # "closed", stream)
    BY <1>1
  <2>1. Fine(frames[i], offered, link # "closed", stream)
    BY <1>1 DEF FrameInv, AllFine
  <2> QED
    BY <1>3, <2>1, FineStays
<1>5. AllFine'
  BY <1>2, <1>3, <1>4 DEF AllFine
<1>6. \A i \in 1..(n - 1) : frames'[i].pos <= frames'[i].size
  BY <1>4 DEF Fine
<1>7. FramingTypeOK'
  BY <1>1, <1>2, <1>6, TypedAfter DEF FrameInv
<1>8. \A i \in 1..(n - 1) : /\ frames'[i].phase = "callback"
                            /\ ~early' => frames'[i].pos = frames'[i].size
  <2>1. ~early' => ~early
    BY DEF Onward
  <2>2. \A i \in 1..(n - 1) : i \in 1..n /\ i # n
    BY <1>1
  <2> QED
    BY <1>1, <2>1, <2>2 DEF FrameInv, Nested, n
<1>9. Nested'
  BY <1>2, <1>8 DEF Nested
<1>10. AckedIsOffered'
  BY DEF Onward, AckedIsOffered
<1>11. ~early' => Ahead' = 0
  <2> SUFFICES ASSUME ~early', frames' # <<>> PROVE Left(Top)' = 0
    BY DEF Ahead
  <2>1. Top' \in Frame /\ \E i \in 1..(n - 1) : Top' = frames'[i]
    BY <1>1, FrontType DEF Top
  <2>2. Top'.pos = Top'.size
    BY <1>8, <2>1
  <2> QED
    BY <2>1, <2>2 DEF Left, Frame
<1>12. Placed'
  <2>1. \A k : EndOf(k)' = EndOf(k)
    BY <1>3 DEF EndOf
  <2>2. taken' \in Nat
    BY DEF Onward, Total
  <2> QED
    BY <1>3, <1>11, <2>1, <2>2 DEF Placed
<1> QED
  BY <1>5, <1>7, <1>9, <1>10, <1>12 DEF FrameInv

-----------------------------------------------------------------------------
(* What actions make of the frame on top.                                  *)

\* g is f but for its position, its phase and what is known of its topic and id.
Rest(f, g) == g.mode = f.mode /\ g.k = f.k /\ g.size = f.size

LEMMA NewFrameIs ==
    ASSUME NEW mode \in {"loop", "wait", "local"}, NEW p \in Packets
    PROVE  LET g == NewFrame(mode, p)
           IN  /\ g \in Frame /\ g.mode = mode /\ g.k = 0 /\ g.size = 0 /\ g.pos = 0
               /\ g.phase = "head" /\ g.moved = 0 /\ g.topic = 0
BY DEF NewFrame, Frame, Phases

-----------------------------------------------------------------------------
(* Reading.                                                                *)

LEMMA Taking ==
    ASSUME FramingTypeOK, NEW n \in Nat, NEW c \in 0..n, TakeBytes(n, c) \/ TakeBlock(n, c)
    PROVE  /\ taken' \in 0..Total /\ link' \in Links
           /\ taken' = taken + (IF Top.mode = "local" THEN 0 ELSE c)
           /\ link = "closed" => link' = "closed"
           /\ Readable' => Readable
<1>1. taken \in 0..Total /\ link \in Links /\ taken \in Nat
  BY DEF FramingTypeOK, Links
<1>2. CASE Top.mode = "local"
  <2>1. taken' = taken /\ link' = link
    BY <1>2 DEF TakeBytes, TakeBlock, TakeMemory
  <2> QED
    BY <1>1, <1>2, <2>1 DEF Readable
<1>3. CASE Top.mode # "local"
  <2>1. /\ taken + c <= Total /\ taken' = taken + c
        /\ link' = link \/ link' = "closed"
    BY <1>3 DEF TakeBytes, TakeBlock, Take
  <2>2. taken' \in 0..Total
    BY <1>1, <2>1
  <2> QED
    BY <1>1, <1>3, <2>1, <2>2 DEF Readable, Links
<1> QED
  BY <1>2, <1>3

\* The frame on top gets f, which is c bytes further.
LEMMA TopReads ==
    ASSUME FrameInv, frames # <<>>, NEW f \in Frame, SetTop(f), Onward, NEW c \in Nat,
           taken' = taken + (IF Top.mode = "local" THEN 0 ELSE c), early' = early,
           Rest(Top, f), f.pos = Top.pos + c,
           Fine(f, offered', link' # "closed", stream)
    PROVE  FrameInv'
<1>0. f.mode = Top.mode /\ f.k = Top.k /\ f.size = Top.size
  BY DEF Rest
<1>1. Top.pos \in Nat /\ Top.size \in Nat /\ f.pos <= f.size /\ taken \in Nat
  <2>1. Top.pos \in Nat /\ Top.size \in Nat
    BY TopIs DEF FrameInv, Frame
  <2>2. f.pos <= f.size
    BY DEF Fine
  <2>3. taken \in Nat
    BY DEF FrameInv, FramingTypeOK
  <2> QED
    BY <2>1, <2>2, <2>3
<1>2. taken' + Left(f) = taken + Left(Top) /\ (Left(f) > 0 => Left(Top) > 0)
  BY <1>0, <1>1 DEF Left
<1>3. Readable' /\ ~early' =>
          \E k \in 0..Len(stream) : taken' + Left(f) = EndOf(k) /\ (Left(f) > 0 => k = f.k)
  <2> SUFFICES ASSUME Readable', ~early'
               PROVE \E k \in 0..Len(stream) :
                        taken' + Left(f) = EndOf(k) /\ (Left(f) > 0 => k = f.k)
    OBVIOUS
  <2>1. PICK k \in 0..Len(stream) : taken + Ahead = EndOf(k) /\ (Ahead > 0 => k = Top.k)
    BY DEF FrameInv, Placed, Onward
  <2>2. Ahead = Left(Top)
    BY DEF Ahead
  <2> QED
    BY <1>0, <1>2, <2>1, <2>2
<1> QED
  BY <1>3, TopStep

LEMMA TopIsFine ==
    ASSUME FrameInv, frames # <<>>
    PROVE  /\ Fine(Top, offered, link # "closed", stream) /\ Top \in Frame
           /\ Top.pos <= Top.size /\ Remaining = Top.size - Top.pos /\ Remaining \in Nat
           /\ Top.size \in Nat /\ Top.pos \in Nat /\ Top.topic \in Nat
<1>1. /\ Len(frames) \in DOMAIN frames /\ Top = frames[Len(frames)] /\ Top \in Frame
      /\ Top.pos <= Top.size
  BY TopIs DEF FrameInv
<1>2. Fine(Top, offered, link # "closed", stream)
  BY <1>1 DEF FrameInv, AllFine
<1>3. Top.size \in Nat /\ Top.pos \in Nat /\ Top.topic \in Nat
  BY <1>1 DEF Frame
<1> QED
  BY <1>1, <1>2, <1>3 DEF Remaining

LEMMA OfferedMore ==
    ASSUME FrameInv, frames # <<>>
    PROVE  /\ offered \subseteq DOMAIN stream /\ acked \subseteq offered
           /\ offered \cup ({Top.k} \ {0}) \subseteq DOMAIN stream
           /\ taken \in 0..Total /\ link \in Links /\ early \in BOOLEAN
<1>1. Top.k \in {0} \cup DOMAIN stream
  BY TopIsFine DEF Fine
<1> QED
  BY <1>1 DEF FrameInv, FramingTypeOK, AckedIsOffered, Links

\* Bytes asked for are no more than remain.
LEMMA AskedFor ==
    ASSUME FrameInv, frames # <<>>
    PROVE  /\ U16 \in Nat /\ U16 <= 2 /\ U16 <= Remaining
           /\ \A t \in Nat : Least(t, Remaining) \in 0..Remaining /\ Least(t, Remaining) <= t
<1>1. Remaining \in Nat
  BY TopIsFine
<1> QED
  BY <1>1 DEF U16, Least

LEMMA TopTakes ==
    ASSUME FrameInv, frames # <<>>, NEW n \in Nat, NEW c \in 0..n, n <= Remaining,
           TakeBytes(n, c) \/ TakeBlock(n, c),
           NEW f \in Frame, SetTop(f), Rest(Top, f), f.pos = Top.pos + c,
           side' = side, stream' = stream, early' = early, acked' = acked,
           offered \subseteq offered', offered' \subseteq DOMAIN stream,
           Fine(f, offered', link' # "closed", stream)
    PROVE  FrameInv'
<1>1. /\ taken' \in 0..Total /\ link' \in Links
      /\ taken' = taken + (IF Top.mode = "local" THEN 0 ELSE c)
      /\ link = "closed" => link' = "closed"
      /\ Readable' => Readable
  BY Taking DEF FrameInv
<1>2. acked' \subseteq offered' /\ early' \in BOOLEAN
  BY OfferedMore
<1>3. Onward
  BY <1>1, <1>2 DEF Onward
<1>4. c \in Nat
  OBVIOUS
<1> QED
  BY <1>1, <1>3, <1>4, TopReads

\* Bytes are read and the connection is closed.
LEMMA TopCloses ==
    ASSUME FrameInv, frames # <<>>, Top.mode # "local", NEW c \in Nat, Take(c), link' = "closed",
           NEW f \in Frame, SetTop(f), Rest(Top, f), f.pos = Top.pos + c,
           side' = side, stream' = stream, early' = early, acked' = acked, offered' = offered,
           Fine(f, offered', FALSE, stream)
    PROVE  FrameInv'
<1>1. taken' = taken + c /\ taken' \in 0..Total
  <2>1. taken \in Nat /\ taken + c <= Total /\ taken' = taken + c
    BY OfferedMore DEF Take
  <2> QED
    BY <2>1
<1>2. Onward
  BY <1>1, OfferedMore DEF Onward, Readable, Links
<1>3. Fine(f, offered', link' # "closed", stream)
  OBVIOUS
<1> QED
  BY <1>1, <1>2, <1>3, TopReads

LEMMA LengthIs ==
    ASSUME FrameInv, frames # <<>>, NEW c, NEW t \in Lengths(c)
    PROVE  t \in Nat
<1>1. Top.p \in Packets
  BY TopIsFine DEF Frame
<1> QED
  BY <1>1, FramingAssumption, PacketAssumption DEF Lengths

LEMMA TopicSizeRead == FrameInv /\ ReadTopicSize => FrameInv'
<1> SUFFICES ASSUME FrameInv, ReadTopicSize PROVE FrameInv'
  OBVIOUS
<1>1. /\ frames # <<>> /\ Top.phase = "topic_size"
      /\ side' = side /\ stream' = stream /\ early' = early /\ offered' = offered
      /\ acked' = acked
  BY DEF ReadTopicSize, In
<1>2. PICK c \in 0..U16 : \E t \in Lengths(c) :
         /\ TakeBytes(U16, c)
         /\ SetTop([Top EXCEPT !.pos = @ + c, !.topic = t,
                       !.phase = IF t > MaxTopic THEN "ignore" ELSE "topic"])
  BY DEF ReadTopicSize
<1>3. PICK t \in Lengths(c) :
         /\ TakeBytes(U16, c)
         /\ SetTop([Top EXCEPT !.pos = @ + c, !.topic = t,
                       !.phase = IF t > MaxTopic THEN "ignore" ELSE "topic"])
  BY <1>2
<1> DEFINE a == Top.pos + c
           b == IF t > MaxTopic THEN "ignore" ELSE "topic"
           f == [Top EXCEPT !.pos = a, !.topic = t, !.phase = b]
<1>4. U16 \in Nat /\ U16 <= Remaining /\ c \in 0..U16 /\ Top \in Frame
  BY <1>1, AskedFor, TopIsFine
<1>5. t \in Nat
  BY <1>1, <1>3, LengthIs
<1>6. a \in Nat /\ a <= Top.size /\ b \in Phases
  BY <1>1, <1>4, TopIsFine DEF Phases
<1>7. SetTop(f)
  BY <1>3
<1>8. a = Top.pos + c /\ b \in {"ignore", "topic"} /\ (b = "topic" => t <= MaxTopic)
  BY <1>5, FramingAssumption
<1> HIDE DEF a, b
<1>9. /\ f \in Frame /\ Rest(Top, f) /\ f.pos = a /\ f.phase = b
      /\ f.moved = Top.moved /\ f.topic = t
  BY <1>4, <1>5, <1>6 DEF Frame, Rest
<1> HIDE DEF f
<1>10. Fine(f, offered', link' # "closed", stream)
  BY <1>1, <1>6, <1>8, <1>9, TopIsFine DEF Fine, Rest
<1> QED
  BY <1>1, <1>3, <1>4, <1>7, <1>8, <1>9, <1>10, TopTakes, OfferedMore

LEMMA TopicIgnored == FrameInv /\ IgnoreTopic => FrameInv'
<1> SUFFICES ASSUME FrameInv, IgnoreTopic PROVE FrameInv'
  OBVIOUS
<1>1. /\ frames # <<>> /\ Top.phase = "ignore"
      /\ side' = side /\ stream' = stream /\ early' = early /\ acked' = acked
      /\ offered' = offered \cup ({Top.k} \ {0})
  BY DEF IgnoreTopic, In
<1> DEFINE n == Least(Top.topic, Remaining)
<1>2. PICK c \in 0..n :
         /\ TakeBytes(n, c)
         /\ SetTop([Top EXCEPT !.pos = @ + c, !.phase = IF Top.p.id THEN "id" ELSE "skip"])
  BY DEF IgnoreTopic
<1>3. Top \in Frame /\ n \in Nat /\ n <= Remaining
  <2>1. Top \in Frame /\ Top.topic \in Nat /\ Remaining \in Nat
    BY <1>1, TopIsFine
  <2>2. n \in 0..Remaining
    BY <1>1, <2>1, AskedFor
  <2> HIDE DEF n
  <2> QED
    BY <2>1, <2>2
<1> HIDE DEF n
<1> DEFINE a == Top.pos + c
           b == IF Top.p.id THEN "id" ELSE "skip"
           f == [Top EXCEPT !.pos = a, !.phase = b]
<1>4. a \in Nat /\ a <= Top.size /\ b \in Phases /\ b \in {"id", "skip"} /\ a = Top.pos + c
  BY <1>1, <1>3, TopIsFine DEF Phases
<1>5. SetTop(f)
  BY <1>2
<1> HIDE DEF a, b
<1>6. /\ f \in Frame /\ Rest(Top, f) /\ f.pos = a /\ f.phase = b
      /\ f.moved = Top.moved /\ f.topic = Top.topic
  BY <1>3, <1>4 DEF Frame, Rest
<1> HIDE DEF f
<1>7. Top.mode # "local" => Top.k \in offered'
  BY <1>1, TopIsFine DEF Fine
<1>8. Fine(f, offered', link' # "closed", stream)
  BY <1>1, <1>4, <1>6, <1>7, TopIsFine DEF Fine, Rest
<1>9. offered \subseteq offered' /\ offered' \subseteq DOMAIN stream
  BY <1>1, OfferedMore
<1> QED
  BY <1>1, <1>2, <1>3, <1>4, <1>5, <1>6, <1>8, <1>9, TopTakes

LEMMA TopicRead == FrameInv /\ ReadTopic => FrameInv'
<1> SUFFICES ASSUME FrameInv, ReadTopic PROVE FrameInv'
  OBVIOUS
<1>1. /\ frames # <<>> /\ Top.phase = "topic"
      /\ side' = side /\ stream' = stream /\ early' = early /\ acked' = acked
      /\ offered' = offered
  BY DEF ReadTopic, In
<1> DEFINE n == Least(Top.topic, Remaining)
<1>2. PICK c \in 0..n :
         /\ TakeBlock(n, c)
         /\ SetTop([Top EXCEPT !.pos = @ + c,
                       !.phase = IF c < Top.topic THEN "skip"
                                 ELSE IF Top.p.id THEN "id" ELSE "on_message"])
  BY DEF ReadTopic
<1>3. Top \in Frame /\ n \in Nat /\ n <= Remaining
  <2>1. Top \in Frame /\ Top.topic \in Nat /\ Remaining \in Nat
    BY <1>1, TopIsFine
  <2>2. n \in 0..Remaining
    BY <1>1, <2>1, AskedFor
  <2> HIDE DEF n
  <2> QED
    BY <2>1, <2>2
<1> HIDE DEF n
<1> DEFINE a == Top.pos + c
           b == IF c < Top.topic THEN "skip" ELSE IF Top.p.id THEN "id" ELSE "on_message"
           f == [Top EXCEPT !.pos = a, !.phase = b]
<1>4. /\ a \in Nat /\ a <= Top.size /\ a = Top.pos + c
      /\ b \in Phases /\ b \in {"id", "skip", "on_message"}
  BY <1>1, <1>3, TopIsFine DEF Phases
<1>5. SetTop(f)
  BY <1>2
<1> HIDE DEF a, b
<1>6. /\ f \in Frame /\ Rest(Top, f) /\ f.pos = a /\ f.phase = b
      /\ f.moved = Top.moved /\ f.topic = Top.topic
  BY <1>3, <1>4 DEF Frame, Rest
<1> HIDE DEF f
<1>7. Top.topic <= MaxTopic /\ Top.mode # "local"
  BY <1>1, TopIsFine DEF Fine
<1>8. Fine(f, offered', link' # "closed", stream)
  BY <1>1, <1>4, <1>6, <1>7, TopIsFine, FramingAssumption DEF Fine, Rest
<1> QED
  BY <1>1, <1>2, <1>3, <1>4, <1>5, <1>6, <1>8, TopTakes, OfferedMore

LEMMA IdRead == FrameInv /\ ReadId => FrameInv'
<1> SUFFICES ASSUME FrameInv, ReadId PROVE FrameInv'
  OBVIOUS
<1>1. /\ frames # <<>> /\ Top.phase = "id"
      /\ side' = side /\ stream' = stream /\ early' = early /\ acked' = acked
      /\ offered' = offered
  BY DEF ReadId, In
<1>2. PICK c \in 0..2 :
         /\ TakeBytes(U16, c)
         /\ SetTop([Top EXCEPT !.pos = @ + c, !.garbled = c < 2,
                       !.phase = IF Top.topic > MaxTopic THEN "ack" ELSE "on_message"])
  BY DEF ReadId
<1>3. Top \in Frame /\ U16 \in Nat /\ U16 <= Remaining /\ c \in 0..U16
  BY <1>1, <1>2, AskedFor, TopIsFine DEF TakeBytes
<1> DEFINE a == Top.pos + c
           r == c < 2
           b == IF Top.topic > MaxTopic THEN "ack" ELSE "on_message"
           f == [Top EXCEPT !.pos = a, !.garbled = r, !.phase = b]
<1>4. /\ a \in Nat /\ a <= Top.size /\ a = Top.pos + c /\ r \in BOOLEAN
      /\ b \in Phases /\ b \in {"ack", "on_message"} /\ (b = "ack" => Top.topic > MaxTopic)
  BY <1>1, <1>3, TopIsFine DEF Phases
<1>5. SetTop(f)
  BY <1>2
<1> HIDE DEF a, b, r
<1>6. /\ f \in Frame /\ Rest(Top, f) /\ f.pos = a /\ f.phase = b
      /\ f.moved = Top.moved /\ f.topic = Top.topic
  BY <1>3, <1>4 DEF Frame, Rest
<1> HIDE DEF f
<1>7. Top.mode # "local" /\ Top.k # 0 /\ (Top.topic > MaxTopic => Top.k \in offered)
  BY <1>1, TopIsFine DEF Fine
<1>8. Fine(f, offered', link' # "closed", stream)
  BY <1>1, <1>4, <1>6, <1>7, TopIsFine DEF Fine, Rest
<1> QED
  BY <1>1, <1>2, <1>3, <1>4, <1>5, <1>6, <1>8, TopTakes, OfferedMore

LEMMA ReplyRead == FrameInv /\ ReadReply => FrameInv'
<1> SUFFICES ASSUME FrameInv, ReadReply PROVE FrameInv'
  OBVIOUS
<1>1. /\ frames # <<>> /\ Top.phase = "reply"
      /\ side' = side /\ stream' = stream /\ early' = early /\ acked' = acked
      /\ offered' = offered
  BY DEF ReadReply, In
<1>2. PICK c \in 0..U16 :
         /\ TakeBytes(U16, c) \/ (Take(c) /\ link' = "closed")
         /\ SetTop([Top EXCEPT !.pos = @ + c, !.phase = "skip", !.answered = TRUE])
  BY DEF ReadReply
<1>3. Top \in Frame /\ U16 \in Nat /\ U16 <= Remaining /\ c \in Nat
  BY <1>1, AskedFor, TopIsFine
<1> DEFINE a == Top.pos + c
           f == [Top EXCEPT !.pos = a, !.phase = "skip", !.answered = TRUE]
<1>4. a \in Nat /\ a <= Top.size /\ a = Top.pos + c
  BY <1>1, <1>3, TopIsFine
<1>5. SetTop(f)
  BY <1>2
<1> HIDE DEF a
<1>6. /\ f \in Frame /\ Rest(Top, f) /\ f.pos = a /\ f.phase = "skip"
      /\ f.moved = Top.moved /\ f.topic = Top.topic
  BY <1>3, <1>4 DEF Frame, Rest, Phases
<1> HIDE DEF f
<1>7. Top.mode # "local"
  BY <1>1, TopIsFine DEF Fine
<1>8. \A open \in BOOLEAN : Fine(f, offered, open, stream)
  BY <1>1, <1>4, <1>6, <1>7, TopIsFine DEF Fine, Rest
<1>9. CASE TakeBytes(U16, c)
  BY <1>1, <1>2, <1>3, <1>4, <1>5, <1>6, <1>8, <1>9, TopTakes, OfferedMore
<1>10. CASE Take(c) /\ link' = "closed"
  BY <1>1, <1>3, <1>4, <1>5, <1>6, <1>7, <1>8, <1>10, TopCloses
<1> QED
  BY <1>2, <1>9, <1>10

-----------------------------------------------------------------------------
(* Requests to the broker.                                                 *)

RequestPhases == {"request", "topics", "filter", "qos", "pass_over"}

\* Frames of requests differ in where they are, not in what is known of messages.
LEMMA RequestFine ==
    ASSUME FrameInv, frames # <<>>, Top.phase \in RequestPhases,
           NEW f \in Frame, Rest(Top, f), f.pos <= f.size, f.moved = Top.moved,
           f.phase \in RequestPhases \cup {"skip"}, NEW open \in BOOLEAN
    PROVE  Top.mode # "local" /\ Fine(f, offered, open, stream)
BY TopIsFine DEF Fine, Rest, RequestPhases

\* The frame on top is c bytes further and in another phase, however it got there.
LEMMA RequestReads ==
    ASSUME FrameInv, frames # <<>>, Top.phase \in RequestPhases,
           NEW n \in Nat, n <= Remaining, NEW c \in 0..n,
           TakeBytes(n, c) \/ TakeBlock(n, c) \/ (Take(c) /\ link' = "closed"),
           NEW f \in Frame, SetTop(f), Rest(Top, f), f.pos = Top.pos + c, f.moved = Top.moved,
           f.phase \in RequestPhases \cup {"skip"},
           side' = side, stream' = stream, early' = early, acked' = acked, offered' = offered
    PROVE  FrameInv'
<1>1. f.pos <= f.size
  BY TopIsFine DEF Rest
<1>2. Top.mode # "local" /\ \A open \in BOOLEAN : Fine(f, offered, open, stream)
  BY <1>1, RequestFine
<1>3. CASE TakeBytes(n, c) \/ TakeBlock(n, c)
  BY <1>2, <1>3, TopTakes, OfferedMore
<1>4. CASE Take(c) /\ link' = "closed"
  <2>1. c \in Nat
    OBVIOUS
  <2>2. Top.mode # "local" /\ Fine(f, offered', FALSE, stream)
    BY <1>2
  <2> HIDE DEF RequestPhases
  <2> QED
    BY <1>4, <2>1, <2>2, TopCloses
<1> QED
  BY <1>3, <1>4

LEMMA RequestRead == FrameInv /\ ReadRequest => FrameInv'
<1> SUFFICES ASSUME FrameInv, ReadRequest PROVE FrameInv'
  OBVIOUS
<1>1. /\ frames # <<>> /\ Top.phase = "request"
      /\ side' = side /\ stream' = stream /\ early' = early /\ acked' = acked
      /\ offered' = offered
  BY DEF ReadRequest, In
<1>2. PICK c \in 0..U16 :
         \/ /\ TakeBytes(U16, c)
            /\ SetTop([Top EXCEPT !.pos = @ + c, !.phase = "topics", !.garbled = c < 2])
         \/ /\ Take(c) /\ link' = "closed"
            /\ SetTop([Top EXCEPT !.pos = @ + c, !.phase = "skip"])
  BY DEF ReadRequest
<1>3. Top \in Frame /\ U16 \in Nat /\ U16 <= Remaining
  BY <1>1, AskedFor, TopIsFine
<1> DEFINE a == Top.pos + c
           r == c < 2
           f == [Top EXCEPT !.pos = a, !.phase = "topics", !.garbled = r]
           g == [Top EXCEPT !.pos = a, !.phase = "skip"]
<1>4. a \in Nat /\ a = Top.pos + c /\ r \in BOOLEAN
  BY <1>1, <1>3, TopIsFine
<1>5. \/ TakeBytes(U16, c) /\ SetTop(f)
      \/ Take(c) /\ link' = "closed" /\ SetTop(g)
  BY <1>2
<1> HIDE DEF a, r
<1>6. /\ f \in Frame /\ Rest(Top, f) /\ f.pos = a /\ f.phase = "topics" /\ f.moved = Top.moved
      /\ g \in Frame /\ Rest(Top, g) /\ g.pos = a /\ g.phase = "skip" /\ g.moved = Top.moved
  BY <1>3, <1>4 DEF Frame, Rest, Phases
<1> HIDE DEF f, g
<1>7. CASE TakeBytes(U16, c) /\ SetTop(f)
  BY <1>1, <1>3, <1>4, <1>6, <1>7, RequestReads DEF RequestPhases
<1>8. CASE Take(c) /\ link' = "closed" /\ SetTop(g)
  BY <1>1, <1>3, <1>4, <1>6, <1>8, RequestReads DEF RequestPhases
<1> QED
  BY <1>5, <1>7, <1>8

LEMMA TopicFound == FrameInv /\ NextTopic => FrameInv'
<1> SUFFICES ASSUME FrameInv, NextTopic PROVE FrameInv'
  OBVIOUS
<1> DEFINE next(t) == IF t > MaxTopic \/ (Top.p.type = "SUBSCRIBE" /\ Top.count = MaxSubs)
                      THEN "pass_over" ELSE "filter"
<1>1. /\ frames # <<>> /\ Top.phase = "topics"
      /\ side' = side /\ stream' = stream /\ early' = early /\ acked' = acked
      /\ offered' = offered
  BY DEF NextTopic, In
<1>2. PICK c \in 0..U16 : \E t \in Lengths(c) :
         /\ TakeBytes(U16, c)
         /\ SetTop([Top EXCEPT !.pos = @ + c, !.topic = t, !.garbled = @ \/ c < 2,
                       !.count = Least(@ + 1, MaxSubs), !.phase = next(t)])
  BY DEF NextTopic
<1>3. PICK t \in Lengths(c) :
         /\ TakeBytes(U16, c)
         /\ SetTop([Top EXCEPT !.pos = @ + c, !.topic = t, !.garbled = @ \/ c < 2,
                       !.count = Least(@ + 1, MaxSubs), !.phase = next(t)])
  BY <1>2
<1>4. Top \in Frame /\ U16 \in Nat /\ U16 <= Remaining /\ t \in Nat
  BY <1>1, <1>3, AskedFor, TopIsFine, LengthIs
<1> DEFINE a == Top.pos + c
           r == Top.garbled \/ c < 2
           m == Least(Top.count + 1, MaxSubs)
           b == next(t)
           f == [Top EXCEPT !.pos = a, !.topic = t, !.garbled = r, !.count = m, !.phase = b]
<1>5. a \in Nat /\ a = Top.pos + c
  BY <1>1, <1>4, TopIsFine
<1>6. m \in Nat /\ b \in {"pass_over", "filter"} /\ r \in BOOLEAN
  <2>1. Top.count \in Nat /\ MaxSubs \in Nat
    BY <1>4, FramingAssumption DEF Frame
  <2> QED
    BY <2>1 DEF Least
<1>7. SetTop(f)
  BY <1>3
<1> HIDE DEF a, r, m, b
<1>8. /\ f \in Frame /\ Rest(Top, f) /\ f.pos = a /\ f.phase = b /\ f.moved = Top.moved
  BY <1>4, <1>5, <1>6 DEF Frame, Rest, Phases
<1> HIDE DEF f
<1> QED
  BY <1>1, <1>3, <1>4, <1>5, <1>6, <1>7, <1>8, RequestReads DEF RequestPhases

LEMMA FilterRead == FrameInv /\ ReadFilter => FrameInv'
<1> SUFFICES ASSUME FrameInv, ReadFilter PROVE FrameInv'
  OBVIOUS
<1> DEFINE n == Least(Top.topic, Remaining)
           next(c) == IF c < Top.topic THEN "skip"
                      ELSE IF Top.p.type = "SUBSCRIBE" THEN "qos" ELSE "topics"
<1>1. /\ frames # <<>> /\ Top.phase = "filter"
      /\ side' = side /\ stream' = stream /\ early' = early /\ acked' = acked
      /\ offered' = offered
  BY DEF ReadFilter, In
<1>2. PICK c \in 0..n :
         TakeBlock(n, c) /\ SetTop([Top EXCEPT !.pos = @ + c, !.phase = next(c)])
  BY DEF ReadFilter
<1>3. Top \in Frame /\ n \in Nat /\ n <= Remaining
  <2>1. Top \in Frame /\ Top.topic \in Nat /\ Remaining \in Nat
    BY <1>1, TopIsFine
  <2>2. n \in 0..Remaining
    BY <1>1, <2>1, AskedFor
  <2> HIDE DEF n
  <2> QED
    BY <2>1, <2>2
<1> HIDE DEF n
<1> DEFINE a == Top.pos + c
           b == next(c)
           f == [Top EXCEPT !.pos = a, !.phase = b]
<1>4. a \in Nat /\ a = Top.pos + c /\ b \in {"skip", "qos", "topics"}
  BY <1>1, <1>3, TopIsFine
<1>5. SetTop(f)
  BY <1>2
<1> HIDE DEF a, b
<1>6. /\ f \in Frame /\ Rest(Top, f) /\ f.pos = a /\ f.phase = b /\ f.moved = Top.moved
  BY <1>3, <1>4 DEF Frame, Rest, Phases
<1> HIDE DEF f
<1> QED
  BY <1>1, <1>2, <1>3, <1>4, <1>5, <1>6, RequestReads DEF RequestPhases

LEMMA QosRead == FrameInv /\ ReadQos => FrameInv'
<1> SUFFICES ASSUME FrameInv, ReadQos PROVE FrameInv'
  OBVIOUS
<1> DEFINE n == Least(1, Remaining)
<1>1. /\ frames # <<>> /\ Top.phase = "qos"
      /\ side' = side /\ stream' = stream /\ early' = early /\ acked' = acked
      /\ offered' = offered
  BY DEF ReadQos, In
<1>2. PICK c \in 0..n :
         \/ /\ c = n /\ TakeBytes(c, c)
            /\ SetTop([Top EXCEPT !.pos = @ + c, !.phase = "topics"])
         \/ /\ Take(c) /\ link' = "closed"
            /\ SetTop([Top EXCEPT !.pos = @ + c, !.phase = "skip"])
  BY DEF ReadQos
<1>3. Top \in Frame /\ n \in Nat /\ n <= Remaining
  <2>1. Top \in Frame /\ 1 \in Nat /\ Remaining \in Nat
    BY <1>1, TopIsFine
  <2>2. n \in 0..Remaining
    BY <1>1, <2>1, AskedFor
  <2> HIDE DEF n
  <2> QED
    BY <2>1, <2>2
<1> HIDE DEF n
<1> DEFINE a == Top.pos + c
           f == [Top EXCEPT !.pos = a, !.phase = "topics"]
           g == [Top EXCEPT !.pos = a, !.phase = "skip"]
<1>4. a \in Nat /\ a = Top.pos + c
  BY <1>1, <1>3, TopIsFine
<1>5. \/ TakeBytes(n, c) /\ SetTop(f)
      \/ Take(c) /\ link' = "closed" /\ SetTop(g)
  BY <1>2
<1> HIDE DEF a
<1>6. /\ f \in Frame /\ Rest(Top, f) /\ f.pos = a /\ f.phase = "topics" /\ f.moved = Top.moved
      /\ g \in Frame /\ Rest(Top, g) /\ g.pos = a /\ g.phase = "skip" /\ g.moved = Top.moved
  BY <1>3, <1>4 DEF Frame, Rest, Phases
<1> HIDE DEF f, g
<1>7. CASE TakeBytes(n, c) /\ SetTop(f)
  BY <1>1, <1>3, <1>4, <1>6, <1>7, RequestReads DEF RequestPhases
<1>8. CASE Take(c) /\ link' = "closed" /\ SetTop(g)
  BY <1>1, <1>3, <1>4, <1>6, <1>8, RequestReads DEF RequestPhases
<1> QED
  BY <1>5, <1>7, <1>8

LEMMA PassedOver == FrameInv /\ PassOver => FrameInv'
<1> SUFFICES ASSUME FrameInv, PassOver PROVE FrameInv'
  OBVIOUS
<1> DEFINE n == Least(Top.topic + QosBytes(Top.p), Remaining)
<1>1. /\ frames # <<>> /\ Top.phase = "pass_over"
      /\ side' = side /\ stream' = stream /\ early' = early /\ acked' = acked
      /\ offered' = offered
  BY DEF PassOver, In
<1>2. PICK c \in 0..n :
         /\ TakeBytes(n, c)
         /\ SetTop([Top EXCEPT !.pos = @ + c, !.phase = "topics", !.garbled = @ \/ c < n])
  BY DEF PassOver
<1>3. Top \in Frame /\ n \in Nat /\ n <= Remaining
  <2>1. Top \in Frame /\ Top.topic + QosBytes(Top.p) \in Nat /\ Remaining \in Nat
    BY <1>1, TopIsFine DEF QosBytes
  <2>2. n \in 0..Remaining
    BY <1>1, <2>1, AskedFor
  <2> HIDE DEF n
  <2> QED
    BY <2>1, <2>2
<1> HIDE DEF n
<1> DEFINE a == Top.pos + c
           r == Top.garbled \/ c < n
           f == [Top EXCEPT !.pos = a, !.phase = "topics", !.garbled = r]
<1>4. a \in Nat /\ a = Top.pos + c /\ r \in BOOLEAN
  BY <1>1, <1>3, TopIsFine
<1>5. SetTop(f)
  BY <1>2
<1> HIDE DEF a, r
<1>6. /\ f \in Frame /\ Rest(Top, f) /\ f.pos = a /\ f.phase = "topics" /\ f.moved = Top.moved
  BY <1>3, <1>4 DEF Frame, Rest, Phases
<1> HIDE DEF f
<1> QED
  BY <1>1, <1>2, <1>3, <1>4, <1>5, <1>6, RequestReads DEF RequestPhases

LEMMA PayloadRead == FrameInv /\ ReadPayload => FrameInv'
<1> SUFFICES ASSUME FrameInv, ReadPayload PROVE FrameInv'
  OBVIOUS
<1> DEFINE n == Remaining
<1>1. /\ frames # <<>> /\ Top.phase = "payload"
      /\ side' = side /\ stream' = stream /\ early' = early /\ acked' = acked
      /\ offered' = offered \cup ({Top.k} \ {0})
      /\ TakeBlock(n, n)
      /\ SetTop([Top EXCEPT !.pos = @ + n, !.phase = "callback"])
  BY DEF ReadPayload, In
<1>2. Top \in Frame /\ n \in Nat /\ n <= Remaining /\ n \in 0..n
  BY <1>1, TopIsFine
<1> DEFINE a == Top.pos + n
           f == [Top EXCEPT !.pos = a, !.phase = "callback"]
<1>3. a \in Nat /\ a <= Top.size /\ a = Top.pos + n
  BY <1>1, TopIsFine
<1>4. SetTop(f)
  BY <1>1
<1> HIDE DEF a, n
<1>5. /\ f \in Frame /\ Rest(Top, f) /\ f.pos = a /\ f.phase = "callback"
      /\ f.moved = Top.moved /\ f.topic = Top.topic
  BY <1>2, <1>3 DEF Frame, Rest, Phases
<1> HIDE DEF f
<1>6. Top.mode # "local" => Top.k \in offered'
  BY <1>1, TopIsFine DEF Fine
<1>7. Fine(f, offered', link' # "closed", stream)
  BY <1>1, <1>3, <1>5, <1>6, TopIsFine DEF Fine, Rest
<1>8. offered \subseteq offered' /\ offered' \subseteq DOMAIN stream
  BY <1>1, OfferedMore
<1> QED
  BY <1>1, <1>2, <1>3, <1>4, <1>5, <1>7, <1>8, TopTakes

\* Where a callback leaves a packet that was offered, or whose connection is closed.
LEMMA AfterCallbackIs ==
    ASSUME FrameInv, frames # <<>>, Top.phase \in {"payload", "callback"}
    PROVE  /\ AfterCallback \in Phases /\ AfterCallback \in {"forward", "ack", "skip"}
           /\ AfterCallback = "forward" => Top.mode = "loop"
           /\ Top.mode = "local" => AfterCallback = "skip"
BY DEF AfterCallback, Phases

LEMMA PayloadCut == FrameInv /\ PayloadFails => FrameInv'
<1> SUFFICES ASSUME FrameInv, PayloadFails PROVE FrameInv'
  OBVIOUS
<1> DEFINE n == Remaining
           b == AfterCallback
<1>1. /\ frames # <<>> /\ Top.phase = "payload"
      /\ side' = side /\ stream' = stream /\ early' = early /\ acked' = acked
      /\ offered' = offered
  BY DEF PayloadFails, In
<1>2. PICK c \in 0..(n - 1) :
         TakeBlock(n, c) /\ SetTop([Top EXCEPT !.pos = @ + c, !.phase = b])
  BY DEF PayloadFails
<1>3. Top \in Frame /\ n \in Nat /\ n <= Remaining /\ c \in 0..n /\ c < n
  BY <1>1, TopIsFine
<1> DEFINE a == Top.pos + c
           f == [Top EXCEPT !.pos = a, !.phase = b]
<1>4. a \in Nat /\ a <= Top.size /\ a = Top.pos + c
  BY <1>1, <1>3, TopIsFine
<1>5. SetTop(f)
  BY <1>2
<1>6. b \in Phases /\ b \in {"forward", "ack", "skip"} /\ (b = "forward" => Top.mode = "loop")
  BY <1>1, AfterCallbackIs
<1> HIDE DEF a, n, b
<1>7. /\ f \in Frame /\ Rest(Top, f) /\ f.pos = a /\ f.phase = b
      /\ f.moved = Top.moved /\ f.topic = Top.topic
  BY <1>3, <1>4, <1>6 DEF Frame, Rest
<1> HIDE DEF f
<1>8. Top.mode # "local" /\ link' = "closed"
  BY <1>2, <1>3 DEF TakeBlock, TakeMemory
<1>9. Fine(f, offered', link' # "closed", stream)
  BY <1>1, <1>4, <1>6, <1>7, <1>8, TopIsFine DEF Fine, Rest
<1> QED
  BY <1>1, <1>2, <1>3, <1>4, <1>5, <1>7, <1>9, TopTakes, OfferedMore

LEMMA CallbackHasRead == FrameInv /\ CallbackReads => FrameInv'
<1> SUFFICES ASSUME FrameInv, CallbackReads PROVE FrameInv'
  OBVIOUS
<1>1. /\ frames # <<>> /\ Top.phase = "callback"
      /\ side' = side /\ stream' = stream /\ early' = early /\ acked' = acked
      /\ offered' = offered
  BY DEF CallbackReads, In
<1>2. PICK n \in 1..Remaining : \E c \in 0..n :
         (TakeBlock(n, c) \/ TakeBytes(n, c)) /\ SetTop([Top EXCEPT !.pos = @ + c])
  BY DEF CallbackReads
<1>3. PICK c \in 0..n :
         (TakeBlock(n, c) \/ TakeBytes(n, c)) /\ SetTop([Top EXCEPT !.pos = @ + c])
  BY <1>2
<1>4. Top \in Frame /\ n \in Nat /\ n <= Remaining
  BY <1>1, TopIsFine
<1> DEFINE a == Top.pos + c
           f == [Top EXCEPT !.pos = a]
<1>5. a \in Nat /\ a <= Top.size /\ a = Top.pos + c
  BY <1>1, <1>4, TopIsFine
<1>6. SetTop(f)
  BY <1>3
<1> HIDE DEF a
<1>7. /\ f \in Frame /\ Rest(Top, f) /\ f.pos = a /\ f.phase = Top.phase
      /\ f.moved = Top.moved /\ f.topic = Top.topic
  BY <1>4, <1>5 DEF Frame, Rest
<1> HIDE DEF f
<1>8. Fine(f, offered', link' # "closed", stream)
  BY <1>1, <1>5, <1>7, TopIsFine DEF Fine, Rest
<1> QED
  BY <1>1, <1>3, <1>4, <1>5, <1>6, <1>7, <1>8, TopTakes, OfferedMore

-----------------------------------------------------------------------------
(* Steps that do not read, and those with which packets begin and end.     *)

\* The frame on top changes, but neither what it still has to read nor the link.
LEMMA TopStays ==
    ASSUME FrameInv, frames # <<>>, NEW f \in Frame, SetTop(f), Rest(Top, f), f.pos = Top.pos,
           side' = side, stream' = stream, early' = early, taken' = taken, link' = link,
           acked' \subseteq offered', offered \subseteq offered', offered' \subseteq DOMAIN stream,
           Fine(f, offered', link # "closed", stream)
    PROVE  FrameInv'
<1>1. Onward
  BY OfferedMore DEF Onward, Readable
<1>2. taken' = taken + (IF Top.mode = "local" THEN 0 ELSE 0) /\ f.pos = Top.pos + 0
  <2>1. taken \in Nat /\ Top.pos \in Nat
    BY OfferedMore, TopIsFine
  <2> QED
    BY <2>1
<1> QED
  BY <1>1, <1>2, TopReads

LEMMA MessageFound == ASSUME NEW kind, FrameInv, OnMessage(kind) PROVE FrameInv'
<1> DEFINE first == kind = "payload" /\ Remaining < MaxMessage
           b == IF first THEN "payload" ELSE "callback"
           f == [Top EXCEPT !.phase = b, !.moved = 0]
<1>1. /\ frames # <<>> /\ Top.phase = "on_message"
      /\ side' = side /\ stream' = stream /\ early' = early /\ acked' = acked
      /\ taken' = taken /\ link' = link
      /\ SetTop(f)
      /\ offered' = IF first THEN offered ELSE offered \cup ({Top.k} \ {0})
  BY DEF OnMessage, In, LeftBehind
<1>2. b \in Phases /\ b \in {"payload", "callback"} /\ (b = "callback" => ~first)
  BY DEF Phases
<1> HIDE DEF first, b
<1>3. Top \in Frame
  BY <1>1, TopIsFine
<1>4. /\ f \in Frame /\ Rest(Top, f) /\ f.pos = Top.pos /\ f.phase = b
      /\ f.moved = 0 /\ f.topic = Top.topic
  BY <1>2, <1>3 DEF Frame, Rest
<1> HIDE DEF f
<1>5. Top.mode # "local" /\ b = "callback" => Top.k \in offered'
  BY <1>1, <1>2, TopIsFine DEF Fine
<1>6. Fine(f, offered', link # "closed", stream)
  BY <1>1, <1>2, <1>4, <1>5, TopIsFine DEF Fine, Rest
<1>7. /\ offered \subseteq offered' /\ offered' \subseteq DOMAIN stream
      /\ acked' \subseteq offered'
  BY <1>1, OfferedMore
<1> QED
  BY <1>1, <1>4, <1>6, <1>7, TopStays

LEMMA CallbackEnds == FrameInv /\ CallbackReturns => FrameInv'
<1> SUFFICES ASSUME FrameInv, CallbackReturns PROVE FrameInv'
  OBVIOUS
<1> DEFINE b == AfterCallback
           f == [Top EXCEPT !.phase = b]
<1>1. /\ frames # <<>> /\ Top.phase = "callback"
      /\ side' = side /\ stream' = stream /\ early' = early /\ acked' = acked
      /\ taken' = taken /\ link' = link /\ offered' = offered
      /\ SetTop(f)
  BY DEF CallbackReturns, In
<1>2. /\ b \in Phases /\ b \in {"forward", "ack", "skip"} /\ (b = "forward" => Top.mode = "loop")
      /\ Top.mode = "local" => b = "skip"
  BY <1>1, AfterCallbackIs
<1> HIDE DEF b
<1>3. Top \in Frame
  BY <1>1, TopIsFine
<1>4. /\ f \in Frame /\ Rest(Top, f) /\ f.pos = Top.pos /\ f.phase = b
      /\ f.moved = Top.moved /\ f.topic = Top.topic
  BY <1>2, <1>3 DEF Frame, Rest
<1> HIDE DEF f
<1>5. Fine(f, offered', link # "closed", stream)
  BY <1>1, <1>2, <1>4, TopIsFine DEF Fine, Rest
<1> QED
  BY <1>1, <1>4, <1>5, TopStays, OfferedMore

LEMMA AckSent == FrameInv /\ SendAck => FrameInv'
<1> SUFFICES ASSUME FrameInv, SendAck PROVE FrameInv'
  OBVIOUS
<1> DEFINE f == [Top EXCEPT !.phase = "skip"]
<1>1. /\ frames # <<>> /\ Top.phase = "ack"
      /\ side' = side /\ stream' = stream /\ early' = early /\ taken' = taken
      /\ offered' = offered
      /\ link' \in IF link = "cut" THEN {"cut", "closed"} ELSE {link}
      /\ acked' = IF ~Top.garbled /\ link = "up" THEN acked \cup {Top.k} ELSE acked
      /\ SetTop(f)
  BY DEF SendAck, In
<1>2. Top \in Frame
  BY <1>1, TopIsFine
<1>3. /\ f \in Frame /\ Rest(Top, f) /\ f.pos = Top.pos /\ f.phase = "skip"
      /\ f.moved = Top.moved /\ f.topic = Top.topic
  BY <1>2 DEF Frame, Rest, Phases
<1> HIDE DEF f
<1>4. Fine(f, offered', link' # "closed", stream)
  BY <1>1, <1>3, TopIsFine DEF Fine, Rest
<1>5. link = "up" => Top.k \in offered
  BY <1>1, TopIsFine DEF Fine
<1>6. acked' \subseteq offered'
  BY <1>1, <1>5, OfferedMore
<1>7. Onward
  BY <1>1, <1>6, OfferedMore DEF Onward, Readable, Links
<1>8. taken' = taken + (IF Top.mode = "local" THEN 0 ELSE 0) /\ f.pos = Top.pos + 0
  <2>1. taken \in Nat /\ Top.pos \in Nat
    BY <1>1, OfferedMore, TopIsFine
  <2> QED
    BY <1>1, <1>3, <2>1
<1> QED
  BY <1>1, <1>3, <1>4, <1>7, <1>8, TopReads

LEMMA TopicsRead == FrameInv /\ TopicsEnd => FrameInv'
<1> SUFFICES ASSUME FrameInv, TopicsEnd PROVE FrameInv'
  OBVIOUS
<1> DEFINE f == [Top EXCEPT !.phase = "skip"]
<1>1. /\ frames # <<>> /\ Top.phase = "topics"
      /\ side' = side /\ stream' = stream /\ early' = early /\ taken' = taken
      /\ offered' = offered /\ acked' = acked
      /\ link' \in IF link = "cut" THEN {"cut", "closed"} ELSE {link}
      /\ SetTop(f)
  BY DEF TopicsEnd, In
<1>2. Top \in Frame /\ Top.pos <= Top.size
  BY <1>1, TopIsFine
<1>3. /\ f \in Frame /\ Rest(Top, f) /\ f.pos = Top.pos /\ f.phase = "skip"
      /\ f.moved = Top.moved
  BY <1>2 DEF Frame, Rest, Phases
<1> HIDE DEF f
<1>4. Fine(f, offered', link' # "closed", stream)
  BY <1>1, <1>2, <1>3, RequestFine DEF RequestPhases, Rest
<1>5. Onward
  BY <1>1, OfferedMore DEF Onward, Readable, Links
<1>6. taken' = taken + (IF Top.mode = "local" THEN 0 ELSE 0) /\ f.pos = Top.pos + 0
  <2>1. taken \in Nat /\ Top.pos \in Nat
    BY <1>1, OfferedMore, TopIsFine
  <2> QED
    BY <1>1, <1>3, <2>1
<1> QED
  BY <1>1, <1>3, <1>4, <1>5, <1>6, TopReads

LEMMA Forwarded == FrameInv /\ Forward => FrameInv'
<1> SUFFICES ASSUME FrameInv, Forward PROVE FrameInv'
  OBVIOUS
<1> DEFINE n == Remaining
           a == Top.size - Top.moved
           b == IF Top.p.id THEN "ack" ELSE "skip"
           f == [Top EXCEPT !.pos = a, !.phase = b]
<1>1. /\ frames # <<>> /\ Top.phase = "forward"
      /\ side' = side /\ stream' = stream /\ early' = early /\ acked' = acked
      /\ offered' = offered
      /\ SetTop(f)
  BY DEF Forward, In
<1>2. PICK c \in 0..n : TakeBlock(n, c)
  BY DEF Forward
<1>3. /\ Top \in Frame /\ n \in Nat /\ n = Top.size - Top.pos
      /\ Top.pos \in Nat /\ Top.size \in Nat /\ Top.pos <= Top.size
  BY <1>1, TopIsFine
<1>4. Top.moved = 0 /\ Top.mode = "loop"
  BY <1>1, TopIsFine DEF Fine
<1>5. a = Top.size /\ a \in Nat /\ b \in Phases /\ b \in {"ack", "skip"}
  BY <1>3, <1>4 DEF Phases
<1> HIDE DEF a, b, n
<1>6. /\ f \in Frame /\ Rest(Top, f) /\ f.pos = a /\ f.phase = b
      /\ f.moved = Top.moved /\ f.topic = Top.topic
  BY <1>3, <1>5 DEF Frame, Rest
<1> HIDE DEF f
<1>7. /\ taken' \in 0..Total /\ link' \in Links /\ taken' = taken + c
      /\ link = "closed" => link' = "closed"
      /\ Readable' => Readable
  BY <1>2, <1>3, <1>4, Taking DEF FrameInv
<1>8. Onward
  BY <1>1, <1>7, OfferedMore DEF Onward
<1>9. Fine(f, offered', link' # "closed", stream)
  BY <1>1, <1>3, <1>4, <1>5, <1>6, <1>7, TopIsFine DEF Fine, Rest
<1>10. c # n => link' = "closed"
  BY <1>2, <1>3, <1>4 DEF TakeBlock
<1>11. CASE c = n
  <2>1. f.pos = Top.pos + c /\ c \in Nat
    BY <1>3, <1>5, <1>6, <1>11
  <2>2. taken' = taken + (IF Top.mode = "local" THEN 0 ELSE c)
    BY <1>4, <1>7
  <2> QED
    BY <1>1, <1>6, <1>8, <1>9, <2>1, <2>2, TopReads
<1>12. CASE c # n
  <2>1. ~Readable'
    BY <1>10, <1>12 DEF Readable
  <2> QED
    BY <1>1, <1>6, <1>8, <1>9, <2>1, TopStep
<1> QED
  BY <1>11, <1>12

LEMMA EndKnown ==
    ASSUME FrameInv, frames # <<>>, NEW f \in Frame, Onward, SetTop(f),
           Fine(f, offered', link' # "closed", stream), Left(f) = 0,
           Readable' /\ ~early' => \E k \in 0..Len(stream) : taken' = EndOf(k)
    PROVE  FrameInv'
<1>1. taken' + Left(f) = taken'
  <2>1. taken' \in Nat
    BY DEF Onward, Total
  <2>2. Left(f) = 0 /\ \A x \in Nat : x + 0 = x
    OBVIOUS
  <2> QED
    BY <2>1, <2>2, Zenon
<1> QED
  BY <1>1, TopStep

LEMMA AnyPacketIs == AnyPacket \in Packets
BY PacketAssumption DEF AnyPacket

LEMMA Skipped == FrameInv /\ Skip => FrameInv'
<1> SUFFICES ASSUME FrameInv, Skip PROVE FrameInv'
  OBVIOUS
<1> DEFINE n == Remaining
<1>1. /\ frames # <<>> /\ Top.phase = "skip"
      /\ side' = side /\ stream' = stream /\ early' = early /\ acked' = acked
      /\ offered' = offered
      /\ Leave
  BY DEF Skip, In
<1>2. PICK c \in 0..n :
         IF c = n \/ link # "up" \/ Top.mode = "local"
         THEN TakeBytes(n, c) ELSE Take(c) /\ link' = "astray"
  BY DEF Skip
<1>3. /\ Top \in Frame /\ n \in Nat /\ n = Top.size - Top.pos
      /\ taken \in 0..Total /\ taken \in Nat /\ link \in Links
  BY <1>1, TopIsFine, OfferedMore
<1> HIDE DEF n
<1>4. /\ Onward
      /\ Readable' /\ ~early' => \E k \in 0..Len(stream) : taken' = EndOf(k)
  <2>1. CASE c = n \/ link # "up" \/ Top.mode = "local"
    <3>1. TakeBytes(n, c)
      BY <1>2, <2>1
    <3>2. /\ taken' \in 0..Total /\ link' \in Links
          /\ taken' = taken + (IF Top.mode = "local" THEN 0 ELSE c)
          /\ link = "closed" => link' = "closed"
          /\ Readable' => Readable
      BY <1>3, <3>1, Taking DEF FrameInv
    <3>3. Onward
      BY <1>1, <3>2, OfferedMore DEF Onward
    <3>4. ASSUME Readable', ~early'
          PROVE  \E k \in 0..Len(stream) : taken' = EndOf(k)
      <4>1. Readable /\ ~early
        BY <1>1, <3>2, <3>4
      <4>2. PICK k \in 0..Len(stream) : taken + Ahead = EndOf(k)
        BY <4>1 DEF FrameInv, Placed
      <4>3. Ahead = IF Top.mode = "local" THEN 0 ELSE n
        BY <1>1, <1>3 DEF Ahead, Left
      <4>4. Top.mode # "local" => c = n
        <5> SUFFICES ASSUME Top.mode # "local", c # n PROVE FALSE
          OBVIOUS
        <5>1. c < n /\ link # "up"
          BY <1>3, <2>1
        <5>2. link' = IF link = "cut" THEN "closed" ELSE link
          BY <3>1, <5>1 DEF TakeBytes
        <5> QED
          BY <3>4, <5>1, <5>2 DEF Readable
      <4>5. taken' = taken + Ahead
        BY <3>2, <4>3, <4>4
      <4> QED
        BY <4>2, <4>5
    <3> QED
      BY <3>3, <3>4
  <2>2. CASE ~(c = n \/ link # "up" \/ Top.mode = "local")
    <3>1. Take(c) /\ link' = "astray" /\ link = "up"
      BY <1>2, <2>2
    <3>2. taken' \in 0..Total
      BY <1>3, <3>1 DEF Take
    <3>3. Onward
      BY <1>1, <3>1, <3>2, OfferedMore DEF Onward, Readable, Links
    <3> QED
      BY <3>1, <3>3 DEF Readable
  <2> QED
    BY <2>1, <2>2
<1>5. CASE PopTop
  BY <1>1, <1>4, <1>5, PopStep
<1> DEFINE f == [NewFrame("wait", AnyPacket) EXCEPT !.phase = "again"]
<1>6. CASE SetTop(f)
  <2>1. /\ f \in Frame /\ f.mode = "wait" /\ f.k = 0 /\ f.size = 0 /\ f.pos = 0
        /\ f.phase = "again" /\ f.moved = 0
    BY AnyPacketIs DEF NewFrame, Frame, Phases
  <2>2. SetTop(f)
    BY <1>6
  <2> HIDE DEF f
  <2>3. Fine(f, offered', link' # "closed", stream) /\ Left(f) = 0
    BY <2>1 DEF Fine, Left
  <2> QED
    BY <1>1, <1>4, <2>1, <2>2, <2>3, EndKnown
<1> QED
  BY <1>1, <1>5, <1>6 DEF Leave

LEMMA WaitsAgain == FrameInv /\ WaitAgain => FrameInv'
<1> SUFFICES ASSUME FrameInv, WaitAgain PROVE FrameInv'
  OBVIOUS
<1> DEFINE f == NewFrame("wait", AnyPacket)
<1>1. /\ frames # <<>> /\ Top.phase = "again"
      /\ side' = side /\ stream' = stream /\ early' = early /\ acked' = acked
      /\ offered' = offered /\ taken' = taken
      /\ \/ Readable /\ SetTop(f) /\ link' = link
         \/ PopTop /\ link' = "closed"
  BY DEF WaitAgain, In
<1>2. /\ Top.size = 0 /\ Top.pos = 0 /\ taken \in 0..Total /\ taken \in Nat /\ link \in Links
  <2>1. Top.size = 0
    BY <1>1, TopIsFine DEF Fine
  <2>2. Top.pos = 0
    BY <1>1, <2>1, TopIsFine
  <2>3. taken \in 0..Total /\ taken \in Nat /\ link \in Links
    BY <1>1, OfferedMore
  <2> QED
    BY <2>1, <2>2, <2>3
<1>3. Onward
  BY <1>1, <1>2, OfferedMore DEF Onward, Readable, Links
<1>4. CASE PopTop /\ link' = "closed"
  BY <1>1, <1>3, <1>4, PopStep DEF Readable
<1>5. CASE Readable /\ SetTop(f) /\ link' = link
  <2>1. /\ f \in Frame /\ f.mode = "wait" /\ f.k = 0 /\ f.size = 0 /\ f.pos = 0
        /\ f.phase = "head" /\ f.moved = 0
    BY AnyPacketIs, NewFrameIs
  <2>2. SetTop(f)
    BY <1>5
  <2> HIDE DEF f
  <2>3. Fine(f, offered', link' # "closed", stream) /\ Left(f) = 0
    BY <2>1 DEF Fine, Left
  <2>4. ASSUME Readable', ~early'
        PROVE  \E k \in 0..Len(stream) : taken' = EndOf(k)
    <3>1. PICK k \in 0..Len(stream) : taken + Ahead = EndOf(k)
      BY <1>1, <1>5, <2>4 DEF FrameInv, Placed
    <3>2. Ahead = 0
      BY <1>1, <1>2 DEF Ahead, Left
    <3> QED
      BY <1>1, <1>2, <3>1, <3>2
  <2> QED
    BY <1>1, <1>3, <2>1, <2>2, <2>3, <2>4, EndKnown
<1> QED
  BY <1>1, <1>4, <1>5

LEMMA BeginsIs ==
    ASSUME Begins # 0
    PROVE  Begins \in DOMAIN stream /\ EndOf(Begins - 1) = taken
<1>1. \E k \in DOMAIN stream : EndOf(k - 1) = taken
  BY DEF Begins
<1>2. Begins = CHOOSE k \in DOMAIN stream : EndOf(k - 1) = taken
  BY <1>1 DEF Begins
<1> QED
  BY <1>1, <1>2

LEMMA HeaderRead == FrameInv /\ ReadHeader => FrameInv'
<1> SUFFICES ASSUME FrameInv, ReadHeader PROVE FrameInv'
  OBVIOUS
<1> DEFINE k == Begins
           p == stream[k]
           z == DecodedSize(LengthDigits(BodySize(p)))
<1>1. /\ frames # <<>> /\ Top.phase = "head" /\ k # 0 /\ Readable
      /\ side' = side /\ stream' = stream /\ early' = early /\ acked' = acked
      /\ offered' = offered
      /\ Take(HeaderSize(p))
  BY DEF ReadHeader, In
<1>2. PICK next \in AfterHeader(p) :
         /\ SetTop([Top EXCEPT !.phase = next, !.p = p, !.k = k, !.size = z])
         /\ link' = IF next = "skip" THEN "closed" ELSE link
  BY DEF ReadHeader
<1>3. k \in DOMAIN stream /\ EndOf(k - 1) = taken
  BY <1>1, BeginsIs
<1> HIDE DEF k
<1>4. stream \in Seq(Packets) /\ Len(stream) \in Nat /\ DOMAIN stream = 1..Len(stream)
  BY LenProperties DEF FrameInv, FramingTypeOK
<1>5. k \in 1..Len(stream) /\ k \in Nat /\ p \in Packets
  BY <1>3, <1>4
<1>6. EndOf(k) = taken + HeaderSize(p) + BodySize(p)
  BY <1>3, <1>4, EndsAre
<1> HIDE DEF p
<1>7. /\ HeaderSize(p) \in Nat /\ BodySize(p) \in Nat /\ z = BodySize(p)
  BY <1>5, SizesAre
<1>8. next \in Phases /\ next \in {"topic_size", "reply", "request", "skip"}
      /\ (Top.mode = "local" => FALSE)
  <2>1. p.type \in {"PUBLISH", "SUBSCRIBE", "UNSUBSCRIBE", "REPLY"}
    BY <1>5, PacketAssumption
  <2>2. next \in {"topic_size", "reply", "request", "skip"}
    BY <1>2, <2>1 DEF AfterHeader
  <2>3. Top.mode # "local"
    BY <1>1, TopIsFine DEF Fine
  <2> QED
    BY <2>2, <2>3 DEF Phases
<1> HIDE DEF z
<1> DEFINE f == [Top EXCEPT !.phase = next, !.p = p, !.k = k, !.size = z]
<1>9. Top \in Frame /\ Top.size = 0 /\ Top.pos = 0 /\ Top.moved = 0
  <2>1. Top \in Frame /\ Top.size = 0 /\ Top.moved = 0
    BY <1>1, TopIsFine DEF Fine
  <2> QED
    BY <1>1, <2>1, TopIsFine
<1>10. SetTop(f)
  BY <1>2
<1>11. /\ f \in Frame /\ f.mode = Top.mode /\ f.k = k /\ f.size = z /\ f.pos = Top.pos
       /\ f.phase = next /\ f.moved = Top.moved
  BY <1>5, <1>7, <1>8, <1>9 DEF Frame
<1> HIDE DEF f
<1>12. taken \in Nat /\ taken' = taken + HeaderSize(p) /\ taken' \in 0..Total
  <2>1. taken \in 0..Total /\ taken \in Nat
    BY <1>1, OfferedMore
  <2>2. taken' = taken + HeaderSize(p) /\ taken + HeaderSize(p) <= Total
    BY <1>1 DEF Take
  <2> QED
    BY <1>7, <2>1, <2>2
<1>13. Onward
  BY <1>1, <1>2, <1>12, OfferedMore DEF Onward, Readable, Links
<1>14. Fine(f, offered', link' # "closed", stream)
  BY <1>1, <1>3, <1>5, <1>7, <1>8, <1>9, <1>11 DEF Fine
<1>15. taken' + Left(f) = EndOf(k) /\ f.k = k /\ k \in 0..Len(stream)
  <2>1. Left(f) = BodySize(p)
    BY <1>7, <1>8, <1>9, <1>11 DEF Left
  <2> QED
    BY <1>4, <1>5, <1>6, <1>7, <1>11, <1>12, <2>1
<1> QED
  BY <1>1, <1>10, <1>11, <1>13, <1>14, <1>15, TopStep

LEMMA HeaderLost == FrameInv /\ HeaderFails => FrameInv'
<1> SUFFICES ASSUME FrameInv, HeaderFails PROVE FrameInv'
  OBVIOUS
<1>1. /\ frames # <<>> /\ Top.phase = "head" /\ PopTop
      /\ side' = side /\ stream' = stream /\ early' = early /\ acked' = acked
      /\ offered' = offered
  BY DEF HeaderFails, In
<1>2. PICK c \in 0..(MaxDigits + 1) :
         /\ Take(c)
         /\ link' = IF Top.mode = "wait" \/ link = "cut" THEN "closed"
                    ELSE IF link = "up" THEN "astray" ELSE link
  BY DEF HeaderFails
<1>3. taken \in 0..Total /\ taken \in Nat /\ link \in Links
  BY <1>1, OfferedMore
<1>4. taken' \in 0..Total
  <2>1. c \in Nat
    BY FramingAssumption
  <2> QED
    BY <1>2, <1>3, <2>1 DEF Take
<1>5. link' \in {"closed", "astray"} /\ (link = "closed" => link' = "closed")
  <2>1. CASE Top.mode = "wait" \/ link = "cut"
    BY <1>2, <2>1
  <2>2. CASE ~(Top.mode = "wait" \/ link = "cut")
    BY <1>2, <1>3, <2>2 DEF Links
  <2> QED
    BY <2>1, <2>2
<1>6. Onward
  BY <1>1, <1>4, <1>5, OfferedMore DEF Onward, Readable, Links
<1> QED
  BY <1>1, <1>5, <1>6, PopStep DEF Readable

\* A packet begins, on a connection nobody reads from or inside a callback.
LEMMA PushStep ==
    ASSUME FrameInv, NEW g \in Frame, frames' = Append(frames, g),
           frames # <<>> => Top.phase = "callback",
           side' = side, stream' = stream, taken' = taken, link' = link, acked' = acked,
           offered' = offered, early' = (early \/ (frames # <<>> /\ Remaining > 0)),
           Fine(g, offered, link # "closed", stream), Left(g) = 0
    PROVE  FrameInv'
<1> DEFINE n == Len(frames)
<1>1. frames \in Seq(Frame) /\ taken \in 0..Total /\ taken \in Nat /\ early \in BOOLEAN
      /\ offered \subseteq DOMAIN stream /\ acked \subseteq offered /\ link \in Links
  BY DEF FrameInv, FramingTypeOK, AckedIsOffered, Links
<1>2. n \in Nat /\ DOMAIN frames = 1..n
  BY <1>1, LenProperties
<1>3. /\ frames' \in Seq(Frame) /\ frames' # <<>> /\ Len(frames') = n + 1
      /\ \A i \in 1..n : frames'[i] = frames[i]
      /\ frames'[n + 1] = g
  BY <1>1, AppendProperties
<1>4. DOMAIN frames' = 1..(n + 1)
  BY <1>3, LenProperties
<1>5. frames # <<>> => n \in 1..n /\ Top = frames[n]
  BY TopIs DEF FrameInv
<1>6. n # 0 => frames # <<>>
  BY EmptySeq
<1> HIDE DEF n
<1>7. Onward
  BY <1>1 DEF Onward, Readable
<1>8. \A i \in 1..n : Fine(frames[i], offered, link # "closed", stream)
  BY <1>2 DEF FrameInv, AllFine
<1>9. \A i \in 1..(n + 1) : Fine(frames'[i], offered, link # "closed", stream)
  <2> SUFFICES ASSUME NEW i \in 1..(n + 1)
               PROVE  Fine(frames'[i], offered, link # "closed", stream)
    OBVIOUS
  <2>1. i \in 1..n \/ i = n + 1
    BY <1>2
  <2> QED
    BY <1>3, <1>8, <2>1
<1>10. AllFine'
  BY <1>4, <1>9 DEF AllFine
<1>11. \A i \in 1..(n + 1) : frames'[i].pos <= frames'[i].size
  BY <1>9 DEF Fine
<1>12. FramingTypeOK'
  BY <1>3, <1>4, <1>7, <1>11, TypedAfter DEF FrameInv
<1>13. Nested'
  <2> SUFFICES ASSUME NEW i \in 1..(n + 1), i # n + 1
               PROVE  /\ frames'[i].phase = "callback"
                      /\ ~early' => frames'[i].pos = frames'[i].size
    BY <1>3, <1>4 DEF Nested, n
  <2>1. i \in 1..n /\ frames'[i] = frames[i] /\ n # 0
    BY <1>2, <1>3
  <2>2. CASE i = n
    <3>1. Top.phase = "callback" /\ Top = frames[n] /\ frames # <<>>
      BY <1>5, <1>6, <2>1
    <3>2. ~early' => Top.pos = Top.size
      <4> SUFFICES ASSUME ~early' PROVE Top.pos = Top.size
        OBVIOUS
      <4>1. ~(Remaining > 0)
        BY <3>1
      <4> QED
        BY <3>1, <4>1, TopIsFine
    <3> QED
      BY <2>1, <2>2, <3>1, <3>2
  <2>3. CASE i # n
    BY <1>2, <2>1, <2>3 DEF FrameInv, Nested, n
  <2> QED
    BY <2>2, <2>3
<1>14. AckedIsOffered'
  BY <1>1 DEF AckedIsOffered
<1>15. Placed'
  <2>1. Ahead' = 0
    <3>1. Top' = g
      <4>1. Last(frames') = frames'[Len(frames')]
        BY <1>3, FrontType
      <4> QED
        BY <1>3, <4>1 DEF Top
    <3> QED
      BY <1>3, <3>1 DEF Ahead, Left
  <2>2. \A k : EndOf(k)' = EndOf(k)
    BY DEF EndOf
  <2>3. ASSUME Readable', ~early'
        PROVE  \E k \in 0..Len(stream) : taken = EndOf(k)
    <3>1. Readable /\ ~early
      BY <2>3 DEF Readable
    <3>2. PICK k \in 0..Len(stream) : taken + Ahead = EndOf(k)
      BY <3>1 DEF FrameInv, Placed
    <3>3. Ahead = 0
      <4>1. CASE frames = <<>>
        BY <4>1 DEF Ahead
      <4>2. CASE frames # <<>>
        <5>1. ~(Remaining > 0)
          BY <2>3, <4>2
        <5>2. Top.size - Top.pos = 0
          BY <4>2, <5>1, TopIsFine
        <5>3. Ahead = Left(Top) /\ (Top.mode # "local" => Left(Top) = Top.size - Top.pos)
          BY <4>2 DEF Ahead, Left
        <5>4. Top.mode = "local" => Left(Top) = 0
          BY DEF Left
        <5> QED
          BY <5>2, <5>3, <5>4
      <4> QED
        BY <4>1, <4>2
    <3> QED
      BY <1>1, <3>2, <3>3
  <2> QED
    BY <1>1, <2>1, <2>2, <2>3 DEF Placed
<1> QED
  BY <1>10, <1>12, <1>13, <1>14, <1>15 DEF FrameInv

LEMMA LoopStarts == FrameInv /\ StartLoop => FrameInv'
<1> SUFFICES ASSUME FrameInv, StartLoop PROVE FrameInv'
  OBVIOUS
<1> DEFINE g == NewFrame("loop", AnyPacket)
<1>1. /\ frames = <<>> /\ frames' = <<g>>
      /\ side' = side /\ stream' = stream /\ taken' = taken /\ link' = link /\ acked' = acked
      /\ offered' = offered /\ early' = early
  BY DEF StartLoop
<1>2. /\ g \in Frame /\ g.mode = "loop" /\ g.k = 0 /\ g.size = 0 /\ g.pos = 0
      /\ g.phase = "head" /\ g.moved = 0
  BY AnyPacketIs, NewFrameIs
<1> HIDE DEF g
<1>3. frames' = Append(frames, g)
  BY <1>1, <1>2
<1>4. Fine(g, offered, link # "closed", stream) /\ Left(g) = 0
  BY <1>2 DEF Fine, Left
<1>5. early' = (early \/ (frames # <<>> /\ Remaining > 0))
  BY <1>1 DEF FrameInv, FramingTypeOK
<1> QED
  BY <1>1, <1>2, <1>3, <1>4, <1>5, PushStep

LEMMA WaitStarts == FrameInv /\ StartWait => FrameInv'
<1> SUFFICES ASSUME FrameInv, StartWait PROVE FrameInv'
  OBVIOUS
<1> DEFINE g == NewFrame("wait", AnyPacket)
<1>1. /\ frames' = Append(frames, g) /\ (frames # <<>> => Top.phase = "callback")
      /\ side' = side /\ stream' = stream /\ taken' = taken /\ link' = link /\ acked' = acked
      /\ offered' = offered /\ early' = (early \/ (frames # <<>> /\ Remaining > 0))
  BY DEF StartWait, In
<1>2. /\ g \in Frame /\ g.mode = "wait" /\ g.k = 0 /\ g.size = 0 /\ g.pos = 0
      /\ g.phase = "head" /\ g.moved = 0
  BY AnyPacketIs, NewFrameIs
<1> HIDE DEF g
<1>3. Fine(g, offered, link # "closed", stream) /\ Left(g) = 0
  BY <1>2 DEF Fine, Left
<1> QED
  BY <1>1, <1>2, <1>3, PushStep

LEMMA LocalStarts == ASSUME FrameInv, NEW p \in Packets, StartLocal(p) PROVE FrameInv'
<1> DEFINE z == p.payload
           h == NewFrame("local", p)
           g == [h EXCEPT !.phase = "on_message", !.size = z]
<1>1. /\ frames = <<>> /\ frames' = <<g>>
      /\ side' = side /\ stream' = stream /\ taken' = taken /\ link' = link /\ acked' = acked
      /\ offered' = offered /\ early' = early
  BY DEF StartLocal
<1>2. z \in Nat
  BY PacketAssumption
<1>3. /\ h \in Frame /\ h.mode = "local" /\ h.k = 0 /\ h.pos = 0 /\ h.moved = 0
  BY NewFrameIs
<1> HIDE DEF h, z
<1>4. /\ g \in Frame /\ g.mode = "local" /\ g.k = 0 /\ g.size = z /\ g.pos = 0
      /\ g.phase = "on_message" /\ g.moved = 0
  BY <1>2, <1>3 DEF Frame, Phases
<1> HIDE DEF g
<1>5. frames' = Append(frames, g)
  BY <1>1, <1>4
<1>6. Fine(g, offered, link # "closed", stream) /\ Left(g) = 0
  BY <1>2, <1>4 DEF Fine, Left
<1>7. early' = (early \/ (frames # <<>> /\ Remaining > 0))
  BY <1>1 DEF FrameInv, FramingTypeOK
<1> QED
  BY <1>1, <1>4, <1>5, <1>6, <1>7, PushStep

LEMMA PeerGone == FrameInv /\ PeerCloses => FrameInv'
<1> SUFFICES ASSUME FrameInv, PeerCloses PROVE FrameInv'
  OBVIOUS
<1>1. /\ link = "up" /\ link' = "cut" /\ frames' = frames
      /\ side' = side /\ stream' = stream /\ early' = early /\ acked' = acked
      /\ offered' = offered /\ taken' = taken
  BY DEF PeerCloses
<1>2. FramingTypeOK' /\ Nested' /\ AckedIsOffered'
  BY <1>1 DEF FrameInv, FramingTypeOK, Nested, AckedIsOffered, Total, EndOf
<1>3. (link # "closed")' = (link # "closed")
  BY <1>1
<1>4. AllFine'
  BY <1>1, <1>3 DEF FrameInv, AllFine
<1>5. Placed'
  BY <1>1 DEF FrameInv, Placed, Ahead, Left, Top, Readable, EndOf
<1> QED
  BY <1>2, <1>4, <1>5 DEF FrameInv

LEMMA NothingRead == FrameInv /\ UNCHANGED frameVars => FrameInv'
BY DEF FrameInv, frameVars, FramingTypeOK, AllFine, Nested, AckedIsOffered, Placed, Ahead,
       Left, Top, Readable, Total, EndOf

-----------------------------------------------------------------------------
(* The invariant is one.                                                   *)

LEMMA FramesStart == FramingInit => FrameInv
<1> SUFFICES ASSUME FramingInit PROVE FrameInv
  OBVIOUS
<1>1. /\ side \in {"client", "server"} /\ stream \in BoundedSeq(Packets, MaxPackets)
      /\ taken = 0 /\ link = "up" /\ frames = <<>> /\ early = FALSE
      /\ offered = {} /\ acked = {}
  BY DEF FramingInit
<1>2. stream \in Seq(Packets) /\ Len(stream) \in Nat
  <2>1. PICK n \in 0..MaxPackets : stream \in [1..n -> Packets]
    BY <1>1 DEF BoundedSeq, SeqOf
  <2>2. n \in Nat
    BY <2>1, FramingAssumption
  <2>3. stream \in Seq(Packets)
    BY <2>1, <2>2, SeqDef
  <2> QED
    BY <2>3, LenProperties
<1>3. frames \in Seq(Frame) /\ DOMAIN frames = {}
  BY <1>1, EmptySeq, LenProperties
<1>4. Total \in Nat /\ EndOf(0) = 0
  BY <1>2, EndsAre DEF Total
<1>5. FramingTypeOK
  <2>1. taken \in 0..Total
    BY <1>1, <1>4
  <2>2. \A i \in DOMAIN frames : frames[i].pos <= frames[i].size
    BY <1>3
  <2> QED
    BY <1>1, <1>2, <1>3, <2>1, <2>2, Zenon DEF FramingTypeOK
<1>6. AllFine /\ Nested /\ AckedIsOffered
  BY <1>1, <1>3 DEF AllFine, Nested, AckedIsOffered
<1>7. Placed
  BY <1>1, <1>2, <1>4 DEF Placed, Ahead
<1> QED
  BY <1>5, <1>6, <1>7 DEF FrameInv

\* What anyone may do with the connection.
FramingStep ==
    \/ Reading \/ CallbackReturns \/ PayloadFails \/ CallbackReads \/ PeerCloses
    \/ StartLoop \/ StartWait \/ \E p \in Packets : StartLocal(p)
    \/ \E kind : OnMessage(kind)

LEMMA FramesStay == FrameInv /\ (FramingStep \/ UNCHANGED frameVars) => FrameInv'
<1> SUFFICES ASSUME FrameInv, FramingStep \/ UNCHANGED frameVars PROVE FrameInv'
  OBVIOUS
<1>1. CASE Reading
  BY <1>1, HeaderRead, HeaderLost, TopicSizeRead, TopicIgnored, TopicRead, IdRead, ReplyRead,
     PayloadRead, Forwarded, AckSent, Skipped, WaitsAgain, RequestRead, TopicFound, FilterRead,
     QosRead, PassedOver, TopicsRead DEF Reading
<1>2. CASE CallbackReturns \/ PayloadFails \/ CallbackReads
  BY <1>2, CallbackEnds, PayloadCut, CallbackHasRead
<1>3. CASE PeerCloses \/ UNCHANGED frameVars
  BY <1>3, PeerGone, NothingRead
<1>4. CASE StartLoop \/ StartWait \/ \E p \in Packets : StartLocal(p)
  BY <1>4, LoopStarts, WaitStarts, LocalStarts
<1>5. CASE \E kind : OnMessage(kind)
  BY <1>5, MessageFound
<1> QED
  BY <1>1, <1>2, <1>3, <1>4, <1>5 DEF FramingStep

LEMMA FramesSay == FrameInv => FramingTypeOK /\ InFrame /\ AckedIsOffered
<1> SUFFICES ASSUME FrameInv PROVE InFrame
  BY DEF FrameInv
<1> SUFFICES ASSUME frames # <<>>, Top.mode # "local", Readable, ~early
             PROVE  \E k \in 0..Len(stream) : /\ taken + Remaining = EndOf(k)
                                              /\ Remaining > 0 => k = Top.k
  BY DEF InFrame
<1>1. PICK k \in 0..Len(stream) : taken + Ahead = EndOf(k) /\ (Ahead > 0 => k = Top.k)
  BY DEF FrameInv, Placed
<1>2. Ahead = Remaining
  BY TopIsFine DEF Ahead, Left
<1> QED
  BY <1>1, <1>2

-----------------------------------------------------------------------------
(* The subscription list: its invariant.                                   *)

Typed ==
    /\ heap \in [Addrs -> Filters \cup {NoFilter}]
    /\ list \in Seq(Addrs)
    /\ running \in Seq(Pointer)
    /\ walk \in [state : {"none", "at", "waiting", "done", "corrupt"}, s : Pointer]
    /\ replacing \in Seq([filter : Filters, depth : Nat])

\* The list links the allocated nodes, once each.
Linked ==
    /\ \A i, j \in DOMAIN list : i # j => list[i] # list[j]
    /\ \A a \in Addrs : heap[a] # NoFilter <=> \E i \in DOMAIN list : list[i] = a

\* Two nodes have the same filter only if it was subscribed in a race.
Unique ==
    \A a, b \in Addrs : a # b /\ heap[a] # NoFilter /\ heap[a] = heap[b] => heap[a] \in raced

\* So does a node whose filter is about to be inserted by a subscribe() under way.
Outstanding ==
    /\ \A i \in DOMAIN replacing : \A a \in Addrs :
          heap[a] = replacing[i].filter => replacing[i].filter \in raced
    /\ \A i, j \in DOMAIN replacing :
          i # j /\ replacing[i].filter = replacing[j].filter => replacing[i].filter \in raced

\* A pointer is to the node it was taken from, unless that was deleted; then
\* application code had named its filter.
Sound(p) ==
    /\ p.freed => p.touched
    /\ ~p.freed => \/ p.addr = NoAddr
                   \/ p.addr \in Addrs /\ heap[p.addr] = p.filter /\ p.filter # NoFilter

Held ==
    /\ \A i \in DOMAIN running : Sound(running[i])
    /\ walk.state \in {"at", "waiting"} => Sound(walk.s) /\ walk.s.addr \in Addrs
    /\ walk.state = "at" => ~walk.s.freed

\* What has not been requested yet lies ahead of the loop that renews.
Asked(a) == heap[a] \in asked \cup raced

Progress ==
    /\ walk.state = "done" => \A j \in DOMAIN list : Asked(list[j])
    /\ walk.state = "waiting" /\ ~walk.s.freed =>
          \A i, j \in DOMAIN list : list[i] = walk.s.addr /\ j <= i => Asked(list[j])
    /\ walk.state = "at" =>
          \A i, j \in DOMAIN list : list[i] = walk.s.addr /\ j < i => Asked(list[j])

\* No application code runs while the loop goes from one node to the next.
AtRest ==
    /\ walk.state \in {"at", "waiting"} => side = "client"
    /\ walk.state = "at" => frames = <<>>

ListInv == Typed /\ Linked /\ Unique /\ Outstanding /\ Held /\ Progress /\ AtRest

-----------------------------------------------------------------------------
(* Editing the list: the node at position i is deleted, unless i is 0, and *)
(* if n is 1 a node at address a, with the same filter f, inserted in front.  *)

Place(k, i) == IF i = 0 \/ k < i THEN k ELSE k - 1

Shifted(s, t, i, n, a) ==
    /\ \A k \in DOMAIN s : k # i => /\ Place(k, i) + n \in DOMAIN t
                                    /\ t[Place(k, i) + n] = s[k]
    /\ \A l \in DOMAIN t : \/ n = 1 /\ l = 1
                           \/ \E k \in DOMAIN s : k # i /\ l = Place(k, i) + n
    /\ n = 1 => 1 \in DOMAIN t /\ t[1] = a

LEMMA SameShifts ==
    ASSUME NEW S, NEW s \in Seq(S), NEW a
    PROVE  Shifted(s, s, 0, 0, a)
<1>1. DOMAIN s \subseteq Nat
  BY LenProperties
<1>2. \A k \in DOMAIN s : Place(k, 0) + 0 = k
  BY <1>1 DEF Place
<1>3. \A k \in DOMAIN s : k # 0
  BY LenProperties
<1> QED
  BY <1>2, <1>3 DEF Shifted

LEMMA RemoveShifts ==
    ASSUME NEW S, NEW s \in Seq(S), NEW i \in 1..Len(s), NEW a
    PROVE  Shifted(s, RemoveAt(s, i), i, 0, a)
<1> DEFINE t == RemoveAt(s, i)
<1>1. /\ Len(s) \in Nat /\ i \in Nat /\ DOMAIN s = 1..Len(s) /\ DOMAIN t = 1..(Len(s) - 1)
      /\ \A k \in 1..(Len(s) - 1) : t[k] = IF k < i THEN s[k] ELSE s[k + 1]
  BY RemoveAtType, LenProperties
<1> HIDE DEF t
<1>2. ASSUME NEW k \in DOMAIN s, k # i
      PROVE  Place(k, i) + 0 \in DOMAIN t /\ t[Place(k, i) + 0] = s[k]
  <2>1. CASE k < i
    BY <1>1, <1>2, <2>1 DEF Place
  <2>2. CASE ~(k < i)
    <3>1. Place(k, i) + 0 = k - 1 /\ k - 1 \in 1..(Len(s) - 1) /\ ~(k - 1 < i) /\ k - 1 + 1 = k
      BY <1>1, <1>2, <2>2 DEF Place
    <3> QED
      BY <1>1, <3>1
  <2> QED
    BY <2>1, <2>2
<1>3. ASSUME NEW l \in DOMAIN t
      PROVE  \E k \in DOMAIN s : k # i /\ l = Place(k, i) + 0
  <2>1. CASE l < i
    BY <1>1, <1>3, <2>1 DEF Place
  <2>2. CASE ~(l < i)
    <3>1. l + 1 \in DOMAIN s /\ l + 1 # i /\ Place(l + 1, i) + 0 = l
      BY <1>1, <1>3, <2>2 DEF Place
    <3> QED
      BY <3>1
  <2> QED
    BY <2>1, <2>2
<1> QED
  BY <1>2, <1>3 DEF Shifted, t

LEMMA FrontShifts ==
    ASSUME NEW S, NEW s \in Seq(S), NEW t \in Seq(S), NEW i \in Nat, NEW a \in S,
           Shifted(s, t, i, 0, a)
    PROVE  Shifted(s, <<a>> \o t, i, 1, a)
<1> DEFINE u == <<a>> \o t
<1>1. /\ Len(t) \in Nat /\ DOMAIN t = 1..Len(t) /\ DOMAIN u = 1..(Len(t) + 1)
      /\ u[1] = a /\ \A k \in 1..Len(t) : u[k + 1] = t[k]
  BY InFront, LenProperties
<1> HIDE DEF u
<1>2. \A k \in DOMAIN s : k \in Int /\ Place(k, i) \in Int
  BY LenProperties DEF Place
<1>3. ASSUME NEW k \in DOMAIN s, k # i
      PROVE  Place(k, i) + 1 \in DOMAIN u /\ u[Place(k, i) + 1] = s[k]
  <2>1. Place(k, i) + 0 \in DOMAIN t /\ t[Place(k, i) + 0] = s[k] /\ Place(k, i) + 0 = Place(k, i)
    BY <1>2, <1>3 DEF Shifted
  <2> QED
    BY <1>1, <2>1
<1>4. ASSUME NEW l \in DOMAIN u, l # 1
      PROVE  \E k \in DOMAIN s : k # i /\ l = Place(k, i) + 1
  <2>1. l - 1 \in DOMAIN t
    BY <1>1, <1>4
  <2>2. PICK k \in DOMAIN s : k # i /\ l - 1 = Place(k, i) + 0
    BY <2>1 DEF Shifted
  <2>3. l = Place(k, i) + 1
    BY <1>1, <1>2, <2>2
  <2> QED
    BY <2>2, <2>3
<1> QED
  BY <1>1, <1>3, <1>4 DEF Shifted, u

Gone(i) == IF i = 0 THEN {} ELSE {i}

Edit(i, n, a, f) ==
    /\ i \in 0..Len(list) /\ n \in {0, 1} /\ a \in Addrs /\ f \in Filters
    /\ i # 0 => heap[list[i]] = f
    /\ list' \in Seq(Addrs) /\ Shifted(list, list', i, n, a)
    /\ n = 1 => heap[a] = NoFilter \/ (i # 0 /\ a = list[i])
    /\ heap' \in [Addrs -> Filters \cup {NoFilter}]
    /\ \A b \in Addrs : heap'[b] = IF n = 1 /\ b = a THEN f
                                   ELSE IF i # 0 /\ b = list[i] THEN NoFilter ELSE heap[b]
    /\ \A b \in Addrs : heap'[b] = f /\ ~(n = 1 /\ b = a) => f \in raced'
    /\ raced \subseteq raced'
    /\ Delete(Gone(i), f)
    /\ asked' = IF n = 1 THEN asked \cup {f} ELSE asked \ {f}

\* Positions in a list that was edited.
LEMMA EditPlaces ==
    ASSUME Typed, NEW i \in Nat, NEW n \in {0, 1},
           NEW k \in DOMAIN list, NEW m \in DOMAIN list, k # i, m # i
    PROVE  /\ Place(k, i) + n \in Nat
           /\ k < m <=> Place(k, i) + n < Place(m, i) + n
           /\ n = 1 => Place(k, i) + n # 1
<1>1. DOMAIN list = 1..Len(list) /\ Len(list) \in Nat
  BY LenProperties DEF Typed
<1>2. k \in Nat /\ m \in Nat /\ k > 0 /\ m > 0
  BY <1>1
<1>3. /\ Place(k, i) \in Nat /\ Place(m, i) \in Nat /\ Place(k, i) # 0
      /\ k < m <=> Place(k, i) < Place(m, i)
  BY <1>2 DEF Place
<1>4. n = 0 \/ n = 1
  OBVIOUS
<1> QED
  BY <1>3, <1>4

LEMMA EditLinked ==
    ASSUME Typed, Linked, NEW i, NEW n, NEW a, NEW f, Edit(i, n, a, f)
    PROVE  Linked'
<1>0. /\ i \in Nat /\ n \in {0, 1} /\ a \in Addrs /\ f \in Filters /\ f # NoFilter
      /\ Len(list) \in Nat /\ DOMAIN list = 1..Len(list)
      /\ \A k \in DOMAIN list : list[k] \in Addrs
  BY LenProperties, SubscriptionsAssumption DEF Edit, Typed
<1>1. ASSUME NEW k \in DOMAIN list, k # i, n = 1 PROVE list[k] # a
  <2>1. heap[list[k]] # NoFilter
    BY <1>0 DEF Linked
  <2> QED
    BY <1>0, <1>1, <2>1 DEF Edit, Linked
<1>2. ASSUME NEW l \in DOMAIN list', ~(n = 1 /\ l = 1)
      PROVE  \E k \in DOMAIN list : k # i /\ l = Place(k, i) + n /\ list'[l] = list[k]
  BY <1>2 DEF Edit, Shifted
<1>3. ASSUME NEW l \in DOMAIN list', NEW m \in DOMAIN list', l # m
      PROVE  list'[l] # list'[m]
  <2>1. CASE ~(n = 1 /\ l = 1) /\ ~(n = 1 /\ m = 1)
    <3>1. PICK k \in DOMAIN list : k # i /\ l = Place(k, i) + n /\ list'[l] = list[k]
      BY <1>2, <2>1
    <3>2. PICK o \in DOMAIN list : o # i /\ m = Place(o, i) + n /\ list'[m] = list[o]
      BY <1>2, <2>1
    <3> QED
      BY <1>3, <3>1, <3>2 DEF Linked
  <2>2. CASE n = 1 /\ l = 1
    <3>1. PICK k \in DOMAIN list : k # i /\ list'[m] = list[k]
      BY <1>2, <1>3, <2>2
    <3> QED
      BY <1>1, <2>2, <3>1 DEF Edit, Shifted
  <2>3. CASE n = 1 /\ m = 1
    <3>1. PICK k \in DOMAIN list : k # i /\ list'[l] = list[k]
      BY <1>2, <1>3, <2>3
    <3> QED
      BY <1>1, <2>3, <3>1 DEF Edit, Shifted
  <2> QED
    BY <2>1, <2>2, <2>3
<1>4. ASSUME NEW b \in Addrs, heap'[b] # NoFilter
      PROVE  \E l \in DOMAIN list' : list'[l] = b
  <2>1. CASE n = 1 /\ b = a
    BY <2>1 DEF Edit, Shifted
  <2>2. CASE ~(n = 1 /\ b = a)
    <3>1. ~(i # 0 /\ b = list[i]) /\ heap[b] # NoFilter
      BY <1>4, <2>2 DEF Edit
    <3>2. PICK k \in DOMAIN list : list[k] = b
      BY <3>1 DEF Linked
    <3>3. k # i
      BY <1>0, <3>1, <3>2
    <3> QED
      BY <3>2, <3>3 DEF Edit, Shifted
  <2> QED
    BY <2>1, <2>2
<1>5. ASSUME NEW l \in DOMAIN list' PROVE heap'[list'[l]] # NoFilter
  <2>1. CASE n = 1 /\ l = 1
    <3>1. list'[l] = a /\ heap'[a] = f
      BY <1>0, <2>1 DEF Edit, Shifted
    <3> QED
      BY <1>0, <3>1
  <2>2. CASE ~(n = 1 /\ l = 1)
    <3>1. PICK k \in DOMAIN list : k # i /\ list'[l] = list[k]
      BY <1>2, <2>2
    <3>2. list[k] \in Addrs /\ heap[list[k]] # NoFilter /\ (i # 0 => list[k] # list[i])
      BY <1>0, <3>1 DEF Linked, Edit
    <3>3. heap'[list[k]] = heap[list[k]]
      BY <1>1, <3>1, <3>2 DEF Edit
    <3> QED
      BY <3>1, <3>2, <3>3
  <2> QED
    BY <2>1, <2>2
<1> QED
  BY <1>3, <1>4, <1>5 DEF Linked

LEMMA EditUnique ==
    ASSUME Typed, Unique, NEW i, NEW n, NEW a, NEW f, Edit(i, n, a, f)
    PROVE  Unique'
<1> SUFFICES ASSUME NEW b \in Addrs, NEW c \in Addrs, b # c, heap'[b] # NoFilter,
                    heap'[b] = heap'[c]
             PROVE  heap'[b] \in raced'
  BY DEF Unique
<1>1. CASE heap'[b] = f
  BY <1>1 DEF Edit
<1>2. CASE heap'[b] # f
  <2>1. heap'[b] = heap[b] /\ heap'[c] = heap[c]
    BY <1>2 DEF Edit
  <2> QED
    BY <2>1 DEF Unique, Edit
<1> QED
  BY <1>1, <1>2

\* Pointers survive: those to the node that is deleted are of its filter.
LEMMA EditSound ==
    ASSUME Typed, Linked, NEW i, NEW n, NEW a, NEW f, Edit(i, n, a, f),
           NEW p \in Pointer, Sound(p),
           NEW q, q = After(p, Gone(i), f)
    PROVE  /\ q \in Pointer /\ q.addr = p.addr
           /\ q.freed => q.touched
           /\ ~q.freed => \/ q.addr = NoAddr
                          \/ /\ q.addr \in Addrs /\ heap'[q.addr] = q.filter
                             /\ q.filter # NoFilter
<1>1. /\ q \in Pointer /\ q.addr = p.addr /\ q.filter = p.filter
      /\ q.freed = (p.freed \/ (i # 0 /\ list[i] = p.addr))
      /\ q.touched = (p.touched \/ p.filter = f)
  BY DEF After, Gone, Pointer
<1>2. i # 0 => list[i] \in Addrs
  BY LenProperties DEF Edit, Typed
<1>3. ASSUME i # 0, list[i] = p.addr, ~p.freed PROVE p.filter = f
  BY <1>2, <1>3, SubscriptionsAssumption DEF Sound, Edit
<1>4. ASSUME ~q.freed, p.addr # NoAddr
      PROVE  p.addr \in Addrs /\ heap'[p.addr] = p.filter /\ p.filter # NoFilter
  <2>1. p.addr \in Addrs /\ heap[p.addr] = p.filter /\ p.filter # NoFilter
        /\ ~(i # 0 /\ list[i] = p.addr)
    BY <1>1, <1>4 DEF Sound
  <2>2. ~(n = 1 /\ p.addr = a)
    BY <2>1 DEF Edit
  <2> QED
    BY <2>1, <2>2 DEF Edit
<1>5. q.freed => q.touched
  BY <1>1, <1>3 DEF Sound
<1> QED
  BY <1>1, <1>4, <1>5

LEMMA EditHeld ==
    ASSUME Typed, Linked, Held, walk.state # "at", NEW i, NEW n, NEW a, NEW f,
           Edit(i, n, a, f)
    PROVE  /\ running' \in Seq(Pointer)
           /\ walk' \in [state : {"none", "at", "waiting", "done", "corrupt"}, s : Pointer]
           /\ Held'
<1> DEFINE d == Gone(i)
<1>1. \A j \in DOMAIN running : running[j] \in Pointer /\ Sound(running[j])
  BY LenProperties DEF Typed, Held
<1>2. Len(running) \in Nat /\ DOMAIN running = 1..Len(running)
  BY LenProperties DEF Typed
<1>3. /\ running' = [j \in DOMAIN running |-> After(running[j], d, f)]
      /\ walk' = IF walk.state = "waiting" THEN [walk EXCEPT !.s = After(walk.s, d, f)]
                 ELSE walk
  BY DEF Edit, Delete
<1>4. ASSUME NEW p \in Pointer, Sound(p), NEW q, q = After(p, d, f)
      PROVE  /\ q \in Pointer /\ q.addr = p.addr
             /\ q.freed => q.touched
             /\ ~q.freed => \/ q.addr = NoAddr
                            \/ /\ q.addr \in Addrs /\ heap'[q.addr] = q.filter
                               /\ q.filter # NoFilter
  BY <1>4, EditSound
<1> HIDE DEF d
<1>5. running' \in Seq(Pointer)
  <2>1. \A j \in 1..Len(running) : After(running[j], d, f) \in Pointer
    BY <1>1, <1>2, <1>4
  <2> QED
    BY <1>2, <1>3, <2>1
<1>6. ASSUME NEW j \in DOMAIN running'
      PROVE  /\ running'[j].freed => running'[j].touched
             /\ ~running'[j].freed =>
                    \/ running'[j].addr = NoAddr
                    \/ /\ running'[j].addr \in Addrs
                       /\ heap'[running'[j].addr] = running'[j].filter
                       /\ running'[j].filter # NoFilter
  <2>1. j \in DOMAIN running /\ running'[j] = After(running[j], d, f)
    BY <1>3, <1>6
  <2> QED
    BY <1>1, <1>4, <2>1
<1>7. /\ walk' \in [state : {"none", "at", "waiting", "done", "corrupt"}, s : Pointer]
      /\ walk'.state = walk.state
      /\ walk.state = "waiting" => walk'.s = After(walk.s, d, f) /\ walk.s \in Pointer
                                  /\ Sound(walk.s) /\ walk.s.addr \in Addrs
  <2>1. CASE walk.state = "waiting"
    <3>1. walk.s \in Pointer /\ Sound(walk.s) /\ walk.s.addr \in Addrs
      BY <2>1 DEF Typed, Held
    <3>2. After(walk.s, d, f) \in Pointer
      BY <1>4, <3>1
    <3>3. walk' = [walk EXCEPT !.s = After(walk.s, d, f)]
      BY <1>3, <2>1
    <3> QED
      BY <2>1, <3>1, <3>2, <3>3 DEF Typed
  <2>2. CASE walk.state # "waiting"
    BY <1>3, <2>2 DEF Typed
  <2> QED
    BY <2>1, <2>2
<1>8. ASSUME walk'.state \in {"at", "waiting"}
      PROVE  /\ walk'.s.freed => walk'.s.touched
             /\ ~walk'.s.freed => \/ walk'.s.addr = NoAddr
                                  \/ /\ walk'.s.addr \in Addrs
                                     /\ heap'[walk'.s.addr] = walk'.s.filter
                                     /\ walk'.s.filter # NoFilter
             /\ walk'.s.addr \in Addrs
  BY <1>4, <1>7, <1>8
<1> QED
  BY <1>5, <1>6, <1>7, <1>8 DEF Held, Sound

LEMMA EditProgress ==
    ASSUME Typed, Linked, Held, Progress, walk.state # "at", NEW i, NEW n, NEW a, NEW f,
           Edit(i, n, a, f)
    PROVE  Progress'
<1>0. /\ i \in Nat /\ n \in {0, 1} /\ a \in Addrs
      /\ Len(list) \in Nat /\ DOMAIN list = 1..Len(list)
      /\ \A k \in DOMAIN list : list[k] \in Addrs
      /\ DOMAIN list' \subseteq Nat
  BY LenProperties DEF Edit, Typed
<1>1. ASSUME NEW l \in DOMAIN list', ~(n = 1 /\ l = 1)
      PROVE  \E k \in DOMAIN list : k # i /\ l = Place(k, i) + n /\ list'[l] = list[k]
  BY <1>1 DEF Edit, Shifted
<1>2. ASSUME NEW l \in DOMAIN list', n = 1, l = 1
      PROVE  list'[l] = a /\ heap'[list'[l]] \in asked' \cup raced'
  BY <1>0, <1>2 DEF Edit, Shifted
<1>3. ASSUME NEW k \in DOMAIN list, k # i, Asked(list[k])
      PROVE  heap'[list[k]] \in asked' \cup raced'
  <2>1. list[k] \in Addrs /\ heap[list[k]] # NoFilter /\ (i # 0 => list[k] # list[i])
    BY <1>0, <1>3 DEF Linked, Edit
  <2>2. ~(n = 1 /\ list[k] = a)
    BY <2>1 DEF Edit
  <2>3. heap'[list[k]] = heap[list[k]]
    BY <2>1, <2>2 DEF Edit
  <2>4. CASE heap[list[k]] = f
    BY <2>1, <2>2, <2>3, <2>4 DEF Edit
  <2>5. CASE heap[list[k]] # f
    BY <1>3, <2>3, <2>5 DEF Edit, Asked
  <2> QED
    BY <2>4, <2>5
<1>4. walk' = IF walk.state = "waiting"
              THEN [walk EXCEPT !.s = After(walk.s, Gone(i), f)] ELSE walk
  BY DEF Edit, Delete
<1>5. /\ walk'.state = walk.state
      /\ walk.state = "waiting" =>
            /\ walk.s \in Pointer
            /\ walk'.s = After(walk.s, Gone(i), f)
  BY <1>4 DEF Typed
<1>6. ASSUME walk.state = "waiting", ~walk'.s.freed
      PROVE  /\ walk'.s.addr = walk.s.addr /\ ~walk.s.freed
             /\ walk.s.addr \in Addrs /\ heap[walk.s.addr] # NoFilter
             /\ ~(i # 0 /\ list[i] = walk.s.addr)
  <2>1. walk.s \in Pointer /\ walk'.s = After(walk.s, Gone(i), f)
    BY <1>5, <1>6
  <2>2. walk'.s.addr = walk.s.addr /\ ~walk.s.freed /\ ~(i # 0 /\ list[i] = walk.s.addr)
    BY <1>6, <2>1 DEF After, Gone, Pointer
  <2>3. Sound(walk.s) /\ walk.s.addr \in Addrs
    BY <1>6 DEF Held
  <2> QED
    BY <2>2, <2>3, SubscriptionsAssumption DEF Sound
<1>7. ASSUME walk.state = "done", NEW l \in DOMAIN list'
      PROVE  heap'[list'[l]] \in asked' \cup raced'
  <2>1. CASE n = 1 /\ l = 1
    BY <1>2, <2>1
  <2>2. CASE ~(n = 1 /\ l = 1)
    <3>1. PICK k \in DOMAIN list : k # i /\ list'[l] = list[k]
      BY <1>1, <2>2
    <3>2. Asked(list[k])
      BY <1>7 DEF Progress
    <3> QED
      BY <1>3, <3>1, <3>2
  <2> QED
    BY <2>1, <2>2
<1>8. ASSUME walk.state = "waiting", ~walk'.s.freed,
             NEW l \in DOMAIN list', NEW m \in DOMAIN list',
             list'[l] = walk'.s.addr, m <= l
      PROVE  heap'[list'[m]] \in asked' \cup raced'
  <2>1. CASE n = 1 /\ m = 1
    BY <1>2, <2>1
  <2>2. CASE ~(n = 1 /\ m = 1)
    <3>1. PICK k \in DOMAIN list : k # i /\ m = Place(k, i) + n /\ list'[m] = list[k]
      BY <1>1, <2>2
    <3>2. ~(n = 1 /\ l = 1)
      BY <1>2, <1>6, <1>8 DEF Edit
    <3>3. PICK o \in DOMAIN list : o # i /\ l = Place(o, i) + n /\ list'[l] = list[o]
      BY <1>1, <3>2
    <3>4. o < k <=> l < m
      BY <1>0, <3>1, <3>3, EditPlaces
    <3>5. l \in Nat /\ m \in Nat /\ o \in Nat /\ k \in Nat
      BY <1>0
    <3>6. k <= o
      BY <1>8, <3>4, <3>5
    <3>7. list[o] = walk.s.addr /\ ~walk.s.freed
      BY <1>6, <1>8, <3>3
    <3>8. Asked(list[k])
      BY <1>8, <3>6, <3>7 DEF Progress
    <3> QED
      BY <1>3, <3>1, <3>8
  <2> QED
    BY <2>1, <2>2
<1> QED
  BY <1>5, <1>7, <1>8 DEF Progress, Asked

-----------------------------------------------------------------------------
(* What the application can do to the list is to edit it.                  *)

LEMMA WithoutShifts ==
    ASSUME Typed, NEW i \in 0..Len(list), NEW a
    PROVE  Without(Gone(i)) \in Seq(Addrs) /\ Shifted(list, Without(Gone(i)), i, 0, a)
<1>1. list \in Seq(Addrs) /\ Len(list) \in Nat
  BY LenProperties DEF Typed
<1>2. CASE i = 0
  <2>1. Without(Gone(i)) = list
    BY <1>2 DEF Without, Gone
  <2> QED
    BY <1>1, <1>2, <2>1, SameShifts
<1>3. CASE i # 0
  <2>1. i \in 1..Len(list)
    BY <1>1, <1>3
  <2>2. Gone(i) = {i} /\ (CHOOSE j \in {i} : TRUE) = i
    BY <1>3 DEF Gone
  <2>3. Without(Gone(i)) = RemoveAt(list, i)
    BY <2>2 DEF Without
  <2> QED
    BY <1>1, <2>1, <2>3, RemoveAtType, RemoveShifts
<1> QED
  BY <1>2, <1>3

\* Of one filter at most the first node is deleted, and only a race leaves others.
LEMMA DroppedIs ==
    ASSUME Typed, Linked, Unique, NEW f \in Filters
    PROVE  \E i \in 0..Len(list) :
              /\ Dropped(f) = Gone(i)
              /\ i # 0 => heap[list[i]] = f
              /\ \A b \in Addrs : heap[b] = f /\ ~(i # 0 /\ b = list[i]) => f \in raced
<1>1. /\ Len(list) \in Nat /\ DOMAIN list = 1..Len(list) /\ f # NoFilter
      /\ \A k \in DOMAIN list : list[k] \in Addrs
  BY LenProperties, SubscriptionsAssumption DEF Typed
<1>2. CASE f \in raced
  <2>1. CASE Dropped(f) = {}
    BY <1>1, <1>2, <2>1 DEF Gone
  <2>2. CASE Dropped(f) # {}
    <3>1. PICK i \in Dropped(f) : TRUE
      BY <2>2
    <3>2. i \in 1..Len(list) /\ heap[list[i]] = f /\ i # 0 /\ i \in 0..Len(list)
      BY <1>1, <3>1 DEF Dropped, At
    <3>3. ASSUME NEW j \in Dropped(f) PROVE j = i
      <4>1. j \in 1..Len(list) /\ i <= j /\ j <= i
        BY <1>1, <3>1 DEF Dropped, At
      <4> QED
        BY <1>1, <3>2, <4>1
    <3>4. Dropped(f) = {i}
      BY <3>1, <3>3
    <3> QED
      BY <1>2, <3>2, <3>4 DEF Gone
  <2> QED
    BY <2>1, <2>2
<1>3. CASE f \notin raced
  <2>1. \A i, j \in At(f) : i = j
    BY <1>1, <1>3 DEF At, Linked, Unique
  <2>2. \A b \in Addrs : heap[b] = f => \E i \in At(f) : list[i] = b
    BY <1>1 DEF At, Linked
  <2>3. CASE At(f) = {}
    BY <1>1, <2>2, <2>3 DEF Gone, Dropped
  <2>4. CASE At(f) # {}
    <3>1. PICK i \in At(f) : TRUE
      BY <2>4
    <3>2. i \in 1..Len(list) /\ heap[list[i]] = f /\ i # 0 /\ i \in 0..Len(list)
      BY <1>1, <3>1 DEF At
    <3>3. Dropped(f) = {i}
      <4>1. At(f) = {i}
        BY <2>1, <3>1, Zenon
      <4>2. i <= i
        BY <3>2
      <4> QED
        BY <4>1, <4>2 DEF Dropped
    <3> QED
      BY <2>1, <2>2, <3>1, <3>2, <3>3 DEF Gone
  <2> QED
    BY <2>3, <2>4
<1> QED
  BY <1>2, <1>3

LEMMA FreedIs ==
    ASSUME Typed, NEW i \in 0..Len(list)
    PROVE  /\ Freed(Gone(i)) \in [Addrs -> Filters \cup {NoFilter}]
           /\ \A b \in Addrs : Freed(Gone(i))[b] = IF i # 0 /\ b = list[i] THEN NoFilter
                                                   ELSE heap[b]
BY DEF Freed, Gone, Typed

LEMMA DeleteEdits ==
    ASSUME Typed, NEW i \in 0..Len(list), NEW f \in Filters, NEW a \in Addrs,
           i # 0 => heap[list[i]] = f,
           \A b \in Addrs : heap[b] = f /\ ~(i # 0 /\ b = list[i]) => f \in raced,
           raced \subseteq raced', NEW d, d = Gone(i), Delete(d, f),
           list' = Without(d), heap' = Freed(d), asked' = asked \ {f}
    PROVE  Edit(i, 0, a, f)
<1>1. Delete(Gone(i), f)
  OBVIOUS
<1>2. list' = Without(Gone(i)) /\ heap' = Freed(Gone(i))
  OBVIOUS
<1>3. /\ heap' \in [Addrs -> Filters \cup {NoFilter}]
      /\ \A b \in Addrs : heap'[b] = IF i # 0 /\ b = list[i] THEN NoFilter ELSE heap[b]
  BY <1>2, FreedIs
<1>4. list' \in Seq(Addrs) /\ Shifted(list, list', i, 0, a)
  BY <1>2, WithoutShifts
<1>5. \A b \in Addrs : heap'[b] = f => f \in raced'
  BY <1>3, SubscriptionsAssumption
<1> QED
  BY <1>1, <1>3, <1>4, <1>5 DEF Edit

LEMMA InsertEdits ==
    ASSUME Typed, NEW i \in 0..Len(list), NEW f \in Filters,
           i # 0 => heap[list[i]] = f,
           \A b \in Addrs : heap[b] = f /\ ~(i # 0 /\ b = list[i]) => f \in raced,
           raced \subseteq raced', NEW d, d = Gone(i), Delete(d, f),
           Insert(f, d), asked' = asked \cup {f}
    PROVE  \E a \in Addrs : Edit(i, 1, a, f)
<1>1. Delete(Gone(i), f)
  OBVIOUS
<1>2. PICK a \in Addrs : /\ Freed(Gone(i))[a] = NoFilter
                         /\ list' = <<a>> \o Without(Gone(i))
                         /\ heap' = [Freed(Gone(i)) EXCEPT ![a] = f]
  BY DEF Insert, Free
<1>3. /\ heap' \in [Addrs -> Filters \cup {NoFilter}]
      /\ \A b \in Addrs : heap'[b] = IF b = a THEN f
                                    ELSE IF i # 0 /\ b = list[i] THEN NoFilter ELSE heap[b]
      /\ heap[a] = NoFilter \/ (i # 0 /\ a = list[i])
  BY <1>2, FreedIs
<1>4. list' \in Seq(Addrs) /\ Shifted(list, list', i, 1, a)
  <2>1. list \in Seq(Addrs) /\ i \in Nat
    BY DEF Typed
  <2>2. Without(Gone(i)) \in Seq(Addrs) /\ Shifted(list, Without(Gone(i)), i, 0, a)
    BY WithoutShifts
  <2> QED
    BY <1>2, <2>1, <2>2, FrontShifts, InFront
<1>5. \A b \in Addrs : heap'[b] = f /\ b # a => f \in raced'
  BY <1>3, SubscriptionsAssumption
<1> QED
  BY <1>1, <1>3, <1>4, <1>5 DEF Edit

Lists == Typed /\ Linked /\ Unique /\ Outstanding /\ Held /\ Progress

Calls == Seq([filter : Filters, depth : Nat])

LEMMA EditLists ==
    ASSUME Lists, walk.state # "at", NEW i, NEW n, NEW a, NEW f, Edit(i, n, a, f),
           replacing' \in Calls, Outstanding'
    PROVE  Lists' /\ walk'.state = walk.state
<1>0. Typed /\ Linked /\ Unique /\ Held /\ Progress
  BY DEF Lists
<1>1. /\ running' \in Seq(Pointer)
      /\ walk' \in [state : {"none", "at", "waiting", "done", "corrupt"}, s : Pointer]
      /\ Held'
  BY <1>0, EditHeld
<1>2. Linked' /\ Unique' /\ Progress'
  BY <1>0, EditLinked, EditUnique, EditProgress
<1>3. Typed'
  BY <1>1 DEF Typed, Edit, Calls
<1>4. walk'.state = walk.state
  BY <1>0 DEF Edit, Delete, Typed
<1> QED
  BY <1>1, <1>2, <1>3, <1>4 DEF Lists

\* What is about to be inserted is inserted only by those who note the race.
LEMMA EditOutstanding ==
    ASSUME Typed, Outstanding, NEW i, NEW n, NEW a, NEW f, Edit(i, n, a, f),
           NEW r \in DOMAIN replacing, NEW b \in Addrs, heap'[b] = replacing[r].filter,
           n = 1 /\ replacing[r].filter = f => f \in raced'
    PROVE  replacing[r].filter \in raced'
<1>1. replacing[r].filter \in Filters
  <2>1. replacing \in Calls /\ r \in 1..Len(replacing)
    BY LenProperties DEF Typed, Calls
  <2>2. replacing[r] \in [filter : Filters, depth : Nat]
    BY <2>1, ElementOfSeq DEF Calls
  <2> QED
    BY <2>2
<1>2. CASE n = 1 /\ b = a
  BY <1>2 DEF Edit
<1>3. CASE ~(n = 1 /\ b = a)
  <2>1. heap[b] = replacing[r].filter
    BY <1>1, <1>3, SubscriptionsAssumption DEF Edit
  <2> QED
    BY <2>1 DEF Outstanding, Edit
<1> QED
  BY <1>2, <1>3

LEMMA SubscribeKeeps ==
    ASSUME Lists, walk.state # "at", NEW f \in Filters, SubscribeFilter(f)
    PROVE  Lists' /\ walk'.state = walk.state
<1>0. Typed /\ Linked /\ Unique /\ Outstanding
  BY DEF Lists
<1>1. /\ UNCHANGED replacing /\ raced \subseteq raced'
      /\ \A r \in DOMAIN replacing : replacing[r].filter = f => f \in raced'
  BY DEF SubscribeFilter, Race
<1>2. PICK i \in 0..Len(list) :
          /\ Dropped(f) = Gone(i)
          /\ i # 0 => heap[list[i]] = f
          /\ \A b \in Addrs : heap[b] = f /\ ~(i # 0 /\ b = list[i]) => f \in raced
  BY <1>0, DroppedIs
<1>3. PICK a \in Addrs : Edit(i, 1, a, f)
  BY <1>0, <1>1, <1>2, InsertEdits DEF SubscribeFilter
<1>4. \A r \in DOMAIN replacing : \A b \in Addrs :
          heap'[b] = replacing[r].filter => replacing[r].filter \in raced'
  BY <1>0, <1>1, <1>3, EditOutstanding
<1>5. Outstanding'
  BY <1>0, <1>1, <1>4 DEF Outstanding
<1>6. replacing' \in Calls
  BY <1>0, <1>1 DEF Typed, Calls
<1> QED
  BY <1>3, <1>5, <1>6, EditLists

LEMMA UnsubscribeKeeps ==
    ASSUME Lists, walk.state # "at", UNCHANGED <<replacing, raced>>,
           NEW i, NEW a, NEW f, Edit(i, 0, a, f)
    PROVE  Lists' /\ walk'.state = walk.state
<1>0. Typed /\ Outstanding
  BY DEF Lists
<1>1. \A r \in DOMAIN replacing : \A b \in Addrs :
          heap'[b] = replacing[r].filter => replacing[r].filter \in raced'
  BY <1>0, EditOutstanding
<1>2. Outstanding'
  BY <1>0, <1>1 DEF Outstanding
<1>3. replacing' \in Calls
  BY <1>0 DEF Typed, Calls
<1> QED
  BY <1>2, <1>3, EditLists

LEMMA UnsubscribeFilterEdits ==
    ASSUME Lists, NEW f \in Filters, At(f) # {}, Delete(Dropped(f), f), raced \subseteq raced',
           list' = Without(Dropped(f)), heap' = Freed(Dropped(f)), asked' = asked \ {f}
    PROVE  \E i, a : Edit(i, 0, a, f)
<1>0. Typed /\ Linked /\ Unique
  BY DEF Lists
<1>1. PICK a \in Addrs : TRUE
  BY <1>0, LenProperties DEF At, Typed
<1>2. PICK i \in 0..Len(list) :
          /\ Dropped(f) = Gone(i)
          /\ i # 0 => heap[list[i]] = f
          /\ \A b \in Addrs : heap[b] = f /\ ~(i # 0 /\ b = list[i]) => f \in raced
  BY <1>0, DroppedIs
<1>3. Edit(i, 0, a, f)
  BY <1>0, <1>2, DeleteEdits
<1> QED
  BY <1>3

\* unsubscribe(id) deletes the node at this address, wherever it is in the list.
LEMMA UnsubscribeIdEdits ==
    ASSUME Lists, NEW id \in Addrs, UnsubscribeId(id)
    PROVE  \E i \in 1..Len(list) : list[i] = id /\ Edit(i, 0, id, heap[id])
<1>0. Typed /\ Linked /\ Unique
  BY DEF Lists
<1> DEFINE d == {j \in DOMAIN list : list[j] = id}
<1>1. DOMAIN list = 1..Len(list) /\ Len(list) \in Nat
  BY <1>0, LenProperties DEF Typed
<1>2. PICK i \in DOMAIN list : list[i] = id
  BY DEF UnsubscribeId
<1>3. d = Gone(i) /\ i # 0 /\ i \in 0..Len(list) /\ i \in 1..Len(list)
  BY <1>0, <1>1, <1>2 DEF Gone, Linked
<1>4. heap[id] \in Filters
  BY <1>0, <1>2 DEF Linked, Typed
<1>5. \A b \in Addrs : heap[b] = heap[id] /\ ~(i # 0 /\ b = list[i]) => heap[id] \in raced
  BY <1>0, <1>2, <1>3, <1>4, SubscriptionsAssumption DEF Unique
<1>6. /\ Delete(d, heap[id]) /\ list' = Without(d) /\ heap' = Freed(d)
      /\ asked' = asked \ {heap[id]} /\ UNCHANGED <<replacing, raced>>
  BY DEF UnsubscribeId
<1> HIDE DEF d
<1>7. Edit(i, 0, id, heap[id])
  BY <1>0, <1>2, <1>3, <1>4, <1>5, <1>6, DeleteEdits
<1> QED
  BY <1>2, <1>3, <1>7

LEMMA ReplaceBeginsKeeps ==
    ASSUME Lists, walk.state # "at", NEW f \in Filters, ReplaceBegins(f)
    PROVE  Lists' /\ walk'.state = walk.state
<1>0. Typed /\ Outstanding
  BY DEF Lists
<1> DEFINE call == [filter |-> f, depth |-> Len(running)]
<1>1. /\ raced \subseteq raced' /\ replacing' = Append(replacing, call)
      /\ \A r \in DOMAIN replacing : replacing[r].filter = f => f \in raced'
  BY DEF ReplaceBegins, Race
<1>2. PICK i, a : Edit(i, 0, a, f)
  BY <1>1, UnsubscribeFilterEdits DEF ReplaceBegins
<1>3. \A r \in DOMAIN replacing : \A b \in Addrs :
          heap'[b] = replacing[r].filter => replacing[r].filter \in raced'
  BY <1>0, <1>2, EditOutstanding
<1>4. replacing \in Calls /\ call \in [filter : Filters, depth : Nat] /\ call.filter = f
  BY <1>0, LenProperties DEF Typed, Calls
<1> HIDE DEF call
<1>5. /\ replacing' \in Calls
      /\ DOMAIN replacing' = DOMAIN replacing \cup {Len(replacing) + 1}
      /\ \A r \in DOMAIN replacing : replacing'[r] = replacing[r]
      /\ replacing'[Len(replacing) + 1] = call
  BY <1>1, <1>4, AppendProperties, LenProperties DEF Calls
<1>6. ASSUME NEW r \in DOMAIN replacing', NEW b \in Addrs, heap'[b] = replacing'[r].filter
      PROVE  replacing'[r].filter \in raced'
  <2>1. CASE r \in DOMAIN replacing
    BY <1>3, <1>5, <1>6, <2>1
  <2>2. CASE replacing'[r] = call
    BY <1>2, <1>4, <1>6, <2>2 DEF Edit
  <2> QED
    BY <1>5, <2>1, <2>2
<1>7. ASSUME NEW r \in DOMAIN replacing', NEW q \in DOMAIN replacing', r # q,
             replacing'[r].filter = replacing'[q].filter
      PROVE  replacing'[r].filter \in raced'
  <2>1. CASE r \in DOMAIN replacing /\ q \in DOMAIN replacing
    BY <1>0, <1>1, <1>5, <1>7, <2>1 DEF Outstanding
  <2>2. CASE r \in DOMAIN replacing /\ replacing'[q] = call
    BY <1>1, <1>4, <1>5, <1>7, <2>2
  <2>3. CASE q \in DOMAIN replacing /\ replacing'[r] = call
    BY <1>1, <1>4, <1>5, <1>7, <2>3
  <2> QED
    BY <1>5, <1>7, <2>1, <2>2, <2>3
<1>8. Outstanding'
  BY <1>6, <1>7 DEF Outstanding
<1> QED
  BY <1>2, <1>5, <1>8, EditLists

LEMMA ReplaceEndsKeeps ==
    ASSUME Lists, walk.state # "at", ReplaceEnds
    PROVE  Lists' /\ walk'.state = walk.state
<1>0. Typed /\ Linked /\ Outstanding
  BY DEF Lists
<1> DEFINE last == Len(replacing)
           f == Last(replacing).filter
<1>1. replacing \in Calls /\ replacing # <<>>
  BY <1>0 DEF Typed, Calls, ReplaceEnds, Replacing
<1>2. /\ Front(replacing) \in Calls /\ Len(Front(replacing)) = last - 1
      /\ \A r \in 1..(last - 1) : Front(replacing)[r] = replacing[r]
      /\ last \in Nat /\ last \in DOMAIN replacing /\ DOMAIN replacing = 1..last
      /\ Last(replacing) = replacing[last] /\ f \in Filters
  <2> DEFINE R == [filter : Filters, depth : Nat]
  <2>1. replacing \in Seq(R) /\ Calls = Seq(R)
    BY <1>1 DEF Calls
  <2> HIDE DEF R
  <2>2. /\ Front(replacing) \in Seq(R) /\ Len(Front(replacing)) = Len(replacing) - 1
        /\ \A r \in 1..(Len(replacing) - 1) : Front(replacing)[r] = replacing[r]
        /\ Len(replacing) \in 1..Len(replacing)
        /\ Last(replacing) = replacing[Len(replacing)] /\ Last(replacing) \in R
    BY <1>1, <2>1, FrontType
  <2>3. DOMAIN replacing = 1..Len(replacing) /\ Len(replacing) \in Nat
    BY <2>1, LenProperties
  <2>4. f \in Filters
    BY <2>2 DEF R
  <2> QED
    BY <2>1, <2>2, <2>3, <2>4
<1>3. DOMAIN Front(replacing) = 1..(last - 1)
  BY <1>2, LenProperties DEF Calls
<1>4. /\ Delete({}, f) /\ Insert(f, {}) /\ asked' = asked \cup {f}
      /\ replacing' = Front(replacing) /\ raced' = raced
  BY DEF ReplaceEnds
<1>5. replacing[last].filter = f
  BY <1>2
<1>6. \A b \in Addrs : heap[b] = f => f \in raced
  BY <1>0, <1>2, <1>5 DEF Outstanding
<1> HIDE DEF f, last
<1>7. Gone(0) = {} /\ 0 \in 0..Len(list)
  BY <1>0, LenProperties DEF Gone, Typed
<1>8. PICK a \in Addrs : Edit(0, 1, a, f)
  BY <1>0, <1>2, <1>4, <1>6, <1>7, InsertEdits
<1>9. ASSUME NEW r \in 1..(last - 1)
      PROVE  /\ r \in DOMAIN replacing /\ replacing'[r] = replacing[r]
             /\ replacing[r].filter = f => f \in raced'
  <2>1. r \in DOMAIN replacing /\ r # last
    BY <1>2
  <2> QED
    BY <1>0, <1>2, <1>4, <1>5, <2>1 DEF Outstanding
<1>10. \A r \in 1..(last - 1) : \A b \in Addrs :
          heap'[b] = replacing[r].filter => replacing[r].filter \in raced'
  BY <1>0, <1>8, <1>9, EditOutstanding
<1>11. Outstanding'
  BY <1>0, <1>3, <1>4, <1>9, <1>10 DEF Outstanding
<1>12. replacing' \in Calls
  BY <1>2, <1>4
<1> QED
  BY <1>8, <1>11, <1>12, EditLists

LEMMA ChangeKeeps ==
    ASSUME Lists, walk.state # "at", Change \/ Asking \/ ReplaceEnds
    PROVE  Lists' /\ walk'.state = walk.state
<1>1. ASSUME NEW f \in Filters, UnsubscribeFilter(f)
      PROVE  Lists' /\ walk'.state = walk.state
  <2>1. UNCHANGED <<replacing, raced>>
    BY <1>1 DEF UnsubscribeFilter
  <2>2. PICK i, a : Edit(i, 0, a, f)
    BY <1>1, <2>1, UnsubscribeFilterEdits DEF UnsubscribeFilter
  <2> QED
    BY <2>1, <2>2, UnsubscribeKeeps
<1>2. ASSUME NEW id \in Addrs, UnsubscribeId(id)
      PROVE  Lists' /\ walk'.state = walk.state
  <2>1. UNCHANGED <<replacing, raced>>
    BY <1>2 DEF UnsubscribeId
  <2>2. PICK i \in 1..Len(list) : Edit(i, 0, id, heap[id])
    BY <1>2, UnsubscribeIdEdits
  <2> QED
    BY <2>1, <2>2, UnsubscribeKeeps
<1>3. \A f \in Filters : SubscribeFilter(f) => Lists' /\ walk'.state = walk.state
  BY SubscribeKeeps
<1>4. \A f \in Filters : ReplaceBegins(f) => Lists' /\ walk'.state = walk.state
  BY ReplaceBeginsKeeps
<1> QED
  BY <1>1, <1>2, <1>3, <1>4, ReplaceEndsKeeps DEF Change, Asking

-----------------------------------------------------------------------------
(* The other steps.                                                        *)

LEMMA SameLists ==
    ASSUME Lists, UNCHANGED subsVars
    PROVE  Lists'
BY DEF Lists, Typed, Linked, Unique, Outstanding, Held, Sound, Progress, Asked, subsVars

LEMMA NullSound == Null \in Pointer /\ Sound(Null)
BY DEF Null, Pointer, Sound

LEMMA PointToSound ==
    ASSUME Typed, Linked, NEW i \in DOMAIN list
    PROVE  /\ PointTo(list[i]) \in Pointer /\ Sound(PointTo(list[i]))
           /\ PointTo(list[i]).addr = list[i] /\ list[i] \in Addrs
           /\ ~PointTo(list[i]).freed
<1>1. list[i] \in Addrs
  BY LenProperties DEF Typed
<1>2. heap[list[i]] \in Filters /\ heap[list[i]] # NoFilter
  BY <1>1, SubscriptionsAssumption DEF Typed, Linked
<1> QED
  BY <1>1, <1>2 DEF PointTo, Pointer, Sound

LEMMA FireKeeps ==
    ASSUME Lists, NEW t, Fire(t)
    PROVE  Lists' /\ walk' = walk
<1>0. Typed /\ Linked /\ Held
  BY DEF Lists
<1>1. UNCHANGED <<heap, list, walk, asked, replacing, raced>>
  BY DEF Fire
<1>2. PICK p : p \in Pointer /\ Sound(p) /\ running' = Append(running, p)
  <2>1. CASE running' = Append(running, Null)
    BY <2>1, NullSound
  <2>2. CASE \E i \in Matching(t) : running' = Append(running, PointTo(list[i]))
    <3>1. PICK i \in DOMAIN list : running' = Append(running, PointTo(list[i]))
      BY <2>2 DEF Matching
    <3> QED
      BY <1>0, <3>1, PointToSound
  <2> QED
    BY <2>1, <2>2 DEF Fire
<1>3. running \in Seq(Pointer)
  BY <1>0 DEF Typed
<1>4. running' \in Seq(Pointer) /\ \A i \in DOMAIN running' :
          running'[i] = p \/ (i \in DOMAIN running /\ running'[i] = running[i])
  BY <1>2, <1>3, AppendProperties, LenProperties
<1>5. \A i \in DOMAIN running' : Sound(running'[i])
  BY <1>0, <1>2, <1>4 DEF Held
<1>6. Held'
  BY <1>0, <1>1, <1>5 DEF Held, Sound
<1> QED
  BY <1>1, <1>4, <1>6 DEF Lists, Typed, Linked, Unique, Outstanding, Progress, Asked

LEMMA FireReturnsKeeps ==
    ASSUME Lists, FireReturns
    PROVE  Lists' /\ walk' = walk
<1>0. Typed /\ Held
  BY DEF Lists
<1>1. /\ UNCHANGED <<heap, list, walk, asked, replacing, raced>>
      /\ running' = Front(running) /\ running # <<>> /\ running \in Seq(Pointer)
  BY <1>0 DEF FireReturns, Typed
<1>2. /\ Front(running) \in Seq(Pointer) /\ Len(Front(running)) = Len(running) - 1
      /\ \A k \in 1..(Len(running) - 1) : Front(running)[k] = running[k]
  BY <1>1, FrontType
<1>3. DOMAIN running = 1..Len(running) /\ Len(running) \in Nat
      /\ DOMAIN Front(running) = 1..(Len(running) - 1)
  BY <1>1, <1>2, LenProperties
<1>4. running' \in Seq(Pointer) /\ \A i \in DOMAIN running' :
          i \in DOMAIN running /\ running'[i] = running[i]
  BY <1>1, <1>2, <1>3
<1>5. \A i \in DOMAIN running' : Sound(running'[i])
  BY <1>0, <1>4 DEF Held
<1>6. Held'
  BY <1>0, <1>1, <1>5 DEF Held, Sound
<1> QED
  BY <1>1, <1>4, <1>6 DEF Lists, Typed, Linked, Unique, Outstanding, Progress, Asked

\* A step of the loop over the list that keeps what others hold.
LEMMA WalkStep ==
    ASSUME Lists, UNCHANGED <<heap, list, running, replacing, raced>>, Progress',
           NEW state \in {"at", "waiting", "done", "corrupt"}, NEW p \in Pointer,
           walk' = [state |-> state, s |-> p],
           state \in {"at", "waiting"} => Sound(p) /\ p.addr \in Addrs,
           state = "at" => ~p.freed
    PROVE  Lists'
<1>0. Typed /\ Linked /\ Unique /\ Outstanding /\ Held
  BY DEF Lists
<1>1. walk'.state = state /\ walk'.s = p
  OBVIOUS
<1>2. Held'
  BY <1>0, <1>1 DEF Held, Sound
<1>3. Typed'
  BY <1>0 DEF Typed
<1>4. Linked' /\ Unique' /\ Outstanding'
  BY <1>0 DEF Linked, Unique, Outstanding
<1> QED
  BY <1>2, <1>3, <1>4 DEF Lists

LEMMA WalkBeginsKeeps ==
    ASSUME Lists, WalkBegins
    PROVE  Lists'
<1>0. Typed /\ Linked
  BY DEF Lists
<1>1. Len(list) \in Nat /\ DOMAIN list = 1..Len(list) /\ list \in Seq(Addrs)
  BY <1>0, LenProperties DEF Typed
<1>2. UNCHANGED <<heap, list, running, replacing, raced>>
  BY DEF WalkBegins
<1>3. CASE list = <<>>
  <2>1. walk' = [state |-> "done", s |-> Null] /\ DOMAIN list = {}
    BY <1>1, <1>3 DEF WalkBegins
  <2>2. Progress'
    BY <1>2, <2>1 DEF Progress
  <2> QED
    BY <1>2, <2>1, <2>2, NullSound, WalkStep
<1>4. CASE list # <<>>
  <2>1. 1 \in DOMAIN list /\ walk' = [state |-> "at", s |-> PointTo(list[1])]
    BY <1>1, <1>4, EmptySeq DEF WalkBegins
  <2>2. PointTo(list[1]) \in Pointer /\ Sound(PointTo(list[1]))
        /\ PointTo(list[1]).addr = list[1] /\ list[1] \in Addrs /\ ~PointTo(list[1]).freed
    BY <1>0, <2>1, PointToSound
  <2>3. walk'.state = "at" /\ walk'.s.addr = list[1]
    BY <2>1, <2>2
  <2>4. \A i, j \in DOMAIN list : list[i] = list[1] => ~(j < i)
    BY <1>0, <1>1, <2>1 DEF Linked
  <2>5. Progress'
    BY <1>2, <2>3, <2>4 DEF Progress
  <2> QED
    BY <1>2, <2>1, <2>2, <2>5, WalkStep
<1> QED
  BY <1>3, <1>4

LEMMA WalkAsksKeeps ==
    ASSUME Lists, WalkAsks
    PROVE  Lists' /\ walk'.state = "waiting"
<1>0. Typed /\ Linked /\ Held /\ Progress
  BY DEF Lists
<1>1. Len(list) \in Nat /\ DOMAIN list = 1..Len(list)
  BY <1>0, LenProperties DEF Typed
<1>2. /\ UNCHANGED <<heap, list, running, replacing, raced>>
      /\ asked' = asked \cup {heap[walk.s.addr]} /\ walk.state = "at"
      /\ walk' = [state |-> "waiting", s |-> walk.s]
  BY <1>0 DEF WalkAsks, Typed
<1>3. walk'.state = "waiting" /\ walk'.s = walk.s
  BY <1>2
<1>4. walk.s \in Pointer /\ Sound(walk.s) /\ walk.s.addr \in Addrs
  BY <1>0, <1>2 DEF Typed, Held
<1>5. ASSUME NEW i \in DOMAIN list, NEW j \in DOMAIN list, list[i] = walk.s.addr, j <= i
      PROVE  heap[list[j]] \in asked' \cup raced
  <2>1. CASE j = i
    BY <1>2, <1>5, <2>1
  <2>2. CASE j # i
    <3>1. j < i
      BY <1>1, <1>5, <2>2
    <3> QED
      BY <1>0, <1>2, <1>5, <3>1 DEF Progress, Asked
  <2> QED
    BY <2>1, <2>2
<1>6. Progress'
  BY <1>2, <1>3, <1>5 DEF Progress, Asked
<1> QED
  BY <1>2, <1>3, <1>4, <1>6, WalkStep

LEMMA WalkNextKeeps ==
    ASSUME Lists, WalkNext
    PROVE  Lists'
<1>0. Typed /\ Linked /\ Held /\ Progress
  BY DEF Lists
<1>1. Len(list) \in Nat /\ DOMAIN list = 1..Len(list)
  BY <1>0, LenProperties DEF Typed
<1>2. UNCHANGED <<heap, list, running, asked, replacing, raced>> /\ walk.state = "waiting"
  BY DEF WalkNext
<1>3. walk.s \in Pointer /\ Sound(walk.s) /\ walk.s.addr \in Addrs
  BY <1>0, <1>2 DEF Typed, Held
<1>4. CASE walk.s.freed
  <2>1. walk' = [state |-> "corrupt", s |-> Null] /\ walk'.state = "corrupt"
    BY <1>4 DEF WalkNext
  <2>2. Progress'
    BY <2>1 DEF Progress
  <2> QED
    BY <1>2, <2>1, <2>2, NullSound, WalkStep
<1>5. CASE ~walk.s.freed
  <2>1. heap[walk.s.addr] # NoFilter
    BY <1>3, <1>5, SubscriptionsAssumption DEF Sound
  <2>2. PICK i \in DOMAIN list : list[i] = walk.s.addr
    BY <1>0, <1>3, <2>1 DEF Linked
  <2>3. Position(walk.s.addr) = i
    BY <1>0, <2>2 DEF Position, Linked
  <2>4. \A j \in DOMAIN list : j <= i => Asked(list[j])
    BY <1>0, <1>2, <1>5, <2>2 DEF Progress
  <2>5. CASE i = Len(list)
    <3>1. walk' = [state |-> "done", s |-> Null] /\ walk'.state = "done"
      BY <1>5, <2>3, <2>5 DEF WalkNext
    <3>2. \A j \in DOMAIN list : Asked(list[j])
      BY <1>1, <2>4, <2>5
    <3>3. Progress'
      BY <1>2, <3>1, <3>2 DEF Progress, Asked
    <3> QED
      BY <1>2, <3>1, <3>3, NullSound, WalkStep
  <2>6. CASE i # Len(list)
    <3>1. i + 1 \in DOMAIN list /\ walk' = [state |-> "at", s |-> PointTo(list[i + 1])]
      BY <1>1, <1>5, <2>2, <2>3, <2>6 DEF WalkNext
    <3>2. PointTo(list[i + 1]) \in Pointer /\ Sound(PointTo(list[i + 1]))
          /\ PointTo(list[i + 1]).addr = list[i + 1] /\ list[i + 1] \in Addrs
          /\ ~PointTo(list[i + 1]).freed
      BY <1>0, <3>1, PointToSound
    <3>3. walk'.state = "at" /\ walk'.s.addr = list[i + 1]
      BY <3>1, <3>2
    <3>4. ASSUME NEW k \in DOMAIN list, NEW j \in DOMAIN list, list[k] = list[i + 1], j < k
          PROVE  Asked(list[j])
      <4>1. k = i + 1
        BY <1>0, <3>1, <3>4 DEF Linked
      <4>2. j <= i
        BY <1>1, <3>4, <4>1
      <4> QED
        BY <2>4, <4>2
    <3>5. Progress'
      BY <1>2, <3>3, <3>4 DEF Progress, Asked
    <3> QED
      BY <1>2, <3>1, <3>2, <3>5, WalkStep
  <2> QED
    BY <2>5, <2>6
<1> QED
  BY <1>4, <1>5

-----------------------------------------------------------------------------
(* The invariant holds.                                                    *)

LEMMA InitInv == Init => ListInv
<1> SUFFICES ASSUME Init PROVE ListInv
  OBVIOUS
<1>1. /\ list \in BoundedSeq(Addrs, Cardinality(Filters)) /\ IsInjective(list)
      /\ running = <<>> /\ walk = [state |-> "none", s |-> Null]
      /\ asked = {} /\ replacing = <<>> /\ raced = {}
  BY DEF Init, SubsInit
<1>2. list \in Seq(Addrs) /\ DOMAIN list = 1..Len(list) /\ Len(list) \in Nat
  <2>1. PICK n \in 0..Cardinality(Filters) : list \in [1..n -> Addrs]
    BY <1>1 DEF BoundedSeq, SeqOf
  <2>2. n \in Nat
    BY <2>1, FS_CardinalityType, SubscriptionsAssumption
  <2>3. list \in Seq(Addrs)
    BY <2>1, <2>2, SeqDef
  <2> QED
    BY <2>3, LenProperties
<1>3. PICK fs \in [DOMAIN list -> Filters] :
        /\ IsInjective(fs)
        /\ heap = [a \in Addrs |-> IF \E i \in DOMAIN list : list[i] = a
                                   THEN fs[CHOOSE i \in DOMAIN list : list[i] = a]
                                   ELSE NoFilter]
  BY DEF Init, SubsInit
<1>4. ASSUME NEW a \in Addrs
      PROVE  \/ heap[a] = NoFilter /\ ~\E i \in DOMAIN list : list[i] = a
             \/ \E i \in DOMAIN list : list[i] = a /\ heap[a] = fs[i]
  BY <1>3
<1>5. heap \in [Addrs -> Filters \cup {NoFilter}]
  <2>1. \A a \in Addrs : heap[a] \in Filters \cup {NoFilter}
    BY <1>4
  <2> QED
    BY <1>3, <2>1
<1>6. Linked
  BY <1>1, <1>2, <1>4, SubscriptionsAssumption DEF Linked, IsInjective
<1>7. Unique
  BY <1>1, <1>3, <1>4 DEF Unique, IsInjective
<1>8. walk.state = "none" /\ Null \in Pointer
  BY <1>1, NullSound
<1>9. DOMAIN running = {} /\ DOMAIN replacing = {} /\ running \in Seq(Pointer)
      /\ replacing \in Calls
  BY <1>1, EmptySeq, LenProperties DEF Calls
<1>10. Typed
  BY <1>1, <1>2, <1>5, <1>8, <1>9 DEF Typed, Calls
<1>11. Outstanding /\ Held /\ Progress /\ AtRest
  BY <1>8, <1>9 DEF Outstanding, Held, Progress, AtRest
<1> QED
  BY <1>6, <1>7, <1>10, <1>11 DEF ListInv

LEMMA FramingSide ==
    ASSUME \/ Reading \/ CallbackReturns \/ PayloadFails \/ CallbackReads \/ PeerCloses
           \/ StartLoop \/ StartWait \/ (\E p \in Packets : StartLocal(p))
           \/ (\E kind \in {"payload", "stream"} : OnMessage(kind))
    PROVE  side' = side
BY DEF Reading, ReadHeader, HeaderFails, ReadTopicSize, IgnoreTopic, ReadTopic, ReadId,
       ReadReply, ReadPayload, Forward, SendAck, Skip, WaitAgain, CallbackReturns,
       ReadRequest, NextTopic, ReadFilter, ReadQos, PassOver, TopicsEnd,
       PayloadFails, CallbackReads, PeerCloses, StartLoop, StartWait, StartLocal, OnMessage

\* While the renewing loop is between two nodes only it takes steps, and a peer
\* that closes.
LEMMA NothingRuns ==
    ASSUME AtRest, walk.state = "at"
    PROVE  /\ frames = <<>> /\ side = "client" /\ ~Settled /\ ~AppCode
           /\ ~Reading /\ ~CallbackReads /\ ~Message /\ ~Returns
<1>1. frames = <<>> /\ side = "client" /\ ~Settled
  BY DEF AtRest, Settled
<1>2. \A phase \in Phases : ~In(phase)
  BY <1>1 DEF In
<1>3. ~Reading /\ ~CallbackReads /\ ~CallbackReturns /\ ~PayloadFails
      /\ \A kind \in {"payload", "stream"} : ~OnMessage(kind)
  BY <1>1 DEF In, Reading, ReadHeader, HeaderFails, ReadTopicSize, IgnoreTopic, ReadTopic,
         ReadId, ReadReply, ReadPayload, Forward, SendAck, Skip, WaitAgain, CallbackReturns,
         ReadRequest, NextTopic, ReadFilter, ReadQos, PassOver, TopicsEnd,
         PayloadFails, CallbackReads, OnMessage
<1> QED
  BY <1>1, <1>3 DEF AppCode, Message, Returns

LEMMA AwaitSide == ASSUME Await PROVE side' = side
BY FramingSide DEF Await, frameVars

LEMMA Resting ==
    ASSUME AtRest, walk.state # "at", side' = side, walk'.state = walk.state
    PROVE  AtRest'
BY DEF AtRest

LEMMA NextKeeps == ListInv /\ [Next]_vars => ListInv'
<1> SUFFICES ASSUME ListInv, [Next]_vars PROVE ListInv'
  OBVIOUS
<1>0. Lists /\ AtRest
  BY DEF ListInv, Lists
<1>a. ASSUME Lists', AtRest' PROVE ListInv'
  BY <1>a DEF ListInv, Lists
<1>1. CASE Reading /\ UNCHANGED subsVars
  BY <1>0, <1>1, <1>a, SameLists, NothingRuns, FramingSide, Resting DEF subsVars
<1>2. CASE Message
  <2>1. PICK t \in Topics : Fire(t)
    BY <1>2 DEF Message
  <2>2. side' = side
    BY <1>2, FramingSide DEF Message
  <2> QED
    BY <1>0, <1>2, <2>1, <2>2, <1>a, FireKeeps, NothingRuns, Resting
<1>3. CASE Returns
  <2>1. FireReturns /\ side' = side
    BY <1>3, FramingSide DEF Returns
  <2> QED
    BY <1>0, <1>3, <2>1, <1>a, FireReturnsKeeps, NothingRuns, Resting
<1>4. CASE ReplaceGoesOn \/ ChangeList
  <2>1. AppCode /\ Await /\ (ReplaceEnds \/ Asking \/ Change)
    BY <1>4 DEF ReplaceGoesOn, ChangeList, AppRuns
  <2>2. walk.state # "at"
    BY <1>0, <2>1, NothingRuns
  <2>3. Lists' /\ walk'.state = walk.state
    BY <1>0, <2>1, <2>2, ChangeKeeps
  <2> QED
    BY <1>0, <2>1, <2>2, <2>3, <1>a, AwaitSide, Resting
<1>5. CASE LoopReads \/ Request
  <2>1. (Settled \/ AppCode) /\ UNCHANGED subsVars /\ side' = side
    BY <1>5, FramingSide DEF LoopReads, Request, AppRuns
  <2> QED
    BY <1>0, <2>1, <1>a, NothingRuns, SameLists, Resting DEF subsVars
<1>6. CASE PublishLocal
  <2>1. UNCHANGED subsVars /\ side' = side /\ side = "server"
    BY <1>6, FramingSide DEF PublishLocal, StartLocal
  <2> QED
    BY <1>0, <2>1, <1>a, NothingRuns, SameLists, Resting DEF subsVars
<1>7. CASE RenewalBegins \/ RenewalNext
  <2>1. /\ UNCHANGED frameVars /\ frames = <<>> /\ (WalkBegins \/ WalkNext)
        /\ WalkBegins => side = "client"
    BY <1>7 DEF RenewalBegins, RenewalNext, WalkBegins, WalkNext
  <2>2. side = "client" /\ side' = side /\ frames' = frames
    BY <1>0, <2>1 DEF WalkNext, AtRest, frameVars
  <2>3. AtRest'
    BY <2>1, <2>2 DEF AtRest
  <2> QED
    BY <1>0, <2>1, <2>3, <1>a, WalkBeginsKeeps, WalkNextKeeps
<1>8. CASE RenewalAsks
  <2>1. WalkAsks /\ side' = side /\ side = "client"
    BY <1>0, <1>8, AwaitSide DEF RenewalAsks, WalkAsks, AtRest
  <2>2. Lists' /\ walk'.state = "waiting"
    BY <1>0, <2>1, WalkAsksKeeps
  <2> QED
    BY <2>1, <2>2, <1>a DEF AtRest
<1>9. CASE CallbackReads /\ UNCHANGED subsVars
  BY <1>0, <1>9, <1>a, SameLists, NothingRuns, FramingSide, Resting DEF subsVars
<1>10. CASE PeerCloses /\ UNCHANGED subsVars
  <2>1. side' = side /\ frames' = frames /\ walk' = walk
    BY <1>10 DEF PeerCloses, subsVars
  <2>2. AtRest'
    BY <1>0, <2>1 DEF AtRest
  <2> QED
    BY <1>0, <1>10, <1>a, <2>2, SameLists
<1>11. CASE UNCHANGED vars
  <2>1. UNCHANGED subsVars /\ side' = side /\ frames' = frames /\ walk' = walk
    BY <1>11 DEF vars, frameVars, subsVars
  <2>2. AtRest'
    BY <1>0, <2>1 DEF AtRest
  <2> QED
    BY <1>0, <1>a, <2>1, <2>2, SameLists
<1> QED
  BY <1>1, <1>2, <1>3, <1>4, <1>5, <1>6, <1>7, <1>8, <1>9, <1>10, <1>11 DEF Next, Handling

THEOREM ListInvAlways == Spec => []ListInv
BY InitInv, NextKeeps, PTL DEF Spec

\* The list of subscriptions links exactly the nodes allocated, once each, and no
\* filter is in it twice that was not subscribed while it was being replaced, for
\* any number of nodes, filters and callbacks inside each other (Subscriber).
THEOREM ListIsSoundAlways == Spec => []ListIsSound
<1>1. ListInv => ListIsSound
  <2> SUFFICES ASSUME ListInv PROVE ListIsSound
    OBVIOUS
  <2>1. \A i \in DOMAIN list : list[i] \in Addrs /\ heap[list[i]] # NoFilter
    BY LenProperties DEF ListInv, Typed, Linked
  <2> QED
    BY <2>1 DEF ListInv, Linked, Unique, ListIsSound
<1> QED
  BY <1>1, ListInvAlways, PTL

\* A std::function that runs, and the node in the hand of Client::loop, is deleted only
\* by application code that names its filter.
THEOREM HeldIsSafeAlways == Spec => []HeldIsSafe
<1>1. ListInv => HeldIsSafe
  BY DEF ListInv, Held, Sound, HeldIsSafe
<1> QED
  BY <1>1, ListInvAlways, PTL

\* A Client that has renewed its subscriptions has requested every filter of its
\* list, however the list changed under the loop.
THEOREM RenewalIsCompleteAlways == Spec => []RenewalIsComplete
<1>1. ListInv => RenewalIsComplete
  BY DEF ListInv, Progress, Asked, Listed, RenewalIsComplete
<1> QED
  BY <1>1, ListInvAlways, PTL

-----------------------------------------------------------------------------
(* The stream.                                                             *)

LEMMA NextFrames == [Next]_vars => FramingStep \/ UNCHANGED frameVars
<1> SUFFICES ASSUME [Next]_vars PROVE FramingStep \/ UNCHANGED frameVars
  OBVIOUS
<1>1. CASE Handling
  BY <1>1 DEF Handling, Message, Returns, ReplaceGoesOn, Await, FramingStep
<1>2. CASE LoopReads \/ Request \/ PublishLocal
  BY <1>2 DEF LoopReads, Request, PublishLocal, FramingStep
<1>3. CASE ChangeList \/ RenewalAsks \/ RenewalBegins \/ RenewalNext
  BY <1>3 DEF ChangeList, RenewalAsks, RenewalBegins, RenewalNext, Await, FramingStep
<1>4. CASE ((CallbackReads /\ ~Replacing) \/ PeerCloses) /\ UNCHANGED subsVars
  BY <1>4 DEF FramingStep
<1>5. CASE UNCHANGED vars
  BY <1>5 DEF vars
<1> QED
  BY <1>1, <1>2, <1>3, <1>4, <1>5 DEF Next

THEOREM FrameInvAlways == Spec => []FrameInv
<1>1. Init => FrameInv
  BY FramesStart DEF Init
<1>2. FrameInv /\ [Next]_vars => FrameInv'
  BY NextFrames, FramesStay
<1> QED
  BY <1>1, <1>2, PTL DEF Spec

\* A reader loses its place in the stream, while the connection lives on, only by
\* a single-byte read that failed inside a packet or a callback that waited before
\* it had read its own; otherwise what is left of the packet being handled ends
\* where the packet ends, for any packets and any depth of waits inside callbacks
\* (~IncomingPacket, wait_for_reply, ~IncomingPublish).
THEOREM InFrameAlways == Spec => []InFrame
BY FrameInvAlways, FramesSay, PTL

\* handle_packet acknowledges no message that no application code was called for.
THEOREM AckedIsOfferedAlways == Spec => []AckedIsOffered
BY FrameInvAlways, FramesSay, PTL

-----------------------------------------------------------------------------
(* Types.  The invariant above, and how deep calls are nested.             *)

Bounded ==
    /\ DOMAIN running \subseteq 1..MaxDepth
    /\ \A i \in DOMAIN replacing : replacing[i].depth \in 0..MaxDepth
    /\ asked \subseteq Filters /\ raced \subseteq Filters

LEMMA DeleteBounded ==
    ASSUME Bounded, NEW dropped, NEW f, Delete(dropped, f)
    PROVE  DOMAIN running' \subseteq 1..MaxDepth
BY DEF Delete, Bounded

LEMMA ReplacingIs ==
    ASSUME Typed, Replacing
    PROVE  /\ Last(replacing).filter \in Filters
           /\ \A i \in DOMAIN Front(replacing) :
                 i \in DOMAIN replacing /\ Front(replacing)[i] = replacing[i]
<1>1. replacing \in Calls /\ replacing # <<>>
  BY DEF Typed, Replacing, Calls
<1>2. /\ Front(replacing) \in Calls /\ Len(Front(replacing)) = Len(replacing) - 1
      /\ \A k \in 1..(Len(replacing) - 1) : Front(replacing)[k] = replacing[k]
      /\ Last(replacing) \in [filter : Filters, depth : Nat]
  BY <1>1, FrontType DEF Calls
<1>3. /\ DOMAIN Front(replacing) = 1..(Len(replacing) - 1) /\ DOMAIN replacing = 1..Len(replacing)
      /\ Len(replacing) \in Nat
  BY <1>1, <1>2, LenProperties DEF Calls
<1> QED
  BY <1>2, <1>3

LEMMA ChangeBounded ==
    ASSUME Typed, Bounded, Change \/ Asking \/ ReplaceEnds
    PROVE  Bounded'
<1>1. ASSUME NEW f \in Filters, SubscribeFilter(f) PROVE Bounded'
  BY <1>1, DeleteBounded DEF SubscribeFilter, Bounded, Race
<1>2. ASSUME NEW f \in Filters, UnsubscribeFilter(f) PROVE Bounded'
  BY <1>2, DeleteBounded DEF UnsubscribeFilter, Bounded
<1>3. ASSUME NEW id \in Addrs, UnsubscribeId(id) PROVE Bounded'
  BY <1>3, DeleteBounded DEF UnsubscribeId, Bounded
<1>4. ASSUME NEW f \in Filters, ReplaceBegins(f) PROVE Bounded'
  <2> DEFINE n == Len(running)
             e == [filter |-> f, depth |-> n]
  <2>1. n \in Nat /\ DOMAIN running = 1..n
    BY LenProperties DEF Typed
  <2>2. n \in 0..MaxDepth
    <3>1. n = 0 \/ n \in 1..MaxDepth
      BY <2>1 DEF Bounded
    <3> QED
      BY <3>1, SubscriptionsAssumption
  <2>3. replacing \in Calls /\ replacing' = Append(replacing, e)
    BY <1>4 DEF Typed, Calls, ReplaceBegins
  <2> HIDE DEF n
  <2>4. e \in [filter : Filters, depth : Nat] /\ e.depth = n
    BY <2>1
  <2> HIDE DEF e
  <2>5. /\ replacing' \in Calls /\ Len(replacing') = Len(replacing) + 1
        /\ \A i \in 1..Len(replacing) : replacing'[i] = replacing[i]
        /\ replacing'[Len(replacing) + 1] = e
    BY <2>3, <2>4, AppendProperties DEF Calls
  <2>6. /\ DOMAIN replacing' = 1..(Len(replacing) + 1) /\ DOMAIN replacing = 1..Len(replacing)
        /\ Len(replacing) \in Nat
    BY <2>3, <2>5, LenProperties DEF Calls
  <2>7. \A i \in DOMAIN replacing' : replacing'[i].depth \in 0..MaxDepth
    BY <2>2, <2>4, <2>5, <2>6 DEF Bounded
  <2>8. DOMAIN running' \subseteq 1..MaxDepth
    BY <1>4, DeleteBounded DEF ReplaceBegins
  <2> QED
    BY <1>4, <2>7, <2>8 DEF ReplaceBegins, Race, Bounded
<1>5. CASE ReplaceEnds
  <2>1. DOMAIN running' \subseteq 1..MaxDepth
    BY <1>5, DeleteBounded DEF ReplaceEnds
  <2>2. Replacing /\ replacing' = Front(replacing) /\ raced' = raced
        /\ asked' = asked \cup {Last(replacing).filter}
    BY <1>5 DEF ReplaceEnds
  <2> QED
    BY <2>1, <2>2, ReplacingIs DEF Bounded
<1> QED
  BY <1>1, <1>2, <1>3, <1>4, <1>5 DEF Change, Asking

LEMMA LoopsBounded ==
    ASSUME Typed, Held, Bounded,
           (\E t : Fire(t)) \/ FireReturns \/ WalkBegins \/ WalkAsks \/ WalkNext
    PROVE  Bounded'
<1>1. running \in Seq(Pointer) /\ Len(running) \in Nat /\ DOMAIN running = 1..Len(running)
  BY LenProperties DEF Typed
<1>2. ASSUME NEW t, Fire(t) PROVE Bounded'
  <2>1. Len(running) < MaxDepth /\ \E p : running' = Append(running, p)
    BY <1>2 DEF Fire
  <2>2. DOMAIN running' = 1..(Len(running) + 1)
    BY <1>1, <2>1
  <2> QED
    BY <1>1, <1>2, <2>1, <2>2, SubscriptionsAssumption DEF Fire, Bounded
<1>3. CASE FireReturns
  <2>1. running # <<>> /\ running' = Front(running)
    BY <1>3 DEF FireReturns
  <2>2. running' \in Seq(Pointer) /\ Len(running') = Len(running) - 1
    BY <1>1, <2>1, FrontType
  <2>3. DOMAIN running' = 1..(Len(running) - 1)
    BY <2>2, LenProperties
  <2> QED
    BY <1>1, <1>3, <2>3 DEF FireReturns, Bounded
<1>4. CASE WalkBegins \/ WalkNext
  BY <1>4 DEF WalkBegins, WalkNext, Bounded
<1>5. CASE WalkAsks
  <2>1. heap[walk.s.addr] \in Filters
    <3>1. walk.state = "at"
      BY <1>5 DEF WalkAsks
    <3>2. Sound(walk.s) /\ walk.s.addr \in Addrs /\ ~walk.s.freed
      BY <3>1 DEF Held
    <3>3. heap[walk.s.addr] # NoFilter
      BY <3>2, SubscriptionsAssumption DEF Sound
    <3> QED
      BY <3>2, <3>3 DEF Typed
  <2> QED
    BY <1>5, <2>1 DEF WalkAsks, Bounded
<1> QED
  BY <1>2, <1>3, <1>4, <1>5

LEMMA BoundedStep == ListInv /\ Bounded /\ [Next]_vars => Bounded'
<1> SUFFICES ASSUME ListInv, Bounded, [Next]_vars PROVE Bounded'
  OBVIOUS
<1>1. Typed /\ Held
  BY DEF ListInv
<1>2. CASE UNCHANGED subsVars
  BY <1>2 DEF subsVars, Bounded
<1>3. CASE Message \/ Returns
  BY <1>1, <1>3, LoopsBounded DEF Message, Returns
<1>4. CASE ReplaceGoesOn \/ ChangeList
  BY <1>1, <1>4, ChangeBounded DEF ReplaceGoesOn, ChangeList
<1>5. CASE RenewalBegins \/ RenewalAsks \/ RenewalNext
  BY <1>1, <1>5, LoopsBounded DEF RenewalBegins, RenewalAsks, RenewalNext
<1> QED
  BY <1>2, <1>3, <1>4, <1>5 DEF Next, Handling, LoopReads, Request, PublishLocal, vars

LEMMA BoundedStarts == Init => Bounded
<1> SUFFICES ASSUME Init PROVE Bounded
  OBVIOUS
<1>1. running = <<>> /\ replacing = <<>> /\ asked = {} /\ raced = {}
  BY DEF Init, SubsInit
<1>2. DOMAIN running = {} /\ DOMAIN replacing = {}
  BY <1>1
<1> QED
  BY <1>1, <1>2 DEF Bounded

\* A list without repetitions is no longer than there are addresses.
LEMMA ListFits ==
    ASSUME list \in Seq(Addrs), Linked
    PROVE  list \in BoundedSeq(Addrs, Cardinality(Addrs))
<1> DEFINE n == Len(list)
<1>1. n \in Nat /\ list \in [1..n -> Addrs] /\ DOMAIN list = 1..n
  BY LenProperties
<1> HIDE DEF n
<1>2. list \in Injection(1..n, Addrs)
  BY <1>1 DEF Linked, Injection, IsInjective
<1>3. Cardinality(1..n) <= Cardinality(Addrs)
  BY <1>2, FS_Injection, SubscriptionsAssumption
<1>4. Cardinality(1..n) = n
  BY <1>1, FS_Interval
<1>5. Cardinality(Addrs) \in Nat
  BY FS_CardinalityType, SubscriptionsAssumption
<1>6. n \in 0..Cardinality(Addrs)
  BY <1>1, <1>3, <1>4, <1>5
<1> QED
  BY <1>1, <1>6 DEF BoundedSeq, SeqOf

\* Whatever is read and called, in whatever order, variables keep their types, no
\* packet is read beyond its size, and pointers that are held name nodes or what
\* was freed.
THEOREM TypesAlways == Spec => []TypeOK
<1>1. ListInv /\ Bounded => SubsTypeOK
  <2> SUFFICES ASSUME ListInv, Bounded PROVE SubsTypeOK
    OBVIOUS
  <2>1. Typed /\ Linked
    BY DEF ListInv
  <2>2. list \in BoundedSeq(Addrs, Cardinality(Addrs))
    BY <2>1, ListFits DEF Typed
  <2>3. replacing \in Seq([filter : Filters, depth : 0..MaxDepth])
    <3>1. replacing \in Calls /\ Len(replacing) \in Nat
          /\ replacing \in [1..Len(replacing) -> [filter : Filters, depth : Nat]]
          /\ DOMAIN replacing = 1..Len(replacing)
      BY <2>1, LenProperties DEF Typed, Calls
    <3>2. \A i \in 1..Len(replacing) : replacing[i] \in [filter : Filters, depth : 0..MaxDepth]
      BY <3>1, SMTT(20) DEF Bounded
    <3>3. replacing \in [1..Len(replacing) -> [filter : Filters, depth : 0..MaxDepth]]
      BY <3>1, <3>2
    <3> QED
      <4> DEFINE T == [filter : Filters, depth : 0..MaxDepth]
      <4> HIDE DEF T
      <4>1. replacing \in Seq(T)
        BY <3>1, <3>3, FunctionIsSeq DEF T
      <4> QED
        BY <4>1 DEF T
  <2> QED
    BY <2>1, <2>2, <2>3 DEF Typed, Bounded, SubsTypeOK
<1>2. Spec => []Bounded
  BY ListInvAlways, BoundedStarts, BoundedStep, PTL DEF Spec
<1>3. FrameInv => FramingTypeOK
  BY FramesSay
<1> QED
  BY <1>1, <1>2, <1>3, FrameInvAlways, ListInvAlways, PTL DEF TypeOK
=============================================================================
