---------------------------- MODULE Outgoing_proofs ----------------------------
(***************************************************************************)
(* Proofs about OutgoingPacket, for every capacity of the buffer, unbuffered  *)
(* builds among them, and every size of a packet.                            *)
(***************************************************************************)
EXTENDS Outgoing, SequenceLemmas

\* Parts of the inductive invariant.

\* There is room in the buffer.
Room == capacity > 0 => Len(buffer) < capacity

\* What the socket has is no more than what was handed over.
Printed == Len(printed) <= Len(handed)

\* The call in progress uses what was handed over for it.
JobOK ==
    /\ Idle => job.left = 0 /\ job.written = 0
    /\ job.src + Pending <= Len(handed) \/ Idle
    /\ link = "up" => job.src + Pending = Len(handed) \/ Idle

\* The header is written first, and whole over a socket that works.
HeaderOK ==
    job.from = "header" =>
        /\ pos = 0 /\ state = "ok" /\ Len(handed) = HeaderSize
        /\ job.written + job.left <= HeaderSize
        /\ link = "up" => job.written + job.left = HeaderSize

\* Bytes of another client that are still to come.
Coming == IF job.from = "client" THEN job.left ELSE 0

\* After it, no byte is counted that was not used, and while the socket works
\* all of them are; callers hand over no more than was declared.
CountOK ==
    /\ job.from \notin {"header", "fill"} /\ state = "ok" =>
          /\ HeaderSize + pos + job.written + Pending <= Len(handed)
          /\ Len(handed) + Coming <= HeaderSize + size
    /\ job.from # "header" /\ link = "up" =>
          HeaderSize + pos + job.written + Pending = Len(handed)

\* Fillers make up the declared size.
FillOK ==
    job.from = "fill" =>
        /\ pos + job.written + job.left <= size
        /\ link = "up" => pos + job.written + job.left = size

\* Once sent, nothing is left.
SentOK == state = "sent" => Idle /\ (link = "up" => buffer = <<>> /\ pos = size)

Counts == Room /\ Printed /\ JobOK /\ HeaderOK /\ CountOK /\ FillOK /\ SentOK

IInv == TypeOK /\ NothingIsLost /\ Counts

-----------------------------------------------------------------------------
\* Numbers and zeros are bytes.
LEMMA NumberedType ==
    ASSUME NEW a \in Nat, NEW n \in Nat
    PROVE  Numbered(a, n) \in Seq(Nat) /\ Len(Numbered(a, n)) = n
<1>1. \A k \in 1..n : a + k - 1 \in Nat
  OBVIOUS
<1>2. Numbered(a, n) \in [1..n -> Nat]
  BY <1>1 DEF Numbered
<1> QED
  BY <1>2 DEF Numbered

LEMMA ZerosType ==
    ASSUME NEW n \in Nat
    PROVE  Zeros(n) \in Seq(Nat) /\ Len(Zeros(n)) = n
<1>1. Zeros(n) \in [1..n -> Nat]
  BY DEF Zeros
<1> QED
  BY <1>1 DEF Zeros

-----------------------------------------------------------------------------
(* The socket.                                                              *)

\* A write that fails leaves a beginning of what was handed over with the socket.
LEMMA WriteBeginning ==
    ASSUME printed \in Seq(Nat), link \in {"up", "down"},
           NEW b \in Seq(Nat), NEW h \in Seq(Nat), NEW n \in Nat,
           Len(printed) <= Len(h), printed = SubSeq(h, 1, Len(printed)),
           link = "up" => n <= Len(h) /\ printed \o b = SubSeq(h, 1, n),
           SocketWrite(b)
    PROVE  /\ printed' \in Seq(Nat) /\ link' \in {"up", "down"}
           /\ Len(printed') <= Len(h) /\ printed' = SubSeq(h, 1, Len(printed'))
           /\ link' = "up" => link = "up" /\ printed' = SubSeq(h, 1, n)
<1>1. CASE link = "up" /\ printed' = printed \o b /\ link' = "up"
  <2>1. n \in 0..Len(h) /\ printed' = SubSeq(h, 1, n)
    BY <1>1
  <2>2. SubSeq(h, 1, n) \in Seq(Nat) /\ Len(SubSeq(h, 1, n)) = n
    BY <2>1, Beginning
  <2> QED
    BY <1>1, <2>1, <2>2
<1>2. CASE /\ link = "up" /\ link' = "down"
           /\ \E k \in 0..(Len(b) - 1) : printed' = printed \o SubSeq(b, 1, k)
  <2>1. PICK k \in 0..(Len(b) - 1) : printed' = printed \o SubSeq(b, 1, k)
    BY <1>2
  <2> DEFINE l == Len(printed)
  <2>2. k \in 0..Len(b) /\ l \in Nat
    OBVIOUS
  <2>3. SubSeq(b, 1, k) \in Seq(Nat) /\ Len(SubSeq(b, 1, k)) = k
        /\ \A i \in 1..k : SubSeq(b, 1, k)[i] = b[i]
    BY <2>2, Beginning
  <2>4. printed' \in Seq(Nat) /\ Len(printed') = l + k
    BY <2>1, <2>2, <2>3
  <2>5. n <= Len(h) /\ printed \o b = SubSeq(h, 1, n)
    BY <1>2, Zenon
  <2>6. printed \o b = SubSeq(h, 1, n) /\ n \in 0..Len(h)
    BY <2>5, LenProperties
  <2>7. /\ Len(SubSeq(h, 1, n)) = n
         /\ \A i \in 1..n : SubSeq(h, 1, n)[i] = h[i]
    BY <2>6, Beginning
  <2>8. Len(printed \o b) = l + Len(b)
    BY ConcatProperties
  <2>9. n = l + Len(b) /\ l + k \in 0..n /\ l + k \in 0..Len(h)
    BY <2>2, <2>6, <2>8, <2>7
  <2>10. /\ SubSeq(h, 1, l + k) \in Seq(Nat) /\ Len(SubSeq(h, 1, l + k)) = l + k
        /\ \A i \in 1..(l + k) : SubSeq(h, 1, l + k)[i] = h[i]
    BY <2>9, Beginning
  <2>11. \A i \in 1..n : (printed \o b)[i] = h[i]
    BY <2>6, <2>7
  <2>12. ASSUME NEW i \in 1..(l + k) PROVE printed'[i] = h[i]
    <3>1. CASE i <= l
      <4>1. printed'[i] = printed[i] /\ (printed \o b)[i] = printed[i]
        BY <2>1, <2>3, <3>1, ConcatProperties
      <4> QED
        BY <3>1, <4>1, <2>2, <2>9, <2>11
    <3>2. CASE i > l
      <4>1. i - l \in 1..k /\ i \in 1..n
        BY <3>2, <2>2, <2>9
      <4>2. printed'[i] = SubSeq(b, 1, k)[i - l]
        BY <2>1, <2>2, <2>3, <3>2, <4>1, ConcatProperties
      <4>3. (printed \o b)[i] = b[i - l]
        BY <2>2, <2>9, <3>2, <4>1, ConcatProperties
      <4> QED
        BY <4>1, <4>2, <4>3, <2>3, <2>11
    <3> QED
      BY <3>1, <3>2, <2>2
  <2>13. printed' = SubSeq(h, 1, l + k)
    BY <2>4, <2>10, <2>12, SeqEqual
  <2> QED
    <3>1. printed' = SubSeq(h, 1, Len(printed')) /\ Len(printed') <= Len(h)
      BY <2>4, <2>9, <2>13
    <3> QED
      BY <1>2, <2>4, <3>1, Zenon
<1>3. CASE link = "down" /\ UNCHANGED <<link, printed>>
  BY <1>3
<1> QED
  BY <1>1, <1>2, <1>3 DEF SocketWrite

\* Bytes that fit are put in order behind those before them, wherever they end up.
LEMMA PutInOrder ==
    ASSUME TypeOK, NEW b \in Seq(Nat), NEW h \in Seq(Nat), NEW n \in Nat,
           capacity > 0 => Len(buffer) + Len(b) <= capacity,
           Len(printed) <= Len(h), printed = SubSeq(h, 1, Len(printed)),
           link = "up" => n <= Len(h) /\ (printed \o buffer) \o b = SubSeq(h, 1, n),
           Put(b)
    PROVE  /\ printed' \in Seq(Nat) /\ link' \in {"up", "down"}
           /\ buffer' \in Seq(Nat) /\ Len(buffer') <= capacity
           /\ capacity > 0 => Len(buffer') < capacity
           /\ Len(printed') <= Len(h) /\ printed' = SubSeq(h, 1, Len(printed'))
           /\ link' = "up" => link = "up" /\ printed' \o buffer' = SubSeq(h, 1, n)
<1>1. /\ printed \in Seq(Nat) /\ buffer \in Seq(Nat) /\ link \in {"up", "down"}
      /\ capacity \in Nat /\ Len(buffer) \in Nat /\ Len(b) \in Nat /\ Len(buffer) <= capacity
  BY OutgoingAssumption, LenProperties DEF TypeOK, Byte
<1>2. /\ buffer \o b \in Seq(Nat) /\ Len(buffer \o b) = Len(buffer) + Len(b)
      /\ (printed \o buffer) \o b = printed \o (buffer \o b)
  <2>1. buffer \o b \in Seq(Nat) /\ Len(buffer \o b) = Len(buffer) + Len(b)
    BY <1>1, ConcatProperties
  <2>2. (printed \o buffer) \o b = printed \o (buffer \o b)
    <3>1. printed \in Seq(Nat) /\ buffer \in Seq(Nat) /\ b \in Seq(Nat)
      BY <1>1
    <3>2. ASSUME NEW t \in Seq(Nat), NEW u \in Seq(Nat), NEW v \in Seq(Nat)
          PROVE  (t \o u) \o v = t \o (u \o v)
      BY ONLY ConcatAssociative, SMTT(40)
    <3> QED
      BY <3>1, <3>2, Zenon
  <2> QED
    BY <2>1, <2>2
<1>3. CASE capacity > 0
  <2>1. CASE Len(buffer \o b) >= capacity
    <3>1. SocketWrite(buffer \o b) /\ buffer' = <<>>
      BY <1>3, <2>1 DEF Put, Store
    <3>2. link = "up" => n <= Len(h) /\ printed \o (buffer \o b) = SubSeq(h, 1, n)
      BY <1>2
    <3>3. /\ printed' \in Seq(Nat) /\ link' \in {"up", "down"}
          /\ Len(printed') <= Len(h) /\ printed' = SubSeq(h, 1, Len(printed'))
          /\ link' = "up" => link = "up" /\ printed' = SubSeq(h, 1, n)
      BY <1>1, <1>2, <3>1, <3>2, WriteBeginning
    <3>4. printed' \o buffer' = printed' /\ buffer' \in Seq(Nat) /\ Len(buffer') = 0
      BY <3>1, <3>3, ConcatEmptySeq, EmptySeq
    <3>5. Len(buffer') <= capacity /\ Len(buffer') < capacity
      BY <1>1, <1>3, <3>4
    <3> QED
      BY <3>3, <3>4, <3>5, Zenon
  <2>2. CASE ~(Len(buffer \o b) >= capacity)
    <3>1. buffer' = buffer \o b /\ UNCHANGED <<link, printed>>
      BY <1>3, <2>2 DEF Put, Store
    <3>2. Len(buffer') <= capacity /\ Len(buffer') < capacity
      BY <1>1, <1>2, <2>2, <3>1
    <3>3. link' = "up" => printed' \o buffer' = SubSeq(h, 1, n)
      BY <1>2, <3>1, Zenon
    <3> QED
      BY <1>1, <1>2, <3>1, <3>2, <3>3, Zenon
  <2> QED
    BY <2>1, <2>2
<1>4. CASE capacity = 0
  <2>1. SocketWrite(b) /\ UNCHANGED buffer
    BY <1>4 DEF Put
  <2>2. buffer = <<>>
    BY <1>1, <1>4, EmptySeq
  <2>3. link = "up" => n <= Len(h) /\ printed \o b = SubSeq(h, 1, n)
    BY <1>1, <2>2, ConcatEmptySeq
  <2>4. /\ printed' \in Seq(Nat) /\ link' \in {"up", "down"}
        /\ Len(printed') <= Len(h) /\ printed' = SubSeq(h, 1, Len(printed'))
        /\ link' = "up" => link = "up" /\ printed' = SubSeq(h, 1, n)
    BY <1>1, <2>1, <2>3, WriteBeginning
  <2>5. printed' \o buffer' = printed'
    BY <2>1, <2>2, <2>4, ConcatEmptySeq
  <2>6. ~(capacity > 0) /\ buffer' \in Seq(Nat) /\ Len(buffer') <= capacity
    BY <1>1, <1>4, <2>1
  <2> QED
    BY <2>4, <2>5, <2>6, Zenon
<1>5. capacity > 0 \/ capacity = 0
  BY <1>1
<1> QED
  BY <1>3, <1>4, <1>5, Zenon

\* A flush moves what is buffered to the socket.
LEMMA FlushInOrder ==
    ASSUME TypeOK, NEW h \in Seq(Nat), NEW n \in Nat,
           Len(printed) <= Len(h), printed = SubSeq(h, 1, Len(printed)),
           link = "up" => n <= Len(h) /\ printed \o buffer = SubSeq(h, 1, n),
           Flush
    PROVE  /\ printed' \in Seq(Nat) /\ link' \in {"up", "down"}
           /\ buffer' = <<>> /\ buffer' \in Seq(Nat) /\ Len(buffer') = 0
           /\ Len(printed') <= Len(h) /\ printed' = SubSeq(h, 1, Len(printed'))
           /\ link' = "up" => link = "up" /\ printed' \o buffer' = SubSeq(h, 1, n)
<1>1. printed \in Seq(Nat) /\ buffer \in Seq(Nat) /\ link \in {"up", "down"}
  BY DEF TypeOK, Byte
<1>2. SocketWrite(buffer) /\ buffer' = <<>>
  BY DEF Flush
<1>3. /\ printed' \in Seq(Nat) /\ link' \in {"up", "down"}
      /\ Len(printed') <= Len(h) /\ printed' = SubSeq(h, 1, Len(printed'))
      /\ link' = "up" => link = "up" /\ printed' = SubSeq(h, 1, n)
  BY <1>1, <1>2, WriteBeginning
<1>4. printed' \o buffer' = printed' /\ buffer' \in Seq(Nat) /\ Len(buffer') = 0
  BY <1>2, <1>3, ConcatEmptySeq, EmptySeq
<1> QED
  BY <1>2, <1>3, <1>4

-----------------------------------------------------------------------------
(* Steps.                                                                   *)

\* The types of what is counted.
LEMMA Counters ==
    ASSUME TypeOK
    PROVE  /\ capacity \in Nat /\ size \in Nat /\ pos \in Nat /\ pos <= size
           /\ buffer \in Seq(Nat) /\ Len(buffer) \in Nat /\ Len(buffer) <= capacity
           /\ printed \in Seq(Nat) /\ Len(printed) \in Nat
           /\ handed \in Seq(Nat) /\ Len(handed) \in Nat
           /\ job \in Job /\ job.from \in Sources
           /\ job.src \in Nat /\ job.left \in Nat /\ job.written \in Nat
           /\ ScratchSize \in Nat /\ ScratchSize > 0 /\ HeaderSize \in Nat /\ HeaderSize > 0
<1>1. capacity \in Nat /\ size \in Nat /\ pos \in Nat /\ pos <= size
  BY OutgoingAssumption DEF TypeOK
<1>2. job.from \in Sources /\ job.src \in Nat /\ job.left \in Nat /\ job.written \in Nat
  BY DEF TypeOK, Job
<1>3. Len(buffer) \in Nat /\ Len(printed) \in Nat /\ Len(handed) \in Nat
  BY LenProperties DEF TypeOK, Byte
<1> QED
  BY <1>1, <1>2, <1>3, OutgoingAssumption DEF TypeOK, Byte

\* A round moves a call on by n bytes, and counts them while the socket works.
LEMMA AdvanceCounts ==
    ASSUME TypeOK, NEW n \in Nat, 1 <= n, n <= job.left, Advance(n, Counted(n)),
           job.from # "none"
    PROVE  /\ job' \in Job /\ job'.from = job.from /\ job'.src = job.src + n
           /\ job'.left \in Nat /\ job'.written \in Nat /\ job'.left <= job.left - n
           /\ job'.written + job'.left <= job.written + job.left
           /\ job'.written <= job.written + n
           /\ link' = "up" => job'.written = job.written + n /\ job'.left = job.left - n
<1> DEFINE c == Counted(n)
           left == IF c < n /\ job.from \notin ByteByByte THEN 0 ELSE job.left - n
<1>1. c \in 0..n /\ (link' = "up" => c = n)
  BY DEF Counted
<1> HIDE DEF c
<1>2. job.left - n \in Nat /\ left \in Nat /\ left <= job.left - n
  BY <1>1, Counters
<1>3. link' = "up" => left = job.left - n
  BY <1>1
<1>4. job' = [job EXCEPT !.src = @ + n, !.written = @ + c, !.left = left]
  BY Counters DEF Advance, Job, c
<1> HIDE DEF left
<1>5. /\ job'.from = job.from /\ job'.src = job.src + n
      /\ job'.written = job.written + c /\ job'.left = left
  BY <1>4, Counters DEF Job
<1> DEFINE l == job.left
           w == job.written
<1>6. job.src \in Nat /\ l \in Nat /\ w \in Nat /\ c \in Nat /\ c <= n
  BY <1>1, Counters
<1> HIDE DEF l, w
<1>7. job.src + n \in Nat /\ w + c \in Nat
  BY <1>6
<1>8. job' \in Job
  BY <1>2, <1>4, <1>7, Counters DEF Job, w
<1>9. left <= l - n
  BY <1>2 DEF l
<1>10. w + c + left <= w + l /\ w + c <= w + n
  BY <1>2, <1>6, <1>9
<1> QED
  BY <1>1, <1>2, <1>3, <1>5, <1>7, <1>8, <1>10 DEF l, w

\* A chunk is at least a byte, and fits.
LEMMA ChunkFits ==
    ASSUME TypeOK, Room, job.left > 0
    PROVE  /\ Chunk \in Nat /\ 1 <= Chunk /\ Chunk <= job.left
           /\ capacity > 0 => Len(buffer) + Chunk <= capacity
<1> DEFINE limit == CASE capacity > 0 -> capacity - Len(buffer)
                      [] capacity = 0 /\ job.from \in {"flash", "client"} -> ScratchSize
                      [] OTHER -> job.left
           most == IF job.from \in ByteByByte THEN 1 ELSE job.left
           free == capacity - Len(buffer)
<1>1. most \in Nat /\ 1 <= most /\ most <= job.left
  BY Counters
<1>2. capacity > 0 => free \in Nat /\ 1 <= free /\ limit = free
  BY Counters DEF Room
<1>3. capacity = 0 => limit = ScratchSize \/ limit = job.left
  OBVIOUS
<1>4. capacity > 0 \/ capacity = 0
  BY Counters
<1>5. limit \in Nat /\ 1 <= limit
  BY <1>2, <1>3, <1>4, Counters
<1>6. Chunk = Least(most, limit)
  BY DEF Chunk
<1> HIDE DEF most, limit
<1>7. Chunk \in Nat /\ 1 <= Chunk /\ Chunk <= most /\ Chunk <= limit
  BY <1>1, <1>5, <1>6 DEF Least
<1>8. Chunk <= job.left
  BY <1>1, <1>7, Counters
<1>9. capacity > 0 => Len(buffer) + Chunk <= capacity
  BY <1>2, <1>7, Counters
<1> QED
  BY <1>7, <1>8, <1>9

\* What is in memory or flash, the header and the fillers.
LEMMA WriteChunkStep ==
    ASSUME IInv, WriteChunk
    PROVE  IInv'
<1> DEFINE n == Chunk
           b == SubSeq(handed, job.src + 1, job.src + n)
           s == job.src
           l == job.left
           w == job.written
           h == Len(handed)
           l2 == job'.left
           w2 == job'.written
<1>1. /\ TypeOK /\ NothingIsLost /\ Room /\ Printed /\ JobOK
      /\ HeaderOK /\ CountOK /\ FillOK /\ SentOK
  BY DEF IInv, Counts
<1>2. /\ job.from \in {"header", "memory", "flash", "fill"} /\ job.left > 0
      /\ Put(b) /\ Advance(n, Counted(n))
      /\ UNCHANGED <<capacity, size, pos, state, handed>>
  BY DEF WriteChunk
<1>3. n \in Nat /\ 1 <= n /\ n <= job.left /\ (capacity > 0 => Len(buffer) + n <= capacity)
  BY <1>1, <1>2, ChunkFits
<1> HIDE DEF n
<1>4. ~Idle /\ Pending = job.left /\ Coming = 0
  BY <1>2 DEF Idle, Pending, Coming
<1>5. job.src + job.left <= Len(handed) /\ (link = "up" => job.src + job.left = Len(handed))
  BY <1>1, <1>4 DEF JobOK
<1>6. s \in Nat /\ l \in Nat /\ w \in Nat /\ h \in Nat /\ handed \in Seq(Nat)
  BY <1>1, Counters
<1>7. pos \in Nat /\ size \in Nat /\ HeaderSize \in Nat
  BY <1>1, Counters
<1>8. n <= l /\ s + l <= h /\ (link = "up" => s + l = h)
  BY <1>3, <1>5
<1> HIDE DEF b, s, l, w, h, l2, w2
<1>9. s + n \in Nat /\ s + n <= h
  BY <1>3, <1>6, <1>8
<1>10. b \in Seq(Nat) /\ Len(b) = n
  BY <1>3, <1>9, <1>6, Piece, SMTT(40) DEF s, h, b
<1>11. ASSUME link = "up"
      PROVE  (printed \o buffer) \o b = SubSeq(handed, 1, job.src + n)
  <2>0. h - l = s
    BY <1>11, <1>6, <1>8
  <2>1. Len(handed) - Pending = job.src
    BY <1>4, <2>0 DEF h, l, s
  <2>2. printed \o buffer = SubSeq(handed, 1, job.src)
    BY <1>1, <1>11, <2>1, Zenon DEF NothingIsLost
  <2>3. SubSeq(handed, 1, job.src) \o b = SubSeq(handed, 1, job.src + n)
    BY <1>3, <1>9, <1>6, BeginningAndPiece DEF s, h, b
  <2> QED
    BY <2>2, <2>3, Zenon
<1>12. Len(printed) <= Len(handed) /\ printed = SubSeq(handed, 1, Len(printed))
  BY <1>1 DEF Printed, NothingIsLost
<1>13. capacity > 0 => Len(buffer) + Len(b) <= capacity
  BY <1>3, <1>10
<1>14. link = "up" => job.src + n <= Len(handed) /\ (printed \o buffer) \o b = SubSeq(handed, 1, job.src + n)
  BY <1>9, <1>11 DEF s, h
<1>15. handed \in Seq(Nat) /\ job.src + n \in Nat
  BY <1>9, <1>6 DEF s
<1>16. /\ printed' \in Seq(Nat) /\ link' \in {"up", "down"}
       /\ buffer' \in Seq(Nat) /\ Len(buffer') <= capacity
       /\ capacity > 0 => Len(buffer') < capacity
       /\ Len(printed') <= Len(handed) /\ printed' = SubSeq(handed, 1, Len(printed'))
       /\ link' = "up" => link = "up" /\ printed' \o buffer' = SubSeq(handed, 1, job.src + n)
  BY <1>1, <1>2, <1>10, <1>12, <1>13, <1>14, <1>15, PutInOrder
<1>17. /\ job' \in Job /\ job'.from = job.from /\ job'.src = job.src + n
       /\ job'.left \in Nat /\ job'.written \in Nat /\ job'.left <= job.left - n
       /\ job'.written + job'.left <= job.written + job.left
       /\ job'.written <= job.written + n
       /\ link' = "up" => job'.written = job.written + n /\ job'.left = job.left - n
  BY <1>1, <1>2, <1>3, <1>4, AdvanceCounts DEF Idle
<1>18. /\ l2 \in Nat /\ w2 \in Nat /\ l2 <= l - n /\ w2 + l2 <= w + l
       /\ link' = "up" => w2 = w + n /\ l2 = l - n
  BY <1>17 DEF l, w, l2, w2
<1>19. ~Idle' /\ Pending' = job'.left /\ Coming' = 0 /\ job'.from # "client"
  BY <1>2, <1>17 DEF Idle, Pending, Coming
<1>20. TypeOK'
  BY <1>1, <1>2, <1>16, <1>17 DEF TypeOK, Byte
<1>21. Room' /\ Printed'
  BY <1>2, <1>16 DEF Room, Printed
<1>22. JobOK'
  <2>1. (s + n) + l2 <= h
    BY <1>3, <1>6, <1>8, <1>18
  <2>2. link' = "up" => (s + n) + l2 = h
    BY <1>3, <1>16, <1>6, <1>8, <1>18
  <2> QED
    BY <1>2, <1>17, <1>19, <2>1, <2>2 DEF JobOK, s, l2, h
<1>23. NothingIsLost'
  <2>2. link' = "up" => h - l2 = s + n
    BY <1>3, <1>16, <1>6, <1>8, <1>18
  <2>1. link' = "up" => Len(handed') - Pending' = job.src + n
    BY <1>2, <1>19, <2>2 DEF h, l2, s
  <2> QED
    BY <1>2, <1>16, <2>1, Zenon DEF NothingIsLost
<1>24. HeaderOK'
  <2>1. CASE job.from = "header"
    <3>1. w + l <= HeaderSize /\ (link = "up" => w + l = HeaderSize)
      BY <1>1, <2>1 DEF HeaderOK, w, l
    <3>2. w2 + l2 <= HeaderSize
      BY <1>3, <1>6, <1>7, <1>18, <3>1
    <3>3. link' = "up" => w2 + l2 = HeaderSize
      BY <1>3, <1>16, <1>6, <1>7, <1>8, <1>18, <3>1
    <3> QED
      BY <1>1, <1>2, <2>1, <3>2, <3>3 DEF HeaderOK, w2, l2
  <2> QED
    BY <1>17, <2>1 DEF HeaderOK
<1>25. CountOK'
  <2>1. ASSUME job.from \notin {"header", "fill"}, state = "ok"
        PROVE  HeaderSize + pos + w2 + l2 <= h /\ h + 0 <= HeaderSize + size
    <3>1. HeaderSize + pos + w + l <= h /\ h + 0 <= HeaderSize + size
      BY <1>1, <1>4, <2>1 DEF CountOK, w, l, h
    <3> QED
      BY <1>3, <1>6, <1>7, <1>18, <3>1
  <2>2. ASSUME job.from # "header", link' = "up"
        PROVE  HeaderSize + pos + w2 + l2 = h
    <3>1. HeaderSize + pos + w + l = h
      BY <1>1, <1>4, <1>16, <2>2 DEF CountOK, w, l, h
    <3> QED
      BY <1>3, <1>6, <1>7, <1>8, <1>18, <2>2, <3>1
  <2> QED
    BY <1>2, <1>17, <1>19, <2>1, <2>2 DEF CountOK, w2, l2, h
<1>26. FillOK'
  <2>1. CASE job.from = "fill"
    <3>1. pos + w + l <= size /\ (link = "up" => pos + w + l = size)
      BY <1>1, <2>1 DEF FillOK, w, l
    <3>2. pos + w2 + l2 <= size
      BY <1>3, <1>6, <1>7, <1>18, <3>1
    <3>3. link' = "up" => pos + w2 + l2 = size
      BY <1>3, <1>16, <1>6, <1>7, <1>8, <1>18, <3>1
    <3> QED
      BY <1>2, <3>2, <3>3 DEF FillOK, w2, l2
  <2> QED
    BY <1>17, <2>1 DEF FillOK
<1>27. SentOK'
  BY <1>1, <1>2, <1>4 DEF SentOK
<1> QED
  BY <1>20, <1>21, <1>22, <1>23, <1>24, <1>25, <1>26, <1>27 DEF IInv, Counts

\* More may be handed over when nothing that was is left to use.
LEMMA MoreHanded ==
    ASSUME TypeOK, NothingIsLost, Printed, Pending = 0, NEW t \in Seq(Nat)
    PROVE  /\ handed \o t \in Seq(Nat) /\ Len(handed \o t) = Len(handed) + Len(t)
           /\ Len(printed) <= Len(handed \o t)
           /\ printed = SubSeq(handed \o t, 1, Len(printed))
           /\ link = "up" => /\ printed \o buffer = SubSeq(handed \o t, 1, Len(handed))
                             /\ printed \o buffer = handed
<1>1. /\ handed \in Seq(Nat) /\ Len(handed) \in Nat
      /\ printed \in Seq(Nat) /\ Len(printed) \in Nat /\ Len(t) \in Nat
  BY Counters, LenProperties
<1>2. handed \o t \in Seq(Nat) /\ Len(handed \o t) = Len(handed) + Len(t)
  BY <1>1, ConcatProperties
<1>3. Len(printed) \in 0..Len(handed) /\ Len(handed) \in 0..Len(handed)
  BY <1>1 DEF Printed
<1>4. Len(printed) <= Len(handed \o t)
  BY <1>1, <1>2, <1>3
<1>5. printed = SubSeq(handed \o t, 1, Len(printed))
  <2>1. SubSeq(handed \o t, 1, Len(printed)) = SubSeq(handed, 1, Len(printed))
    BY <1>1, <1>3, BeginningOfJoin
  <2> QED
    BY <2>1, Zenon DEF NothingIsLost
<1>6. ASSUME link = "up"
      PROVE  /\ printed \o buffer = SubSeq(handed \o t, 1, Len(handed))
             /\ printed \o buffer = handed
  <2>1. Len(handed) - Pending = Len(handed)
    BY <1>1
  <2>2. printed \o buffer = SubSeq(handed, 1, Len(handed))
    BY <1>6, <2>1, Zenon DEF NothingIsLost
  <2>3. SubSeq(handed \o t, 1, Len(handed)) = SubSeq(handed, 1, Len(handed))
    BY <1>1, <1>3, BeginningOfJoin
  <2>4. SubSeq(handed, 1, Len(handed)) = handed
    BY <1>1, WholeSequence
  <2> QED
    BY <2>2, <2>3, <2>4, Zenon
<1> QED
  BY <1>2, <1>4, <1>5, <1>6, Zenon

\* What another client gives.
LEMMA ReadChunkStep ==
    ASSUME IInv, ReadChunk
    PROVE  IInv'
<1>1. /\ TypeOK /\ NothingIsLost /\ Room /\ Printed /\ JobOK
      /\ HeaderOK /\ CountOK /\ FillOK /\ SentOK
  BY DEF IInv, Counts
<1>2. PICK n \in 1..Chunk : /\ handed' = handed \o Numbered(job.src + 1, n)
                            /\ Put(Numbered(job.src + 1, n))
                            /\ Advance(n, Counted(n))
  BY DEF ReadChunk
<1> DEFINE b == Numbered(job.src + 1, n)
           s == job.src
           l == job.left
           w == job.written
           h == Len(handed)
           l2 == job'.left
           w2 == job'.written
<1>3. job.from = "client" /\ job.left > 0 /\ UNCHANGED <<capacity, size, pos, state>>
  BY DEF ReadChunk
<1>4. n \in Nat /\ 1 <= n /\ n <= job.left /\ (capacity > 0 => Len(buffer) + n <= capacity)
  <2>1. /\ Chunk \in Nat /\ 1 <= Chunk /\ Chunk <= job.left
        /\ capacity > 0 => Len(buffer) + Chunk <= capacity
    BY <1>1, <1>3, ChunkFits
  <2>2. n \in Nat /\ 1 <= n /\ n <= Chunk
    BY <1>2, <2>1
  <2> QED
    BY <1>1, <2>1, <2>2, Counters
<1>5. ~Idle /\ Pending = 0 /\ Coming = job.left
  BY <1>3 DEF Idle, Pending, Coming
<1>6. s \in Nat /\ l \in Nat /\ w \in Nat /\ h \in Nat /\ s + 1 \in Nat
  BY <1>1, Counters
<1>7. pos \in Nat /\ size \in Nat /\ HeaderSize \in Nat
  BY <1>1, Counters
<1>8. s <= h /\ (link = "up" => s = h)
  BY <1>1, <1>5, <1>6 DEF JobOK
<1>9. b \in Seq(Nat) /\ Len(b) = n
  BY <1>4, <1>6, NumberedType
<1> HIDE DEF b, s, l, w, h, l2, w2
<1>10. handed' = handed \o b /\ Put(b)
  BY <1>2 DEF b
<1>11. /\ handed' \in Seq(Nat) /\ Len(handed') = h + n
       /\ Len(printed) <= Len(handed') /\ printed = SubSeq(handed', 1, Len(printed))
       /\ link = "up" => printed \o buffer = handed
  <2>1. /\ handed \o b \in Seq(Nat) /\ Len(handed \o b) = Len(handed) + Len(b)
        /\ Len(printed) <= Len(handed \o b)
        /\ printed = SubSeq(handed \o b, 1, Len(printed))
        /\ link = "up" => printed \o buffer = handed
    BY <1>1, <1>5, <1>9, MoreHanded
  <2> QED
    BY <1>9, <1>10, <2>1, Zenon DEF h
<1>12. link = "up" => h + n <= Len(handed') /\ (printed \o buffer) \o b = SubSeq(handed', 1, h + n)
  <2>1. h + n <= Len(handed')
    BY <1>4, <1>6, <1>11
  <2>2. SubSeq(handed', 1, h + n) = handed'
    BY <1>11, WholeSequence, Zenon
  <2> QED
    BY <1>10, <1>11, <2>1, <2>2, Zenon
<1>13. (capacity > 0 => Len(buffer) + Len(b) <= capacity) /\ h + n \in Nat
  BY <1>4, <1>6, <1>9
<1>14. /\ printed' \in Seq(Nat) /\ link' \in {"up", "down"}
       /\ buffer' \in Seq(Nat) /\ Len(buffer') <= capacity
       /\ capacity > 0 => Len(buffer') < capacity
       /\ Len(printed') <= Len(handed') /\ printed' = SubSeq(handed', 1, Len(printed'))
       /\ link' = "up" => link = "up" /\ printed' \o buffer' = SubSeq(handed', 1, h + n)
  <2> DEFINE g == handed'
  <2>1. /\ g \in Seq(Nat) /\ Len(printed) <= Len(g) /\ printed = SubSeq(g, 1, Len(printed))
        /\ link = "up" => h + n <= Len(g) /\ (printed \o buffer) \o b = SubSeq(g, 1, h + n)
    BY <1>11, <1>12
  <2> HIDE DEF g
  <2>2. /\ printed' \in Seq(Nat) /\ link' \in {"up", "down"}
        /\ buffer' \in Seq(Nat) /\ Len(buffer') <= capacity
        /\ capacity > 0 => Len(buffer') < capacity
        /\ Len(printed') <= Len(g) /\ printed' = SubSeq(g, 1, Len(printed'))
        /\ link' = "up" => link = "up" /\ printed' \o buffer' = SubSeq(g, 1, h + n)
    BY <1>1, <1>9, <1>10, <1>13, <2>1, PutInOrder
  <2> QED
    BY <2>2 DEF g
<1>15. /\ job' \in Job /\ job'.from = job.from /\ job'.src = job.src + n
       /\ job'.left \in Nat /\ job'.written \in Nat /\ job'.left <= job.left - n
       /\ job'.written + job'.left <= job.written + job.left
       /\ job'.written <= job.written + n
       /\ link' = "up" => job'.written = job.written + n /\ job'.left = job.left - n
  BY <1>1, <1>2, <1>3, <1>4, AdvanceCounts
<1>16. /\ l2 \in Nat /\ w2 \in Nat /\ l2 <= l - n /\ w2 <= w + n
       /\ link' = "up" => w2 = w + n
  BY <1>15 DEF l, w, l2, w2
<1>17. ~Idle' /\ Pending' = 0 /\ Coming' = job'.left /\ job'.from = "client"
  BY <1>3, <1>15 DEF Idle, Pending, Coming
<1>18. TypeOK'
  BY <1>1, <1>3, <1>11, <1>14, <1>15 DEF TypeOK, Byte
<1>19. Room' /\ Printed'
  BY <1>3, <1>14 DEF Room, Printed
<1>20. JobOK'
  <2>1. (s + n) + 0 <= h + n
    BY <1>4, <1>6, <1>8
  <2>2. link' = "up" => (s + n) + 0 = h + n
    BY <1>4, <1>6, <1>8, <1>14
  <2> QED
    BY <1>11, <1>15, <1>17, <2>1, <2>2 DEF JobOK, s
<1>21. NothingIsLost'
  <2>1. h + n - 0 = h + n
    BY <1>4, <1>6
  <2>2. Len(handed') - Pending' = h + n
    BY <1>11, <1>17, <2>1
  <2> QED
    BY <1>14, <2>2, Zenon DEF NothingIsLost
<1>22. HeaderOK' /\ FillOK'
  BY <1>17 DEF HeaderOK, FillOK
<1>23. CountOK'
  <2>1. ASSUME state = "ok"
        PROVE  HeaderSize + pos + w2 + 0 <= h + n /\ (h + n) + l2 <= HeaderSize + size
    <3>1. HeaderSize + pos + w + 0 <= h /\ h + l <= HeaderSize + size
      BY <1>1, <1>3, <1>5, <2>1 DEF CountOK, w, l, h
    <3> QED
      BY <1>4, <1>6, <1>7, <1>16, <3>1
  <2>2. ASSUME link' = "up"
        PROVE  HeaderSize + pos + w2 + 0 = h + n
    <3>1. HeaderSize + pos + w + 0 = h
      BY <1>1, <1>3, <1>5, <1>14, <2>2 DEF CountOK, w, h
    <3> QED
      BY <1>4, <1>6, <1>7, <1>16, <2>2, <3>1
  <2> QED
    BY <1>3, <1>11, <1>17, <2>1, <2>2 DEF CountOK, w2, l2
<1>24. SentOK'
  BY <1>1, <1>3, <1>5 DEF SentOK
<1> QED
  BY <1>18, <1>19, <1>20, <1>21, <1>22, <1>23, <1>24 DEF IInv, Counts

\* It gives no more.
LEMMA ReadEndsStep ==
    ASSUME IInv, ReadEnds
    PROVE  IInv'
<1>1. /\ TypeOK /\ NothingIsLost /\ Room /\ Printed /\ JobOK
      /\ HeaderOK /\ CountOK /\ FillOK /\ SentOK
  BY DEF IInv, Counts
<1>2. /\ job.from = "client" /\ job' = [job EXCEPT !.left = 0]
      /\ UNCHANGED <<capacity, size, pos, buffer, state, link, printed, handed>>
  BY DEF ReadEnds
<1>3. /\ job' \in Job /\ job'.from = "client" /\ job'.src = job.src
      /\ job'.left = 0 /\ job'.written = job.written
  BY <1>1, <1>2, Counters DEF Job
<1>4. /\ ~Idle /\ Pending = 0 /\ Coming = job.left
      /\ ~Idle' /\ Pending' = 0 /\ Coming' = 0
  BY <1>2, <1>3 DEF Idle, Pending, Coming
<1>5. TypeOK' /\ NothingIsLost' /\ Room' /\ Printed'
  BY <1>1, <1>2, <1>3, <1>4 DEF TypeOK, NothingIsLost, Room, Printed
<1>6. JobOK' /\ HeaderOK' /\ FillOK' /\ SentOK'
  BY <1>1, <1>2, <1>3, <1>4 DEF JobOK, HeaderOK, FillOK, SentOK
<1>7. CountOK'
  <2>1. ASSUME state = "ok"
        PROVE  Len(handed) + 0 <= HeaderSize + size
    <3>1. Len(handed) + job.left <= HeaderSize + size
      BY <1>1, <1>2, <1>4, <2>1 DEF CountOK
    <3> QED
      BY <1>1, <3>1, Counters
  <2> QED
    BY <1>1, <1>2, <1>3, <1>4, <2>1 DEF CountOK
<1> QED
  BY <1>5, <1>6, <1>7 DEF IInv, Counts

\* A call returns.
LEMMA ReturnsStep ==
    ASSUME IInv, Returns
    PROVE  IInv'
<1>1. /\ TypeOK /\ NothingIsLost /\ Room /\ Printed /\ JobOK
      /\ HeaderOK /\ CountOK /\ FillOK /\ SentOK
  BY DEF IInv, Counts
<1>2. /\ job.from \in {"header", "memory", "flash", "client"} /\ job.left = 0
      /\ pos' = (IF job.from = "header" THEN 0 ELSE pos + job.written)
      /\ job' = NoJob
      /\ UNCHANGED <<capacity, size, buffer, state, link, printed, handed>>
  BY DEF Returns
<1>3. /\ job' \in Job /\ job'.from = "none" /\ job'.left = 0 /\ job'.written = 0
  BY <1>2 DEF NoJob, Job, Sources
<1>4. /\ ~Idle /\ Pending = 0 /\ Coming = 0
      /\ Idle' /\ Pending' = 0 /\ Coming' = 0
  BY <1>2, <1>3 DEF Idle, Pending, Coming
<1>5. state = "ok"
  BY <1>1, <1>4 DEF SentOK, TypeOK
<1>6. /\ HeaderSize + pos' <= Len(handed) /\ Len(handed) <= HeaderSize + size
      /\ link = "up" => HeaderSize + pos' = Len(handed)
  <2>1. CASE job.from = "header"
    <3>1. Len(handed) = HeaderSize /\ pos' = 0
      BY <1>1, <1>2, <2>1 DEF HeaderOK
    <3> QED
      BY <1>1, <3>1, Counters
  <2>2. CASE job.from # "header"
    <3>1. /\ HeaderSize + pos + job.written + 0 <= Len(handed)
          /\ Len(handed) + 0 <= HeaderSize + size
          /\ link = "up" => HeaderSize + pos + job.written + 0 = Len(handed)
      BY <1>1, <1>2, <1>4, <1>5, <2>2 DEF CountOK
    <3> DEFINE w == job.written
               h == Len(handed)
    <3>2. pos \in Nat /\ w \in Nat /\ h \in Nat /\ HeaderSize \in Nat /\ size \in Nat
      BY <1>1, Counters
    <3>3. pos' = pos + w
      BY <1>2, <2>2
    <3>4. /\ HeaderSize + pos + w + 0 <= h /\ h + 0 <= HeaderSize + size
          /\ link = "up" => HeaderSize + pos + w + 0 = h
      BY <3>1
    <3> HIDE DEF w, h
    <3>5. /\ HeaderSize + pos' <= h /\ h <= HeaderSize + size
          /\ link = "up" => HeaderSize + pos' = h
      BY <3>2, <3>3, <3>4
    <3> QED
      BY <3>5 DEF h
  <2> QED
    BY <2>1, <2>2
<1>7. pos' \in Nat
  BY <1>1, <1>2, Counters
<1>8. pos' \in 0..size
  <2>1. HeaderSize \in Nat /\ size \in Nat /\ Len(handed) \in Nat
    BY <1>1, Counters
  <2> QED
    BY <1>6, <1>7, <2>1
<1>9. TypeOK' /\ NothingIsLost' /\ Room' /\ Printed'
  BY <1>1, <1>2, <1>3, <1>4, <1>8 DEF TypeOK, NothingIsLost, Room, Printed
<1>10. JobOK' /\ HeaderOK' /\ FillOK' /\ SentOK'
  BY <1>2, <1>3, <1>4, <1>5 DEF JobOK, HeaderOK, FillOK, SentOK
<1>11. CountOK'
  <2>1. /\ HeaderSize + pos' + 0 + 0 <= Len(handed) /\ Len(handed) + 0 <= HeaderSize + size
        /\ link = "up" => HeaderSize + pos' + 0 + 0 = Len(handed)
    <3> DEFINE h == Len(handed)
               p == pos'
    <3>1. h \in Nat /\ HeaderSize \in Nat /\ size \in Nat /\ p \in Nat
      BY <1>1, <1>7, Counters
    <3>2. /\ HeaderSize + p <= h /\ h <= HeaderSize + size
          /\ link = "up" => HeaderSize + p = h
      BY <1>6
    <3> HIDE DEF h, p
    <3>3. HeaderSize + p + 0 + 0 = HeaderSize + p /\ h + 0 = h
      BY <3>1
    <3> QED
      BY <3>2, <3>3 DEF h, p
  <2> QED
    BY <1>2, <1>3, <1>4, <2>1 DEF CountOK
<1> QED
  BY <1>9, <1>10, <1>11 DEF IInv, Counts

\* flush() between calls.
LEMMA FlushNowStep ==
    ASSUME IInv, FlushNow
    PROVE  IInv'
<1>1. /\ TypeOK /\ NothingIsLost /\ Room /\ Printed /\ JobOK
      /\ HeaderOK /\ CountOK /\ FillOK /\ SentOK
  BY DEF IInv, Counts
<1>2. /\ Idle /\ Flush /\ state = "ok"
      /\ UNCHANGED <<capacity, size, pos, state, handed, job>>
  BY DEF FlushNow
<1>3. Pending' = Pending /\ Coming' = Coming /\ (Idle' <=> Idle) /\ Pending = 0
  BY <1>1, <1>2 DEF Pending, Coming, Idle, JobOK
<1>4. Len(handed) - Pending = Len(handed) /\ Len(handed) \in Nat /\ handed \in Seq(Nat)
  BY <1>1, <1>3, Counters
<1>5. link = "up" => Len(handed) <= Len(handed) /\ printed \o buffer = SubSeq(handed, 1, Len(handed))
  BY <1>1, <1>4 DEF NothingIsLost
<1>6. Len(printed) <= Len(handed) /\ printed = SubSeq(handed, 1, Len(printed))
  BY <1>1 DEF Printed, NothingIsLost
<1>7. /\ printed' \in Seq(Nat) /\ link' \in {"up", "down"}
      /\ buffer' = <<>> /\ buffer' \in Seq(Nat) /\ Len(buffer') = 0
      /\ Len(printed') <= Len(handed) /\ printed' = SubSeq(handed, 1, Len(printed'))
      /\ link' = "up" => link = "up" /\ printed' \o buffer' = SubSeq(handed, 1, Len(handed))
  BY <1>1, <1>2, <1>4, <1>5, <1>6, FlushInOrder
<1>8. Len(buffer') <= capacity /\ (capacity > 0 => Len(buffer') < capacity)
  BY <1>1, <1>7, Counters
<1>9. TypeOK'
  BY <1>1, <1>2, <1>7, <1>8 DEF TypeOK, Byte
<1>10. NothingIsLost'
  BY <1>2, <1>3, <1>4, <1>7, Zenon DEF NothingIsLost
<1>11. Room' /\ Printed'
  BY <1>2, <1>7, <1>8 DEF Room, Printed
<1>12. JobOK' /\ HeaderOK' /\ CountOK' /\ FillOK' /\ SentOK'
  BY <1>1, <1>2, <1>3, <1>7 DEF JobOK, HeaderOK, CountOK, FillOK, SentOK
<1> QED
  BY <1>9, <1>10, <1>11, <1>12 DEF IInv, Counts

\* send() ends.
LEMMA SendEndsStep ==
    ASSUME IInv, SendEnds
    PROVE  IInv'
<1>1. /\ TypeOK /\ NothingIsLost /\ Room /\ Printed /\ JobOK
      /\ HeaderOK /\ CountOK /\ FillOK /\ SentOK
  BY DEF IInv, Counts
<1>2. /\ job.from = "fill" /\ job.left = 0 /\ pos' = pos + job.written
      /\ Flush /\ state' = "sent" /\ job' = NoJob
      /\ UNCHANGED <<capacity, size, handed>>
  BY DEF SendEnds
<1>3. /\ job' \in Job /\ job'.from = "none" /\ job'.left = 0 /\ job'.written = 0
  BY <1>2 DEF NoJob, Job, Sources
<1>4. Pending = 0 /\ Pending' = 0 /\ Coming' = 0 /\ Idle'
  BY <1>2, <1>3 DEF Pending, Coming, Idle
<1>5. Len(handed) - Pending = Len(handed) /\ Len(handed) \in Nat /\ handed \in Seq(Nat)
  BY <1>1, <1>4, Counters
<1>6. link = "up" => Len(handed) <= Len(handed) /\ printed \o buffer = SubSeq(handed, 1, Len(handed))
  BY <1>1, <1>5 DEF NothingIsLost
<1>7. Len(printed) <= Len(handed) /\ printed = SubSeq(handed, 1, Len(printed))
  BY <1>1 DEF Printed, NothingIsLost
<1>8. /\ printed' \in Seq(Nat) /\ link' \in {"up", "down"}
      /\ buffer' = <<>> /\ buffer' \in Seq(Nat) /\ Len(buffer') = 0
      /\ Len(printed') <= Len(handed) /\ printed' = SubSeq(handed, 1, Len(printed'))
      /\ link' = "up" => link = "up" /\ printed' \o buffer' = SubSeq(handed, 1, Len(handed))
  BY <1>1, <1>2, <1>5, <1>6, <1>7, FlushInOrder
<1>9. Len(buffer') <= capacity /\ (capacity > 0 => Len(buffer') < capacity)
  BY <1>1, <1>8, Counters
<1>10. pos' \in 0..size /\ (link = "up" => pos' = size /\ HeaderSize + pos' + 0 + 0 = Len(handed))
  <2>1. /\ pos + job.written + 0 <= size
        /\ link = "up" => /\ pos + job.written + 0 = size
                          /\ HeaderSize + pos + job.written + 0 = Len(handed)
    BY <1>1, <1>2, <1>4 DEF FillOK, CountOK
  <2>2. /\ pos \in Nat /\ job.written \in Nat /\ size \in Nat /\ HeaderSize \in Nat
        /\ Len(handed) \in Nat
    BY <1>1, Counters
  <2> QED
    BY <1>2, <2>1, <2>2
<1>11. TypeOK'
  BY <1>1, <1>2, <1>3, <1>8, <1>9, <1>10 DEF TypeOK, Byte
<1>12. NothingIsLost'
  BY <1>2, <1>4, <1>5, <1>8, Zenon DEF NothingIsLost
<1>13. Room' /\ Printed'
  BY <1>2, <1>8, <1>9 DEF Room, Printed
<1>14. JobOK' /\ HeaderOK' /\ CountOK' /\ FillOK' /\ SentOK'
  BY <1>2, <1>3, <1>4, <1>8, <1>10 DEF JobOK, HeaderOK, CountOK, FillOK, SentOK
<1> QED
  BY <1>11, <1>12, <1>13, <1>14 DEF IInv, Counts

\* A call begins: bytes are handed over behind those before them.
LEMMA CallBegins ==
    ASSUME IInv, Idle, state = "ok", NEW t \in Seq(Nat),
           job' = NewJob(job'.from, Len(t)), job'.from \in {"memory", "flash", "fill"},
           handed' = handed \o t,
           job'.from = "fill" => Len(t) = size - pos,
           job'.from # "fill" => Len(handed) + Len(t) <= HeaderSize + size,
           UNCHANGED <<capacity, size, pos, buffer, state, link, printed>>
    PROVE  IInv'
<1> DEFINE n == Len(t)
           h == Len(handed)
<1>1. /\ TypeOK /\ NothingIsLost /\ Room /\ Printed /\ JobOK
      /\ HeaderOK /\ CountOK /\ FillOK /\ SentOK
  BY DEF IInv, Counts
<1>2. n \in Nat /\ h \in Nat /\ pos \in Nat /\ size \in Nat /\ HeaderSize \in Nat
  BY <1>1, Counters, LenProperties
<1>3. job.left = 0 /\ job.written = 0 /\ job.from = "none" /\ Pending = 0 /\ Coming = 0
  BY <1>1 DEF JobOK, Idle, Pending, Coming
<1>4. /\ job'.from \in {"memory", "flash", "fill"} /\ job'.src = h
      /\ job'.left = n /\ job'.written = 0 /\ job' \in Job
  BY <1>2 DEF NewJob, Job, Sources
<1>5. ~Idle' /\ Pending' = n /\ Coming' = 0
  BY <1>4 DEF Idle, Pending, Coming
<1>6. /\ handed' \in Seq(Nat) /\ Len(handed') = h + n
      /\ Len(printed) <= Len(handed') /\ printed = SubSeq(handed', 1, Len(printed))
      /\ link = "up" => printed \o buffer = SubSeq(handed', 1, h)
  <2>1. /\ handed \o t \in Seq(Nat) /\ Len(handed \o t) = Len(handed) + Len(t)
        /\ Len(printed) <= Len(handed \o t)
        /\ printed = SubSeq(handed \o t, 1, Len(printed))
        /\ link = "up" => printed \o buffer = SubSeq(handed \o t, 1, Len(handed))
    BY <1>1, <1>3, MoreHanded
  <2> QED
    BY <2>1, Zenon
<1>7. HeaderSize + pos <= h /\ h <= HeaderSize + size /\ (link = "up" => HeaderSize + pos = h)
  <2>1. /\ HeaderSize + pos + 0 + 0 <= h /\ h + 0 <= HeaderSize + size
        /\ link = "up" => HeaderSize + pos + 0 + 0 = h
    BY <1>1, <1>3 DEF CountOK
  <2> QED
    BY <1>2, <2>1
<1>8. /\ job'.from = "fill" => n = size - pos
      /\ job'.from # "fill" => h + n <= HeaderSize + size
  OBVIOUS
<1> HIDE DEF n, h
<1>9. TypeOK' /\ Room' /\ Printed'
  BY <1>1, <1>4, <1>6 DEF TypeOK, Byte, Room, Printed
<1>10. NothingIsLost'
  <2>1. (h + n) - n = h
    BY <1>2
  <2>2. Len(handed') - Pending' = h
    <3>1. Len(handed') = h + n /\ Pending' = n
      BY <1>5, <1>6
    <3>2. Len(handed') - Pending' = (h + n) - n
      BY <3>1
    <3> QED
      BY <2>1, <3>2
  <2> QED
    BY <1>6, <2>2, Zenon DEF NothingIsLost
<1>11. JobOK'
  BY <1>2, <1>4, <1>5, <1>6 DEF JobOK
<1>12. HeaderOK' /\ SentOK'
  BY <1>4 DEF HeaderOK, SentOK
<1>13. CountOK'
  <2>1. HeaderSize + pos + 0 + n <= h + n
    BY <1>2, <1>7
  <2>2. link = "up" => HeaderSize + pos + 0 + n = h + n
    BY <1>2, <1>7
  <2>3. job'.from # "fill" => h + n + 0 <= HeaderSize + size
    BY <1>2, <1>8
  <2> QED
    BY <1>4, <1>5, <1>6, <2>1, <2>2, <2>3 DEF CountOK
<1>14. FillOK'
  <2>1. ASSUME job'.from = "fill" PROVE pos + 0 + n = size
    BY <1>2, <1>8, <2>1
  <2>2. size <= size
    BY <1>2
  <2> QED
    BY <1>4, <2>1, <2>2 DEF FillOK
<1> QED
  BY <1>9, <1>10, <1>11, <1>12, <1>13, <1>14 DEF IInv, Counts

\* Bytes of another client are handed over as they come.
LEMMA CallToReadBegins ==
    ASSUME IInv, Idle, state = "ok", NEW n \in Nat, Len(handed) + n <= HeaderSize + size,
           job' = NewJob("client", n),
           UNCHANGED <<capacity, size, pos, buffer, state, link, printed, handed>>
    PROVE  IInv'
<1>1. /\ TypeOK /\ NothingIsLost /\ Room /\ Printed /\ JobOK
      /\ HeaderOK /\ CountOK /\ FillOK /\ SentOK
  BY DEF IInv, Counts
<1>2. /\ job'.from = "client" /\ job'.src = Len(handed)
      /\ job'.left = n /\ job'.written = 0 /\ job' \in Job
  BY <1>1, Counters DEF NewJob, Job, Sources
<1>3. /\ job.left = 0 /\ job.written = 0 /\ job.from = "none" /\ Pending = 0 /\ Coming = 0
      /\ ~Idle' /\ Pending' = 0 /\ Coming' = n
  BY <1>1, <1>2 DEF JobOK, Idle, Pending, Coming
<1>4. TypeOK' /\ NothingIsLost' /\ Room' /\ Printed'
  BY <1>1, <1>2, <1>3 DEF TypeOK, NothingIsLost, Room, Printed
<1>5. JobOK'
  <2>1. Len(handed) + 0 = Len(handed) /\ Len(handed) + 0 <= Len(handed)
    BY <1>1, Counters
  <2> QED
    BY <1>2, <1>3, <2>1 DEF JobOK
<1>6. HeaderOK' /\ FillOK' /\ SentOK'
  BY <1>2 DEF HeaderOK, FillOK, SentOK
<1>7. CountOK'
  <2>1. /\ HeaderSize + pos + 0 + 0 <= Len(handed)
        /\ link = "up" => HeaderSize + pos + 0 + 0 = Len(handed)
    BY <1>1, <1>3 DEF CountOK
  <2> QED
    BY <1>2, <1>3, <2>1 DEF CountOK
<1> QED
  BY <1>4, <1>5, <1>6, <1>7 DEF IInv, Counts

-----------------------------------------------------------------------------
(* Theorems.                                                                *)

LEMMA InitHolds ==
    ASSUME Init
    PROVE  IInv
<1>1. /\ capacity \in Nat /\ size \in Nat /\ HeaderSize \in Nat /\ HeaderSize > 0
      /\ capacity \in Capacities /\ size \in Sizes
  BY OutgoingAssumption DEF Init
<1>2. handed \in Seq(Nat) /\ Len(handed) = HeaderSize
  BY <1>1, NumberedType DEF Init
<1>3. /\ buffer = <<>> /\ buffer \in Seq(Nat) /\ Len(buffer) = 0
      /\ printed = <<>> /\ printed \in Seq(Nat) /\ Len(printed) = 0
  BY EmptySeq DEF Init
<1>4. /\ job.from = "header" /\ job.src = 0 /\ job.left = HeaderSize /\ job.written = 0
      /\ job \in Job /\ pos = 0 /\ state = "ok" /\ link = "up"
  BY <1>1 DEF Init, Job, Sources
<1>5. ~Idle /\ Pending = HeaderSize
  BY <1>4 DEF Idle, Pending
<1>6. TypeOK
  BY <1>1, <1>2, <1>3, <1>4 DEF TypeOK, Byte
<1>7. NothingIsLost
  <2>1. Len(handed) - Pending = 0
    BY <1>1, <1>2, <1>5
  <2>2. SubSeq(handed, 1, 0) = <<>>
    BY SubSeqEmpty
  <2>3. printed \o buffer = <<>>
    BY <1>3, ConcatEmptySeq
  <2> QED
    BY <1>3, <2>1, <2>2, <2>3, Zenon DEF NothingIsLost
<1>8. Room /\ Printed
  BY <1>1, <1>2, <1>3 DEF Room, Printed
<1>9. JobOK /\ HeaderOK /\ CountOK /\ FillOK /\ SentOK
  BY <1>1, <1>2, <1>4, <1>5 DEF JobOK, HeaderOK, CountOK, FillOK, SentOK
<1> QED
  BY <1>6, <1>7, <1>8, <1>9 DEF IInv, Counts

LEMMA StepKeeps ==
    ASSUME IInv, [Next]_vars
    PROVE  IInv'
<1>1. CASE WriteChunk
  BY <1>1, WriteChunkStep
<1>2. CASE ReadChunk
  BY <1>2, ReadChunkStep
<1>3. CASE ReadEnds
  BY <1>3, ReadEndsStep
<1>4. CASE Returns
  BY <1>4, ReturnsStep
<1>5. CASE SendEnds
  BY <1>5, SendEndsStep
<1>6. CASE FlushNow
  BY <1>6, FlushNowStep
<1>7. CASE Send
  <2>1. size \in Nat /\ pos \in Nat /\ pos <= size
    BY Counters DEF IInv
  <2>2. Remaining = size - pos /\ Remaining \in Nat
    BY <2>1 DEF Remaining
  <2>3. Zeros(Remaining) \in Seq(Nat) /\ Len(Zeros(Remaining)) = Remaining
    BY <2>2, ZerosType
  <2>4. /\ Idle /\ state = "ok" /\ job' = NewJob("fill", Remaining)
        /\ handed' = handed \o Zeros(Remaining)
        /\ UNCHANGED <<capacity, size, pos, buffer, state, link, printed>>
    BY <1>7 DEF Send
  <2>5. job'.from = "fill"
    BY <2>4 DEF NewJob
  <2> QED
    BY <2>2, <2>3, <2>4, <2>5, CallBegins
<1>8. ASSUME NEW from \in {"memory", "flash", "client"}, NEW n \in 1..size, Write(from, n)
      PROVE  IInv'
  <2>1. /\ Idle /\ state = "ok" /\ Len(handed) + n <= HeaderSize + size
        /\ job' = NewJob(from, n)
        /\ handed' = (IF from = "client" THEN handed
                      ELSE handed \o Numbered(Len(handed) + 1, n))
        /\ UNCHANGED <<capacity, size, pos, buffer, state, link, printed>>
    BY <1>8 DEF Write
  <2>2. n \in Nat /\ Len(handed) + 1 \in Nat
    BY Counters DEF IInv
  <2>3. CASE from = "client"
    BY <2>1, <2>2, <2>3, CallToReadBegins
  <2>4. CASE from # "client"
    <3> DEFINE t == Numbered(Len(handed) + 1, n)
    <3>1. t \in Seq(Nat) /\ Len(t) = n
      BY <2>2, NumberedType
    <3>2. job'.from = from
      BY <2>1 DEF NewJob
    <3>3. handed' = handed \o t
      BY <2>1, <2>4
    <3> HIDE DEF t
    <3>4. job'.from \in {"memory", "flash", "fill"} /\ job'.from # "fill"
      BY <2>4, <3>2
    <3> QED
      BY <2>1, <3>1, <3>2, <3>3, <3>4, CallBegins
  <2> QED
    BY <2>3, <2>4
<1>9. CASE UNCHANGED vars
  BY <1>9 DEF vars, IInv, TypeOK, NothingIsLost, Counts, Room, Printed, JobOK, HeaderOK,
      CountOK, FillOK, SentOK, Pending, Coming, Idle
<1> QED
  BY <1>1, <1>2, <1>3, <1>4, <1>5, <1>6, <1>7, <1>8, <1>9 DEF Next, Working

\* The inductive invariant of OutgoingPacket.
THEOREM Invariance == Spec => []IInv
<1>1. Init => IInv
  BY InitHolds
<1>2. IInv /\ [Next]_vars => IInv'
  BY StepKeeps
<1> QED
  BY <1>1, <1>2, PTL DEF Spec

\* The buffer is not overrun, and no more is counted than was declared
\* (OutgoingPacket::write, write_from_client), for every size of the buffer.
THEOREM TypeAlways == Spec => []TypeOK
<1>1. IInv => TypeOK
  BY DEF IInv
<1> QED
  BY <1>1, Invariance, PTL

\* Wherever chunks end and the buffer is flushed, no byte is lost, repeated or out
\* of order, for buffers and packets of every size, unbuffered builds included.
THEOREM NothingIsLostAlways == Spec => []NothingIsLost
<1>1. IInv => NothingIsLost
  BY DEF IInv
<1> QED
  BY <1>1, Invariance, PTL

\* send() makes every packet as long as declared, over a connection that works,
\* however early its source gave out (OutgoingPacket::send, write_zero).
THEOREM SentIsWholeAlways == Spec => []SentIsWhole
<1>1. ASSUME IInv PROVE SentIsWhole
  <2>1. TypeOK /\ NothingIsLost /\ JobOK /\ CountOK /\ SentOK
    BY <1>1 DEF IInv, Counts
  <2>2. ASSUME state = "sent", link = "up"
        PROVE  Len(printed) = HeaderSize + size
    <3>1. Idle /\ buffer = <<>> /\ pos = size /\ job.left = 0 /\ job.written = 0
      BY <2>1, <2>2 DEF SentOK, JobOK
    <3>2. job.from = "none" /\ Pending = 0
      BY <3>1 DEF Idle, Pending
    <3>3. HeaderSize + size + 0 + 0 = Len(handed)
      BY <2>1, <2>2, <3>1, <3>2 DEF CountOK
    <3>4. /\ Len(handed) \in Nat /\ handed \in Seq(Nat) /\ printed \in Seq(Nat)
          /\ size \in Nat /\ HeaderSize \in Nat
      BY <2>1, Counters
    <3>5. Len(handed) - Pending = Len(handed)
      BY <3>2, <3>4
    <3>6. printed \o buffer = SubSeq(handed, 1, Len(handed))
      BY <2>1, <2>2, <3>5, Zenon DEF NothingIsLost
    <3>7. printed \o buffer = printed
      BY <3>1, <3>4, ConcatEmptySeq
    <3>8. SubSeq(handed, 1, Len(handed)) = handed
      BY <3>4, WholeSequence
    <3>9. printed = handed
      BY <3>6, <3>7, <3>8, Zenon
    <3> QED
      BY <3>3, <3>4, <3>9
  <2> QED
    BY <2>2 DEF SentIsWhole
<1> QED
  BY <1>1, Invariance, PTL
=============================================================================
