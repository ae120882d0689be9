------------------------------- MODULE Outgoing -------------------------------
(***************************************************************************)
(* One OutgoingPacket (outgoing_packet.cpp), from its header to send(), over *)
(* a socket that may fail at any write (client_wrapper.cpp).  What is handed  *)
(* over comes from memory, from flash, or from another client in the pieces   *)
(* it arrives in; it is cut at the ends of the buffer, or, in a build without  *)
(* one, of a scratch buffer; send() fills up what is missing.                 *)
(*                                                                         *)
(* A byte is its number among those handed over, or 0 if send() made it up,   *)
(* so that one that is lost, repeated or out of place shows.                 *)
(***************************************************************************)
EXTENDS Naturals, Sequences

CONSTANTS
    Capacities,     \* values of PICOMQTT_OUTGOING_BUFFER_SIZE; 0 is unbuffered
    ScratchSize,    \* size of the local buffers of an unbuffered build (128)
    HeaderSize,     \* bytes of a header
    Sizes           \* sizes of packets, without their header

ASSUME OutgoingAssumption ==
    /\ Capacities \subseteq Nat /\ Sizes \subseteq Nat
    /\ ScratchSize \in Nat \ {0} /\ HeaderSize \in Nat \ {0}

VARIABLES
    capacity,   \* PICOMQTT_OUTGOING_BUFFER_SIZE of this build
    size,       \* declared size
    pos,        \* bytes written, as the packet counts them
    buffer,     \* what is buffered
    state,      \* "ok" or "sent"
    link,       \* "up", or "down" once a write has failed
    printed,    \* what the socket has taken
    handed,     \* bytes handed over, the header and fillers included
    job         \* the call in progress: where its bytes come from, how many of
                \* `handed' have been used, how many are left, how many count

vars == <<capacity, size, pos, buffer, state, link, printed, handed, job>>

Byte == Nat
Sources == {"none", "header", "memory", "flash", "client", "fill"}
Job == [from : Sources, src : Nat, left : Nat, written : Nat]

NewJob(from, n) == [from |-> from, src |-> Len(handed), left |-> n, written |-> 0]
NoJob == [from |-> "none", src |-> 0, left |-> 0, written |-> 0]

Numbered(first, n) == [k \in 1..n |-> first + k - 1]
Zeros(n) == [k \in 1..n |-> 0]

\* write_header() comes first.
Init ==
    /\ capacity \in Capacities /\ size \in Sizes
    /\ pos = 0 /\ buffer = <<>> /\ state = "ok" /\ link = "up" /\ printed = <<>>
    /\ handed = Numbered(1, HeaderSize)
    /\ job = [from |-> "header", src |-> 0, left |-> HeaderSize, written |-> 0]

Least(a, b) == IF a < b THEN a ELSE b
Remaining == IF pos < size THEN size - pos ELSE 0
Idle == job.from = "none"

-----------------------------------------------------------------------------
(* The socket.                                                              *)

\* ClientWrapper::write takes all of the bytes or fails after some of them, and
\* the connection is aborted.
SocketWrite(bytes) ==
    \/ link = "up" /\ printed' = printed \o bytes /\ link' = "up"
    \/ /\ link = "up" /\ link' = "down"
       /\ \E k \in 0..(Len(bytes) - 1) : printed' = printed \o SubSeq(bytes, 1, k)
    \/ link = "down" /\ UNCHANGED <<link, printed>>

\* Mutant: the buffer is kept.
Flush_KeepsBuffer == SocketWrite(buffer) /\ UNCHANGED buffer

Flush == SocketWrite(buffer) /\ buffer' = <<>>

\* Mutant: a full buffer is flushed when more comes.
Store_Late(bytes) ==
    IF Len(buffer \o bytes) > capacity THEN SocketWrite(buffer \o bytes) /\ buffer' = <<>>
    ELSE buffer' = buffer \o bytes /\ UNCHANGED <<link, printed>>

\* A chunk is appended to the buffer, which is flushed when it is full.
Store(bytes) ==
    IF Len(buffer \o bytes) >= capacity THEN SocketWrite(buffer \o bytes) /\ buffer' = <<>>
    ELSE buffer' = buffer \o bytes /\ UNCHANGED <<link, printed>>

-----------------------------------------------------------------------------
(* One round of the loops that write.                                       *)

\* The header and the fillers are written one byte to a call.
ByteByByte == {"header", "fill"}

\* `n' bytes of the job are done, of which `counted' are counted; an unbuffered
\* write that fails ends it, but not what is written byte by byte.
Advance(n, counted) ==
    job' = [job EXCEPT !.src = @ + n, !.written = @ + counted,
                       !.left = IF counted < n /\ job.from \notin ByteByByte THEN 0
                                ELSE @ - n]

Counted(n) == IF capacity = 0 /\ link' = "down" THEN 0 ELSE n

\* How much one round takes, at most.
Chunk ==
    LET limit == CASE capacity > 0 -> capacity - Len(buffer)
                   [] capacity = 0 /\ job.from \in {"flash", "client"} -> ScratchSize
                   [] OTHER -> job.left
    IN  Least(IF job.from \in ByteByByte THEN 1 ELSE job.left, limit)

Put(bytes) == IF capacity > 0 THEN Store(bytes) ELSE SocketWrite(bytes) /\ UNCHANGED buffer

\* Mutant: the source is not moved on.
WriteChunk_KeepsSource ==
    /\ job.from \in {"header", "memory", "flash", "fill"} /\ job.left > 0
    /\ Put(SubSeq(handed, job.src + 1, job.src + Chunk))
    /\ job' = [job EXCEPT !.written = @ + Chunk, !.left = @ - Chunk]
    /\ UNCHANGED <<capacity, size, pos, state, handed>>

\* write(data, remaining, memcpy_fn), write_P, write_u8
WriteChunk ==
    /\ job.from \in {"header", "memory", "flash", "fill"} /\ job.left > 0
    /\ Put(SubSeq(handed, job.src + 1, job.src + Chunk))
    /\ Advance(Chunk, Counted(Chunk))
    /\ UNCHANGED <<capacity, size, pos, state, handed>>

\* write_from_client: the other client gives some of the bytes asked for.
ReadChunk ==
    /\ job.from = "client" /\ job.left > 0
    /\ \E c \in 1..Chunk :
          /\ handed' = handed \o Numbered(job.src + 1, c)
          /\ Put(Numbered(job.src + 1, c))
          /\ Advance(c, Counted(c))
    /\ UNCHANGED <<capacity, size, pos, state>>

\* It gives none, and the loop ends.
ReadEnds ==
    /\ job.from = "client" /\ job.left > 0
    /\ job' = [job EXCEPT !.left = 0]
    /\ UNCHANGED <<capacity, size, pos, buffer, state, link, printed, handed>>

\* Mutant: what follows the header is not counted from 0 on.
Returns_CountsHeader ==
    /\ job.from \in {"header", "memory", "flash", "client"} /\ job.left = 0
    /\ pos' = pos + job.written
    /\ job' = NoJob
    /\ UNCHANGED <<capacity, size, buffer, state, link, printed, handed>>

\* The call returns.  What follows the header is counted from 0 on.
Returns ==
    /\ job.from \in {"header", "memory", "flash", "client"} /\ job.left = 0
    /\ pos' = IF job.from = "header" THEN 0 ELSE pos + job.written
    /\ job' = NoJob
    /\ UNCHANGED <<capacity, size, buffer, state, link, printed, handed>>

-----------------------------------------------------------------------------
(* What callers do.                                                         *)

\* The caller writes n bytes; in total no more than it has declared.
Write(from, n) ==
    /\ Idle /\ state = "ok" /\ Len(handed) + n <= HeaderSize + size
    /\ job' = NewJob(from, n)
    /\ handed' = IF from = "client" THEN handed ELSE handed \o Numbered(Len(handed) + 1, n)
    /\ UNCHANGED <<capacity, size, pos, buffer, state, link, printed>>

\* flush() is public.
FlushNow ==
    /\ Idle /\ state = "ok" /\ buffer # <<>>
    /\ Flush
    /\ UNCHANGED <<capacity, size, pos, state, handed, job>>

\* send(), called once: what is missing is filled up,
Send ==
    /\ Idle /\ state = "ok"
    /\ job' = NewJob("fill", Remaining)
    /\ handed' = handed \o Zeros(Remaining)
    /\ UNCHANGED <<capacity, size, pos, buffer, state, link, printed>>

\* and the rest of the buffer flushed.
SendEnds ==
    /\ job.from = "fill" /\ job.left = 0
    /\ pos' = pos + job.written
    /\ Flush
    /\ state' = "sent" /\ job' = NoJob
    /\ UNCHANGED <<capacity, size, handed>>

Working == WriteChunk \/ ReadChunk \/ ReadEnds \/ Returns \/ SendEnds

Next ==
    \/ Working \/ FlushNow \/ Send
    \/ \E from \in {"memory", "flash", "client"}, n \in 1..size : Write(from, n)

\* Calls run to their end.
Spec == Init /\ [][Next]_vars /\ WF_vars(Working)

-----------------------------------------------------------------------------
(* Properties.                                                              *)

TypeOK ==
    /\ capacity \in Capacities /\ size \in Sizes /\ pos \in 0..size
    /\ buffer \in Seq(Byte) /\ Len(buffer) <= capacity
    /\ state \in {"ok", "sent"} /\ link \in {"up", "down"}
    /\ printed \in Seq(Byte) /\ handed \in Seq(Byte) /\ job \in Job

\* Bytes of the job in progress that have been handed over and not used yet.
Pending == IF job.from = "client" THEN 0 ELSE job.left

\* Wherever chunks end and the buffer is flushed, no byte is lost, repeated or
\* out of order: the socket has a beginning of what was handed over, and while it
\* works the buffer has all the rest that was used.
NothingIsLost ==
    /\ printed = SubSeq(handed, 1, Len(printed))
    /\ link = "up" => printed \o buffer = SubSeq(handed, 1, Len(handed) - Pending)

\* A packet that was sent over a working connection has its declared size, although
\* its source gave out early, in every build.
SentIsWhole == state = "sent" /\ link = "up" => Len(printed) = HeaderSize + size

\* The loops end: there always is room in the buffer for the next chunk.
WritesReturn == ~Idle ~> Idle
=============================================================================
