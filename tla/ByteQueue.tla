------------------------------ MODULE ByteQueue ------------------------------
(***************************************************************************)
(* What a byte ring buffer promises its callers, with the buffer, its      *)
(* indexes and its mirror bits out of sight: a first-in first-out queue of *)
(* at most Size bytes.  RingBuffer.tla shows that the operations of        *)
(* rt-thread/components/drivers/src/ringbuffer.c implement it.             *)
(*                                                                         *)
(*   q    the bytes accepted and not yet handed out, oldest first          *)
(*   ret  the last call and what it told its caller: the byte count it     *)
(*        returned and the bytes it copied out                             *)
(***************************************************************************)
EXTENDS Integers, Sequences

CONSTANTS Size, Byte, MaxLen

VARIABLES q, ret

\* The smaller of two numbers.
MinOf(a, b) == IF a < b THEN a ELSE b

\* Blocks of bytes a caller may pass, up to MaxLen long.
Blocks == UNION {[1..n -> Byte] : n \in 0..MaxLen}

Space == Size - Len(q)

Answer(op, n, bytes) == [op |-> op, n |-> n, data |-> bytes]

Init == q = <<>> /\ ret = Answer("init", 0, <<>>)

\* As much of the block as fits is appended; the rest is dropped.
Put(s) ==
    LET n == MinOf(Space, Len(s)) IN
    /\ q' = q \o SubSeq(s, 1, n)
    /\ ret' = Answer("put", n, <<>>)

\* At most len of the oldest bytes are handed out, in order.
Get(len) ==
    LET n == MinOf(Len(q), len) IN
    /\ q' = SubSeq(q, n + 1, Len(q))
    /\ ret' = Answer("get", n, SubSeq(q, 1, n))

\* A byte is appended even when the queue is full: the oldest makes room.
PutCharForce(ch) ==
    /\ q' = IF Space = 0 THEN Append(Tail(q), ch) ELSE Append(q, ch)
    /\ ret' = Answer("putchar_force", 1, <<>>)

\* A block is appended even when it does not fit: the oldest bytes make room, and the
\* queue may even lose all of its bytes and the block with them.
PutForce(s) ==
    LET all == q \o s IN
    /\ q' \in {SubSeq(all, Len(all) - MinOf(Size, Len(all)) + 1, Len(all)),
              IF Len(s) > Space THEN <<>> ELSE q \o s}
    /\ ret' = Answer("put_force", MinOf(Size, Len(s)), <<>>)

Reset == q' = <<>> /\ ret' = Answer("reset", 0, <<>>)

Next ==
    \/ \E s \in Blocks : Put(s)
    \/ \E len \in 0..MaxLen : Get(len)
    \/ \E ch \in Byte : PutCharForce(ch)
    \/ \E s \in Blocks : PutForce(s)
    \/ Reset

Spec == Init /\ [][Next]_<<q, ret>>
=============================================================================
