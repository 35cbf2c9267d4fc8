------------------------------ MODULE RingBuffer -----------------------------
(***************************************************************************)
(* The byte ring buffer of rt-thread/components/drivers/src/ringbuffer.c,  *)
(* which carries every byte between the serial layer and the USB virtual   *)
(* COM port.  Both indexes run over 0 .. Size-1 and each has a mirror bit  *)
(* that flips when the index wraps, so that equal indexes mean "empty"     *)
(* when the mirrors agree and "full" when they differ.                     *)
(*                                                                         *)
(* The operators take and return the struct rt_ringbuffer as a record; the *)
(* actions apply them to the buffer rb and record the call's result.       *)
(* Callers hold the interrupt lock around each call, so a call is one step.*)
(*                                                                         *)
(*   Size    buffer_size, after rt_ringbuffer_init aligned it down         *)
(*   Byte    the byte values                                               *)
(*   MaxLen  bound on the block length a caller passes                     *)
(***************************************************************************)
EXTENDS Integers, Sequences

CONSTANTS Size, Byte, MaxLen

ASSUME SizeAssumption == Size \in Nat \ {0}
ASSUME MaxLenAssumption == MaxLen \in Nat \ {0}
ASSUME ByteAssumption == Byte # {}

VARIABLES
    rb,     \* struct rt_ringbuffer
    ret     \* the last call, what it returned and what it copied out

vars == <<rb, ret>>

Offsets == 0 .. Size - 1

\* Blocks of bytes a caller may pass, up to MaxLen long.
Blocks == UNION {[1..n -> Byte] : n \in 0..MaxLen}

RingBuffers ==
    [buffer       : [Offsets -> Byte],
     read_index   : Offsets, read_mirror  : {0, 1},
     write_index  : Offsets, write_mirror : {0, 1}]

-----------------------------------------------------------------------------
(* The operations.                                                         *)

Flip(mirror) == 1 - mirror

rt_ringbuffer_status(r) ==
    IF r.read_index # r.write_index THEN "HALFFULL"
    ELSE IF r.read_mirror = r.write_mirror THEN "EMPTY" ELSE "FULL"

rt_ringbuffer_data_len(r) ==
    CASE rt_ringbuffer_status(r) = "EMPTY" -> 0
      [] rt_ringbuffer_status(r) = "FULL"  -> Size
      [] OTHER -> IF r.write_index > r.read_index
                    THEN r.write_index - r.read_index
                    ELSE Size - (r.read_index - r.write_index)

rt_ringbuffer_space_len(r) == Size - rt_ringbuffer_data_len(r)

\* memcpy(&buffer[at], &s[from], n), with s indexed from 1.
memcpy(buffer, at, s, from, n) ==
    [j \in Offsets |-> IF at <= j /\ j < at + n THEN s[from + (j - at)]
                                                ELSE buffer[j]]

MinOf(a, b) == IF a < b THEN a ELSE b

\* Copy n bytes of s, starting at its byte from, in at the write index and move
\* the index past them, into the other mirror when the end of the pool is met.
CopyIn(r, s, from, n) ==
    LET tail == Size - r.write_index IN
    IF tail > n
      THEN [r EXCEPT !.buffer = memcpy(@, r.write_index, s, from, n),
                     !.write_index = @ + n]
      ELSE [r EXCEPT !.buffer = memcpy(memcpy(@, r.write_index, s, from, tail),
                                       0, s, from + tail, n - tail),
                     !.write_mirror = Flip(@),
                     !.write_index = n - tail]

\* The buffer after the call; the caller is told MinOf(space, Len(s)).
rt_ringbuffer_put(r, s) ==
    LET size == rt_ringbuffer_space_len(r) IN
    IF size = 0 THEN r ELSE CopyIn(r, s, 1, MinOf(size, Len(s)))

\* Mutant: the read index is dragged along, its mirror never flips.
put_force_one_mirror(r, s) ==
    LET len  == MinOf(Size, Len(s))
        over == len > rt_ringbuffer_space_len(r)
        w    == CopyIn(r, s, Len(s) - len + 1, len)
    IN  [w EXCEPT !.read_index = IF over THEN w.write_index ELSE @]

\* Overwrite old data.  A block longer than the pool loses its head; when the
\* block did not fit, the read index is dragged to the write index, and its
\* mirror flips if the write index wrapped.
rt_ringbuffer_put_force(r, s) ==
    LET len   == MinOf(Size, Len(s))
        over  == len > rt_ringbuffer_space_len(r)
        wraps == ~(Size - r.write_index > len)
        w     == CopyIn(r, s, Len(s) - len + 1, len)
    IN  [w EXCEPT !.read_index  = IF over THEN w.write_index ELSE @,
                  !.read_mirror = IF over /\ wraps THEN Flip(@) ELSE @]

\* Mutant: after the end of the pool the copy goes on one byte late.
CopyOut_late(r, n) ==
    LET tail == Size - r.read_index IN
    IF tail > n
      THEN [i \in 1..n |-> r.buffer[r.read_index + i - 1]]
      ELSE [i \in 1..n |-> IF i <= tail THEN r.buffer[r.read_index + i - 1]
                                        ELSE r.buffer[i - tail]]

\* The bytes a get of n bytes copies to its caller.
CopyOut(r, n) ==
    LET tail == Size - r.read_index IN
    IF tail > n
      THEN [i \in 1..n |-> r.buffer[r.read_index + i - 1]]
      ELSE [i \in 1..n |-> IF i <= tail THEN r.buffer[r.read_index + i - 1]
                                        ELSE r.buffer[i - 1 - tail]]

\* Mutant: a get that reaches the end of the pool forgets to change mirror.
get_no_flip(r, len) ==
    LET size == rt_ringbuffer_data_len(r)
        n    == MinOf(size, len)
        tail == Size - r.read_index
    IN  IF size = 0 THEN r
        ELSE IF tail > n THEN [r EXCEPT !.read_index = @ + n]
        ELSE [r EXCEPT !.read_index = n - tail]

\* The buffer after a get of at most len bytes.
rt_ringbuffer_get(r, len) ==
    LET size == rt_ringbuffer_data_len(r)
        n    == MinOf(size, len)
        tail == Size - r.read_index
    IN  IF size = 0 THEN r
        ELSE IF tail > n THEN [r EXCEPT !.read_index = @ + n]
        ELSE [r EXCEPT !.read_mirror = Flip(@), !.read_index = n - tail]

\* One byte in at the write index.
StoreChar(r, ch) ==
    IF r.write_index = Size - 1
      THEN [r EXCEPT !.buffer[r.write_index] = ch,
                     !.write_mirror = Flip(@), !.write_index = 0]
      ELSE [r EXCEPT !.buffer[r.write_index] = ch, !.write_index = @ + 1]

rt_ringbuffer_putchar(r, ch) ==
    IF rt_ringbuffer_space_len(r) = 0 THEN r ELSE StoreChar(r, ch)

rt_ringbuffer_putchar_force(r, ch) ==
    LET w == StoreChar(r, ch) IN
    IF rt_ringbuffer_status(r) # "FULL" THEN w
    ELSE IF r.write_index = Size - 1
      THEN [w EXCEPT !.read_mirror = Flip(@), !.read_index = w.write_index]
      ELSE [w EXCEPT !.read_index = w.write_index]

rt_ringbuffer_getchar(r) ==
    IF rt_ringbuffer_data_len(r) = 0 THEN r
    ELSE IF r.read_index = Size - 1
      THEN [r EXCEPT !.read_mirror = Flip(@), !.read_index = 0]
      ELSE [r EXCEPT !.read_index = @ + 1]

rt_ringbuffer_reset(r) ==
    [r EXCEPT !.read_mirror = 0, !.read_index = 0,
              !.write_mirror = 0, !.write_index = 0]

-----------------------------------------------------------------------------
(* The state machine: any sequence of calls.                               *)

\* What a call answers: the kind of call, its count and the bytes it copied out.
\* putchar and getchar answer as put and get of one byte do.
Answer(op, n, bytes) == [op |-> op, n |-> n, data |-> bytes]

Answers ==
    [op : {"init", "put", "get", "put_force", "putchar_force", "reset"},
     n : Nat, data : Seq(Byte)]

\* rt_ringbuffer_init over a pool with arbitrary contents.
Init ==
    /\ rb \in [buffer       : [Offsets -> Byte],
               read_index   : {0}, read_mirror  : {0},
               write_index  : {0}, write_mirror : {0}]
    /\ ret = Answer("init", 0, <<>>)

Put(s) ==
    /\ rb' = rt_ringbuffer_put(rb, s)
    /\ ret' = Answer("put", MinOf(rt_ringbuffer_space_len(rb), Len(s)), <<>>)

PutForce(s) ==
    /\ rb' = rt_ringbuffer_put_force(rb, s)
    /\ ret' = Answer("put_force", MinOf(Size, Len(s)), <<>>)

Get(len) ==
    LET n == MinOf(rt_ringbuffer_data_len(rb), len) IN
    /\ rb' = rt_ringbuffer_get(rb, len)
    /\ ret' = Answer("get", n, CopyOut(rb, n))

PutChar(ch) ==
    /\ rb' = rt_ringbuffer_putchar(rb, ch)
    /\ ret' = Answer("put", IF rt_ringbuffer_space_len(rb) = 0 THEN 0 ELSE 1, <<>>)

PutCharForce(ch) ==
    /\ rb' = rt_ringbuffer_putchar_force(rb, ch)
    /\ ret' = Answer("putchar_force", 1, <<>>)

GetChar ==
    /\ rb' = rt_ringbuffer_getchar(rb)
    /\ ret' = IF rt_ringbuffer_data_len(rb) = 0 THEN Answer("get", 0, <<>>)
              ELSE Answer("get", 1, <<rb.buffer[rb.read_index]>>)

Reset ==
    /\ rb' = rt_ringbuffer_reset(rb)
    /\ ret' = Answer("reset", 0, <<>>)

\* The operations other than put_force.
NextFifo ==
    \/ \E s \in Blocks : Put(s)
    \/ \E len \in 0..MaxLen : Get(len)
    \/ \E ch \in Byte : PutChar(ch)
    \/ \E ch \in Byte : PutCharForce(ch)
    \/ GetChar
    \/ Reset

Next == NextFifo \/ \E s \in Blocks : PutForce(s)

Spec == Init /\ [][Next]_vars

-----------------------------------------------------------------------------
(* Properties.                                                             *)

\* The offset i places after the read index, round the pool.
Wrapped(r, i) == IF r.read_index + i < Size THEN r.read_index + i
                                            ELSE r.read_index + i - Size

\* The queued bytes, oldest first.
Contents(r) == [i \in 1..rt_ringbuffer_data_len(r) |-> r.buffer[Wrapped(r, i - 1)]]

\* The record keeps its shape: each index stays below buffer_size, which the
\* memcpy lengths computed from buffer_size - index rely on.
TypeOK ==
    /\ rb \in RingBuffers
    /\ ret \in Answers

\* A mirror pair tells on which lap the writer is: on the reader's own lap it is
\* not behind the reader, one lap ahead it is not past it.  rt_ringbuffer_data_len
\* ignores the mirrors unless the indexes meet and is right only because of this.
MirrorInv ==
    IF rb.read_mirror = rb.write_mirror
      THEN rb.read_index <= rb.write_index
      ELSE rb.write_index <= rb.read_index

\* Every operation behaves as the same operation of a bounded queue: nothing lost,
\* duplicated or reordered, except by putchar_force and put_force, and what a call
\* reports and copies out is what the queue would.
Queue == INSTANCE ByteQueue WITH q <- Contents(rb), ret <- ret
ImplementsQueue == Queue!Spec

\* What rt_ringbuffer_put_force leaves: the newest bytes of the old contents
\* followed by the block, or, when the block did not fit although the writer was
\* on the reader's lap, an empty buffer (ringbuffer.c:139-143 flips both mirrors).
Newest(s) == SubSeq(s, IF Len(s) > Size THEN Len(s) - Size + 1 ELSE 1, Len(s))

Emptied(s) ==
    /\ rb.read_mirror = rb.write_mirror
    /\ MinOf(Size, Len(s)) > rt_ringbuffer_space_len(rb)

PutForceOutcome ==
    [][\A s \in Blocks : PutForce(s) =>
        Contents(rb') = IF Emptied(s) THEN <<>> ELSE Newest(Contents(rb) \o s)]_vars

\* The contract of rt_ringbuffer_put_force in its comment, ringbuffer.c:93-97: old
\* data makes room for the new, so the newest bytes are all still queued.
PutForceKeepsNewest ==
    [][\A s \in Blocks : PutForce(s) =>
        Contents(rb') = Newest(Contents(rb) \o s)]_vars
=============================================================================
