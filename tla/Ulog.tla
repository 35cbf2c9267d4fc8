--------------------------------- MODULE Ulog ---------------------------------
(***************************************************************************)
(* The asynchronous output of ulog (components/utilities/ulog/ulog.c) over *)
(* the ring block buffer (components/drivers/src/ringblk_buf.c): threads   *)
(* and interrupt handlers put log frames into blocks of one buffer, the    *)
(* thread ulog_async, or a thread in ulog_flush, writes them out.          *)
(*                                                                         *)
(* A section under the interrupt lock is one step.  A handler logs with    *)
(* interrupts disabled, in one step; threads share the line buffer under   *)
(* the mutex output_locker.  A cell of the buffer holds the number of the  *)
(* block whose frame was copied there last.  The warning about logs for    *)
(* which there is no room is left out.                                     *)
(***************************************************************************)
EXTENDS Integers, FiniteSets, SequencesExt

CONSTANTS
    Logger,         \* the threads that log
    BufSize,        \* rbb->buf_size
    BlkMax,         \* rbb->blk_max_num
    FrameSizes,     \* the sizes of log frames
    NoOwner         \* no thread

ASSUME UlogAssumption ==
    /\ BufSize \in Nat \ {0} /\ BlkMax \in Nat \ {0}
    /\ FrameSizes \subseteq 1..BufSize
    /\ NoOwner \notin Logger

VARIABLES
    blk,        \* rbb->blk_set: [status, buf, size] and whether a handler logs into it
    blk_list,   \* rbb->blk_list
    cells,      \* rbb->buf
    locker,     \* the owner of ulog.output_locker
    notice,     \* ulog.async_notice is above 0: every take follows a reset, so no more
                \* than this is ever read of it
    logging,    \* the logging thread's [pc, blk]
    output      \* the thread in ulog_async_output: [pc, blk]

ulogVars == <<blk, blk_list, cells, locker, notice, logging, output>>

Async == "ulog_async"
Outputs == Logger \cup {Async}
Blocks == 1..BlkMax
Unused == [status |-> "UNUSED", buf |-> 0, size |-> 0, isr |-> FALSE]

\* ulog_init and rt_rbb_init.
InitUlog ==
    /\ blk = [b \in Blocks |-> Unused] /\ blk_list = <<>>
    /\ cells = [i \in 0..BufSize - 1 |-> 0]
    /\ locker = NoOwner /\ notice = FALSE
    /\ logging = [t \in Logger |-> [pc |-> "none", blk |-> 0]]
    /\ output = [o \in Outputs |-> [pc |-> IF o = Async THEN "reset" ELSE "none", blk |-> 0]]

-----------------------------------------------------------------------------
(* The ring block buffer.                                                  *)

\* A mutant: behind the wrap, too, the end of the buffer bounds the block.
Place_no_head(size) ==
    LET head == blk[Head(blk_list)]
        tail == blk[blk_list[Len(blk_list)]]
        empty1 == BufSize - (tail.buf + tail.size)
    IN IF Len(blk_list) = 0 THEN {0}
       ELSE IF empty1 >= size THEN {tail.buf + tail.size}
       ELSE IF head.buf <= tail.buf /\ head.buf >= size THEN {0}
       ELSE {}

\* Where rt_rbb_blk_alloc puts a block: behind the tail of the list, or at the beginning
\* of the buffer if there is more room.  Without a place it returns NULL.
Place(size) ==
    LET head == blk[Head(blk_list)]
        tail == blk[blk_list[Len(blk_list)]]
        wrapped == head.buf > tail.buf
        empty1 == (IF wrapped THEN head.buf ELSE BufSize) - (tail.buf + tail.size)
    IN IF Len(blk_list) = 0 THEN {0}
       ELSE IF empty1 >= size THEN {tail.buf + tail.size}
       ELSE IF ~wrapped /\ head.buf >= size THEN {0}
       ELSE {}

\* find_empty_blk_in_set.
EmptyBlocks == {b \in Blocks : blk[b].status = "UNUSED"}

HasRoom(size) == EmptyBlocks # {} /\ Place(size) # {}

\* The new block of rt_rbb_blk_alloc and its place.
NewBlock == Min(EmptyBlocks)
NewPlace(size) == CHOOSE p \in Place(size) : TRUE

\* rt_rbb_blk_alloc; the block is left in the status given.
BlkAlloc(size, status, isr) ==
    /\ blk' = [blk EXCEPT ![NewBlock] = [status |-> status, buf |-> NewPlace(size),
                                         size |-> size, isr |-> isr]]
    /\ blk_list' = Append(blk_list, NewBlock)

\* The block b of rt_rbb_blk_get: the first that was put.
Put == {n \in 1..Len(blk_list) : blk[blk_list[n]].status = "PUT"}
FirstPut == blk_list[Min(Put)]

-----------------------------------------------------------------------------
(* Logging.                                                                *)

At(t, pc) == logging[t].pc = pc
Go(t, pc) == logging' = [logging EXCEPT ![t].pc = pc]

\* The cells once the frame of block b, of the size given, is copied to p.
Copied(b, p, size) == [i \in DOMAIN cells |-> IF i \in p..p + size - 1 THEN b ELSE cells[i]]

\* rt_sem_release of the notice.
Notify ==
    IF output[Async].pc = "sleep"
      THEN output' = [output EXCEPT ![Async].pc = "get"] /\ UNCHANGED notice
      ELSE notice' = TRUE /\ UNCHANGED output

\* A mutant: threads do not lock.
LogBegin_unlocked(t, size) ==
    /\ At(t, "none") /\ output[t].pc = "none"
    /\ UNCHANGED <<locker, cells, notice, output>>
    /\ HasRoom(size)
    /\ BlkAlloc(size, "INITED", FALSE)
    /\ logging' = [logging EXCEPT ![t] = [pc |-> "copy", blk |-> NewBlock]]

\* ulog_voutput of a thread up to the copy: the lock, and the block of do_output.  The log
\* is dropped if there is none.
LogBegin(t, size) ==
    /\ At(t, "none") /\ output[t].pc = "none" /\ locker = NoOwner
    /\ \/ /\ HasRoom(size)
          /\ BlkAlloc(size, "INITED", FALSE)
          /\ logging' = [logging EXCEPT ![t] = [pc |-> "copy", blk |-> NewBlock]]
       \/ /\ ~HasRoom(size)
          /\ Go(t, "unlock")
          /\ UNCHANGED <<blk, blk_list>>
    /\ locker' = t
    /\ UNCHANGED <<cells, notice, output>>

\* The frame is packed and copied.
LogCopy(t) ==
    LET b == blk[logging[t].blk] IN
    /\ At(t, "copy") /\ Go(t, "put")
    /\ cells' = Copied(logging[t].blk, b.buf, b.size)
    /\ UNCHANGED <<blk, blk_list, locker, notice, output>>

\* rt_rbb_blk_put.
LogPut(t) ==
    /\ At(t, "put") /\ Go(t, "notice")
    /\ blk' = [blk EXCEPT ![logging[t].blk].status = "PUT"]
    /\ UNCHANGED <<blk_list, cells, locker, notice, output>>

LogNotice(t) ==
    /\ At(t, "notice") /\ Go(t, "unlock")
    /\ Notify
    /\ UNCHANGED <<blk, blk_list, cells, locker>>

LogUnlock(t) ==
    /\ At(t, "unlock") /\ logging' = [logging EXCEPT ![t] = [pc |-> "none", blk |-> 0]]
    /\ locker' = NoOwner
    /\ UNCHANGED <<blk, blk_list, cells, notice, output>>

\* ulog_voutput of an interrupt handler, for which there is room.
LogInIsr(size) ==
    /\ HasRoom(size)
    /\ BlkAlloc(size, "PUT", TRUE)
    /\ cells' = Copied(NewBlock, NewPlace(size), size)
    /\ Notify
    /\ UNCHANGED <<locker, logging>>

-----------------------------------------------------------------------------
(* Output.                                                                 *)

\* ulog_async_waiting_log: the notice is reset, then taken.
AsyncReset ==
    /\ output[Async].pc = "reset"
    /\ output' = [output EXCEPT ![Async].pc = "take"]
    /\ notice' = FALSE
    /\ UNCHANGED <<blk, blk_list, cells, locker, logging>>

AsyncTake ==
    /\ output[Async].pc = "take"
    /\ \/ /\ notice /\ notice' = FALSE
          /\ output' = [output EXCEPT ![Async].pc = "get"]
       \/ /\ ~notice /\ UNCHANGED notice
          /\ output' = [output EXCEPT ![Async].pc = "sleep"]
    /\ UNCHANGED <<blk, blk_list, cells, locker, logging>>

\* ulog_flush.
Flush(t) ==
    /\ At(t, "none") /\ output[t].pc = "none"
    /\ output' = [output EXCEPT ![t].pc = "get"]
    /\ UNCHANGED <<blk, blk_list, cells, locker, notice, logging>>

\* The loop of ulog_async_output: rt_rbb_blk_get, the backends, rt_rbb_blk_free.
OutputGet(o) ==
    /\ output[o].pc = "get"
    /\ \/ /\ Put # {}
          /\ blk' = [blk EXCEPT ![FirstPut].status = "GET"]
          /\ output' = [output EXCEPT ![o] = [pc |-> "print", blk |-> FirstPut]]
       \/ /\ Put = {}
          /\ output' = [output EXCEPT ![o].pc = IF o = Async THEN "reset" ELSE "none"]
          /\ UNCHANGED blk
    /\ UNCHANGED <<blk_list, cells, locker, notice, logging>>

\* ulog_output_to_all_backend: the frame is read, see LogsWhole.
OutputPrint(o) ==
    /\ output[o].pc = "print"
    /\ output' = [output EXCEPT ![o].pc = "free"]
    /\ UNCHANGED <<blk, blk_list, cells, locker, notice, logging>>

\* What is left in the cells of a freed block is nobody's.
OutputFree(o) ==
    LET b == output[o].blk IN
    /\ output[o].pc = "free"
    /\ output' = [output EXCEPT ![o] = [pc |-> "get", blk |-> 0]]
    /\ blk_list' = RemoveFirst(blk_list, b)
    /\ blk' = [blk EXCEPT ![b] = Unused]
    /\ cells' = [i \in DOMAIN cells |-> IF cells[i] = b THEN 0 ELSE cells[i]]
    /\ UNCHANGED <<locker, notice, logging>>

NextUlog ==
    \/ \E t \in Logger : \/ \E size \in FrameSizes : LogBegin(t, size)
                         \/ LogCopy(t) \/ LogPut(t) \/ LogNotice(t) \/ LogUnlock(t)
                         \/ Flush(t)
    \/ \E size \in FrameSizes : LogInIsr(size)
    \/ AsyncReset \/ AsyncTake
    \/ \E o \in Outputs : OutputGet(o) \/ OutputPrint(o) \/ OutputFree(o)

-----------------------------------------------------------------------------
(* Properties.                                                             *)

\* Every log that found room is printed once and whole: while a thread prints a block its
\* cells hold its frame, in whatever order blocks were put and freed and however often the
\* buffer wrapped, and the thread is the only one to have it, also when ulog_flush and the
\* output thread meet.
LogsWhole ==
    /\ \A o \in Outputs : output[o].pc = "print" =>
          LET b == blk[output[o].blk] IN
          /\ b.status = "GET"
          /\ \A i \in b.buf..b.buf + b.size - 1 : cells[i] = output[o].blk
    /\ \A b \in Blocks :
          Cardinality({o \in Outputs : output[o].blk = b})
            = (IF blk[b].status = "GET" THEN 1 ELSE 0)

\* The logs of threads, and those of handlers, are taken to be printed in the order in
\* which they got their blocks: whatever is taken, nothing of its kind that is still to be
\* put or taken is before it on the list.
LogsInOrder ==
    \A j, k \in 1..Len(blk_list) :
        LET a == blk[blk_list[j]]
            b == blk[blk_list[k]]
        IN j < k /\ a.isr = b.isr /\ b.status = "GET" => a.status = "GET"

\* The output thread does not sleep while a block that was put waits for it, unless its
\* notice is on the way.  (It does: ulog_async_waiting_log resets the notice of a log put
\* since the last rt_rbb_blk_get.)
NoLogWaits ==
    output[Async].pc = "sleep" /\ (\A t \in Logger : ~At(t, "notice"))
        => \A b \in Blocks : blk[b].status # "PUT"
=============================================================================
