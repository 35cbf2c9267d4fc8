------------------------------- MODULE IpcMail --------------------------------
(***************************************************************************)
(* Mailbox and message queue (rt-thread/src/ipc.c).                        *)
(*                                                                         *)
(* A mailbox is a ring of MbSize words on which senders and receivers      *)
(* wait.  A message queue links the cells of a pool: a sender takes a free *)
(* cell under the lock, copies its message without it and links the cell   *)
(* under it again; a receiver unlinks, copies and frees likewise.  A copy  *)
(* is part of the step behind it: nobody else has the cell (MessagesKept). *)
(*                                                                         *)
(* Mails are numbered in the order they are put, messages in the order     *)
(* they are copied in.                                                     *)
(***************************************************************************)
EXTENDS IpcThreads

CONSTANTS
    MbSize,         \* mb->size
    MqMax,          \* mq->max_msgs
    MaxSent         \* bound: mails or messages sent

ASSUME MailAssumption ==
    /\ MbSize \in Nat \ {0} /\ MqMax \in Nat \ {0} /\ MaxSent \in Nat
    /\ Null \notin 1..MqMax

VARIABLES
    mb,         \* [msg_pool, in_offset, out_offset, entry]
    mq,         \* [head, tail, free, entry, next, data]: next and data of each cell
    sent,       \* history: number of mails or messages put
    last,       \* history: the last mail received
    queue       \* history: the messages linked and not yet received, in order

mailVars == <<mb, mq, sent, last, queue>>
Cells == 1..MqMax

\* rt_mb_init.
InitMb == mb = [msg_pool |-> [k \in 0..MbSize - 1 |-> 0],
                in_offset |-> 0, out_offset |-> 0, entry |-> 0]

\* rt_mq_init: the free list has the cells from the last to the first.
InitMq == mq = [head |-> Null, tail |-> Null, free |-> MqMax, entry |-> 0,
                next |-> [c \in Cells |-> IF c = 1 THEN Null ELSE c - 1],
                data |-> [c \in Cells |-> 0]]

InitMail == InitMb /\ InitMq /\ sent = 0 /\ last = 0 /\ queue = <<>>

-----------------------------------------------------------------------------
(* Mailbox.                                                                *)

NextOffset(k) == IF k + 1 >= MbSize THEN 0 ELSE k + 1

\* The loop and the end of rt_mb_send_wait, for a thread or a handler not to wait longer
\* than time.
MbSendLoop(c, time) ==
    \/ /\ mb.entry < MbSize /\ sent < MaxSent
       /\ mb' = [mb EXCEPT !.msg_pool[mb.in_offset] = sent + 1,
                           !.in_offset = NextOffset(@), !.entry = @ + 1]
       /\ sent' = sent + 1
       /\ WakeFirst("mb")
       /\ Return(c)
       /\ UNCHANGED error
    \/ /\ mb.entry = MbSize /\ time # "none"
       /\ Suspend(c, "mb_senders", [op |-> "mb_send", time |-> time], time)
       /\ UNCHANGED <<mb, sent>>
    \/ /\ mb.entry = MbSize /\ time = "none"
       /\ Return(c)
       /\ UNCHANGED <<stat, error, timer, wait, mb, sent>>

\* rt_mb_send_wait, and rt_mb_send with time "none".
MbSend(c, time) ==
    /\ kind = "mb" /\ Idle(c) /\ Allowed(c, time)
    /\ MbSendLoop(c, time)
    /\ UNCHANGED <<prio, mq, last, queue, hist>>

MbSendResumed(t) ==
    /\ Resumed(t, "mb_send")
    /\ \/ /\ error[t] # "EOK"
          /\ Return(t)
          /\ UNCHANGED <<stat, error, timer, wait, mb, sent>>
       \/ /\ error[t] = "EOK"
          /\ \E time \in Remaining(call[t].time) : MbSendLoop(t, time)
    /\ UNCHANGED <<prio, mq, last, queue, hist>>

\* A mutant: a sender is resumed only when the mailbox was full.
MbTake_wakes_if_full(c) ==
    /\ mb' = [mb EXCEPT !.out_offset = NextOffset(@), !.entry = @ - 1]
    /\ last' = mb.msg_pool[mb.out_offset]
    /\ IF mb.entry = MbSize THEN WakeFirst("mb_senders") ELSE UNCHANGED <<stat, timer, wait>>
    /\ Return(c)

\* A mail is taken out and a waiting sender resumed.
MbTake(c) ==
    /\ mb' = [mb EXCEPT !.out_offset = NextOffset(@), !.entry = @ - 1]
    /\ last' = mb.msg_pool[mb.out_offset]
    /\ WakeFirst("mb_senders")
    /\ Return(c)

\* The loop and the end of rt_mb_recv.
MbRecvLoop(c, time) ==
    \/ /\ mb.entry > 0
       /\ MbTake(c)
       /\ UNCHANGED error
    \/ /\ mb.entry = 0 /\ time # "none"
       /\ Suspend(c, "mb", [op |-> "mb_recv", time |-> time], time)
       /\ UNCHANGED <<mb, last>>

\* rt_mb_recv.
MbRecv(c, time) ==
    /\ kind = "mb" /\ Idle(c) /\ Allowed(c, time)
    /\ MbRecvLoop(c, time)
    /\ UNCHANGED <<prio, mq, sent, queue, hist>>

MbRecvResumed(t) ==
    /\ Resumed(t, "mb_recv")
    /\ \/ /\ error[t] # "EOK"
          /\ Return(t)
          /\ UNCHANGED <<stat, error, timer, wait, mb, last>>
       \/ /\ error[t] = "EOK"
          /\ \E time \in Remaining(call[t].time) :
               \/ MbRecvLoop(t, time)
               \/ /\ mb.entry = 0 /\ time = "none"
                  /\ error' = [error EXCEPT ![t] = "ERROR"]
                  /\ Return(t)
                  /\ UNCHANGED <<stat, timer, wait, mb, last>>
    /\ UNCHANGED <<prio, mq, sent, queue, hist>>

\* A mutant: the next mail goes where it would have gone.
MbReset_keeps_in(c) ==
    /\ kind = "mb" /\ Idle(c)
    /\ WakeAll({"mb", "mb_senders"})
    /\ mb' = [mb EXCEPT !.out_offset = 0, !.entry = 0]
    /\ last' = sent
    /\ UNCHANGED <<prio, call, mq, sent, queue, hist>>

\* rt_mb_control(RT_IPC_CMD_RESET).
MbReset(c) ==
    /\ kind = "mb" /\ Idle(c)
    /\ WakeAll({"mb", "mb_senders"})
    /\ mb' = [mb EXCEPT !.in_offset = 0, !.out_offset = 0, !.entry = 0]
    /\ last' = sent
    /\ UNCHANGED <<prio, call, mq, sent, queue, hist>>

-----------------------------------------------------------------------------
(* Message queue.                                                          *)

\* The cells linked from cell c on; a loop would make more of them than there are.
Chain(c) ==
    LET walk[n \in 0..MqMax] ==
            IF n = 0 THEN c ELSE IF walk[n - 1] = Null THEN Null ELSE mq.next[walk[n - 1]]
    IN [n \in 1..Cardinality({k \in 0..MqMax : walk[k] # Null}) |-> walk[n - 1]]

\* rt_mq_send and rt_mq_urgent up to the copy: a free cell is taken.
MqSend(c, urgent) ==
    /\ kind = "mq" /\ Idle(c) /\ mq.free # Null
    /\ mq' = [mq EXCEPT !.free = mq.next[@]]
    /\ call' = [call EXCEPT ![c] = [op |-> "mq_link", cell |-> mq.free, urgent |-> urgent]]
    /\ UNCHANGED <<stat, error, timer, prio, wait, mb, sent, last, queue, hist>>

\* The copy and the rest of rt_mq_send for cell m.
LinkLast(m) ==
    [mq EXCEPT !.data[m] = sent + 1, !.entry = @ + 1,
               !.next = [c \in Cells |-> IF c = m THEN Null
                                         ELSE IF c = mq.tail THEN m ELSE mq.next[c]],
               !.tail = m,
               !.head = IF @ = Null THEN m ELSE @]

\* The same of rt_mq_urgent.
LinkFirst(m) ==
    [mq EXCEPT !.data[m] = sent + 1, !.entry = @ + 1, !.next[m] = mq.head, !.head = m,
               !.tail = IF @ = Null THEN m ELSE @]

MqLink(c) ==
    /\ call[c].op = "mq_link" /\ sent < MaxSent
    /\ sent' = sent + 1
    /\ IF call[c].urgent
         THEN mq' = LinkFirst(call[c].cell) /\ queue' = <<sent + 1>> \o queue
         ELSE mq' = LinkLast(call[c].cell) /\ queue' = Append(queue, sent + 1)
    /\ WakeFirst("mq")
    /\ Return(c)
    /\ UNCHANGED <<error, prio, mb, last, hist>>

\* A mutant: the cell is free before its message has been copied.
Unlink_frees(c) ==
    /\ mq' = [mq EXCEPT !.head = mq.next[@], !.entry = @ - 1,
                        !.tail = IF @ = mq.head THEN Null ELSE @,
                        !.next[mq.head] = mq.free, !.free = mq.head]
    /\ queue' = Tail(queue)
    /\ call' = [call EXCEPT ![c] = [op |-> "mq_free", cell |-> mq.head, msg |-> Head(queue)]]

\* The first cell is unlinked, to be copied and freed.
Unlink(c) ==
    /\ mq' = [mq EXCEPT !.head = mq.next[@], !.entry = @ - 1,
                        !.tail = IF @ = mq.head THEN Null ELSE @]
    /\ queue' = Tail(queue)
    /\ call' = [call EXCEPT ![c] = [op |-> "mq_free", cell |-> mq.head, msg |-> Head(queue)]]

\* The loop of rt_mq_recv.
MqRecvLoop(c, time) ==
    \/ /\ mq.entry > 0
       /\ Unlink(c)
       /\ UNCHANGED <<stat, error, timer, wait>>
    \/ /\ mq.entry = 0 /\ time # "none"
       /\ Suspend(c, "mq", [op |-> "mq_recv", time |-> time], time)
       /\ UNCHANGED <<mq, queue>>

\* rt_mq_recv.
MqRecv(c, time) ==
    /\ kind = "mq" /\ Idle(c) /\ Allowed(c, time)
    /\ MqRecvLoop(c, time)
    /\ UNCHANGED <<prio, mb, sent, last, hist>>

MqRecvResumed(t) ==
    /\ Resumed(t, "mq_recv")
    /\ \/ /\ error[t] # "EOK"
          /\ Return(t)
          /\ UNCHANGED <<stat, error, timer, wait, mq, queue>>
       \/ /\ error[t] = "EOK"
          /\ \E time \in Remaining(call[t].time) :
               \/ MqRecvLoop(t, time)
               \/ /\ mq.entry = 0 /\ time = "none"
                  /\ error' = [error EXCEPT ![t] = "ERROR"]
                  /\ Return(t)
                  /\ UNCHANGED <<stat, timer, wait, mq, queue>>
    /\ UNCHANGED <<prio, mb, sent, last, hist>>

\* The copy and the rest of rt_mq_recv: the cell is put on the free list.
MqFree(c) ==
    /\ call[c].op = "mq_free"
    /\ mq' = [mq EXCEPT !.next[call[c].cell] = mq.free, !.free = call[c].cell]
    /\ Return(c)
    /\ UNCHANGED <<stat, error, timer, prio, wait, mb, sent, last, queue, hist>>

\* rt_mq_control(RT_IPC_CMD_RESET): the linked cells go to the free list, one by one.
MqReset(c) ==
    LET w == Chain(mq.head) IN
    /\ kind = "mq" /\ Idle(c)
    /\ WakeAll({"mq"})
    /\ mq' = [mq EXCEPT !.head = Null, !.entry = 0,
                 !.tail = IF w # <<>> /\ w[Len(w)] = @ THEN Null ELSE @,
                 !.free = IF w = <<>> THEN @ ELSE w[Len(w)],
                 !.next = [m \in Cells |->
                     IF \E n \in 1..Len(w) : w[n] = m
                       THEN LET n == CHOOSE k \in 1..Len(w) : w[k] = m IN
                            IF n = 1 THEN mq.free ELSE w[n - 1]
                       ELSE mq.next[m]]]
    /\ queue' = <<>>
    /\ UNCHANGED <<prio, call, mb, sent, last, hist>>

-----------------------------------------------------------------------------

NextMail ==
    \/ \E c \in Callers, time \in Times : MbSend(c, time)
    \/ \E t \in Thread : MbSendResumed(t)
    \/ \E c \in Callers, time \in Times : MbRecv(c, time)
    \/ \E t \in Thread : MbRecvResumed(t)
    \/ \E c \in Callers : MbReset(c)
    \/ \E c \in Callers, urgent \in BOOLEAN : MqSend(c, urgent)
    \/ \E c \in Callers : MqLink(c)
    \/ \E c \in Callers, time \in Times : MqRecv(c, time)
    \/ \E t \in Thread : MqRecvResumed(t)
    \/ \E c \in Callers : MqFree(c)
    \/ \E c \in Callers : MqReset(c)
=============================================================================
