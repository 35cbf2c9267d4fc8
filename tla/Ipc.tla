--------------------------------- MODULE Ipc ----------------------------------
(***************************************************************************)
(* The kernel's IPC objects together: any sequence of calls by threads and *)
(* an interrupt handler on a semaphore, two mutexes, an event, a mailbox   *)
(* or a message queue, with timeouts between any two steps.                *)
(***************************************************************************)
EXTENDS IpcSync, IpcMail

vars == <<kind, flag, hist, threadVars, syncVars, mailVars>>

Init == InitThreads /\ InitSync /\ InitMail

Next ==
    \/ NextSync /\ UNCHANGED <<kind, flag, mailVars>>
    \/ NextMail /\ UNCHANGED <<kind, flag, syncVars>>
    \/ \E t \in Thread : Timeout(t) /\ UNCHANGED <<syncVars, mailVars>>

Spec == Init /\ [][Next]_vars

-----------------------------------------------------------------------------
(* Properties.                                                             *)

\* A thread is suspended if and only if it is on one suspend list, once, and only the
\* timer of a suspended thread runs: whoever resumes it first, a call or its timer, takes
\* it from the other.
OnOneList ==
    \A t \in Thread :
        /\ Cardinality({p \in Lists \X (1..Cardinality(Thread)) :
                            p[2] <= Len(wait[p[1]]) /\ wait[p[1]][p[2]] = t})
             = IF stat[t] = "SUSPEND" THEN 1 ELSE 0
        /\ timer[t] => stat[t] = "SUSPEND"

\* No thread sleeps over what it waits for: a unit, a free mutex, the bits of an event; a
\* mail, a message or a place in the mailbox, unless for each of them a thread resumed
\* before is on its way to it.
NobodySleepsOverIt ==
    /\ wait["sem"] # <<>> => value = 0
    /\ \A m \in Mutex : wait[m] # <<>> => mutex[m].owner # Null
    /\ \A n \in 1..Len(wait["event"]) :
          LET c == call[wait["event"][n]] IN ~Satisfied(c.set, c.all, events)
    /\ wait["mb"] # <<>> => mb.entry <= Cardinality(ResumedWell("mb_recv"))
    /\ wait["mb_senders"] # <<>> => MbSize - mb.entry <= Cardinality(ResumedWell("mb_send"))
    /\ wait["mq"] # <<>> => mq.entry <= Cardinality(ResumedWell("mq_recv"))

\* Every unit of a semaphore is in its value or with one thread resumed to take it, also
\* when timeouts and resets race releases, until the value wraps.
UnitsConserved ==
    "wrapped" \notin hist => owed = value + Cardinality(ResumedWell("sem_take"))

\* A mutex is owned by the thread whose takes, and nobody else's, have succeeded more
\* often than they were released: a take that timed out or failed leaves no trace, and one
\* that was handed the mutex does not fail.  It holds also when the hold count has come
\* round to 0, as long as the owner releases then and does not take the mutex once more.
HoldsMatch ==
    "overheld" \notin hist =>
        \A m \in Mutex :
            /\ mutex[m].value = 1 <=> mutex[m].owner = Null
            /\ \A t \in Thread :
                  LET handed == t \in ResumedWell("mutex_take") /\ call[t].m = m
                      takes == Count(m, held[t]) + IF handed THEN 1 ELSE 0
                  IN IF mutex[m].owner = t THEN takes > 0 /\ mutex[m].hold = takes % HoldMod
                                           ELSE takes = 0

Owns(t) == \E m \in Mutex : mutex[m].owner = t

\* A thread that has no mutex has its own priority again, whatever it inherited and from
\* whom, if mutexes are released in the reverse order.  (If not it may keep an inherited
\* priority for good: the mutex taken second remembers it as the original one.)
PriorityRestored ==
    "crossed" \notin hist => \A t \in Thread : ~Owns(t) => prio[t] = Prio[t]

\* As long as no thread that has a mutex asks for another, the owner of a mutex made with RT_IPC_FLAG_PRIO
\* goes before or with every thread waiting for it.  (With RT_IPC_FLAG_FIFO a new owner
\* does not inherit the priority of those still waiting; a thread that releases one of two
\* mutexes loses what it inherited through the other; and an owner that waits itself does
\* not pass on what it inherits.)
Inherited ==
    flag = "PRIO" /\ "nested" \notin hist
        => \A m \in Mutex : \A n \in 1..Len(wait[m]) :
              prio[mutex[m].owner] <= prio[wait[m][n]]

\* The mails in the mailbox are those sent after the last one received, in order.
MailsInOrder ==
    /\ last + mb.entry = sent \/ kind # "mb"
    /\ \A k \in 1..mb.entry : mb.msg_pool[(mb.out_offset + k - 1) % MbSize] = last + k

\* Each cell of the pool is linked, free or with one caller that copies a message without
\* the interrupt lock; the linked cells hold the messages of the queue in order and end at
\* the tail; and a message is intact when it is copied out.
MessagesKept ==
    LET w == Chain(mq.head)
        Users(m) == {c \in Callers : call[c].op \in {"mq_link", "mq_free"} /\ call[c].cell = m}
    IN /\ \A m \in Cells : Cardinality(Users(m)) + Count(m, w) + Count(m, Chain(mq.free)) = 1
       /\ [n \in 1..Len(w) |-> mq.data[w[n]]] = queue
       /\ mq.entry = Len(queue)
       /\ mq.tail = IF w = <<>> THEN Null ELSE w[Len(w)]
       /\ \A c \in Callers : call[c].op = "mq_free" => mq.data[call[c].cell] = call[c].msg
=============================================================================
