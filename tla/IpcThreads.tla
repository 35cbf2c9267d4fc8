------------------------------ MODULE IpcThreads ------------------------------
(***************************************************************************)
(* What the kernel's IPC objects (rt-thread/src/ipc.c) share: threads that *)
(* suspend themselves on an object's list, perhaps with their timer        *)
(* running, and are resumed by a call on the object or by the timer.       *)
(*                                                                         *)
(* A critical section under the interrupt lock is one step, and so is      *)
(* rt_timer_check, which calls rt_thread_timeout under the lock.  Between  *)
(* steps any ready thread, or an interrupt handler, may go on: that admits *)
(* every schedule the priorities allow.                                    *)
(*                                                                         *)
(* Objects of different kinds share nothing but the threads, so that a     *)
(* behaviour is about objects of one kind, chosen in the initial state.    *)
(***************************************************************************)
EXTENDS Integers, Sequences, FiniteSets

CONSTANTS
    Thread,         \* the threads
    Isr,            \* an interrupt handler, which calls but never waits
    Prio,           \* the threads' own priorities: the smaller number goes first
    Mutex,          \* the mutexes
    Null            \* RT_NULL

ObjectLists == {"sem", "event", "mb", "mb_senders", "mq"}

ASSUME ThreadsAssumption ==
    /\ IsFiniteSet(Thread) /\ Isr \notin Thread /\ Prio \in [Thread -> 0..254]
    /\ Mutex \cap ObjectLists = {} /\ Null \notin Thread

VARIABLES
    kind,       \* the kind of object this behaviour is about
    flag,       \* RT_IPC_FLAG_FIFO or RT_IPC_FLAG_PRIO
    stat,       \* thread->stat
    error,      \* thread->error: RT_EOK or not, ipc.c tells no two errors apart
    timer,      \* thread->thread_timer is running
    prio,       \* thread->current_priority
    call,       \* the call a thread or the handler is in, NoCall if none
    wait,       \* the suspend lists
    hist        \* history: {"wrapped", "nested", "overheld", "crossed"}

threadVars == <<stat, error, timer, prio, call, wait>>

Callers == Thread \cup {Isr}
Lists == ObjectLists \cup Mutex
NoCall == [op |-> "none"]

\* The waiting times: 0, a number of ticks, RT_WAITING_FOREVER.
Times == {"none", "ticks", "forever"}

\* What a handler may ask for.
Allowed(c, time) == c = Isr => time = "none"

InitThreads ==
    /\ kind \in {"sem", "mutex", "event", "mb", "mq"}
    /\ flag \in {"FIFO", "PRIO"}
    /\ stat = [t \in Thread |-> "READY"]
    /\ error = [t \in Thread |-> "EOK"]
    /\ timer = [t \in Thread |-> FALSE]
    /\ prio = Prio
    /\ call = [c \in Callers |-> NoCall]
    /\ wait = [l \in Lists |-> <<>>]
    /\ hist = {}

\* Not inside a call.
Idle(c) == call[c].op = "none"

\* Resumed and about to go on behind rt_schedule().
Resumed(t, op) == stat[t] = "READY" /\ call[t].op = op

ResumedWell(op) == {t \in Thread : Resumed(t, op) /\ error[t] = "EOK"}

-----------------------------------------------------------------------------

\* The place of t in a suspend list: the last, or that of the first thread of a lower
\* priority.
Place(list, t) ==
    LET behind == {n \in 1..Len(list) : flag = "PRIO" /\ prio[t] < prio[list[n]]} IN
    IF behind = {} THEN Len(list) + 1 ELSE CHOOSE n \in behind : \A k \in behind : n <= k

Inserted(list, t) ==
    LET n == Place(list, t) IN SubSeq(list, 1, n - 1) \o <<t>> \o SubSeq(list, n, Len(list))

\* A mutant: the error of an earlier call stays.
Suspend_stale_error(t, list, c, time) ==
    /\ stat' = [stat EXCEPT ![t] = "SUSPEND"]
    /\ timer' = [timer EXCEPT ![t] = (time = "ticks")]
    /\ call' = [call EXCEPT ![t] = c]
    /\ wait' = [wait EXCEPT ![list] = Inserted(@, t)]
    /\ UNCHANGED error

\* The caller t resets its error number, is put on the list (rt_ipc_list_suspend) and, if
\* it waits for a number of ticks, starts its timer.
Suspend(t, list, c, time) ==
    /\ stat' = [stat EXCEPT ![t] = "SUSPEND"]
    /\ timer' = [timer EXCEPT ![t] = (time = "ticks")]
    /\ call' = [call EXCEPT ![t] = c]
    /\ wait' = [wait EXCEPT ![list] = Inserted(@, t)]
    /\ error' = [error EXCEPT ![t] = "EOK"]

\* A list when the threads of T have been removed from it.
Without(list, T) ==
    LET kept[n \in 0..Len(list)] ==
            IF n = 0 THEN <<>>
            ELSE IF list[n] \in T THEN kept[n - 1] ELSE Append(kept[n - 1], list[n])
    IN kept[Len(list)]

\* rt_thread_resume for each thread of T.
Wake(T) ==
    /\ stat' = [t \in Thread |-> IF t \in T THEN "READY" ELSE stat[t]]
    /\ timer' = [t \in Thread |-> timer[t] /\ t \notin T]
    /\ wait' = [l \in Lists |-> Without(wait[l], T)]

\* rt_ipc_list_resume, if the list is not empty.
WakeFirst(list) == Wake(IF wait[list] = <<>> THEN {} ELSE {Head(wait[list])})

\* rt_ipc_list_resume_all for some lists.
WakeAll(lists) ==
    LET T == {t \in Thread : \E l \in lists : \E n \in 1..Len(wait[l]) : wait[l][n] = t} IN
    /\ Wake(T)
    /\ error' = [t \in Thread |-> IF t \in T THEN "ERROR" ELSE error[t]]

Return(c) == call' = [call EXCEPT ![c] = NoCall]

\* A mutant: the thread stays on the list.
Timeout_keeps_list(t) ==
    /\ timer[t]
    /\ stat' = [stat EXCEPT ![t] = "READY"] /\ timer' = [timer EXCEPT ![t] = FALSE]
    /\ error' = [error EXCEPT ![t] = "ERROR"]
    /\ UNCHANGED <<prio, call, wait, kind, flag, hist>>

\* rt_thread_timeout: the timer of a waiting thread has expired.
Timeout(t) ==
    /\ timer[t]
    /\ Wake({t})
    /\ error' = [error EXCEPT ![t] = "ERROR"]
    /\ UNCHANGED <<prio, call, kind, flag, hist>>

\* rt_thread_control(RT_THREAD_CTRL_CHANGE_PRIORITY): a suspended thread keeps its place in
\* the list it is on.
ChangePriority(t, p) == prio' = [prio EXCEPT ![t] = p]

\* The ticks left to a thread that was resumed, and has nothing yet.
Remaining(time) == IF time = "ticks" THEN {"ticks", "none"} ELSE {time}
=============================================================================
