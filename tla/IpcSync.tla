------------------------------- MODULE IpcSync --------------------------------
(***************************************************************************)
(* Semaphore, mutex and event (rt-thread/src/ipc.c).                       *)
(*                                                                         *)
(* A semaphore's value is an unsigned number of 16 bits in the code, the   *)
(* hold count of a mutex one of 8 bits; they wrap at SemMod and HoldMod    *)
(* here.  A mutex hands itself over to the first waiting thread, and lends *)
(* its owner the priority of a waiting thread.                             *)
(***************************************************************************)
EXTENDS IpcThreads

CONSTANTS
    SemMod,         \* 2^16 in the code
    HoldMod,        \* 2^8 in the code
    Bits            \* the bits of an event

ASSUME SyncAssumption == SemMod \in Nat \ {0, 1} /\ HoldMod \in Nat \ {0, 1}

VARIABLES
    value,      \* sem->value
    owed,       \* history: units released and not yet taken
    mutex,      \* the mutexes: [value, owner, original_priority, hold]
    held,       \* history: the mutexes a thread has taken, in order
    events      \* event->set

syncVars == <<value, owed, mutex, held, events>>
NoPriority == 255

\* rt_sem_init with the value 0.
InitSem == value = 0 /\ owed = 0

\* rt_mutex_init.
InitMutex ==
    /\ mutex = [m \in Mutex |-> [value |-> 1, owner |-> Null,
                                 original_priority |-> NoPriority, hold |-> 0]]
    /\ held = [t \in Thread |-> <<>>]

\* rt_event_init.
InitEvent == events = {}

InitSync == InitSem /\ InitMutex /\ InitEvent

-----------------------------------------------------------------------------
(* Semaphore.                                                              *)

\* rt_sem_take, and rt_sem_trytake with time "none".
SemTake(c, time) ==
    /\ kind = "sem" /\ Idle(c) /\ Allowed(c, time)
    /\ \/ /\ value > 0
          /\ value' = value - 1 /\ owed' = owed - 1
          /\ UNCHANGED threadVars
       \/ /\ value = 0 /\ time # "none"
          /\ Suspend(c, "sem", [op |-> "sem_take"], time)
          /\ UNCHANGED <<prio, value, owed>>
    /\ UNCHANGED <<mutex, held, events, hist>>

\* rt_sem_take behind rt_schedule().
SemTaken(t) ==
    /\ Resumed(t, "sem_take")
    /\ owed' = IF error[t] = "EOK" THEN owed - 1 ELSE owed
    /\ Return(t)
    /\ UNCHANGED <<stat, error, timer, prio, wait, value, mutex, held, events, hist>>

\* A mutant: the value counts every release.
SemRelease_counts(c) ==
    /\ kind = "sem" /\ Idle(c)
    /\ WakeFirst("sem")
    /\ value' = (value + 1) % SemMod
    /\ owed' = owed + 1
    /\ hist' = IF value + 1 = SemMod THEN hist \cup {"wrapped"} ELSE hist
    /\ "wrapped" \notin hist
    /\ UNCHANGED <<error, prio, call, mutex, held, events>>

\* rt_sem_release: the unit goes to the first waiting thread or into the value.  After
\* the value has wrapped the count is not followed.
SemRelease(c) ==
    /\ kind = "sem" /\ Idle(c) /\ "wrapped" \notin hist
    /\ WakeFirst("sem")
    /\ value' = IF wait["sem"] = <<>> THEN (value + 1) % SemMod ELSE value
    /\ hist' = IF wait["sem"] = <<>> /\ value + 1 = SemMod THEN hist \cup {"wrapped"} ELSE hist
    /\ owed' = owed + 1
    /\ UNCHANGED <<error, prio, call, mutex, held, events>>

\* rt_sem_control(RT_IPC_CMD_RESET).
SemReset(c, v) ==
    /\ kind = "sem" /\ Idle(c)
    /\ WakeAll({"sem"})
    /\ value' = v
    /\ owed' = v + Cardinality(ResumedWell("sem_take"))
    /\ UNCHANGED <<prio, call, mutex, held, events, hist>>

-----------------------------------------------------------------------------
(* Mutex.                                                                  *)

Count(m, s) == Cardinality({n \in 1..Len(s) : s[n] = m})

\* The thread has the mutex once more.
Has(t, m) == held' = [held EXCEPT ![t] = Append(@, m)]

\* The thread asks for a mutex: "nested" if it has another one, "overheld" if it has this
\* one and the hold count has come round to 0.
Asks(t, m) ==
    hist' = hist \cup {h \in {"nested", "overheld"} :
        IF h = "nested" THEN \E n \in 1..Len(held[t]) : held[t][n] # m
                        ELSE mutex[m].owner = t /\ mutex[m].hold = 0}

\* A mutant: a waiting thread lends its priority to an owner of a higher one, too.
Lend_always(t, m) == ChangePriority(mutex[m].owner, prio[t])

\* The owner inherits the priority of a thread that is about to wait.
Lend(t, m) ==
    IF prio[t] < prio[mutex[m].owner] THEN ChangePriority(mutex[m].owner, prio[t])
                                      ELSE UNCHANGED prio

\* rt_mutex_take.  Once the hold count has gone past 0 the mutexes are not followed.
MutexTake(t, m, time) ==
    /\ kind = "mutex" /\ Idle(t) /\ "overheld" \notin hist
    /\ Asks(t, m)
    /\ \/ /\ mutex[m].owner = t
          /\ mutex' = [mutex EXCEPT ![m].hold = (@ + 1) % HoldMod]
          /\ error' = [error EXCEPT ![t] = "EOK"]
          /\ Has(t, m)
          /\ UNCHANGED <<stat, timer, prio, call, wait>>
       \/ /\ mutex[m].owner # t /\ mutex[m].value > 0
          /\ mutex' = [mutex EXCEPT ![m] =
                [value |-> @.value - 1, owner |-> t, original_priority |-> prio[t],
                 hold |-> @.hold + 1]]
          /\ error' = [error EXCEPT ![t] = "EOK"]
          /\ Has(t, m)
          /\ UNCHANGED <<stat, timer, prio, call, wait>>
       \/ /\ mutex[m].owner # t /\ mutex[m].value = 0 /\ time = "none"
          /\ error' = [error EXCEPT ![t] = "ERROR"]
          /\ UNCHANGED <<stat, timer, prio, call, wait, mutex, held>>
       \/ /\ mutex[m].owner # t /\ mutex[m].value = 0 /\ time # "none"
          /\ Lend(t, m)
          /\ Suspend(t, m, [op |-> "mutex_take", m |-> m], time)
          /\ UNCHANGED <<mutex, held>>
    /\ UNCHANGED <<value, owed, events>>

\* rt_mutex_take behind rt_schedule(): the mutex has been handed over, or the wait failed.
MutexTaken(t) ==
    /\ Resumed(t, "mutex_take")
    /\ IF error[t] = "EOK" THEN Has(t, call[t].m) ELSE UNCHANGED held
    /\ Return(t)
    /\ UNCHANGED <<stat, error, timer, prio, wait, value, owed, mutex, events, hist>>

\* The releasing thread has the mutex once less; "crossed" if it took another one after it.
Drops(t, m) ==
    LET s == held[t]
        n == CHOOSE k \in 1..Len(s) : s[k] = m /\ \A j \in k + 1..Len(s) : s[j] # m
    IN /\ held' = [held EXCEPT ![t] = SubSeq(s, 1, n - 1) \o SubSeq(s, n + 1, Len(s))]
       /\ hist' = IF n = Len(s) THEN hist ELSE hist \cup {"crossed"}

\* A mutant: the priority is not restored.
HandOver_keeps_priority(t, m) ==
    /\ UNCHANGED prio
    /\ WakeFirst(m)
    /\ mutex' = [mutex EXCEPT ![m] =
          IF wait[m] # <<>>
            THEN [@ EXCEPT !.owner = Head(wait[m]), !.hold = 1,
                           !.original_priority = prio[Head(wait[m])]]
            ELSE [value |-> @.value + 1, owner |-> Null,
                  original_priority |-> NoPriority, hold |-> 0]]

\* The last hold of t is gone: its priority goes back to what it was when it took the
\* mutex, and the mutex to the first waiting thread, if there is one.
HandOver(t, m) ==
    /\ ChangePriority(t, mutex[m].original_priority)
    /\ WakeFirst(m)
    /\ mutex' = [mutex EXCEPT ![m] =
          IF wait[m] # <<>>
            THEN [@ EXCEPT !.owner = Head(wait[m]), !.hold = 1,
                           !.original_priority = prio[Head(wait[m])]]
            ELSE [value |-> @.value + 1, owner |-> Null,
                  original_priority |-> NoPriority, hold |-> 0]]

\* rt_mutex_release.
MutexRelease(t, m) ==
    /\ kind = "mutex" /\ Idle(t) /\ "overheld" \notin hist
    /\ \/ /\ mutex[m].owner # t
          /\ error' = [error EXCEPT ![t] = "ERROR"]
          /\ UNCHANGED <<stat, timer, prio, wait, mutex, held, hist>>
       \/ /\ mutex[m].owner = t /\ mutex[m].hold # 1
          /\ mutex' = [mutex EXCEPT ![m].hold = (@ - 1) % HoldMod]
          /\ Drops(t, m)
          /\ UNCHANGED <<stat, error, timer, prio, wait>>
       \/ /\ mutex[m].owner = t /\ mutex[m].hold = 1
          /\ HandOver(t, m)
          /\ Drops(t, m)
          /\ UNCHANGED error
    /\ UNCHANGED <<call, value, owed, events>>

-----------------------------------------------------------------------------
(* Event.                                                                  *)

\* The condition of a receiver that asks for the bits s, all or any of them.
Satisfied(s, all, set) == IF all THEN s \subseteq set ELSE s \cap set # {}

\* rt_event_recv.
EventRecv(t, s, all, clear, time) ==
    /\ kind = "event" /\ Idle(t) /\ s # {}
    /\ \/ /\ Satisfied(s, all, events)
          /\ events' = IF clear THEN events \ s ELSE events
          /\ error' = [error EXCEPT ![t] = "EOK"]
          /\ UNCHANGED <<stat, timer, prio, call, wait>>
       \/ /\ ~Satisfied(s, all, events) /\ time = "none"
          /\ error' = [error EXCEPT ![t] = "ERROR"]
          /\ UNCHANGED <<stat, timer, prio, call, wait, events>>
       \/ /\ ~Satisfied(s, all, events) /\ time # "none"
          /\ Suspend(t, "event", [op |-> "event_recv", set |-> s, all |-> all,
                                  clear |-> clear], time)
          /\ UNCHANGED <<prio, events>>
    /\ UNCHANGED <<value, owed, mutex, held, hist>>

EventReceived(t) ==
    /\ Resumed(t, "event_recv")
    /\ Return(t)
    /\ UNCHANGED <<stat, error, timer, prio, wait, syncVars, hist>>

\* The waiting threads in the order of the list: one whose condition is satisfied is
\* resumed with the bits it asked for (woken[t]) and may clear them for those behind it.
Deliver(set) ==
    LET w == wait["event"]
        after[n \in 0..Len(w)] ==
            IF n = 0 THEN [set |-> set, woken |-> <<>>]
            ELSE LET a == after[n - 1]
                     c == call[w[n]]
                     bits == IF c.all THEN c.set ELSE c.set \cap a.set
                 IN IF ~Satisfied(c.set, c.all, a.set) THEN a
                    ELSE [set |-> IF c.clear THEN a.set \ bits ELSE a.set,
                          woken |-> [t \in DOMAIN a.woken \cup {w[n]} |->
                                        IF t = w[n] THEN bits ELSE a.woken[t]]]
    IN after[Len(w)]

\* rt_event_send.
EventSend(c, s) ==
    LET d == Deliver(events \cup s) IN
    /\ kind = "event" /\ Idle(c) /\ s # {}
    /\ events' = d.set
    /\ Wake(DOMAIN d.woken)
    /\ call' = [t \in Callers |-> IF t \in DOMAIN d.woken
                                    THEN [call[t] EXCEPT !.set = d.woken[t]] ELSE call[t]]
    /\ UNCHANGED <<error, prio, value, owed, mutex, held, hist>>

\* rt_event_control(RT_IPC_CMD_RESET).
EventReset(c) ==
    /\ kind = "event" /\ Idle(c)
    /\ WakeAll({"event"})
    /\ events' = {}
    /\ UNCHANGED <<prio, call, value, owed, mutex, held, hist>>

-----------------------------------------------------------------------------

\* (To ask for all or for any of one bit is the same.)
NextSync ==
    \/ \E c \in Callers, time \in Times : SemTake(c, time)
    \/ \E t \in Thread : SemTaken(t)
    \/ \E c \in Callers : SemRelease(c)
    \/ \E c \in Callers, v \in {0, 1} : SemReset(c, v)
    \/ \E t \in Thread, m \in Mutex, time \in Times : MutexTake(t, m, time)
    \/ \E t \in Thread : MutexTaken(t)
    \/ \E t \in Thread, m \in Mutex : MutexRelease(t, m)
    \/ \E t \in Thread, s \in SUBSET Bits, all, clear \in BOOLEAN, time \in Times :
           (Cardinality(s) = 1 => all) /\ EventRecv(t, s, all, clear, time)
    \/ \E t \in Thread : EventReceived(t)
    \/ \E c \in Callers, s \in SUBSET Bits : EventSend(c, s)
    \/ \E c \in Callers : EventReset(c)
=============================================================================
