-------------------------------- MODULE Sched ---------------------------------
(***************************************************************************)
(* Scheduler, threads, thread timers and clock (rt-thread/src/scheduler.c, *)
(* thread.c, timer.c and clock.c) on one processor: the ready lists with   *)
(* their bit group, preemption, round robin, the scheduler lock, sleeping, *)
(* and the timer list under a tick counter that wraps.                     *)
(*                                                                         *)
(* A section under the interrupt lock is one step.  A thread that has      *)
(* changed what is ready calls rt_schedule in a step of its own (pc), so   *)
(* that interrupts come in between; so does an interrupt handler.  No      *)
(* interrupt has a higher priority than the system tick: its handler is    *)
(* one step, and may come between the two of another handler.              *)
(*                                                                         *)
(* This firmware starts no timers but those of threads, always under the   *)
(* interrupt lock.  They are one-shot, and active when they are listed.    *)
(***************************************************************************)
EXTENDS Integers, FiniteSets, SequencesExt

CONSTANTS
    Task,           \* the threads
    IdleTask,       \* the idle thread, which is always ready
    TaskPrio,       \* their own priorities: the smaller number goes first
    Slice,          \* thread->init_tick of the threads
    TickMod,        \* 2^32 in the code: the tick counter wraps
    Delays,         \* the times a thread may sleep, in ticks
    Forever,        \* RT_WAITING_FOREVER
    MaxNest         \* bound: the depth of the scheduler lock

TickMax == TickMod - 1

\* rt_timer_start asserts that a delay is shorter than half of RT_TICK_MAX.
ASSUME SchedAssumption ==
    /\ IsFiniteSet(Task) /\ IdleTask \in Task
    /\ TaskPrio \in [Task -> Nat] /\ Slice \in [Task -> Nat \ {0}]
    /\ \A t \in Task \ {IdleTask} : TaskPrio[t] < TaskPrio[IdleTask]
    /\ TickMod \in Nat /\ TickMod > 4 /\ \A d \in Delays : d \in Nat /\ d < TickMax \div 2
    /\ Forever \notin Delays

VARIABLES
    sch,        \* the scheduler, see InitSched
    nest,       \* rt_scheduler_lock_nest
    pc,         \* a thread's next step: "run" on, or its call of "rt_schedule"
    isr,        \* a handler's next step: "none", or its call of "rt_schedule"
    tick,       \* rt_tick
    remaining,  \* thread->remaining_tick
    timers,     \* rt_timer_list, the threads whose timers run
    timeout,    \* timer->timeout_tick of a running timer, else 0
    left        \* history: the ticks until a running timer is due, else 0

schedVars == <<sch, nest, pc, isr, tick, remaining, timers, timeout, left>>

Priorities == {TaskPrio[t] : t \in Task}

\* After rt_system_scheduler_start: a thread of the highest priority runs, the others are
\* ready in some order (rt_thread_yield leads to the others).
InitSched ==
    /\ \E first \in {t \in Task : \A u \in Task : TaskPrio[t] <= TaskPrio[u]} :
          LET others(p) == {t \in Task \ {first} : TaskPrio[t] = p}
              table == [p \in Priorities |-> SetToSeq(others(p))] IN
             sch = [current |-> first,                       \* rt_current_thread
                    stat |-> [t \in Task |-> "READY"],       \* thread->stat
                    prio |-> TaskPrio,                       \* thread->current_priority
                    table |-> table,                         \* rt_thread_priority_table
                    group |-> {p \in Priorities : table[p] # <<>>},
                                                       \* rt_thread_ready_priority_group
                    lowered |-> FALSE]    \* history: MutexReleasesAlone since rt_schedule
    /\ nest = 0 /\ pc = [t \in Task |-> "run"] /\ isr = "none"
    /\ tick = 0 /\ remaining = Slice
    /\ timers = <<>> /\ timeout = [t \in Task |-> 0] /\ left = [t \in Task |-> 0]

-----------------------------------------------------------------------------
(* The scheduler, as functions of its state s.                             *)

\* rt_schedule_insert_thread.
ScheduleInsert(s, t) ==
    LET p == s.prio[t]
        r == [s EXCEPT !.stat[t] = "READY"]
    IN IF t = s.current THEN r
       ELSE [r EXCEPT !.table[p] = Append(@, t), !.group = @ \cup {p}]

\* A mutant: the bit goes with the first thread that leaves the list.
ScheduleRemove_bit(s, t) ==
    LET p == s.prio[t] IN
    [s EXCEPT !.table = [q \in Priorities |-> RemoveFirst(s.table[q], t)],
              !.group = @ \ {p}]

\* rt_schedule_remove_thread.
ScheduleRemove(s, t) ==
    LET p == s.prio[t]
        table == [q \in Priorities |-> RemoveFirst(s.table[q], t)]
    IN [s EXCEPT !.table = table, !.group = IF table[p] = <<>> THEN @ \ {p} ELSE @]

\* rt_schedule: a ready current thread goes on if its priority is higher than that of all
\* others, else behind those of its priority.
Schedule(s) ==
    LET highest == Min(s.group)
        ready == s.stat[s.current] = "READY"
        to == IF ready /\ s.prio[s.current] < highest THEN s.current
              ELSE Head(s.table[highest])
        r == [s EXCEPT !.current = to, !.lowered = FALSE]
    IN IF nest # 0 \/ s.group = {} THEN s
       ELSE IF to = s.current THEN ScheduleRemove(r, to)
       ELSE ScheduleRemove(IF ready THEN ScheduleInsert(r, s.current) ELSE r, to)

-----------------------------------------------------------------------------
(* Timers.                                                                 *)

Running == Range(timers)

\* rt_timer_stop.
TimerStop(t) ==
    /\ timers' = RemoveFirst(timers, t)
    /\ timeout' = [timeout EXCEPT ![t] = 0]
    /\ left' = [left EXCEPT ![t] = 0]

\* A mutant: the ticks of two timers are compared as they are.
Later_plain(u, at) == timeout[u] > at

\* The running timer u times out later than at, as far as unsigned ticks tell.
Later(u, at) ==
    LET difference == (timeout[u] - at) % TickMod IN difference # 0 /\ difference < TickMax \div 2

\* rt_timer_start, for a timer that is not running: its place is behind those that time
\* out at the same tick.
TimerStart(t, d) ==
    LET at == (tick + d) % TickMod
        later == {n \in 1..Len(timers) : Later(timers[n], at)}
        n == IF later = {} THEN Len(timers) + 1 ELSE Min(later)
    IN /\ timers' = InsertAt(timers, n, t)
       /\ timeout' = [timeout EXCEPT ![t] = at]
       /\ left' = [left EXCEPT ![t] = d]

-----------------------------------------------------------------------------
(* Threads.                                                                *)

Runs(t) == sch.current = t /\ isr = "none" /\ pc[t] = "run"

\* The running thread makes a call that ends with rt_schedule.
Calls(t) ==
    /\ Runs(t)
    /\ pc' = [pc EXCEPT ![t] = "rt_schedule"]

\* rt_thread_suspend of the current thread.
Suspended(s, t) == ScheduleRemove([s EXCEPT !.stat[t] = "SUSPEND"], t)

\* It waits for a number of ticks or until it is resumed.
Waits(t, d) == IF d = Forever THEN TimerStop(t) ELSE TimerStart(t, d)

\* rt_thread_sleep, or a call of ipc.c that waits.  (No call of this firmware waits with
\* the scheduler locked.)
ThreadSleep(t, d) ==
    /\ Calls(t) /\ t # IdleTask /\ nest = 0
    /\ sch' = Suspended(sch, t)
    /\ Waits(t, d)
    /\ UNCHANGED <<nest, isr, tick, remaining>>

\* rt_thread_resume.
ThreadResume(t) ==
    /\ sch.stat[t] = "SUSPEND"
    /\ sch' = ScheduleInsert(sch, t)
    /\ TimerStop(t)

\* A call that resumes a waiting thread: a release or a send of ipc.c.
ThreadWakes(t, u) ==
    /\ Calls(t) /\ ThreadResume(u)
    /\ UNCHANGED <<nest, isr, tick, remaining>>

\* rt_thread_control(RT_THREAD_CTRL_CHANGE_PRIORITY).
ChangedPriority(s, t, p) ==
    IF s.stat[t] = "READY"
      THEN ScheduleInsert([ScheduleRemove(s, t) EXCEPT !.prio[t] = p], t)
      ELSE [s EXCEPT !.prio[t] = p]

\* rt_mutex_take that has to wait for a mutex which u has: u inherits the priority.
MutexWaits(t, u, d) ==
    /\ Calls(t) /\ {t, u} \cap {IdleTask} = {} /\ nest = 0
    /\ sch.prio[t] < sch.prio[u]
    /\ sch' = Suspended(ChangedPriority(sch, u, sch.prio[t]), t)
    /\ Waits(t, d)
    /\ UNCHANGED <<nest, isr, tick, remaining>>

\* rt_mutex_release by a thread that has inherited a priority: it gets its own one back,
\* and the first waiting thread the mutex.
MutexReleases(t, u) ==
    /\ Calls(t)
    /\ sch.prio[t] # TaskPrio[t] /\ sch.stat[u] = "SUSPEND"
    /\ sch' = ScheduleInsert(ChangedPriority(sch, t, TaskPrio[t]), u)
    /\ TimerStop(u)
    /\ UNCHANGED <<nest, isr, tick, remaining>>

\* The same if nobody waits any more: rt_schedule is not called.
MutexReleasesAlone(t) ==
    /\ Runs(t)
    /\ sch.prio[t] # TaskPrio[t]
    /\ sch' = [ChangedPriority(sch, t, TaskPrio[t]) EXCEPT !.lowered = TRUE]
    /\ UNCHANGED <<nest, pc, isr, tick, remaining, timers, timeout, left>>

\* rt_thread_yield.
ThreadYield(t) ==
    /\ Calls(t)
    /\ UNCHANGED <<sch, nest, isr, tick, remaining, timers, timeout, left>>

\* rt_enter_critical.
EnterCritical(t) ==
    /\ Runs(t) /\ nest < MaxNest
    /\ nest' = nest + 1
    /\ UNCHANGED <<sch, pc, isr, tick, remaining, timers, timeout, left>>

\* A mutant: the lock is left without rt_schedule.
ExitCritical_no_schedule(t) ==
    /\ Runs(t) /\ nest > 0
    /\ nest' = nest - 1
    /\ UNCHANGED <<sch, pc, isr, tick, remaining, timers, timeout, left>>

\* rt_exit_critical.
ExitCritical(t) ==
    /\ Runs(t) /\ nest > 0
    /\ nest' = nest - 1
    /\ pc' = IF nest = 1 THEN [pc EXCEPT ![t] = "rt_schedule"] ELSE pc
    /\ UNCHANGED <<sch, isr, tick, remaining, timers, timeout, left>>

\* The call of rt_schedule, in a thread and in an interrupt handler.
ThreadSchedules(t) ==
    /\ sch.current = t /\ isr = "none" /\ pc[t] = "rt_schedule"
    /\ sch' = Schedule(sch)
    /\ pc' = [pc EXCEPT ![t] = "run"]
    /\ UNCHANGED <<nest, isr, tick, remaining, timers, timeout, left>>

IsrSchedules ==
    /\ isr = "rt_schedule"
    /\ sch' = Schedule(sch)
    /\ isr' = "none"
    /\ UNCHANGED <<nest, pc, tick, remaining, timers, timeout, left>>

\* An interrupt handler resumes a waiting thread.
IsrWakes(u) ==
    /\ isr = "none" /\ isr' = "rt_schedule"
    /\ ThreadResume(u)
    /\ UNCHANGED <<nest, pc, tick, remaining>>

-----------------------------------------------------------------------------
(* The system tick.                                                        *)

\* rt_thread_timeout.
ThreadTimeout(s, t) == Schedule(ScheduleInsert(s, t))

\* The condition of rt_timer_check.
Due(t, now) == (now - timeout[t]) % TickMod < TickMax \div 2

\* The scheduler, from s on, once the first timers of the list have timed out in turn.
TimedOut(s, last) ==
    LET after[n \in 0..last] == IF n = 0 THEN s ELSE ThreadTimeout(after[n - 1], timers[n])
    IN after[last]

\* rt_timer_check, from s on: the first timers of the list, up to one that is not due.
TimerCheck(s, now) ==
    LET waits == {n \in 1..Len(timers) : ~Due(timers[n], now)}
        last == IF waits = {} THEN Len(timers) ELSE Min(waits) - 1
        fired == {timers[n] : n \in 1..last}
    IN /\ sch' = TimedOut(s, last)
       /\ timers' = SubSeq(timers, last + 1, Len(timers))
       /\ timeout' = [t \in Task |-> IF t \in fired THEN 0 ELSE timeout[t]]
       /\ left' = [t \in Task |-> IF t \in Running \ fired THEN left[t] - 1 ELSE 0]

\* A mutant: the time slice ends and nobody yields.
TickIncrease_no_yield ==
    LET t == sch.current
        now == (tick + 1) % TickMod
        ends == remaining[t] = 1
    IN /\ tick' = now
       /\ remaining' = [remaining EXCEPT ![t] = IF ends THEN Slice[t] ELSE @ - 1]
       /\ TimerCheck(sch, now)
       /\ UNCHANGED <<nest, pc, isr>>

\* rt_tick_increase.
TickIncrease ==
    LET t == sch.current
        now == (tick + 1) % TickMod
        ends == remaining[t] = 1
    IN /\ tick' = now
       /\ remaining' = [remaining EXCEPT ![t] = IF ends THEN Slice[t] ELSE @ - 1]
       /\ TimerCheck(IF ends THEN Schedule(sch) ELSE sch, now)
       /\ UNCHANGED <<nest, pc, isr>>

-----------------------------------------------------------------------------

NextSched ==
    \/ \E t \in Task :
          \/ \E d \in Delays \cup {Forever} : ThreadSleep(t, d)
          \/ \E u \in Task : ThreadWakes(t, u)
          \/ \E u \in Task, d \in Delays \cup {Forever} : MutexWaits(t, u, d)
          \/ \E u \in Task : MutexReleases(t, u)
          \/ MutexReleasesAlone(t)
          \/ ThreadYield(t)
          \/ EnterCritical(t)
          \/ ExitCritical(t)
          \/ ThreadSchedules(t)
    \/ \E u \in Task : IsrWakes(u)
    \/ IsrSchedules
    \/ TickIncrease

-----------------------------------------------------------------------------
(* Properties.                                                             *)

\* Outside of the scheduler lock, and unless the thread or a handler is about to call
\* rt_schedule, the running thread is ready and no ready thread has a higher priority.  The
\* exception is a thread that has lost an inherited priority in rt_mutex_release with nobody
\* waiting any more, until the next rt_schedule.
HighestRuns ==
    nest = 0 /\ isr = "none" /\ pc[sch.current] = "run" /\ ~sch.lowered
        => /\ sch.stat[sch.current] = "READY"
           /\ \A t \in Task : sch.stat[t] = "READY" => sch.prio[sch.current] <= sch.prio[t]

\* Every ready thread but the running one is on the list of its present priority, once,
\* and no other thread is on a list; the bit group, from which rt_schedule takes the
\* highest priority, has the bits of the lists that are not empty.
ReadyListed ==
    /\ \A t \in Task, p \in Priorities :
          Cardinality({n \in 1..Len(sch.table[p]) : sch.table[p][n] = t})
            = IF sch.stat[t] = "READY" /\ t # sch.current /\ sch.prio[t] = p THEN 1 ELSE 0
    /\ sch.group = {p \in Priorities : sch.table[p] # <<>>}

\* A tick fires the timers whose time has come and no other, also when the tick counter
\* wraps, whatever was started and stopped in between.
OnTime ==
    [][tick' # tick => \A t \in Running : t \notin Range(timers') <=> left[t] <= 1]_schedVars

\* No thread runs for ever while another one of its priority is ready: its time slice ends.
\* (That does not give every one a turn: a thread chosen when a time slice ends goes behind
\* the others again, without having run, if a timer of the same tick makes one ready.)
FairShare ==
    \A t \in Task :
        []<>~ \E u \in Task \ {t} : /\ sch.current = t /\ sch.stat[u] = "READY"
                                    /\ sch.prio[u] = sch.prio[t]
=============================================================================
