-------------------------------- MODULE Kernel --------------------------------
(***************************************************************************)
(* Three services of the kernel, each under any sequence of calls: the     *)
(* scheduler with its timers, the heap, and the asynchronous output of     *)
(* ulog.  They share no state, so that what each of them does is examined  *)
(* with the other two at rest.                                             *)
(***************************************************************************)
EXTENDS Sched, Heap, Ulog

VARIABLE service    \* the service that is examined

vars == <<service, schedVars, heapVars, ulogVars>>

Init ==
    /\ service \in {"sched", "heap", "ulog"}
    /\ InitSched /\ InitHeap /\ InitUlog

Next ==
    /\ UNCHANGED service
    /\ \/ service = "sched" /\ NextSched /\ UNCHANGED <<heapVars, ulogVars>>
       \/ service = "heap" /\ NextHeap /\ UNCHANGED <<schedVars, ulogVars>>
       \/ service = "ulog" /\ NextUlog /\ UNCHANGED <<schedVars, heapVars>>

\* The tick interrupt keeps coming, and a thread that locks the scheduler unlocks it.
Fairness ==
    /\ WF_tick(service = "sched" /\ tick' = (tick + 1) % TickMod)
    /\ WF_nest(service = "sched" /\ nest > 0 /\ nest' = nest - 1)

Spec == Init /\ [][Next]_vars /\ Fairness
=============================================================================
