------------------------------- MODULE MCKernel -------------------------------
(***************************************************************************)
(* The kernel services for TLC: a thread of high priority, two of the same *)
(* lower one and the idle thread, with a tick counter that wraps after     *)
(* every few ticks; two threads on a heap of three small blocks or one     *)
(* large one; two logging threads, an interrupt handler that logs and the  *)
(* output thread on a buffer of three cells.                               *)
(***************************************************************************)
EXTENDS Kernel

CONSTANTS hi, lo1, lo2, idle, c1, c2, log1, log2

MCTaskPrio == (hi :> 0) @@ (lo1 :> 1) @@ (lo2 :> 1) @@ (idle :> 2)
MCSlice == (hi :> 1) @@ (lo1 :> 2) @@ (lo2 :> 1) @@ (idle :> 1)
=============================================================================
