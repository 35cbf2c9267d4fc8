-------------------------------- MODULE MCIpc ---------------------------------
(* Three threads, two of them of one priority, for TLC.  Those two, the      *)
(* mutexes and the bits of an event are interchangeable.                     *)
EXTENDS Ipc, TLC

CONSTANTS t1, t2, t3

MCPrio == t1 :> 8 @@ t2 :> 16 @@ t3 :> 16

IpcSymmetry == Permutations({t2, t3}) \cup Permutations(Mutex) \cup Permutations(Bits)
=============================================================================
