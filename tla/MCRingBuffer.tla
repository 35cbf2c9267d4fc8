---------------------------- MODULE MCRingBuffer -----------------------------
(* Small instance of RingBuffer: three byte places, two byte values, blocks *)
(* one byte longer than the pool.                                           *)
EXTENDS RingBuffer
=============================================================================
