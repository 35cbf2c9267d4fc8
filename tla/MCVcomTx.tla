------------------------------ MODULE MCVcomTx -------------------------------
(***************************************************************************)
(* Instances of VcomTx for TLC.  BulkMax is a multiple of MaxPacket, as in *)
(* the code (128 and 64), so that whole requests and requests with a short *)
(* last packet both occur.                                                 *)
(***************************************************************************)
EXTENDS VcomTx, TLC

CONSTANTS w1, w2

WriterSymmetry == Permutations(Writers)
=============================================================================
