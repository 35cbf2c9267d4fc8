----------------------------- MODULE MCUsbDevice -----------------------------
(* The USB device and its receive path for TLC.  Heap blocks are            *)
(* interchangeable.                                                         *)
EXTENDS UsbDevice, TLC

BlockSymmetry == Permutations(Blocks)
=============================================================================
