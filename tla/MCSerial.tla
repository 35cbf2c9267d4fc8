------------------------------ MODULE MCSerial ------------------------------
(* Reception on uart1 for TLC; the bounds are in the configurations. *)
EXTENDS Serial
=============================================================================
