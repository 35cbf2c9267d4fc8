------------------------------ MODULE MCConsole ------------------------------
(* Instances of Console for TLC.                                           *)
EXTENDS Console

\* Nothing is claimed of a state after a torn open or close, and torn stays TRUE: such
\* states are not explored further.
NotTorn == ~torn
=============================================================================
