-------------------------------- MODULE MCHmi --------------------------------
(***************************************************************************)
(* Instances of Hmi for TLC: commands of each name, with values at the     *)
(* edges of their ranges, and unknown and incomplete ones.                 *)
(***************************************************************************)
EXTENDS Hmi

FourCommands == 
    {<<NameF0, 10000001>>, <<NameF0, 10000000>>, <<NameFp, 1000>>, <<3>>}
=============================================================================
