------------------------------ MODULE MCWheel ------------------------------
(***************************************************************************)
(* Three wheels and one timer, set at any distance within a turn of the    *)
(* greatest wheel (24) and a little in the past.  Timers do not influence  *)
(* one another but by the time their tasks take, for which Lag stands.     *)
(***************************************************************************)
EXTENDS Wheel

MCScales == <<2, 3, 2>>
MCUnit   == <<12, 4, 2>>
MCDelay  == -1 .. 21
=============================================================================
