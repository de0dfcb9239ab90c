--------------------------- MODULE MCClientAgent ---------------------------
(***************************************************************************)
(* Small instances of ClientAgent for TLC.  A tick is 15 minutes; the      *)
(* window is one tick, as max(15 minutes, lifetime / 4) is for a lifetime  *)
(* of up to four ticks, the 1h of profile end_of_life.                     *)
(***************************************************************************)
EXTENDS ClientAgent
=============================================================================
