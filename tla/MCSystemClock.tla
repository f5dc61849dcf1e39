---------------------------- MODULE MCSystemClock ----------------------------
(* Both kinds of part, a frequency of each voltage range and one for the      *)
(* low-power regulator, and two users of a peripheral: see MCSystemClock.cfg. *)
EXTENDS SystemClock
=============================================================================
