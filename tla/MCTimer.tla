------------------------------- MODULE MCTimer -------------------------------
(* The timers are interchangeable: no definition of Timer tells them apart. *)
EXTENDS Timer, TLC

Symmetry == Permutations(Timers)
=============================================================================
