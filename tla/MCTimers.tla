------------------------------ MODULE MCTimers ------------------------------
(***************************************************************************)
(* Timers on a small instance.                                             *)
(***************************************************************************)
EXTENDS Timers

(* Twice in one turn of the clock, and once past its end.                  *)
Intervals == {1, 3}

(* For ever, and a count that takes more than one firing.                  *)
Repetitions == {0, 2}
=============================================================================
