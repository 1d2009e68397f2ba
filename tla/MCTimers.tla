------------------------------ MODULE MCTimers -------------------------------
(* One application with two timers. *)
EXTENDS Timers

Delays == {-1, 1}
=============================================================================
