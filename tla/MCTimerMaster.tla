--------------------------- MODULE MCTimerMaster ---------------------------
(* Instances of TimerMaster for TLC.                                       *)
EXTENDS TimerMaster, TLC

Symmetry == Permutations(Timers)
=============================================================================
