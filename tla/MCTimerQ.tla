------------------------------ MODULE MCTimerQ ------------------------------
(* Small instances of NTimerQ for TLC.                                      *)
EXTENDS NTimerQ, TLC

CONSTANTS t1, t2

Swap == Permutations(Timer)
EveryDelay == 0..(Half - 1)
=============================================================================
