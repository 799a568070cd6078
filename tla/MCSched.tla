------------------------------ MODULE MCSched ------------------------------
(* Small instances of NSched for TLC; the cfg files choose among these.     *)
EXTENDS NSched

CONSTANTS idle, a, b, c, sys, fm

Pri012 == 0..2

\* a and b at priority 1, c at 2.
PriAAC == (idle :> 0) @@ (a :> 1) @@ (b :> 1) @@ (c :> 2)
PriAA == (idle :> 0) @@ (a :> 1) @@ (b :> 1)

OneTick == [t \in Thread |-> IF t = idle THEN -1 ELSE 1]
TwoTicksAB == [t \in Thread |-> IF t \in {a, b} THEN 2 ELSE -1]

None == {}
Users == Thread \ {idle}
OnlyA == {a}
OnlyB == {b}
ASetsBothBSetsA == {<<a, a>>, <<a, b>>, <<b, a>>}
BControlsA == {<<b, a>>, <<a, a>>}
=============================================================================
