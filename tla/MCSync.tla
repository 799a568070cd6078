------------------------------- MODULE MCSync -------------------------------
(* Small instances of KThread for TLC; the cfg files choose among these.    *)
EXTENDS KThread

CONSTANTS t1, t2, t3, m1, m2, sem, cv

Pri123ByThread == (t1 :> 1) @@ (t2 :> 2) @@ (t3 :> 3)

\* m1 is taken before m2.
Descending == [x \in Mutex |-> IF x = m1 THEN 2 ELSE 1]
Pri123 == 1..3
T3ControlsT2 == {<<t3, t2>>}
T3Deletes == {t3} \X Obj
LowersT2 == {<<t2, 2>>, <<t2, 1>>}
=============================================================================
