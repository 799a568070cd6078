------------------------------ MODULE MCDfc ------------------------------
(* Small instances of NDfc for TLC.                                         *)
EXTENDS NDfc

CONSTANTS i1, d1, d2, d3, q1

OneQueue == [x \in Dfc |-> q1]
Ranked == (d1 :> 0) @@ (d2 :> 1) @@ (d3 :> 0)
=============================================================================
