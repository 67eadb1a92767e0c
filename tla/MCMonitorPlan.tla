---------------------------- MODULE MCMonitorPlan ----------------------------
(* Three monitors: two whose serials lead to one asset, and one with an    *)
(* asset of its own.                                                       *)
EXTENDS MonitorPlan, TLC
CONSTANTS s1, s2, s3, a1, a2

ThreeSerials == {s1, s2, s3}
TwoAssets == [s \in ThreeSerials |-> IF s = s3 THEN a2 ELSE a1]
Symmetric == Permutations({s1, s2})

=============================================================================
