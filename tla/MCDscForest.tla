----------------------------- MODULE MCDscForest -----------------------------
(* Instances of Dsc for TLC: two psocs, one of them with two vdevs. *)
EXTENDS Dsc, TLC

CONSTANTS d, p1, p2, v1, v2, v3, t1, t2, t3, t4

MCPsoc == {p1, p2}
MCVdev == {v1, v2, v3}
MCPsocOf == [v \in MCVdev |-> IF v = v3 THEN p2 ELSE p1]
MCThread == {t1, t2, t3, t4}

MCSymmetry == Permutations(MCThread) \cup Permutations({v1, v2})
=============================================================================
