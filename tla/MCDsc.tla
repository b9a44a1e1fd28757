------------------------------- MODULE MCDsc -------------------------------
(* Instances of Dsc for TLC: one psoc with two vdevs. *)
EXTENDS Dsc, TLC

CONSTANTS d, p, v1, v2, t1, t2, t3

MCPsoc == {p}
MCVdev == {v1, v2}
MCPsocOf == [v \in MCVdev |-> p]
MCThread == {t1, t2, t3}

AllNodes == {d, p, v1, v2}
PsocNodes == {p}

MCSymmetry == Permutations(MCThread) \cup Permutations(MCVdev)
=============================================================================
