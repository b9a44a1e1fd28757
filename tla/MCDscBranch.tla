---------------------------- MODULE MCDscBranch ----------------------------
(* Instances of Dsc for TLC: a single branch, one vdev below one psoc. *)
EXTENDS Dsc, TLC

CONSTANTS d, p, v1, t1, t2, t3

MCPsoc == {p}
MCVdev == {v1}
MCPsocOf == [v \in MCVdev |-> p]
MCThread == {t1, t2, t3}

AllNodes == {d, p, v1}
=============================================================================
