------------------------------- MODULE MCOsif -------------------------------
(* Instances of OsifVdevSync for TLC: one psoc, two slots. *)
EXTENDS OsifVdevSync, TLC

CONSTANTS d, p, v1, v2, w1, w2, t1, t2, t3

MCPsoc == {p}
MCVdev == {v1, v2}
MCPsocOf == [v \in MCVdev |-> p]
MCThread == {t1, t2, t3}
MCSlot == 1..2
OneDev == {w1}
TwoDevs == {w1, w2}

\* Who plays which role.  Requests of user space to delete interfaces come
\* one at a time, under the RTNL lock, so that one deleter stands for all; the
\* work handler hdd_lpc_work_handler, which takes no such lock, is a second.
Nobody == {}
ThreadOne == {t1}
ThreadTwo == {t2}
ThreadThree == {t3}
ThreadsOneTwo == {t1, t2}
ThreadsTwoThree == {t2, t3}
=============================================================================
