----------------------------- MODULE MCRecovery -----------------------------
(* One psoc with one vdev, and one thread of each kind.                    *)
EXTENDS Recovery

CONSTANTS d, p, v, worker, opener, idle, unloader, user

MCPsoc == {p}
MCVdev == {v}
MCPsocOf == [n \in MCVdev |-> p]
MCThread == {worker, opener, idle, unloader, user}
MCUser == {user}
=============================================================================
