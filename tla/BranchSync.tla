----------------------------- MODULE BranchSync -----------------------------
(***************************************************************************)
(* What a tree synchronisation layer promises its clients, with no trees,  *)
(* queues or events: who may own or use which node at the same time.       *)
(*                                                                         *)
(* A thread asks for a node, owns it, and may make sure that nobody works  *)
(* in its scope; or it works on a node alongside others.  Owners exclude   *)
(* each other along a branch, and no work begins on a branch with an       *)
(* owner.  A release may hand nodes over to any number of threads that     *)
(* asked, provided that these exclude each other too.                      *)
(***************************************************************************)
CONSTANTS
    Node,
    Thread,
    Branch,     \* Branch[n]: the nodes on one branch with n, n among them
    Scope,      \* Scope[n]: where an owner of n may rule out work
    None

VARIABLES
    mode,       \* what each thread is doing
    on          \* the node it is doing it on

vars == <<mode, on>>

Modes == {"out", "asks", "owns", "sure", "works"}

Owning(t) == mode[t] \in {"owns", "sure"}

\* Nobody but the threads of S owns anything on n's branch.
Free(n, S) == \A t \in Thread \ S : Owning(t) => on[t] \notin Branch[n]

Move(t, m, n) == mode' = [mode EXCEPT ![t] = m] /\ on' = [on EXCEPT ![t] = n]

Init == mode = [t \in Thread |-> "out"] /\ on = [t \in Thread |-> None]

Ask(t, n) == mode[t] = "out" /\ Move(t, "asks", n)

Own(t, n) == mode[t] = "out" /\ Free(n, {}) /\ Move(t, "owns", n)

Work(t, n) == mode[t] = "out" /\ Free(n, {}) /\ Move(t, "works", n)

GiveUp(t) == mode[t] \in {"asks", "works"} /\ Move(t, "out", None)

MakeSure(t) ==
    /\ mode[t] = "owns"
    /\ \A u \in Thread : mode[u] = "works" => on[u] \notin Scope[on[t]]
    /\ Move(t, "sure", on[t])

Release(t, G) ==
    /\ Owning(t)
    /\ \A u \in G : mode[u] = "asks" /\ Free(on[u], {t})
    /\ \A u, w \in G : u # w => on[w] \notin Branch[on[u]]
    /\ mode' = [u \in Thread |-> IF u = t THEN "out"
                                 ELSE IF u \in G THEN "owns" ELSE mode[u]]
    /\ on' = [on EXCEPT ![t] = None]

Next ==
    \E t \in Thread :
        \/ \E n \in Node : Ask(t, n) \/ Own(t, n) \/ Work(t, n)
        \/ GiveUp(t)
        \/ MakeSure(t)
        \/ \E G \in SUBSET Thread : Release(t, G)

Spec == Init /\ [][Next]_vars

-----------------------------------------------------------------------------
(* What it is worth.                                                       *)

TypeOK ==
    /\ mode \in [Thread -> Modes]
    /\ on \in [Thread -> Node \cup {None}]
    /\ \A t \in Thread : mode[t] # "out" => on[t] \in Node

\* To be on one branch is mutual, and a scope lies on its branch.
Branches ==
    /\ \A m, n \in Node : m \in Branch[n] => n \in Branch[m]
    /\ \A n \in Node : Scope[n] \subseteq Branch[n]

\* Two owners are never on one branch.
OwnersApart ==
    \A t, u \in Thread :
        t # u /\ Owning(t) /\ Owning(u) => on[u] \notin Branch[on[t]]

\* Nobody works in the scope of an owner that has made sure, not even one that
\* came after it looked.
SureAlone ==
    \A t, u \in Thread :
        mode[t] = "sure" /\ mode[u] = "works" => on[u] \notin Scope[on[t]]
=============================================================================
