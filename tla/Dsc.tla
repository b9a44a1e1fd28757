-------------------------------- MODULE Dsc --------------------------------
(***************************************************************************)
(* The Driver Synchronization Core (qcacld-3.0/components/dsc).            *)
(*                                                                         *)
(* A tree of nodes -- one driver, psocs below it, vdevs below a psoc --    *)
(* carries two kinds of activity: transitions, which exclude each other    *)
(* and new operations along a branch, and operations, which run side by    *)
(* side.  A thread that owns a transition may wait for the operations that *)
(* were in flight when it started.                                         *)
(*                                                                         *)
(* Every API body runs under the driver lock, so it is one action; what    *)
(* the code does outside the lock (sleeping on an event, walking from one  *)
(* node of wait_for_ops to the next) is a step of its own.  A thread is    *)
(* its own "desc": active[n] is the thread whose transition is in flight   *)
(* on n, and ops[n] stands for ops->count by the set of threads counted.   *)
(* A request that fails returns and changes nothing: it is no step here.   *)
(***************************************************************************)
EXTENDS Naturals, Sequences

CONSTANTS
    Driver,     \* the root of the tree
    Psoc,       \* psoc contexts
    Vdev,       \* vdev contexts
    PsocOf,     \* the psoc of each vdev
    Thread,     \* threads that call into DSC
    OpNode,     \* the nodes on which threads run operations
    MaxDone,    \* bound of a completion's counter (UINT_MAX in the kernel)
    None        \* no thread, no node (NULL)

Node == {Driver} \cup Psoc \cup Vdev

ASSUME TreeAssumption ==
    /\ Driver \notin Psoc \cup Vdev
    /\ Psoc \cap Vdev = {}
    /\ PsocOf \in [Vdev -> Psoc]

ASSUME ThreadAssumption ==
    /\ None \notin Thread \cup Node
    /\ OpNode \subseteq Node
    /\ MaxDone \in Nat \ {0}

VARIABLES
    attached,   \* the driver and the nodes on driver->psocs, psoc->vdevs
    active,     \* trans.active_desc of each node
    queue,      \* trans.queue of each node
    ops,        \* the operations counted by ops.count of each node
    event,      \* ops.event.complete.done of each node
    pc,         \* where each thread is
    at,         \* the node of the thread's transition, request or operation
    tran,       \* event and abort flag of the thread's stacked dsc_tran
    todo,       \* nodes whose operations the thread has still to wait for
    cur         \* the node on whose ops.event the thread sleeps

nodeVars == <<active, queue, ops, event>>
waitVars == <<todo, cur>>
vars == <<attached, active, queue, ops, event, pc, at, tran, todo, cur>>

PCs == {"idle", "op", "queued", "trans", "wait", "quiet"}
TranStates == {"clear", "set", "aborted"}

-----------------------------------------------------------------------------
(* The tree.                                                               *)

Parent(n) == IF n \in Vdev THEN PsocOf[n] ELSE Driver

Ancestors(n) ==
    IF n \in Vdev THEN {PsocOf[n], Driver}
    ELSE IF n \in Psoc THEN {Driver} ELSE {}

Children(n) == {m \in attached : m # Driver /\ Parent(m) = n}

DownTree(n) == {m \in attached : n \in Ancestors(m)}

\* m and n lie on one branch of the tree.
Related(m, n) == m = n \/ m \in Ancestors(n) \/ n \in Ancestors(m)

-----------------------------------------------------------------------------
(* Conditions on transitions.  Those evaluated by a stop take the active   *)
(* transitions as an argument: it clears its own first.                    *)

Queued(n) == queue[n] # << >>

ActiveOrQueued(n) == active[n] # None \/ Queued(n)

ActiveDownTree(act, n) == \E m \in DownTree(n) : act[m] # None

DriverCanTrans ==
    IF ActiveOrQueued(Driver) \/ ActiveDownTree(active, Driver)
    THEN "E_AGAIN" ELSE "SUCCESS"

PsocCanTrans(p) ==
    IF ActiveOrQueued(Driver) THEN "E_INVAL"
    ELSE IF ActiveOrQueued(p) \/ ActiveDownTree(active, p) THEN "E_AGAIN"
    ELSE "SUCCESS"

\* Mutants: the driver's transition is forgotten; a queued psoc transition
\* does not bar the vdevs below it.
VdevCanTransNoDriver(v, recovering, unloading) ==
    IF recovering \/ (ActiveOrQueued(PsocOf[v]) /\ unloading) THEN "E_INVAL"
    ELSE IF ActiveOrQueued(PsocOf[v]) \/ ActiveOrQueued(v) THEN "E_BUSY"
    ELSE "SUCCESS"

VdevCanTransPushy(v, recovering, unloading) ==
    IF ActiveOrQueued(Driver) \/ recovering THEN "E_INVAL"
    ELSE IF active[PsocOf[v]] # None \/ ActiveOrQueued(v) THEN "E_BUSY"
    ELSE "SUCCESS"

\* recovering and unloading are the global flags of that name, which change
\* for reasons DSC knows nothing of: any value may be read at any time.
VdevCanTrans(v, recovering, unloading) ==
    IF ActiveOrQueued(Driver) \/ recovering THEN "E_INVAL"
    ELSE IF ActiveOrQueued(PsocOf[v])
         THEN IF unloading THEN "E_INVAL" ELSE "E_BUSY"
    ELSE IF ActiveOrQueued(v) THEN "E_BUSY"
    ELSE "SUCCESS"

\* The statuses a request on n can get; operations meet the same conditions
\* (the can_op macros are the can_trans functions).
CanTrans(n) ==
    IF n = Driver THEN {DriverCanTrans}
    ELSE IF n \in Psoc THEN {PsocCanTrans(n)}
    ELSE {VdevCanTrans(n, r, u) : r \in BOOLEAN, u \in BOOLEAN}

DriverCanTrigger(act) == act[Driver] = None /\ ~ActiveDownTree(act, Driver)

PsocCanTrigger(act, p) ==
    /\ act[Driver] = None
    /\ ~Queued(Driver)
    /\ act[p] = None
    /\ ~ActiveDownTree(act, p)

-----------------------------------------------------------------------------
(* The nodes whose first waiter a stop hands the transition to.            *)

QueuedOf(S) == {n \in S : Queued(n)}

\* Mutant: vdevs are not looked at.
DriverTriggersNoVdev ==
    IF Queued(Driver) THEN {Driver} ELSE QueuedOf(Children(Driver))

DriverTriggers ==
    IF Queued(Driver) THEN {Driver}
    ELSE UNION {IF Queued(p) THEN {p} ELSE QueuedOf(Children(p)) :
                p \in Children(Driver)}

\* trigger_checked: a queued driver or psoc claims the turn even when it
\* cannot have it yet and must wait for more of its children to stop.
DriverTriggerChecked(act) == IF DriverCanTrigger(act) THEN {Driver} ELSE {}

PsocTriggerChecked(act, p) == IF PsocCanTrigger(act, p) THEN {p} ELSE {}

\* Mutants: the driver's turn is forgotten; vdevs are not looked at.
PsocTriggersBlind(act, p) ==
    IF Queued(p) THEN {p} ELSE QueuedOf(Children(p))

PsocTriggersNoVdev(act, p) ==
    IF Queued(Driver) THEN DriverTriggerChecked(act) ELSE QueuedOf({p})

PsocTriggers(act, p) ==
    IF Queued(Driver) THEN DriverTriggerChecked(act)
    ELSE IF Queued(p) THEN {p}
    ELSE QueuedOf(Children(p))

VdevTriggers(act, v) ==
    IF Queued(Driver) THEN DriverTriggerChecked(act)
    ELSE IF Queued(PsocOf[v]) THEN PsocTriggerChecked(act, PsocOf[v])
    ELSE QueuedOf({v})

Triggers(act, n) ==
    IF n = Driver THEN DriverTriggers
    ELSE IF n \in Psoc THEN PsocTriggers(act, n)
    ELSE VdevTriggers(act, n)

-----------------------------------------------------------------------------
(* The nodes the owner of a transition on n waits on, and their order.     *)
(* wait_for_ops goes down the tree from a driver or a psoc; the sync layer *)
(* sends a vdev's owner up the tree (wait_for_uptree_ops) as well.         *)

WaitSet(n) ==
    IF n \in Vdev THEN {n} \cup Ancestors(n)
    ELSE {m \in Node : m = n \/ n \in Ancestors(m)}

Before(n, m, k) == IF n \in Vdev THEN k \in Ancestors(m) ELSE m \in Ancestors(k)

NextToWait(t) == {m \in todo[t] : ~\E k \in todo[t] : Before(at[t], k, m)}

-----------------------------------------------------------------------------
NoActivity ==
    /\ active = [n \in Node |-> None]
    /\ queue = [n \in Node |-> << >>]
    /\ ops = [n \in Node |-> {}]
    /\ event = [n \in Node |-> 0]
    /\ pc = [t \in Thread |-> "idle"]
    /\ at = [t \in Thread |-> None]
    /\ tran = [t \in Thread |-> "clear"]
    /\ todo = [t \in Thread |-> {}]
    /\ cur = [t \in Thread |-> None]

Init == attached = {Driver} /\ NoActivity

\* dsc_psoc_create, dsc_vdev_create: a fresh node goes on its parent's list.
Create(n) ==
    /\ n \in Node \ attached
    /\ Parent(n) \in attached
    /\ attached' = attached \cup {n}
    /\ active' = [active EXCEPT ![n] = None]
    /\ queue' = [queue EXCEPT ![n] = << >>]
    /\ ops' = [ops EXCEPT ![n] = {}]
    /\ event' = [event EXCEPT ![n] = 0]
    /\ UNCHANGED <<pc, at, tran, waitVars>>

\* dsc_psoc_destroy, dsc_vdev_destroy by the owner of a transition above n:
\* flush the queue, detach.  Callers have unregistered n, so that no request
\* reaches it meanwhile, and waited for its operations, which deinit asserts.
Destroy(t, n) ==
    /\ pc[t] = "quiet"
    /\ n \in DownTree(at[t])
    /\ Children(n) = {}
    /\ ops[n] = {}
    /\ tran' = [u \in Thread |->
                  IF pc[u] = "queued" /\ at[u] = n /\ tran[u] = "clear"
                  THEN "aborted" ELSE tran[u]]
    /\ queue' = [queue EXCEPT ![n] = << >>]
    /\ attached' = attached \ {n}
    /\ UNCHANGED <<active, ops, event, pc, at, waitVars>>

\* *_trans_start, and *_trans_start_wait when it need not wait.
TransStart(t, n) ==
    /\ pc[t] = "idle"
    /\ n \in attached
    /\ "SUCCESS" \in CanTrans(n)
    /\ active' = [active EXCEPT ![n] = t]
    /\ pc' = [pc EXCEPT ![t] = "trans"]
    /\ at' = [at EXCEPT ![t] = n]
    /\ UNCHANGED <<attached, queue, ops, event, tran, waitVars>>

\* *_trans_start_wait on a busy node: queue the dsc_tran and sleep on it.
TransQueue(t, n) ==
    /\ pc[t] = "idle"
    /\ n \in attached
    /\ CanTrans(n) \cap {"E_AGAIN", "E_BUSY"} # {}
    /\ queue' = [queue EXCEPT ![n] = Append(@, t)]
    /\ pc' = [pc EXCEPT ![t] = "queued"]
    /\ at' = [at EXCEPT ![t] = n]
    /\ tran' = [tran EXCEPT ![t] = "clear"]
    /\ UNCHANGED <<attached, active, ops, event, waitVars>>

\* Mutant: the abort flag is not looked at.
TranWakeAnyway(t) ==
    /\ pc[t] = "queued" /\ tran[t] # "clear"
    /\ pc' = [pc EXCEPT ![t] = "trans"]
    /\ tran' = [tran EXCEPT ![t] = "clear"]
    /\ UNCHANGED <<attached, nodeVars, at, waitVars>>

\* __dsc_tran_wait returns: the transition was handed over, or aborted.
TranWake(t) ==
    /\ pc[t] = "queued"
    /\ \/ /\ tran[t] = "set"
          /\ pc' = [pc EXCEPT ![t] = "trans"]
          /\ UNCHANGED at
       \/ /\ tran[t] = "aborted"
          /\ pc' = [pc EXCEPT ![t] = "idle"]
          /\ at' = [at EXCEPT ![t] = None]
    /\ tran' = [tran EXCEPT ![t] = "clear"]
    /\ UNCHANGED <<attached, nodeVars, waitVars>>

\* The owner of a transition calls wait_for_ops (and wait_for_uptree_ops).
WaitForOps(t) ==
    /\ pc[t] = "trans"
    /\ pc' = [pc EXCEPT ![t] = "wait"]
    /\ todo' = [todo EXCEPT ![t] = WaitSet(at[t]) \cap attached]
    /\ UNCHANGED <<attached, nodeVars, at, tran, cur>>

\* Mutant: the event is not reset, and may have been set long ago.
WaitCheckNoReset(t, m) ==
    /\ pc[t] = "wait" /\ cur[t] = None
    /\ m \in NextToWait(t)
    /\ todo' = [todo EXCEPT ![t] = @ \ {m}]
    /\ cur' = IF ops[m] = {} THEN cur ELSE [cur EXCEPT ![t] = m]
    /\ UNCHANGED <<attached, nodeVars, pc, at, tran>>

\* One node of the walk, under the lock: when operations are in flight reset
\* the event the last of them will set, and go to sleep on it.
WaitCheck(t, m) ==
    /\ pc[t] = "wait"
    /\ cur[t] = None
    /\ m \in NextToWait(t)
    /\ todo' = [todo EXCEPT ![t] = @ \ {m}]
    /\ IF ops[m] = {}
       THEN UNCHANGED <<event, cur>>
       ELSE /\ event' = [event EXCEPT ![m] = 0]
            /\ cur' = [cur EXCEPT ![t] = m]
    /\ UNCHANGED <<attached, active, queue, ops, pc, at, tran>>

\* wait_for_completion() returns to one sleeper and takes one count.
WaitDone(t) ==
    /\ cur[t] # None
    /\ event[cur[t]] > 0
    /\ event' = [event EXCEPT ![cur[t]] = @ - 1]
    /\ cur' = [cur EXCEPT ![t] = None]
    /\ UNCHANGED <<attached, active, queue, ops, pc, at, tran, todo>>

\* The walk has passed every node.
WaitOver(t) ==
    /\ pc[t] = "wait"
    /\ cur[t] = None
    /\ todo[t] = {}
    /\ pc' = [pc EXCEPT ![t] = "quiet"]
    /\ UNCHANGED <<attached, nodeVars, at, tran, waitVars>>

\* *_trans_stop: end the transition and trigger those it held up.
TransStop(t) ==
    /\ pc[t] \in {"trans", "quiet"}
    /\ LET act == [active EXCEPT ![at[t]] = None]
           trig == Triggers(act, at[t])
       IN /\ active' = [n \in Node |-> IF n \in trig THEN Head(queue[n])
                                       ELSE act[n]]
          /\ queue' = [n \in Node |-> IF n \in trig THEN Tail(queue[n])
                                      ELSE queue[n]]
          /\ tran' = [u \in Thread |-> IF \E n \in trig : u = Head(queue[n])
                                       THEN "set" ELSE tran[u]]
    /\ pc' = [pc EXCEPT ![t] = "idle"]
    /\ at' = [at EXCEPT ![t] = None]
    /\ UNCHANGED <<attached, ops, event, waitVars>>

\* *_op_start
OpStart(t, n) ==
    /\ pc[t] = "idle"
    /\ n \in OpNode \cap attached
    /\ "SUCCESS" \in CanTrans(n)
    /\ ops' = [ops EXCEPT ![n] = @ \cup {t}]
    /\ pc' = [pc EXCEPT ![t] = "op"]
    /\ at' = [at EXCEPT ![t] = n]
    /\ UNCHANGED <<attached, active, queue, event, tran, waitVars>>

\* Mutant: the count does not saturate.
CompleteUnbounded(n) == [event EXCEPT ![n] = @ + 1]

\* complete(): one more sleeper may go, up to the saturated count.
Complete(n) == [event EXCEPT ![n] = IF @ < MaxDone THEN @ + 1 ELSE @]

\* Mutants: every operation sets the event; the last one does not see that it
\* is, because the count is looked at before it is decremented.
OpStopEach(t) ==
    /\ pc[t] = "op"
    /\ ops' = [ops EXCEPT ![at[t]] = @ \ {t}]
    /\ event' = Complete(at[t])
    /\ pc' = [pc EXCEPT ![t] = "idle"] /\ at' = [at EXCEPT ![t] = None]
    /\ UNCHANGED <<attached, active, queue, tran, waitVars>>

OpStopBefore(t) ==
    /\ pc[t] = "op"
    /\ ops' = [ops EXCEPT ![at[t]] = @ \ {t}]
    /\ event' = IF ops[at[t]] = {} THEN Complete(at[t]) ELSE event
    /\ pc' = [pc EXCEPT ![t] = "idle"] /\ at' = [at EXCEPT ![t] = None]
    /\ UNCHANGED <<attached, active, queue, tran, waitVars>>

\* *_op_stop: the last operation out sets the node's event.
OpStop(t) ==
    /\ pc[t] = "op"
    /\ ops' = [ops EXCEPT ![at[t]] = @ \ {t}]
    /\ event' = IF ops[at[t]] \ {t} = {} THEN Complete(at[t]) ELSE event
    /\ pc' = [pc EXCEPT ![t] = "idle"]
    /\ at' = [at EXCEPT ![t] = None]
    /\ UNCHANGED <<attached, active, queue, tran, waitVars>>

-----------------------------------------------------------------------------
\* What a thread does of its own once it is in: it never stops half-way.
Progress(t) ==
    \/ TranWake(t)
    \/ \E m \in Node : WaitCheck(t, m)
    \/ WaitDone(t)
    \/ WaitOver(t)
    \/ TransStop(t)
    \/ OpStop(t)

Next ==
    \/ \E n \in Node : Create(n)
    \/ \E t \in Thread :
          \/ \E n \in Node : \/ TransStart(t, n)
                             \/ TransQueue(t, n)
                             \/ OpStart(t, n)
                             \/ Destroy(t, n)
          \/ WaitForOps(t)
          \/ Progress(t)

Spec == Init /\ [][Next]_vars

\* Nothing makes a thread ask for a transition or an operation, but one that
\* runs is scheduled until it has given back what it took.
FairSpec == Spec /\ \A t \in Thread : WF_vars(Progress(t))

-----------------------------------------------------------------------------
(* Properties.                                                             *)

\* Every variable keeps its type; activity is only on nodes of the tree, and
\* the tree has no orphans.
TypeOK ==
    /\ attached \subseteq Node /\ Driver \in attached
    /\ active \in [Node -> Thread \cup {None}]
    /\ queue \in [Node -> Seq(Thread)]
    /\ ops \in [Node -> SUBSET Thread]
    /\ event \in [Node -> 0..MaxDone]
    /\ pc \in [Thread -> PCs]
    /\ at \in [Thread -> Node \cup {None}]
    /\ tran \in [Thread -> TranStates]
    /\ todo \in [Thread -> SUBSET Node]
    /\ cur \in [Thread -> Node \cup {None}]

\* The thread believes it has a transition, or has been handed one in its
\* sleep (the event of its dsc_tran is set) and will find out.
Owns(t, n) ==
    /\ at[t] = n
    /\ \/ pc[t] \in {"trans", "wait", "quiet"}
       \/ pc[t] = "queued" /\ tran[t] = "set"

\* No two transitions are in flight on one branch, whether they were started
\* at once or triggered by the stop of another, several at a time
\* (wlan_dsc.h: transitions "are mutually exclusive", siblings may overlap).
TreeExclusion ==
    \A m, n \in Node :
        m # n /\ Related(m, n) => active[m] = None \/ active[n] = None

\* The desc recorded on a node and what the threads believe never part: a
\* transition is handed to exactly one waiter, and no thread holds one that
\* the node does not know of (__dsc_trans_trigger, __dsc_tran_wait).
OwnerAgrees ==
    \A t \in Thread, n \in Node : Owns(t, n) <=> active[n] = t

\* Some transition in flight will bring a stop that looks at n: one on n's
\* branch, or on the branch of a queued ancestor, which has to go first.
Covered(n) ==
    \E m \in {n} \cup Ancestors(n) :
        Queued(m) /\ \E k \in Node : Related(m, k) /\ active[k] # None

\* A thread that sleeps in a queue always has a stop coming that will look at
\* its queue: a transition is in flight on its branch, or on the branch of a
\* queued ancestor which has to go first (the trigger functions; a waiter
\* that a stop overlooks sleeps for ever, qdf_wait_single_event has no
\* timeout here).
NoStrandedWaiter == \A n \in Node : Queued(n) => Covered(n)

\* Once wait_for_ops and wait_for_uptree_ops have returned, no operation runs
\* on any node they cover for as long as the transition lasts -- neither one
\* the walk found, nor one that started behind its back.
Quiescence ==
    \A t \in Thread : pc[t] = "quiet" =>
        \A n \in WaitSet(at[t]) : ops[n] = {}

\* A sleeper on ops.event has a wake-up coming: the event is set, or an
\* operation is in flight whose stop will set it (the reset under the lock
\* must not race with the last op_stop).  It needs no two sleepers on one
\* event; see UptreeWaitReturns.
NoLostWakeup ==
    \A t \in Thread : cur[t] # None => event[cur[t]] > 0 \/ ops[cur[t]] # {}

Granted(n) == active'[n] # active[n] /\ active'[n] # None

\* A transition is never granted over the head of an earlier waiter on the
\* same node, nor while one is queued on a node above it: higher levels go
\* first (trigger_checked; test/wlan_dsc_test.c, dsc_test_trans_wait).
GrantOrder ==
    [][\A n \in Node : Granted(n) =>
          /\ Queued(n) => active'[n] = Head(queue[n])
          /\ \A m \in Ancestors(n) : ~Queued(m)]_vars

Waiting(t, n) == pc[t] = "queued" /\ at[t] = n

\* A queued driver transition is served whatever the other threads ask for:
\* it bars new activity everywhere, and those in flight end.
DriverServed ==
    \A t \in Thread : Waiting(t, Driver) ~> ~Waiting(t, Driver)

\* A queued psoc transition is served if the driver is free now and then;
\* new vdev requests cannot starve it.
PsocServed ==
    []<>~ActiveOrQueued(Driver) =>
        \A t \in Thread, p \in Psoc : Waiting(t, p) ~> ~Waiting(t, p)

\* A queued vdev transition is served, or aborted, if its psoc and the driver
\* are free together now and then: its siblings cannot starve it.
VdevServed ==
    \A v \in Vdev :
        []<>(~ActiveOrQueued(Driver) /\ ~ActiveOrQueued(PsocOf[v])) =>
            \A t \in Thread : Waiting(t, v) ~> ~Waiting(t, v)

\* A vdev's owner that waits for the operations above it gets on once they
\* are over (osif_vdev_sync_wait_for_uptree_ops: "vdev trans/ops should wait
\* for these operations to be completed").
UptreeWaitReturns ==
    \A t \in Thread :
        (cur[t] # None /\ at[t] \in Vdev) ~> (cur[t] = None)

\* A vdev request that meets a psoc transition "because of SSR" is not turned
\* away but queued (comment on __dsc_vdev_can_trans).
SsrRequestsWait ==
    \A v \in attached \cap Vdev :
        active[PsocOf[v]] # None /\ ~ActiveOrQueued(Driver) =>
            VdevCanTrans(v, TRUE, FALSE) = "E_BUSY"

-----------------------------------------------------------------------------
(* The inductive invariant: what each API body relies on when it takes the *)
(* driver lock.  Every piece of node state agrees with the threads.        *)

\* A busy thread is busy on some node, and only a waiting one sleeps.
ThreadAgrees ==
    \A t \in Thread :
        /\ pc[t] # "idle" => at[t] \in Node
        /\ cur[t] # None => pc[t] = "wait"

\* Those in a queue sleep on that node, each once.
QueueAgrees ==
    \A n \in Node :
        /\ \A i \in 1..Len(queue[n]) :
              /\ pc[queue[n][i]] = "queued"
              /\ at[queue[n][i]] = n
              /\ tran[queue[n][i]] = "clear"
        /\ \A i, j \in 1..Len(queue[n]) : queue[n][i] = queue[n][j] => i = j

\* Operations are counted where they run.
OpsAgree ==
    \A t \in Thread, n \in Node : t \in ops[n] <=> pc[t] = "op" /\ at[t] = n

\* Only the attached tree carries activity, and it has no orphans.
TreeAgrees ==
    /\ \A n \in Node \ attached : active[n] = None /\ ops[n] = {}
    /\ \A n \in attached \ {Driver} : Parent(n) \in attached

\* Whoever waits on a node of the tree has a stop coming that will look at its
\* queue, and nobody waits on a node that has left the tree: NoStrandedWaiter.
CoveredInTree == \A n \in attached : Queued(n) => Covered(n)

NobodyLeftBehind == \A n \in Node \ attached : ~Queued(n)

\* A walk has left no operation behind: each node it covers is free of them,
\* still to come, or the one it sleeps on, whose event nobody has set yet.
WalkAgrees ==
    \A t \in Thread : pc[t] = "wait" =>
        \A m \in WaitSet(at[t]) :
            ops[m] = {} \/ m \in todo[t] \/ (cur[t] = m /\ event[m] = 0)

\* All of it together, with the properties it keeps.
IInv ==
    /\ TypeOK /\ ThreadAgrees /\ QueueAgrees /\ OpsAgree /\ TreeAgrees
    /\ WalkAgrees /\ OwnerAgrees /\ TreeExclusion /\ Quiescence

\* Sleepers sleep where they have to wait, on nodes of the tree that have had
\* operations.
SleepersAgree ==
    /\ \A n \in Node \ OpNode : ops[n] = {}
    /\ \A t \in Thread :
          /\ pc[t] = "wait" => todo[t] \subseteq WaitSet(at[t])
          /\ cur[t] # None => cur[t] \in WaitSet(at[t]) \cap OpNode \cap attached

\* Those who may wait for the operations of one node are on one branch: no
\* two vdevs below a node that has operations.
WaitersOnBranch ==
    \A m \in OpNode, a, b \in Node :
        m \in WaitSet(a) /\ m \in WaitSet(b) => Related(a, b)

-----------------------------------------------------------------------------
(* The promise that all this keeps.                                        *)

ModeOf(t) ==
    IF pc[t] = "op" THEN "works"
    ELSE IF pc[t] = "quiet" THEN "sure"
    ELSE IF pc[t] \in {"trans", "wait"} \/ (pc[t] = "queued" /\ tran[t] = "set")
         THEN "owns"
    ELSE IF pc[t] = "queued" THEN "asks" ELSE "out"

Abs == INSTANCE BranchSync WITH
    mode <- [t \in Thread |-> ModeOf(t)],
    on <- at,
    Branch <- [n \in Node |-> {m \in Node : Related(m, n)}],
    Scope <- [n \in Node |-> WaitSet(n)]

\* DSC implements BranchSync: seen from its clients, every step of it is a
\* request, a grant, an admission, a wait that ends, a release, or nothing.
Promise == Abs!Spec
=============================================================================
