----------------------------- MODULE DscProofs -----------------------------
(***************************************************************************)
(* Proofs about Dsc for any tree and any threads: the inductive invariant, *)
(* and from it mutual exclusion, ownership and quiescence.                 *)
(***************************************************************************)
EXTENDS Dsc, TLAPS

-----------------------------------------------------------------------------
(* The tree.                                                               *)

\* Ancestors are nodes of the tree.
LEMMA AncestorsType ==
    ASSUME NEW n \in Node
    PROVE  Ancestors(n) \subseteq Node \ {n}
BY TreeAssumption DEF Node, Ancestors

\* Lying on one branch is symmetric.
LEMMA RelatedSymmetric ==
    ASSUME NEW m, NEW n, Related(m, n)
    PROVE  Related(n, m)
BY DEF Related

\* The driver is on every branch.
LEMMA DriverRelated ==
    ASSUME NEW n \in Node
    PROVE  Related(Driver, n)
BY TreeAssumption DEF Related, Node, Ancestors

\* What a transition waits on lies on its branches.
LEMMA WaitSetRelated ==
    ASSUME NEW n \in Node, NEW m \in WaitSet(n)
    PROVE  m \in Node /\ Related(m, n)
BY AncestorsType DEF WaitSet, Related

\* A request that gets SUCCESS finds no transition in flight on its branch.
LEMMA SuccessMeansFree ==
    ASSUME TypeOK, TreeAgrees, NEW n \in attached, "SUCCESS" \in CanTrans(n),
           NEW m \in Node, Related(m, n)
    PROVE  active[m] = None /\ queue[n] = << >>
<1>1. n \in Node
  BY DEF TypeOK
<1>2. CASE m \notin attached
  <2>1. active[m] = None
    BY <1>2 DEF TreeAgrees
  <2>2. queue[n] = << >>
    BY <1>1, TreeAssumption DEF CanTrans, DriverCanTrans, PsocCanTrans,
       VdevCanTrans, ActiveOrQueued, Queued, Node
  <2> QED BY <2>1, <2>2
<1>3. CASE m \in attached /\ n = Driver
  BY <1>3, <1>1, TreeAssumption DEF CanTrans, DriverCanTrans, ActiveOrQueued,
     Queued, ActiveDownTree, DownTree, Related, Ancestors, Node
<1>4. CASE m \in attached /\ n \in Psoc
  BY <1>4, TreeAssumption DEF CanTrans, PsocCanTrans, ActiveOrQueued,
     Queued, ActiveDownTree, DownTree, Related, Ancestors, Node
<1>5. CASE m \in attached /\ n \in Vdev
  BY <1>5, <1>1, TreeAssumption DEF CanTrans, VdevCanTrans, ActiveOrQueued,
     Queued, Related, Ancestors, Node
<1> QED BY <1>1, <1>2, <1>3, <1>4, <1>5 DEF Node

-----------------------------------------------------------------------------
(* What a stop triggers.                                                   *)

\* Only waiting nodes of the tree are triggered.
LEMMA TriggersQueued ==
    ASSUME TypeOK, TreeAgrees, NEW n \in attached, NEW act,
           NEW m \in Triggers(act, n)
    PROVE  m \in attached /\ m \in Node /\ Queued(m)
<1>1. n \in Node
  BY DEF TypeOK
<1>2. CASE n = Driver
  BY <1>2, TreeAssumption DEF TypeOK, Triggers, DriverTriggers, QueuedOf,
     Children
<1>3. CASE n \in Psoc
  BY <1>3, TreeAssumption DEF TypeOK, Triggers, PsocTriggers, QueuedOf,
     Children, DriverTriggerChecked
<1>4. CASE n \in Vdev
  <2>1. PsocOf[n] \in attached
    BY <1>4, TreeAssumption DEF TreeAgrees, Parent
  <2> QED
    BY <1>4, <2>1, TreeAssumption DEF TypeOK, Triggers, VdevTriggers,
       QueuedOf, PsocTriggerChecked, DriverTriggerChecked
<1> QED BY <1>1, <1>2, <1>3, <1>4 DEF Node

\* Nothing is in flight on the branch of a node that is triggered.
LEMMA TriggersFree ==
    ASSUME TypeOK, TreeAgrees, TreeExclusion, NEW n \in attached,
           active[n] # None, NEW act, act = [active EXCEPT ![n] = None],
           NEW m \in Triggers(act, n), NEW k \in Node, Related(m, k)
    PROVE  act[k] = None
<1>1. n \in Node /\ n # None
  BY ThreadAssumption DEF TypeOK
<1>2. /\ act[n] = None
      /\ \A i \in Node : i # n => act[i] = active[i]
      /\ \A i \in Node \ attached : act[i] = None
  BY <1>1 DEF TypeOK, TreeAgrees
<1>3. \A i \in Node : Related(i, n) \/ Related(n, i) => act[i] = None
  BY <1>1, <1>2 DEF TreeExclusion, Related
<1>4. m \in Node
  BY TriggersQueued
<1>5. (\A i \in DownTree(Driver) : act[i] = None) /\ act[Driver] = None
        => act[k] = None
  BY <1>2, TreeAssumption DEF DownTree, Ancestors, Node
<1>6. CASE n = Driver
  BY <1>3, <1>6, DriverRelated
<1>7. CASE n \in Psoc
  <2>1. CASE m = Driver
    BY <1>5, <1>7, <2>1, <1>3, DriverRelated, TreeAssumption
    DEF Triggers, PsocTriggers, DriverTriggerChecked, DriverCanTrigger,
        ActiveDownTree, QueuedOf, Children, Queued
  <2>2. CASE m # Driver
    <3>1. m = n \/ (m \in Vdev /\ PsocOf[m] = n)
      BY <1>4, <1>7, <2>2, TreeAssumption
      DEF Triggers, PsocTriggers, DriverTriggerChecked, QueuedOf, Children,
          Parent, Node
    <3> QED BY <1>1, <1>3, <1>7, <3>1, TreeAssumption
            DEF Related, Ancestors, Node
  <2> QED BY <2>1, <2>2
<1>8. CASE n \in Vdev
  <2>1. CASE m = Driver
    BY <1>5, <1>8, <2>1, TreeAssumption
    DEF Triggers, VdevTriggers, DriverTriggerChecked, DriverCanTrigger,
        PsocTriggerChecked, ActiveDownTree, QueuedOf
  <2>2. CASE m # Driver /\ m # n
    <3>1. m = PsocOf[n] /\ m \in Psoc /\ PsocCanTrigger(act, m)
      BY <1>8, <2>2, TreeAssumption
      DEF Triggers, VdevTriggers, DriverTriggerChecked, PsocTriggerChecked,
          QueuedOf
    <3>2. \A i \in Node : m \in Ancestors(i) => act[i] = None
      BY <1>2, <3>1 DEF PsocCanTrigger, ActiveDownTree, DownTree
    <3> QED BY <3>1, <3>2, TreeAssumption
            DEF PsocCanTrigger, Related, Ancestors
  <2>3. CASE m = n
    BY <1>3, <2>3
  <2> QED BY <2>1, <2>2, <2>3
<1> QED BY <1>1, <1>6, <1>7, <1>8 DEF Node

\* Nodes triggered by one stop lie on different branches.
LEMMA TriggersApart ==
    ASSUME TypeOK, TreeAgrees, NEW n \in attached, NEW act,
           NEW m \in Triggers(act, n), NEW k \in Triggers(act, n), m # k
    PROVE  ~Related(m, k)
<1>1. n \in Node /\ m \in Node /\ k \in Node
  BY TriggersQueued DEF TypeOK
<1>2. CASE n = Driver
  <2>1. m # Driver /\ k # Driver
    BY <1>2, TreeAssumption DEF Triggers, DriverTriggers, QueuedOf, Children
  <2>2. \A i \in {m, k} :
           \/ i \in Psoc /\ Queued(i)
           \/ i \in Vdev /\ ~Queued(PsocOf[i])
    BY <1>1, <1>2, <2>1, TreeAssumption
    DEF Triggers, DriverTriggers, QueuedOf, Children, Parent, Node
  <2> QED BY <2>1, <2>2, TreeAssumption DEF Related, Ancestors
<1>3. CASE n \in Psoc
  <2>1. m \in Vdev /\ k \in Vdev
    BY <1>3, <1>1, TreeAssumption
    DEF Triggers, PsocTriggers, DriverTriggerChecked, QueuedOf, Children,
        Parent, Node
  <2> QED BY <2>1, TreeAssumption DEF Related, Ancestors
<1>4. CASE n \in Vdev
  BY <1>4, TreeAssumption DEF Triggers, VdevTriggers, DriverTriggerChecked,
     PsocTriggerChecked, QueuedOf
<1> QED BY <1>1, <1>2, <1>3, <1>4 DEF Node

\* A fresh node brings no activity into the tree.
LEMMA CreateInv ==
    ASSUME IInv, NEW n \in Node, Create(n)
    PROVE  IInv'
<1>0. active' = active /\ ops' = ops /\ queue' = [queue EXCEPT ![n] = << >>]
  BY DEF IInv, TypeOK, TreeAgrees, Create
<1>1. TypeOK'
  BY ThreadAssumption DEF IInv, Create, TypeOK, waitVars
<1>2. ThreadAgrees'
  BY DEF IInv, Create, ThreadAgrees, waitVars
<1>3. QueueAgrees'
  BY <1>0 DEF IInv, TypeOK, Create, QueueAgrees
<1>4. OpsAgree'
  BY <1>0 DEF IInv, Create, OpsAgree
<1>5. TreeAgrees'
  BY DEF IInv, Create, TreeAgrees
<1>6. WalkAgrees'
  BY DEF IInv, Create, WalkAgrees, waitVars
<1>7. OwnerAgrees'
  BY <1>0 DEF IInv, Create, OwnerAgrees, Owns
<1>8. TreeExclusion'
  BY DEF IInv, Create, TreeExclusion
<1>9. Quiescence'
  BY DEF IInv, Create, Quiescence
<1> QED BY <1>1, <1>2, <1>3, <1>4, <1>5, <1>6, <1>7, <1>8, <1>9 DEF IInv

\* A node is destroyed under a transition above it: it has none itself.
LEMMA DestroyInv ==
    ASSUME IInv, NEW t \in Thread, NEW n \in Node, Destroy(t, n)
    PROVE  IInv'
<1>0. n \in Node /\ n # Driver /\ active[n] = None
  <2>1. active[at[t]] = t /\ at[t] \in Node /\ t # None
    BY ThreadAssumption DEF IInv, Destroy, ThreadAgrees, OwnerAgrees, Owns
  <2>2. Related(n, at[t]) /\ n # at[t] /\ n # Driver
    BY <2>1, AncestorsType, TreeAssumption
    DEF Destroy, DownTree, Related, Ancestors
  <2> QED BY <2>1, <2>2 DEF IInv, TreeExclusion
<1>1. TypeOK'
  BY <1>0 DEF IInv, Destroy, TypeOK, TranStates, waitVars
<1>2. ThreadAgrees'
  BY DEF IInv, Destroy, ThreadAgrees, waitVars
<1>3. QueueAgrees'
  BY DEF IInv, Destroy, TypeOK, QueueAgrees
<1>4. OpsAgree'
  BY DEF IInv, Destroy, OpsAgree
<1>5. TreeAgrees'
  BY <1>0 DEF IInv, Destroy, TypeOK, TreeAgrees, Children
<1>6. WalkAgrees'
  BY DEF IInv, Destroy, WalkAgrees, waitVars
<1>7. OwnerAgrees'
  BY DEF IInv, Destroy, OwnerAgrees, Owns
<1>8. TreeExclusion'
  BY DEF IInv, Destroy, TreeExclusion
<1>9. Quiescence'
  BY DEF IInv, Destroy, Quiescence
<1> QED BY <1>1, <1>2, <1>3, <1>4, <1>5, <1>6, <1>7, <1>8, <1>9 DEF IInv

\* A transition starts on a branch where none is in flight.
LEMMA TransStartInv ==
    ASSUME IInv, NEW t \in Thread, NEW n \in Node, TransStart(t, n)
    PROVE  IInv'
<1>0. \A m \in Node : Related(m, n) \/ Related(n, m) => active[m] = None
  BY SuccessMeansFree, RelatedSymmetric DEF IInv, TransStart
<1>1. TypeOK'
  BY DEF IInv, TransStart, TypeOK, PCs, waitVars
<1>2. ThreadAgrees'
  BY DEF IInv, TransStart, TypeOK, ThreadAgrees, waitVars
<1>3. QueueAgrees'
  BY DEF IInv, TransStart, QueueAgrees
<1>4. OpsAgree'
  BY DEF IInv, TransStart, OpsAgree
<1>5. TreeAgrees'
  BY DEF IInv, TransStart, TreeAgrees
<1>6. WalkAgrees'
  BY DEF IInv, TransStart, WalkAgrees, waitVars
<1>7. OwnerAgrees'
  <2>1. active[n] = None
    BY <1>0 DEF Related
  <2> QED BY <2>1, ThreadAssumption DEF IInv, TransStart, TypeOK, OwnerAgrees, Owns
<1>8. TreeExclusion'
  BY <1>0 DEF IInv, TransStart, TypeOK, TreeExclusion
<1>9. Quiescence'
  BY DEF IInv, TransStart, Quiescence
<1> QED BY <1>1, <1>2, <1>3, <1>4, <1>5, <1>6, <1>7, <1>8, <1>9 DEF IInv

\* A request that waits joins its queue once.
LEMMA TransQueueInv ==
    ASSUME IInv, NEW t \in Thread, NEW n \in Node, TransQueue(t, n)
    PROVE  IInv'
<1>1. TypeOK'
  BY DEF IInv, TransQueue, TypeOK, PCs, TranStates, waitVars
<1>2. ThreadAgrees'
  BY DEF IInv, TransQueue, TypeOK, ThreadAgrees, waitVars
<1>3. QueueAgrees'
  BY DEF IInv, TransQueue, TypeOK, QueueAgrees
<1>4. OpsAgree'
  BY DEF IInv, TransQueue, OpsAgree
<1>5. TreeAgrees'
  BY DEF IInv, TransQueue, TreeAgrees
<1>6. WalkAgrees'
  BY DEF IInv, TransQueue, WalkAgrees, waitVars
<1>7. OwnerAgrees'
  BY DEF IInv, TransQueue, TypeOK, OwnerAgrees, Owns
<1>8. TreeExclusion'
  BY DEF IInv, TransQueue, TreeExclusion
<1>9. Quiescence'
  BY DEF IInv, TransQueue, Quiescence
<1> QED BY <1>1, <1>2, <1>3, <1>4, <1>5, <1>6, <1>7, <1>8, <1>9 DEF IInv

\* A waiter that wakes up learns what the stop did for it.
LEMMA TranWakeInv ==
    ASSUME IInv, NEW t \in Thread, TranWake(t)
    PROVE  IInv'
<1>1. TypeOK'
  <2>1. pc' \in [Thread -> PCs] /\ at' \in [Thread -> Node \cup {None}]
    <3>1. CASE tran[t] = "set"
      BY <3>1 DEF IInv, TranWake, TypeOK, PCs
    <3>2. CASE tran[t] = "aborted"
      BY <3>2 DEF IInv, TranWake, TypeOK, PCs
    <3> QED BY <3>1, <3>2 DEF TranWake
  <2>2. tran' \in [Thread -> TranStates]
    BY DEF IInv, TranWake, TypeOK, TranStates
  <2> QED BY <2>1, <2>2 DEF IInv, TranWake, TypeOK, nodeVars, waitVars
<1>2. ThreadAgrees'
  BY DEF IInv, TranWake, TypeOK, ThreadAgrees, waitVars
<1>3. QueueAgrees'
  BY DEF IInv, TranWake, TypeOK, QueueAgrees, nodeVars
<1>4. OpsAgree'
  BY DEF IInv, TranWake, TypeOK, OpsAgree, nodeVars
<1>5. TreeAgrees'
  BY DEF IInv, TranWake, TreeAgrees, nodeVars
<1>6. WalkAgrees'
  <2> SUFFICES ASSUME NEW u \in Thread, pc'[u] = "wait", NEW k \in WaitSet(at'[u])
               PROVE  ops'[k] = {} \/ k \in todo'[u]
                      \/ (cur'[u] = k /\ event'[k] = 0)
    BY DEF WalkAgrees
  <2>1. u # t /\ pc[u] = "wait" /\ at'[u] = at[u]
    BY DEF IInv, TranWake, TypeOK
  <2> QED BY <2>1 DEF IInv, TranWake, WalkAgrees, nodeVars, waitVars
<1>7. OwnerAgrees'
  BY DEF IInv, TranWake, TypeOK, OwnerAgrees, Owns, nodeVars
<1>8. TreeExclusion'
  BY DEF IInv, TranWake, TreeExclusion, nodeVars
<1>9. Quiescence'
  BY DEF IInv, TranWake, TypeOK, Quiescence, nodeVars
<1> QED BY <1>1, <1>2, <1>3, <1>4, <1>5, <1>6, <1>7, <1>8, <1>9 DEF IInv

\* The walk starts with every node of the scope to come.
LEMMA WaitForOpsInv ==
    ASSUME IInv, NEW t \in Thread, WaitForOps(t)
    PROVE  IInv'
<1>1. TypeOK'
  BY DEF IInv, WaitForOps, TypeOK, PCs, nodeVars
<1>2. ThreadAgrees'
  BY DEF IInv, WaitForOps, ThreadAgrees
<1>3. QueueAgrees'
  BY DEF IInv, WaitForOps, QueueAgrees, nodeVars
<1>4. OpsAgree'
  BY DEF IInv, WaitForOps, OpsAgree, nodeVars
<1>5. TreeAgrees'
  BY DEF IInv, WaitForOps, TreeAgrees, nodeVars
<1>6. WalkAgrees'
  <2>1. \A m \in WaitSet(at[t]) \ attached : ops[m] = {}
    BY WaitSetRelated DEF IInv, WaitForOps, ThreadAgrees, TreeAgrees
  <2> QED BY <2>1 DEF IInv, WaitForOps, TypeOK, WalkAgrees, nodeVars
<1>7. OwnerAgrees'
  BY DEF IInv, WaitForOps, OwnerAgrees, Owns, nodeVars
<1>8. TreeExclusion'
  BY DEF IInv, WaitForOps, TreeExclusion, nodeVars
<1>9. Quiescence'
  BY DEF IInv, WaitForOps, Quiescence, nodeVars
<1> QED BY <1>1, <1>2, <1>3, <1>4, <1>5, <1>6, <1>7, <1>8, <1>9 DEF IInv

\* The walk leaves a node only when it is free of operations, or to sleep
\* on an event that has just been reset under the lock.
LEMMA WaitCheckInv ==
    ASSUME IInv, NEW t \in Thread, NEW m \in Node, WaitCheck(t, m)
    PROVE  IInv'
<1>0. /\ todo' = [todo EXCEPT ![t] = @ \ {m}]
      /\ \/ ops[m] = {} /\ event' = event /\ cur' = cur
         \/ event' = [event EXCEPT ![m] = 0] /\ cur' = [cur EXCEPT ![t] = m]
  BY DEF WaitCheck
<1>1. TypeOK'
  <2>1. 0 \in 0..MaxDone
    BY ThreadAssumption
  <2>2. event' \in [Node -> 0..MaxDone]
    BY <1>0, <2>1 DEF IInv, TypeOK
  <2>3. cur' \in [Thread -> Node \cup {None}]
    BY <1>0 DEF IInv, TypeOK
  <2>4. todo' \in [Thread -> SUBSET Node]
    BY <1>0 DEF IInv, TypeOK
  <2> QED BY <2>2, <2>3, <2>4 DEF IInv, WaitCheck, TypeOK
<1>2. ThreadAgrees'
  BY DEF IInv, WaitCheck, TypeOK, ThreadAgrees
<1>3. QueueAgrees'
  BY DEF IInv, WaitCheck, QueueAgrees
<1>4. OpsAgree'
  BY DEF IInv, WaitCheck, OpsAgree
<1>5. TreeAgrees'
  BY DEF IInv, WaitCheck, TreeAgrees
<1>6. WalkAgrees'
  <2> SUFFICES ASSUME NEW u \in Thread, pc'[u] = "wait", NEW k \in WaitSet(at'[u])
               PROVE  ops'[k] = {} \/ k \in todo'[u]
                      \/ (cur'[u] = k /\ event'[k] = 0)
    BY DEF WalkAgrees
  <2>1. pc[u] = "wait" /\ at'[u] = at[u] /\ ops' = ops /\ cur[t] = None
    BY DEF WaitCheck
  <2>2. ops[k] = {} \/ k \in todo[u] \/ (cur[u] = k /\ event[k] = 0)
    BY <2>1 DEF IInv, WalkAgrees
  <2>3. k \in Node /\ k # None
    BY <2>1, WaitSetRelated, ThreadAssumption DEF IInv, ThreadAgrees
  <2>4. CASE u = t
    <3>1. ops[k] = {} \/ k \in todo[t]
      BY <2>1, <2>2, <2>3, <2>4
    <3>2. CASE k # m
      BY <1>0, <2>1, <2>4, <3>1, <3>2 DEF IInv, TypeOK
    <3>3. CASE k = m
      BY <1>0, <2>1, <2>3, <2>4, <3>3 DEF IInv, TypeOK
    <3> QED BY <3>2, <3>3
  <2>5. CASE u # t
    <3>1. todo'[u] = todo[u] /\ cur'[u] = cur[u]
      BY <1>0, <2>5 DEF IInv, TypeOK
    <3>2. event[k] = 0 => event'[k] = 0
      BY <1>0, <2>3 DEF IInv, TypeOK
    <3> QED BY <2>1, <2>2, <3>1, <3>2
  <2> QED BY <2>4, <2>5
<1>7. OwnerAgrees'
  BY DEF IInv, WaitCheck, OwnerAgrees, Owns
<1>8. TreeExclusion'
  BY DEF IInv, WaitCheck, TreeExclusion
<1>9. Quiescence'
  BY DEF IInv, WaitCheck, Quiescence
<1> QED BY <1>1, <1>2, <1>3, <1>4, <1>5, <1>6, <1>7, <1>8, <1>9 DEF IInv

\* The event of a node is set only when its last operation has gone.
LEMMA WaitDoneInv ==
    ASSUME IInv, NEW t \in Thread, WaitDone(t)
    PROVE  IInv'
<1>1. TypeOK'
  BY ThreadAssumption DEF IInv, WaitDone, TypeOK
<1>2. ThreadAgrees'
  BY DEF IInv, WaitDone, ThreadAgrees
<1>3. QueueAgrees'
  BY DEF IInv, WaitDone, QueueAgrees
<1>4. OpsAgree'
  BY DEF IInv, WaitDone, OpsAgree
<1>5. TreeAgrees'
  BY DEF IInv, WaitDone, TreeAgrees
<1>6. WalkAgrees'
  BY DEF IInv, WaitDone, WalkAgrees
<1>7. OwnerAgrees'
  BY DEF IInv, WaitDone, OwnerAgrees, Owns
<1>8. TreeExclusion'
  BY DEF IInv, WaitDone, TreeExclusion
<1>9. Quiescence'
  BY DEF IInv, WaitDone, Quiescence
<1> QED BY <1>1, <1>2, <1>3, <1>4, <1>5, <1>6, <1>7, <1>8, <1>9 DEF IInv

\* The walk ends with no node of the scope to come, all free of operations.
LEMMA WaitOverInv ==
    ASSUME IInv, NEW t \in Thread, WaitOver(t)
    PROVE  IInv'
<1>1. TypeOK'
  BY DEF IInv, WaitOver, TypeOK, PCs, nodeVars, waitVars
<1>2. ThreadAgrees'
  BY DEF IInv, WaitOver, ThreadAgrees, waitVars
<1>3. QueueAgrees'
  BY DEF IInv, WaitOver, QueueAgrees, nodeVars
<1>4. OpsAgree'
  BY DEF IInv, WaitOver, OpsAgree, nodeVars
<1>5. TreeAgrees'
  BY DEF IInv, WaitOver, TreeAgrees, nodeVars
<1>6. WalkAgrees'
  BY DEF IInv, WaitOver, WalkAgrees, nodeVars, waitVars
<1>7. OwnerAgrees'
  BY DEF IInv, WaitOver, OwnerAgrees, Owns, nodeVars
<1>8. TreeExclusion'
  BY DEF IInv, WaitOver, TreeExclusion, nodeVars
<1>9. Quiescence'
  <2> SUFFICES ASSUME NEW u \in Thread, pc'[u] = "quiet",
                      NEW k \in WaitSet(at'[u])
               PROVE  ops'[k] = {}
    BY DEF Quiescence
  <2>1. at' = at /\ ops' = ops
    BY DEF WaitOver, nodeVars
  <2>2. CASE u = t
    <3>1. k \in Node /\ k # None
      BY <2>1, <2>2, WaitSetRelated, ThreadAssumption
      DEF IInv, WaitOver, ThreadAgrees
    <3> QED BY <2>1, <2>2, <3>1 DEF IInv, WaitOver, WalkAgrees
  <2>3. CASE u # t
    BY <2>1, <2>3 DEF IInv, WaitOver, TypeOK, Quiescence
  <2> QED BY <2>2, <2>3
<1> QED BY <1>1, <1>2, <1>3, <1>4, <1>5, <1>6, <1>7, <1>8, <1>9 DEF IInv

\* An operation never starts in the scope of a transition in flight.
LEMMA OpStartInv ==
    ASSUME IInv, NEW t \in Thread, NEW n \in Node, OpStart(t, n)
    PROVE  IInv'
<1>0. \A u \in Thread : pc[u] \in {"wait", "quiet"} => n \notin WaitSet(at[u])
  <2> SUFFICES ASSUME NEW u \in Thread, pc[u] \in {"wait", "quiet"},
                      n \in WaitSet(at[u])
               PROVE  FALSE
    OBVIOUS
  <2>1. at[u] \in Node /\ active[at[u]] = u /\ u # None
    BY ThreadAssumption DEF IInv, ThreadAgrees, OwnerAgrees, Owns
  <2>2. Related(at[u], n)
    BY <2>1, WaitSetRelated, RelatedSymmetric
  <2> QED BY <2>1, <2>2, SuccessMeansFree DEF IInv, OpStart
<1>1. TypeOK'
  BY DEF IInv, OpStart, TypeOK, PCs, waitVars
<1>2. ThreadAgrees'
  BY DEF IInv, OpStart, TypeOK, ThreadAgrees, waitVars
<1>3. QueueAgrees'
  BY DEF IInv, OpStart, QueueAgrees
<1>4. OpsAgree'
  BY DEF IInv, OpStart, TypeOK, OpsAgree
<1>5. TreeAgrees'
  BY DEF IInv, OpStart, TreeAgrees
<1>6. WalkAgrees'
  <2> SUFFICES ASSUME NEW u \in Thread, pc'[u] = "wait", NEW k \in WaitSet(at'[u])
               PROVE  ops'[k] = {} \/ k \in todo'[u]
                      \/ (cur'[u] = k /\ event'[k] = 0)
    BY DEF WalkAgrees
  <2>1. u # t /\ pc[u] = "wait" /\ at'[u] = at[u]
    BY DEF IInv, OpStart, TypeOK
  <2> QED BY <1>0, <2>1 DEF IInv, OpStart, TypeOK, WalkAgrees, waitVars
<1>7. OwnerAgrees'
  BY DEF IInv, OpStart, OwnerAgrees, Owns
<1>8. TreeExclusion'
  BY DEF IInv, OpStart, TreeExclusion
<1>9. Quiescence'
  <2> SUFFICES ASSUME NEW u \in Thread, pc'[u] = "quiet",
                      NEW k \in WaitSet(at'[u])
               PROVE  ops'[k] = {}
    BY DEF Quiescence
  <2>1. u # t /\ pc[u] = "quiet" /\ at'[u] = at[u]
    BY DEF IInv, OpStart, TypeOK
  <2> QED BY <1>0, <2>1 DEF IInv, OpStart, TypeOK, Quiescence
<1> QED BY <1>1, <1>2, <1>3, <1>4, <1>5, <1>6, <1>7, <1>8, <1>9 DEF IInv

\* The last operation out sets the event, and only the last.
LEMMA OpStopInv ==
    ASSUME IInv, NEW t \in Thread, OpStop(t)
    PROVE  IInv'
<1>0. /\ ops' = [ops EXCEPT ![at[t]] = @ \ {t}]
      /\ event' \in [Node -> 0..MaxDone]
      /\ \A m \in Node : event'[m] = event[m] \/ (m = at[t] /\ ops'[m] = {})
  BY ThreadAssumption DEF IInv, OpStop, Complete, TypeOK, ThreadAgrees
<1>1. TypeOK'
  <2>1. ops' \in [Node -> SUBSET Thread]
    BY <1>0 DEF IInv, TypeOK
  <2> QED BY <1>0, <2>1 DEF IInv, OpStop, TypeOK, PCs, waitVars
<1>2. ThreadAgrees'
  BY DEF IInv, OpStop, TypeOK, ThreadAgrees, waitVars
<1>3. QueueAgrees'
  BY DEF IInv, OpStop, QueueAgrees
<1>4. OpsAgree'
  BY DEF IInv, OpStop, TypeOK, OpsAgree
<1>5. TreeAgrees'
  BY DEF IInv, OpStop, TreeAgrees
<1>6. WalkAgrees'
  <2> SUFFICES ASSUME NEW u \in Thread, pc'[u] = "wait", NEW k \in WaitSet(at'[u])
               PROVE  ops'[k] = {} \/ k \in todo'[u]
                      \/ (cur'[u] = k /\ event'[k] = 0)
    BY DEF WalkAgrees
  <2>1. u # t /\ pc[u] = "wait" /\ at'[u] = at[u]
    BY DEF IInv, OpStop, TypeOK
  <2>2. k \in Node
    BY <2>1, WaitSetRelated DEF IInv, ThreadAgrees
  <2>3. ops[k] = {} \/ k \in todo[u] \/ (cur[u] = k /\ event[k] = 0)
    BY <2>1 DEF IInv, WalkAgrees
  <2>4. ops[k] = {} => ops'[k] = {}
    BY <1>0, <2>2 DEF IInv, TypeOK
  <2> QED BY <1>0, <2>2, <2>3, <2>4 DEF OpStop, waitVars
<1>7. OwnerAgrees'
  BY DEF IInv, OpStop, OwnerAgrees, Owns
<1>8. TreeExclusion'
  BY DEF IInv, OpStop, TreeExclusion
<1>9. Quiescence'
  BY DEF IInv, OpStop, Quiescence
<1> QED BY <1>1, <1>2, <1>3, <1>4, <1>5, <1>6, <1>7, <1>8, <1>9 DEF IInv

\* A stop hands its turn to waiters on free branches, one per branch, and
\* takes each of them off its queue.
LEMMA TransStopInv ==
    ASSUME IInv, NEW t \in Thread, TransStop(t)
    PROVE  IInv'
<1> DEFINE n == at[t]
           act == [active EXCEPT ![n] = None]
           trig == Triggers(act, n)
<1>1. /\ active' = [m \in Node |-> IF m \in trig THEN Head(queue[m]) ELSE act[m]]
      /\ queue' = [m \in Node |-> IF m \in trig THEN Tail(queue[m]) ELSE queue[m]]
      /\ tran' = [u \in Thread |-> IF \E m \in trig : u = Head(queue[m])
                                   THEN "set" ELSE tran[u]]
      /\ pc' = [pc EXCEPT ![t] = "idle"]
      /\ at' = [at EXCEPT ![t] = None]
      /\ attached' = attached /\ ops' = ops /\ event' = event
      /\ todo' = todo /\ cur' = cur
  BY DEF TransStop, waitVars
<1>2. /\ n \in Node /\ n \in attached /\ active[n] = t /\ t # None
      /\ act \in [Node -> Thread \cup {None}]
      /\ act[n] = None
      /\ \A m \in Node : m # n => act[m] = active[m]
  BY ThreadAssumption
  DEF IInv, TransStop, ThreadAgrees, OwnerAgrees, Owns, TreeAgrees, TypeOK
<1>3. ASSUME NEW m \in trig
      PROVE  /\ m \in Node /\ m \in attached /\ queue[m] # << >>
             /\ \A k \in Node : Related(m, k) => act[k] = None
             /\ \A k \in trig : k # m => ~Related(m, k)
  <2>1. m \in Node /\ m \in attached /\ queue[m] # << >>
    BY <1>2, TriggersQueued DEF IInv, Queued
  <2>2. ASSUME NEW k \in Node, Related(m, k) PROVE act[k] = None
    BY <1>2, <2>2, TriggersFree DEF IInv
  <2>3. \A k \in trig : k # m => ~Related(m, k)
    BY <1>2, TriggersApart DEF IInv
  <2> QED BY <2>1, <2>2, <2>3
<1>4. ASSUME NEW m \in trig
      PROVE  /\ Head(queue[m]) = queue[m][1]
             /\ Head(queue[m]) \in Thread
             /\ pc[Head(queue[m])] = "queued" /\ at[Head(queue[m])] = m
             /\ Tail(queue[m]) \in Seq(Thread)
             /\ Len(Tail(queue[m])) = Len(queue[m]) - 1
             /\ \A i \in 1..Len(Tail(queue[m])) :
                    /\ Tail(queue[m])[i] = queue[m][i + 1]
                    /\ i + 1 \in 1..Len(queue[m])
                    /\ Tail(queue[m])[i] # Head(queue[m])
  <2>1. queue[m] \in Seq(Thread) /\ queue[m] # << >>
    BY <1>3 DEF IInv, TypeOK
  <2>2. 1 \in 1..Len(queue[m]) /\ Head(queue[m]) = queue[m][1]
        /\ Head(queue[m]) \in Thread
    BY <2>1
  <2>3. pc[queue[m][1]] = "queued" /\ at[queue[m][1]] = m
    BY <1>3, <2>2 DEF IInv, QueueAgrees
  <2>4. /\ Tail(queue[m]) \in Seq(Thread)
        /\ Len(Tail(queue[m])) = Len(queue[m]) - 1
        /\ \A i \in 1..Len(Tail(queue[m])) :
              Tail(queue[m])[i] = queue[m][i + 1] /\ i + 1 \in 1..Len(queue[m])
    BY <2>1
  <2>5. \A i \in 1..Len(Tail(queue[m])) : i + 1 # 1
    BY <2>4
  <2>6. \A i, j \in 1..Len(queue[m]) : queue[m][i] = queue[m][j] => i = j
    BY <1>3 DEF IInv, QueueAgrees
  <2> QED BY <2>2, <2>3, <2>4, <2>5, <2>6
<1>5. pc[t] # "queued" /\ t \in Thread
  BY DEF TransStop
<1> HIDE DEF trig, act, n
<1>6. TypeOK'
  <2>1. active' \in [Node -> Thread \cup {None}]
    BY <1>1, <1>2, <1>4
  <2>2. queue' \in [Node -> Seq(Thread)]
    BY <1>1, <1>4 DEF IInv, TypeOK
  <2>3. /\ tran' \in [Thread -> TranStates] /\ pc' \in [Thread -> PCs]
        /\ at' \in [Thread -> Node \cup {None}]
    BY <1>1 DEF IInv, TypeOK, TranStates, PCs
  <2> QED BY <1>1, <2>1, <2>2, <2>3 DEF IInv, TypeOK
<1>7. ThreadAgrees'
  BY <1>1 DEF IInv, TransStop, TypeOK, ThreadAgrees
<1>8. QueueAgrees'
  <2> SUFFICES ASSUME NEW m \in Node
               PROVE  /\ \A i \in 1..Len(queue'[m]) :
                            /\ pc'[queue'[m][i]] = "queued"
                            /\ at'[queue'[m][i]] = m
                            /\ tran'[queue'[m][i]] = "clear"
                      /\ \A i, j \in 1..Len(queue'[m]) :
                            queue'[m][i] = queue'[m][j] => i = j
    BY DEF QueueAgrees
  <2>1. ASSUME NEW u \in Thread, pc[u] = "queued", at[u] = m, tran[u] = "clear",
               m \in trig => u # Head(queue[m])
        PROVE  pc'[u] = "queued" /\ at'[u] = m /\ tran'[u] = "clear"
    BY <1>1, <1>4, <1>5, <2>1 DEF IInv, TypeOK
  <2>2. CASE m \in trig
    <3>1. queue'[m] = Tail(queue[m])
      BY <1>1, <2>2
    <3>2. ASSUME NEW i \in 1..Len(queue'[m])
          PROVE  /\ queue'[m][i] = queue[m][i + 1] /\ i + 1 \in 1..Len(queue[m])
                 /\ queue'[m][i] \in Thread
                 /\ queue'[m][i] # Head(queue[m])
      BY <1>4, <2>2, <3>1 DEF IInv, TypeOK
    <3>3. ASSUME NEW i \in 1..Len(queue'[m])
          PROVE  /\ pc'[queue'[m][i]] = "queued" /\ at'[queue'[m][i]] = m
                 /\ tran'[queue'[m][i]] = "clear"
      <4>1. /\ pc[queue[m][i + 1]] = "queued" /\ at[queue[m][i + 1]] = m
            /\ tran[queue[m][i + 1]] = "clear"
        BY <3>2 DEF IInv, QueueAgrees
      <4> QED BY <2>1, <3>2, <4>1
    <3>4. ASSUME NEW i \in 1..Len(queue'[m]), NEW j \in 1..Len(queue'[m]),
                 queue'[m][i] = queue'[m][j]
          PROVE  i = j
      <4>1. /\ queue[m][i + 1] = queue[m][j + 1]
            /\ i + 1 \in 1..Len(queue[m]) /\ j + 1 \in 1..Len(queue[m])
        BY <3>2, <3>4
      <4>2. i + 1 = j + 1
        BY <4>1 DEF IInv, QueueAgrees
      <4> QED BY <4>2
    <3> QED BY <3>3, <3>4
  <2>3. CASE m \notin trig
    <3>1. queue'[m] = queue[m] /\ queue[m] \in Seq(Thread)
      BY <1>1, <2>3 DEF IInv, TypeOK
    <3>2. \A i \in 1..Len(queue[m]) : queue[m][i] \in Thread
      BY <3>1
    <3> QED BY <2>1, <2>3, <3>1, <3>2 DEF IInv, QueueAgrees
  <2> QED BY <2>2, <2>3
<1>9. OpsAgree'
  BY <1>1 DEF IInv, TransStop, TypeOK, OpsAgree
<1>10. TreeAgrees'
  <2>1. \A m \in Node \ attached : act[m] = None
    BY <1>2 DEF IInv, TreeAgrees
  <2> QED BY <1>1, <1>3, <2>1 DEF IInv, TreeAgrees, TypeOK
<1>11. WalkAgrees'
  <2> SUFFICES ASSUME NEW u \in Thread, pc'[u] = "wait", NEW k \in WaitSet(at'[u])
               PROVE  ops'[k] = {} \/ k \in todo'[u]
                      \/ (cur'[u] = k /\ event'[k] = 0)
    BY DEF WalkAgrees
  <2>1. u # t /\ pc[u] = "wait" /\ at'[u] = at[u]
    BY <1>1 DEF IInv, TypeOK
  <2> QED BY <1>1, <2>1 DEF IInv, WalkAgrees
<1>12. OwnerAgrees'
  <2> SUFFICES ASSUME NEW u \in Thread, NEW m \in Node
               PROVE  Owns(u, m)' <=> active'[m] = u
    BY DEF OwnerAgrees
  <2>1. CASE u = t
    <3>1. ~Owns(u, m)'
      BY <1>1, <2>1 DEF IInv, TypeOK, Owns
    <3>2. active[m] = t => m = n
      BY <1>2 DEF IInv, OwnerAgrees, Owns, n
    <3>3. act[m] # t
      BY <1>2, <3>2
    <3>4. active'[m] # t
      BY <1>1, <1>4, <1>5, <3>3
    <3> QED BY <2>1, <3>1, <3>4
  <2>2. CASE u # t
    <3>1. pc'[u] = pc[u] /\ at'[u] = at[u]
      BY <1>1, <2>2 DEF IInv, TypeOK
    <3>2. CASE m \in trig /\ u = Head(queue[m])
      BY <1>1, <1>4, <3>1, <3>2 DEF Owns
    <3>3. CASE ~(m \in trig /\ u = Head(queue[m]))
      <4>1. at[u] = m => tran'[u] = tran[u]
        BY <1>1, <1>4, <3>3
      <4>2. Owns(u, m)' <=> Owns(u, m)
        BY <3>1, <4>1 DEF Owns
      <4>3. active[m] = u => act[m] = u
        BY <1>2, <2>2
      <4>4. act[m] = u => active[m] = u
        BY <1>2, <2>2, ThreadAssumption
      <4>5. active'[m] = u <=> act[m] = u
        <5>1. CASE m \in trig
          BY <1>1, <1>3, <3>3, <5>1, ThreadAssumption DEF Related
        <5>2. CASE m \notin trig
          BY <1>1, <5>2
        <5> QED BY <5>1, <5>2
      <4> QED BY <4>2, <4>3, <4>4, <4>5 DEF IInv, OwnerAgrees
    <3> QED BY <3>2, <3>3
  <2> QED BY <2>1, <2>2
<1>13. TreeExclusion'
  <2> SUFFICES ASSUME NEW m \in Node, NEW k \in Node, m # k, Related(m, k)
               PROVE  active'[m] = None \/ active'[k] = None
    BY DEF TreeExclusion
  <2>1. act[m] = None \/ act[k] = None
    BY <1>2 DEF IInv, TreeExclusion
  <2>2. m \in trig => k \notin trig /\ act[k] = None
    BY <1>3
  <2>3. k \in trig => m \notin trig /\ act[m] = None
    BY <1>3, RelatedSymmetric
  <2> QED BY <1>1, <2>1, <2>2, <2>3
<1>14. Quiescence'
  <2> SUFFICES ASSUME NEW u \in Thread, pc'[u] = "quiet", NEW k \in WaitSet(at'[u])
               PROVE  ops'[k] = {}
    BY DEF Quiescence
  <2>1. u # t /\ pc[u] = "quiet" /\ at'[u] = at[u]
    BY <1>1 DEF IInv, TypeOK
  <2> QED BY <1>1, <2>1 DEF IInv, Quiescence
<1> QED BY <1>6, <1>7, <1>8, <1>9, <1>10, <1>11, <1>12, <1>13, <1>14 DEF IInv

\* The initial state satisfies the invariant.
LEMMA InitInv ==
    ASSUME Init
    PROVE  IInv
<1>1. TypeOK
  <2>1. 0 \in 0..MaxDone
    BY ThreadAssumption
  <2> QED BY <2>1 DEF Init, NoActivity, TypeOK, PCs, TranStates, Node
<1>2. ThreadAgrees /\ QueueAgrees /\ OpsAgree
  BY DEF Init, NoActivity, ThreadAgrees, QueueAgrees, OpsAgree
<1>3. TreeAgrees /\ WalkAgrees
  BY DEF Init, NoActivity, TreeAgrees, WalkAgrees
<1>4. OwnerAgrees /\ TreeExclusion /\ Quiescence
  BY ThreadAssumption DEF Init, NoActivity, OwnerAgrees, Owns, TreeExclusion, Quiescence
<1> QED BY <1>1, <1>2, <1>3, <1>4 DEF IInv

\* A step that changes nothing keeps the invariant.
LEMMA StutterInv ==
    ASSUME IInv, UNCHANGED vars
    PROVE  IInv'
<1>1. (TypeOK /\ ThreadAgrees /\ QueueAgrees /\ OpsAgree /\ TreeAgrees)'
  BY DEF IInv, vars, TypeOK, ThreadAgrees, QueueAgrees, OpsAgree, TreeAgrees
<1>2. (WalkAgrees /\ OwnerAgrees /\ TreeExclusion /\ Quiescence)'
  BY DEF IInv, vars, WalkAgrees, OwnerAgrees, Owns, TreeExclusion, Quiescence
<1> QED BY <1>1, <1>2 DEF IInv

\* Every step keeps the invariant.
LEMMA NextInv ==
    ASSUME IInv, [Next]_vars
    PROVE  IInv'
<1>1. CASE UNCHANGED vars
  BY <1>1, StutterInv
<1>2. CASE \E n \in Node : Create(n)
  BY <1>2, CreateInv
<1>3. ASSUME NEW t \in Thread, NEW n \in Node,
             TransStart(t, n) \/ TransQueue(t, n) \/ OpStart(t, n)
               \/ Destroy(t, n)
      PROVE  IInv'
  BY <1>3, TransStartInv, TransQueueInv, OpStartInv, DestroyInv
<1>4. ASSUME NEW t \in Thread, WaitForOps(t) \/ Progress(t)
      PROVE  IInv'
  BY <1>4, WaitForOpsInv, TranWakeInv, WaitCheckInv, WaitDoneInv, WaitOverInv,
     TransStopInv, OpStopInv DEF Progress
<1> QED BY <1>1, <1>2, <1>3, <1>4 DEF Next

\* The invariant holds in every reachable state of every instance.
THEOREM Invariance == Spec => []IInv
<1>1. Init => IInv
  BY InitInv
<1>2. IInv /\ [Next]_vars => IInv'
  BY NextInv
<1> QED BY <1>1, <1>2, PTL DEF Spec

\* Every variable keeps its type.
THEOREM TypeCorrect == Spec => []TypeOK
<1>1. IInv => TypeOK
  BY DEF IInv
<1> QED BY <1>1, Invariance, PTL

\* Transitions exclude each other along every branch of any tree.
THEOREM MutualExclusion == Spec => []TreeExclusion
<1>1. IInv => TreeExclusion
  BY DEF IInv
<1> QED BY <1>1, Invariance, PTL

\* A transition has exactly the owner that its node records.
THEOREM Ownership == Spec => []OwnerAgrees
<1>1. IInv => OwnerAgrees
  BY DEF IInv
<1> QED BY <1>1, Invariance, PTL

\* After wait_for_ops nothing runs in its scope until the transition ends.
THEOREM QuietMeansQuiet == Spec => []Quiescence
<1>1. IInv => Quiescence
  BY DEF IInv
<1> QED BY <1>1, Invariance, PTL
=============================================================================
