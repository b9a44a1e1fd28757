----------------------------- MODULE DscPromise -----------------------------
(***************************************************************************)
(* Proofs about Dsc that rest on its invariant: no waiter is overlooked,   *)
(* transitions are granted in order, and Dsc implements BranchSync.        *)
(***************************************************************************)
EXTENDS DscProofs

\* The sync layer takes a dsc_vdev off the tree in two steps that DSC never takes
\* by themselves: the queue of a vdev is flushed, and a vdev on which nothing is
\* in flight goes off its list.
Flushes(v) ==
    /\ queue' = [queue EXCEPT ![v] = << >>]
    /\ tran' = [u \in Thread |-> IF \E i \in 1..Len(queue[v]) : queue[v][i] = u
                                 THEN "aborted" ELSE tran[u]]
    /\ UNCHANGED <<attached, active, ops, event, pc, at, todo, cur>>

Unlists(v) ==
    /\ active[v] = None /\ ops[v] = {}
    /\ attached' = attached \ {v}
    /\ UNCHANGED <<active, queue, ops, event, pc, at, tran, todo, cur>>

Retires == \E v \in Vdev : Flushes(v) \/ Unlists(v)

\* Whom a flush aborts was waiting.
LEMMA FlushedWaited ==
    ASSUME IInv, NEW v \in Vdev, NEW u \in Thread,
           \E i \in 1..Len(queue[v]) : queue[v][i] = u
    PROVE  pc[u] = "queued" /\ at[u] = v /\ tran[u] = "clear"
BY DEF IInv, QueueAgrees, Node

\* Retiring a vdev keeps the invariant of DSC.
LEMMA RetireInv ==
    ASSUME IInv, NEW v \in Vdev, Flushes(v) \/ Unlists(v)
    PROVE  IInv'
<1>1. CASE Flushes(v)
  <2>1. /\ queue' = [queue EXCEPT ![v] = << >>]
        /\ UNCHANGED <<attached, active, ops, event, pc, at, todo, cur>>
    BY <1>1 DEF Flushes
  <2>2. \A u \in Thread : tran'[u] = tran[u] \/
          (tran'[u] = "aborted" /\ tran[u] = "clear" /\ at[u] = v)
    <3>1. ASSUME NEW u \in Thread, \E i \in 1..Len(queue[v]) : queue[v][i] = u
          PROVE  tran[u] = "clear" /\ at[u] = v
      BY <3>1, FlushedWaited
    <3> QED BY <1>1, <3>1 DEF Flushes
  <2>3. TypeOK'
    <3>1. queue' \in [Node -> Seq(Thread)]
      <4>1. << >> \in Seq(Thread) /\ queue \in [Node -> Seq(Thread)]
        BY DEF IInv, TypeOK
      <4> QED BY <2>1, <4>1
    <3>2. tran' \in [Thread -> TranStates]
      BY <1>1 DEF IInv, TypeOK, Flushes, TranStates
    <3> QED BY <2>1, <3>1, <3>2 DEF IInv, TypeOK
  <2>4. QueueAgrees'
    <3>0. /\ queue' = [queue EXCEPT ![v] = << >>] /\ v \in Node /\ queue'[v] = << >>
          /\ \A n \in Node \ {v} : queue'[n] = queue[n]
      BY <2>1 DEF IInv, TypeOK, Node
    <3> SUFFICES ASSUME NEW n \in Node \ {v}, NEW i \in 1..Len(queue[n])
                 PROVE  tran'[queue[n][i]] = "clear"
      BY <2>1, <3>0 DEF IInv, QueueAgrees
    <3>1. queue[n] \in Seq(Thread) /\ tran[queue[n][i]] = "clear" /\ at[queue[n][i]] = n
      BY DEF IInv, TypeOK, QueueAgrees
    <3>2. queue[n][i] \in Thread
      BY <3>1
    <3> QED BY <2>2, <3>1, <3>2
  <2>5. (ThreadAgrees /\ OpsAgree /\ TreeAgrees /\ WalkAgrees /\ TreeExclusion /\ Quiescence)'
    BY <2>1 DEF IInv, ThreadAgrees, OpsAgree, TreeAgrees, WalkAgrees,
       TreeExclusion, Quiescence
  <2>6. OwnerAgrees'
    BY <2>1, <2>2 DEF IInv, OwnerAgrees, Owns
  <2> QED BY <2>3, <2>4, <2>5, <2>6 DEF IInv
<1>2. CASE Unlists(v)
  <2>1. /\ UNCHANGED <<active, queue, ops, event, pc, at, tran, todo, cur>>
        /\ attached' = attached \ {v} /\ active[v] = None /\ ops[v] = {}
    BY <1>2 DEF Unlists
  <2>2. TypeOK'
    BY <2>1, TreeAssumption DEF IInv, TypeOK
  <2>3. (ThreadAgrees /\ QueueAgrees /\ OpsAgree)'
    BY <2>1 DEF IInv, ThreadAgrees, QueueAgrees, OpsAgree
  <2>4. (WalkAgrees /\ OwnerAgrees /\ TreeExclusion /\ Quiescence)'
    BY <2>1 DEF IInv, WalkAgrees, OwnerAgrees, Owns, TreeExclusion, Quiescence
  <2>5. TreeAgrees'
    <3>1. \A n \in Node \ {Driver} : Parent(n) # v
      BY TreeAssumption DEF Parent, Node
    <3> QED BY <2>1, <3>1 DEF IInv, TypeOK, TreeAgrees
  <2> QED BY <2>2, <2>3, <2>4, <2>5 DEF IInv
<1> QED BY <1>1, <1>2

-----------------------------------------------------------------------------
(* No stop overlooks a waiter.                                             *)

\* A transition in flight on n's branch covers n while n waits.
LEMMA ActiveCovers ==
    ASSUME NEW n \in Node, Queued(n), NEW k \in Node, Related(n, k),
           active[k] # None
    PROVE  Covered(n)
BY DEF Covered

\* A request joins the queue of a node only when something covers it.
LEMMA QueueCovered ==
    ASSUME IInv, CoveredInTree, NEW t \in Thread, NEW n \in Node,
           TransQueue(t, n)
    PROVE  CoveredInTree'
<1>1. /\ n \in attached
      /\ CanTrans(n) \cap {"E_AGAIN", "E_BUSY"} # {}
      /\ queue' = [queue EXCEPT ![n] = Append(@, t)] /\ active' = active
      /\ attached' = attached /\ attached \subseteq Node
  BY DEF TransQueue, IInv, TypeOK
<1>2. \A m \in Node : Queued(m) => Queued(m)'
  BY <1>1 DEF IInv, TypeOK, Queued
<1>3. Queued(n)'
  <2>1. queue[n] \in Seq(Thread) /\ queue'[n] = Append(queue[n], t)
    BY <1>1 DEF IInv, TypeOK
  <2>2. Len(queue'[n]) = Len(queue[n]) + 1 /\ Len(queue[n]) \in Nat
    BY <2>1
  <2> QED BY <2>2 DEF Queued
<1>4. /\ \A m \in Node : m # n /\ Queued(m)' => Queued(m)
      /\ \A m \in Node : {m} \cup Ancestors(m) \subseteq Node
  BY <1>1, AncestorsType DEF IInv, TypeOK, Queued
<1>5. Queued(n) => Covered(n)
  BY <1>1 DEF CoveredInTree
<1>6. \/ \E k \in Node : Related(n, k) /\ active[k] # None
      \/ \E m \in {n} \cup Ancestors(n) : Queued(m) /\ Covered(m)
  <2>1. CASE n = Driver
    BY <1>1, <1>5, <2>1, DriverRelated, TreeAssumption
    DEF CanTrans, DriverCanTrans, ActiveOrQueued, ActiveDownTree, DownTree,
        IInv, TypeOK
  <2>2. CASE n \in Psoc
    BY <1>1, <1>5, <2>2, TreeAssumption
    DEF CanTrans, PsocCanTrans, ActiveOrQueued, ActiveDownTree, DownTree,
        Related, IInv, TypeOK
  <2>3. CASE n \in Vdev
    <3>1. PsocOf[n] \in Node /\ Related(n, PsocOf[n]) /\ PsocOf[n] \in attached
      BY <1>1, <2>3, TreeAssumption
      DEF Node, Related, Ancestors, IInv, TreeAgrees, Parent
    <3>2. Queued(PsocOf[n]) => Covered(PsocOf[n])
      BY <3>1 DEF CoveredInTree
    <3>3. active[n] # None \/ active[PsocOf[n]] # None \/ Queued(n)
            \/ Queued(PsocOf[n])
      BY <1>1, <2>3, TreeAssumption
      DEF CanTrans, VdevCanTrans, ActiveOrQueued
    <3> QED BY <1>5, <2>3, <3>1, <3>2, <3>3 DEF Ancestors, Related
  <2> QED BY <2>1, <2>2, <2>3 DEF Node
<1>7. \A m \in Node : Covered(m) => Covered(m)'
  BY <1>1, <1>2, <1>4 DEF Covered
<1>8. Covered(n)'
  <2>1. CASE \E k \in Node : Related(n, k) /\ active[k] # None
    BY <1>1, <1>3, <2>1 DEF Covered
  <2>2. CASE \E m \in {n} \cup Ancestors(n) : Queued(m) /\ Covered(m)
    <3>1. PICK m \in {n} \cup Ancestors(n) : Covered(m)
      BY <2>2
    <3>2. Ancestors(m) \subseteq Ancestors(n) \/ m = n
      BY <3>1, TreeAssumption DEF Ancestors
    <3>3. Covered(n)
      BY <3>1, <3>2 DEF Covered
    <3> QED BY <1>7, <3>3
  <2> QED BY <1>6, <2>1, <2>2
<1> QED BY <1>1, <1>4, <1>7, <1>8 DEF CoveredInTree

\* Destroying a node flushes its queue and disturbs no other waiter.
LEMMA DestroyCovered ==
    ASSUME IInv, CoveredInTree, NEW t \in Thread, NEW n \in Node,
           Destroy(t, n)
    PROVE  CoveredInTree'
<1> SUFFICES ASSUME NEW x \in attached', Queued(x)' PROVE Covered(x)'
  BY DEF CoveredInTree
<1>1. /\ active' = active /\ queue' = [queue EXCEPT ![n] = << >>]
      /\ n # Driver /\ Children(n) = {} /\ attached' = attached \ {n}
  BY TreeAssumption DEF Destroy, DownTree, Ancestors
<1>2. x # n /\ Queued(x) /\ x \in attached /\ x \in Node
  BY <1>1 DEF IInv, TypeOK, Queued
<1>3. n \notin Ancestors(x)
  <2>1. x \in attached /\ (x # Driver => Parent(x) \in attached)
    BY <1>2 DEF IInv, TreeAgrees
  <2> QED BY <1>1, <2>1, TreeAssumption DEF Children, Parent, Ancestors
<1>4. PICK m \in {x} \cup Ancestors(x) :
         Queued(m) /\ \E k \in Node : Related(m, k) /\ active[k] # None
  BY <1>2 DEF CoveredInTree, Covered
<1>5. Queued(m)'
  BY <1>1, <1>2, <1>3, <1>4, AncestorsType DEF IInv, TypeOK, Queued
<1> QED BY <1>1, <1>4, <1>5 DEF Covered

\* So do flushing a vdev's queue and taking the vdev off the tree.
LEMMA RetireCovered ==
    ASSUME IInv, CoveredInTree, NEW v \in Vdev, Flushes(v) \/ Unlists(v)
    PROVE  CoveredInTree'
<1> SUFFICES ASSUME NEW x \in attached', Queued(x)' PROVE Covered(x)'
  BY DEF CoveredInTree
<1>1. /\ v \in Node /\ active' = active /\ attached' \subseteq attached
      /\ queue' = queue \/ queue' = [queue EXCEPT ![v] = << >>]
  BY DEF Flushes, Unlists, Node
<1>2. x \in attached /\ x \in Node /\ Queued(x)
  <2>1. x \in attached /\ x \in Node
    BY <1>1 DEF IInv, TypeOK
  <2>2. x # v \/ queue' = queue
    BY <1>1, <2>1 DEF IInv, TypeOK, Queued
  <2> QED BY <1>1, <2>1, <2>2 DEF IInv, TypeOK, Queued
<1>3. PICK m \in {x} \cup Ancestors(x) :
         Queued(m) /\ \E k \in Node : Related(m, k) /\ active[k] # None
  BY <1>2 DEF CoveredInTree, Covered
<1>4. m = x \/ m # v
  BY <1>2, <1>3, TreeAssumption DEF Ancestors
<1>5. Queued(m)'
  <2>1. m \in Node
    BY <1>2, AncestorsType
  <2>2. m # v \/ queue' = queue
    BY <1>1, <1>2, <1>4 DEF IInv, TypeOK, Queued
  <2> QED BY <1>1, <1>3, <2>1, <2>2 DEF IInv, TypeOK, Queued
<1> QED BY <1>1, <1>3, <1>5 DEF Covered

\* A fresh node has no waiter, and none below it.
LEMMA CreateCovered ==
    ASSUME IInv, CoveredInTree, NEW n \in Node, Create(n)
    PROVE  CoveredInTree'
<1> SUFFICES ASSUME NEW x \in attached', Queued(x)' PROVE Covered(x)'
  BY DEF CoveredInTree
<1>1. /\ active' = active /\ queue' = [queue EXCEPT ![n] = << >>]
      /\ n \notin attached /\ attached' = attached \cup {n}
  BY DEF IInv, TypeOK, TreeAgrees, Create
<1>2. x # n /\ x \in attached /\ x \in Node /\ Queued(x)
  BY <1>1 DEF IInv, TypeOK, Queued
<1>3. PICK m \in {x} \cup Ancestors(x) :
         Queued(m) /\ \E k \in Node : Related(m, k) /\ active[k] # None
  BY <1>2 DEF CoveredInTree, Covered
<1>4. {x} \cup Ancestors(x) \subseteq attached
  BY <1>2, TreeAssumption DEF IInv, TypeOK, TreeAgrees, Parent, Ancestors, Node
<1>5. Queued(m)'
  BY <1>1, <1>3, <1>4, AncestorsType DEF IInv, TypeOK, Queued
<1> QED BY <1>1, <1>3, <1>5 DEF Covered

\* A stop triggers a waiter on the branch of every waiter it leaves, unless
\* another transition in flight covers it or covers a driver or psoc that
\* has to go first.
LEMMA StopCovered ==
    ASSUME IInv, CoveredInTree, NEW t \in Thread, TransStop(t)
    PROVE  CoveredInTree'
<1> SUFFICES ASSUME NEW x \in attached', Queued(x)' PROVE Covered(x)'
  BY DEF CoveredInTree
<1> DEFINE n == at[t]
           act == [active EXCEPT ![n] = None]
           trig == Triggers(act, n)
<1>1. /\ active' = [m \in Node |-> IF m \in trig THEN Head(queue[m]) ELSE act[m]]
      /\ queue' = [m \in Node |-> IF m \in trig THEN Tail(queue[m]) ELSE queue[m]]
      /\ attached' = attached
  BY DEF TransStop
<1>2. /\ n \in Node /\ n \in attached /\ active[n] = t /\ t # None
      /\ act[n] = None /\ \A m \in Node : m # n => act[m] = active[m]
  BY ThreadAssumption
  DEF IInv, TransStop, ThreadAgrees, OwnerAgrees, Owns, TreeAgrees, TypeOK
<1>3. ASSUME NEW m \in trig
      PROVE  m \in Node /\ Queued(m) /\ active'[m] # None
  <2>1. m \in Node /\ queue[m] \in Seq(Thread) /\ queue[m] # << >>
    BY <1>2, TriggersQueued DEF IInv, TypeOK, Queued
  <2>2. Head(queue[m]) \in Thread
    BY <2>1
  <2> QED BY <1>1, <2>1, <2>2, ThreadAssumption DEF Queued
<1>4. ASSUME NEW m \in Node, Queued(m)' PROVE Queued(m)
  <2>1. queue[m] \in Seq(Thread)
    BY DEF IInv, TypeOK
  <2>2. CASE m \in trig
    BY <1>3, <2>2
  <2>3. CASE m \notin trig
    BY <1>1, <1>4, <2>3 DEF Queued
  <2> QED BY <2>2, <2>3
<1>5. \A m \in Node \ trig : Queued(m) => Queued(m)'
  BY <1>1 DEF Queued
<1>6. \A k \in Node : act[k] # None => active'[k] # None
  <2>1. \A k \in Node : k \in trig => active'[k] # None
    BY <1>3
  <2> QED BY <1>1, <2>1
<1>7. Queued(x) /\ x \in attached /\ x \in Node
  BY <1>1, <1>4 DEF IInv, TypeOK
<1>8. \A m \in trig : Related(x, m) => Covered(x)'
  BY <1>3 DEF Covered
<1>9. ASSUME NEW m \in {x} \cup Ancestors(x), Queued(m),
             NEW k \in Node, Related(m, k), act[k] # None
      PROVE  Covered(x)'
  <2>1. m \in Node /\ Related(x, m)
    BY <1>7, AncestorsType DEF Related
  <2>2. CASE m \in trig
    BY <1>8, <2>1, <2>2
  <2>3. CASE m \notin trig
    BY <1>5, <1>6, <1>9, <2>1, <2>3 DEF Covered
  <2> QED BY <2>2, <2>3
<1>10. PICK m \in {x} \cup Ancestors(x) :
          Queued(m) /\ \E k \in Node : Related(m, k) /\ active[k] # None
  BY <1>7 DEF CoveredInTree, Covered
<1>11. m \in Node
  BY <1>7, AncestorsType
<1>12. CASE \E k \in Node : Related(m, k) /\ act[k] # None
  BY <1>9, <1>10, <1>12
<1>13. CASE ~\E k \in Node : Related(m, k) /\ act[k] # None
  <2>1. Related(m, n)
    BY <1>2, <1>10, <1>13
  <2>2. Driver \in Node /\ Related(x, Driver) /\ Driver \in {x} \cup Ancestors(x)
    BY <1>7, TreeAssumption DEF Node, Related, Ancestors
  <2>3. CASE n = Driver
    <3>1. CASE Queued(Driver)
      BY <1>8, <2>2, <2>3, <3>1 DEF Triggers, DriverTriggers
    <3>2. CASE ~Queued(Driver) /\ x \in Psoc
      <4>1. x \in trig
        BY <1>7, <2>3, <3>2, TreeAssumption
        DEF Triggers, DriverTriggers, Children, Parent
      <4> QED BY <1>8, <4>1 DEF Related
    <3>3. CASE ~Queued(Driver) /\ x \in Vdev
      <4>1. PsocOf[x] \in Children(Driver) /\ x \in Children(PsocOf[x])
        BY <1>7, <3>3, TreeAssumption
        DEF IInv, TreeAgrees, Children, Parent
      <4>2. PsocOf[x] \in trig \/ x \in trig
        BY <1>7, <2>3, <3>3, <4>1 DEF Triggers, DriverTriggers, QueuedOf
      <4> QED BY <1>8, <3>3, <4>2 DEF Related, Ancestors
    <3> QED BY <1>7, <3>1, <3>2, <3>3 DEF Node
  <2>4. CASE n # Driver /\ Queued(Driver)
    <3>1. CASE DriverCanTrigger(act)
      <4>1. Driver \in trig
        BY <1>2, <2>4, <3>1, TreeAssumption
        DEF Triggers, PsocTriggers, VdevTriggers, DriverTriggerChecked, Node
      <4> QED BY <1>8, <2>2, <4>1
    <3>2. CASE ~DriverCanTrigger(act)
      <4>1. PICK k \in Node : act[k] # None
        BY <2>2, <3>2 DEF DriverCanTrigger, ActiveDownTree, DownTree, IInv,
           TypeOK
      <4> QED BY <1>9, <2>2, <2>4, <4>1, DriverRelated
    <3> QED BY <3>1, <3>2
  <2>5. CASE n \in Psoc /\ ~Queued(Driver)
    <3>1. m = n \/ (m \in Vdev /\ PsocOf[m] = n /\ x = m)
      BY <1>10, <1>11, <2>1, <2>5, TreeAssumption DEF Related, Ancestors, Node
    <3>2. CASE Queued(n)
      <4>1. n \in trig
        BY <2>5, <3>2, TreeAssumption DEF Triggers, PsocTriggers
      <4> QED BY <1>8, <1>10, <3>1, <4>1 DEF Related, Ancestors
    <3>3. CASE ~Queued(n)
      <4>1. x \in Children(n) /\ x = m
        BY <1>7, <1>10, <3>1, <3>3, TreeAssumption DEF Children, Parent
      <4>2. x \in trig
        BY <1>7, <2>5, <3>3, <4>1, TreeAssumption
        DEF Triggers, PsocTriggers, QueuedOf
      <4> QED BY <1>8, <4>2 DEF Related
    <3> QED BY <3>2, <3>3
  <2>6. CASE n \in Vdev /\ ~Queued(Driver)
    <3> DEFINE p == PsocOf[n]
    <3>1. p \in Psoc /\ p \in Node /\ (m = n \/ m = p)
      BY <1>10, <1>11, <2>1, <2>6, TreeAssumption DEF Related, Ancestors, Node
    <3>2. CASE ~Queued(p)
      <4>1. m = n /\ x = n
        BY <1>10, <2>6, <3>1, <3>2, TreeAssumption DEF Ancestors
      <4>2. x \in trig
        BY <1>7, <2>6, <3>2, <4>1, TreeAssumption
        DEF Triggers, VdevTriggers, QueuedOf
      <4> QED BY <1>8, <4>2 DEF Related
    <3>3. CASE Queued(p)
      <4>1. p \in {x} \cup Ancestors(x)
        BY <1>10, <2>6, <3>1, TreeAssumption DEF Ancestors
      <4>2. CASE PsocCanTrigger(act, p)
        <5>1. p \in trig
          BY <2>6, <3>3, <4>2, TreeAssumption
          DEF Triggers, VdevTriggers, PsocTriggerChecked
        <5> QED BY <1>8, <4>1, <5>1 DEF Related
      <4>3. CASE ~PsocCanTrigger(act, p)
        <5>1. PICK k \in Node : Related(p, k) /\ act[k] # None
          BY <2>2, <2>6, <3>1, <4>3, DriverRelated, RelatedSymmetric
          DEF PsocCanTrigger, ActiveDownTree, DownTree, Related, IInv, TypeOK
        <5> QED BY <1>9, <3>1, <3>3, <4>1, <5>1
      <4> QED BY <4>2, <4>3
    <3> QED BY <3>2, <3>3
  <2> QED BY <1>2, <2>3, <2>4, <2>5, <2>6 DEF Node
<1> QED BY <1>12, <1>13

\* The steps that touch neither a queue nor a transition, or only add one.
LEMMA OthersCovered ==
    ASSUME CoveredInTree, IInv, queue' = queue, attached' = attached,
           \A k \in Node : active[k] # None => active'[k] # None
    PROVE  CoveredInTree'
<1>1. \A n \in Node : Queued(n)' <=> Queued(n)
  BY DEF Queued
<1>2. ASSUME NEW n \in Node, Covered(n) PROVE Covered(n)'
  <2>1. {n} \cup Ancestors(n) \subseteq Node
    BY AncestorsType
  <2> QED BY <1>1, <1>2, <2>1 DEF Covered
<1> QED BY <1>1, <1>2 DEF CoveredInTree, IInv, TypeOK

\* Whoever takes the steps of Dsc, from whatever state of its invariant, and
\* retires vdevs, overlooks no waiter in the tree.
LEMMA StepsStrandNobody ==
    CoveredInTree /\ []IInv /\ [][Next \/ Retires]_vars => []CoveredInTree
<1>1. ASSUME IInv, CoveredInTree, [Next \/ Retires]_vars PROVE CoveredInTree'
  <2>1. CASE UNCHANGED vars \/ Retires
    BY <1>1, <2>1, OthersCovered, RetireCovered DEF vars, Retires
  <2>2. ASSUME NEW n \in Node, Create(n) PROVE CoveredInTree'
    BY <1>1, <2>2, CreateCovered
  <2>3. ASSUME NEW t \in Thread, NEW n \in Node, TransStart(t, n)
        PROVE  CoveredInTree'
    <3>1. /\ queue' = queue /\ attached' = attached
          /\ \A k \in Node : active[k] # None => active'[k] # None
      BY <1>1, <2>3, ThreadAssumption DEF IInv, TypeOK, TransStart
    <3> QED BY <1>1, <3>1, OthersCovered
  <2>4. ASSUME NEW t \in Thread, NEW n \in Node, TransQueue(t, n) \/ Destroy(t, n)
        PROVE  CoveredInTree'
    BY <1>1, <2>4, QueueCovered, DestroyCovered
  <2>5. ASSUME NEW t \in Thread, TransStop(t) PROVE CoveredInTree'
    BY <1>1, <2>5, StopCovered
  <2>6. ASSUME NEW t \in Thread, NEW n \in Node,
               OpStart(t, n) \/ WaitCheck(t, n) \/ WaitForOps(t) \/ TranWake(t)
                 \/ WaitDone(t) \/ WaitOver(t) \/ OpStop(t)
        PROVE  CoveredInTree'
    <3>1. queue' = queue /\ attached' = attached /\ active' = active
      BY <2>6 DEF OpStart, WaitCheck, WaitForOps, TranWake, WaitDone, WaitOver,
         OpStop, nodeVars
    <3> QED BY <1>1, <3>1, OthersCovered
  <2>7. Driver \in Node
    BY DEF Node
  <2> QED BY <1>1, <2>1, <2>2, <2>3, <2>4, <2>5, <2>6, <2>7 DEF Next, Progress
<1> QED BY <1>1, PTL

\* Without activity nobody waits.
LEMMA NobodyWaits ==
    ASSUME NoActivity, attached \subseteq Node
    PROVE  CoveredInTree /\ NobodyLeftBehind
<1>1. \A n \in Node : ~Queued(n)
  BY DEF NoActivity, Queued
<1> QED BY <1>1 DEF CoveredInTree, NobodyLeftBehind

\* Nobody queues on a node that has left the tree, and a node that leaves it is
\* flushed with the same step.
LEMMA StepsLeaveNobody ==
    NobodyLeftBehind /\ []IInv /\ [][Next]_vars => []NobodyLeftBehind
<1>1. ASSUME IInv, NobodyLeftBehind, [Next]_vars PROVE NobodyLeftBehind'
  <2>0. queue \in [Node -> Seq(Thread)]
    BY <1>1 DEF IInv, TypeOK
  <2>1. CASE UNCHANGED <<attached, queue>>
    BY <1>1, <2>1 DEF NobodyLeftBehind, Queued
  <2>2. ASSUME NEW n \in Node, Create(n) PROVE NobodyLeftBehind'
    BY <1>1, <2>0, <2>2 DEF Create, NobodyLeftBehind, Queued
  <2>3. ASSUME NEW t \in Thread, NEW n \in Node, TransQueue(t, n) \/ Destroy(t, n)
        PROVE  NobodyLeftBehind'
    BY <1>1, <2>0, <2>3 DEF TransQueue, Destroy, NobodyLeftBehind, Queued
  <2>4. ASSUME NEW t \in Thread, TransStop(t) PROVE NobodyLeftBehind'
    <3>1. /\ attached' = attached
          /\ \A n \in Node : n \notin Triggers([active EXCEPT ![at[t]] = None], at[t])
                               => queue'[n] = queue[n]
      BY <2>4 DEF TransStop
    <3>2. at[t] \in attached
      BY <1>1, <2>4, ThreadAssumption
      DEF IInv, TransStop, ThreadAgrees, OwnerAgrees, Owns, TreeAgrees
    <3>3. \A n \in Triggers([active EXCEPT ![at[t]] = None], at[t]) : n \in attached
      BY <1>1, <3>2, TriggersQueued DEF IInv
    <3> QED BY <1>1, <3>1, <3>3 DEF NobodyLeftBehind, Queued
  <2>5. ASSUME NEW t \in Thread, NEW n \in Node,
               TransStart(t, n) \/ OpStart(t, n) \/ WaitCheck(t, n) \/ WaitForOps(t)
                 \/ TranWake(t) \/ WaitDone(t) \/ WaitOver(t) \/ OpStop(t)
        PROVE  UNCHANGED <<attached, queue>>
    BY <2>5 DEF TransStart, OpStart, WaitCheck, WaitForOps, TranWake, WaitDone,
       WaitOver, OpStop, nodeVars
  <2>6. Driver \in Node
    BY DEF Node
  <2>7. CASE UNCHANGED vars
    BY <2>1, <2>7 DEF vars
  <2> QED BY <1>1, <2>1, <2>2, <2>3, <2>4, <2>5, <2>6, <2>7 DEF Next, Progress
<1> QED BY <1>1, PTL

\* Who waits on no node that has left the tree, and is covered on one of it, is
\* not stranded.
LEMMA StrandedIsLeft ==
    ASSUME CoveredInTree, NobodyLeftBehind
    PROVE  NoStrandedWaiter
BY DEF CoveredInTree, NobodyLeftBehind, NoStrandedWaiter

\* No waiter is ever overlooked by the stop that should trigger it.
THEOREM NobodyStranded == Spec => []NoStrandedWaiter
<1>1. Init => CoveredInTree /\ NobodyLeftBehind
  BY NobodyWaits DEF Init, Node
<1>2. CoveredInTree /\ NobodyLeftBehind => NoStrandedWaiter
  BY StrandedIsLeft
<1> QED BY <1>1, <1>2, StepsStrandNobody, StepsLeaveNobody, Invariance, PTL DEF Spec

-----------------------------------------------------------------------------
(* Transitions are granted in order.                                       *)

\* A stop triggers no node below one that still waits.
LEMMA TriggersFirst ==
    ASSUME TypeOK, TreeAgrees, NEW n \in attached, NEW act,
           NEW m \in Triggers(act, n), NEW k \in Ancestors(m)
    PROVE  ~Queued(k)
<1>1. n \in Node /\ m \in Node
  BY TriggersQueued DEF TypeOK
<1>2. CASE n = Driver
  BY <1>1, <1>2, TreeAssumption
  DEF Triggers, DriverTriggers, QueuedOf, Children, Parent, Ancestors, Node
<1>3. CASE n \in Psoc
  BY <1>1, <1>3, TreeAssumption
  DEF Triggers, PsocTriggers, DriverTriggerChecked, QueuedOf, Children, Parent,
      Ancestors, Node
<1>4. CASE n \in Vdev
  BY <1>4, TreeAssumption
  DEF Triggers, VdevTriggers, DriverTriggerChecked, PsocTriggerChecked,
      QueuedOf, Ancestors
<1> QED BY <1>1, <1>2, <1>3, <1>4 DEF Node

\* Steps of Dsc grant in order.
LEMMA StepsGrantInOrder == []IInv /\ [][Next \/ Retires]_vars => GrantOrder
<1> DEFINE InOrder == \A n \in Node : Granted(n) =>
                         /\ Queued(n) => active'[n] = Head(queue[n])
                         /\ \A m \in Ancestors(n) : ~Queued(m)
<1>1. ASSUME IInv, [Next \/ Retires]_vars PROVE [InOrder]_vars
  <2>1. CASE active' = active
    BY <2>1 DEF Granted
  <2>2. ASSUME NEW t \in Thread, NEW n \in Node, TransStart(t, n)
        PROVE  InOrder
    <3>1. active' = [active EXCEPT ![n] = t] /\ n \in attached
          /\ "SUCCESS" \in CanTrans(n)
      BY <2>2 DEF TransStart
    <3>2. ~Queued(n)
      BY <1>1, <3>1, SuccessMeansFree DEF IInv, Queued, Related
    <3>3. \A m \in Ancestors(n) : ~Queued(m)
      BY <3>1, TreeAssumption
      DEF CanTrans, PsocCanTrans, VdevCanTrans, ActiveOrQueued, Ancestors, Node
    <3>4. \A m \in Node : Granted(m) => m = n
      BY <1>1, <3>1 DEF IInv, TypeOK, Granted
    <3> QED BY <3>2, <3>3, <3>4
  <2>3. ASSUME NEW t \in Thread, TransStop(t)
        PROVE  InOrder
    <3> DEFINE n == at[t]
               act == [active EXCEPT ![n] = None]
    <3>1. active' = [m \in Node |-> IF m \in Triggers(act, n)
                                    THEN Head(queue[m]) ELSE act[m]]
      BY <2>3 DEF TransStop
    <3>2. n \in attached
      BY <1>1, <2>3, ThreadAssumption
      DEF IInv, TransStop, ThreadAgrees, OwnerAgrees, Owns, TreeAgrees
    <3>3. \A m \in Node : act[m] = active[m] \/ act[m] = None
      BY <1>1 DEF IInv, TypeOK
    <3>4. \A m \in Node : Granted(m) => m \in Triggers(act, n)
      BY <3>1, <3>3 DEF Granted
    <3> QED BY <1>1, <3>1, <3>2, <3>4, TriggersFirst DEF IInv
  <2>4. ASSUME NEW n \in Node, Create(n) PROVE active' = active
    BY <1>1, <2>4 DEF IInv, TypeOK, TreeAgrees, Create
  <2>5. ASSUME NEW t \in Thread, NEW n \in Node,
               \/ TransQueue(t, n) \/ Destroy(t, n) \/ OpStart(t, n)
               \/ WaitCheck(t, n) \/ WaitForOps(t) \/ TranWake(t)
               \/ WaitDone(t) \/ WaitOver(t) \/ OpStop(t)
        PROVE  active' = active
    BY <2>5 DEF TransQueue, Destroy, OpStart, WaitCheck, WaitForOps, TranWake,
       WaitDone, WaitOver, OpStop, nodeVars
  <2>6. Driver \in Node
    BY DEF Node
  <2>7. Retires => active' = active
    BY DEF Retires, Flushes, Unlists
  <2> QED BY <1>1, <2>1, <2>2, <2>3, <2>4, <2>5, <2>6, <2>7 DEF Next, Progress
<1> QED BY <1>1, PTL DEF GrantOrder

\* No grant passes over a waiter on the same node or on one above it.
THEOREM GrantsInOrder == Spec => GrantOrder
BY StepsGrantInOrder, Invariance, PTL DEF Spec

-----------------------------------------------------------------------------
(* Dsc implements BranchSync.                                              *)

\* Owners, as BranchSync sees them, are the owners that the nodes record.
LEMMA OwningIsActive ==
    ASSUME IInv, NEW t \in Thread
    PROVE  /\ Abs!Owning(t) <=> at[t] \in Node /\ active[at[t]] = t
           /\ \A n \in Node : active[n] = t => at[t] = n
BY DEF IInv, ThreadAgrees, OwnerAgrees, Owns, Abs!Owning, ModeOf

\* A node on whose branch no transition is in flight is free for BranchSync.
LEMMA FreeBranch ==
    ASSUME IInv, NEW n \in Node, NEW S,
           \A m \in Node : Related(m, n) => active[m] \in S \cup {None}
    PROVE  Abs!Free(n, S)
BY OwningIsActive, ThreadAssumption DEF Abs!Free

\* How one thread's move looks to BranchSync.
LEMMA MoveOne ==
    ASSUME NEW t \in Thread, NEW m, NEW n, ModeOf(t)' = m,
           \A u \in Thread \ {t} : ModeOf(u)' = ModeOf(u),
           at' = [at EXCEPT ![t] = n]
    PROVE  Abs!Move(t, m, n)
BY DEF Abs!Move

\* Steps that BranchSync does not see.
LEMMA StepsUnseen ==
    ASSUME IInv, NEW t \in Thread, NEW n \in Node,
           \/ Create(n) \/ Destroy(t, n) \/ WaitForOps(t) \/ WaitCheck(t, n)
           \/ WaitDone(t) \/ (TranWake(t) /\ tran[t] = "set")
    PROVE  UNCHANGED Abs!vars
<1>1. at' = at
  BY DEF Create, Destroy, WaitForOps, WaitCheck, WaitDone, TranWake
<1>2. ASSUME NEW u \in Thread PROVE ModeOf(u)' = ModeOf(u)
  <2>1. CASE Create(n) \/ WaitCheck(t, n) \/ WaitDone(t)
    BY <2>1 DEF Create, WaitCheck, WaitDone, ModeOf
  <2>2. CASE Destroy(t, n)
    BY <2>2 DEF Destroy, ModeOf
  <2>3. CASE WaitForOps(t)
    BY <2>3 DEF WaitForOps, ModeOf, IInv, TypeOK
  <2>4. CASE TranWake(t) /\ tran[t] = "set"
    BY <2>4 DEF TranWake, ModeOf, IInv, TypeOK
  <2> QED BY <2>1, <2>2, <2>3, <2>4
<1> QED BY <1>1, <1>2 DEF Abs!vars

\* Steps in which one thread comes or goes.
LEMMA StepsOfOne ==
    ASSUME IInv, NEW t \in Thread, NEW n \in Node,
           \/ TransStart(t, n) \/ TransQueue(t, n) \/ OpStart(t, n)
           \/ OpStop(t) \/ (TranWake(t) /\ tran[t] = "aborted")
    PROVE  Abs!Next
<1>1. CASE TransStart(t, n) \/ OpStart(t, n)
  <2>1. Abs!Free(n, {})
    BY <1>1, SuccessMeansFree, FreeBranch DEF IInv, TransStart, OpStart
  <2>2. CASE TransStart(t, n)
    <3>1. ModeOf(t) = "out" /\ ModeOf(t)' = "owns"
          /\ (\A u \in Thread \ {t} : ModeOf(u)' = ModeOf(u))
          /\ at' = [at EXCEPT ![t] = n]
      BY <2>2 DEF TransStart, ModeOf, IInv, TypeOK
    <3>2. Abs!Own(t, n)
      BY <2>1, <3>1, MoveOne DEF Abs!Own
    <3> QED BY <3>2 DEF Abs!Next
  <2>3. CASE OpStart(t, n)
    <3>1. ModeOf(t) = "out" /\ ModeOf(t)' = "works"
          /\ (\A u \in Thread \ {t} : ModeOf(u)' = ModeOf(u))
          /\ at' = [at EXCEPT ![t] = n]
      BY <2>3 DEF OpStart, ModeOf, IInv, TypeOK
    <3>2. Abs!Work(t, n)
      BY <2>1, <3>1, MoveOne DEF Abs!Work
    <3> QED BY <3>2 DEF Abs!Next
  <2> QED BY <1>1, <2>2, <2>3
<1>2. CASE TransQueue(t, n)
  <2>1. ModeOf(t) = "out" /\ ModeOf(t)' = "asks"
        /\ (\A u \in Thread \ {t} : ModeOf(u)' = ModeOf(u))
        /\ at' = [at EXCEPT ![t] = n]
    BY <1>2 DEF TransQueue, ModeOf, IInv, TypeOK
  <2>2. Abs!Ask(t, n)
    BY <2>1, MoveOne DEF Abs!Ask
  <2> QED BY <2>2 DEF Abs!Next
<1>3. CASE OpStop(t) \/ (TranWake(t) /\ tran[t] = "aborted")
  <2>1. ModeOf(t) \in {"asks", "works"} /\ ModeOf(t)' = "out"
        /\ (\A u \in Thread \ {t} : ModeOf(u)' = ModeOf(u))
        /\ at' = [at EXCEPT ![t] = None]
    BY <1>3 DEF OpStop, TranWake, ModeOf, IInv, TypeOK
  <2> QED BY <2>1, MoveOne DEF Abs!Next, Abs!GiveUp
<1> QED BY <1>1, <1>2, <1>3

\* The end of the wait makes sure: nobody works in the owner's scope.
LEMMA StepSure ==
    ASSUME IInv, IInv', NEW t \in Thread, WaitOver(t)
    PROVE  Abs!Next
<1>1. ModeOf(t) = "owns" /\ ModeOf(t)' = "sure"
      /\ (\A u \in Thread \ {t} : ModeOf(u)' = ModeOf(u))
      /\ at' = [at EXCEPT ![t] = at[t]]
  BY DEF WaitOver, ModeOf, IInv, TypeOK
<1>2. at[t] \in Node /\ ops' = ops /\ at' = at
  BY DEF WaitOver, IInv, ThreadAgrees, nodeVars
<1>3. \A m \in WaitSet(at[t]) : ops[m] = {}
  <2>1. pc'[t] = "quiet"
    BY DEF WaitOver, IInv, TypeOK
  <2>2. \A m \in WaitSet(at'[t]) : ops'[m] = {}
    BY <2>1 DEF IInv, Quiescence
  <2> QED BY <1>2, <2>2
<1>4. \A u \in Thread : ModeOf(u) = "works" => at[u] \notin WaitSet(at[t])
  <2>1. \A u \in Thread : ModeOf(u) = "works" => pc[u] = "op"
    BY DEF ModeOf
  <2> QED BY <1>3, <2>1 DEF IInv, OpsAgree, ThreadAgrees
<1>5. Abs!MakeSure(t)
  BY <1>1, <1>2, <1>4, MoveOne DEF Abs!MakeSure
<1> QED BY <1>5 DEF Abs!Next

\* A stop releases its node and hands others to waiters apart from each other.
LEMMA StepRelease ==
    ASSUME IInv, IInv', NEW t \in Thread, TransStop(t)
    PROVE  Abs!Next
<1> DEFINE n == at[t]
           act == [active EXCEPT ![n] = None]
           trig == Triggers(act, n)
           G == {u \in Thread : \E m \in trig : u = Head(queue[m])}
<1>1. /\ tran' = [u \in Thread |-> IF u \in G THEN "set" ELSE tran[u]]
      /\ pc' = [pc EXCEPT ![t] = "idle"] /\ at' = [at EXCEPT ![t] = None]
  BY DEF TransStop
<1>2. n \in attached /\ active[n] = t /\ t # None /\ n \in Node
  BY ThreadAssumption
  DEF IInv, TransStop, ThreadAgrees, OwnerAgrees, Owns, TreeAgrees
<1>3. ASSUME NEW u \in G
      PROVE  /\ pc[u] = "queued" /\ tran[u] = "clear" /\ at[u] \in trig
             /\ at[u] \in Node /\ u = Head(queue[at[u]])
  <2>1. PICK m \in trig : u = Head(queue[m])
    OBVIOUS
  <2>2. m \in Node /\ queue[m] \in Seq(Thread) /\ queue[m] # << >>
    BY <1>2, TriggersQueued DEF IInv, TypeOK, Queued
  <2>3. 1 \in 1..Len(queue[m]) /\ u = queue[m][1]
    BY <2>1, <2>2
  <2>4. pc[queue[m][1]] = "queued" /\ tran[queue[m][1]] = "clear"
        /\ at[queue[m][1]] = m
    BY <2>2, <2>3 DEF IInv, QueueAgrees
  <2> QED BY <2>1, <2>2, <2>3, <2>4
<1>4. ASSUME NEW u \in G
      PROVE  Abs!Free(at[u], {t})
  <2>1. ASSUME NEW k \in Node, Related(at[u], k) PROVE act[k] = None
    BY <1>2, <1>3, <2>1, TriggersFree DEF IInv
  <2>2. \A k \in Node : Related(k, at[u]) => active[k] \in {t, None}
    BY <1>2, <2>1, RelatedSymmetric DEF IInv, TypeOK
  <2> QED BY <1>3, <2>2, FreeBranch
<1>5. ASSUME NEW u \in G, NEW w \in G, u # w
      PROVE  ~Related(at[w], at[u])
  BY <1>2, <1>3, <1>5, TriggersApart DEF IInv
<1>6. t \notin G
  BY <1>3 DEF TransStop
<1> HIDE DEF G, trig, act, n
<1>7. /\ ModeOf(t) \in {"owns", "sure"} /\ ModeOf(t)' = "out"
      /\ \A u \in G : ModeOf(u) = "asks" /\ ModeOf(u)' = "owns"
      /\ \A u \in Thread \ (G \cup {t}) : ModeOf(u)' = ModeOf(u)
  <2>1. ModeOf(t) \in {"owns", "sure"} /\ ModeOf(t)' = "out"
    BY <1>1 DEF TransStop, ModeOf, IInv, TypeOK
  <2>2. \A u \in G : u \in Thread
    BY DEF G
  <2>3. \A u \in G : ModeOf(u) = "asks" /\ ModeOf(u)' = "owns"
    BY <1>1, <1>3, <1>6, <2>2 DEF ModeOf, IInv, TypeOK
  <2>4. \A u \in Thread \ (G \cup {t}) : ModeOf(u)' = ModeOf(u)
    BY <1>1 DEF ModeOf, IInv, TypeOK
  <2> QED BY <2>1, <2>3, <2>4
<1>8. G \in SUBSET Thread
  BY DEF G
<1>9. Abs!Release(t, G)
  <2>1. [u \in Thread |-> ModeOf(u)]'
          = [u \in Thread |-> IF u = t THEN "out"
                              ELSE IF u \in G THEN "owns" ELSE ModeOf(u)]
    BY <1>7
  <2>2. \A u \in G : ModeOf(u) = "asks" /\ Abs!Free(at[u], {t})
    BY <1>4, <1>7
  <2>3. \A u, w \in G : u # w => at[w] \notin {m \in Node : Related(m, at[u])}
    BY <1>5
  <2>4. \A u \in G : at[u] \in Node
    BY <1>3
  <2> QED BY <1>1, <1>7, <1>8, <2>1, <2>2, <2>3, <2>4
          DEF Abs!Release, Abs!Owning
<1> QED BY <1>8, <1>9 DEF Abs!Next

\* Steps of Dsc are steps of BranchSync, or are not seen there.
LEMMA StepsKeepPromise ==
    Abs!Init /\ []IInv /\ [][Next \/ Retires]_vars => Promise
<1>1. ASSUME IInv, IInv', [Next \/ Retires]_vars PROVE [Abs!Next]_(Abs!vars)
  <2>1. CASE UNCHANGED vars \/ Retires
    <3>1. pc' = pc /\ at' = at /\ \A u \in Thread : tran'[u] = "set" <=> tran[u] = "set"
      <4>1. CASE UNCHANGED vars
        BY <4>1 DEF vars
      <4>2. ASSUME NEW v \in Vdev, Flushes(v) \/ Unlists(v)
            PROVE  \A u \in Thread : tran'[u] = "set" <=> tran[u] = "set"
        BY <1>1, <4>2, FlushedWaited DEF Flushes, Unlists
      <4> QED BY <2>1, <4>1, <4>2 DEF Retires, Flushes, Unlists
    <3> QED BY <3>1 DEF Abs!vars, ModeOf
  <2>2. ASSUME NEW t \in Thread, NEW n \in Node,
               \/ TransStart(t, n) \/ TransQueue(t, n) \/ OpStart(t, n)
               \/ OpStop(t) \/ Destroy(t, n) \/ WaitForOps(t)
               \/ WaitCheck(t, n) \/ WaitDone(t) \/ TranWake(t)
        PROVE  [Abs!Next]_(Abs!vars)
    <3>1. TranWake(t) => tran[t] \in {"set", "aborted"}
      BY DEF TranWake
    <3> QED BY <1>1, <2>2, <3>1, StepsUnseen, StepsOfOne
  <2>3. ASSUME NEW n \in Node, Create(n) PROVE UNCHANGED Abs!vars
    BY <2>3 DEF Create, Abs!vars, ModeOf
  <2>4. ASSUME NEW t \in Thread, WaitOver(t) \/ TransStop(t) PROVE Abs!Next
    BY <1>1, <2>4, StepSure, StepRelease
  <2>5. Driver \in Node
    BY DEF Node
  <2> QED BY <1>1, <2>1, <2>2, <2>3, <2>4, <2>5 DEF Next, Progress
<1> QED BY <1>1, PTL DEF Promise, Abs!Spec

\* Dsc keeps the promise of BranchSync, for every tree and any threads.
THEOREM KeepsPromise == Spec => Promise
<1>1. Init => Abs!Init
  BY DEF Init, NoActivity, Abs!Init, ModeOf
<1> QED BY <1>1, StepsKeepPromise, Invariance, PTL DEF Spec

\* The branches and scopes of the tree fit together.
LEMMA BranchesOfTree == Abs!Branches
<1>1. \A m, n \in Node : Related(m, n) => Related(n, m)
  BY DEF Related
<1>2. \A n \in Node : \A m \in WaitSet(n) : m \in Node /\ Related(m, n)
  BY TreeAssumption DEF WaitSet, Related, Ancestors, Node
<1> QED BY <1>1, <1>2 DEF Abs!Branches

Worth == INSTANCE BranchSyncProofs WITH
    mode <- [t \in Thread |-> ModeOf(t)],
    on <- at,
    Branch <- [n \in Node |-> {m \in Node : Related(m, n)}],
    Scope <- [n \in Node |-> WaitSet(n)]

\* Who keeps the promise on this tree, by whatever steps, has owners that are
\* alone on their branch and quiet owners with nobody at work in their scope.
THEOREM PromiseIsWorth == Promise => []Abs!OwnersApart /\ []Abs!SureAlone
<1>1. Abs!Init => Worth!Init
  BY DEF Abs!Init, Worth!Init
<1>2. [Abs!Next]_(Abs!vars) => [Worth!Next]_(Worth!vars)
  <2>1. UNCHANGED Abs!vars => UNCHANGED Worth!vars
    BY DEF Abs!vars, Worth!vars
  <2>2. ASSUME NEW t \in Thread, NEW n \in Node,
               Abs!Ask(t, n) \/ Abs!Own(t, n) \/ Abs!Work(t, n) \/ Abs!GiveUp(t)
        PROVE  Worth!Ask(t, n) \/ Worth!Own(t, n) \/ Worth!Work(t, n) \/ Worth!GiveUp(t)
    BY <2>2 DEF Abs!Ask, Worth!Ask, Abs!Own, Worth!Own, Abs!Work, Worth!Work,
       Abs!GiveUp, Worth!GiveUp, Abs!Free, Worth!Free, Abs!Owning, Worth!Owning,
       Abs!Move, Worth!Move
  <2>3. ASSUME NEW t \in Thread, Abs!MakeSure(t) PROVE Worth!MakeSure(t)
    BY <2>3 DEF Abs!MakeSure, Worth!MakeSure, Abs!Move, Worth!Move
  <2>4. ASSUME NEW t \in Thread, NEW G \in SUBSET Thread, Abs!Release(t, G)
        PROVE  Worth!Release(t, G)
    BY <2>4 DEF Abs!Release, Worth!Release, Abs!Free, Worth!Free, Abs!Owning,
       Worth!Owning
  <2>5. Driver \in Node
    BY DEF Node
  <2> QED BY <2>1, <2>2, <2>3, <2>4, <2>5 DEF Abs!Next, Worth!Next
<1>3. Worth!Branches
  BY BranchesOfTree DEF Abs!Branches, Worth!Branches
<1>4. /\ Worth!OwnersApart => Abs!OwnersApart
      /\ Worth!SureAlone => Abs!SureAlone
  BY DEF Worth!OwnersApart, Abs!OwnersApart, Worth!Owning, Abs!Owning,
     Worth!SureAlone, Abs!SureAlone
<1> QED
  BY <1>1, <1>2, <1>3, <1>4, Worth!PromiseIsEnough, PTL
  DEF Promise, Abs!Spec, Worth!Spec

-----------------------------------------------------------------------------
(* Sleeping on operations.                                                 *)

\* A thread that sleeps on an event owns the transition of its node.
LEMMA SleeperOwns ==
    ASSUME IInv, NEW t \in Thread, cur[t] # None
    PROVE  pc[t] = "wait" /\ at[t] \in Node /\ active[at[t]] = t
<1>1. pc[t] = "wait" /\ at[t] \in Node
  BY DEF IInv, ThreadAgrees
<1> QED BY <1>1 DEF IInv, OwnerAgrees, Owns

\* When those who wait for a node are on one branch, only one sleeps on it.
LEMMA OneSleeper ==
    ASSUME WaitersOnBranch, IInv, SleepersAgree, NEW t \in Thread, NEW u \in Thread,
           cur[t] # None, cur[u] = cur[t]
    PROVE  t = u
<1>1. /\ at[t] \in Node /\ active[at[t]] = t
      /\ at[u] \in Node /\ active[at[u]] = u
  BY SleeperOwns
<1>2. Related(at[t], at[u])
  BY <1>1 DEF WaitersOnBranch, SleepersAgree
<1> QED BY <1>1, <1>2, ThreadAssumption DEF IInv, TreeExclusion

\* Nobody sleeps on a node that is destroyed: the sleeper would be the
\* destroyer, on another branch, or below the node, which has no children.
LEMMA NobodyOnDestroyed ==
    ASSUME IInv, SleepersAgree, NEW t \in Thread, NEW n \in Node, Destroy(t, n),
           NEW u \in Thread
    PROVE  cur[u] # n
<1> SUFFICES ASSUME cur[u] = n PROVE FALSE
  OBVIOUS
<1>1. n # None
  BY ThreadAssumption
<1>2. /\ pc[u] = "wait" /\ at[u] \in Node /\ active[at[u]] = u
      /\ n \in WaitSet(at[u]) /\ at[u] \in attached
  <2>1. pc[u] = "wait" /\ at[u] \in Node /\ active[at[u]] = u /\ n \in WaitSet(at[u])
    BY <1>1, SleeperOwns DEF SleepersAgree
  <2> QED BY <2>1, ThreadAssumption DEF IInv, TreeAgrees
<1>3. at[t] \in Ancestors(n) /\ Children(n) = {} /\ pc[t] = "quiet"
  BY DEF Destroy, DownTree
<1>4. active[at[t]] = t /\ at[t] \in Node
  BY <1>3 DEF IInv, ThreadAgrees, OwnerAgrees, Owns
<1>5. at[u] # n => at[u] \in Ancestors(n)
  <2>1. SUFFICES ASSUME at[u] # n, at[u] \notin Ancestors(n) PROVE FALSE
    OBVIOUS
  <2>2. n \in Ancestors(at[u]) /\ at[u] # Driver
    BY <1>2, <2>1, WaitSetRelated, TreeAssumption DEF Related, Ancestors, Node
  <2>3. n # Driver
    BY <1>3, TreeAssumption DEF Ancestors
  <2>4. Parent(at[u]) = n
    BY <1>2, <2>2, <2>3, TreeAssumption DEF Ancestors, Parent, Node
  <2> QED BY <1>2, <1>3, <2>2, <2>4 DEF Children
<1>6. Related(at[u], at[t])
  BY <1>3, <1>5, TreeAssumption DEF Related, Ancestors, Node
<1> QED BY <1>2, <1>3, <1>4, <1>6, ThreadAssumption DEF IInv, TreeExclusion

\* Sleepers stay where they have to wait.
LEMMA SleepersStep ==
    ASSUME IInv, SleepersAgree, [Next]_vars
    PROVE  SleepersAgree'
<1>1. CASE UNCHANGED vars
  BY <1>1 DEF vars, SleepersAgree
<1>2. ASSUME NEW n \in Node, Create(n) PROVE SleepersAgree'
  BY <1>2 DEF IInv, TypeOK, Create, SleepersAgree, waitVars
<1>3. ASSUME NEW t \in Thread, NEW n \in Node, Destroy(t, n)
      PROVE  SleepersAgree'
  BY <1>3, NobodyOnDestroyed DEF Destroy, SleepersAgree, waitVars
<1>4. ASSUME NEW t \in Thread, WaitForOps(t) PROVE SleepersAgree'
  BY <1>4 DEF IInv, TypeOK, ThreadAgrees, WaitForOps, SleepersAgree, nodeVars
<1>5. ASSUME NEW t \in Thread, NEW m \in Node, WaitCheck(t, m)
      PROVE  SleepersAgree'
  <2>1. m \in todo[t] /\ pc[t] = "wait" /\ m \in WaitSet(at[t])
    BY <1>5 DEF WaitCheck, NextToWait, SleepersAgree
  <2>2. ops[m] # {} => m \in OpNode \cap attached
    BY DEF SleepersAgree, IInv, TreeAgrees
  <2> QED BY <1>5, <2>1, <2>2 DEF IInv, TypeOK, WaitCheck, SleepersAgree
<1>6. ASSUME NEW t \in Thread, WaitDone(t) PROVE SleepersAgree'
  BY <1>6 DEF IInv, TypeOK, WaitDone, SleepersAgree
<1>7. ASSUME NEW t \in Thread, NEW n \in Node, OpStart(t, n)
      PROVE  SleepersAgree'
  BY <1>7, SleeperOwns DEF IInv, TypeOK, OpStart, SleepersAgree, waitVars
<1>8. ASSUME NEW t \in Thread, OpStop(t) PROVE SleepersAgree'
  BY <1>8, SleeperOwns DEF IInv, TypeOK, OpStop, SleepersAgree, waitVars
<1>9. ASSUME NEW t \in Thread, NEW n \in Node,
             TransStart(t, n) \/ TransQueue(t, n) \/ TranWake(t)
               \/ WaitOver(t) \/ TransStop(t)
      PROVE  SleepersAgree'
  <2>1. /\ ops' = ops /\ attached' = attached /\ todo' = todo /\ cur' = cur
        /\ pc[t] # "wait" \/ cur[t] = None
        /\ pc'[t] # "wait"
        /\ \A u \in Thread \ {t} : pc'[u] = pc[u] /\ at'[u] = at[u]
    BY <1>9 DEF IInv, TypeOK, TransStart, TransQueue, TranWake, WaitOver,
       TransStop, nodeVars, waitVars
  <2>2. cur[t] = None
    BY <2>1, SleeperOwns
  <2> QED BY <2>1, <2>2 DEF SleepersAgree
<1>10. Driver \in Node
  BY DEF Node
<1> QED BY <1>1, <1>2, <1>3, <1>4, <1>5, <1>6, <1>7, <1>8, <1>9, <1>10 DEF Next, Progress

\* A step leaves every sleeper with a wake-up to come.
LEMMA WakeupStep ==
    ASSUME WaitersOnBranch, IInv, SleepersAgree, NoLostWakeup, [Next]_vars
    PROVE  NoLostWakeup'
<1> SUFFICES ASSUME NEW u \in Thread, cur'[u] # None
             PROVE  event'[cur'[u]] > 0 \/ ops'[cur'[u]] # {}
  BY DEF NoLostWakeup
<1>0. /\ cur \in [Thread -> Node \cup {None}] /\ event \in [Node -> 0..MaxDone]
      /\ ops \in [Node -> SUBSET Thread] /\ MaxDone \in Nat \ {0}
  BY ThreadAssumption DEF IInv, TypeOK
<1>1. cur[u] # None =>
        /\ cur[u] \in Node /\ cur[u] \in attached
        /\ event[cur[u]] > 0 \/ ops[cur[u]] # {}
  BY <1>0 DEF NoLostWakeup, SleepersAgree
<1>2. CASE UNCHANGED <<cur, event, ops>>
  BY <1>1, <1>2
<1>3. ASSUME NEW n \in Node, Create(n) PROVE event'[cur'[u]] > 0 \/ ops'[cur'[u]] # {}
  <2>1. cur[u] # n /\ cur' = cur
    BY <1>1, <1>3, ThreadAssumption DEF Create, waitVars
  <2> QED BY <1>0, <1>1, <1>3, <2>1 DEF Create
<1>4. ASSUME NEW t \in Thread, NEW m \in Node, WaitCheck(t, m)
      PROVE  event'[cur'[u]] > 0 \/ ops'[cur'[u]] # {}
  <2>1. CASE ops[m] = {}
    BY <1>1, <1>4, <2>1 DEF WaitCheck
  <2>2. CASE ops[m] # {}
    <3>1. /\ event' = [event EXCEPT ![m] = 0] /\ cur' = [cur EXCEPT ![t] = m]
          /\ ops' = ops
      BY <1>4, <2>2 DEF WaitCheck
    <3>2. CASE cur'[u] = m
      BY <2>2, <3>1, <3>2
    <3>3. CASE cur'[u] # m
      <4>1. cur'[u] = cur[u]
        BY <1>0, <3>1, <3>3
      <4>2. event'[cur[u]] = event[cur[u]]
        BY <1>0, <1>1, <3>1, <3>3, <4>1
      <4> QED BY <1>1, <3>1, <4>1, <4>2
    <3> QED BY <3>2, <3>3
  <2> QED BY <2>1, <2>2
<1>5. ASSUME NEW t \in Thread, WaitDone(t)
      PROVE  event'[cur'[u]] > 0 \/ ops'[cur'[u]] # {}
  <2>1. /\ cur[t] # None /\ ops' = ops /\ cur' = [cur EXCEPT ![t] = None]
        /\ event' = [event EXCEPT ![cur[t]] = @ - 1]
    BY <1>5 DEF WaitDone
  <2>2. u # t /\ cur'[u] = cur[u] /\ cur[u] # None
    BY <1>0, <2>1
  <2>3. cur[u] # cur[t]
    BY <2>1, <2>2, OneSleeper
  <2>4. event'[cur[u]] = event[cur[u]]
    BY <1>0, <1>1, <2>1, <2>2, <2>3
  <2> QED BY <1>1, <2>1, <2>2, <2>4
<1>6. ASSUME NEW t \in Thread, NEW n \in Node, OpStart(t, n)
      PROVE  event'[cur'[u]] > 0 \/ ops'[cur'[u]] # {}
  <2>1. cur' = cur /\ event' = event /\ ops' = [ops EXCEPT ![n] = @ \cup {t}]
    BY <1>6 DEF OpStart, waitVars
  <2> QED BY <1>0, <1>1, <2>1
<1>7. ASSUME NEW t \in Thread, OpStop(t)
      PROVE  event'[cur'[u]] > 0 \/ ops'[cur'[u]] # {}
  <2>1. /\ cur' = cur /\ ops' = [ops EXCEPT ![at[t]] = @ \ {t}]
        /\ event' = IF ops[at[t]] \ {t} = {} THEN Complete(at[t]) ELSE event
        /\ pc[t] = "op"
    BY <1>7 DEF OpStop, waitVars
  <2>2. at[t] \in Node
    BY <2>1 DEF IInv, ThreadAgrees
  <2>3. CASE cur[u] # at[t]
    <3>1. ops'[cur[u]] = ops[cur[u]] /\ event'[cur[u]] = event[cur[u]]
      BY <1>0, <1>1, <2>1, <2>3 DEF Complete
    <3> QED BY <1>1, <2>1, <3>1
  <2>4. CASE cur[u] = at[t] /\ ops[at[t]] \ {t} = {}
    <3>1. event' = Complete(at[t])
      BY <2>1, <2>4
    <3>2. event'[at[t]] > 0
      BY <1>0, <2>2, <3>1 DEF Complete
    <3> QED BY <2>1, <2>4, <3>2
  <2>5. CASE cur[u] = at[t] /\ ops[at[t]] \ {t} # {}
    BY <1>0, <2>1, <2>2, <2>5
  <2> QED BY <2>3, <2>4, <2>5
<1>8. ASSUME NEW t \in Thread, NEW n \in Node,
             TransStart(t, n) \/ TransQueue(t, n) \/ Destroy(t, n) \/ TranWake(t)
               \/ WaitForOps(t) \/ WaitOver(t) \/ TransStop(t)
      PROVE  UNCHANGED <<cur, event, ops>>
  BY <1>8 DEF TransStart, TransQueue, Destroy, TranWake, WaitForOps, WaitOver,
     TransStop, nodeVars, waitVars
<1>9. Driver \in Node
  BY DEF Node
<1>10. CASE UNCHANGED vars
  BY <1>2, <1>10 DEF vars
<1> QED BY <1>2, <1>3, <1>4, <1>5, <1>6, <1>7, <1>8, <1>9, <1>10 DEF Next, Progress

\* Whoever takes the steps of Dsc loses no wake-up, if operations are only on
\* nodes whose waiters are on one branch.
LEMMA StepsLoseNoWakeup ==
    WaitersOnBranch /\ SleepersAgree /\ NoLostWakeup /\ []IInv /\ [][Next]_vars
      => []NoLostWakeup
<1>1. ASSUME IInv, SleepersAgree, [Next]_vars PROVE SleepersAgree'
  BY <1>1, SleepersStep
<1>2. ASSUME WaitersOnBranch, IInv, SleepersAgree, NoLostWakeup, [Next]_vars
      PROVE  NoLostWakeup'
  BY <1>2, WakeupStep
<1>3. WaitersOnBranch => WaitersOnBranch'
  OBVIOUS
<1> QED BY <1>1, <1>2, <1>3, PTL

\* Without activity nobody sleeps.
LEMMA NobodySleeps ==
    ASSUME NoActivity
    PROVE  SleepersAgree /\ NoLostWakeup
BY DEF NoActivity, SleepersAgree, NoLostWakeup

\* A sleeper on ops.event has its wake-up coming: no reset erases it and
\* nobody else takes it, unless two vdevs may wait for a node above both.
THEOREM NoWakeupLost == WaitersOnBranch /\ Spec => []NoLostWakeup
<1>1. Init => SleepersAgree /\ NoLostWakeup
  BY NobodySleeps DEF Init
<1> QED BY <1>1, Invariance, StepsLoseNoWakeup, PTL DEF Spec

\* That is so where operations are on vdevs only.
LEMMA VdevWaiters ==
    ASSUME OpNode \subseteq Vdev
    PROVE  WaitersOnBranch
<1> SUFFICES ASSUME NEW m \in Vdev, NEW a \in Node, NEW b \in Node,
                    m \in WaitSet(a), m \in WaitSet(b)
             PROVE  Related(a, b)
  BY DEF WaitersOnBranch
<1>1. \A n \in Node : m \in WaitSet(n) => n = m \/ n \in Ancestors(m)
  BY TreeAssumption DEF WaitSet, Ancestors, Node
<1>2. Ancestors(m) = {PsocOf[m], Driver} /\ PsocOf[m] \in Psoc
  BY TreeAssumption DEF Ancestors
<1>3. Driver \in Ancestors(PsocOf[m])
  BY <1>2, TreeAssumption DEF Ancestors
<1> QED BY <1>1, <1>2, <1>3 DEF Related
=============================================================================
