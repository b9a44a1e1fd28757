------------------------------ MODULE OsifProofs ------------------------------
(***************************************************************************)
(* Proofs about OsifVdevSync, for any slots, net_devices and threads in    *)
(* any roles, as long as deletions come one at a time, and no interface is *)
(* added where one is deleted while a thread closes everything (Apart).    *)
(* What a deletion beside a closer breaks is proved without it             *)
(* (Undisturbed).                                                          *)
(***************************************************************************)
EXTENDS OsifVdevSync, DscPromise

-----------------------------------------------------------------------------
(* Where threads are.                                                      *)

\* The three kinds of nodes.
LEMMA Nodes ==
    /\ Driver \in Node /\ Psoc \subseteq Node /\ Vdev \subseteq Node
    /\ Vdev \cap ({Driver} \cup Psoc) = {} /\ None \notin Node
    /\ None \notin Slot /\ None \notin Dev /\ None \notin Vdev /\ None \notin Thread
BY TreeAssumption, ThreadAssumption, RoleAssumption DEF Node

\* A thread let in to a dsc_vdev has a context with that dsc_vdev.
LEMMA AtVdev ==
    ASSUME OsifIInv, NEW t \in Thread, Busy(t), at[t] \in Vdev
    PROVE  /\ prog[t] \in {"using", "creating", "registered", "deleting", "unregistered"}
           /\ at[t] = dscVdev[ctx[t]] /\ ctx[t] \in Slot
<1>1. prog[t] \in Progs \ {"lost", "none", "reserved", "created", "found", "read"}
  BY DEF OsifIInv, OsifTypeOK, ProgramsAgree, Busy
<1>2. prog[t] \notin {"closer", "stopped", "flushed", "detached"}
  BY Nodes DEF OsifIInv, RolesAgree, Busy
<1>3. prog[t] \in {"using", "creating", "registered", "deleting", "unregistered"}
  BY <1>1, <1>2 DEF Progs
<1>4. ctx[t] \in Slot
  BY <1>3 DEF OsifIInv, HoldersAgree, RelyingAgrees, Holding, Sharing, Deleting
<1>5. prog[t] = "deleting" => at[t] = dscVdev[ctx[t]]
  BY DEF OsifIInv, RelyingAgrees, Deleting, Matches
<1> QED BY <1>3, <1>4, <1>5 DEF OsifIInv, ProgramsAgree

\* A deletion that has been let in has its interface registered.
LEMMA LetInRegistered ==
    ASSUME OsifIInv, NEW t \in Thread, prog[t] = "deleting", Busy(t)
    PROVE  /\ ctx[t] \in Slot /\ Registered(ctx[t]) /\ netDev[ctx[t]] = asked[t]
           /\ at[t] = dscVdev[ctx[t]] /\ at[t] \in Vdev
           /\ t \in Deleter /\ asked[t] # None
BY DEF OsifIInv, RelyingAgrees, Deleting, Matches

\* Nobody has been let in to v.
Vacant(v) == \A u \in Thread : Busy(u) => at[u] # v

\* Where nobody has been let in nothing is going on.
LEMMA VacantIdle ==
    ASSUME IInv, NEW v \in Node, Vacant(v)
    PROVE  active[v] = None /\ ops[v] = {}
<1>1. ops[v] = {}
  <2>1. ops[v] \subseteq Thread /\ \A u \in Thread : pc[u] = "op" => at[u] # v
    BY DEF IInv, TypeOK, Vacant, Busy
  <2> QED BY <2>1 DEF IInv, OpsAgree
<1>2. active[v] = None
  <2>1. active[v] \in Thread \cup {None}
    BY DEF IInv, TypeOK
  <2>2. \A u \in Thread : ~Owns(u, v)
    BY DEF Vacant, Owns, Busy
  <2> QED BY <2>1, <2>2 DEF IInv, OwnerAgrees
<1> QED BY <1>1, <1>2

\* Nobody has been let in to the dsc_vdev of a context that was stopped, ...
LEMMA StoppedVacant ==
    ASSUME OsifIInv, NEW t \in Thread, prog[t] \in {"created", "stopped"}
    PROVE  dscVdev[ctx[t]] \in Vdev /\ Vacant(dscVdev[ctx[t]])
<1>1. /\ ctx[t] \in Slot /\ netDev[ctx[t]] = None /\ dscVdev[ctx[t]] \in Vdev
  BY DEF OsifIInv, OsifTypeOK, HoldersAgree, Holding
<1>2. ASSUME NEW u \in Thread, Busy(u), at[u] = dscVdev[ctx[t]]
      PROVE  FALSE
  <2>1. /\ prog[u] \in {"using", "creating", "registered", "deleting", "unregistered"}
        /\ dscVdev[ctx[u]] = dscVdev[ctx[t]] /\ ctx[u] \in Slot
    BY <1>1, <1>2, AtVdev
  <2>2. ctx[u] = ctx[t]
    BY <1>1, <2>1, Nodes DEF OsifIInv, SlotsAgree
  <2>3. prog[u] \in Holding
    BY <1>1, <1>2, <2>1, <2>2 DEF OsifIInv, RelyingAgrees, Sharing, Deleting, Holding, Registered
  <2>4. prog[t] \in Holding
    BY DEF Holding
  <2> QED BY <2>1, <2>2, <2>3, <2>4 DEF OsifIInv, HoldersAgree
<1> QED BY <1>1, <1>2 DEF Vacant

\* ... nor to one that is about to be detached.
LEMMA FlushedVacant ==
    ASSUME OsifIInv, NEW t \in Thread, prog[t] = "flushed"
    PROVE  ptr[t] \in Vdev /\ Vacant(ptr[t])
BY AtVdev DEF OsifIInv, HoldersAgree, Vacant

-----------------------------------------------------------------------------
(* The sync layer uses DSC as it is meant to be used.                      *)

\* Destroying a context flushes the queue of its dsc_vdev ...
LEMMA FlushRetires ==
    ASSUME OsifIInv, NEW t \in Thread, DestroyFlush(t)
    PROVE  dscVdev[ctx[t]] \in Vdev /\ Flushes(dscVdev[ctx[t]])
BY StoppedVacant DEF DestroyFlush, Flushes, waitVars

\* ... and takes it off the tree with nothing in flight on it.
LEMMA DetachRetires ==
    ASSUME OsifIInv, NEW t \in Thread, DestroyDetach(t)
    PROVE  ptr[t] \in Vdev /\ Unlists(ptr[t])
<1>1. ptr[t] \in Vdev /\ Vacant(ptr[t])
  BY FlushedVacant DEF DestroyDetach
<1>2. active[ptr[t]] = None /\ ops[ptr[t]] = {}
  BY <1>1, VacantIdle, Nodes DEF OsifIInv
<1> QED BY <1>1, <1>2 DEF DestroyDetach, Unlists, nodeVars, waitVars

\* Every step of the programs is a step of DSC, is not seen there, or retires a
\* dsc_vdev.
LEMMA OsifUsesDsc ==
    ASSUME OsifIInv, NEW t \in Thread,
           \/ Proceed(t)
           \/ \E s \in Slot : \/ UserTransStart(t, s) \/ UserOpStart(t, s)
                              \/ CreateReserve(t, s) \/ DeleteLookup(t, s)
           \/ \E n \in Node : CloserStart(t, n)
    PROVE  [Next]_vars \/ DestroyFlush(t) \/ DestroyDetach(t)
<1>0. \A s \in Slot : dscVdev[s] \in attached => dscVdev[s] \in Node
  BY DEF OsifIInv, IInv, TypeOK
<1>1. CASE Inside(t)
  BY <1>1 DEF Inside, Next, Progress
<1>2. CASE \E s \in Slot : UserTransStart(t, s) \/ UserOpStart(t, s)
  BY <1>0, <1>2 DEF UserTransStart, UserOpStart, TransStart, OpStart, Next
<1>3. CASE UserStop(t) \/ CreateFail(t) \/ RegisteredStop(t) \/ DeleteStop(t) \/ CloserStop(t)
  BY <1>3 DEF UserStop, CreateFail, RegisteredStop, DeleteStop, CloserStop, Next, Progress
<1>4. CASE CreateVdev(t)
  BY <1>4, Nodes DEF CreateVdev, dscVars, Next
<1>5. CASE CreateTrans(t)
  <2>1. dscVdev[ctx[t]] \in Node
    BY <1>5, Nodes DEF CreateTrans, OsifIInv, OsifTypeOK, HoldersAgree, Holding
  <2> QED BY <1>5, <2>1 DEF CreateTrans, dscVars, Next
<1>6. CASE DeleteStart(t)
  <2>1. ptr[t] \in Node
    BY <1>6, Nodes DEF DeleteStart, OsifIInv, RelyingAgrees, Matches
  <2> QED BY <1>6, <2>1 DEF DeleteStart, dscVars, Next
<1>7. CASE \E n \in Node : CloserStart(t, n)
  BY <1>7 DEF CloserStart, Next
<1>8. CASE \/ \E s \in Slot : CreateReserve(t, s) \/ DeleteLookup(t, s) \/ CloserUnregister(t, s)
           \/ \E d \in Dev : CreateRegister(t, d)
           \/ DeleteRead(t) \/ DeleteUnregister(t) \/ DeleteUndo(t) \/ DestroyPut(t)
  BY <1>8 DEF CreateReserve, DeleteLookup, CloserUnregister, CreateRegister,
     DeleteRead, DeleteUnregister, DeleteUndo, DestroyPut, dscVars
<1> QED BY <1>1, <1>2, <1>3, <1>4, <1>5, <1>6, <1>7, <1>8 DEF Proceed

\* So the invariant of DSC holds on.
LEMMA OsifKeepsDsc ==
    ASSUME OsifIInv, OsifNext
    PROVE  IInv'
<1>1. PICK t \in Thread : [Next]_vars \/ DestroyFlush(t) \/ DestroyDetach(t)
  BY OsifUsesDsc DEF OsifNext
<1>2. CASE DestroyFlush(t) \/ DestroyDetach(t)
  BY <1>2, FlushRetires, DetachRetires, RetireInv DEF OsifIInv
<1> QED BY <1>1, <1>2, NextInv, StutterInv DEF OsifIInv

-----------------------------------------------------------------------------
(* Whom a deletion's start lets in.                                        *)

\* While the dsc_vdev is on the tree that a deletion goes by and the slot is not
\* registered any more, a closer is at work above.
LEMMA ClosedAbove ==
    ASSUME OsifIInv, NEW t \in Thread, prog[t] \in Deleting, ~Registered(ctx[t]),
           NEW v \in attached, Matches(ctx[t], v)
    PROVE  \E u \in Thread :
              /\ prog[u] \in {"stopped", "flushed"}
              /\ at[u] \in Ancestors(v) /\ active[at[u]] = u
<1>1. /\ t \in Deleter /\ Creator = {} /\ ctx[t] \in Slot /\ v \in Vdev
      /\ \A u \in Thread : u \in Creator \cup Deleter => u = t
  BY DEF OsifIInv, RelyingAgrees, Apart, Matches
<1>2. ASSUME NEW u \in Thread, prog[u] \in {"stopped", "flushed"},
             v = IF prog[u] = "stopped" THEN dscVdev[ctx[u]] ELSE ptr[u]
      PROVE  at[u] \in Ancestors(v) /\ active[at[u]] = u
  <2>1. pc[u] = "quiet"
    BY <1>1, <1>2 DEF OsifIInv, RolesAgree, ProgramsAgree, Deleting
  <2>2. at[u] \in Ancestors(v) /\ at[u] \in Node
    BY <1>2, <2>1, Nodes DEF OsifIInv, RolesAgree
  <2> QED BY <2>1, <2>2 DEF OsifIInv, IInv, OwnerAgrees, Owns
<1>3. CASE \E s \in Slot : dscVdev[s] = v
  <2>1. dscVdev[ctx[t]] = v
    BY <1>3 DEF Matches
  <2>2. inUse[ctx[t]] /\ netDev[ctx[t]] = None
    BY <1>1, <2>1, Nodes DEF OsifIInv, SlotsAgree, Registered
  <2>3. PICK u \in Thread : prog[u] \in Holding /\ ctx[u] = ctx[t]
    BY <1>1, <2>2 DEF OsifIInv, TakenAreHeld
  <2>4. prog[u] \notin {"reserved", "flushed", "detached"}
    BY <1>1, <2>1, <2>3, Nodes DEF OsifIInv, HoldersAgree
  <2>5. prog[u] \notin {"created", "creating", "unregistered"}
    BY <1>1 DEF OsifIInv, RolesAgree, RelyingAgrees, Deleting
  <2>6. prog[u] = "stopped"
    BY <2>3, <2>4, <2>5 DEF Holding
  <2> QED BY <1>2, <2>1, <2>3, <2>6
<1>4. CASE \E u \in Thread : prog[u] = "flushed" /\ ptr[u] = v
  BY <1>2, <1>4
<1> QED BY <1>1, <1>3, <1>4 DEF OsifIInv, AttachedAreHeld

\* So a deletion that starts at once has its interface registered, ...
LEMMA StartRegistered ==
    ASSUME OsifIInv, NEW t \in Thread, prog[t] = "read", TransStart(t, ptr[t])
    PROVE  Registered(ctx[t])
<1> SUFFICES ASSUME ~Registered(ctx[t]) PROVE FALSE
  OBVIOUS
<1>1. Matches(ctx[t], ptr[t]) /\ ptr[t] \in attached /\ ptr[t] \in Node
  BY Nodes DEF OsifIInv, RelyingAgrees, TransStart, Matches
<1>2. PICK u \in Thread : at[u] \in Ancestors(ptr[t]) /\ active[at[u]] = u
  BY <1>1, ClosedAbove DEF Deleting
<1>3. at[u] \in Node /\ Related(at[u], ptr[t])
  BY <1>1, <1>2, AncestorsType DEF Related
<1>4. active[at[u]] = None
  BY <1>1, <1>3, SuccessMeansFree DEF OsifIInv, IInv, TransStart
<1> QED BY <1>2, <1>4, Nodes

\* ... and so has one that a stop hands its transition to.
LEMMA StopGrants ==
    ASSUME OsifIInv, NEW t \in Thread, TransStop(t),
           prog[t] \notin {"stopped", "flushed"},
           NEW u \in Thread, tran'[u] # tran[u]
    PROVE  /\ tran'[u] = "set" /\ pc[u] = "queued" /\ tran[u] = "clear"
           /\ prog[u] = "deleting" => Registered(ctx[u])
<1> DEFINE n == at[t]
           act == [active EXCEPT ![n] = None]
<1>1. n \in attached /\ active[n] = t /\ t # None /\ n \in Node
  BY ThreadAssumption
  DEF OsifIInv, IInv, TransStop, ThreadAgrees, OwnerAgrees, Owns, TreeAgrees
<1>2. PICK m \in Triggers(act, n) : u = Head(queue[m]) /\ tran'[u] = "set"
  BY DEF TransStop
<1>3. m \in attached /\ m \in Node /\ Queued(m) /\ queue[m] \in Seq(Thread)
  BY <1>1, TriggersQueued DEF OsifIInv, IInv, TypeOK
<1>4. 1 \in 1..Len(queue[m]) /\ u = queue[m][1]
  BY <1>2, <1>3 DEF Queued
<1>5. pc[u] = "queued" /\ tran[u] = "clear" /\ at[u] = m
  BY <1>3, <1>4 DEF OsifIInv, IInv, QueueAgrees
<1>6. ASSUME prog[u] = "deleting", ~Registered(ctx[u]) PROVE FALSE
  <2>1. Matches(ctx[u], m)
    BY <1>5, <1>6 DEF OsifIInv, RelyingAgrees
  <2>2. PICK w \in Thread : /\ prog[w] \in {"stopped", "flushed"}
                            /\ at[w] \in Ancestors(m) /\ active[at[w]] = w
    BY <1>3, <1>6, <2>1, ClosedAbove DEF Deleting
  <2>3. at[w] \in Node /\ Related(m, at[w])
    BY <1>3, <2>2, AncestorsType DEF Related
  <2>4. act[at[w]] = None
    BY <1>1, <1>2, <2>3, TriggersFree DEF OsifIInv, IInv
  <2>5. at[w] = n
    BY <1>1, <2>2, <2>3, <2>4, Nodes DEF OsifIInv, IInv, TypeOK
  <2> QED BY <1>1, <2>2, <2>5
<1> QED BY <1>2, <1>5, <1>6

-----------------------------------------------------------------------------
(* What a step of DSC does to the threads.                                 *)

\* t goes to n, or leaves.  Nobody else moves or is aborted, and no deletion is
\* let in whose interface is gone.
Moves(t, q, n) ==
    /\ pc' = [pc EXCEPT ![t] = q]
    /\ at' = [at EXCEPT ![t] = n]
    /\ attached' = attached
    /\ tran'[t] # "aborted" /\ (q = "queued" => tran'[t] = "clear")
    /\ \A u \in Thread \ {t} :
          /\ tran'[u] = "aborted" => tran[u] = "aborted"
          /\ prog[u] \in Deleting /\ ~Busy(u) /\ Busy(u)' => Registered(ctx[u])

\* How t moves by each call.
LEMMA CallsMove ==
    ASSUME OsifIInv, NEW t \in Thread, NEW n
    PROVE  /\ TransStart(t, n) => Moves(t, "trans", n)
           /\ TransQueue(t, n) => Moves(t, "queued", n)
           /\ OpStart(t, n) => Moves(t, "op", n)
           /\ TransStop(t) /\ prog[t] \notin {"stopped", "flushed"}
                 => Moves(t, "idle", None)
           /\ OpStop(t) => Moves(t, "idle", None)
           /\ WaitForOps(t) => Moves(t, "wait", at[t]) /\ pc[t] = "trans"
           /\ TranWake(t) /\ tran[t] = "set" =>
                 Moves(t, "trans", at[t]) /\ pc[t] = "queued"
           /\ TranWake(t) /\ tran[t] = "aborted" => Moves(t, "idle", None)
           /\ (\E m \in Node : WaitCheck(t, m)) \/ WaitDone(t) => UNCHANGED <<pc, at, attached, tran>>
           /\ WaitOver(t) => Moves(t, "quiet", at[t]) /\ pc[t] = "wait"
<1>0. /\ \A u \in Thread : tran[u] = "aborted" => pc[u] = "queued"
      /\ pc \in [Thread -> PCs] /\ at \in [Thread -> Node \cup {None}]
      /\ tran \in [Thread -> TranStates]
  BY DEF OsifIInv, ProgramsAgree, IInv, TypeOK
<1>1. /\ TransStart(t, n) => Moves(t, "trans", n)
      /\ TransQueue(t, n) => Moves(t, "queued", n)
      /\ OpStart(t, n) => Moves(t, "op", n)
  BY <1>0 DEF TransStart, TransQueue, OpStart, Moves, Busy
<1>2. OpStop(t) => Moves(t, "idle", None)
  BY <1>0 DEF OpStop, Moves, Busy
<1>3. /\ WaitForOps(t) => Moves(t, "wait", at[t]) /\ pc[t] = "trans"
      /\ WaitOver(t) => Moves(t, "quiet", at[t]) /\ pc[t] = "wait"
      /\ (\E m \in Node : WaitCheck(t, m)) \/ WaitDone(t) => UNCHANGED <<pc, at, attached, tran>>
  BY <1>0 DEF WaitForOps, WaitOver, WaitCheck, WaitDone, Moves, Busy
<1>4. /\ TranWake(t) /\ tran[t] = "set" => Moves(t, "trans", at[t]) /\ pc[t] = "queued"
      /\ TranWake(t) /\ tran[t] = "aborted" => Moves(t, "idle", None)
  BY <1>0 DEF TranWake, Moves, Busy
<1>5. ASSUME TransStop(t), prog[t] \notin {"stopped", "flushed"}
      PROVE  Moves(t, "idle", None)
  <2>1. /\ pc' = [pc EXCEPT ![t] = "idle"] /\ at' = [at EXCEPT ![t] = None]
        /\ attached' = attached /\ pc[t] # "queued"
    BY <1>5 DEF TransStop
  <2>2. \A u \in Thread : tran'[u] # tran[u] =>
          /\ tran'[u] = "set" /\ pc[u] = "queued"
          /\ prog[u] = "deleting" => Registered(ctx[u])
    BY <1>5, StopGrants
  <2>3. \A u \in Thread : prog[u] \in {"found", "read"} => pc[u] = "idle"
    BY DEF OsifIInv, ProgramsAgree
  <2> QED BY <1>0, <2>1, <2>2, <2>3 DEF Moves, Busy, Deleting
<1> QED BY <1>1, <1>2, <1>3, <1>4, <1>5

-----------------------------------------------------------------------------
(* Steps that change no slot.                                              *)

\* The parts of the invariant that talk about slots and programs.
Parts ==
    SlotsAgree /\ HoldersAgree /\ RelyingAgrees /\ ProgramsAgree /\ RolesAgree

\* The types the proofs below use.
LEMMA Types ==
    ASSUME OsifIInv
    PROVE  /\ inUse \in [Slot -> BOOLEAN] /\ netDev \in [Slot -> Dev \cup {None}]
           /\ dscVdev \in [Slot -> Vdev \cup {None}]
           /\ prog \in [Thread -> Progs] /\ ctx \in [Thread -> Slot \cup {None}]
           /\ asked \in [Thread -> Dev \cup {None}] /\ ptr \in [Thread -> Vdev \cup {None}]
           /\ pc \in [Thread -> PCs] /\ at \in [Thread -> Node \cup {None}]
           /\ tran \in [Thread -> TranStates] /\ Parts /\ Apart
BY DEF OsifIInv, OsifTypeOK, IInv, TypeOK, Parts

\* A step that moves no thread and changes no slot keeps them.
LEMMA PartsStay ==
    ASSUME Parts, UNCHANGED <<attached, pc, at, tran>>, UNCHANGED osifVars
    PROVE  Parts'
<1>1. (SlotsAgree /\ HoldersAgree /\ ProgramsAgree /\ RolesAgree)'
  BY DEF Parts, SlotsAgree, HoldersAgree, ProgramsAgree, RolesAgree, osifVars, slotVars
<1>2. RelyingAgrees'
  BY DEF Parts, RelyingAgrees, osifVars, slotVars, Registered, Lookup, Matches, Busy
<1> QED BY <1>1, <1>2 DEF Parts

\* Inside a call nothing of the sync layer changes, unless it is aborted.
LEMMA InsideKeeps ==
    ASSUME OsifIInv, NEW t \in Thread, Inside(t)
    PROVE  Parts'
<1>1. CASE TranWake(t) /\ tran[t] = "aborted" /\ Leave(t) /\ UNCHANGED slotVars
  <2>1. /\ Moves(t, "idle", None) /\ Leave(t) /\ UNCHANGED slotVars
        /\ prog[t] = "deleting"
    BY <1>1, CallsMove, Types DEF Parts, ProgramsAgree
  <2>2. (SlotsAgree /\ HoldersAgree)'
    BY <2>1, Types DEF Parts, SlotsAgree, HoldersAgree, Leave, Goto, Moves, slotVars, Holding
  <2>3. RelyingAgrees'
    BY <2>1, Types DEF Parts, RelyingAgrees, Leave, Goto, Moves, slotVars,
       Registered, Lookup, Sharing, Deleting, Matches, Busy
  <2>4. ProgramsAgree'
    BY <2>1, Types DEF Parts, ProgramsAgree, Leave, Goto, Moves, slotVars
  <2>5. RolesAgree'
    BY <2>1, Types DEF Parts, RolesAgree, Leave, Goto, Moves, slotVars
  <2> QED BY <2>2, <2>3, <2>4, <2>5 DEF Parts
<1>2. CASE /\ (\E m \in Node : WaitCheck(t, m)) \/ WaitDone(t)
           /\ UNCHANGED osifVars
  <2>1. UNCHANGED <<pc, at, attached, tran>>
    BY <1>2, CallsMove
  <2> QED BY <1>2, <2>1, PartsStay, Types
<1>3. CASE /\ \/ TranWake(t) /\ tran[t] = "set"
              \/ prog[t] \in {"using", "deleting", "closer"} /\ WaitForOps(t)
              \/ WaitOver(t)
           /\ UNCHANGED osifVars
  <2>1. PICK q \in {"trans", "wait", "quiet"} :
          /\ Moves(t, q, at[t])
          /\ q = "trans" => pc[t] = "queued" /\ tran[t] = "set"
          /\ q = "wait" => pc[t] = "trans" /\ prog[t] \in {"using", "deleting", "closer"}
          /\ q = "quiet" => pc[t] = "wait"
    <3>1. CASE TranWake(t) /\ tran[t] = "set"
      BY <3>1, CallsMove
    <3>2. CASE prog[t] \in {"using", "deleting", "closer"} /\ WaitForOps(t)
      BY <3>2, CallsMove
    <3>3. CASE WaitOver(t)
      BY <3>3, CallsMove
    <3> QED BY <1>3, <3>1, <3>2, <3>3
  <2>2. at' = at
    BY <2>1, Types DEF Moves
  <2>3. (SlotsAgree /\ HoldersAgree)'
    BY <1>3, <2>1, <2>2, Types DEF Parts, SlotsAgree, HoldersAgree, osifVars, slotVars, Moves
  <2>4. RelyingAgrees'
    BY <1>3, <2>1, <2>2, Types DEF Parts, RelyingAgrees, osifVars, slotVars, Moves,
       Registered, Lookup, Deleting, Matches, Busy
  <2>5. ProgramsAgree'
    BY <1>3, <2>1, <2>2, Types DEF Parts, ProgramsAgree, osifVars, slotVars, Moves
  <2>6. RolesAgree'
    BY <1>3, <2>1, <2>2, Types DEF Parts, ProgramsAgree, RolesAgree, osifVars, slotVars, Moves
  <2> QED BY <2>3, <2>4, <2>5, <2>6 DEF Parts
<1> QED BY <1>1, <1>2, <1>3 DEF Inside

\* Using an interface.
LEMMA UseKeeps ==
    ASSUME OsifIInv, NEW t \in Thread,
           \/ \E s \in Slot : UserTransStart(t, s) \/ UserOpStart(t, s)
           \/ UserStop(t)
    PROVE  Parts'
<1>1. CASE \E s \in Slot : UserTransStart(t, s) \/ UserOpStart(t, s)
  <2>1. PICK s \in Slot : UserTransStart(t, s) \/ UserOpStart(t, s)
    BY <1>1
  <2>2. PICK q \in {"trans", "op"} : UseContext(t, s) /\ Moves(t, q, dscVdev[s])
    BY <2>1, CallsMove DEF UserTransStart, UserOpStart
  <2>3. (SlotsAgree /\ HoldersAgree)'
    BY <2>2, Types DEF Parts, SlotsAgree, HoldersAgree, UseContext, Goto, Moves,
       slotVars, Holding
  <2>4. RelyingAgrees'
    BY <2>2, Types DEF Parts, RelyingAgrees, UseContext, Goto, Moves, slotVars,
       Registered, Lookup, Sharing, Deleting, Matches, Busy
  <2>5. ProgramsAgree'
    BY <2>2, Types DEF Parts, ProgramsAgree, UseContext, Goto, Moves, slotVars
  <2>6. RolesAgree'
    BY <2>2, Types DEF Parts, RolesAgree, UseContext, Goto, Moves, slotVars
  <2> QED BY <2>3, <2>4, <2>5, <2>6 DEF Parts
<1>2. CASE UserStop(t)
  <2>1. Moves(t, "idle", None)
    BY <1>2, CallsMove DEF UserStop
  <2>2. /\ prog[t] = "using" /\ Goto(t, "none") /\ ctx' = [ctx EXCEPT ![t] = None]
        /\ UNCHANGED <<slotVars, asked, ptr>>
    BY <1>2 DEF UserStop
  <2>3. (SlotsAgree /\ HoldersAgree)'
    BY <2>1, <2>2, Types DEF Parts, SlotsAgree, HoldersAgree, Goto, Moves, slotVars, Holding
  <2>4. RelyingAgrees'
    BY <2>1, <2>2, Types DEF Parts, RelyingAgrees, Goto, Moves, slotVars,
       Registered, Lookup, Sharing, Deleting, Matches, Busy
  <2>5. ProgramsAgree'
    BY <2>1, <2>2, Types DEF Parts, ProgramsAgree, Goto, Moves, slotVars
  <2>6. RolesAgree'
    BY <2>1, <2>2, Types DEF Parts, RolesAgree, Goto, Moves, slotVars
  <2> QED BY <2>3, <2>4, <2>5, <2>6 DEF Parts
<1> QED BY <1>1, <1>2

\* A slot that is held has one holder, and nobody shares it.
LEMMA HoldersApart ==
    ASSUME OsifIInv, NEW t \in Thread, prog[t] \in Holding, NEW u \in Thread,
           prog[u] \in Holding \cup Sharing, u # t
    PROVE  ctx[u] # ctx[t]
BY Types DEF Parts, HoldersAgree, RelyingAgrees, Registered

\* Where interfaces are added, one that is being deleted stays registered.
LEMMA CreatorApart ==
    ASSUME OsifIInv, NEW t \in Thread, prog[t] \in {"reserved", "created", "creating"},
           NEW u \in Thread, prog[u] \in Deleting
    PROVE  /\ Registered(ctx[u]) /\ ctx[u] \in Slot /\ ctx[u] # ctx[t] /\ u # t
           /\ dscVdev[ctx[u]] \in Vdev \cap attached
<1>1. Registered(ctx[u]) /\ ctx[u] \in Slot
  BY Types DEF Parts, RolesAgree, RelyingAgrees, Apart
<1> QED BY <1>1, Types, Nodes DEF Parts, SlotsAgree, HoldersAgree, Holding, Deleting, Registered

-----------------------------------------------------------------------------
(* Who unregisters an interface is alone with it.                          *)

\* On the node of a quiet thread, and below it, nobody else is.
LEMMA QuietAlone ==
    ASSUME OsifIInv, NEW t \in Thread, pc[t] = "quiet", NEW v \in Vdev,
           v = at[t] \/ v \in DownTree(at[t]), NEW u \in Thread,
           pc[u] # "idle", at[u] = v, u # t
    PROVE  pc[u] = "queued" /\ tran[u] # "set"
<1>1. at[t] \in Node /\ v \in Node
  BY Nodes DEF OsifIInv, IInv, ThreadAgrees
<1>2. v \in WaitSet(at[t]) /\ Related(at[t], v) /\ Related(v, at[t])
  BY <1>1, TreeAssumption DEF WaitSet, DownTree, Related, Ancestors, Node
<1>3. active[at[t]] = t
  BY <1>1 DEF OsifIInv, IInv, OwnerAgrees, Owns
<1>4. ops[v] = {}
  BY <1>1, <1>2 DEF OsifIInv, IInv, Quiescence
<1>5. pc[u] # "op"
  BY <1>1, <1>4 DEF OsifIInv, IInv, OpsAgree
<1>6. active[v] \in {None, t}
  BY <1>1, <1>2, <1>3, Nodes DEF OsifIInv, IInv, TreeExclusion
<1>7. ~Owns(u, v)
  BY <1>1, <1>6, Nodes DEF OsifIInv, IInv, OwnerAgrees
<1> QED BY <1>5, <1>7, Types DEF Owns, PCs

\* A quiet deleter is the only one that relies on its interface.
LEMMA RelyingAlone ==
    ASSUME OsifIInv, NEW t \in Thread, prog[t] = "deleting", pc[t] = "quiet",
           NEW u \in Thread, prog[u] \in Sharing \cup Deleting, ctx[u] = ctx[t]
    PROVE  u = t
<1>1. at[t] = dscVdev[ctx[t]] /\ at[t] \in Vdev /\ t \in Deleter
  BY Types, Nodes DEF Parts, RelyingAgrees, Matches, Busy, Deleting
<1>2. CASE prog[u] \in Deleting
  BY <1>1, <1>2, Types DEF Parts, RelyingAgrees, Apart
<1>3. CASE prog[u] \in Sharing
  <2>1. pc[u] \notin {"idle", "queued"} /\ at[u] = at[t]
    BY <1>1, <1>3, Types DEF Parts, ProgramsAgree, Sharing
  <2> QED BY <1>1, <2>1, QuietAlone
<1> QED BY <1>2, <1>3

\* Nobody shares an interface below a quiet closer, and no deletion of it has
\* been let in.
LEMMA CloserAlone ==
    ASSUME OsifIInv, NEW t \in Thread, NEW s \in Slot, CloserUnregister(t, s),
           NEW u \in Thread, prog[u] \in Sharing \cup Deleting, ctx[u] = s
    PROVE  prog[u] \in Deleting /\ ~Busy(u)
<1>1. /\ pc[t] = "quiet" /\ prog[t] = "closer" /\ t \in Closer
      /\ dscVdev[s] \in Vdev /\ dscVdev[s] \in DownTree(at[t]) /\ Registered(s)
  BY Types, Nodes DEF CloserUnregister, ToClose, Registered, Parts, SlotsAgree, RolesAgree
<1>2. CASE prog[u] \in Deleting
  <2>1. u # t
    BY <1>1, <1>2 DEF Deleting
  <2>2. Busy(u) => at[u] = dscVdev[s]
    BY <1>1, <1>2, Types DEF Parts, RelyingAgrees, ProgramsAgree, Matches, Busy, Deleting
  <2> QED BY <1>1, <1>2, <2>1, <2>2, QuietAlone DEF Busy
<1>3. CASE prog[u] \in Sharing
  <2>1. pc[u] \notin {"idle", "queued"} /\ at[u] = dscVdev[s] /\ u # t
    BY <1>1, <1>3, Types DEF Parts, ProgramsAgree, Sharing
  <2> QED BY <1>1, <2>1, QuietAlone
<1> QED BY <1>2, <1>3

-----------------------------------------------------------------------------
(* Adding, deleting, closing.                                              *)

\* A free slot is nobody's.
LEMMA ReserveKeeps ==
    ASSUME OsifIInv, NEW t \in Thread, NEW s \in Slot, CreateReserve(t, s)
    PROVE  Parts'
<1>1. ~inUse[s] /\ dscVdev[s] = None /\ netDev[s] = None
  BY Types DEF CreateReserve, FirstFree, Parts, SlotsAgree
<1>2. SlotsAgree'
  BY Types, <1>1 DEF Parts, SlotsAgree, CreateReserve, Goto, dscVars, vars,
     slotVars
<1>3. HoldersAgree'
  BY Types, <1>1 DEF Parts, HoldersAgree, Holding, CreateReserve, Goto,
     dscVars, vars, slotVars
<1>4. RelyingAgrees'
  BY Types, <1>1 DEF Parts, RelyingAgrees, Sharing, Deleting, Matches, Busy, Registered, Lookup,
     SlotsAgree, HoldersAgree, Holding, CreateReserve, Goto, dscVars, vars,
     slotVars
<1>5. ProgramsAgree'
  BY Types, <1>1 DEF Parts, ProgramsAgree, HoldersAgree, Holding,
     RelyingAgrees, Sharing, Deleting, Matches, Busy, CreateReserve, Goto, dscVars, vars, slotVars
<1>6. RolesAgree'
  BY Types, <1>1 DEF Parts, ProgramsAgree, RolesAgree, HoldersAgree,
     Holding, RelyingAgrees, Sharing, Deleting, Matches, Busy, CreateReserve,
     Goto, dscVars, vars, slotVars
<1> QED BY <1>2, <1>3, <1>4, <1>5, <1>6 DEF Parts

\* A fresh dsc_vdev is in no slot, and nobody's.
LEMMA CreateVdevKeeps ==
    ASSUME OsifIInv, NEW t \in Thread, CreateVdev(t)
    PROVE  Parts'
<1>1. \/ /\ \E v \in Vdev \ attached : attached' = attached \cup {v}
                                     /\ dscVdev' = [dscVdev EXCEPT ![ctx[t]] = v]
         /\ Goto(t, "created")
      \/ attached' = attached /\ dscVdev' = dscVdev /\ Goto(t, "detached")
  BY DEF CreateVdev, Create, dscVars, vars
<1>2. UNCHANGED <<inUse, netDev, ctx, asked, ptr, pc, at, tran>> /\ prog[t] = "reserved"
  BY DEF CreateVdev, Create, dscVars, vars
<1>3. ctx[t] \in Slot /\ inUse[ctx[t]] /\ netDev[ctx[t]] = None /\ dscVdev[ctx[t]] = None
  BY <1>2, Types DEF Parts, HoldersAgree, Holding
<1>4. /\ \A u \in Thread : prog[u] \in Holding \cup Sharing /\ u # t => ctx[u] # ctx[t]
      /\ \A u \in Thread : prog[u] \in Deleting =>
            /\ Registered(ctx[u]) /\ ctx[u] \in Slot /\ ctx[u] # ctx[t]
            /\ dscVdev[ctx[u]] \in attached
  BY <1>2, HoldersApart, CreatorApart DEF Holding
<1>5. \A v \in Vdev \ attached, s \in Slot : dscVdev[s] # v
  BY Types, Nodes DEF Parts, SlotsAgree
<1>6. SlotsAgree'
  BY Types, Nodes, <1>1, <1>2, <1>3, <1>4, <1>5 DEF Parts, SlotsAgree, Goto
<1>7. HoldersAgree'
  BY Types, Nodes, <1>1, <1>2, <1>3, <1>4, <1>5 DEF Parts, HoldersAgree,
     Holding, Goto
<1>8. RelyingAgrees'
  BY Types, Nodes, <1>1, <1>2, <1>3, <1>4, <1>5 DEF Parts, RelyingAgrees,
     Sharing, Deleting, Matches, Busy, Registered, Lookup, SlotsAgree, HoldersAgree, Holding, Goto
<1>9. ProgramsAgree'
  BY Types, Nodes, <1>1, <1>2, <1>3, <1>4, <1>5 DEF Parts, ProgramsAgree,
     HoldersAgree, Holding, RelyingAgrees, Sharing, Deleting, Matches, Busy, Goto
<1>10. RolesAgree'
  BY Types, Nodes, <1>1, <1>2, <1>3, <1>4, <1>5 DEF Parts, ProgramsAgree,
     RolesAgree, HoldersAgree, Holding, RelyingAgrees, Sharing, Deleting,
     Matches, Busy, Goto
<1> QED BY <1>6, <1>7, <1>8, <1>9, <1>10 DEF Parts

\* The creator's transition.
LEMMA CreateTransKeeps ==
    ASSUME OsifIInv, NEW t \in Thread, CreateTrans(t)
    PROVE  Parts'
<1>1. /\ prog[t] = "created" /\ UNCHANGED <<slotVars, ctx, asked, ptr>>
      /\ \/ Moves(t, "trans", dscVdev[ctx[t]]) /\ Goto(t, "creating")
         \/ Goto(t, "stopped") /\ UNCHANGED vars
  BY CallsMove DEF CreateTrans, dscVars
<1>2. SlotsAgree'
  BY Types, <1>1 DEF Parts, SlotsAgree, Moves, Goto, slotVars, vars
<1>3. HoldersAgree'
  BY Types, <1>1 DEF Parts, HoldersAgree, Holding, Moves, Goto, slotVars,
     vars
<1>4. RelyingAgrees'
  BY Types, <1>1 DEF Parts, RelyingAgrees, Sharing, Deleting, Matches, Busy, Registered, Lookup,
     SlotsAgree, HoldersAgree, Holding, Moves, Goto, slotVars, vars
<1>5. ProgramsAgree'
  BY Types, <1>1 DEF Parts, ProgramsAgree, HoldersAgree, Holding,
     RelyingAgrees, Sharing, Deleting, Matches, Busy, Moves, Goto, slotVars, vars
<1>6. RolesAgree'
  BY Types, <1>1 DEF Parts, ProgramsAgree, RolesAgree, HoldersAgree,
     Holding, RelyingAgrees, Sharing, Deleting, Matches, Busy, Moves, Goto,
     slotVars, vars
<1> QED BY <1>2, <1>3, <1>4, <1>5, <1>6 DEF Parts

\* The creator registers.
LEMMA RegisterKeeps ==
    ASSUME OsifIInv, NEW t \in Thread, NEW d \in Dev, CreateRegister(t, d)
    PROVE  Parts'
<1>1. ctx[t] \in Slot /\ inUse[ctx[t]] /\ dscVdev[ctx[t]] # None
  BY Types DEF CreateRegister, Parts, HoldersAgree, Holding
<1>2. \A s \in Slot : netDev[s] # d
  BY Types, Nodes DEF CreateRegister, Lookup, Parts, SlotsAgree
<1>0. \A u \in Thread : prog[u] \in Deleting =>
         Registered(ctx[u]) /\ ctx[u] \in Slot /\ ctx[u] # ctx[t] /\ u # t
  BY CreatorApart DEF CreateRegister
<1>3. SlotsAgree'
  BY Types, Nodes, <1>1, <1>2 DEF Parts, SlotsAgree, CreateRegister, Goto,
     dscVars, vars, slotVars
<1>4. HoldersAgree'
  BY Types, Nodes, <1>1, <1>2 DEF Parts, HoldersAgree, Holding,
     CreateRegister, Goto, dscVars, vars, slotVars
<1>5. RelyingAgrees'
  BY Types, Nodes, <1>0, <1>1, <1>2 DEF Parts, RelyingAgrees, Sharing, Deleting, Matches, Busy, Registered,
     Lookup, SlotsAgree, HoldersAgree, Holding, CreateRegister, Goto,
     dscVars, vars, slotVars
<1>6. ProgramsAgree'
  BY Types, Nodes, <1>1, <1>2 DEF Parts, ProgramsAgree, HoldersAgree,
     Holding, RelyingAgrees, Sharing, Deleting, Matches, Busy, CreateRegister, Goto, dscVars, vars,
     slotVars
<1>7. RolesAgree'
  BY Types, Nodes, <1>1, <1>2 DEF Parts, ProgramsAgree, RolesAgree,
     HoldersAgree, Holding, RelyingAgrees, Sharing, Deleting, Matches, Busy,
     CreateRegister, Goto, dscVars, vars, slotVars
<1> QED BY <1>3, <1>4, <1>5, <1>6, <1>7 DEF Parts

\* Adding the interface fails.
LEMMA CreateFailKeeps ==
    ASSUME OsifIInv, NEW t \in Thread, CreateFail(t)
    PROVE  Parts'
<1>1. Moves(t, "idle", None)
  BY CallsMove DEF CreateFail
<1>2. SlotsAgree'
  BY Types, <1>1 DEF Parts, SlotsAgree, CreateFail, Moves, Goto, slotVars
<1>3. HoldersAgree'
  BY Types, <1>1 DEF Parts, HoldersAgree, Holding, CreateFail, Moves, Goto,
     slotVars
<1>4. RelyingAgrees'
  BY Types, <1>1 DEF Parts, RelyingAgrees, Sharing, Deleting, Matches, Busy, Registered, Lookup,
     SlotsAgree, HoldersAgree, Holding, CreateFail, Moves, Goto, slotVars
<1>5. ProgramsAgree'
  BY Types, <1>1 DEF Parts, ProgramsAgree, HoldersAgree, Holding,
     RelyingAgrees, Sharing, Deleting, Matches, Busy, CreateFail, Moves, Goto, slotVars
<1>6. RolesAgree'
  BY Types, <1>1 DEF Parts, ProgramsAgree, RolesAgree, HoldersAgree,
     Holding, RelyingAgrees, Sharing, Deleting, Matches, Busy, CreateFail,
     Moves, Goto, slotVars
<1> QED BY <1>2, <1>3, <1>4, <1>5, <1>6 DEF Parts

\* The interface has been added.
LEMMA RegisteredStopKeeps ==
    ASSUME OsifIInv, NEW t \in Thread, RegisteredStop(t)
    PROVE  Parts'
<1>1. Moves(t, "idle", None)
  BY CallsMove DEF RegisteredStop
<1>2. SlotsAgree'
  BY Types, <1>1 DEF Parts, SlotsAgree, RegisteredStop, Leave, Moves, Goto,
     slotVars
<1>3. HoldersAgree'
  BY Types, <1>1 DEF Parts, HoldersAgree, Holding, RegisteredStop, Leave,
     Moves, Goto, slotVars
<1>4. RelyingAgrees'
  BY Types, <1>1 DEF Parts, RelyingAgrees, Sharing, Deleting, Matches, Busy, Registered, Lookup,
     SlotsAgree, HoldersAgree, Holding, RegisteredStop, Leave, Moves, Goto,
     slotVars
<1>5. ProgramsAgree'
  BY Types, <1>1 DEF Parts, ProgramsAgree, HoldersAgree, Holding,
     RelyingAgrees, Sharing, Deleting, Matches, Busy, RegisteredStop, Leave, Moves, Goto, slotVars
<1>6. RolesAgree'
  BY Types, <1>1 DEF Parts, ProgramsAgree, RolesAgree, HoldersAgree,
     Holding, RelyingAgrees, Sharing, Deleting, Matches, Busy, RegisteredStop,
     Leave, Moves, Goto, slotVars
<1> QED BY <1>2, <1>3, <1>4, <1>5, <1>6 DEF Parts

\* A deleter finds its interface.
LEMMA LookupKeeps ==
    ASSUME OsifIInv, NEW t \in Thread, NEW s \in Slot, DeleteLookup(t, s)
    PROVE  Parts'
<1>1. SlotsAgree'
  BY Types DEF Parts, SlotsAgree, DeleteLookup, Goto, dscVars, vars,
     slotVars
<1>2. HoldersAgree'
  BY Types DEF Parts, HoldersAgree, Holding, DeleteLookup, Goto, dscVars,
     vars, slotVars
<1>3. RelyingAgrees'
  BY Types DEF Parts, RelyingAgrees, Sharing, Deleting, Matches, Busy, Registered, Lookup,
     SlotsAgree, HoldersAgree, Holding, DeleteLookup, Goto, dscVars, vars,
     slotVars
<1>4. ProgramsAgree'
  BY Types DEF Parts, ProgramsAgree, HoldersAgree, Holding, RelyingAgrees,
     Sharing, Deleting, Matches, Busy, DeleteLookup, Goto, dscVars, vars, slotVars
<1>5. RolesAgree'
  BY Types DEF Parts, ProgramsAgree, RolesAgree, HoldersAgree, Holding,
     RelyingAgrees, Sharing, Deleting, Matches, Busy, DeleteLookup, Goto,
     dscVars, vars, slotVars
<1> QED BY <1>1, <1>2, <1>3, <1>4, <1>5 DEF Parts

\* It reads the dsc_vdev.
LEMMA ReadKeeps ==
    ASSUME OsifIInv, NEW t \in Thread, DeleteRead(t)
    PROVE  Parts'
<1>1. SlotsAgree'
  BY Types DEF Parts, SlotsAgree, DeleteRead, Leave, Goto, dscVars, vars,
     slotVars
<1>2. HoldersAgree'
  BY Types DEF Parts, HoldersAgree, Holding, DeleteRead, Leave, Goto,
     dscVars, vars, slotVars
<1>3. RelyingAgrees'
  <2>1. CASE dscVdev[ctx[t]] = None
    BY <2>1, Types DEF Parts, RelyingAgrees, Sharing, Deleting, Matches, Busy,
       Registered, Lookup, DeleteRead, Leave, Goto, dscVars, vars, slotVars
  <2>2. CASE dscVdev[ctx[t]] # None
    <3>1. ctx[t] \in Slot /\ Matches(ctx[t], dscVdev[ctx[t]])
      BY <2>2, Types DEF Parts, RelyingAgrees, Deleting, DeleteRead, SlotsAgree, Matches
    <3> QED BY <2>2, <3>1, Types DEF Parts, RelyingAgrees, Sharing, Deleting, Matches,
               Busy, Registered, Lookup, DeleteRead, Goto, dscVars, vars, slotVars
  <2> QED BY <2>1, <2>2
<1>4. ProgramsAgree'
  BY Types DEF Parts, ProgramsAgree, HoldersAgree, Holding, RelyingAgrees,
     Sharing, Deleting, Matches, Busy, DeleteRead, Leave, Goto, dscVars, vars, slotVars
<1>5. RolesAgree'
  BY Types DEF Parts, ProgramsAgree, RolesAgree, HoldersAgree, Holding,
     RelyingAgrees, Sharing, Deleting, Matches, Busy, DeleteRead, Leave, Goto,
     dscVars, vars, slotVars
<1> QED BY <1>1, <1>2, <1>3, <1>4, <1>5 DEF Parts

\* It starts or queues on it, or is lost: then its interface is gone.
LEMMA DeleteStartKeeps ==
    ASSUME OsifIInv, NEW t \in Thread, DeleteStart(t)
    PROVE  Parts'
<1>0. /\ prog[t] = "read" /\ UNCHANGED slotVars /\ t \in Deleter
      /\ ctx[t] \in Slot /\ Matches(ctx[t], ptr[t])
  BY Types DEF DeleteStart, Parts, RelyingAgrees, Deleting
<1>1. CASE \E q \in {"trans", "queued"} :
              /\ Moves(t, q, ptr[t]) /\ (q = "trans" => Registered(ctx[t]))
              /\ Goto(t, "deleting") /\ ptr' = [ptr EXCEPT ![t] = None]
              /\ UNCHANGED <<ctx, asked>>
  <2>1. PICK q \in {"trans", "queued"} :
          /\ Moves(t, q, ptr[t]) /\ (q = "trans" => Registered(ctx[t]))
          /\ Goto(t, "deleting") /\ ptr' = [ptr EXCEPT ![t] = None]
          /\ UNCHANGED <<ctx, asked>>
    BY <1>1
  <2>2. (SlotsAgree /\ HoldersAgree)'
    BY Types, <1>0, <2>1 DEF Parts, SlotsAgree, HoldersAgree, Holding, Moves, Goto, slotVars
  <2>3. RelyingAgrees'
    BY Types, Nodes, <1>0, <2>1 DEF Parts, RelyingAgrees, Sharing, Deleting, Matches,
       Busy, Registered, Lookup, Moves, Goto, slotVars
  <2>4. ProgramsAgree'
    BY Types, <1>0, <2>1 DEF Parts, ProgramsAgree, Moves, Goto, slotVars
  <2>5. RolesAgree'
    BY Types, <1>0, <2>1 DEF Parts, RolesAgree, Moves, Goto, slotVars
  <2> QED BY <2>2, <2>3, <2>4, <2>5 DEF Parts
<1>2. CASE UNCHANGED vars /\ (Leave(t) \/ (Goto(t, "lost") /\ UNCHANGED <<ctx, asked, ptr>>
                                        /\ Closer # {}))
  <2>0. SlotsAgree'
    BY Types, <1>0, <1>2 DEF Parts, SlotsAgree, slotVars, vars
  <2>1. HoldersAgree'
    <3>1. /\ \A u \in Thread \ {t} : prog'[u] = prog[u] /\ ctx'[u] = ctx[u] /\ ptr'[u] = ptr[u]
          /\ prog'[t] \notin Holding
      BY Types, <1>2 DEF Leave, Goto, Holding
    <3> QED BY Types, <1>0, <1>2, <3>1 DEF Parts, HoldersAgree, Holding, slotVars, vars
  <2>2. RelyingAgrees'
    BY Types, Nodes, <1>0, <1>2 DEF Parts, RelyingAgrees, Sharing, Deleting, Matches,
       Busy, Registered, Lookup, Leave, Goto, slotVars, vars
  <2>3. ProgramsAgree'
    BY Types, <1>0, <1>2 DEF Parts, ProgramsAgree, Leave, Goto, slotVars, vars
  <2>4. RolesAgree'
    BY Types, <1>0, <1>2 DEF Parts, RolesAgree, Leave, Goto, slotVars, vars
  <2> QED BY <2>0, <2>1, <2>2, <2>3, <2>4 DEF Parts
<1>3. ptr[t] \notin attached => Closer # {}
  BY Types, Nodes, <1>0 DEF Parts, RelyingAgrees, SlotsAgree, Matches, Deleting
<1>4. TransStart(t, ptr[t]) => Moves(t, "trans", ptr[t]) /\ Registered(ctx[t])
  BY <1>0, CallsMove, StartRegistered
<1>5. TransQueue(t, ptr[t]) => Moves(t, "queued", ptr[t])
  BY CallsMove
<1> QED BY <1>0, <1>1, <1>2, <1>3, <1>4, <1>5 DEF DeleteStart, dscVars

\* A quiet deleter unregisters: nobody else relies on its interface.
LEMMA UnregisterKeeps ==
    ASSUME OsifIInv, NEW t \in Thread, DeleteUnregister(t)
    PROVE  Parts'
<1>1. /\ ctx[t] \in Slot /\ netDev[ctx[t]] = asked[t] /\ inUse[ctx[t]]
      /\ dscVdev[ctx[t]] \in Vdev /\ at[t] = dscVdev[ctx[t]] /\ t \in Deleter
      /\ asked[t] # None
  BY Types, Nodes DEF DeleteUnregister, Parts, RelyingAgrees, SlotsAgree,
     ProgramsAgree, Sharing, Deleting, Matches, Busy, Registered
<1>2. Lookup(asked[t]) = {ctx[t]}
  BY <1>1, Types DEF Lookup, Parts, SlotsAgree
<1>3. netDev' = [netDev EXCEPT ![ctx[t]] = None]
  BY <1>1, <1>2, Types DEF DeleteUnregister
<1>4. \A u \in Thread : prog[u] \in Sharing \cup Deleting /\ ctx[u] = ctx[t] => u = t
  BY <1>1, RelyingAlone DEF DeleteUnregister
<1>5. SlotsAgree'
  BY Types, Nodes, <1>1, <1>2, <1>3, <1>4 DEF Parts, SlotsAgree,
     DeleteUnregister, Apart, Goto, dscVars, vars, slotVars
<1>6. HoldersAgree'
  BY Types, Nodes, <1>1, <1>2, <1>3, <1>4 DEF Parts, HoldersAgree, Holding,
     DeleteUnregister, Apart, Goto, dscVars, vars, slotVars
<1>7. RelyingAgrees'
  BY Types, Nodes, <1>1, <1>2, <1>3, <1>4 DEF Parts, RelyingAgrees, Sharing, Deleting, Matches, Busy,
     Registered, Lookup, SlotsAgree, HoldersAgree, Holding,
     DeleteUnregister, Apart, Goto, dscVars, vars, slotVars
<1>8. ProgramsAgree'
  BY Types, Nodes, <1>1, <1>2, <1>3, <1>4 DEF Parts, ProgramsAgree,
     HoldersAgree, Holding, RelyingAgrees, Sharing, Deleting, Matches, Busy, DeleteUnregister, Apart,
     Goto, dscVars, vars, slotVars
<1>9. RolesAgree'
  BY Types, Nodes, <1>1, <1>2, <1>3, <1>4 DEF Parts, ProgramsAgree,
     RolesAgree, HoldersAgree, Holding, RelyingAgrees, Sharing, Deleting,
     Matches, Busy, DeleteUnregister, Apart, Goto, dscVars, vars, slotVars
<1> QED BY <1>5, <1>6, <1>7, <1>8, <1>9 DEF Parts

\* The interface is gone.
LEMMA DeleteStopKeeps ==
    ASSUME OsifIInv, NEW t \in Thread, DeleteStop(t)
    PROVE  Parts'
<1>1. Moves(t, "idle", None)
  BY CallsMove DEF DeleteStop
<1>2. SlotsAgree'
  BY Types, <1>1 DEF Parts, SlotsAgree, DeleteStop, Moves, Goto, slotVars
<1>3. HoldersAgree'
  BY Types, <1>1 DEF Parts, HoldersAgree, Holding, DeleteStop, Moves, Goto,
     slotVars
<1>4. RelyingAgrees'
  BY Types, <1>1 DEF Parts, RelyingAgrees, Sharing, Deleting, Matches, Busy, Registered, Lookup,
     SlotsAgree, HoldersAgree, Holding, DeleteStop, Moves, Goto, slotVars
<1>5. ProgramsAgree'
  BY Types, <1>1 DEF Parts, ProgramsAgree, HoldersAgree, Holding,
     RelyingAgrees, Sharing, Deleting, Matches, Busy, DeleteStop, Moves, Goto, slotVars
<1>6. RolesAgree'
  BY Types, <1>1 DEF Parts, ProgramsAgree, RolesAgree, HoldersAgree,
     Holding, RelyingAgrees, Sharing, Deleting, Matches, Busy, DeleteStop,
     Moves, Goto, slotVars
<1> QED BY <1>2, <1>3, <1>4, <1>5, <1>6 DEF Parts

\* The deletion is undone.
LEMMA UndoKeeps ==
    ASSUME OsifIInv, NEW t \in Thread, DeleteUndo(t)
    PROVE  Parts'
<1>1. /\ ctx[t] \in Slot /\ inUse[ctx[t]] /\ dscVdev[ctx[t]] # None
      /\ asked[t] # None /\ Lookup(asked[t]) = {} /\ t \in Deleter
  BY Types DEF DeleteUndo, Parts, HoldersAgree, Holding, RelyingAgrees
<1>2. \A s \in Slot : netDev[s] # asked[t]
  BY <1>1, Types, Nodes DEF Lookup, Parts, SlotsAgree
<1>3. SlotsAgree'
  BY Types, Nodes, <1>1, <1>2 DEF Parts, SlotsAgree, DeleteUndo, Apart,
     Goto, dscVars, vars, slotVars
<1>4. HoldersAgree'
  BY Types, Nodes, <1>1, <1>2 DEF Parts, HoldersAgree, Holding, DeleteUndo,
     Apart, Goto, dscVars, vars, slotVars
<1>5. RelyingAgrees'
  BY Types, Nodes, <1>1, <1>2 DEF Parts, RelyingAgrees, Sharing, Deleting, Matches, Busy, Registered,
     Lookup, SlotsAgree, HoldersAgree, Holding, DeleteUndo, Apart, Goto,
     dscVars, vars, slotVars
<1>6. ProgramsAgree'
  BY Types, Nodes, <1>1, <1>2 DEF Parts, ProgramsAgree, HoldersAgree,
     Holding, RelyingAgrees, Sharing, Deleting, Matches, Busy, DeleteUndo, Apart, Goto, dscVars,
     vars, slotVars
<1>7. RolesAgree'
  BY Types, Nodes, <1>1, <1>2 DEF Parts, ProgramsAgree, RolesAgree,
     HoldersAgree, Holding, RelyingAgrees, Sharing, Deleting, Matches, Busy,
     DeleteUndo, Apart, Goto, dscVars, vars, slotVars
<1> QED BY <1>3, <1>4, <1>5, <1>6, <1>7 DEF Parts

\* A closer starts or queues.
LEMMA CloserStartKeeps ==
    ASSUME OsifIInv, NEW t \in Thread, NEW n \in Node, CloserStart(t, n)
    PROVE  Parts'
<1>1. Moves(t, "trans", n) \/ Moves(t, "queued", n)
  BY CallsMove DEF CloserStart
<1>2. SlotsAgree'
  BY Types, <1>1 DEF Parts, SlotsAgree, CloserStart, Moves, Goto, slotVars
<1>3. HoldersAgree'
  BY Types, <1>1 DEF Parts, HoldersAgree, Holding, CloserStart, Moves, Goto,
     slotVars
<1>4. RelyingAgrees'
  BY Types, <1>1 DEF Parts, RelyingAgrees, Sharing, Deleting, Matches, Busy, Registered, Lookup,
     SlotsAgree, HoldersAgree, Holding, CloserStart, Moves, Goto, slotVars
<1>5. ProgramsAgree'
  BY Types, <1>1 DEF Parts, ProgramsAgree, HoldersAgree, Holding,
     RelyingAgrees, Sharing, Deleting, Matches, Busy, CloserStart, Moves, Goto, slotVars
<1>6. RolesAgree'
  BY Types, <1>1 DEF Parts, ProgramsAgree, RolesAgree, HoldersAgree,
     Holding, RelyingAgrees, Sharing, Deleting, Matches, Busy, CloserStart,
     Moves, Goto, slotVars
<1> QED BY <1>2, <1>3, <1>4, <1>5, <1>6 DEF Parts

\* A quiet closer unregisters: nobody relies on the interface.
LEMMA CloserUnregisterKeeps ==
    ASSUME OsifIInv, NEW t \in Thread, NEW s \in Slot, CloserUnregister(t, s)
    PROVE  Parts'
<1>1. \A u \in Thread : prog[u] \in Sharing \cup Deleting /\ ctx[u] = s =>
         prog[u] \in Deleting /\ ~Busy(u)
  BY CloserAlone
<1>2. inUse[s] /\ netDev[s] # None /\ dscVdev[s] # None
  BY Types DEF CloserUnregister, ToClose, Registered, Parts, SlotsAgree
<1>3. \A u \in Thread : prog[u] \in Holding => ctx[u] # s
  BY <1>2, Types DEF Parts, HoldersAgree
<1>4. SlotsAgree'
  BY Types, Nodes, <1>1, <1>2, <1>3 DEF Parts, SlotsAgree, CloserUnregister,
     ToClose, Registered, Goto, dscVars, vars, slotVars
<1>5. HoldersAgree'
  BY Types, Nodes, <1>1, <1>2, <1>3 DEF Parts, HoldersAgree, Holding,
     CloserUnregister, ToClose, Registered, Goto, dscVars, vars, slotVars
<1>6. RelyingAgrees'
  <2>1. t \in Closer
    BY Types DEF CloserUnregister, Parts, RolesAgree
  <2>2. /\ netDev' = [netDev EXCEPT ![s] = None] /\ Goto(t, "stopped")
        /\ ctx' = [ctx EXCEPT ![t] = s] /\ prog[t] = "closer"
        /\ UNCHANGED <<inUse, dscVdev, asked, ptr, pc, at, tran>>
    BY DEF CloserUnregister, dscVars, vars
  <2>3. \A r \in Slot : Registered(r)' <=> Registered(r) /\ r # s
    BY <2>2, Types DEF Registered
  <2>4. \A u \in Thread : Busy(u)' <=> Busy(u)
    BY <2>2 DEF Busy
  <2>5. \A u \in Thread \ {t} : prog'[u] = prog[u] /\ ctx'[u] = ctx[u]
    BY <2>2, Types DEF Goto
  <2>6. prog'[t] = "stopped"
    BY <2>2, Types DEF Goto
  <2>7. \A u \in Thread : prog'[u] \in Sharing =>
           ctx'[u] \in Slot /\ inUse'[ctx'[u]] /\ netDev'[ctx'[u]] # None
    BY <1>1, <2>2, <2>3, <2>5, <2>6, Types DEF Parts, RelyingAgrees, Sharing, Deleting, Registered
  <2>8. ASSUME NEW u \in Thread, prog'[u] \in Deleting
        PROVE  /\ u \in Deleter /\ ctx'[u] \in Slot /\ asked'[u] # None
               /\ netDev'[ctx'[u]] \in {asked'[u], None} \/ ~inUse'[ctx'[u]]
               /\ \/ inUse'[ctx'[u]] /\ netDev'[ctx'[u]] # None
                  \/ Closer # {} /\ ~Busy(u)'
    <3>1. prog[u] = prog'[u] /\ ctx'[u] = ctx[u] /\ asked'[u] = asked[u]
      BY <2>2, <2>5, <2>6, <2>8 DEF Deleting
    <3>2. /\ u \in Deleter /\ ctx[u] \in Slot /\ asked[u] # None
          /\ Registered(ctx[u]) => netDev[ctx[u]] = asked[u]
          /\ ~Registered(ctx[u]) => ~Busy(u)
      BY <2>8, <3>1, Types DEF Parts, RelyingAgrees
    <3>3. ctx[u] # s => netDev'[ctx[u]] = netDev[ctx[u]]
      BY <2>2, <3>2, Types
    <3>4. ctx[u] = s => ~Busy(u)
      BY <1>1, <2>8, <3>1
    <3> QED BY <2>1, <2>2, <2>4, <3>1, <3>2, <3>3, <3>4, Types DEF Registered
  <2>9. \A x \in Slot, v \in Vdev : Matches(x, v) => Matches(x, v)'
    BY <2>2, <2>3 DEF Matches
  <2>10. \A u \in Thread : prog'[u] = "unregistered" =>
           u \in Deleter /\ asked'[u] # None /\ (Lookup(asked[u]))' = {}
    BY <2>2, <2>5, <2>6, Types DEF Parts, RelyingAgrees, Lookup
  <2> QED BY <2>2, <2>5, <2>6, <2>7, <2>8, <2>9, <2>10, Types
          DEF RelyingAgrees, Parts, Lookup, Registered, Matches, Deleting
<1>7. ProgramsAgree'
  BY Types, Nodes, <1>1, <1>2, <1>3 DEF Parts, ProgramsAgree, HoldersAgree,
     Holding, RelyingAgrees, Sharing, Deleting, Matches, Busy, CloserUnregister, ToClose, Registered,
     Goto, dscVars, vars, slotVars
<1>8. RolesAgree'
  <2>1. /\ t \in Closer /\ at[t] \in {Driver} \cup Psoc /\ pc[t] = "quiet"
        /\ at[t] \in Ancestors(dscVdev[s])
    BY Types DEF CloserUnregister, ToClose, DownTree, Parts, RolesAgree
  <2>2. /\ Goto(t, "stopped") /\ ctx' = [ctx EXCEPT ![t] = s]
        /\ UNCHANGED <<dscVdev, ptr, pc, at>>
    BY DEF CloserUnregister, dscVars, vars
  <2> QED BY <2>1, <2>2, Types DEF Parts, RolesAgree, Goto
<1> QED BY <1>4, <1>5, <1>6, <1>7, <1>8 DEF Parts

\* All is closed.
LEMMA CloserStopKeeps ==
    ASSUME OsifIInv, NEW t \in Thread, CloserStop(t)
    PROVE  Parts'
<1>1. Moves(t, "idle", None)
  BY CallsMove DEF CloserStop
<1>2. SlotsAgree'
  BY Types, <1>1 DEF Parts, SlotsAgree, CloserStop, Leave, Moves, Goto,
     slotVars
<1>3. HoldersAgree'
  BY Types, <1>1 DEF Parts, HoldersAgree, Holding, CloserStop, Leave, Moves,
     Goto, slotVars
<1>4. RelyingAgrees'
  BY Types, <1>1 DEF Parts, RelyingAgrees, Sharing, Deleting, Matches, Busy, Registered, Lookup,
     SlotsAgree, HoldersAgree, Holding, CloserStop, Leave, Moves, Goto,
     slotVars
<1>5. ProgramsAgree'
  BY Types, <1>1 DEF Parts, ProgramsAgree, HoldersAgree, Holding,
     RelyingAgrees, Sharing, Deleting, Matches, Busy, CloserStop, Leave, Moves, Goto, slotVars
<1>6. RolesAgree'
  BY Types, <1>1 DEF Parts, ProgramsAgree, RolesAgree, HoldersAgree,
     Holding, RelyingAgrees, Sharing, Deleting, Matches, Busy, CloserStop,
     Leave, Moves, Goto, slotVars
<1> QED BY <1>2, <1>3, <1>4, <1>5, <1>6 DEF Parts

\* The dsc_vdev leaves its slot.  Those in its queue, deletions whose interface
\* is gone, are aborted.
LEMMA FlushKeeps ==
    ASSUME OsifIInv, NEW t \in Thread, DestroyFlush(t)
    PROVE  Parts'
<1>1. UNCHANGED <<pc, at, attached>>
  BY DEF DestroyFlush
<1>2. prog[t] = "stopped" /\ ctx[t] \in Slot /\ dscVdev[ctx[t]] \in Vdev \cap attached
      /\ netDev[ctx[t]] = None
  BY Types DEF DestroyFlush, Parts, HoldersAgree, SlotsAgree, Holding
<1>3. \A u \in Thread : prog[u] \in Holding \cup Sharing /\ u # t => ctx[u] # ctx[t]
  BY <1>2, HoldersApart DEF Holding
<1>4. \A s \in Slot \ {ctx[t]} : dscVdev[s] # dscVdev[ctx[t]]
  BY <1>2, Types, Nodes DEF Parts, SlotsAgree
<1>5. /\ ptr' = [ptr EXCEPT ![t] = dscVdev[ctx[t]]]
      /\ dscVdev' = [dscVdev EXCEPT ![ctx[t]] = None] /\ Goto(t, "flushed")
      /\ UNCHANGED <<inUse, netDev, ctx, asked>>
  BY DEF DestroyFlush
<1>6. ASSUME NEW u \in Thread, tran'[u] # tran[u]
      PROVE  /\ tran'[u] = "aborted" /\ tran[u] = "clear"
             /\ prog[u] = "deleting" /\ pc[u] = "queued" /\ Closer # {}
  <2>1. /\ tran'[u] = "aborted"
        /\ \E i \in 1..Len(queue[dscVdev[ctx[t]]]) : queue[dscVdev[ctx[t]]][i] = u
    BY <1>6 DEF DestroyFlush
  <2>2. pc[u] = "queued" /\ at[u] = dscVdev[ctx[t]] /\ tran[u] = "clear"
    BY <1>2, <2>1, FlushedWaited DEF OsifIInv
  <2>3. prog[u] \in {"deleting", "closer"}
    BY <2>2, Types DEF Parts, ProgramsAgree, Progs
  <2>4. prog[u] = "deleting"
    BY <1>2, <2>2, <2>3, Types, Nodes DEF Parts, RolesAgree
  <2>5. ctx[u] = ctx[t] /\ ~Registered(ctx[u])
    BY <1>2, <2>2, <2>4, Types DEF Parts, RelyingAgrees, Matches, Registered
  <2> QED BY <2>1, <2>2, <2>4, <2>5, Types DEF Parts, RelyingAgrees, Deleting
<1>7. \A u \in Thread : Busy(u)' <=> Busy(u)
  BY <1>1, <1>6 DEF Busy
<1>8. SlotsAgree'
  BY Types, Nodes, <1>1, <1>2, <1>3, <1>4, <1>5 DEF Parts, SlotsAgree, Goto
<1>9. HoldersAgree'
  BY Types, Nodes, <1>1, <1>2, <1>3, <1>4, <1>5 DEF Parts, HoldersAgree, Holding, Goto
<1>10. RelyingAgrees'
  BY Types, Nodes, <1>1, <1>2, <1>3, <1>4, <1>5, <1>7 DEF Parts, RelyingAgrees,
     Sharing, Deleting, Matches, Registered, Lookup, Goto
<1>11. ProgramsAgree'
  BY Types, Nodes, <1>1, <1>2, <1>3, <1>5, <1>6 DEF Parts, ProgramsAgree,
     RelyingAgrees, Sharing, Holding, Goto
<1>12. RolesAgree'
  BY Types, Nodes, <1>1, <1>2, <1>3, <1>5 DEF Parts, RolesAgree, Holding, Goto
<1> QED BY <1>8, <1>9, <1>10, <1>11, <1>12 DEF Parts

\* It leaves the tree.
LEMMA DetachKeeps ==
    ASSUME OsifIInv, NEW t \in Thread, DestroyDetach(t)
    PROVE  Parts'
<1>1. ptr[t] \in Vdev /\ prog[t] = "flushed" /\ \A s \in Slot : dscVdev[s] # ptr[t]
  BY Types DEF DestroyDetach, Parts, HoldersAgree
<1>2. SlotsAgree'
  BY Types, Nodes, <1>1 DEF Parts, SlotsAgree, DestroyDetach, Goto, slotVars
<1>3. HoldersAgree'
  BY Types, Nodes, <1>1 DEF Parts, HoldersAgree, Holding, DestroyDetach,
     Goto, slotVars
<1>4. RelyingAgrees'
  BY Types, Nodes, <1>1 DEF Parts, RelyingAgrees, Sharing, Deleting, Matches, Busy, Registered,
     Lookup, SlotsAgree, HoldersAgree, Holding, DestroyDetach, Goto,
     slotVars
<1>5. ProgramsAgree'
  BY Types, Nodes, <1>1 DEF Parts, ProgramsAgree, HoldersAgree, Holding,
     RelyingAgrees, Sharing, Deleting, Matches, Busy, DestroyDetach, Goto, slotVars
<1>6. RolesAgree'
  BY Types, Nodes, <1>1 DEF Parts, ProgramsAgree, RolesAgree, HoldersAgree,
     Holding, RelyingAgrees, Sharing, Deleting, Matches, Busy, DestroyDetach,
     Goto, slotVars
<1> QED BY <1>2, <1>3, <1>4, <1>5, <1>6 DEF Parts

\* The slot is given back.
LEMMA PutKeeps ==
    ASSUME OsifIInv, NEW t \in Thread, DestroyPut(t)
    PROVE  Parts'
<1>1. SlotsAgree'
  BY Types DEF Parts, SlotsAgree, DestroyPut, Leave, Goto, dscVars, vars,
     slotVars
<1>2. HoldersAgree'
  <2>1. /\ \A u \in Thread \ {t} : prog'[u] = prog[u] /\ ctx'[u] = ctx[u] /\ ptr'[u] = ptr[u]
        /\ prog'[t] \notin Holding /\ attached' = attached
    BY Types DEF DestroyPut, Leave, Goto, Holding, dscVars, vars
  <2>2. /\ ctx[t] \in Slot
        /\ \A u \in Thread \ {t} : prog[u] \in Holding => ctx[u] # ctx[t]
    BY Types DEF Parts, HoldersAgree, Holding, DestroyPut
  <2>3. \A s \in Slot \ {ctx[t]} :
           inUse'[s] = inUse[s] /\ netDev'[s] = netDev[s] /\ dscVdev'[s] = dscVdev[s]
    BY Types, <2>2 DEF DestroyPut
  <2>4. \A s \in Slot : dscVdev'[s] \in {dscVdev[s], None}
    BY Types, <2>2 DEF DestroyPut
  <2> QED BY Types, Nodes, <2>1, <2>2, <2>3, <2>4 DEF Parts, HoldersAgree, Holding
<1>3. RelyingAgrees'
  BY Types DEF Parts, RelyingAgrees, Sharing, Deleting, Matches, Busy, Registered, Lookup,
     SlotsAgree, HoldersAgree, Holding, DestroyPut, Leave, Goto, dscVars,
     vars, slotVars
<1>4. ProgramsAgree'
  BY Types DEF Parts, ProgramsAgree, HoldersAgree, Holding, RelyingAgrees,
     Sharing, Deleting, Matches, Busy, DestroyPut, Leave, Goto, dscVars, vars, slotVars
<1>5. RolesAgree'
  BY Types DEF Parts, ProgramsAgree, RolesAgree, HoldersAgree, Holding,
     RelyingAgrees, Sharing, Deleting, Matches, Busy, DestroyPut, Leave, Goto,
     dscVars, vars, slotVars
<1> QED BY <1>1, <1>2, <1>3, <1>4, <1>5 DEF Parts

-----------------------------------------------------------------------------
(* The invariant.                                                          *)

\* The variables of the sync layer keep their types.
LEMMA OsifTyped ==
    ASSUME OsifIInv, OsifNext
    PROVE  OsifTypeOK'
<1>1. TypeOK'
  BY OsifKeepsDsc DEF IInv
<1>2. PICK t \in Thread :
        \/ Proceed(t)
        \/ \E s \in Slot : \/ UserTransStart(t, s) \/ UserOpStart(t, s)
                           \/ CreateReserve(t, s) \/ DeleteLookup(t, s)
        \/ \E n \in Node : CloserStart(t, n)
  BY DEF OsifNext
<1>3. "none" \in Progs /\ None \in Slot \cup {None}
  BY DEF Progs
<1>4. ASSUME Leave(t)
      PROVE  /\ prog' \in [Thread -> Progs] /\ ctx' \in [Thread -> Slot \cup {None}]
             /\ asked' \in [Thread -> Dev \cup {None}] /\ ptr' \in [Thread -> Vdev \cup {None}]
  BY <1>4, Types DEF Leave, Goto, Progs
<1>5. CASE \/ \E s \in Slot : \/ UserTransStart(t, s) \/ UserOpStart(t, s)
                              \/ CreateReserve(t, s) \/ DeleteLookup(t, s)
           \/ \E n \in Node : CloserStart(t, n)
  <2>1. CASE \E s \in Slot : UserTransStart(t, s) \/ UserOpStart(t, s)
    <3>1. PICK s \in Slot : UseContext(t, s)
      BY <2>1 DEF UserTransStart, UserOpStart
    <3> QED BY <1>1, <3>1, Types DEF OsifTypeOK, UseContext, Goto, Progs, slotVars
  <2>2. CASE \E s \in Slot : CreateReserve(t, s)
    BY <1>1, <2>2, Types DEF OsifTypeOK, CreateReserve, Goto, Progs
  <2>3. CASE \E s \in Slot : DeleteLookup(t, s)
    BY <1>1, <2>3, Types DEF OsifTypeOK, DeleteLookup, Goto, Progs, slotVars
  <2>4. CASE \E n \in Node : CloserStart(t, n)
    BY <1>1, <2>4, Types DEF OsifTypeOK, CloserStart, Goto, Progs, slotVars
  <2> QED BY <1>5, <2>1, <2>2, <2>3, <2>4
<1>6. CASE Inside(t) \/ UserStop(t)
  <2>1. CASE Inside(t) /\ Leave(t) /\ UNCHANGED slotVars
    BY <1>1, <1>4, <2>1, Types DEF OsifTypeOK, slotVars
  <2>2. CASE UNCHANGED osifVars
    BY <1>1, <2>2, Types DEF OsifTypeOK, osifVars, slotVars
  <2>3. CASE UserStop(t)
    <3>1. Goto(t, "none") /\ ctx' = [ctx EXCEPT ![t] = None]
          /\ UNCHANGED <<slotVars, asked, ptr>>
      BY <2>3 DEF UserStop
    <3> QED BY <1>1, <3>1, Types DEF OsifTypeOK, Goto, Progs, slotVars
  <2> QED BY <1>6, <2>1, <2>2, <2>3 DEF Inside
<1>7. CASE \/ CreateVdev(t) \/ CreateTrans(t) \/ (\E d \in Dev : CreateRegister(t, d))
           \/ CreateFail(t) \/ RegisteredStop(t)
  BY <1>1, <1>4, <1>7, Types DEF OsifTypeOK, CreateVdev, CreateTrans,
     CreateRegister, CreateFail, RegisteredStop, Goto, Progs, slotVars
<1>8. CASE DeleteRead(t) \/ DeleteStart(t) \/ DeleteStop(t)
  <2>1. CASE DeleteRead(t)
    <3>1. prog[t] = "found" /\ ctx[t] \in Slot
      BY <2>1 DEF DeleteRead, OsifIInv, RelyingAgrees, Deleting
    <3>2. CASE dscVdev[ctx[t]] = None
      BY <1>1, <1>4, <2>1, <3>2, Types DEF OsifTypeOK, DeleteRead, slotVars
    <3>3. CASE dscVdev[ctx[t]] # None
      <4>1. dscVdev[ctx[t]] \in Vdev
        BY <3>1, <3>3, Types
      <4> QED BY <1>1, <2>1, <3>3, <4>1, Types
              DEF OsifTypeOK, DeleteRead, Goto, Progs, slotVars
    <3> QED BY <3>2, <3>3
  <2>2. CASE DeleteStart(t)
    <3>1. UNCHANGED slotVars
          /\ \/ /\ Goto(t, "deleting") /\ ptr' = [ptr EXCEPT ![t] = None]
                /\ UNCHANGED <<ctx, asked>>
             \/ Leave(t)
             \/ Goto(t, "lost") /\ UNCHANGED <<ctx, asked, ptr>>
      BY <2>2 DEF DeleteStart
    <3> QED BY <1>1, <1>4, <3>1, Types DEF OsifTypeOK, Goto, Progs, slotVars
  <2>3. CASE DeleteStop(t)
    <3>1. Goto(t, "stopped") /\ UNCHANGED <<slotVars, ctx, asked, ptr>>
      BY <2>3 DEF DeleteStop
    <3> QED BY <1>1, <3>1, Types DEF OsifTypeOK, Goto, Progs, slotVars
  <2> QED BY <1>8, <2>1, <2>2, <2>3
<1>9. CASE DeleteUnregister(t) \/ DeleteUndo(t)
  BY <1>1, <1>9, Types DEF OsifTypeOK, DeleteUnregister, DeleteUndo, Goto, Progs, slotVars
<1>10. CASE (\E s \in Slot : CloserUnregister(t, s)) \/ CloserStop(t)
  BY <1>1, <1>4, <1>10, Types DEF OsifTypeOK, CloserUnregister, CloserStop,
     Goto, Progs, slotVars
<1>11. CASE DestroyFlush(t) \/ DestroyDetach(t)
  BY <1>1, <1>11, Types, StoppedVacant DEF OsifTypeOK, DestroyFlush, DestroyDetach, Goto,
     Progs, slotVars
<1>12. CASE DestroyPut(t)
  BY <1>1, <1>4, <1>12, Types DEF OsifTypeOK, DestroyPut, Goto, Progs
<1> QED BY <1>2, <1>5, <1>6, <1>7, <1>8, <1>9, <1>10, <1>11, <1>12 DEF Proceed

\* No slot is lost: a slot that is taken and unregistered after the step was
\* held before by a thread that holds it still, or the thread that moved holds it.
LEMMA TakenStep ==
    ASSUME OsifIInv, OsifNext
    PROVE  TakenAreHeld'
<1> SUFFICES ASSUME NEW s \in Slot, inUse'[s], netDev'[s] = None
             PROVE  \E u \in Thread : prog'[u] \in Holding /\ ctx'[u] = s
  BY DEF TakenAreHeld
<1>1. PICK t \in Thread :
        \/ Proceed(t)
        \/ \E r \in Slot : \/ UserTransStart(t, r) \/ UserOpStart(t, r)
                           \/ CreateReserve(t, r) \/ DeleteLookup(t, r)
        \/ \E n \in Node : CloserStart(t, n)
  BY DEF OsifNext
<1>2. inUse[s] /\ netDev[s] = None =>
        \E u \in Thread : prog[u] \in Holding /\ ctx[u] = s
  BY DEF OsifIInv, TakenAreHeld
<1>3. ASSUME UNCHANGED <<inUse, netDev>>,
             \A u \in Thread : prog[u] \in Holding =>
                 prog'[u] \in Holding /\ ctx'[u] = ctx[u]
      PROVE  \E u \in Thread : prog'[u] \in Holding /\ ctx'[u] = s
  BY <1>2, <1>3
<1>4. CASE \E r \in Slot : UserTransStart(t, r) \/ UserOpStart(t, r)
  BY <1>3, <1>4, Types DEF UserTransStart, UserOpStart, UseContext, Goto, Holding, slotVars
<1>5. CASE \E r \in Slot : CreateReserve(t, r)
  BY <1>2, <1>5, Types DEF CreateReserve, Goto, Holding
<1>6. CASE (\E r \in Slot : DeleteLookup(t, r)) \/ \E n \in Node : CloserStart(t, n)
  BY <1>3, <1>6, Types DEF DeleteLookup, CloserStart, Goto, Holding, slotVars
<1>7. CASE Inside(t)
  <2>1. CASE UNCHANGED osifVars
    BY <1>3, <2>1 DEF osifVars, slotVars
  <2>2. CASE tran[t] = "aborted" /\ Leave(t) /\ UNCHANGED slotVars
    <3>1. prog[t] = "deleting"
      BY <2>2, Types DEF Parts, ProgramsAgree
    <3> QED BY <1>3, <2>2, <3>1, Types DEF Leave, Goto, Holding, slotVars
  <2> QED BY <1>7, <2>1, <2>2 DEF Inside
<1>8. CASE UserStop(t)
  <2>1. prog[t] = "using" /\ Goto(t, "none") /\ ctx' = [ctx EXCEPT ![t] = None]
        /\ UNCHANGED <<inUse, netDev>>
    BY <1>8 DEF UserStop, slotVars
  <2> QED BY <1>3, <2>1, Types DEF Goto, Holding
<1>9. CASE CreateVdev(t) \/ CreateTrans(t) \/ CreateFail(t)
  BY <1>3, <1>9, Types DEF CreateVdev, CreateTrans, CreateFail, Goto, Holding, slotVars
<1>10. CASE \E d \in Dev : CreateRegister(t, d)
  <2>1. ctx[t] \in Slot
    BY <1>10, Types DEF CreateRegister, Parts, HoldersAgree, Holding
  <2> QED BY <1>2, <1>10, <2>1, Nodes, Types DEF CreateRegister, Goto, Holding
<1>11. CASE RegisteredStop(t) \/ DeleteRead(t)
  BY <1>3, <1>11, Types DEF RegisteredStop, DeleteRead, Leave, Goto, Holding, slotVars
<1>12. CASE DeleteStart(t)
  <2>1. prog[t] = "read" /\ UNCHANGED <<inUse, netDev>>
        /\ \A u \in Thread \ {t} : prog'[u] = prog[u] /\ ctx'[u] = ctx[u]
    BY <1>12, Types DEF DeleteStart, Leave, Goto, slotVars
  <2> QED BY <1>3, <2>1 DEF Holding
<1>13. CASE DeleteUnregister(t)
  <2>1. ctx[t] \in Slot /\ prog[t] = "deleting" /\ netDev[ctx[t]] = asked[t]
    BY <1>13, LetInRegistered DEF DeleteUnregister, Busy
  <2>2. CASE s \in Lookup(asked[t])
    <3>1. s = ctx[t]
      <4>1. asked[t] # None
        BY <1>13, LetInRegistered DEF DeleteUnregister, Busy
      <4> QED BY <2>1, <2>2, <4>1, Types DEF Lookup, Parts, SlotsAgree
    <3> QED BY <1>13, <3>1, Types DEF DeleteUnregister, Goto, Holding
  <2>3. CASE s \notin Lookup(asked[t])
    BY <1>2, <1>13, <2>3, Types DEF DeleteUnregister, Goto, Holding
  <2> QED BY <2>2, <2>3
<1>14. CASE DeleteStop(t) \/ DestroyFlush(t) \/ DestroyDetach(t)
  BY <1>3, <1>14, Types DEF DeleteStop, DestroyFlush, DestroyDetach, Goto, Holding, slotVars
<1>15. CASE DeleteUndo(t)
  <2>1. ctx[t] \in Slot /\ prog[t] = "unregistered" /\ asked[t] # None
    BY <1>15, Types DEF DeleteUndo, Parts, HoldersAgree, RelyingAgrees, Holding
  <2> QED BY <1>2, <1>15, <2>1, Types DEF DeleteUndo, Goto, Holding
<1>16. CASE \E r \in Slot : CloserUnregister(t, r)
  BY <1>2, <1>16, Types DEF CloserUnregister, Goto, Holding
<1>17. CASE CloserStop(t)
  BY <1>3, <1>17, Types DEF CloserStop, Leave, Goto, Holding, slotVars
<1>18. CASE DestroyPut(t)
  <2>1. ctx[t] \in Slot /\ prog[t] = "detached"
        /\ \A u \in Thread \ {t} : prog'[u] = prog[u] /\ ctx'[u] = ctx[u]
    BY <1>18, Types DEF DestroyPut, Leave, Goto, Parts, HoldersAgree, Holding
  <2>2. s # ctx[t] /\ inUse[s] /\ netDev[s] = None
    BY <1>18, <2>1, Types DEF DestroyPut
  <2> QED BY <1>2, <2>1, <2>2
<1> QED BY <1>1, <1>4, <1>5, <1>6, <1>7, <1>8, <1>9, <1>10, <1>11, <1>12,
          <1>13, <1>14, <1>15, <1>16, <1>17, <1>18 DEF Proceed

\* No dsc_vdev is lost: one on the tree after the step is where it was before,
\* or the thread that moved has put it in its slot or taken it out.
LEMMA HeldStep ==
    ASSUME OsifIInv, OsifNext
    PROVE  AttachedAreHeld'
<1> SUFFICES ASSUME NEW v \in Vdev, v \in attached'
             PROVE  \/ \E s \in Slot : dscVdev'[s] = v
                    \/ \E u \in Thread : prog'[u] = "flushed" /\ ptr'[u] = v
  BY DEF AttachedAreHeld
<1>1. PICK t \in Thread :
        \/ Proceed(t)
        \/ \E r \in Slot : \/ UserTransStart(t, r) \/ UserOpStart(t, r)
                           \/ CreateReserve(t, r) \/ DeleteLookup(t, r)
        \/ \E n \in Node : CloserStart(t, n)
  BY DEF OsifNext
<1>2. v \in attached =>
        \/ \E s \in Slot : dscVdev[s] = v
        \/ \E u \in Thread : prog[u] = "flushed" /\ ptr[u] = v
  BY DEF OsifIInv, AttachedAreHeld
<1>3. ASSUME attached' = attached, dscVdev' = dscVdev, prog[t] # "flushed",
             \A u \in Thread \ {t} : prog'[u] = prog[u] /\ ptr'[u] = ptr[u]
      PROVE  \/ \E s \in Slot : dscVdev'[s] = v
             \/ \E u \in Thread : prog'[u] = "flushed" /\ ptr'[u] = v
  BY <1>2, <1>3
<1>4. ASSUME Leave(t)
      PROVE  \A u \in Thread \ {t} : prog'[u] = prog[u] /\ ptr'[u] = ptr[u]
  BY <1>4, Types DEF Leave, Goto
<1>5. CASE \/ \E r \in Slot : \/ UserTransStart(t, r) \/ UserOpStart(t, r)
                              \/ CreateReserve(t, r) \/ DeleteLookup(t, r)
           \/ \E n \in Node : CloserStart(t, n)
  BY <1>3, <1>5, Types DEF UserTransStart, UserOpStart, UseContext, CreateReserve,
     DeleteLookup, CloserStart, TransStart, TransQueue, OpStart, Goto, slotVars,
     dscVars, vars
<1>6. CASE Inside(t)
  <2>1. attached' = attached
    BY <1>6 DEF Inside, TranWake, WaitForOps, WaitCheck, WaitDone, WaitOver
  <2>2. CASE UNCHANGED osifVars
    BY <1>2, <2>1, <2>2 DEF osifVars, slotVars
  <2>3. CASE tran[t] = "aborted" /\ Leave(t) /\ UNCHANGED slotVars
    <3>1. prog[t] = "deleting"
      BY <2>3, Types DEF Parts, ProgramsAgree
    <3> QED BY <1>3, <1>4, <2>1, <2>3, <3>1 DEF slotVars
  <2> QED BY <1>6, <2>2, <2>3 DEF Inside
<1>7. CASE \/ UserStop(t) \/ CreateTrans(t) \/ (\E d \in Dev : CreateRegister(t, d))
           \/ CreateFail(t) \/ RegisteredStop(t)
  BY <1>3, <1>4, <1>7, Types DEF UserStop, CreateTrans, CreateRegister, CreateFail,
     RegisteredStop, TransStart, TransStop, OpStop, Goto, slotVars, dscVars, vars
<1>8. CASE \/ DeleteRead(t) \/ DeleteStart(t) \/ DeleteUnregister(t)
           \/ DeleteStop(t) \/ DeleteUndo(t)
  BY <1>3, <1>4, <1>8, Types DEF DeleteRead, DeleteStart, DeleteUnregister,
     DeleteStop, DeleteUndo, TransStart, TransQueue, TransStop, Goto, slotVars,
     dscVars, vars
<1>9. CASE (\E s \in Slot : CloserUnregister(t, s)) \/ CloserStop(t)
  BY <1>3, <1>4, <1>9, Types DEF CloserUnregister, CloserStop, TransStop, Goto,
     slotVars, dscVars, vars
<1>10. CASE CreateVdev(t)
  <2>1. prog[t] = "reserved" /\ ctx[t] \in Slot /\ dscVdev[ctx[t]] = None
    BY <1>10, Types DEF CreateVdev, Parts, HoldersAgree, Holding
  <2>2. \A u \in Thread \ {t} : prog'[u] = prog[u] /\ ptr'[u] = ptr[u]
    BY <1>10, Types DEF CreateVdev, Goto
  <2>3. CASE \E w \in Vdev : Create(w) /\ dscVdev' = [dscVdev EXCEPT ![ctx[t]] = w]
    <3>1. PICK w \in Vdev : attached' = attached \cup {w}
                            /\ dscVdev' = [dscVdev EXCEPT ![ctx[t]] = w]
      BY <2>3 DEF Create
    <3>2. CASE v = w
      BY <2>1, <3>1, <3>2, Types
    <3>3. CASE v # w
      BY <1>2, <2>1, <2>2, <3>1, <3>3, Types, Nodes
    <3> QED BY <3>2, <3>3
  <2> QED BY <1>3, <1>10, <2>1, <2>2, <2>3 DEF CreateVdev, dscVars, vars
<1>11. CASE DestroyFlush(t)
  <2>1. prog[t] = "stopped" /\ ctx[t] \in Slot /\ dscVdev[ctx[t]] \in Vdev
    BY <1>11, Types DEF DestroyFlush, Parts, HoldersAgree, Holding
  <2>2. /\ prog' = [prog EXCEPT ![t] = "flushed"] /\ attached' = attached
        /\ ptr' = [ptr EXCEPT ![t] = dscVdev[ctx[t]]]
        /\ dscVdev' = [dscVdev EXCEPT ![ctx[t]] = None]
    BY <1>11 DEF DestroyFlush, Goto
  <2> QED BY <1>2, <2>1, <2>2, Types
<1>12. CASE DestroyDetach(t)
  <2>1. /\ attached' = attached \ {ptr[t]} /\ dscVdev' = dscVdev /\ ptr' = ptr
        /\ prog' = [prog EXCEPT ![t] = "detached"]
    BY <1>12 DEF DestroyDetach, Goto, slotVars
  <2> QED BY <1>2, <2>1, Types
<1>13. CASE DestroyPut(t)
  <2>1. prog[t] = "detached" /\ dscVdev[ctx[t]] = None
    BY <1>13, Types DEF DestroyPut, Parts, HoldersAgree, Holding
  <2>2. dscVdev' = dscVdev /\ attached' = attached
    BY <1>13, <2>1, Types DEF DestroyPut, dscVars, vars
  <2>3. \A u \in Thread \ {t} : prog'[u] = prog[u] /\ ptr'[u] = ptr[u]
    BY <1>4, <1>13, Types DEF DestroyPut, Goto
  <2> QED BY <1>3, <2>1, <2>2, <2>3
<1> QED BY <1>1, <1>5, <1>6, <1>7, <1>8, <1>9, <1>10, <1>11, <1>12, <1>13 DEF Proceed

\* Every step keeps the parts.
LEMMA PartsStep ==
    ASSUME OsifIInv, OsifNext
    PROVE  Parts'
BY InsideKeeps, UseKeeps, ReserveKeeps, CreateVdevKeeps, CreateTransKeeps,
   RegisterKeeps, CreateFailKeeps, RegisteredStopKeeps, LookupKeeps, ReadKeeps,
   DeleteStartKeeps, UnregisterKeeps, DeleteStopKeeps, UndoKeeps,
   CloserStartKeeps, CloserUnregisterKeeps, CloserStopKeeps, FlushKeeps,
   DetachKeeps, PutKeeps DEF OsifNext, Proceed

\* The interfaces opened at first are registered, and nobody is at work.
LEMMA OsifInitInv ==
    ASSUME Apart, OsifInit
    PROVE  OsifIInv
<1>1. PICK f \in [Slot -> Vdev \cup {None}], g \in [Slot -> Dev \cup {None}] :
        /\ OneEach(f, g)
        /\ attached = {Driver} \cup Psoc \cup ({f[s] : s \in Slot} \ {None})
        /\ inUse = [s \in Slot |-> f[s] # None] /\ netDev = g /\ dscVdev = f
  BY DEF OsifInit
<1>2. /\ prog = [t \in Thread |-> "none"] /\ ctx = [t \in Thread |-> None]
      /\ asked = [t \in Thread |-> None] /\ ptr = [t \in Thread |-> None]
      /\ NoActivity
  BY DEF OsifInit
<1>3. {Driver} \cup Psoc \subseteq attached /\ attached \subseteq Node
  BY <1>1, Nodes
<1>4. IInv
  <2>1. TypeOK
    <3>1. 0 \in 0..MaxDone
      BY ThreadAssumption
    <3> QED BY <1>2, <1>3, <3>1 DEF NoActivity, TypeOK, PCs, TranStates
  <2>2. ThreadAgrees /\ QueueAgrees /\ OpsAgree /\ WalkAgrees
    BY <1>2 DEF NoActivity, ThreadAgrees, QueueAgrees, OpsAgree, WalkAgrees
  <2>3. TreeAgrees
    <3>1. \A n \in Node \ {Driver} : Parent(n) \in {Driver} \cup Psoc
      BY TreeAssumption DEF Parent, Node
    <3> QED BY <1>2, <1>3, <3>1 DEF NoActivity, TreeAgrees
  <2>4. OwnerAgrees /\ TreeExclusion /\ Quiescence
    BY <1>2, ThreadAssumption DEF NoActivity, OwnerAgrees, Owns, TreeExclusion, Quiescence
  <2> QED BY <2>1, <2>2, <2>3, <2>4 DEF IInv
<1>5. OsifTypeOK
  BY <1>1, <1>2, <1>4 DEF OsifTypeOK, IInv, Progs
<1>6. SlotsAgree /\ TakenAreHeld
  BY <1>1 DEF SlotsAgree, TakenAreHeld, OneEach
<1>7. AttachedAreHeld
  BY <1>1, Nodes DEF AttachedAreHeld
<1>8. HoldersAgree /\ RelyingAgrees /\ RolesAgree /\ ProgramsAgree
  BY <1>2, <1>3 DEF HoldersAgree, Holding, RelyingAgrees, Sharing, Deleting,
     RolesAgree, ProgramsAgree, NoActivity
<1> QED BY <1>4, <1>5, <1>6, <1>7, <1>8 DEF OsifIInv

\* A step that changes nothing keeps it, and so does every other.
LEMMA OsifNextInv ==
    ASSUME OsifIInv, [OsifNext]_allVars
    PROVE  OsifIInv'
<1>1. CASE OsifNext
  BY <1>1, OsifKeepsDsc, OsifTyped, TakenStep, HeldStep, PartsStep
  DEF OsifIInv, Parts, Apart
<1>2. CASE UNCHANGED allVars
  <2>1. UNCHANGED <<attached, pc, at, tran, inUse, netDev, dscVdev, prog, ctx, asked, ptr>>
        /\ UNCHANGED vars
    BY <1>2 DEF allVars, dscVars, vars, osifVars, slotVars
  <2>2. IInv'
    BY <2>1, StutterInv DEF OsifIInv
  <2>3. OsifTypeOK'
    BY <2>1, <2>2 DEF OsifIInv, OsifTypeOK, IInv
  <2>4. (TakenAreHeld /\ AttachedAreHeld)'
    BY <2>1 DEF OsifIInv, TakenAreHeld, AttachedAreHeld
  <2>5. Parts'
    BY <2>1, PartsStay, Types DEF osifVars, slotVars
  <2> QED BY <2>2, <2>3, <2>4, <2>5 DEF OsifIInv, Apart, Parts
<1> QED BY <1>1, <1>2

\* Whoever adds, uses, deletes and closes interfaces, with one deletion at a
\* time, and none that has both a closer and an addition beside it: slots,
\* programs and DSC agree.
THEOREM OsifInvariance == Apart /\ OsifSpec => []OsifIInv
<1>1. Apart /\ OsifInit => OsifIInv
  BY OsifInitInv
<1>2. OsifIInv /\ [OsifNext]_allVars => OsifIInv'
  BY OsifNextInv
<1> QED BY <1>1, <1>2, PTL DEF OsifSpec

\* No slot of the fixed array is lost: one that is taken has its net_device or
\* a thread that will register it or give it back.
THEOREM NoSlotLost == Apart /\ OsifSpec => []TakenAreHeld
<1>1. OsifIInv => TakenAreHeld
  BY DEF OsifIInv
<1> QED BY <1>1, OsifInvariance, PTL

\* A registered context has a live dsc_vdev.
THEOREM RegisteredStaysLive == Apart /\ OsifSpec => []RegisteredIsLive
<1>1. OsifIInv => RegisteredIsLive
  BY DEF OsifIInv, SlotsAgree, RegisteredIsLive, Registered
<1> QED BY <1>1, OsifInvariance, PTL

\* Threads are on the tree, except for a deletion that waits on a dsc_vdev that
\* a closer has taken away.
LEMMA InTree ==
    ASSUME OsifIInv, NEW t \in Thread, pc[t] # "idle"
    PROVE  \/ at[t] \in attached
           \/ /\ prog[t] = "deleting" /\ pc[t] = "queued" /\ tran[t] # "set"
              /\ Deleter # {} /\ Closer # {}
<1>1. at[t] \in Node /\ {Driver} \cup Psoc \subseteq attached
  BY Types DEF OsifIInv, IInv, ThreadAgrees, ProgramsAgree
<1>2. CASE at[t] \in Vdev /\ Busy(t)
  BY <1>2, AtVdev, Nodes DEF OsifIInv, SlotsAgree
<1>3. CASE at[t] \in Vdev /\ ~Busy(t)
  <2>1. prog[t] \in {"deleting", "closer"}
    BY <1>3, Types DEF Parts, ProgramsAgree, Progs, Busy
  <2>2. prog[t] = "deleting"
    BY <1>3, <2>1, Types, Nodes DEF Parts, RolesAgree
  <2>3. /\ t \in Deleter /\ ctx[t] \in Slot /\ Matches(ctx[t], at[t])
        /\ ~Registered(ctx[t]) => Closer # {}
    BY <2>2, Types DEF Parts, RelyingAgrees, Deleting
  <2>4. Registered(ctx[t]) => at[t] \in attached
    BY <1>3, <2>3, Types, Nodes DEF Parts, SlotsAgree, Matches
  <2> QED BY <1>3, <2>2, <2>3, <2>4 DEF Busy
<1> QED BY <1>1, <1>2, <1>3 DEF Node

\* So where deletions and closers meet, the one thing that may be on a dsc_vdev
\* that has been freed is a deletion in its queue, and no stop ever lets it in.
OnlyAsleepOnFreed ==
    \A t \in Thread :
        pc[t] # "idle" /\ at[t] \notin attached =>
            prog[t] = "deleting" /\ pc[t] = "queued" /\ tran[t] # "set"

\* Nobody operates on or owns a dsc_vdev that was freed: DSC lets no call in there, not even
\* where a closer takes an interface away from under the deletion that waits for it.
THEOREM FreedKeepsOnlySleepers == Apart /\ OsifSpec => []OnlyAsleepOnFreed
<1>1. OsifIInv => OnlyAsleepOnFreed
  BY InTree DEF OnlyAsleepOnFreed
<1> QED BY <1>1, OsifInvariance, PTL

\* Nobody is inside a dsc_vdev that has been freed, unless a deletion comes
\* beside a closer.
THEOREM NoUseOfFreedVdev == Apart /\ Undisturbed /\ OsifSpec => []NobodyOnFreedVdev
<1>1. OsifIInv /\ Undisturbed => NobodyOnFreedVdev
  BY InTree DEF NobodyOnFreedVdev, Undisturbed
<1>2. Undisturbed => Undisturbed'
  OBVIOUS
<1> QED BY <1>1, <1>2, OsifInvariance, PTL

\* Nor does anybody call into one: what a deletion has read is still there when
\* it calls.
THEOREM NobodyGetsLost == Apart /\ Undisturbed /\ OsifSpec => []NobodyLost
<1>1. OsifIInv /\ Undisturbed => NobodyLost
  BY DEF OsifIInv, ProgramsAgree, Undisturbed, NobodyLost
<1>2. Undisturbed => Undisturbed'
  OBVIOUS
<1> QED BY <1>1, <1>2, OsifInvariance, PTL

\* A context is destroyed with no operation left on it.
THEOREM DestroyedInPeace == Apart /\ OsifSpec => []DestroyedIsIdle
<1>1. OsifIInv => DestroyedIsIdle
  BY FlushedVacant, VacantIdle, Nodes DEF OsifIInv, DestroyedIsIdle
<1> QED BY <1>1, OsifInvariance, PTL

\* Stops reach what was started.
THEOREM StopsReachOwn == Apart /\ OsifSpec => []OwnContext
<1>1. OsifIInv => OwnContext
  BY LetInRegistered DEF OsifIInv, ProgramsAgree, OwnContext, Busy
<1> QED BY <1>1, OsifInvariance, PTL

\* A deletion whose start succeeds has the context registered with its
\* net_device, however long it waited.
THEOREM WaitFindsRegistered == Apart /\ OsifSpec => []WaitReturnsRegistered
<1>1. ASSUME OsifIInv PROVE WaitReturnsRegistered
  BY <1>1, LetInRegistered DEF OsifIInv, ProgramsAgree, Registered, Lookup, Busy,
     WaitReturnsRegistered
<1> QED BY <1>1, OsifInvariance, PTL

-----------------------------------------------------------------------------
(* What DSC promises holds among the programs of the sync layer.           *)

\* Their steps are steps of DSC or retire a dsc_vdev.
LEMMA StepsOfDsc ==
    ASSUME OsifIInv, [OsifNext]_allVars
    PROVE  [Next \/ Retires]_vars
<1>1. CASE OsifNext
  BY <1>1, OsifUsesDsc, FlushRetires, DetachRetires DEF OsifNext, Retires
<1>2. CASE UNCHANGED allVars
  BY <1>2 DEF allVars, dscVars
<1> QED BY <1>1, <1>2

\* So DSC keeps its invariant, and takes no other steps.
THEOREM ProgramsKeepDsc == Apart /\ OsifSpec => []IInv /\ [][Next \/ Retires]_vars
<1>1. OsifIInv /\ [OsifNext]_allVars => [Next \/ Retires]_vars
  BY StepsOfDsc
<1>2. OsifIInv => IInv
  BY DEF OsifIInv
<1> QED BY <1>1, <1>2, OsifInvariance, PTL DEF OsifSpec

\* An owner is alone on its branch and a quiet owner's scope is free of
\* operations, while contexts are added, deleted and closed.
THEOREM OsifKeepsPromise == Apart /\ OsifSpec => Promise
<1>1. OsifInit => Abs!Init
  BY DEF OsifInit, NoActivity, Abs!Init, ModeOf
<1> QED BY <1>1, ProgramsKeepDsc, StepsKeepPromise, PTL DEF OsifSpec

\* None is granted past another that came first.
THEOREM OsifGrantsInOrder == Apart /\ OsifSpec => GrantOrder
BY ProgramsKeepDsc, StepsGrantInOrder, PTL

\* No end of a transition overlooks a program that waits in the tree ...
THEOREM OsifCoversTree == Apart /\ OsifSpec => []CoveredInTree
<1>1. OsifInit => CoveredInTree
  <2>1. OsifInit => NoActivity /\ attached \subseteq Node
    BY Nodes DEF OsifInit
  <2> QED BY <2>1, NobodyWaits
<1> QED BY <1>1, ProgramsKeepDsc, StepsStrandNobody, PTL DEF OsifSpec

\* ... and where no deletion comes beside a closer nobody waits elsewhere.
THEOREM OsifStrandsNobody == Apart /\ Undisturbed /\ OsifSpec => []NoStrandedWaiter
<1>1. ASSUME OsifIInv, Undisturbed PROVE NobodyLeftBehind
  <2> SUFFICES ASSUME NEW n \in Node, Queued(n) PROVE n \in attached
    BY DEF NobodyLeftBehind
  <2>1. queue[n] \in Seq(Thread) /\ 1 \in 1..Len(queue[n])
    BY <1>1 DEF Queued, OsifIInv, IInv, TypeOK
  <2>2. /\ queue[n][1] \in Thread /\ pc[queue[n][1]] = "queued"
        /\ at[queue[n][1]] = n
    BY <1>1, <2>1 DEF OsifIInv, IInv, QueueAgrees
  <2> QED BY <1>1, <2>2, InTree DEF Undisturbed
<1>2. CoveredInTree /\ NobodyLeftBehind => NoStrandedWaiter
  BY StrandedIsLeft
<1>3. Undisturbed => Undisturbed'
  OBVIOUS
<1> QED BY <1>1, <1>2, <1>3, OsifInvariance, OsifCoversTree, PTL

\* Who sleeps on a dsc_vdev from above sleeps on that of a registered context.
SleptOnRegistered ==
    \A u \in Thread : cur[u] \in Vdev /\ at[u] # cur[u] =>
        \E s \in Slot : Registered(s) /\ dscVdev[s] = cur[u]

\* A sleeper stays where it is.
LEMMA SleepersStay ==
    ASSUME IInv, [Next \/ Retires]_vars, NEW u \in Thread, cur[u] # None
    PROVE  at'[u] = at[u]
<1>1. pc[u] = "wait" /\ at \in [Thread -> Node \cup {None}]
  BY DEF IInv, ThreadAgrees, TypeOK
<1>2. CASE UNCHANGED vars \/ Retires
  BY <1>2 DEF vars, Retires, Flushes, Unlists
<1>3. CASE \E n \in Node : Create(n)
  BY <1>3 DEF Create
<1>4. ASSUME NEW t \in Thread, NEW n \in Node,
             TransStart(t, n) \/ TransQueue(t, n) \/ OpStart(t, n) \/ Destroy(t, n)
      PROVE  at'[u] = at[u]
  BY <1>1, <1>4 DEF TransStart, TransQueue, OpStart, Destroy
<1>5. ASSUME NEW t \in Thread, NEW n \in Node,
             WaitForOps(t) \/ WaitCheck(t, n) \/ WaitDone(t) \/ WaitOver(t)
      PROVE  at'[u] = at[u]
  BY <1>5 DEF WaitForOps, WaitCheck, WaitDone, WaitOver
<1>6. ASSUME NEW t \in Thread, TranWake(t) \/ TransStop(t) \/ OpStop(t)
      PROVE  at'[u] = at[u]
  BY <1>1, <1>6 DEF TranWake, TransStop, OpStop
<1>7. Driver \in Node
  BY DEF Node
<1> QED BY <1>2, <1>3, <1>4, <1>5, <1>6, <1>7 DEF Next, Progress

\* A sleeper slept before on the same node, or has found operations on it now.
LEMMA SleepersCome ==
    ASSUME OsifIInv, OsifNext, [Next \/ Retires]_vars,
           NEW u \in Thread, cur'[u] # None
    PROVE  /\ at'[u] = at[u]
           /\ \/ cur'[u] = cur[u]
              \/ cur'[u] \in Node /\ ops[cur'[u]] # {} /\ UNCHANGED slotVars
<1>1. PICK t \in Thread :
        \/ Proceed(t)
        \/ \E s \in Slot : \/ UserTransStart(t, s) \/ UserOpStart(t, s)
                           \/ CreateReserve(t, s) \/ DeleteLookup(t, s)
        \/ \E n \in Node : CloserStart(t, n)
  BY DEF OsifNext
<1>2. SUFFICES ASSUME cur'[u] # cur[u]
               PROVE  /\ at'[u] = at[u] /\ UNCHANGED slotVars
                      /\ cur'[u] \in Node /\ ops[cur'[u]] # {}
  BY SleepersStay DEF OsifIInv
<1>3. CASE Inside(t)
  <2>1. UNCHANGED slotVars
    BY <1>3, Types DEF Inside, osifVars
  <2>2. cur \in [Thread -> Node \cup {None}]
    BY DEF OsifIInv, IInv, TypeOK
  <2>3. PICK m \in Node : WaitCheck(t, m)
    BY <1>2, <1>3, <2>2 DEF Inside, TranWake, WaitForOps, WaitDone, WaitOver, waitVars
  <2> QED BY <1>2, <2>1, <2>2, <2>3 DEF WaitCheck
<1>4. CASE \/ UserStop(t) \/ CreateVdev(t) \/ CreateTrans(t)
           \/ (\E d \in Dev : CreateRegister(t, d)) \/ CreateFail(t) \/ RegisteredStop(t)
  BY <1>2, <1>4 DEF UserStop, CreateVdev, CreateTrans, CreateRegister, CreateFail,
     RegisteredStop, TransStart, TransStop, OpStop, Create, dscVars, vars, waitVars
<1>5. CASE \/ DeleteRead(t) \/ DeleteStart(t) \/ DeleteUnregister(t)
           \/ DeleteStop(t) \/ DeleteUndo(t)
           \/ (\E s \in Slot : CloserUnregister(t, s)) \/ CloserStop(t)
  BY <1>2, <1>5 DEF DeleteRead, DeleteStart, DeleteUnregister, DeleteStop, DeleteUndo,
     CloserUnregister, CloserStop, TransStart, TransQueue, TransStop, dscVars,
     vars, waitVars
<1>6. CASE DestroyFlush(t) \/ DestroyDetach(t) \/ DestroyPut(t)
  BY <1>2, <1>6 DEF DestroyFlush, DestroyDetach, DestroyPut, dscVars, vars, waitVars
<1>7. CASE \/ \E s \in Slot : \/ UserTransStart(t, s) \/ UserOpStart(t, s)
                              \/ CreateReserve(t, s) \/ DeleteLookup(t, s)
           \/ \E n \in Node : CloserStart(t, n)
  BY <1>2, <1>7 DEF UserTransStart, UserOpStart, CreateReserve, DeleteLookup,
     CloserStart, TransStart, TransQueue, OpStart, dscVars, vars, waitVars
<1> QED BY <1>1, <1>3, <1>4, <1>5, <1>6, <1>7 DEF Proceed

\* Who unregisters a context is in its transition: nobody sleeps on its
\* dsc_vdev from above.
LEMMA UnregisterUnslept ==
    ASSUME OsifIInv, SleepersAgree, NEW u \in Thread, cur[u] \in Vdev, at[u] # cur[u],
           NEW t \in Thread, pc[t] = "quiet",
           cur[u] = at[t] \/ cur[u] \in DownTree(at[t])
    PROVE  FALSE
<1>1. pc[u] = "wait" /\ at[u] \in Node /\ active[at[u]] = u
  BY SleeperOwns, Nodes DEF OsifIInv
<1>2. at[t] \in Node /\ active[at[t]] = t
  BY DEF OsifIInv, IInv, ThreadAgrees, OwnerAgrees, Owns
<1>3. at[u] \in Ancestors(cur[u])
  BY <1>1, Nodes, TreeAssumption DEF SleepersAgree, WaitSet, Ancestors, Node
<1>4. at[t] \in {cur[u]} \cup Ancestors(cur[u])
  BY DEF DownTree
<1>5. Related(at[t], at[u])
  BY <1>3, <1>4, TreeAssumption DEF Related, Ancestors, Node
<1> QED BY <1>1, <1>2, <1>5, ThreadAssumption DEF OsifIInv, IInv, TreeExclusion

\* A registered context keeps its dsc_vdev until it is unregistered.
LEMMA RegisteredKeep ==
    ASSUME OsifIInv, SleepersAgree, OsifNext, NEW s \in Slot, Registered(s),
           NEW u \in Thread, cur[u] = dscVdev[s], at[u] # cur[u]
    PROVE  Registered(s)' /\ dscVdev'[s] = dscVdev[s]
<1>0. dscVdev[s] \in Vdev
  BY Types, Nodes DEF Parts, SlotsAgree, Registered
<1>1. PICK t \in Thread :
        \/ Proceed(t)
        \/ \E r \in Slot : \/ UserTransStart(t, r) \/ UserOpStart(t, r)
                           \/ CreateReserve(t, r) \/ DeleteLookup(t, r)
        \/ \E n \in Node : CloserStart(t, n)
  BY DEF OsifNext
<1>2. CASE UNCHANGED slotVars
  BY <1>2 DEF slotVars, Registered
<1>3. CASE \E r \in Slot : CreateReserve(t, r)
  BY <1>3, Types DEF CreateReserve, Registered
<1>4. CASE \/ CreateVdev(t) \/ (\E d \in Dev : CreateRegister(t, d)) \/ DeleteUndo(t)
           \/ DestroyFlush(t) \/ DestroyPut(t)
  <2>1. ctx[t] \in Slot /\ netDev[ctx[t]] = None /\ prog[t] \in Holding
    BY <1>4, Types DEF CreateVdev, CreateRegister, DeleteUndo, DestroyFlush, DestroyPut,
       Parts, HoldersAgree, Holding
  <2>2. s # ctx[t]
    BY <2>1 DEF Registered
  <2> QED BY <1>4, <2>1, <2>2, Types
          DEF CreateVdev, CreateRegister, DeleteUndo, DestroyFlush, DestroyPut, Registered
<1>5. CASE DeleteUnregister(t)
  <2>1. /\ ctx[t] \in Slot /\ netDev[ctx[t]] = asked[t] /\ Registered(ctx[t])
        /\ at[t] = dscVdev[ctx[t]] /\ pc[t] = "quiet"
    BY <1>5, LetInRegistered DEF DeleteUnregister, Busy
  <2>2. s # ctx[t]
    BY <1>0, <2>1, UnregisterUnslept
  <2>3. s \notin Lookup(asked[t])
    BY <2>1, <2>2, Types DEF Parts, SlotsAgree, Lookup, Registered
  <2> QED BY <1>5, <2>3, Types DEF DeleteUnregister, Registered
<1>6. CASE \E r \in Slot : CloserUnregister(t, r)
  <2>1. PICK r \in Slot : CloserUnregister(t, r)
    BY <1>6
  <2>2. r # s
    BY <1>0, <2>1, UnregisterUnslept DEF CloserUnregister, ToClose
  <2> QED BY <2>1, <2>2, Types DEF CloserUnregister, Registered
<1>7. CASE Inside(t)
  BY <1>2, <1>7 DEF Inside, osifVars
<1>8. CASE \/ UserStop(t) \/ CreateTrans(t) \/ CreateFail(t) \/ RegisteredStop(t)
           \/ DeleteRead(t) \/ DeleteStart(t) \/ DeleteStop(t) \/ CloserStop(t)
           \/ DestroyDetach(t)
  BY <1>2, <1>8 DEF UserStop, CreateTrans, CreateFail, RegisteredStop, DeleteRead,
     DeleteStart, DeleteStop, CloserStop, DestroyDetach
<1>9. CASE \/ \E r \in Slot : UserTransStart(t, r) \/ UserOpStart(t, r) \/ DeleteLookup(t, r)
           \/ \E n \in Node : CloserStart(t, n)
  BY <1>2, <1>9 DEF UserTransStart, UserOpStart, UseContext, DeleteLookup, CloserStart
<1> QED BY <1>1, <1>3, <1>4, <1>5, <1>6, <1>7, <1>8, <1>9 DEF Proceed

\* So sleepers stay on registered contexts.
LEMMA SleptOnStep ==
    ASSUME OsifIInv, SleepersAgree, SleptOnRegistered, OsifNext, [Next \/ Retires]_vars
    PROVE  SleptOnRegistered'
<1> SUFFICES ASSUME NEW u \in Thread, cur'[u] \in Vdev, at'[u] # cur'[u]
             PROVE  \E s \in Slot : Registered(s)' /\ dscVdev'[s] = cur'[u]
  BY DEF SleptOnRegistered
<1>1. /\ at'[u] = at[u]
      /\ \/ cur'[u] = cur[u]
         \/ cur'[u] \in Node /\ ops[cur'[u]] # {} /\ UNCHANGED slotVars
  BY SleepersCome, Nodes
<1>2. CASE cur'[u] = cur[u]
  <2>1. PICK s \in Slot : Registered(s) /\ dscVdev[s] = cur[u]
    BY <1>1, <1>2 DEF SleptOnRegistered
  <2> QED BY <1>1, <1>2, <2>1, RegisteredKeep
<1>3. CASE ops[cur'[u]] # {} /\ UNCHANGED slotVars
  <2>1. PICK w \in Thread : pc[w] = "op" /\ at[w] = cur'[u]
    BY <1>3, Nodes DEF OsifIInv, IInv, TypeOK, OpsAgree
  <2>2. /\ prog[w] \in {"using", "creating", "registered", "deleting", "unregistered"}
        /\ at[w] = dscVdev[ctx[w]] /\ ctx[w] \in Slot
    BY <2>1, AtVdev DEF Busy
  <2>3. Registered(ctx[w])
    BY <2>1, <2>2, LetInRegistered
    DEF OsifIInv, ProgramsAgree, RelyingAgrees, Sharing, Busy
  <2> QED BY <1>3, <2>1, <2>2, <2>3 DEF Registered, slotVars
<1> QED BY <1>1, <1>2, <1>3

\* Nobody sleeps on the dsc_vdev that is detached.
LEMMA DetachUnslept ==
    ASSUME OsifIInv, SleepersAgree, SleptOnRegistered, NEW t \in Thread, DestroyDetach(t)
    PROVE  SleepersAgree' /\ (NoLostWakeup => NoLostWakeup')
<1>1. /\ prog[t] = "flushed" /\ ptr[t] \in Vdev /\ Vacant(ptr[t])
      /\ \A s \in Slot : dscVdev[s] # ptr[t]
  BY FlushedVacant DEF DestroyDetach, OsifIInv, HoldersAgree
<1>2. \A u \in Thread : cur[u] # ptr[t]
  BY <1>1, SleeperOwns, Nodes DEF SleptOnRegistered, Vacant, Busy, OsifIInv
<1>3. /\ UNCHANGED <<active, queue, ops, event, pc, at, todo, cur>>
      /\ attached' = attached \ {ptr[t]}
  BY DEF DestroyDetach, nodeVars, waitVars
<1> QED BY <1>2, <1>3 DEF SleepersAgree, NoLostWakeup

\* A wait for operations, in the programs that delete and close interfaces too,
\* has its wake-up coming: no reset erases it and nobody else takes it.
THEOREM OsifLosesNoWakeup == Apart /\ WaitersOnBranch /\ OsifSpec => []NoLostWakeup
<1> DEFINE J == SleepersAgree /\ SleptOnRegistered /\ NoLostWakeup
<1>1. WaitersOnBranch /\ OsifInit => J
  BY NobodySleeps DEF OsifInit, NoActivity, SleptOnRegistered
<1>2. ASSUME WaitersOnBranch, OsifIInv, J, [OsifNext]_allVars PROVE J'
  <2>1. CASE UNCHANGED allVars
    BY <1>2, <2>1 DEF allVars, dscVars, vars, osifVars, slotVars, SleepersAgree,
       SleptOnRegistered, Registered, NoLostWakeup
  <2>2. CASE OsifNext
    <3>1. PICK t \in Thread : [Next]_vars \/ DestroyFlush(t) \/ DestroyDetach(t)
      BY <1>2, <2>2, OsifUsesDsc DEF OsifNext
    <3>2. SleptOnRegistered'
      BY <1>2, <2>2, StepsOfDsc, SleptOnStep
    <3>3. CASE DestroyFlush(t)
      <4>1. UNCHANGED <<attached, ops, event, pc, at, todo, cur>>
        BY <3>3 DEF DestroyFlush, waitVars
      <4>2. (SleepersAgree /\ NoLostWakeup)'
        BY <1>2, <4>1 DEF SleepersAgree, NoLostWakeup
      <4> QED BY <3>2, <4>2
    <3>4. CASE [Next]_vars
      <4>1. (SleepersAgree /\ NoLostWakeup)'
        BY <1>2, <3>4, SleepersStep, WakeupStep DEF OsifIInv
      <4> QED BY <3>2, <4>1
    <3>5. CASE DestroyDetach(t)
      <4>1. (SleepersAgree /\ NoLostWakeup)'
        BY <1>2, <3>5, DetachUnslept
      <4> QED BY <3>2, <4>1
    <3> QED BY <3>1, <3>3, <3>4, <3>5
  <2> QED BY <1>2, <2>1, <2>2
<1>3. WaitersOnBranch => WaitersOnBranch'
  OBVIOUS
<1>4. J => NoLostWakeup
  OBVIOUS
<1> HIDE DEF J
<1> QED BY <1>1, <1>2, <1>3, <1>4, OsifInvariance, PTL DEF OsifSpec
=============================================================================
