---------------------------- MODULE OsifVdevSync ----------------------------
(***************************************************************************)
(* The vdev contexts of the OS interface sync layer                        *)
(* (qcacld-3.0/os_if/sync) on top of DSC, with the programs that use them. *)
(*                                                                         *)
(* A fixed array of slots ties a net_device to a dsc_vdev.  Adding an      *)
(* interface takes a slot, attaches a dsc_vdev, starts a transition on it  *)
(* and registers the net_device; deleting it starts a transition (waiting  *)
(* if need be), unregisters, stops the transition and only then destroys   *)
(* the dsc_vdev and frees the slot.  Removing a psoc, or changing the mode *)
(* of the driver, closes every interface under a transition of its own.    *)
(*                                                                         *)
(* Lookups run under the sync lock.  trans_start and op_start keep it over *)
(* the call into DSC; trans_start_wait gives it up first, because the call *)
(* may sleep.                                                              *)
(***************************************************************************)
EXTENDS Dsc

CONSTANTS
    Slot,       \* indices of __osif_vdev_sync_arr
    Dev,        \* net_devices
    User,       \* threads that run operations and transitions on interfaces
    Creator,    \* threads that add interfaces
    Deleter,    \* threads that delete interfaces
    Closer      \* threads that close all interfaces

ASSUME RoleAssumption ==
    /\ User \cup Creator \cup Deleter \cup Closer \subseteq Thread
    /\ Slot \subseteq Nat
    /\ None \notin Slot \cup Dev

VARIABLES
    inUse,      \* vdev_sync->in_use of each slot
    netDev,     \* vdev_sync->net_dev of each slot
    dscVdev,    \* vdev_sync->dsc_vdev of each slot
    prog,       \* how far each thread is in its program
    ctx,        \* the slot the thread works with (out_vdev_sync)
    asked,      \* the net_device a deleter was asked to delete
    ptr         \* the dsc_vdev a thread has read and not yet called or freed

dscVars == vars
slotVars == <<inUse, netDev, dscVdev>>
osifVars == <<slotVars, prog, ctx, asked, ptr>>
allVars == <<dscVars, osifVars>>

Progs == {"none", "using", "reserved", "created", "creating", "registered",
          "found", "read", "lost", "deleting", "unregistered", "stopped",
          "closer", "flushed", "detached"}

Goto(t, l) == prog' = [prog EXCEPT ![t] = l]

\* osif_vdev_sync_lookup
Lookup(d) == {s \in Slot : inUse[s] /\ netDev[s] = d}

Registered(s) == inUse[s] /\ netDev[s] # None

\* Mutant: a slot counts as free while no net_device is registered with it.
FirstUnnamed(s) == netDev[s] = None /\ \A r \in Slot : r < s => netDev[r] # None

\* osif_vdev_sync_get takes the first slot that is free.
FirstFree(s) == ~inUse[s] /\ \A r \in Slot : r < s => inUse[r]

\* A slot is given to each interface that f and g name, and to no other.
OneEach(f, g) ==
    /\ \A s \in Slot : f[s] = None <=> g[s] = None
    /\ \A r, s \in Slot :
          r # s /\ f[s] # None => f[r] # f[s] /\ g[r] # g[s]

\* The psocs are probed, and hdd_open_adapter_no_trans has opened some
\* interfaces on the way.
OsifInit ==
    \E f \in [Slot -> Vdev \cup {None}], g \in [Slot -> Dev \cup {None}] :
        /\ OneEach(f, g)
        /\ attached = {Driver} \cup Psoc \cup ({f[s] : s \in Slot} \ {None})
        /\ NoActivity
        /\ inUse = [s \in Slot |-> f[s] # None]
        /\ netDev = g
        /\ dscVdev = f
        /\ prog = [t \in Thread |-> "none"]
        /\ ctx = [t \in Thread |-> None]
        /\ asked = [t \in Thread |-> None]
        /\ ptr = [t \in Thread |-> None]

-----------------------------------------------------------------------------
(* Using an interface.                                                     *)

\* Mutant: the context need not be registered any more.
UseAnyContext(t, s) ==
    /\ t \in User /\ prog[t] = "none" /\ inUse[s]
    /\ Goto(t, "using")
    /\ ctx' = [ctx EXCEPT ![t] = s]
    /\ UNCHANGED <<slotVars, asked, ptr>>

UseContext(t, s) ==
    /\ t \in User /\ prog[t] = "none" /\ Registered(s)
    /\ Goto(t, "using")
    /\ ctx' = [ctx EXCEPT ![t] = s]
    /\ UNCHANGED <<slotVars, asked, ptr>>

\* osif_vdev_sync_trans_start: look up and start under the sync lock; the
\* waits that follow are the thread's own steps below.
UserTransStart(t, s) == UseContext(t, s) /\ TransStart(t, dscVdev[s])

\* osif_vdev_sync_op_start
UserOpStart(t, s) == UseContext(t, s) /\ OpStart(t, dscVdev[s])

\* osif_vdev_sync_trans_stop and osif_vdev_sync_op_stop go by the context.
UserStop(t) ==
    /\ prog[t] = "using" /\ dscVdev[ctx[t]] = at[t]
    /\ (pc[t] = "quiet" /\ TransStop(t)) \/ OpStop(t)
    /\ Goto(t, "none")
    /\ ctx' = [ctx EXCEPT ![t] = None]
    /\ UNCHANGED <<slotVars, asked, ptr>>

-----------------------------------------------------------------------------
(* Adding an interface: _wlan_hdd_add_virtual_intf.                        *)

\* osif_vdev_sync_create, first half: osif_vdev_sync_get.
CreateReserve(t, s) ==
    /\ t \in Creator /\ prog[t] = "none" /\ FirstFree(s)
    /\ inUse' = [inUse EXCEPT ![s] = TRUE]
    /\ Goto(t, "reserved")
    /\ ctx' = [ctx EXCEPT ![t] = s]
    /\ UNCHANGED <<dscVars, netDev, dscVdev, asked, ptr>>

\* Second half: a dsc_vdev attached to the psoc, or the slot is put back
\* (sync_put: no memory, or no psoc registered).
CreateVdev(t) ==
    /\ prog[t] = "reserved"
    /\ \/ /\ \E v \in Vdev :
                /\ Create(v)
                /\ dscVdev' = [dscVdev EXCEPT ![ctx[t]] = v]
          /\ Goto(t, "created")
       \/ /\ Goto(t, "detached")
          /\ UNCHANGED <<dscVars, dscVdev>>
    /\ UNCHANGED <<inUse, netDev, ctx, asked, ptr>>

\* ..._create_and_trans: start a transition, or destroy what was created.
CreateTrans(t) ==
    /\ prog[t] = "created"
    /\ \/ TransStart(t, dscVdev[ctx[t]]) /\ Goto(t, "creating")
       \/ /\ CanTrans(dscVdev[ctx[t]]) # {"SUCCESS"}
          /\ Goto(t, "stopped")
          /\ UNCHANGED dscVars
    /\ UNCHANGED <<slotVars, ctx, asked, ptr>>

\* osif_vdev_sync_register of the new net_device: no other interface has it,
\* not even one whose deletion is on its way.
CreateRegister(t, d) ==
    /\ prog[t] = "creating" /\ d \in Dev
    /\ Lookup(d) = {} /\ \A u \in Thread : asked[u] # d
    /\ netDev' = [netDev EXCEPT ![ctx[t]] = d]
    /\ Goto(t, "registered")
    /\ UNCHANGED <<dscVars, inUse, dscVdev, ctx, asked, ptr>>

\* Mutant: adding the interface may still fail once it is registered.
CreateFailLate(t) ==
    /\ prog[t] \in {"creating", "registered"} /\ asked[t] = None
    /\ TransStop(t)
    /\ Goto(t, "stopped")
    /\ UNCHANGED <<slotVars, ctx, asked, ptr>>

\* Adding the interface failed: stop the transition and destroy the context.
CreateFail(t) ==
    /\ prog[t] = "creating" /\ dscVdev[ctx[t]] = at[t]
    /\ TransStop(t)
    /\ Goto(t, "stopped")
    /\ UNCHANGED <<slotVars, ctx, asked, ptr>>

\* The program is over; it keeps no context.
Leave(t) ==
    /\ Goto(t, "none")
    /\ ctx' = [ctx EXCEPT ![t] = None]
    /\ asked' = [asked EXCEPT ![t] = None]
    /\ ptr' = [ptr EXCEPT ![t] = None]

\* The trans_stop that ends a creation, or a deletion that was undone.
RegisteredStop(t) ==
    /\ prog[t] = "registered" /\ dscVdev[ctx[t]] = at[t]
    /\ TransStop(t)
    /\ Leave(t)
    /\ UNCHANGED slotVars

-----------------------------------------------------------------------------
(* Deleting an interface: wlan_hdd_del_virtual_intf, hdd_lpc_work_handler, *)
(* hdd_close_pre_cac_adapter, os_if_nan_process_ndi_delete.                *)

\* __osif_vdev_sync_start_wait_callback looks up under the sync lock, ...
DeleteLookup(t, s) ==
    /\ t \in Deleter /\ prog[t] = "none" /\ Registered(s)
    /\ Goto(t, "found")
    /\ ctx' = [ctx EXCEPT ![t] = s]
    /\ asked' = [asked EXCEPT ![t] = netDev[s]]
    /\ UNCHANGED <<dscVars, slotVars, ptr>>

\* ... reads the slot's dsc_vdev without it (NULL fails an assertion), ...
DeleteRead(t) ==
    /\ prog[t] = "found"
    /\ IF dscVdev[ctx[t]] = None
       THEN Leave(t)
       ELSE /\ ptr' = [ptr EXCEPT ![t] = dscVdev[ctx[t]]]
            /\ Goto(t, "read")
            /\ UNCHANGED <<ctx, asked>>
    /\ UNCHANGED <<dscVars, slotVars>>

\* ... and calls dsc_vdev_trans_start_wait on it.  What a call on a dsc_vdev
\* freed meanwhile would do is not modelled: the thread is lost.
DeleteStart(t) ==
    /\ prog[t] = "read"
    /\ \/ /\ TransStart(t, ptr[t]) \/ TransQueue(t, ptr[t])
          /\ Goto(t, "deleting")
          /\ ptr' = [ptr EXCEPT ![t] = None]
          /\ UNCHANGED <<ctx, asked>>
       \/ /\ ptr[t] \in attached /\ "E_INVAL" \in CanTrans(ptr[t])
          /\ Leave(t)
          /\ UNCHANGED dscVars
       \/ /\ ptr[t] \notin attached
          /\ Goto(t, "lost")
          /\ UNCHANGED <<dscVars, ctx, asked, ptr>>
    /\ UNCHANGED slotVars

\* Mutant: the interface is deleted while it is still registered.
DeleteKeepRegistered(t) ==
    /\ prog[t] = "deleting" /\ pc[t] = "quiet"
    /\ Goto(t, "unregistered")
    /\ UNCHANGED <<dscVars, slotVars, ctx, asked, ptr>>

\* osif_vdev_sync_unregister, by net_device.
DeleteUnregister(t) ==
    /\ prog[t] = "deleting" /\ pc[t] = "quiet"
    /\ netDev' = [s \in Slot |-> IF s \in Lookup(asked[t]) THEN None
                                 ELSE netDev[s]]
    /\ Goto(t, "unregistered")
    /\ UNCHANGED <<dscVars, inUse, dscVdev, ctx, asked, ptr>>

\* osif_vdev_sync_wait_for_ops has returned; the interface is gone.
DeleteStop(t) ==
    /\ prog[t] = "unregistered" /\ dscVdev[ctx[t]] = at[t] /\ ops[at[t]] = {}
    /\ TransStop(t)
    /\ Goto(t, "stopped")
    /\ UNCHANGED <<slotVars, ctx, asked, ptr>>

\* os_if_nan_process_ndi_delete failed: register again.
DeleteUndo(t) ==
    /\ prog[t] = "unregistered" /\ ops[at[t]] = {}
    /\ netDev' = [netDev EXCEPT ![ctx[t]] = asked[t]]
    /\ Goto(t, "registered")
    /\ UNCHANGED <<dscVars, inUse, dscVdev, ctx, asked, ptr>>

-----------------------------------------------------------------------------
(* Closing every interface: hdd_close_all_adapters, under the transition   *)
(* of the psoc that is removed or of the driver that changes its mode.     *)

CloserStart(t, n) ==
    /\ t \in Closer /\ prog[t] = "none" /\ n \in {Driver} \cup Psoc
    /\ TransStart(t, n) \/ TransQueue(t, n)
    /\ Goto(t, "closer")
    /\ UNCHANGED <<slotVars, ctx, asked, ptr>>

ToClose(t, s) == Registered(s) /\ dscVdev[s] \in DownTree(at[t])

\* Mutants: the adapter stays registered; its operations are not waited for.
CloserKeepRegistered(t, s) ==
    /\ prog[t] = "closer" /\ pc[t] = "quiet" /\ ToClose(t, s)
    /\ Goto(t, "stopped")
    /\ ctx' = [ctx EXCEPT ![t] = s]
    /\ UNCHANGED <<dscVars, slotVars, asked, ptr>>

CloserInHaste(t, s) ==
    /\ prog[t] = "closer" /\ pc[t] = "trans" /\ ToClose(t, s)
    /\ netDev' = [netDev EXCEPT ![s] = None]
    /\ Goto(t, "stopped")
    /\ ctx' = [ctx EXCEPT ![t] = s]
    /\ UNCHANGED <<dscVars, inUse, dscVdev, asked, ptr>>

\* osif_vdev_sync_unregister of the next adapter, and wait_for_ops on it.
CloserUnregister(t, s) ==
    /\ prog[t] = "closer" /\ pc[t] = "quiet"
    /\ ToClose(t, s) /\ ops[dscVdev[s]] = {}
    /\ netDev' = [netDev EXCEPT ![s] = None]
    /\ Goto(t, "stopped")
    /\ ctx' = [ctx EXCEPT ![t] = s]
    /\ UNCHANGED <<dscVars, inUse, dscVdev, asked, ptr>>

CloserStop(t) ==
    /\ prog[t] = "closer" /\ pc[t] = "quiet"
    /\ ~\E s \in Slot : ToClose(t, s)
    /\ TransStop(t)
    /\ Leave(t)
    /\ UNCHANGED slotVars

-----------------------------------------------------------------------------
(* osif_vdev_sync_destroy.                                                 *)

\* dsc_vdev_destroy clears the pointer and aborts the queue, with no lock.
DestroyFlush(t) ==
    /\ prog[t] = "stopped" /\ dscVdev[ctx[t]] # None
    /\ LET v == dscVdev[ctx[t]]
       IN /\ ptr' = [ptr EXCEPT ![t] = v]
          /\ queue' = [queue EXCEPT ![v] = << >>]
          /\ tran' = [u \in Thread |->
                        IF \E i \in 1..Len(queue[v]) : queue[v][i] = u
                        THEN "aborted" ELSE tran[u]]
    /\ dscVdev' = [dscVdev EXCEPT ![ctx[t]] = None]
    /\ Goto(t, "flushed")
    /\ UNCHANGED <<attached, active, ops, event, pc, at, waitVars, inUse,
                   netDev, ctx, asked>>

\* Under the driver lock, take the node off the psoc's list; free it.
DestroyDetach(t) ==
    /\ prog[t] = "flushed"
    /\ attached' = attached \ {ptr[t]}
    /\ Goto(t, "detached")
    /\ UNCHANGED <<nodeVars, pc, at, tran, waitVars, slotVars, ctx, asked, ptr>>

\* Mutant: in_use is left set.
DestroyPutLeak(t) ==
    /\ prog[t] = "detached"
    /\ netDev' = [netDev EXCEPT ![ctx[t]] = None]
    /\ Leave(t)
    /\ UNCHANGED <<dscVars, inUse, dscVdev>>

\* osif_vdev_sync_put: zero the slot.
DestroyPut(t) ==
    /\ prog[t] = "detached"
    /\ inUse' = [inUse EXCEPT ![ctx[t]] = FALSE]
    /\ netDev' = [netDev EXCEPT ![ctx[t]] = None]
    /\ dscVdev' = [dscVdev EXCEPT ![ctx[t]] = None]
    /\ IF pc[t] = "quiet"
       THEN /\ Goto(t, "closer")
            /\ ctx' = [ctx EXCEPT ![t] = None]
            /\ ptr' = [ptr EXCEPT ![t] = None]
            /\ UNCHANGED asked
       ELSE Leave(t)
    /\ UNCHANGED dscVars

-----------------------------------------------------------------------------
\* What happens inside trans_start(_wait) once it is called: the wake-up, and
\* after success wait_for_ops and wait_for_uptree_ops.
Inside(t) ==
    \/ TranWake(t) /\ tran[t] = "aborted" /\ Leave(t) /\ UNCHANGED slotVars
    \/ /\ \/ TranWake(t) /\ tran[t] = "set"
          \/ prog[t] \in {"using", "deleting", "closer"} /\ WaitForOps(t)
          \/ \E m \in Node : WaitCheck(t, m)
          \/ WaitDone(t)
          \/ WaitOver(t)
       /\ UNCHANGED osifVars

\* A program that has begun runs on to its end.
Proceed(t) ==
    \/ Inside(t)
    \/ UserStop(t)
    \/ CreateVdev(t) \/ CreateTrans(t) \/ (\E d \in Dev : CreateRegister(t, d))
    \/ CreateFail(t) \/ RegisteredStop(t)
    \/ DeleteRead(t) \/ DeleteStart(t)
    \/ DeleteUnregister(t) \/ DeleteStop(t) \/ DeleteUndo(t)
    \/ (\E s \in Slot : CloserUnregister(t, s)) \/ CloserStop(t)
    \/ DestroyFlush(t) \/ DestroyDetach(t) \/ DestroyPut(t)

OsifNext ==
    \E t \in Thread :
        \/ Proceed(t)
        \/ \E s \in Slot : \/ UserTransStart(t, s)
                            \/ UserOpStart(t, s)
                            \/ CreateReserve(t, s)
                            \/ DeleteLookup(t, s)
        \/ \E n \in Node : CloserStart(t, n)

OsifSpec == OsifInit /\ [][OsifNext]_allVars

\* Programs are scheduled until they end; nothing makes one begin.
OsifFairSpec == OsifSpec /\ \A t \in Thread : WF_allVars(Proceed(t))

-----------------------------------------------------------------------------
(* Properties.                                                             *)

OsifTypeOK ==
    /\ TypeOK
    /\ inUse \in [Slot -> BOOLEAN]
    /\ netDev \in [Slot -> Dev \cup {None}]
    /\ dscVdev \in [Slot -> Vdev \cup {None}]
    /\ prog \in [Thread -> Progs]
    /\ ctx \in [Thread -> Slot \cup {None}]
    /\ asked \in [Thread -> Dev \cup {None}]
    /\ ptr \in [Thread -> Vdev \cup {None}]

\* Whoever finds a registered context finds a live dsc_vdev in it: it is
\* registered after it is attached and unregistered before it is destroyed.
RegisteredIsLive ==
    \A s \in Slot : Registered(s) => dscVdev[s] \in attached

\* No thread runs an operation, owns a transition or sleeps in a queue on a
\* dsc_vdev that has been detached and freed: destroy aborts every waiter,
\* and nobody gets in any more once the context is unregistered.
NobodyOnFreedVdev ==
    \A t \in Thread :
        (pc[t] # "idle" /\ at[t] \notin attached) =>
            (pc[t] = "queued" /\ tran[t] = "aborted")

\* A dsc_vdev is taken off the tree only when no operation is left on it,
\* which __dsc_ops_deinit asserts: op_start and unregister exclude each other
\* by the sync lock, and the wait before covers the operations begun before.
DestroyedIsIdle == \A t \in Thread : prog[t] = "flushed" => ops[ptr[t]] = {}

\* No thread calls into DSC on a dsc_vdev that has been freed since it read
\* the pointer (__osif_vdev_sync_start_wait_callback reads it unlocked).
NobodyLost == \A t \in Thread : prog[t] # "lost"

\* A thread that goes by a context goes by the one it started: trans_stop and
\* op_stop reach the dsc_vdev they were started on.
OwnContext ==
    \A t \in Thread :
        prog[t] \in {"using", "creating", "registered", "deleting", "unregistered"}
        /\ pc[t] # "queued" => dscVdev[ctx[t]] = at[t]

\* When trans_start_wait succeeds, the context it returns is "the
\* synchronization context registered with @net_dev" (osif_vdev_sync.h).
WaitReturnsRegistered ==
    \A t \in Thread :
        (prog[t] = "deleting" /\ pc[t] # "queued") =>
            ctx[t] \in Lookup(asked[t])

\* A slot whose interface has gone is given back.
SlotsReclaimed ==
    \A s \in Slot : (inUse[s] /\ netDev[s] = None) ~>
                        (~inUse[s] \/ netDev[s] # None)

-----------------------------------------------------------------------------
(* The inductive invariant.                                                *)

\* Deletions come one at a time, under the RTNL lock.  Beside a deletion and a
\* thread that closes everything, no interface is added: the dsc_vdev and the
\* slot a deletion still points to may be gone, but are not in use again.
Apart ==
    /\ \A t, u \in Deleter : t = u
    /\ Deleter = {} \/ Closer = {} \/ Creator = {}

\* No deletion comes beside a thread that closes everything.
Undisturbed == Deleter = {} \/ Closer = {}

\* Programs that have a slot to themselves, not registered; programs that rely
\* on a registered one, and those of a deletion, which may lose it.
Holding == {"reserved", "created", "creating", "unregistered", "stopped",
            "flushed", "detached"}
Sharing == {"using", "registered"}
Deleting == {"found", "read", "deleting"}

\* The thread is inside a transition or an operation, or has been let in.
Busy(t) ==
    pc[t] \notin {"idle", "queued"} \/ (pc[t] = "queued" /\ tran[t] = "set")

\* Registered slots have a dsc_vdev, which is on the tree; no two slots have
\* the same dsc_vdev or net_device.
SlotsAgree ==
    /\ \A s \in Slot : netDev[s] # None => dscVdev[s] # None
    /\ \A s \in Slot : dscVdev[s] # None => inUse[s] /\ dscVdev[s] \in attached
    /\ \A r, s \in Slot :
          \/ dscVdev[r] # None /\ dscVdev[r] = dscVdev[s]
          \/ netDev[r] # None /\ netDev[r] = netDev[s]
          => r = s

\* A thread that holds a slot holds it alone.  The dsc_vdev on its way out is
\* in no slot any more.
HoldersAgree ==
    /\ \A t \in Thread : prog[t] \in Holding =>
          /\ ctx[t] \in Slot /\ inUse[ctx[t]] /\ netDev[ctx[t]] = None
          /\ dscVdev[ctx[t]] = None <=> prog[t] \in {"reserved", "flushed", "detached"}
    /\ \A t, u \in Thread :
          prog[t] \in Holding /\ prog[u] \in Holding /\ ctx[t] = ctx[u] => t = u
    /\ \A t \in Thread : prog[t] = "flushed" =>
          /\ ptr[t] \in Vdev \cap attached
          /\ \A s \in Slot : dscVdev[s] # ptr[t]
          /\ \A u \in Thread : prog[u] = "flushed" /\ ptr[u] = ptr[t] => u = t

\* No slot is lost: one that is taken and not registered has a thread that
\* will register it or give it back.
TakenAreHeld ==
    \A s \in Slot : (inUse[s] /\ netDev[s] = None) =>
        \E t \in Thread : prog[t] \in Holding /\ ctx[t] = s

\* Nor is a dsc_vdev: one on the tree is in a slot, or about to be detached.
AttachedAreHeld ==
    \A v \in Vdev \cap attached :
        \/ \E s \in Slot : dscVdev[s] = v
        \/ \E t \in Thread : prog[t] = "flushed" /\ ptr[t] = v

\* A deletion that goes by slot s and dsc_vdev v goes by what belongs together.
Matches(s, v) ==
    /\ v \in Vdev
    /\ Registered(s) => dscVdev[s] = v
    /\ \A r \in Slot : dscVdev[r] = v => r = s

\* What a program relies on lasts.  Only a deletion waits without a transition
\* in hand: a closer may take its interface away, but nobody lets it in then.
RelyingAgrees ==
    /\ \A t \in Thread : prog[t] \in Sharing => ctx[t] \in Slot /\ Registered(ctx[t])
    /\ \A t \in Thread : prog[t] \in Deleting =>
          /\ t \in Deleter /\ ctx[t] \in Slot /\ asked[t] # None
          /\ Registered(ctx[t]) => netDev[ctx[t]] = asked[t]
          /\ ~Registered(ctx[t]) => Closer # {} /\ ~Busy(t)
    /\ \A t \in Thread : prog[t] = "read" => Matches(ctx[t], ptr[t])
    /\ \A t \in Thread : prog[t] = "deleting" => Matches(ctx[t], at[t])
    /\ \A t \in Thread : prog[t] = "unregistered" =>
          t \in Deleter /\ asked[t] # None /\ Lookup(asked[t]) = {}

\* Where each program is in DSC: on its context's dsc_vdev, or above all.
ProgramsAgree ==
    /\ {Driver} \cup Psoc \subseteq attached
    /\ \A t \in Thread :
          /\ prog[t] = "lost" => t \in Deleter /\ Closer # {}
          /\ tran[t] = "aborted" =>
                prog[t] = "deleting" /\ pc[t] = "queued" /\ Closer # {}
          /\ prog[t] \in {"none", "reserved", "created", "found", "read", "lost"}
                => pc[t] = "idle"
          /\ prog[t] = "using" => pc[t] \in {"op", "trans", "wait", "quiet"}
          /\ prog[t] = "creating" => pc[t] = "trans"
          /\ prog[t] = "registered" => pc[t] \in {"trans", "quiet"}
          /\ prog[t] \in {"deleting", "closer"} => pc[t] \in {"queued", "trans", "wait", "quiet"}
          /\ prog[t] = "unregistered" => pc[t] = "quiet"
          /\ prog[t] \in {"stopped", "flushed", "detached"} => pc[t] \in {"idle", "quiet"}
          /\ prog[t] \in {"using", "creating", "registered", "unregistered"}
                => at[t] = dscVdev[ctx[t]]

\* Who plays which role; a closer keeps what it closes below its transition.
RolesAgree ==
    \A t \in Thread :
        /\ prog[t] \in {"reserved", "created", "creating"} => t \in Creator
        /\ prog[t] \in {"stopped", "flushed", "detached"} /\ pc[t] = "idle"
              => t \in Creator \cup Deleter
        /\ prog[t] \in {"closer", "stopped", "flushed", "detached"} /\ pc[t] # "idle"
              => t \in Closer /\ at[t] \in {Driver} \cup Psoc
        /\ prog[t] = "stopped" /\ pc[t] # "idle" => at[t] \in Ancestors(dscVdev[ctx[t]])
        /\ prog[t] = "flushed" /\ pc[t] # "idle" => at[t] \in Ancestors(ptr[t])

OsifIInv ==
    /\ Apart /\ IInv /\ OsifTypeOK
    /\ SlotsAgree /\ HoldersAgree /\ TakenAreHeld /\ AttachedAreHeld
    /\ RelyingAgrees /\ ProgramsAgree /\ RolesAgree
=============================================================================
