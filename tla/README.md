# Synchronisation of the WLAN driver, in TLA+

This directory models how the Qualcomm WLAN host driver of this repository keeps
its threads apart: the *Driver Synchronization Core* (DSC) and the OS interface
sync layer on top of it; firmware recovery, which composes DSC with the host
driver and the platform driver; the serialization of firmware commands; and the
request manager that ties asynchronous answers to sleeping requesters. The models
are checked with TLC on small instances. The safety properties of DSC, of the
sync layer, of recovery, of serialization and of the request manager are proved with TLAPS
for every instance.

Paths below are relative to `src/qcom/opensource/wlan/qcacld-3.0/` unless they
begin with `src/`.

## 1. The repository and what is modelled of it

The repository collects out-of-tree kernel modules of one phone platform. They
are independent programs; none of them calls another except through the kernel.

| Part | What it keeps and does | Here |
|---|---|---|
| `components/dsc` | tree of driver, psoc and vdev contexts; transitions and operations on them | modelled: `Dsc`, `BranchSync`, proofs |
| `os_if/sync`, vdev contexts | fixed array that ties net_devices to dsc_vdevs; register, look up, start, stop, destroy | modelled: `OsifVdevSync`, proofs |
| `os_if/sync`, psoc and driver contexts | the same for devices and for the module, and `trans_resume` for recovery | the transitions are modelled in `Recovery`; their registration is not |
| `core/hdd`, `os_if/nan` | the programs that add, delete, open and close interfaces; recovery, idle shutdown, unload | modelled as clients in `OsifVdevSync`, `Recovery` and `RequestManager`; the rest (protocol, policy) is not |
| `src/.../wlan/platform/cnss2` | the platform driver's event worker, power and recovery | modelled for a PCIe device: `Recovery`, proofs |
| serialization (`src/.../umac/cmn_services`) | active and pending queues of firmware commands with timers and cancellation | modelled for non-scan commands: `Serialization`, proofs |
| request manager (`src/.../os_if/linux`) | reference-counted requests, looked up by cookie | modelled: `RequestManager`, proofs |
| QDF events (`src/.../qca-wifi-host-cmn/qdf`) | `complete()`-based events, the list of waited events | modelled as DSC and the request manager use them |
| object manager, scheduler, state machine engine | reference counts; message queues | planned, in that order |
| remaining WLAN code, firmware API, platform | data path, HIF/HTC, message formats | not modelled: talks to firmware that is not here |
| `graphics-kernel` | KGSL timelines, events, draw-object dependencies; Adreno hardware | candidates: timelines and events |
| `camera-kernel` | `cam_sync` objects, request manager; sensors, ISP | candidate: `cam_sync` |
| `mm-drivers`, `synx-kernel` | hardware fences, synx objects | candidates |
| `dataipa`, `datarmnet*` | packet hardware; the IPA power manager | candidate: `ipa_pm.c` |
| `display-drivers`, `video-driver`, `eva-kernel`, `mmrm-driver` | hardware and firmware protocols | not modelled |
| `audio-kernel`, `bt-kernel`, `dsp-kernel`, `securemsm-kernel`, `spu-kernel` | drivers of remote processors | not modelled |
| `src/xiaomi`, `src/nxp`, `src/st` | touch, NFC, secure element | not modelled: register I/O |

`PROJECT.json` lists the same parts with the reason for each that is left out.

### 1.1 DSC

*State.* Each context holds `trans` (the description of the transition in
flight and a queue of `dsc_tran`s that wait for it) and `ops` (a count and an
event). Driver, psocs and vdevs are linked into a tree. One spinlock in the
driver context protects all of it.

*Operations.* `*_create`, `*_destroy`; `*_trans_start` (start now or fail),
`*_trans_start_wait` (start, or queue and sleep), `*_trans_stop` (end, and
trigger waiters); `*_op_start`, `*_op_stop`; `*_wait_for_ops` down the tree and
`dsc_vdev_wait_for_uptree_ops` up the tree.

*What is hard.* A stop hands the transition to a sleeper before the sleeper
knows. The stop of a psoc or driver transition may hand out several at once. A
stop below a queued ancestor must leave the turn to it, possibly for a later
stop to complete, and nobody may be forgotten on the way: the sleeps have no
timeout. `wait_for_ops` looks at the count and resets the event under the
lock but sleeps after dropping it, and takes it anew for each node of the walk.

*What makes it correct.* Exclusion along a branch; one owner, who knows it;
no overtaking; no stranded waiter, no starvation; nothing runs in the scope of
a wait once it has returned, until the transition ends.

### 1.2 The sync layer and its clients

*State.* An array of slots `{in_use, net_dev, dsc_vdev}` under a spinlock of
its own.

*Operations.* Create (take a slot, attach a dsc_vdev), register and unregister
a net_device, look up and start a transition or an operation, stop by context,
destroy (destroy the dsc_vdev, zero the slot).

*Clients.* Adding an interface: create, start a transition, register, stop.
Deleting: start a transition (waiting), unregister, wait, stop, destroy.
Closing all: under the psoc's or driver's transition, unregister and destroy
each. Using: operations and transitions that come from user space at any time.

*What is hard.* `trans_start` and `op_start` look up and call DSC under the
sync lock; `trans_start_wait` cannot, because it sleeps: it uses a pointer and a
context it read before. `dsc_vdev_destroy` flushes the queue without a lock.

*What makes it correct.* A registered context is alive; nobody is inside a
dsc_vdev that is freed; a context is destroyed with no operation left on it;
stops reach what was started; a successful start returns the context that is
registered; slots are given back.

### 1.3 Recovery, idle shutdown, unload

*State.* The platform driver keeps bits (`driver_state`), a queue of events that
one worker handles in order, completions (`power_up_complete`,
`recovery_complete`) and a boot timer. The host driver keeps whether its modules
are running, which interface is open, the idle timer, and the two flags
*recovering* and *unloading*. DSC keeps the transitions under which it all happens.

*Operations.* Firmware ready (probe, re-initialise), recovery, idle restart, idle
shutdown, power down, unregister in the worker; opening and closing an interface;
the idle timer's work; unloading; crash and boot time-out from interrupt and timer.

*What is hard.* Four threads post to the worker and sleep until it is done, with
DSC transitions in hand that the worker needs too. Bits are tested and set one by
one with no lock. The psoc transition of a recovery is begun by one event and ended
by a later one. A completion is re-armed after the test that decides to wait for it.

*What makes it correct.* Modules start and stop only in quiet; an open interface
has modules; recovery, unload, open and close end.

### 1.4 Serialization

*State.* A pool of cells; per pdev and vdev an active and a pending list; a bitmap
of vdevs with an active command; counters for blocking commands; a timer per
active command.

*Operations.* Request, remove, cancel by kind and vdev, time-out through the
scheduler thread, and the walk that moves pending commands up.

*What is hard.* Callbacks run without the lock and call back into the queues; the
lock is dropped between the removal of a command and the walk; a time-out message
holds a copy of the command. *What makes it correct.* No cell is lost or used
twice; one active command per vdev; a blocking command alone; nothing waits for ever.

### 1.5 Request manager

*State.* A list of requests with cookie, reference count, private data and an
event; the list of events somebody sleeps on. *Operations.* Allocate, get by
cookie, put, wait, complete; completion of all waited events when the firmware
goes down. *What is hard.* Answers come late, twice or never, against time-outs
and forced completion, and freed memory is used for the next request at once.
*What makes it correct.* Nobody uses a request that is gone; success means the
requester's own answer; every request is freed, once.

## 2. Modules

| Module | Content |
|---|---|
| `BranchSync` | What DSC promises its clients: who may own, use, or be sure of a node, and what that is worth to them. No queue, event or tree. |
| `BranchSyncProofs` | Exclusion and quiescence follow from the promise alone. |
| `Dsc` | DSC. `Abs == INSTANCE BranchSync WITH ...` is the refinement mapping, `Promise` the abstract specification under it. |
| `DscProofs` | The inductive invariant of `Dsc` and what follows from it at once. |
| `DscPromise` | No stranded waiter, order of grants, `Dsc` implements `BranchSync` and is worth what that is, no lost wake-up; each for clients that may also take a dsc_vdev off the tree (`Retires`). |
| `OsifVdevSync` | The sync layer and its clients, composed with `Dsc` (EXTENDS; every step names the DSC action it contains). |
| `OsifProofs` | How the sync layer uses `Dsc`; the inductive invariant of slots, programs and DSC; what follows for contexts and for DSC. |
| `Recovery` | Platform driver worker, host driver and unload, composed with `Dsc` (EXTENDS: every transition is taken, waited for and ended by the actions of `Dsc`). |
| `RecoveryProofs` | `Recovery` uses `Dsc` as it may be used; its inductive invariant; what follows for the modules and for DSC. |
| `Serialization` | The queues of non-scan commands. |
| `SerializationProofs` | The inductive invariant of `Serialization` and what follows from it. |
| `RequestManager` | Requests, their events and the forced completion. |
| `RequestProofs` | The inductive invariant of `RequestManager` and what follows from it. |
| `MC*` | Instances for TLC; one module may serve several configurations. |

### 2.1 `Dsc` and the code

Every API body runs under the driver lock and is one action. What the code does
outside the lock is a step of its own: the sleep on a `dsc_tran` (`TranWake`),
the sleep on `ops.event` (`WaitDone`), going from one node to the next
(`WaitCheck`, `WaitOver`). The three levels have near-identical functions
(`dsc_driver_x`, `dsc_psoc_x`, `dsc_vdev_x`); an action with a node parameter
stands for the three, and `map` names one of them. Where they differ there is
an operator for each: `DriverCanTrans`, `PsocCanTrans`, `VdevCanTrans`;
`DriverTriggers`, `PsocTriggers`, `VdevTriggers`.

| Variable | Code |
|---|---|
| `attached` | lists `driver->psocs`, `psoc->vdevs` |
| `active[n]` | `trans.active_desc`; a thread is its own description |
| `queue[n]` | `trans.queue` |
| `ops[n]` | `ops.count`, as the set of threads counted |
| `event[n]` | `ops.event.complete.done` |
| `pc`, `at` | where a thread is, and on which node |
| `tran[t]` | `event` and `abort` of the `dsc_tran` on the thread's stack |
| `todo`, `cur` | the rest of a walk of `wait_for_ops`, and the node it sleeps on |

`qdf_is_recovering()` and `qdf_is_driver_unloading()` change for reasons
outside: any value may be read at any time. Requests that fail change nothing
and are not steps. `WaitForOps` is the sequence the sync layer runs after a
start: down the tree for a driver or psoc, the vdev and then up the tree for a
vdev. `Destroy` is the destruction of a context under a transition above it
(contract of its callers: unregistered, no operation left, which
`__dsc_ops_deinit` asserts); the interleavings of destruction itself are in
`OsifVdevSync`.

### 2.2 `OsifVdevSync` and the code

`inUse`, `netDev`, `dscVdev` are the slots; `prog` is how far a thread is in its
program, `ctx` its `out_vdev_sync`, `asked` the net_device it was told to
delete, `ptr` the dsc_vdev it has read from the slot and not called yet, or
cleared from the slot and not freed yet. A step is what happens under one hold
of the sync lock or the driver lock; for `trans_start` and `op_start` the driver
lock is taken inside the sync lock, so `UserTransStart` is one step. The start
that waits is three: `DeleteLookup` (sync lock), `DeleteRead` (none),
`DeleteStart` (driver lock). Destruction is `DestroyFlush` (no lock; the list is
taken to be flushed at one moment), `DestroyDetach` (driver lock), `DestroyPut`
(sync lock).

What a call on freed memory would do is not modelled. A deleter that would make
one becomes "lost" and takes no more steps; `NobodyLost` says where this cannot
happen. The run `osif_close_delete` has such behaviours and holds up to them.

User space deletes interfaces one at a time, under the RTNL lock. One deleter
therefore stands for all of them in the passing runs; `hdd_lpc_work_handler`,
a work item that takes no such lock, is the second deleter of `MCOsifTwice.cfg`.
A net_device that is being deleted is not registered anew meanwhile
(`CreateRegister`).

### 2.3 `Recovery` and the code

`driver_state` holds the bits of `plat_priv->driver_state`, `event_list` the
posted events, `job` the one the worker handles, `step[t]` how far a thread is in
its handler. `firmware`, `boot_timer`, `power_up`, `recovered` and `ops_lock` are
the device, its timer, the two completions and `driver_ops_lock`; `modules`,
`opened`, `idle_armed`, `recovering`, `unloading` belong to the host driver. An
action covers what a handler does up to the next call that sleeps or races with a
crash. A caller that waits for its event sleeps in `Post` until the worker has
answered; `Finish` is the answer. DSC's own state (`active`, `queue`, `ops`, `pc`, ...)
is that of `Dsc`: a thread that waits for its psoc transition really sits in its queue.
`asserted` records that a statement which asserts, or a time-out that panics, was reached.

### 2.4 `Serialization` and the code

A cell is a `wlan_serialization_command_list`; `cmd[c]` is the command in it,
`active` and `pending` are the pdev's lists (a vdev's list is the part with its
commands: the code always updates both under one lock), `flags[c]` is
`cmd_in_use`, `waiting` the `uint16_t` counter. `stack[t]` is what a thread still has
to do after the lock was dropped, since callbacks nest: a failed activation removes
the command, which starts the next. `late` are time-out messages posted to the
scheduler thread. Each hold of the lock is one action.

### 2.5 `RequestManager` and the code

A request is a memory cell; `live` are the allocated ones, `requests` those on the
list, `data` whose answer the private data holds (0: none). `count` is
`complete.done` of its event, `done` and `force_set` the event's flags. The requester
is `wlan_hdd_get_snr`, the callback `hdd_get_snr_cb`; the lower layers may answer a
request up to `MaxAnswers` times, at any later time, or never. `Recovery` is the
thread of firmware down in `qdf_complete_wait_events`, which holds the list's lock over
its walk (`list_lock`) and tests, marks and sets each event in steps of their own,
because a genuine answer takes no such lock.

## 3. Runs

| Run | Question | Bounds | Result |
|---|---|---|---|
| `dsc_core` | Does DSC keep its invariant, strand nobody, grant in order and implement `BranchSync`? | 1 psoc, 2 vdevs, 3 threads, operations on all nodes; symmetry of threads and vdevs | 203,436 states, holds |
| `dsc_branch` | Do waits end, and is the driver served? | 1 psoc, 1 vdev, 3 threads, operations on all nodes, fairness | 155,550 states, holds |
| `dsc_serve` | Are psocs and vdevs served? | 1 psoc, 2 vdevs, 3 threads, no operations, fairness | 15,968 states, holds |
| `dsc_uptree` | Do waits for operations above end with siblings? | as `dsc_core`, operations on the psoc, fairness | violated (finding) |
| `osif_delete` | Are contexts sound while interfaces come and go, and slots given back? | 2 slots, 2 vdevs, 2 net_devices; 2 users of whom one adds, 1 deleter; fairness | 38,500 states, holds |
| `osif_close_delete` | ... while one is deleted and all are closed? | 1 user, 1 deleter, 1 closer | 36,392 states, holds |
| `ser_queues` | Are cells, lists, flags and timers consistent, whoever removes, cancels or times out a command? | 2 vdevs, 4 commands of which two blocking and one of high priority, 3 cells, 2 threads, 3 requests | 418,126 states, holds |
| `ser_served` | Is every pending command served at last? | no blocking command, no teardown of sessions, fairness | 340,116 states, holds |
| `ser_alone` | Is a blocking command active alone? | as `ser_queues` | violated (finding) |
| `recovery` | Are modules stopped only in quiet, and do recovery, unload and open end? | 1 psoc, 1 vdev, 4 actors, 1 user, one crash or hang, fairness | 40,454 states, holds |
| `rec_announced` | Has recovery shutdown always been announced? | as `recovery`, safety only | violated (finding) |
| `reqmgr` | Are requests safe from late answers and forced completion, and freed? | 1 requester, 2 callbacks, firmware down once, 2 cells, 2 requests with 2 answers each, fairness | 282,914 states, holds |

Further instances are kept as configurations beside these. They hold:
`MCDscForest.cfg` (2 psocs, 3 vdevs, 4 threads, no operations: stops that trigger
several waiters), `MCOsifClose.cfg` (all interfaces closed while in use) and
`MCOsifReclaim.cfg`. `reqmgr` was also run with two requesters and one callback
(823,000 states) and with two of each and one answer (593,000 states). The ones
that show a disagreement are named in section 5.

Why these bounds are enough to see the cases that matter: the conditions and
triggers of DSC look at one node, its ancestors and its children, so three
levels with two siblings show every combination; `MCDscForest` adds the second
psoc and the fourth thread that a driver stop needs to trigger several waiters
while a vdev waits under a queued psoc. Three threads give an owner, a waiter
and a newcomer. `MaxDone` (1 or 2) stands for `UINT_MAX`, where the kernel's
completion counter saturates: with three threads more than two unconsumed
sets do not tell anything new. In `dsc_serve` operations are left out since they never
hold up a request. Proofs remove the bounds for the
safety properties of the modules of section 6.

For serialization, two vdevs show a vdev that is busy beside one that is not, three
cells and `MaxPending` 2 a pool and a list that run out, two threads the window
between removal and walk; the scheduler is one of them, as in the code. For
recovery, one crash against every other activity is what the bits are meant for;
what a second crash does is told in section 5. In the request manager a second request may
reuse the first one's memory while answers to the first are on their way, or take the
other cell while the first is being freed.

Deadlock is checked for DSC and the sync layer except in `MCDsc.cfg`, `MCDscUptree.cfg` and
`MCDscSsr.cfg`, which have several vdevs with psoc operations: there the lost wake-up of section 5 really stops
the system. `Recovery`, `Serialization` and `RequestManager` may come to rest for
good, when the driver is gone or the bound on requests is reached, and are
checked without it.

Each property is shown to be sensitive by at least one mutant: a definition
with a plausible mistake (named in a comment "Mutant" in the module) under
which the run finds the property violated.

## 4. Fairness

`FairSpec` and `OsifFairSpec` assume weak fairness of what a thread does once
it is in a program: it is scheduled, ends its operation or transition, and wakes
up when its event is set. Nothing is assumed about requests: no thread need ever
ask. The code justifies this as far as its callers do end what they begin
(debug builds have timers that panic when they do not) and as the kernel
schedules runnable threads. `PsocServed` and `VdevServed` are conditional: the
levels above must be free again and again, since the code gives these
precedence on purpose.

`RecFairSpec`: the worker, the work queue and threads inside a call run on; a boot
ends, well or in a hang; an armed boot timer fires; operations end. Nobody has to
open, close or unload, and the firmware need not crash. `FairSpec` of
`Serialization`: threads run on, running timers expire, the scheduler handles its
messages; a requester never owes the removal of its command, the timer does
it. `FairSpec` of `RequestManager`: threads inside a call run on and the
wait ends by its time-out; nobody owes an answer.

## 5. Disagreements found

* **Lost wake-up** (`dsc_uptree`). Two sibling vdev transitions in
  `dsc_vdev_wait_for_uptree_ops` sleep on one `ops.event`. The stop of the last psoc
  operation completes it once, which wakes one of them; the other sleeps on
  with no operation in flight, and its vdev and everything above stay blocked.
  With a single vdev below the node the wait returns (`dsc_branch`).
* **A blocking command beside another** (`ser_alone`). The removal of a command drops
  the lock before it moves the next up. A blocking command requested in between
  becomes active, and the walk activates a pending command beside it.
* **The cleared flag** (`rec_announced`). The idle work clears the recovery flag
  whatever it finds. When its shutdown was refused because an interface opened, the
  flag may be that of a crash that came meanwhile; recovery shutdown then fails the
  assertion that firmware down was announced.

Others have a configuration but no listed run; TLC finds each within seconds:

* `MCDscSsr.cfg`: the comment on `__dsc_vdev_can_trans` says that vdev requests are
  queued while the psoc recovers; the code refuses them.
* `MCOsifTwice.cfg`: a second deletion that slept through the first one is told it
  succeeded, with a context that is not registered any more (`osif_vdev_sync.h:113`).
* `MCOsifAbort.cfg`: a transition queued between the flush and the detach of
  `dsc_vdev_destroy` is not aborted (`wlan_dsc_vdev.h:52`).
* `MCSerWaiting.cfg`: `blocking_cmd_waiting` is not the number of pending blocking
  commands; it leaks when a request is refused and wraps below zero.
* `MCSerStranded.cfg`: when a pending blocking command is cancelled nothing looks at
  the commands that waited behind it; with no active command left they stay.
* `MCSerLate.cfg`: a time-out message that was overtaken by the removal of its
  command ends a successor of the same identity.
* `MCRecoveryConcluded.cfg`: `hdd_soc_recovery_shutdown` says the transition is
  concluded at the end of re-initialisation, which returns early when an unload has
  begun; the unload's own request for the psoc then waits for it for ever.
* `MCRecoveryEmbrace.cfg`: recovery, on the worker, cancels the idle work and waits
  for it; the work may be waiting for its event, which the worker would take next.
* `MCRecoveryLost.cfg`: a crash while `CNSS_DRIVER_IDLE_SHUTDOWN` is set is
  dropped; when the host driver refuses the shutdown, the device stays dead.

* `MCSerMarked.cfg`: `blocking_cmd_active` is "whether blocking command is active"
  (`wlan_serialization_utils_i.h:100`); with two blocking commands active at once, as
  in `ser_alone`, the removal of either clears it.

With two crashes (`MaxCrash` 2; not a run) more ends are missed: a FW_READY left in
the queue is handled while the device boots again, re-initialisation fails and the
device is shut down with the recovery bit set for good; an unregister handled with
the bit set shuts the host driver down instead of removing it.

The safety properties of `Recovery` are proved for any number of crashes, and that is
where their wording comes from. A failed re-initialisation ends its transition and leaves the
interface open without modules; with three crashes an operation may start on it
before the worker goes on. With six, found by the proof and confirmed by hand, a stale FW_READY
lets a later re-initialisation start the modules beside that operation.
`ModulesQuiet` excludes this one start, by name (`LeftOpen`), and no stop.

Two smaller ones are visible by reading and have no run: the documentation of
`dsc_psoc_wait_for_ops` and `dsc_vdev_wait_for_ops` promises an assertion that
only the driver's function contains; and `__osif_vdev_sync_start_callback` sets
its out parameter before it knows whether it succeeds.

## 6. Proofs

Assumptions: `TreeAssumption` (driver, psocs and vdevs are distinct, each vdev
has a psoc) and `ThreadAssumption` (`None` is no thread and no node, operations
are on nodes, `MaxDone` is positive). Nothing bounds the numbers of psocs, vdevs or threads.
`RequestAssumption`: requesters and callbacks are finite and disjoint sets, the
walking thread is neither, and the three bounds are naturals; they, the memory and the
numbers of threads are arbitrary. `ActorsAssumption`: the worker, the opener, the idle work, the
unloader and the users are different threads, there is an interface, and `MaxCrash` is a natural.
`RoleAssumption`: users, creators, deleters and closers are threads, slots are numbers.
`SerAssumption`: vdevs, commands, cells, threads and their attributes as the module
declares them; which commands block or have priority is arbitrary.

### 6.1 DSC

`IInv` is the inductive invariant. Exclusion alone is not inductive: a stop
hands out transitions according to queues, so the queues must agree with the
threads that sleep in them (`QueueAgrees`), owners with nodes (`OwnerAgrees`), and
detached nodes must have neither owner nor operations (`TreeAgrees`). Quiescence needs to know what a
walk has left behind: every node of the scope is free of operations, still to
come, or the one slept on with its event not set (`WalkAgrees`), and that
operations are counted where they run (`OpsAgree`).

| Theorem | Argument |
|---|---|
| `Invariance` | One lemma per action. `TransStopInv` rests on three facts about the triggers: they name queued nodes of the tree (`TriggersQueued`), on whose branch nothing is in flight (`TriggersFree`), and which lie on different branches (`TriggersApart`). |
| `TypeCorrect`, `MutualExclusion`, `Ownership`, `QuietMeansQuiet` | Conjuncts of `IInv`. |
| `NobodyStranded` | `NoStrandedWaiter` is proved in two parts. `CoveredInTree`: whoever waits on a node of the tree has a stop coming that looks at its queue. The stop is the hard case: if it triggers nothing where a waiter is queued, then a queued ancestor claimed the turn and something on its branch is still in flight. This part holds whatever the clients do (`StepsStrandNobody`). `NobodyLeftBehind`: nobody waits on a node that has left the tree. That is the clients' part (`StepsLeaveNobody`): it needs that a node that is taken off has no queue. |
| `GrantsInOrder` | Only a start and a stop grant; a start finds no queue on its branch above, a stop takes heads of queues and looks from the top (`TriggersFirst`). |
| `NoWakeupLost` | The event is reset under the lock while operations run, and whoever takes a count of it must be the only sleeper (`OneSleeper`). That needs `SleepersAgree` (they sleep in the scope of their wait, on nodes of the tree: nobody sleeps on what is destroyed) and `WaitersOnBranch`: those who may wait for one node's operations lie on one branch and so exclude each other. Two vdevs below a psoc with operations are the case it excludes, and there the property is false (section 5). |
| `KeepsPromise` | Step by step: `WaitOver` is `MakeSure`, `TransStop` is `Release` to the heads of the triggered queues, starts are `Own` or `Work`, the sleeps are unseen. A waiter owns from the moment its event is set. |
| `PromiseIsEnough`, `PromiseIsWorth` | In `BranchSync` exclusion is inductive as it stands, since only a step that finds the branch free makes an owner (`OneMoves`, `ReleaseMoves`); `SureAlone` then follows from `MakeSure`, which looks, and `Work`, which finds the owner's branch not free (`SureMoves`). `BranchesOfTree` gives its assumption for the tree of `Dsc`. So a client that knows `Promise` needs to know nothing else of `Dsc`. |

### 6.2 The sync layer

The theorems hold under `Apart`, of which each part is there for a reason. There is at most one
deleter: the RTNL lock does this for user space (section 2.2), and with the work item that
takes no such lock `WaitReturnsRegistered` is false (`MCOsifTwice.cfg`). And no interface is
added beside both a deletion and a thread that closes everything: a deletion that went to
sleep on memory which was freed, and which an addition then uses again, is not followed.
A deletion beside a closer, as in `osif_close_delete`, is covered.

Three theorems ask in addition for `Undisturbed`, that there is no deleter beside a closer, because
with both the code does not have the property, and TLC finds the behaviour: `trans_start_wait` reads
a pointer under the sync lock and uses it without, and meanwhile a closer frees what it points to
(`NobodyGetsLost`); or the deletion has called in time and is queued after the flush, where
nobody aborts it (`OsifStrandsNobody`, `NoUseOfFreedVdev`). `FreedKeepsOnlySleepers` is what remains of
the last with both: a deletion asleep, and nothing else, on what was freed.

`OsifIInv` adds to `IInv` how slots, programs and DSC hang together. Unlike `Recovery`,
the sync layer takes steps of its own below DSC: `dsc_vdev_destroy` flushes and detaches
without a transition. `OsifUsesDsc` shows that every step is a step of `Dsc`, or is unseen
there, or is one of those two (`FlushRetires`, `DetachRetires`). The second needs that the dsc_vdev has no
owner and no operation, not that its queue is empty: `Retires` in `DscPromise` allows for
a waiter that is left on it, and the theorems on `Dsc` are proved for both kinds of step.

| Part of `OsifIInv` | Why it is needed |
|---|---|
| `SlotsAgree` | No dsc_vdev and no net_device is in two slots, or unregistering one interface would take away another; what is in a slot is on the tree. |
| `HoldersAgree`, `TakenAreHeld` | A thread that holds an unregistered slot holds it alone, so that nobody is in the dsc_vdev it destroys (`StoppedVacant`, `FlushedVacant`); and each slot that is taken and unregistered has such a thread. |
| `AttachedAreHeld` | The same for dsc_vdevs: one on the tree is in a slot or about to be detached. With it a deletion that has lost its slot is known to have a closer's transition above it. |
| `RelyingAgrees` | What a thread found registered stays so while it relies on it: those who unregister are alone with the interface (`QuietAlone`, `RelyingAlone`, `CloserAlone`). Only a deletion relies on one without a transition in hand. It may lose it, to a closer and only while it is not let in, and then its pointer is of no other slot (`Matches`). |
| `RolesAgree` | Who adds, deletes and closes; a closer takes an interface apart below its own transition. |
| `ProgramsAgree` | Where each program is in DSC, which ties the exclusion that DSC gives to slots. Only a deletion beside a closer may be aborted or lost. |

The heart of the proof is that a deletion whose interface was closed is never let in. A start
or a stop could do that. As long as the dsc_vdev is on the tree, the closer who took the slot owns
a transition above it (`ClosedAbove`), so a start does not succeed there (`StartRegistered`) and no
stop finds the branch free but the closer's own, which comes after it has destroyed what it took (`StopGrants`).
Once it is off the tree, a start is refused and no trigger looks at its queue.

| Theorem | Argument |
|---|---|
| `OsifInvariance` | `IInv` by `OsifUsesDsc`; types by `OsifTyped`; `TakenAreHeld` by `TakenStep`, `AttachedAreHeld` by `HeldStep`; the other parts by one lemma per action. |
| `NoSlotLost`, `RegisteredStaysLive`, `StopsReachOwn`, `WaitFindsRegistered` | Conjuncts, or close to them; the last also needs `LetInRegistered`. |
| `FreedKeepsOnlySleepers`, `NoUseOfFreedVdev` | Who is inside a dsc_vdev has it in its context (`AtVdev`), and what is in a slot is on the tree (`InTree`). |
| `NobodyGetsLost` | Without a closer, what a deletion read is still in its slot. |
| `DestroyedInPeace` | Nobody is in it (`FlushedVacant`), so nothing is counted there (`VacantIdle`). |
| `ProgramsKeepDsc`, `OsifKeepsPromise`, `OsifGrantsInOrder`, `OsifCoversTree` | The step lemmas of `Dsc`, which allow for `Retires`. |
| `OsifStrandsNobody` | `OsifCoversTree`, and nobody is on what has left the tree. |
| `OsifLosesNoWakeup` | As `NoWakeupLost`; in addition nobody sleeps on what is detached, since who sleeps on a dsc_vdev from above sleeps on a registered one (`SleptOnRegistered`). |

### 6.3 Request manager

`NoDangling` and `AnswerIsMine` are not inductive. That a holder's request is live
needs the reference count to be the number of holders (`Counted`), that listed requests
are exactly the held ones (`Linked`) and that one thread frees an unlinked one
(`Freeing`, `FreedOnce`). That success means an answer needs that a completion
without `force_set` comes from a callback that has filled in the data
(`Answered`, `Sound`), and that the walk marks an event before it sets it (`Marked`);
for these, the events the walk touches must belong to sleepers (`Slept`), which
the list's lock ensures (`Walked`).

| Theorem | Argument |
|---|---|
| `Invariance` | Four step lemmas (`TypeStep`, `RefStep`, `WaitStep`, `DataStep`), one case per action. `AllocRef`, `GetRef`, `PutRef`, `DestroyRef` do the counting, with the library's facts on adding and removing an element; `SameHolders` and `SameSleepers` dispose of the actions that touch neither. |
| `TypeCorrect` | A conjunct of `IInv`; the count stays natural since a holder is counted (`HeldIsCounted`). |
| `NoUseAfterFree` | From `Linked`, `Freeing` and `Slept`. |
| `OwnAnswer` | From `Sound`. |

### 6.4 Serialization

The invariants that the runs check talk about lists, cells and flags; to be inductive
they need what every thread still has to do. `Doing(t)` is the frame on top of a thread's
stack, the call it is in.

| Part of `IInv` | Why it is needed |
|---|---|
| `StackShape` | Below the top of a stack are only walks to be resumed, so that one frame, `Doing(t)`, says all that a thread may still do to a cell. |
| `RunsAgree` | A cell marked "activation" is active and has exactly one thread in its activation or callback, and the other way round: whoever removes or cancels it meanwhile leaves the freeing to that thread. |
| `VdevsAgree` | The bitmap is the vdevs of the active commands and of the active commands that are being called back after a cancellation; without the second part a cancellation breaks it half-way. |
| `BlockingAgrees` | The flag is set only while a blocking command is active or being called back. The other direction is false (section 5). |
| `TimersAgree` | Only active commands have timers; one without has a thread that `Owes` it: to start the timer or to remove the command. |

| Theorem | Argument |
|---|---|
| `Invariance` | A handful of lemmas say what an elementary change does to all parts at once (`Activation`, `Removal`, `Cancellation`, `CalledBack`, `TimerStarted`, `ActivationOver`, `Expiry`); one lemma per action puts them together. |
| `TypeCorrect`, `NothingLost` | Conjuncts of `IInv`. |
| `VdevsApart` | From `VdevsAgree` and `BlockingAgrees`, once no cancellation is under way. |
| `CallbacksSafe` | From `RunsAgree`, with `StackShape` for the frames further down. |
| `TimersWatching` | From `TimersAgree`: with nobody inside the module nothing is owed. |

### 6.5 Recovery

`RecUsesDsc` shows that each of its actions is one action of `Dsc` by one thread
on its own node, or leaves DSC alone. So the theorems about `Dsc` need not be proved
again: their step lemmas (`StepsStrandNobody`, `StepsGrantInOrder`, `StepsKeepPromise`) hold for whoever
takes the steps, from whatever state of `IInv`.

`RecIInv` adds to `IInv` where each thread is: every thread keeps to one node, and
operations run only on an open interface (`Placed`); the opener is in its transition during a
call and quiet when it looks at the modules (`OpenerHolds`); the worker has no
transition half-way outside the calls that begin one (`WorkerHolds`); a thread whose event is not answered
sleeps, and has one event only, so that an answer reaches the right one
(`PostersSleep`). A recovery that began while the firmware booted ends without having touched the
modules (`OpenAgrees`), without which `OpenHasModules` is not inductive.

| Theorem | Argument |
|---|---|
| `RecInvariance` | `IInv` by `RecUsesDsc`; one lemma per other conjunct, with one case per group of actions; `OpenedChanges`, `ModulesChange`, `BitsChange` and the like say once who changes what. |
| `OpenMeansModules` | A conjunct. |
| `ModulesChangeInQuiet` | Stops: the worker is quiet on the psoc, so by `Quiescence` no operation is on the interface, and none is anywhere else (`QuietMeansNoOps`). Starts: there were no modules; the worker is quiet, or idle and the interface open. |
| `RecoveryKeepsDsc`, `RecoveryKeepsPromise`, `RecoveryStrandsNobody`, `RecoveryLosesNoWakeup` | The step lemmas of `Dsc` under `RecUsesDsc`. |

### 6.6 Model-checked only

All liveness: the prover in use does not treat fairness and ENABLED. Every safety property of a
passing run is stated by a theorem. What `Undisturbed` excludes is not proved because it is false
(section 6.2); additions beside both a deletion and a closer are in no proof and in no run.

## 7. Not modelled, and what that means

* `WLAN_DSC_DEBUG`: timers that panic on timeouts, the lists of operation names,
  owner threads. Failing to allocate an operation record changes nothing.
* `assert_trans_protected`, and the northbound command cached during recovery:
  a byte read and written without effect on synchronisation.
* The walk of `wait_for_ops` takes the set of nodes at its start; the code walks
  the live lists without the lock. Contexts created during the walk can have no
  operations, and the model destroys none; a list changed under the walk is listed as a hazard.
* The RTNL lock itself, beyond its effect on deletions.
* Registration, creation and destruction of psoc and driver contexts.
* In recovery: failures to power the device up, cold-boot calibration, system
  suspend, reboot, mode change, RDDM dumps and `sys_err`, driver load, the part of an
  unload after the host driver is gone, buses other than PCIe.
* In serialization: scan queues, queue disable, rule callbacks, creation and
  destruction of the objects, callbacks that request commands themselves, and
  a cancellation of several commands that resumes from a node another thread moved.
* In the request manager: private data with memory of its own (`dealloc`), clients whose
  answer comes in parts, `uint64` wrap of the cookie. Loading and unloading wait for
  operations to end, so `osif_request_manager_init` finds the list empty.
* Everything listed as not modelled in section 1. What is modelled is a small part of
  a repository of several millions of lines, most of which are register
  definitions, message formats and hardware programming.

## 8. Plan

1. `OsifVdevSync`: drop the rest of `Apart`. With additions beside a deletion and a closer, memory
   is used again under a sleeper; the model then needs to tell the two uses apart.
2. `Recovery`: two crashes and failed power-ups, with the dead ends they lead to.
3. Object manager: reference counts, logical and physical deletion; no object is freed with a
   reference left.
4. KGSL timelines and events, and `cam_sync`: signal against wait, cancel, destroy.
5. `ipa_pm.c`: client states against deferred deactivation; scheduler queues.
