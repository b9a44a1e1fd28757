------------------------------ MODULE Recovery ------------------------------
(***************************************************************************)
(* Firmware recovery of a PCIe device: the platform driver's event worker  *)
(* (platform/cnss2, main.c and pci.c) composed with the host driver        *)
(* (qcacld-3.0/core/hdd) and the psoc and driver transitions of DSC.       *)
(*                                                                         *)
(* One worker handles the platform driver's events in order: firmware      *)
(* ready, recovery, idle restart, idle shutdown, power down, unregister.   *)
(* It calls back into the host driver, which shuts down and re-initialises *)
(* under a psoc transition.  Beside it run a thread that opens and closes  *)
(* an interface, the idle work that powers the device down when none is    *)
(* open, a thread that unloads the driver, and users with operations in    *)
(* flight.  The firmware crashes, hangs while it boots, or boots.          *)
(*                                                                         *)
(* The bits of plat_priv->driver_state are changed one at a time with no   *)
(* lock.  A handler that tests and sets several without calling out is one *)
(* action; every call that sleeps or may race with a crash is its own.     *)
(***************************************************************************)
EXTENDS Dsc

CONSTANTS
    Worker,     \* the thread of plat_priv->event_wq
    Opener,     \* ifconfig up and down
    Idle,       \* psoc_idle_timeout_work
    Unloader,   \* rmmod, or wifi off by way of hdd_driver_unload
    User,       \* threads with operations on the interface
    MaxCrash    \* bound of the number of crashes and hangs

\* Different kernel threads; there is an interface.
ASSUME ActorsAssumption ==
    /\ {Worker, Opener, Idle, Unloader} \cup User \subseteq Thread
    /\ Worker \notin {Opener, Idle, Unloader} \cup User
    /\ Opener \notin {Idle, Unloader} \cup User
    /\ Idle \notin {Unloader} \cup User
    /\ Unloader \notin User
    /\ Vdev # {}
    /\ MaxCrash \in Nat

VARIABLES
    driver_state,   \* bits of plat_priv->driver_state
    event_list,     \* events posted and not yet taken
    job,            \* the event the worker handles
    firmware,       \* "off", "boot", "up", or "dead"
    boot_timer,     \* fw_boot_timer is armed
    power_up,       \* power_up_complete.done
    power_up_error,
    recovered,      \* recovery_complete.done is not zero
    ops_lock,       \* owner of driver_ops_lock
    modules,        \* hdd_ctx->driver_status is DRIVER_MODULES_ENABLED
    opened,         \* the interface is open
    idle_armed,     \* psoc_idle_timeout_work is pending
    recovering,     \* CDS_DRIVER_STATE_RECOVERING
    unloading,      \* CDS_DRIVER_STATE_UNLOADING
    step,           \* where each thread is in its handler
    asserted,       \* an assertion, or a time-out that asserts, was reached
    crashes         \* crashes and hangs so far

platVars == <<driver_state, event_list, job, firmware, boot_timer, power_up,
              power_up_error, recovered, ops_lock, asserted, crashes>>
hostVars == <<modules, opened, idle_armed, recovering, unloading>>
recVars == <<platVars, hostVars, step>>
allVars == <<vars, recVars>>

Bits == {"REGISTERED", "PROBED", "FW_READY", "DEV_ERR", "RECOVERY",
         "FW_BOOT_RECOVERY", "IDLE_RESTART", "IDLE_SHUTDOWN", "UNLOADING"}
Events == {"FW_READY", "RECOVERY", "IDLE_RESTART", "IDLE_SHUTDOWN",
           "POWER_DOWN", "UNREGISTER"}
Steps == {"rest", "remove", "shutdown", "nap", "bye", "off", "probe", "reinit",
          "reinited", "failed", "restart", "check", "cancel", "post", "sync",
          "synced", "power", "open", "close", "down", "ask", "flagged", "lock",
          "test", "clear", "recover", "gone"}

NoEvent == [type |-> "none", by |-> None]
Event(type, by) == [type |-> type, by |-> by]
Posts == [type : Events, by : {None, Opener, Idle, Unloader}]

V == CHOOSE v \in Vdev : TRUE
P == PsocOf[V]

Has(bit) == bit \in driver_state
To(t, s) == step' = [step EXCEPT ![t] = s]

\* complete() and complete_all(), whose count no wait uses up.
Forever == 3
Completed(n) == IF n < 2 THEN n + 1 ELSE n
Consumed(n) == IF n = Forever THEN n ELSE n - 1

\* The body of the idle work is running.
IdleRuns == step[Idle] # "rest"

-----------------------------------------------------------------------------
RecInit ==
    /\ attached = Node
    /\ NoActivity
    /\ driver_state = {"REGISTERED", "PROBED", "FW_READY"}
    /\ event_list = << >>
    /\ job = NoEvent
    /\ firmware = "up"
    /\ boot_timer = FALSE
    /\ power_up = Forever
    /\ power_up_error = FALSE
    /\ recovered = FALSE
    /\ ops_lock = None
    /\ modules = TRUE
    /\ opened = FALSE
    /\ idle_armed = TRUE
    /\ recovering = FALSE
    /\ unloading = FALSE
    /\ step = [t \in Thread |-> "rest"]
    /\ asserted = FALSE
    /\ crashes = 0

-----------------------------------------------------------------------------
(* The firmware, and the interrupts and timers that report on it.          *)

Booted ==
    /\ firmware = "boot"
    /\ firmware' = "up"
    /\ event_list' = Append(event_list, Event("FW_READY", None))
    /\ UNCHANGED <<vars, driver_state, job, boot_timer, power_up,
                   power_up_error, recovered, ops_lock, asserted, crashes,
                   hostVars, step>>

\* schedule_recovery: nothing is posted while the device is taken down.
Scheduled ==
    IF Has("UNLOADING") \/ Has("IDLE_SHUTDOWN") THEN event_list
    ELSE Append(event_list, Event("RECOVERY", None))

\* MHI reports a fatal error or RDDM; the host driver is told FW_DOWN.
Crash ==
    /\ firmware \in {"boot", "up"}
    /\ crashes < MaxCrash
    /\ crashes' = crashes + 1
    /\ firmware' = "dead"
    /\ driver_state' = driver_state \cup {"DEV_ERR"}
    /\ boot_timer' = FALSE
    /\ recovering' = (recovering \/ Has("REGISTERED"))
    /\ event_list' = Scheduled
    /\ UNCHANGED <<vars, job, power_up, power_up_error, recovered, ops_lock,
                   asserted, modules, opened, idle_armed, unloading, step>>

\* The firmware stops half-way through its boot and reports nothing.
Hang ==
    /\ firmware = "boot"
    /\ crashes < MaxCrash
    /\ crashes' = crashes + 1
    /\ firmware' = "dead"
    /\ UNCHANGED <<vars, driver_state, event_list, job, boot_timer, power_up,
                   power_up_error, recovered, ops_lock, asserted, hostVars,
                   step>>

Coming(type) == \E i \in 1..Len(event_list) : event_list[i].type = type

\* fw_boot_timer is longer than any boot and the handling of its result.
BootTimeout ==
    /\ boot_timer
    /\ firmware # "boot"
    /\ ~Coming("FW_READY")
    /\ boot_timer' = FALSE
    /\ recovering' = (recovering \/ (~Has("DEV_ERR") /\ Has("REGISTERED")))
    /\ event_list' = Scheduled
    /\ UNCHANGED <<vars, driver_state, job, firmware, power_up,
                   power_up_error, recovered, ops_lock, asserted, crashes,
                   modules, opened, idle_armed, unloading, step>>

-----------------------------------------------------------------------------
(* The event worker.                                                       *)

\* mutant: the poster is not told.
FinishSilent == job' = NoEvent /\ To(Worker, "rest")

\* The handler is over; whoever posted the event synchronously goes on.
Finish ==
    /\ job' = NoEvent
    /\ step' = [step EXCEPT ![Worker] = "rest",
                            ![IF job.by = None THEN Worker ELSE job.by] =
                               IF job.by = None THEN "rest" ELSE "synced"]

Take(type) ==
    /\ step[Worker] = "rest"
    /\ event_list # << >>
    /\ Head(event_list).type = type
    /\ event_list' = Tail(event_list)

TakeRecovery ==
    /\ Take("RECOVERY")
    /\ IF Has("RECOVERY")
       THEN /\ asserted' = TRUE
            /\ UNCHANGED <<driver_state, job, step>>
       ELSE IF Has("UNLOADING") \/ Has("IDLE_SHUTDOWN")
       THEN UNCHANGED <<asserted, driver_state, job, step>>
       ELSE /\ driver_state' = driver_state \cup {"RECOVERY"} \cup
                   (IF Has("FW_READY") THEN {} ELSE {"FW_BOOT_RECOVERY"})
            /\ job' = Head(event_list)
            /\ To(Worker, "remove")
            /\ UNCHANGED asserted
    /\ UNCHANGED <<vars, firmware, boot_timer, power_up, power_up_error,
                   recovered, ops_lock, crashes, hostVars>>

\* A device that has power does not boot again.
PowerOn ==
    /\ firmware' = IF firmware = "off" THEN "boot" ELSE firmware
    /\ boot_timer' = TRUE
    /\ power_up_error' = FALSE

TakeIdleRestart ==
    /\ Take("IDLE_RESTART")
    /\ driver_state' = driver_state \cup {"IDLE_RESTART"}
    /\ PowerOn
    /\ To(Head(event_list).by, "power")
    /\ UNCHANGED <<vars, job, power_up, recovered, ops_lock, asserted,
                   crashes, hostVars>>

\* IDLE_SHUTDOWN, POWER_DOWN and UNREGISTER go through dev_shutdown.
TakeDown ==
    /\ \/ Take("IDLE_SHUTDOWN") /\ driver_state' = driver_state \cup {"IDLE_SHUTDOWN"}
       \/ Take("POWER_DOWN") /\ UNCHANGED driver_state
       \/ Take("UNREGISTER") /\ driver_state' = driver_state \cup {"UNLOADING"}
    /\ job' = Head(event_list)
    /\ To(Worker, "remove")
    /\ UNCHANGED <<vars, firmware, boot_timer, power_up, power_up_error,
                   recovered, ops_lock, asserted, crashes, hostVars>>

TakeReady ==
    /\ Take("FW_READY")
    /\ boot_timer' = FALSE
    /\ driver_state' = {"FW_READY"} \cup (driver_state \ ({"DEV_ERR"} \cup
           (IF Has("FW_BOOT_RECOVERY") THEN {"FW_BOOT_RECOVERY", "RECOVERY"} ELSE {})))
    /\ job' = Head(event_list)
    /\ To(Worker, "probe")
    /\ UNCHANGED <<vars, firmware, power_up, power_up_error, recovered,
                   ops_lock, asserted, crashes, hostVars>>

-----------------------------------------------------------------------------
(* dev_shutdown: call_driver_remove, then the power.                       *)

\* mutant: forgets that the host driver has not seen this boot.
RemoveIsInBoot ==
    IF Has("RECOVERY") /\ Has("PROBED")
    THEN IF unloading THEN "skip" ELSE "shutdown"
    ELSE IF Has("UNLOADING") THEN "bye"
    ELSE IF Has("IDLE_SHUTDOWN") THEN "nap" ELSE "skip"

RemoveIs ==
    IF Has("FW_BOOT_RECOVERY") THEN "skip"
    ELSE IF Has("RECOVERY") /\ Has("PROBED")
         THEN IF unloading THEN "skip" ELSE "shutdown"
    ELSE IF Has("UNLOADING") THEN "bye"
    ELSE IF Has("IDLE_SHUTDOWN") THEN "nap" ELSE "skip"

AtRemove(kind) == step[Worker] = "remove" /\ RemoveIs = kind

RemoveSkipped ==
    /\ AtRemove("skip")
    /\ To(Worker, "off")
    /\ UNCHANGED <<vars, platVars, hostVars>>

\* hdd_soc_recovery_shutdown: the SSR transition begins.  With the driver in
\* transition the request fails, and shutdown returns.
SsrBegin ==
    /\ AtRemove("shutdown")
    /\ \/ /\ TransStart(Worker, P) \/ TransQueue(Worker, P)
          /\ To(Worker, "shutdown")
       \/ /\ PsocCanTrans(P) = "E_INVAL"
          /\ To(Worker, "off")
          /\ UNCHANGED vars
    /\ UNCHANGED <<platVars, hostVars>>

\* pld_pcie_remove
RemoveBegin ==
    /\ AtRemove("bye")
    /\ TransStart(Worker, P) \/ TransQueue(Worker, P)
    /\ To(Worker, "bye")
    /\ UNCHANGED <<platVars, hostVars>>

\* hdd_psoc_idle_shutdown does not wait for a transition.  Its refusal ends
\* dev_shutdown; power_down_hdlr reports success all the same.
NapBegin ==
    /\ AtRemove("nap")
    /\ IF PsocCanTrans(P) = "SUCCESS"
       THEN /\ TransStart(Worker, P)
            /\ To(Worker, "nap")
            /\ UNCHANGED <<driver_state, job>>
       ELSE /\ driver_state' = driver_state \ {"IDLE_SHUTDOWN"}
            /\ Finish
            /\ UNCHANGED vars
    /\ UNCHANGED <<event_list, firmware, boot_timer, power_up, power_up_error,
                   recovered, ops_lock, asserted, crashes, hostVars>>

\* A thread sleeps in trans_start_wait and in wait_for_ops.
Syncs(t, steps) ==
    /\ step[t] \in steps
    /\ \/ TranWake(t)
       \/ WaitForOps(t)
       \/ \E m \in Node : WaitCheck(t, m)
       \/ WaitDone(t)
       \/ WaitOver(t)
    /\ UNCHANGED recVars

WorkerSyncs == Syncs(Worker, {"shutdown", "bye", "nap"})

\* mutant: does not wait for the operations.
QuietEarly(s) == step[Worker] = s /\ pc[Worker] \in {"trans", "quiet"}
Quiet(s) == step[Worker] = s /\ pc[Worker] = "quiet"

\* The transition stays: "SSR transition is concluded at the end of soc
\* re-init".  Cancelling the idle work waits for the one that runs.
SsrShutdown ==
    /\ Quiet("shutdown")
    /\ ~IdleRuns
    /\ idle_armed' = FALSE
    /\ modules' = FALSE
    /\ To(Worker, "off")
    /\ UNCHANGED <<vars, platVars, opened, recovering, unloading>>

SocRemove ==
    /\ Quiet("bye")
    /\ ~IdleRuns
    /\ idle_armed' = FALSE
    /\ modules' = FALSE
    /\ opened' = FALSE
    /\ unloading' = FALSE
    /\ driver_state' = driver_state \ {"PROBED"}
    /\ TransStop(Worker)
    /\ To(Worker, "off")
    /\ UNCHANGED <<event_list, job, firmware, boot_timer, power_up,
                   power_up_error, recovered, ops_lock, asserted, crashes,
                   recovering>>

Nap ==
    /\ Quiet("nap")
    /\ IF opened
       THEN /\ driver_state' = driver_state \ {"IDLE_SHUTDOWN"}
            /\ Finish
            /\ UNCHANGED modules
       ELSE /\ modules' = FALSE
            /\ To(Worker, "off")
            /\ UNCHANGED <<driver_state, job>>
    /\ TransStop(Worker)
    /\ UNCHANGED <<event_list, firmware, boot_timer, power_up, power_up_error,
                   recovered, ops_lock, asserted, crashes, opened, idle_armed,
                   recovering, unloading>>

\* The rest of qca6290_shutdown; a recovery goes on to power up.
PowerOff ==
    /\ step[Worker] = "off"
    /\ driver_state' = driver_state \
           ({"FW_READY", "UNLOADING", "IDLE_SHUTDOWN"} \cup
            (IF Has("UNLOADING") \/ Has("IDLE_SHUTDOWN") THEN {"DEV_ERR"} ELSE {}) \cup
            (IF job.type = "UNREGISTER" THEN {"REGISTERED"} ELSE {}))
    /\ IF job.type = "RECOVERY" /\ Has("REGISTERED")
       THEN firmware' = "boot" /\ boot_timer' = TRUE /\ power_up_error' = FALSE
       ELSE firmware' = "off" /\ UNCHANGED <<boot_timer, power_up_error>>
    /\ Finish
    /\ UNCHANGED <<vars, event_list, power_up, recovered, ops_lock, asserted,
                   crashes, hostVars>>

-----------------------------------------------------------------------------
(* call_driver_probe.                                                      *)

RecoveryOverKept == driver_state   \* mutant
RecoveryOver == driver_state \ {"RECOVERY"}

\* The firmware is ready and the host driver has nothing to restart.
ProbePlain ==
    /\ step[Worker] = "probe"
    /\ ~(Has("RECOVERY") /\ Has("PROBED"))
    /\ ~Has("IDLE_RESTART")
    /\ power_up' = Completed(power_up)
    /\ driver_state' = RecoveryOver
    /\ Finish
    /\ UNCHANGED <<vars, event_list, firmware, boot_timer, power_up_error,
                   recovered, ops_lock, asserted, crashes, hostVars>>

\* hdd_soc_recovery_reinit returns at once when the driver unloads.
ProbeReinit ==
    /\ step[Worker] = "probe"
    /\ Has("RECOVERY") /\ Has("PROBED")
    /\ IF unloading
       THEN /\ recovered' = TRUE
            /\ driver_state' = RecoveryOver
            /\ Finish
       ELSE /\ To(Worker, "reinit")
            /\ UNCHANGED <<recovered, driver_state, job>>
    /\ UNCHANGED <<vars, event_list, firmware, boot_timer, power_up,
                   power_up_error, ops_lock, asserted, crashes, hostVars>>

\* hdd_wlan_start_modules, which cancels the idle work first.
Starts == modules \/ firmware = "up"

\* mutant: forgets cds_set_recovery_in_progress(false).
ReinitKeepsFlag ==
    /\ step[Worker] = "reinit"
    /\ ~IdleRuns
    /\ modules' = Starts
    /\ idle_armed' = (Starts /\ ~opened)
    /\ To(Worker, IF Starts THEN "reinited" ELSE "failed")
    /\ UNCHANGED <<vars, platVars, opened, recovering, unloading>>

Reinit ==
    /\ step[Worker] = "reinit"
    /\ ~IdleRuns
    /\ modules' = Starts
    /\ idle_armed' = (Starts /\ ~opened)
    /\ recovering' = (recovering /\ ~(Starts /\ ~Has("DEV_ERR")))
    /\ To(Worker, IF Starts THEN "reinited" ELSE "failed")
    /\ UNCHANGED <<vars, platVars, opened, unloading>>

\* A failed handler shuts the device down, unless a crash is on its way.
Abandon ==
    IF Has("DEV_ERR") THEN Finish ELSE To(Worker, "remove") /\ UNCHANGED job

\* osif_psoc_sync_trans_stop ends the transition that shutdown began;
\* dsc_assert(trans->active_desc) otherwise.
ReinitStop ==
    /\ step[Worker] \in {"reinited", "failed"}
    /\ IF pc[Worker] = "quiet"
       THEN TransStop(Worker) /\ UNCHANGED asserted
       ELSE asserted' = TRUE /\ UNCHANGED vars
    /\ IF step[Worker] = "reinited"
       THEN /\ recovered' = TRUE
            /\ driver_state' = RecoveryOver
            /\ Finish
       ELSE Abandon /\ UNCHANGED <<recovered, driver_state>>
    /\ UNCHANGED <<event_list, firmware, boot_timer, power_up, power_up_error,
                   ops_lock, crashes, hostVars>>

ProbeRestart ==
    /\ step[Worker] = "probe"
    /\ ~(Has("RECOVERY") /\ Has("PROBED"))
    /\ Has("IDLE_RESTART")
    /\ To(Worker, "restart")
    /\ UNCHANGED <<vars, platVars, hostVars>>

IdleRestart ==
    /\ step[Worker] = "restart"
    /\ ~IdleRuns
    /\ idle_armed' = FALSE
    /\ modules' = Starts
    /\ recovering' = (recovering /\ Has("DEV_ERR"))
    /\ power_up' = Forever
    /\ IF Starts
       THEN /\ driver_state' = RecoveryOver \ {"IDLE_RESTART"}
            /\ Finish
            /\ UNCHANGED power_up_error
       ELSE /\ power_up_error' = TRUE
            /\ Abandon
            /\ UNCHANGED driver_state
    /\ UNCHANGED <<vars, event_list, firmware, boot_timer, recovered,
                   ops_lock, asserted, crashes, opened, unloading>>

-----------------------------------------------------------------------------
(* Who waits for whom.  A wait in timed ends by a time-out of its own.     *)

WaitsFor(t, u, timed) ==
    \/ /\ pc[t] = "queued" /\ tran[t] = "clear"
       /\ \E n \in Node : Related(n, at[t]) /\ active[n] = u
    \/ /\ \/ t = Opener /\ step[t] = "cancel"
          \/ t = Unloader /\ step[t] = "flagged"
          \/ t = Worker /\ (Quiet("shutdown") \/ Quiet("bye")
                            \/ step[t] \in {"reinit", "restart"})
       /\ u = Idle /\ IdleRuns
    \/ t # Worker /\ u = Worker /\ step[t] \in {"sync"} \cup timed
    \/ t = Unloader /\ step[t] = "lock" /\ u = ops_lock

Awaited(S, timed) == S \cup {u \in Thread : \E t \in S : WaitsFor(t, u, timed)}

\* The worker waits, by way of others, for itself.
Entangled(timed) ==
    Worker \in Awaited(Awaited({u \in Thread : WaitsFor(Worker, u, timed)}, timed), timed)

\* The time-outs of these waits are longer than what they wait for: they
\* end only a wait that nothing is about to end.
Stalled ==
    \/ Entangled({"power", "recover"})
    \/ /\ step[Worker] = "rest" /\ event_list = << >>
       /\ firmware # "boot" /\ ~boot_timer
    \/ step[Worker] = "remove" /\ pc[Worker] = "quiet"

-----------------------------------------------------------------------------
(* Interface up and down.                                                  *)

Post(type, by) == event_list' = Append(event_list, Event(type, by))

\* wlan_hdd_validate_context refuses.
Refused == recovering \/ unloading \/ Has("DEV_ERR")

VdevBegin(s) ==
    /\ step[Opener] = "rest"
    /\ Has("PROBED")
    /\ VdevCanTrans(V, recovering, unloading) = "SUCCESS"
    /\ TransStart(Opener, V)
    /\ To(Opener, s)
    /\ UNCHANGED <<platVars, hostVars>>

OpenerSyncs == Syncs(Opener, {"open", "close"})

OpenBegin == ~opened /\ VdevBegin("open")
CloseBegin == opened /\ VdevBegin("close")

OpenCheck ==
    /\ step[Opener] = "open"
    /\ pc[Opener] = "quiet"
    /\ IF Refused
       THEN To(Opener, "rest") /\ TransStop(Opener)
       ELSE To(Opener, "cancel") /\ UNCHANGED vars
    /\ UNCHANGED <<platVars, hostVars>>

\* hdd_trigger_psoc_idle_restart and the first half of cnss_idle_restart.
OpenRestart ==
    /\ step[Opener] = "cancel"
    /\ ~IdleRuns
    /\ idle_armed' = FALSE
    /\ IF modules \/ ops_lock # None
       THEN /\ opened' = modules
            /\ To(Opener, "rest")
            /\ TransStop(Opener)
            /\ UNCHANGED <<ops_lock, power_up, event_list>>
       ELSE /\ ops_lock' = Opener
            /\ power_up' = 0
            /\ Post("IDLE_RESTART", Opener)
            /\ To(Opener, "sync")
            /\ UNCHANGED <<vars, opened>>
    /\ UNCHANGED <<driver_state, job, firmware, boot_timer, power_up_error,
                   recovered, asserted, crashes, modules, recovering,
                   unloading>>

UpAnyway == TRUE   \* mutant: does not look at the error
UpAgain == modules /\ ~power_up_error

OpenPowered ==
    /\ step[Opener] = "power"
    /\ power_up > 0
    /\ power_up' = Consumed(power_up)
    /\ driver_state' = driver_state \ (IF power_up_error THEN {"IDLE_RESTART"} ELSE {})
    /\ opened' = UpAgain
    /\ ops_lock' = None
    /\ To(Opener, "rest")
    /\ TransStop(Opener)
    /\ UNCHANGED <<event_list, job, firmware, boot_timer, power_up_error,
                   recovered, asserted, crashes, modules, idle_armed,
                   recovering, unloading>>

\* CNSS_ASSERT and cnss_power_down.
OpenTimeout ==
    /\ step[Opener] = "power"
    /\ power_up = 0
    /\ Stalled
    /\ asserted' = TRUE
    /\ Post("POWER_DOWN", Opener)
    /\ To(Opener, "sync")
    /\ UNCHANGED <<vars, driver_state, job, firmware, boot_timer, power_up,
                   power_up_error, recovered, ops_lock, crashes, hostVars>>

OpenFailed ==
    /\ step[Opener] = "synced"
    /\ ops_lock' = None
    /\ To(Opener, "rest")
    /\ TransStop(Opener)
    /\ UNCHANGED <<driver_state, event_list, job, firmware, boot_timer,
                   power_up, power_up_error, recovered, asserted, crashes,
                   hostVars>>

\* __hdd_stop; the last interface down starts the idle timer.
Close ==
    /\ step[Opener] = "close"
    /\ pc[Opener] = "quiet"
    /\ opened' = Refused
    /\ idle_armed' = (idle_armed \/ ~Refused)
    /\ To(Opener, "rest")
    /\ TransStop(Opener)
    /\ UNCHANGED <<platVars, modules, recovering, unloading>>

-----------------------------------------------------------------------------
(* The idle work.                                                          *)

IdleFires ==
    /\ step[Idle] = "rest"
    /\ idle_armed
    /\ idle_armed' = FALSE
    /\ IF Refused THEN UNCHANGED step ELSE To(Idle, "check")
    /\ UNCHANGED <<vars, platVars, modules, opened, recovering, unloading>>

IdleCheck ==
    /\ step[Idle] = "check"
    /\ To(Idle, IF Has("RECOVERY") \/ Has("DEV_ERR") THEN "rest" ELSE "post")
    /\ UNCHANGED <<vars, platVars, hostVars>>

IdlePost ==
    /\ step[Idle] = "post"
    /\ Post("IDLE_SHUTDOWN", Idle)
    /\ To(Idle, "sync")
    /\ UNCHANGED <<vars, driver_state, job, firmware, boot_timer, power_up,
                   power_up_error, recovered, ops_lock, asserted, crashes,
                   hostVars>>

\* Whatever became of the shutdown, the recovery flag is cleared.
IdleDone ==
    /\ step[Idle] = "synced"
    /\ recovering' = FALSE
    /\ To(Idle, "rest")
    /\ UNCHANGED <<vars, platVars, modules, opened, idle_armed, unloading>>

-----------------------------------------------------------------------------
(* Unloading the driver.                                                   *)

UnloadBegin ==
    /\ step[Unloader] = "rest"
    /\ TransStart(Unloader, Driver) \/ TransQueue(Unloader, Driver)
    /\ To(Unloader, "ask")
    /\ UNCHANGED <<platVars, hostVars>>

UnloadGranted ==
    /\ step[Unloader] = "ask"
    /\ TranWake(Unloader)
    /\ UNCHANGED recVars

UnloadFlag ==
    /\ step[Unloader] = "ask"
    /\ pc[Unloader] = "trans"
    /\ unloading' = TRUE
    /\ To(Unloader, "flagged")
    /\ UNCHANGED <<vars, platVars, modules, opened, idle_armed, recovering>>

UnloadCancel ==
    /\ step[Unloader] = "flagged"
    /\ ~IdleRuns
    /\ idle_armed' = FALSE
    /\ TransStop(Unloader)
    /\ To(Unloader, "lock")
    /\ UNCHANGED <<platVars, modules, opened, recovering, unloading>>

UnloadLock ==
    /\ step[Unloader] = "lock"
    /\ ops_lock = None
    /\ ops_lock' = Unloader
    /\ To(Unloader, "power")
    /\ UNCHANGED <<vars, driver_state, event_list, job, firmware, boot_timer,
                   power_up, power_up_error, recovered, asserted, crashes,
                   hostVars>>

UnloadPowered ==
    /\ step[Unloader] = "power"
    /\ \/ power_up > 0 /\ power_up' = Consumed(power_up) /\ UNCHANGED asserted
       \/ power_up = 0 /\ Stalled /\ asserted' = TRUE /\ UNCHANGED power_up
    /\ To(Unloader, "test")
    /\ UNCHANGED <<vars, driver_state, event_list, job, firmware, boot_timer,
                   power_up_error, recovered, ops_lock, crashes, hostVars>>

UnloadTest ==
    /\ step[Unloader] = "test"
    /\ IF Has("RECOVERY") \/ Has("DEV_ERR")
       THEN To(Unloader, "clear") /\ UNCHANGED event_list
       ELSE To(Unloader, "sync") /\ Post("UNREGISTER", Unloader)
    /\ UNCHANGED <<vars, driver_state, job, firmware, boot_timer, power_up,
                   power_up_error, recovered, ops_lock, asserted, crashes,
                   hostVars>>

\* reinit_completion() comes after the test.
UnloadClear ==
    /\ step[Unloader] = "clear"
    /\ recovered' = FALSE
    /\ To(Unloader, "recover")
    /\ UNCHANGED <<vars, driver_state, event_list, job, firmware, boot_timer,
                   power_up, power_up_error, ops_lock, asserted, crashes,
                   hostVars>>

\* mutant: waits without a time-out.
UnloadRecoveredOnly ==
    /\ step[Unloader] = "recover"
    /\ recovered
    /\ Post("UNREGISTER", Unloader)
    /\ To(Unloader, "sync")
    /\ UNCHANGED <<vars, driver_state, job, firmware, boot_timer, power_up,
                   power_up_error, recovered, ops_lock, asserted, crashes,
                   hostVars>>

UnloadRecovered ==
    /\ step[Unloader] = "recover"
    /\ \/ recovered /\ UNCHANGED asserted
       \/ ~recovered /\ Stalled /\ asserted' = TRUE
    /\ Post("UNREGISTER", Unloader)
    /\ To(Unloader, "sync")
    /\ UNCHANGED <<vars, driver_state, job, firmware, boot_timer, power_up,
                   power_up_error, recovered, ops_lock, crashes, hostVars>>

Unloaded ==
    /\ step[Unloader] = "synced"
    /\ ops_lock' = None
    /\ To(Unloader, "gone")
    /\ UNCHANGED <<vars, driver_state, event_list, job, firmware, boot_timer,
                   power_up, power_up_error, recovered, asserted, crashes,
                   hostVars>>

-----------------------------------------------------------------------------
(* Users' operations on the interface.                                     *)

UserBegin(t) ==
    /\ opened
    /\ VdevCanTrans(V, recovering, unloading) = "SUCCESS"
    /\ OpStart(t, V)
    /\ UNCHANGED recVars

UserEnd(t) == OpStop(t) /\ UNCHANGED recVars

-----------------------------------------------------------------------------
WorkerStep ==
    \/ TakeRecovery \/ TakeIdleRestart \/ TakeDown \/ TakeReady
    \/ RemoveSkipped \/ SsrBegin \/ RemoveBegin \/ NapBegin \/ WorkerSyncs
    \/ SsrShutdown \/ SocRemove \/ Nap \/ PowerOff
    \/ ProbePlain \/ ProbeReinit \/ Reinit \/ ReinitStop
    \/ ProbeRestart \/ IdleRestart

OpenerStep ==
    \/ OpenerSyncs \/ OpenCheck \/ OpenRestart
    \/ OpenPowered \/ OpenTimeout \/ OpenFailed \/ Close

IdleStep == IdleFires \/ IdleCheck \/ IdlePost \/ IdleDone

UnloaderStep ==
    \/ UnloadGranted \/ UnloadFlag \/ UnloadCancel \/ UnloadLock
    \/ UnloadPowered \/ UnloadTest \/ UnloadClear \/ UnloadRecovered
    \/ Unloaded

RecNext ==
    \/ WorkerStep \/ OpenerStep \/ IdleStep \/ UnloaderStep
    \/ Booted \/ Crash \/ Hang \/ BootTimeout
    \/ OpenBegin \/ CloseBegin \/ UnloadBegin
    \/ \E t \in User : UserBegin(t) \/ UserEnd(t)

RecSpec == RecInit /\ [][RecNext]_allVars

\* The worker, the work queue and threads inside a call run on; a boot ends;
\* an armed boot timer fires; operations end.
RecFairness ==
    /\ WF_allVars(WorkerStep)
    /\ WF_allVars(OpenerStep)
    /\ WF_allVars(IdleStep)
    /\ WF_allVars(UnloaderStep)
    /\ WF_allVars(Booted \/ Hang)
    /\ WF_allVars(BootTimeout)
    /\ \A t \in User : WF_allVars(UserEnd(t))

RecFairSpec == RecSpec /\ RecFairness

-----------------------------------------------------------------------------
(* Properties.                                                             *)

RecTypeOK ==
    /\ TypeOK
    /\ driver_state \subseteq Bits
    /\ event_list \in Seq(Posts)
    /\ job \in Posts \cup {NoEvent}
    /\ firmware \in {"off", "boot", "up", "dead"}
    /\ power_up \in 0..Forever
    /\ ops_lock \in {None, Opener, Unloader}
    /\ {boot_timer, power_up_error, recovered, modules, opened, idle_armed,
        recovering, unloading, asserted} \subseteq BOOLEAN
    /\ step \in [Thread -> Steps]
    /\ crashes \in 0..MaxCrash

\* The worker asks for a transition while it still holds one.
WaitsForItself ==
    (AtRemove("shutdown") \/ AtRemove("bye")) /\ pc[Worker] = "quiet"

\* An open interface has running host modules, or a recovery or an unload
\* explains why not: idle shutdown (hdd_psoc_idle_shutdown, decided before
\* the worker runs it) never takes the modules from an interface that came up
\* in between, and a failed idle restart opens none.
OpenHasModules == opened => modules \/ Has("RECOVERY") \/ unloading

\* The host modules start and stop only while no operation is in flight on
\* the interface or the psoc, whichever of recovery, idle shutdown, idle
\* restart and unload does it (osif_psoc_sync_wait_for_ops, hdd_open).  They
\* may start beside operations only on an interface that a re-initialisation
\* left open without modules when it failed and ended its transition.
NoOps == \A n \in Node : ops[n] = {}
LeftOpen == opened /\ ~modules /\ pc[Worker] = "idle"
ModulesQuiet == [][modules' # modules => NoOps \/ LeftOpen]_allVars

\* A recovery that began ends, except when the worker and the idle work wait
\* for each other, or the host driver is gone (cnss_pci_call_driver_probe
\* clears CNSS_DRIVER_RECOVERY).
RecoveryEnds ==
    Has("RECOVERY") ~>
        (~Has("RECOVERY") \/ Entangled({}) \/ step[Unloader] = "gone")

\* The flag that firmware down sets, under which every operation is refused,
\* is cleared again unless the driver is being unloaded.
FlagEnds ==
    recovering ~> (~recovering \/ Entangled({}) \/ step[Unloader] # "rest")

\* Unloading comes to its end across crashes, time-outs and lost wake-ups
\* of recovery_complete (cnss_wlan_unregister_driver), unless the worker is
\* in one of the two dead ends.
UnloadEnds ==
    step[Unloader] # "rest" ~>
        (step[Unloader] = "gone" \/ Entangled({}) \/ WaitsForItself)

\* Bringing an interface up or down ends, with the device restarted or
\* not, unless the worker and the idle work wait for each other.
OpenEnds == step[Opener] # "rest" ~> (step[Opener] = "rest" \/ Entangled({}))

\* "recovery starts via firmware down indication; ensure we got one":
\* QDF_BUG(cds_is_driver_recovering()) in __hdd_soc_recovery_shutdown.
\* The idle work clears the flag of a crash it did not see.
Announced == Quiet("shutdown") => recovering

\* "SSR transition is concluded at the end of soc re-init"
\* (hdd_soc_recovery_shutdown): the worker at rest holds none.  With an unload
\* begun between the two, re-init returns before it ends the transition.
SsrConcluded == step[Worker] = "rest" /\ ~Has("RECOVERY") => pc[Worker] = "idle"

\* "cancel/flush any pending/active idle shutdown work"
\* (hdd_soc_recovery_cleanup): the worker does not wait for itself.  The work
\* it waits for may wait for the worker to take its IDLE_SHUTDOWN event.
NoEmbrace == ~Entangled({})

\* A crashed device is taken down.  cnss_schedule_recovery drops the crash
\* while an idle shutdown is under way that may still be refused.
CrashHandled ==
    firmware = "dead" ~> (firmware # "dead" \/ Entangled({}) \/ asserted)

-----------------------------------------------------------------------------
(* The inductive invariant.  DSC's own (IInv) knows who holds what; the    *)
(* rest says which of it each thread has at each of its steps.             *)

\* Each thread asks for transitions or operations of one node only, and no
\* queued request is aborted.
Place(t) == IF t = Worker THEN P ELSE IF t = Unloader THEN Driver ELSE V

Placed ==
    \A t \in Thread :
        /\ tran[t] # "aborted"
        /\ pc[t] # "idle" => at[t] = Place(t)
        /\ pc[t] = "op" => t \in User /\ opened

\* The opener is in its transition from the beginning of a call to its end,
\* and quiet when it looks at the modules.
OpenerHolds ==
    /\ \/ step[Opener] = "rest" /\ pc[Opener] = "idle"
       \/ step[Opener] \in {"open", "close"} /\ pc[Opener] \in {"trans", "wait", "quiet"}
       \/ step[Opener] \in {"cancel", "sync", "power", "synced"} /\ pc[Opener] = "quiet"
    /\ step[Opener] = "close" => opened

\* The worker has no transition half-way outside the three calls that begin
\* one.  It comes from TakeRecovery to a recovery shutdown.
WorkerHolds ==
    /\ step[Worker] = "rest" => job = NoEvent
    /\ step[Worker] \notin {"shutdown", "bye", "nap"} => pc[Worker] \in {"idle", "quiet"}
    /\ step[Worker] = "shutdown" => Has("RECOVERY")
    /\ step[Worker] = "reinited" => modules
    /\ step[Worker] \notin {"rest", "remove", "off"} => ~Has("FW_BOOT_RECOVERY")

\* Who posted an event that is not answered yet sleeps, and posted but one.
PostersSleep ==
    /\ job.by # None => step[job.by] = "sync"
    /\ \A i \in 1..Len(event_list) :
          LET by == event_list[i].by
          IN  by # None =>
                 /\ step[by] = "sync" /\ by # job.by
                 /\ \A j \in 1..Len(event_list) : event_list[j].by = by => i = j

\* A recovery that began in the boot of the firmware ends without having
\* touched the modules; an interface of a removed driver stays closed.
OpenAgrees ==
    /\ opened /\ Has("FW_BOOT_RECOVERY") => modules \/ unloading
    /\ ~Has("PROBED") => ~opened /\ step[Opener] = "rest"

RecIInv ==
    /\ IInv /\ RecTypeOK /\ Placed /\ OpenerHolds /\ WorkerHolds
    /\ PostersSleep /\ OpenAgrees /\ OpenHasModules
=============================================================================
