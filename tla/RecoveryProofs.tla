--------------------------- MODULE RecoveryProofs ---------------------------
(***************************************************************************)
(* Proofs about Recovery, for any tree, any users and any number of        *)
(* crashes.  Recovery moves the threads of DSC by DSC's own actions, so    *)
(* what is proved of Dsc holds in it; the inductive invariant adds what    *)
(* each thread holds at each of its steps.                                 *)
(***************************************************************************)
EXTENDS Recovery, DscPromise

-----------------------------------------------------------------------------
(* Recovery uses DSC as it is meant to be used.                            *)

\* A thread makes a step of DSC, on its own node.
Turn(t) ==
    \/ TransStart(t, Place(t)) \/ TransQueue(t, Place(t)) \/ TranWake(t)
    \/ WaitForOps(t) \/ (\E m \in Node : WaitCheck(t, m)) \/ WaitDone(t)
    \/ WaitOver(t) \/ TransStop(t)
    \/ (OpStart(t, Place(t)) /\ t \in User /\ opened) \/ OpStop(t)

\* Interface, psoc and driver are nodes, as each thread asks for them; the
\* threads differ.
LEMMA Places ==
    /\ V \in Vdev /\ P \in Psoc /\ P \in Node /\ V \in Node /\ Driver \in Node
    /\ Place(Worker) = P /\ Place(Opener) = V /\ Place(Unloader) = Driver
    /\ \A t \in User : Place(t) = V
    /\ \A t \in Thread : Place(t) \in Node
    /\ V \in WaitSet(P) /\ V \in WaitSet(V)
    /\ Worker # Opener /\ Worker # Unloader /\ Worker # Idle
    /\ Opener # Unloader /\ Opener # Idle
    /\ Worker \in Thread /\ Opener \in Thread /\ Unloader \in Thread
    /\ Idle \in Thread /\ User \subseteq Thread /\ None \notin Thread
<1>1. V \in Vdev /\ P \in Psoc
  BY ActorsAssumption, TreeAssumption DEF V, P
<1>2. P \in Node /\ V \in Node /\ Driver \in Node
  BY <1>1 DEF Node
<1>3. V \in WaitSet(P) /\ V \in WaitSet(V)
  BY <1>1, <1>2, TreeAssumption DEF WaitSet, Ancestors, P
<1> QED BY <1>1, <1>2, <1>3, ActorsAssumption, ThreadAssumption DEF Place

\* Every step of the worker is a step of DSC by it, or leaves DSC alone.
LEMMA WorkerTurns ==
    ASSUME WorkerStep
    PROVE  Turn(Worker) \/ UNCHANGED vars
<1>1. CASE \/ TakeRecovery \/ TakeIdleRestart \/ TakeDown \/ TakeReady
           \/ RemoveSkipped \/ SsrShutdown \/ PowerOff
           \/ ProbePlain \/ ProbeReinit \/ Reinit \/ ProbeRestart \/ IdleRestart
  BY <1>1 DEF TakeRecovery, TakeIdleRestart, TakeDown, TakeReady,
     RemoveSkipped, SsrShutdown, PowerOff, ProbePlain, ProbeReinit, Reinit,
     ProbeRestart, IdleRestart
<1>2. CASE SsrBegin \/ RemoveBegin \/ NapBegin
  BY <1>2, Places DEF SsrBegin, RemoveBegin, NapBegin, Turn
<1>3. CASE WorkerSyncs
  BY <1>3 DEF WorkerSyncs, Syncs, Turn
<1>4. CASE SocRemove \/ Nap \/ ReinitStop
  BY <1>4 DEF SocRemove, Nap, ReinitStop, Turn
<1> QED BY <1>1, <1>2, <1>3, <1>4 DEF WorkerStep

\* The same of the opener.
LEMMA OpenerTurns ==
    ASSUME OpenerStep \/ OpenBegin \/ CloseBegin
    PROVE  Turn(Opener) \/ UNCHANGED vars
<1>1. CASE OpenerSyncs
  BY <1>1 DEF OpenerSyncs, Syncs, Turn
<1>2. CASE \/ OpenCheck \/ OpenRestart \/ OpenPowered \/ OpenTimeout
           \/ OpenFailed \/ Close
  BY <1>2 DEF OpenCheck, OpenRestart, OpenPowered, OpenTimeout, OpenFailed,
     Close, Turn
<1>3. CASE OpenBegin \/ CloseBegin
  BY <1>3, Places DEF OpenBegin, CloseBegin, VdevBegin, Turn
<1> QED BY <1>1, <1>2, <1>3 DEF OpenerStep

\* The same of the unloader.
LEMMA UnloaderTurns ==
    ASSUME UnloaderStep \/ UnloadBegin
    PROVE  Turn(Unloader) \/ UNCHANGED vars
<1>1. CASE UnloadBegin \/ UnloadGranted \/ UnloadCancel
  BY <1>1, Places DEF UnloadBegin, UnloadGranted, UnloadCancel, Turn
<1>2. CASE \/ UnloadFlag \/ UnloadLock \/ UnloadPowered \/ UnloadTest
           \/ UnloadClear \/ UnloadRecovered \/ Unloaded
  BY <1>2 DEF UnloadFlag, UnloadLock, UnloadPowered, UnloadTest, UnloadClear,
     UnloadRecovered, Unloaded
<1> QED BY <1>1, <1>2 DEF UnloaderStep

\* The firmware and the idle work leave DSC alone.
LEMMA RestTurns ==
    ASSUME IdleStep \/ Booted \/ Crash \/ Hang \/ BootTimeout
    PROVE  UNCHANGED vars
BY DEF IdleStep, IdleFires, IdleCheck, IdlePost, IdleDone, Booted, Crash,
   Hang, BootTimeout

\* The users run operations on the open interface.
LEMMA UserTurns ==
    ASSUME NEW t \in User, UserBegin(t) \/ UserEnd(t)
    PROVE  Turn(t)
BY Places DEF UserBegin, UserEnd, Turn

\* Every step of Recovery is a step of DSC or leaves it alone.
LEMMA RecUsesDsc ==
    ASSUME [RecNext]_allVars
    PROVE  [Next]_vars
<1>1. ASSUME NEW t \in Thread, Turn(t) PROVE Next
  BY <1>1, Places DEF Turn, Next, Progress
<1>2. CASE UNCHANGED allVars
  BY <1>2 DEF allVars
<1> QED BY <1>1, <1>2, WorkerTurns, OpenerTurns, UnloaderTurns, RestTurns,
           UserTurns, Places DEF RecNext

-----------------------------------------------------------------------------
(* What a step of DSC does to the threads.                                 *)

\* A thread moves nobody but itself, and aborts no one's request.
LEMMA TurnMoves ==
    ASSUME IInv, NEW t \in Thread, Turn(t)
    PROVE  /\ pc' = [pc EXCEPT ![t] = pc'[t]]
           /\ at' = [at EXCEPT ![t] = at'[t]]
           /\ \A u \in Thread : tran'[u] = "aborted" => tran[u] = "aborted"
           /\ pc'[t] # "idle" =>
                 \/ at'[t] = at[t] /\ pc[t] # "idle"
                 \/ at'[t] = Place(t)
           /\ pc'[t] = "op" => t \in User /\ opened
<1>1. CASE TransStop(t)
  BY <1>1 DEF TransStop, IInv, TypeOK
<1>2. CASE TransStart(t, Place(t)) \/ TransQueue(t, Place(t)) \/ TranWake(t)
  BY <1>2 DEF TransStart, TransQueue, TranWake, IInv, TypeOK
<1>3. CASE \/ WaitForOps(t) \/ (\E m \in Node : WaitCheck(t, m))
           \/ WaitDone(t) \/ WaitOver(t)
  BY <1>3 DEF WaitForOps, WaitCheck, WaitDone, WaitOver, IInv, TypeOK, ThreadAgrees
<1>4. CASE (OpStart(t, Place(t)) /\ t \in User /\ opened) \/ OpStop(t)
  BY <1>4 DEF OpStart, OpStop, IInv, TypeOK
<1> QED BY <1>1, <1>2, <1>3, <1>4 DEF Turn

\* With the worker or the opener quiet, nobody has an operation.
LEMMA QuietMeansNoOps ==
    ASSUME IInv, Placed, NEW t \in {Worker, Opener}, pc[t] = "quiet"
    PROVE  NoOps /\ \A u \in Thread : pc[u] # "op"
<1>1. ops[V] = {}
  BY Places DEF IInv, Quiescence, Placed
<1>2. \A u \in Thread : pc[u] # "op"
  BY <1>1, Places DEF Placed, IInv, OpsAgree
<1> QED BY <1>2 DEF NoOps, IInv, OpsAgree, TypeOK

\* With the worker quiet the opener is at rest: their nodes are on one branch.
LEMMA QuietMeansRest ==
    ASSUME IInv, Placed, OpenerHolds, pc[Worker] = "quiet"
    PROVE  step[Opener] = "rest"
<1>1. active[P] = Worker
  BY Places DEF IInv, OwnerAgrees, Owns, Placed
<1>2. pc[Opener] \in {"trans", "wait", "quiet"} => active[V] = Opener
  BY Places DEF IInv, OwnerAgrees, Owns, Placed
<1>3. P # V /\ Related(P, V)
  BY Places, TreeAssumption DEF Related, Ancestors, P
<1> QED BY <1>1, <1>2, <1>3, Places DEF IInv, TreeExclusion, OpenerHolds

-----------------------------------------------------------------------------
(* Who changes what.                                                       *)

\* Two calls of the worker's and three of the opener's set opened.
LEMMA OpenedChanges ==
    ASSUME RecNext
    PROVE  \/ opened' = opened
           \/ SocRemove \/ OpenRestart \/ OpenPowered \/ Close
<1>1. CASE WorkerStep
  BY <1>1 DEF WorkerStep, TakeRecovery, TakeIdleRestart, TakeDown, TakeReady,
     RemoveSkipped, SsrBegin, RemoveBegin, NapBegin, WorkerSyncs, Syncs,
     SsrShutdown, Nap, PowerOff, ProbePlain, ProbeReinit, Reinit, ReinitStop,
     ProbeRestart, IdleRestart, recVars, platVars, hostVars
<1>2. CASE OpenerStep \/ OpenBegin \/ CloseBegin
  BY <1>2 DEF OpenerStep, OpenerSyncs, Syncs, OpenCheck, OpenTimeout,
     OpenFailed, OpenBegin, CloseBegin, VdevBegin, recVars, hostVars
<1>3. CASE UnloaderStep \/ UnloadBegin
  BY <1>3 DEF UnloaderStep, UnloadBegin, UnloadGranted, UnloadFlag,
     UnloadCancel, UnloadLock, UnloadPowered, UnloadTest, UnloadClear,
     UnloadRecovered, Unloaded, recVars, hostVars
<1>4. CASE \/ IdleStep \/ Booted \/ Crash \/ Hang \/ BootTimeout
           \/ \E t \in User : UserBegin(t) \/ UserEnd(t)
  BY <1>4 DEF IdleStep, IdleFires, IdleCheck, IdlePost, IdleDone, Booted,
     Crash, Hang, BootTimeout, UserBegin, UserEnd, recVars, hostVars
<1> QED BY <1>1, <1>2, <1>3, <1>4 DEF RecNext

\* Only the worker changes modules.
LEMMA ModulesChange ==
    ASSUME RecNext
    PROVE  \/ modules' = modules
           \/ SsrShutdown \/ SocRemove \/ Nap \/ Reinit \/ IdleRestart
<1>1. CASE WorkerStep
  BY <1>1 DEF WorkerStep, TakeRecovery, TakeIdleRestart, TakeDown, TakeReady,
     RemoveSkipped, SsrBegin, RemoveBegin, NapBegin, WorkerSyncs, Syncs,
     PowerOff, ProbePlain, ProbeReinit, ReinitStop, ProbeRestart, recVars,
     platVars, hostVars
<1>2. CASE OpenerStep \/ OpenBegin \/ CloseBegin
  BY <1>2 DEF OpenerStep, OpenerSyncs, Syncs, OpenCheck, OpenRestart,
     OpenPowered, OpenTimeout, OpenFailed, Close, OpenBegin, CloseBegin,
     VdevBegin, recVars, hostVars
<1>3. CASE UnloaderStep \/ UnloadBegin
  BY <1>3 DEF UnloaderStep, UnloadBegin, UnloadGranted, UnloadFlag,
     UnloadCancel, UnloadLock, UnloadPowered, UnloadTest, UnloadClear,
     UnloadRecovered, Unloaded, recVars, hostVars
<1>4. CASE \/ IdleStep \/ Booted \/ Crash \/ Hang \/ BootTimeout
           \/ \E t \in User : UserBegin(t) \/ UserEnd(t)
  BY <1>4 DEF IdleStep, IdleFires, IdleCheck, IdlePost, IdleDone, Booted,
     Crash, Hang, BootTimeout, UserBegin, UserEnd, recVars, hostVars
<1> QED BY <1>1, <1>2, <1>3, <1>4 DEF RecNext

\* The unloader raises the flag of unloading, the worker takes it down.
LEMMA UnloadingChanges ==
    ASSUME RecNext
    PROVE  (unloading => unloading') \/ SocRemove
<1>1. CASE WorkerStep
  BY <1>1 DEF WorkerStep, TakeRecovery, TakeIdleRestart, TakeDown, TakeReady,
     RemoveSkipped, SsrBegin, RemoveBegin, NapBegin, WorkerSyncs, Syncs,
     SsrShutdown, Nap, PowerOff, ProbePlain, ProbeReinit, Reinit, ReinitStop,
     ProbeRestart, IdleRestart, recVars, platVars, hostVars
<1>2. CASE OpenerStep \/ OpenBegin \/ CloseBegin
  BY <1>2 DEF OpenerStep, OpenerSyncs, Syncs, OpenCheck, OpenRestart,
     OpenPowered, OpenTimeout, OpenFailed, Close, OpenBegin, CloseBegin,
     VdevBegin, recVars, hostVars
<1>3. CASE UnloaderStep \/ UnloadBegin
  BY <1>3 DEF UnloaderStep, UnloadBegin, UnloadGranted, UnloadFlag,
     UnloadCancel, UnloadLock, UnloadPowered, UnloadTest, UnloadClear,
     UnloadRecovered, Unloaded, recVars, hostVars
<1>4. CASE \/ IdleStep \/ Booted \/ Crash \/ Hang \/ BootTimeout
           \/ \E t \in User : UserBegin(t) \/ UserEnd(t)
  BY <1>4 DEF IdleStep, IdleFires, IdleCheck, IdlePost, IdleDone, Booted,
     Crash, Hang, BootTimeout, UserBegin, UserEnd, recVars, hostVars
<1> QED BY <1>1, <1>2, <1>3, <1>4 DEF RecNext

\* The worker clears the bit of a recovery and drops a removed driver.
LEMMA BitsChange ==
    ASSUME RecNext
    PROVE  /\ \/ Has("RECOVERY") => Has("RECOVERY")'
              \/ TakeReady \/ ProbePlain \/ ProbeReinit \/ ReinitStop
              \/ IdleRestart
           /\ \/ Has("FW_BOOT_RECOVERY")' => Has("FW_BOOT_RECOVERY")
              \/ TakeRecovery
           /\ (Has("PROBED") => Has("PROBED")') \/ SocRemove
<1>1. CASE \/ TakeIdleRestart \/ TakeDown \/ RemoveSkipped \/ SsrBegin
           \/ RemoveBegin \/ NapBegin \/ WorkerSyncs \/ SsrShutdown \/ Nap
           \/ PowerOff \/ Reinit \/ ProbeRestart
  BY <1>1 DEF TakeIdleRestart, TakeDown, RemoveSkipped, SsrBegin,
     RemoveBegin, NapBegin, WorkerSyncs, Syncs, SsrShutdown, Nap, PowerOff,
     Reinit, ProbeRestart, recVars, platVars, Has
<1>2. CASE \/ TakeRecovery \/ TakeReady \/ SocRemove \/ ProbePlain
           \/ ProbeReinit \/ ReinitStop \/ IdleRestart
  BY <1>2 DEF TakeRecovery, TakeReady, SocRemove, ProbePlain, ProbeReinit,
     ReinitStop, IdleRestart, RecoveryOver, Has
<1>3. CASE OpenerStep \/ OpenBegin \/ CloseBegin
  BY <1>3 DEF OpenerStep, OpenerSyncs, Syncs, OpenCheck, OpenRestart,
     OpenPowered, OpenTimeout, OpenFailed, Close, OpenBegin, CloseBegin,
     VdevBegin, recVars, platVars, Has
<1>4. CASE UnloaderStep \/ UnloadBegin
  BY <1>4 DEF UnloaderStep, UnloadBegin, UnloadGranted, UnloadFlag,
     UnloadCancel, UnloadLock, UnloadPowered, UnloadTest, UnloadClear,
     UnloadRecovered, Unloaded, recVars, platVars, Has
<1>5. CASE \/ IdleStep \/ Booted \/ Crash \/ Hang \/ BootTimeout
           \/ \E t \in User : UserBegin(t) \/ UserEnd(t)
  BY <1>5 DEF IdleStep, IdleFires, IdleCheck, IdlePost, IdleDone, Booted,
     Crash, Hang, BootTimeout, UserBegin, UserEnd, recVars, platVars, Has
<1> QED BY <1>1, <1>2, <1>3, <1>4, <1>5 DEF RecNext, WorkerStep

\* The worker answers a thread that sleeps in a post; it moves no other.
LEMMA WorkerSteps ==
    ASSUME RecTypeOK, PostersSleep, WorkerStep, NEW u \in Thread \ {Worker}
    PROVE  \/ step'[u] = step[u]
           \/ step[u] = "sync" /\ step'[u] \in {"synced", "power"}
<1>1. ASSUME Finish
      PROVE  \/ step'[u] = step[u]
             \/ step[u] = "sync" /\ step'[u] = "synced"
  BY <1>1, Places DEF Finish, RecTypeOK, PostersSleep
<1>2. ASSUME NEW s, To(Worker, s) PROVE step'[u] = step[u]
  BY <1>2 DEF To, RecTypeOK
<1>3. CASE TakeIdleRestart
  <2>1. Len(event_list) >= 1 /\ Head(event_list) = event_list[1]
        /\ To(Head(event_list).by, "power")
    BY <1>3 DEF TakeIdleRestart, Take, RecTypeOK
  <2> QED BY <2>1, Places DEF To, RecTypeOK, PostersSleep
<1>4. CASE \/ TakeRecovery \/ TakeDown \/ TakeReady
           \/ RemoveSkipped \/ SsrBegin \/ RemoveBegin \/ NapBegin
           \/ WorkerSyncs
  BY <1>4, <1>1, <1>2 DEF TakeRecovery, TakeDown, TakeReady,
     RemoveSkipped, SsrBegin, RemoveBegin, NapBegin, WorkerSyncs, Syncs, recVars
<1>5. CASE SsrShutdown \/ SocRemove \/ Nap \/ PowerOff
  BY <1>5, <1>1, <1>2 DEF SsrShutdown, SocRemove, Nap, PowerOff
<1>6. CASE \/ ProbePlain \/ ProbeReinit \/ Reinit \/ ReinitStop
           \/ ProbeRestart \/ IdleRestart
  BY <1>6, <1>1, <1>2 DEF ProbePlain, ProbeReinit, Reinit, ReinitStop,
     ProbeRestart, IdleRestart, Abandon
<1> QED BY <1>3, <1>4, <1>5, <1>6 DEF WorkerStep

\* The other threads move themselves only.
LEMMA OtherSteps ==
    ASSUME RecTypeOK, RecNext, ~WorkerStep
    PROVE  /\ step'[Worker] = step[Worker] /\ job' = job
           /\ \/ step'[Opener] = step[Opener]
              \/ OpenerStep \/ OpenBegin \/ CloseBegin
<1>1. CASE OpenerStep \/ OpenBegin \/ CloseBegin
  BY <1>1, Places DEF OpenerStep, OpenerSyncs, Syncs, OpenCheck, OpenRestart,
     OpenPowered, OpenTimeout, OpenFailed, Close, OpenBegin, CloseBegin,
     VdevBegin, To, RecTypeOK, recVars, platVars
<1>2. CASE UnloaderStep \/ UnloadBegin
  BY <1>2, Places DEF UnloaderStep, UnloadBegin, UnloadGranted, UnloadFlag,
     UnloadCancel, UnloadLock, UnloadPowered, UnloadTest, UnloadClear,
     UnloadRecovered, Unloaded, To, RecTypeOK, recVars, platVars
<1>3. CASE \/ IdleStep \/ Booted \/ Crash \/ Hang \/ BootTimeout
           \/ \E t \in User : UserBegin(t) \/ UserEnd(t)
  BY <1>3, Places DEF IdleStep, IdleFires, IdleCheck, IdlePost, IdleDone, Booted,
     Crash, Hang, BootTimeout, UserBegin, UserEnd, To, RecTypeOK, recVars,
     platVars
<1> QED BY <1>1, <1>2, <1>3 DEF RecNext

-----------------------------------------------------------------------------
(* One step keeps each part of the invariant.                              *)

\* A step of anyone but t leaves t where it was in DSC.
LEMMA OthersTurn ==
    ASSUME IInv, RecNext, NEW t \in {Worker, Opener}
    PROVE  \/ pc'[t] = pc[t]
           \/ t = Worker /\ WorkerStep
           \/ t = Opener /\ (OpenerStep \/ OpenBegin \/ CloseBegin)
<1>0. t \in Thread /\ pc \in [Thread -> PCs]
  BY Places DEF IInv, TypeOK
<1>1. ASSUME NEW u \in Thread \ {t}, Turn(u) PROVE pc'[t] = pc[t]
  BY <1>0, <1>1, TurnMoves
<1>2. CASE UNCHANGED vars
  BY <1>2 DEF vars
<1> QED BY <1>1, <1>2, WorkerTurns, OpenerTurns, UnloaderTurns, RestTurns,
           UserTurns, ActorsAssumption, Places DEF RecNext

\* An interface is closed with no operation on it.
LEMMA ClosedQuiet ==
    ASSUME RecIInv, RecNext, opened, ~opened'
    PROVE  /\ \A u \in Thread : pc[u] # "op"
           /\ SocRemove \/ step[Opener] # "rest"
           /\ UNCHANGED vars \/ TransStop(Worker) \/ TransStop(Opener)
<1>1. CASE SocRemove
  BY <1>1, QuietMeansNoOps DEF SocRemove, Quiet, RecIInv
<1>2. CASE OpenRestart \/ OpenPowered \/ Close
  BY <1>2, QuietMeansNoOps DEF OpenRestart, OpenPowered, Close, RecIInv, OpenerHolds
<1> QED BY <1>1, <1>2, OpenedChanges

\* Threads stay on their nodes.
LEMMA PlacedStep ==
    ASSUME RecIInv, RecNext
    PROVE  Placed'
<1>1. ASSUME NEW t \in Thread, Turn(t), opened' \/ ~opened
      PROVE  Placed'
  <2> SUFFICES ASSUME NEW u \in Thread
               PROVE  /\ tran'[u] # "aborted"
                      /\ pc'[u] # "idle" => at'[u] = Place(u)
                      /\ pc'[u] = "op" => u \in User /\ opened'
    BY DEF Placed, Place
  <2>1. CASE u = t
    BY <1>1, <2>1, TurnMoves DEF RecIInv, Placed
  <2>2. CASE u # t
    <3>1. pc'[u] = pc[u] /\ at'[u] = at[u]
      BY <1>1, <2>2, TurnMoves DEF RecIInv, IInv, TypeOK
    <3> QED BY <1>1, <3>1, TurnMoves DEF RecIInv, Placed
  <2> QED BY <2>1, <2>2
<1>2. CASE UNCHANGED vars /\ (opened' \/ ~opened)
  BY <1>2 DEF vars, RecIInv, Placed, Place
<1>3. CASE opened /\ ~opened'
  <2>1. \A u \in Thread : pc[u] # "op"
    BY <1>3, ClosedQuiet
  <2>2. CASE UNCHANGED vars
    BY <2>1, <2>2 DEF vars, RecIInv, Placed, Place
  <2>3. ASSUME NEW t \in Thread, TransStop(t) PROVE Placed'
    BY <2>1, <2>3 DEF TransStop, RecIInv, IInv, TypeOK, Placed, Place
  <2> QED BY <2>2, <2>3, <1>3, ClosedQuiet, Places
<1> QED BY <1>1, <1>2, <1>3, WorkerTurns, OpenerTurns, UnloaderTurns,
           RestTurns, UserTurns, Places DEF RecNext

\* The opener's transition agrees with its step.
LEMMA OpenerStepHolds ==
    ASSUME RecIInv, RecNext
    PROVE  OpenerHolds'
<1>0. pc \in [Thread -> PCs] /\ step \in [Thread -> Steps]
  BY DEF RecIInv, IInv, TypeOK, RecTypeOK
<1>1. CASE OpenBegin \/ CloseBegin
  BY <1>0, <1>1, Places DEF OpenBegin, CloseBegin, VdevBegin, TransStart, To,
     hostVars, OpenerHolds
<1>2. CASE OpenerSyncs
  <2>1. step' = step /\ opened' = opened /\ step[Opener] \in {"open", "close"}
        /\ pc[Opener] \in {"trans", "wait", "quiet"}
    BY <1>2 DEF OpenerSyncs, Syncs, recVars, hostVars, RecIInv, OpenerHolds
  <2>2. pc'[Opener] \in {"trans", "wait", "quiet"}
    BY <1>0, <1>2, <2>1, Places DEF OpenerSyncs, Syncs, TranWake, WaitForOps,
       WaitCheck, WaitDone, WaitOver
  <2> QED BY <2>1, <2>2 DEF RecIInv, OpenerHolds
<1>3. CASE OpenCheck \/ OpenRestart
  BY <1>0, <1>3, Places DEF OpenCheck, OpenRestart, TransStop, To, vars,
     RecIInv, OpenerHolds
<1>4. CASE OpenPowered \/ OpenTimeout \/ OpenFailed \/ Close
  BY <1>0, <1>4, Places DEF OpenPowered, OpenTimeout, OpenFailed, Close,
     TransStop, To, vars, RecIInv, OpenerHolds
<1>5. CASE WorkerStep
  <2>1. \/ step'[Opener] = step[Opener]
        \/ step[Opener] = "sync" /\ step'[Opener] \in {"synced", "power"}
    BY <1>5, WorkerSteps, Places DEF RecIInv
  <2>2. pc'[Opener] = pc[Opener]
    <3>1. ASSUME Turn(Worker) PROVE pc'[Opener] = pc[Opener]
      BY <1>0, <3>1, TurnMoves, Places DEF RecIInv
    <3> QED BY <3>1, <1>5, WorkerTurns DEF vars
  <2>3. step[Opener] = "close" => opened'
    <3>1. CASE SocRemove
      BY <3>1, QuietMeansRest DEF SocRemove, Quiet, RecIInv
    <3>2. CASE opened' = opened
      BY <3>2 DEF RecIInv, OpenerHolds
    <3>3. CASE OpenRestart \/ OpenPowered \/ Close
      BY <3>3, <2>1, <1>0, Places DEF OpenRestart, OpenPowered, Close, To
    <3> QED BY <3>1, <3>2, <3>3, OpenedChanges
  <2> QED BY <2>1, <2>2, <2>3 DEF RecIInv, OpenerHolds
<1>6. CASE ~WorkerStep /\ ~(OpenerStep \/ OpenBegin \/ CloseBegin)
  <2>1. step'[Opener] = step[Opener] /\ pc'[Opener] = pc[Opener]
    BY <1>6, OtherSteps, OthersTurn, Places DEF RecIInv
  <2>2. opened' = opened
    BY <1>6, OpenedChanges DEF WorkerStep, OpenerStep
  <2> QED BY <2>1, <2>2 DEF RecIInv, OpenerHolds
<1> QED BY <1>1, <1>2, <1>3, <1>4, <1>5, <1>6 DEF OpenerStep

\* The worker's transition agrees with its step.
LEMMA WorkerStepHolds ==
    ASSUME RecIInv, RecNext
    PROVE  WorkerHolds'
<1>0. /\ pc \in [Thread -> PCs] /\ step \in [Thread -> Steps]
      /\ job \in Posts \cup {NoEvent} /\ NoEvent.by = None
      /\ job.by \in {None, Opener, Idle, Unloader}
  BY DEF RecIInv, IInv, TypeOK, RecTypeOK, Posts, NoEvent
<1>a. ASSUME Finish PROVE step'[Worker] = "rest" /\ job' = NoEvent
  BY <1>0, <1>a, Places DEF Finish
<1>b. ASSUME NEW s, To(Worker, s) PROVE step'[Worker] = s
  BY <1>0, <1>b, Places DEF To
<1>1. CASE ~WorkerStep
  <2>1. step'[Worker] = step[Worker] /\ job' = job /\ pc'[Worker] = pc[Worker]
    BY <1>1, OtherSteps, OthersTurn, Places DEF RecIInv
  <2>2. modules' = modules
    BY <1>1, ModulesChange DEF WorkerStep
  <2>3. /\ Has("RECOVERY") => Has("RECOVERY")'
        /\ Has("FW_BOOT_RECOVERY")' => Has("FW_BOOT_RECOVERY")
    BY <1>1, BitsChange DEF WorkerStep
  <2> QED BY <2>1, <2>2, <2>3 DEF RecIInv, WorkerHolds
<1>2. CASE TakeRecovery
  BY <1>0, <1>b, <1>2, Places DEF TakeRecovery, Take, vars, RecIInv, WorkerHolds, Has
<1>3. CASE TakeIdleRestart
  <2>1. step'[Worker] = "rest"
    <3>1. Head(event_list).by # Worker
      <4>1. event_list \in Seq(Posts) /\ event_list # << >>
        BY <1>3 DEF TakeIdleRestart, Take, RecIInv, RecTypeOK
      <4>2. Head(event_list) \in Posts
        BY <4>1
      <4> QED BY <4>2, Places DEF Posts
    <3> QED BY <1>0, <1>3, <3>1, Places DEF TakeIdleRestart, Take, To
  <2> QED BY <2>1, <1>3 DEF TakeIdleRestart, Take, vars, RecIInv, WorkerHolds
<1>4. CASE TakeDown \/ TakeReady \/ RemoveSkipped
  BY <1>0, <1>b, <1>4 DEF TakeDown, TakeReady, RemoveSkipped, Take, AtRemove,
     RemoveIs, vars, platVars, RecIInv, WorkerHolds, Has
<1>5. CASE SsrBegin \/ RemoveBegin \/ NapBegin
  BY <1>0, <1>a, <1>b, <1>5 DEF SsrBegin, RemoveBegin, NapBegin, AtRemove,
     RemoveIs, vars, platVars, hostVars, RecIInv, WorkerHolds, Has
<1>6. CASE WorkerSyncs
  BY <1>6 DEF WorkerSyncs, Syncs, recVars, platVars, hostVars, RecIInv, WorkerHolds, Has
<1>7. CASE SsrShutdown
  BY <1>b, <1>7 DEF SsrShutdown, Quiet, vars, platVars, RecIInv, WorkerHolds
<1>8. CASE SocRemove \/ Nap
  BY <1>0, <1>a, <1>b, <1>8, Places DEF SocRemove, Nap, TransStop, RecIInv, WorkerHolds
<1>9. CASE PowerOff \/ ProbePlain \/ ProbeReinit \/ ProbeRestart
  BY <1>0, <1>a, <1>b, <1>9 DEF PowerOff, ProbePlain, ProbeReinit,
     ProbeRestart, vars, platVars, hostVars, RecIInv, WorkerHolds, Has
<1>10. CASE Reinit
  BY <1>b, <1>10 DEF Reinit, vars, platVars, RecIInv, WorkerHolds, Has
<1>11. CASE ReinitStop
  BY <1>0, <1>a, <1>b, <1>11, Places DEF ReinitStop, Abandon, TransStop, vars,
     RecIInv, WorkerHolds
<1>12. CASE IdleRestart
  BY <1>a, <1>b, <1>12 DEF IdleRestart, Abandon, vars, RecIInv, WorkerHolds
<1> QED BY <1>1, <1>2, <1>3, <1>4, <1>5, <1>6, <1>7, <1>8, <1>9, <1>10,
           <1>11, <1>12 DEF WorkerStep

\* Every event on the list is somebody's or nobody's.
LEMMA EventsTyped ==
    ASSUME RecTypeOK
    PROVE  /\ event_list \in Seq(Posts) /\ Len(event_list) \in Nat
           /\ \A i \in 1..Len(event_list) :
                 event_list[i].by \in {None, Opener, Idle, Unloader}
           /\ job.by \in {None, Opener, Idle, Unloader} /\ NoEvent.by = None
<1>1. event_list \in Seq(Posts)
  BY DEF RecTypeOK
<1>2. Len(event_list) \in Nat /\ \A i \in 1..Len(event_list) : event_list[i] \in Posts
  BY <1>1
<1>3. \A e \in Posts : e.by \in {None, Opener, Idle, Unloader}
  BY DEF Posts
<1>4. job \in Posts \cup {NoEvent} /\ NoEvent.by = None
  BY DEF RecTypeOK, NoEvent
<1> QED BY <1>1, <1>2, <1>3, <1>4

\* Posting keeps the posters' sleep: the poster did not sleep before.
LEMMA PostKeeps ==
    ASSUME RecTypeOK, PostersSleep, NEW type \in Events,
           NEW by \in {None, Opener, Idle, Unloader},
           event_list' = Append(event_list, Event(type, by)), job' = job,
           \A u \in Thread \ {by} : step[u] = "sync" => step'[u] = "sync",
           by # None => step[by] # "sync" /\ step'[by] = "sync"
    PROVE  PostersSleep'
<1> DEFINE n == Len(event_list)
<1>1. event_list \in Seq(Posts) /\ Event(type, by) \in Posts
      /\ Event(type, by).by = by
  BY DEF RecTypeOK, Event, Posts
<1>2. /\ n \in Nat /\ Len(event_list') = n + 1
      /\ \A i \in 1..n : event_list'[i] = event_list[i]
                         /\ event_list[i].by \in {None, Opener, Idle, Unloader}
      /\ event_list'[n + 1].by = by
  BY <1>1, EventsTyped
<1>3. job.by \in {None, Opener, Idle, Unloader}
  BY EventsTyped
<1>4. \A i \in 1..n : event_list[i].by # None =>
          event_list[i].by # by /\ step'[event_list[i].by] = "sync"
  BY <1>2, Places, ActorsAssumption DEF PostersSleep
<1>5. job.by # None => job.by # by /\ step'[job.by] = "sync"
  BY <1>3, Places, ActorsAssumption DEF PostersSleep
<1>6. \A i \in 1..(n + 1) : i \in 1..n \/ i = n + 1
  BY <1>2
<1>7. ASSUME NEW i \in 1..(n + 1), event_list'[i].by # None
      PROVE  /\ step'[event_list'[i].by] = "sync"
             /\ event_list'[i].by # job.by
             /\ \A j \in 1..(n + 1) : event_list'[j].by = event_list'[i].by => i = j
  <2>1. CASE i \in 1..n
    BY <1>2, <1>4, <1>6, <1>7, <2>1 DEF PostersSleep
  <2>2. CASE i = n + 1
    BY <1>2, <1>4, <1>5, <1>6, <1>7, <2>2
  <2> QED BY <1>6, <2>1, <2>2
<1> QED BY <1>2, <1>5, <1>7 DEF PostersSleep

\* Taking an event keeps it: the rest of the list is of others.
LEMMA TakeKeeps ==
    ASSUME RecTypeOK, PostersSleep, NEW type, Take(type),
           \/ job' = Head(event_list) \/ job' = NoEvent,
           \A u \in Thread \ {Worker} : step[u] = "sync" =>
               step'[u] = "sync"
               \/ (u = Head(event_list).by /\ job' = NoEvent)
    PROVE  PostersSleep'
<1> DEFINE n == Len(event_list)
<1>1. event_list \in Seq(Posts) /\ event_list # << >> /\ event_list' = Tail(event_list)
  BY DEF RecTypeOK, Take
<1>2. /\ n \in Nat /\ n >= 1 /\ Len(event_list') = n - 1
      /\ \A i \in 1..(n - 1) : event_list'[i] = event_list[i + 1]
      /\ Head(event_list) = event_list[1]
      /\ \A i \in 1..n : event_list[i].by \in {None, Opener, Idle, Unloader}
  BY <1>1, EventsTyped
<1>3. \A i \in 1..(n - 1) : i + 1 \in 1..n /\ i + 1 # 1
  BY <1>2
<1>4. 1 \in 1..n /\ NoEvent.by = None
  BY <1>2 DEF NoEvent
<1>5. ASSUME NEW i \in 1..(n - 1), event_list'[i].by # None
      PROVE  /\ step'[event_list'[i].by] = "sync"
             /\ event_list'[i].by # job'.by
             /\ \A j \in 1..(n - 1) : event_list'[j].by = event_list'[i].by => i = j
  <2>1. event_list'[i].by # event_list[1].by
    BY <1>2, <1>3, <1>4, <1>5 DEF PostersSleep
  <2>2. /\ step[event_list'[i].by] = "sync"
        /\ event_list'[i].by \in Thread \ {Worker}
    BY <1>2, <1>3, <1>5, Places DEF PostersSleep
  <2>3. \A j \in 1..(n - 1) : event_list'[j].by = event_list'[i].by => i = j
    BY <1>2, <1>3, <1>5 DEF PostersSleep
  <2> QED BY <1>2, <1>4, <1>5, <2>1, <2>2, <2>3
<1>6. job'.by # None => step'[job'.by] = "sync"
  <2>1. CASE job' = NoEvent
    BY <2>1, <1>4
  <2>2. CASE job' # NoEvent
    BY <2>2, <1>2, <1>4, Places DEF PostersSleep
  <2> QED BY <2>1, <2>2
<1> QED BY <1>2, <1>5, <1>6 DEF PostersSleep

\* Answering keeps it: the event of the answered thread is no longer there.
LEMMA AnswerKeeps ==
    ASSUME RecTypeOK, PostersSleep, event_list' = event_list,
           job' = job \/ job' = NoEvent,
           \A u \in Thread \ {Worker} : step[u] = "sync" =>
               step'[u] = "sync" \/ (u = job.by /\ job' = NoEvent)
    PROVE  PostersSleep'
BY EventsTyped, Places DEF PostersSleep

\* A thread sleeps as long as its event is not answered.
LEMMA PostersSleepStep ==
    ASSUME RecIInv, RecNext
    PROVE  PostersSleep'
<1>0. /\ step \in [Thread -> Steps] /\ RecTypeOK /\ PostersSleep
      /\ (step[Worker] = "rest" => job = NoEvent)
  BY DEF RecIInv, RecTypeOK, WorkerHolds
<1> DEFINE Awake(S) == \A u \in Thread \ S : step[u] = "sync" => step'[u] = "sync"
<1>a. ASSUME Finish
      PROVE  job' = NoEvent /\ Awake({Worker, job.by})
  BY <1>0, <1>a DEF Finish
<1>b. ASSUME NEW t, NEW s, To(t, s) PROVE Awake({t})
  BY <1>0, <1>b DEF To
<1>1. CASE TakeRecovery
  <2>1. Take("RECOVERY") /\ Awake({Worker}) /\ (job' = Head(event_list) \/ job' = NoEvent)
    BY <1>0, <1>1, <1>b DEF TakeRecovery, Take
  <2> QED BY <1>0, <2>1, TakeKeeps
<1>2. CASE TakeIdleRestart
  <2>1. Take("IDLE_RESTART") /\ Awake({Head(event_list).by}) /\ job' = NoEvent
    BY <1>0, <1>2, <1>b DEF TakeIdleRestart, Take
  <2> QED BY <1>0, <2>1, TakeKeeps
<1>3. CASE TakeDown \/ TakeReady
  <2>1. PICK type : Take(type) /\ Awake({Worker}) /\ job' = Head(event_list)
    BY <1>3, <1>b DEF TakeDown, TakeReady
  <2> QED BY <1>0, <2>1, TakeKeeps
<1>4. CASE \/ RemoveSkipped \/ SsrBegin \/ RemoveBegin \/ WorkerSyncs
           \/ SsrShutdown \/ SocRemove \/ Reinit \/ ProbeRestart
  <2>1. event_list' = event_list /\ job' = job /\ Awake({Worker})
    BY <1>b, <1>4 DEF RemoveSkipped, SsrBegin, RemoveBegin, WorkerSyncs,
       Syncs, SsrShutdown, SocRemove, Reinit, ProbeRestart, recVars, platVars
  <2> QED BY <1>0, <2>1, AnswerKeeps
<1>5. CASE \/ NapBegin \/ Nap \/ PowerOff \/ ProbePlain \/ ProbeReinit
           \/ ReinitStop \/ IdleRestart
  <2>1. /\ event_list' = event_list
        /\ \/ Finish
           \/ job' = job /\ \E s : To(Worker, s)
    BY <1>5 DEF NapBegin, Nap, PowerOff, ProbePlain, ProbeReinit,
       ReinitStop, IdleRestart, Abandon
  <2>2. \/ job' = NoEvent /\ Awake({Worker, job.by})
        \/ job' = job /\ Awake({Worker})
    BY <2>1, <1>a, <1>b
  <2> QED BY <1>0, <2>1, <2>2, AnswerKeeps
<1>6. ASSUME NEW by \in {Opener, Idle, Unloader}, NEW type \in Events,
             Post(type, by), To(by, "sync"), step[by] # "sync", job' = job
      PROVE  PostersSleep'
  <2>1. step'[by] = "sync" /\ Awake({by}) /\ by # None
    BY <1>0, <1>6, <1>b, Places, ActorsAssumption DEF To
  <2> QED BY <1>0, <1>6, <2>1, PostKeeps DEF Post
<1>7. ASSUME NEW by \in {Opener, Idle, Unloader}, NEW s, To(by, s),
             step[by] # "sync", job' = job, event_list' = event_list
      PROVE  PostersSleep'
  BY <1>0, <1>7, <1>b, AnswerKeeps
<1>8. CASE OpenRestart
  BY <1>6, <1>7, <1>8 DEF OpenRestart, Events
<1>9. CASE OpenTimeout \/ IdlePost
  BY <1>6, <1>9 DEF OpenTimeout, IdlePost, Events
<1>10. CASE UnloadTest \/ UnloadRecovered
  BY <1>6, <1>7, <1>10 DEF UnloadTest, UnloadRecovered, Events
<1>11. CASE \/ OpenCheck \/ OpenPowered \/ OpenFailed \/ Close
            \/ OpenBegin \/ CloseBegin
  BY <1>7, <1>11 DEF OpenCheck, OpenPowered, OpenFailed, Close, OpenBegin,
     CloseBegin, VdevBegin, platVars
<1>12. CASE \/ IdleCheck \/ IdleDone \/ UnloadBegin \/ UnloadFlag
            \/ UnloadCancel \/ UnloadLock \/ UnloadPowered \/ UnloadClear
            \/ Unloaded
  BY <1>7, <1>12 DEF IdleCheck, IdleDone, UnloadBegin, UnloadFlag,
     UnloadCancel, UnloadLock, UnloadPowered, UnloadClear, Unloaded, platVars
<1>13. CASE \/ OpenerSyncs \/ UnloadGranted \/ IdleFires \/ Hang
            \/ \E t \in User : UserBegin(t) \/ UserEnd(t)
  <2>1. event_list' = event_list /\ job' = job
        /\ (step' = step \/ (step[Idle] # "sync" /\ To(Idle, "check")))
    BY <1>13 DEF OpenerSyncs, UnloadGranted, IdleFires, Hang, UserBegin,
       UserEnd, Syncs, recVars, platVars
  <2> QED BY <1>0, <1>7, <2>1, AnswerKeeps
<1>14. CASE Booted \/ Crash \/ BootTimeout
  <2>1. step' = step /\ job' = job
        /\ \/ event_list' = event_list
           \/ \E type \in Events : event_list' = Append(event_list, Event(type, None))
    BY <1>14 DEF Booted, Crash, BootTimeout, Scheduled, Events
  <2> QED BY <1>0, <2>1, PostKeeps, AnswerKeeps
<1> QED BY <1>1, <1>2, <1>3, <1>4, <1>5, <1>8, <1>9, <1>10, <1>11, <1>12,
           <1>13, <1>14
        DEF RecNext, WorkerStep, OpenerStep, IdleStep, UnloaderStep

\* An interface is open only with modules, a recovery, or an unload.
LEMMA OpenStep ==
    ASSUME RecIInv, RecNext, opened'
    PROVE  /\ modules' \/ Has("RECOVERY")' \/ unloading'
           /\ Has("FW_BOOT_RECOVERY")' => modules' \/ unloading'
<1>0. /\ opened => modules \/ Has("RECOVERY") \/ unloading
      /\ opened /\ Has("FW_BOOT_RECOVERY") => modules \/ unloading
      /\ ~Has("PROBED") => ~opened
  BY DEF RecIInv, OpenHasModules, OpenAgrees
<1>1. CASE OpenRestart \/ OpenPowered
  BY <1>0, <1>1 DEF OpenRestart, OpenPowered, UpAgain, Has
<1>2. opened \/ OpenRestart \/ OpenPowered
  BY OpenedChanges DEF SocRemove, Close, RecIInv, OpenerHolds, OpenRestart, OpenPowered
<1>3. ~SocRemove
  BY DEF SocRemove
<1>4. CASE SsrShutdown
  BY <1>4, <1>0 DEF SsrShutdown, Quiet, platVars, RecIInv, WorkerHolds, Has
<1>5. CASE opened /\ ~SsrShutdown
  <2>1. (modules => modules') /\ (unloading => unloading')
    <3>1. CASE Nap \/ Reinit \/ IdleRestart
      BY <1>3, <1>5, <3>1, UnloadingChanges DEF Nap, Reinit, IdleRestart, Starts
    <3> QED BY <1>3, <1>5, <3>1, ModulesChange, UnloadingChanges
  <2>2. CASE Has("RECOVERY") => Has("RECOVERY")'
    <3>1. CASE TakeRecovery
      BY <1>0, <1>5, <2>1, <3>1 DEF TakeRecovery, hostVars, Has
    <3> QED BY <1>0, <1>5, <2>1, <2>2, <3>1, BitsChange
  <2>3. CASE TakeReady
    BY <1>0, <1>5, <2>3 DEF TakeReady, hostVars, Has
  <2>4. CASE ProbePlain \/ ProbeReinit
    BY <1>0, <1>5, <2>4 DEF ProbePlain, ProbeReinit, RecoveryOver, hostVars, Has
  <2>5. CASE ReinitStop \/ IdleRestart
    BY <1>0, <1>5, <2>1, <2>5 DEF ReinitStop, IdleRestart, RecoveryOver,
       hostVars, Has, RecIInv, WorkerHolds
  <2> QED BY <2>2, <2>3, <2>4, <2>5, BitsChange
<1> QED BY <1>1, <1>2, <1>4, <1>5

\* A removed driver's interface stays closed.
LEMMA ProbedStep ==
    ASSUME RecIInv, RecNext, ~Has("PROBED")'
    PROVE  ~opened' /\ step'[Opener] = "rest"
<1>0. step \in [Thread -> Steps]
  BY DEF RecIInv, RecTypeOK
<1>1. CASE SocRemove
  <2>1. step[Opener] = "rest"
    BY <1>1, QuietMeansRest DEF SocRemove, Quiet, RecIInv
  <2> QED BY <1>0, <1>1, <2>1, Places DEF SocRemove, To
<1>2. CASE ~Has("PROBED")
  <2>1. ~opened /\ step[Opener] = "rest"
    BY <1>2 DEF RecIInv, OpenAgrees
  <2>2. ~(OpenerStep \/ OpenBegin \/ CloseBegin)
    BY <1>2, <2>1, Places, ActorsAssumption DEF OpenerStep, OpenerSyncs,
       Syncs, OpenCheck, OpenRestart, OpenPowered, OpenTimeout, OpenFailed,
       Close, OpenBegin, CloseBegin, VdevBegin
  <2>3. ~opened'
    BY <2>1, <2>2, OpenedChanges DEF OpenerStep, SocRemove
  <2>4. step'[Opener] = "rest"
    BY <2>1, <2>2, WorkerSteps, OtherSteps, Places DEF RecIInv
  <2> QED BY <2>3, <2>4
<1> QED BY <1>1, <1>2, BitsChange

-----------------------------------------------------------------------------
(* Types.                                                                  *)

\* What the worker and the posters do to the list, the job and the steps.
LEMMA FlowTyped ==
    ASSUME RecTypeOK, RecNext
    PROVE  /\ event_list' \in Seq(Posts) /\ job' \in Posts \cup {NoEvent}
           /\ step' \in [Thread -> Steps]
<1>0. /\ event_list \in Seq(Posts) /\ job \in Posts \cup {NoEvent}
      /\ step \in [Thread -> Steps]
  BY DEF RecTypeOK
<1>a. ASSUME Finish
      PROVE  job' \in Posts \cup {NoEvent} /\ step' \in [Thread -> Steps]
  BY <1>0, <1>a DEF Finish, Steps
<1>b. ASSUME NEW t, NEW s \in Steps, To(t, s) PROVE step' \in [Thread -> Steps]
  BY <1>0, <1>b DEF To
<1>c. ASSUME NEW type, Take(type)
      PROVE  Head(event_list) \in Posts /\ event_list' \in Seq(Posts)
  BY <1>0, <1>c DEF Take
<1>d. ASSUME NEW type \in Events, NEW by \in {None, Opener, Idle, Unloader},
             event_list' = Append(event_list, Event(type, by))
      PROVE  event_list' \in Seq(Posts)
  <2>1. Event(type, by) \in Posts
    BY DEF Event, Posts
  <2> QED BY <1>0, <1>d, <2>1
<1>e. {"rest", "remove", "shutdown", "nap", "bye", "off", "probe", "reinit",
       "reinited", "failed", "restart", "check", "cancel", "post", "sync",
       "synced", "power", "open", "close", "ask", "flagged", "lock",
       "test", "clear", "recover", "gone"} \subseteq Steps
  BY DEF Steps
<1>1. CASE TakeRecovery \/ TakeIdleRestart \/ TakeDown \/ TakeReady
  BY <1>0, <1>b, <1>c, <1>e, <1>1 DEF TakeRecovery, TakeIdleRestart,
     TakeDown, TakeReady
<1>2. CASE \/ RemoveSkipped \/ SsrBegin \/ RemoveBegin \/ WorkerSyncs
           \/ SsrShutdown \/ SocRemove \/ Reinit \/ ProbeRestart
  BY <1>0, <1>b, <1>e, <1>2 DEF RemoveSkipped, SsrBegin, RemoveBegin,
     WorkerSyncs, Syncs, SsrShutdown, SocRemove, Reinit, ProbeRestart,
     recVars, platVars
<1>3. CASE \/ NapBegin \/ Nap \/ PowerOff \/ ProbePlain \/ ProbeReinit
           \/ ReinitStop \/ IdleRestart
  BY <1>0, <1>a, <1>b, <1>e, <1>3 DEF NapBegin, Nap, PowerOff, ProbePlain,
     ProbeReinit, ReinitStop, IdleRestart, Abandon
<1>4. CASE OpenRestart \/ OpenTimeout \/ IdlePost \/ UnloadTest \/ UnloadRecovered
  BY <1>0, <1>b, <1>d, <1>e, <1>4 DEF OpenRestart, OpenTimeout, IdlePost,
     UnloadTest, UnloadRecovered, Post, Events
<1>5. CASE \/ OpenCheck \/ OpenPowered \/ OpenFailed \/ Close
           \/ OpenBegin \/ CloseBegin
  BY <1>0, <1>b, <1>e, <1>5 DEF OpenCheck, OpenPowered, OpenFailed, Close,
     OpenBegin, CloseBegin, VdevBegin, platVars
<1>6. CASE \/ IdleFires \/ IdleCheck \/ IdleDone \/ UnloadBegin \/ UnloadFlag
           \/ UnloadCancel \/ UnloadLock \/ UnloadPowered \/ UnloadClear
           \/ Unloaded
  BY <1>0, <1>b, <1>e, <1>6 DEF IdleFires, IdleCheck, IdleDone, UnloadBegin,
     UnloadFlag, UnloadCancel, UnloadLock, UnloadPowered, UnloadClear,
     Unloaded, platVars
<1>7. CASE \/ OpenerSyncs \/ UnloadGranted \/ Hang
           \/ \E t \in User : UserBegin(t) \/ UserEnd(t)
  BY <1>0, <1>7 DEF OpenerSyncs, UnloadGranted, Hang, UserBegin, UserEnd,
     Syncs, recVars, platVars
<1>8. CASE Booted \/ Crash \/ BootTimeout
  BY <1>0, <1>d, <1>8 DEF Booted, Crash, BootTimeout, Scheduled, Events
<1> QED BY <1>1, <1>2, <1>3, <1>4, <1>5, <1>6, <1>7, <1>8
        DEF RecNext, WorkerStep, OpenerStep, IdleStep, UnloaderStep

\* The bits of driver_state.
LEMMA BitsTyped ==
    ASSUME RecTypeOK, RecNext
    PROVE  driver_state' \subseteq Bits
<1>0. driver_state \subseteq Bits
  BY ActorsAssumption DEF RecTypeOK
<1>a. {"FW_READY", "DEV_ERR", "RECOVERY", "FW_BOOT_RECOVERY", "IDLE_RESTART",
       "IDLE_SHUTDOWN", "UNLOADING"} \subseteq Bits
  BY DEF Bits
<1>1. CASE TakeRecovery \/ TakeIdleRestart \/ TakeDown \/ TakeReady
  BY <1>0, <1>1, <1>a DEF TakeRecovery, TakeIdleRestart, TakeDown, TakeReady,
     recVars, platVars
<1>2. CASE \/ RemoveSkipped \/ SsrBegin \/ RemoveBegin \/ NapBegin
           \/ WorkerSyncs \/ SsrShutdown \/ SocRemove \/ Nap \/ PowerOff
  BY <1>0, <1>2, <1>a DEF RemoveSkipped, SsrBegin, RemoveBegin, NapBegin,
     WorkerSyncs, SsrShutdown, SocRemove, Nap, PowerOff, Syncs, recVars,
     platVars
<1>3. CASE \/ ProbePlain \/ ProbeReinit \/ Reinit \/ ReinitStop \/ ProbeRestart
           \/ IdleRestart
  BY <1>0, <1>3, <1>a DEF ProbePlain, ProbeReinit, Reinit, ReinitStop,
     ProbeRestart, IdleRestart, RecoveryOver, recVars, platVars
<1>4. CASE OpenerStep \/ OpenBegin \/ CloseBegin
  BY <1>0, <1>4, <1>a DEF OpenerStep, OpenerSyncs, OpenCheck, OpenRestart,
     OpenPowered, OpenTimeout, OpenFailed, Close, OpenBegin, CloseBegin,
     Syncs, VdevBegin, recVars, platVars
<1>5. CASE UnloaderStep \/ UnloadBegin
  BY <1>0, <1>5, <1>a DEF UnloaderStep, UnloadBegin, UnloadGranted,
     UnloadFlag, UnloadCancel, UnloadLock, UnloadPowered, UnloadTest,
     UnloadClear, UnloadRecovered, Unloaded, recVars, platVars
<1>6. CASE \/ IdleStep \/ Booted \/ Crash \/ Hang \/ BootTimeout
           \/ \E t \in User : UserBegin(t) \/ UserEnd(t)
  BY <1>0, <1>6, <1>a DEF IdleStep, IdleFires, IdleCheck, IdlePost, IdleDone,
     Booted, Crash, Hang, BootTimeout, UserBegin, UserEnd, recVars, platVars
<1> QED BY <1>1, <1>2, <1>3, <1>4, <1>5, <1>6 DEF RecNext, WorkerStep

\* The firmware and the lock.
LEMMA DeviceTyped ==
    ASSUME RecTypeOK, RecNext
    PROVE  /\ firmware' \in {"off", "boot", "up", "dead"}
           /\ ops_lock' \in {None, Opener, Unloader}
<1>0. /\ firmware \in {"off", "boot", "up", "dead"}
      /\ ops_lock \in {None, Opener, Unloader}
  BY ActorsAssumption DEF RecTypeOK
<1>1. CASE TakeRecovery \/ TakeIdleRestart \/ TakeDown \/ TakeReady
  BY <1>0, <1>1 DEF TakeRecovery, TakeIdleRestart, TakeDown, TakeReady,
     PowerOn, recVars, platVars
<1>2. CASE \/ RemoveSkipped \/ SsrBegin \/ RemoveBegin \/ NapBegin
           \/ WorkerSyncs \/ SsrShutdown \/ SocRemove \/ Nap \/ PowerOff
  BY <1>0, <1>2 DEF RemoveSkipped, SsrBegin, RemoveBegin, NapBegin,
     WorkerSyncs, SsrShutdown, SocRemove, Nap, PowerOff, Syncs, recVars,
     platVars
<1>3. CASE \/ ProbePlain \/ ProbeReinit \/ Reinit \/ ReinitStop \/ ProbeRestart
           \/ IdleRestart
  BY <1>0, <1>3 DEF ProbePlain, ProbeReinit, Reinit, ReinitStop,
     ProbeRestart, IdleRestart, recVars, platVars
<1>4. CASE OpenerStep \/ OpenBegin \/ CloseBegin
  BY <1>0, <1>4 DEF OpenerStep, OpenerSyncs, OpenCheck, OpenRestart,
     OpenPowered, OpenTimeout, OpenFailed, Close, OpenBegin, CloseBegin,
     Syncs, VdevBegin, recVars, platVars
<1>5. CASE UnloaderStep \/ UnloadBegin
  BY <1>0, <1>5 DEF UnloaderStep, UnloadBegin, UnloadGranted, UnloadFlag,
     UnloadCancel, UnloadLock, UnloadPowered, UnloadTest, UnloadClear,
     UnloadRecovered, Unloaded, recVars, platVars
<1>6. CASE \/ IdleStep \/ Booted \/ Crash \/ Hang \/ BootTimeout
           \/ \E t \in User : UserBegin(t) \/ UserEnd(t)
  BY <1>0, <1>6 DEF IdleStep, IdleFires, IdleCheck, IdlePost, IdleDone,
     Booted, Crash, Hang, BootTimeout, UserBegin, UserEnd, recVars, platVars
<1> QED BY <1>1, <1>2, <1>3, <1>4, <1>5, <1>6 DEF RecNext, WorkerStep

\* The counters.
LEMMA CountsTyped ==
    ASSUME RecTypeOK, RecNext
    PROVE  power_up' \in 0..Forever /\ crashes' \in 0..MaxCrash
<1>0. power_up \in 0..Forever /\ crashes \in 0..MaxCrash /\ MaxCrash \in Nat
  BY ActorsAssumption DEF RecTypeOK
<1>a. Forever = 3 /\ (power_up > 0 => Consumed(power_up) \in 0..Forever)
  BY <1>0 DEF Forever, Consumed
<1>1. CASE TakeRecovery \/ TakeIdleRestart \/ TakeDown \/ TakeReady
  BY <1>0, <1>1, <1>a DEF TakeRecovery, TakeIdleRestart, TakeDown, TakeReady,
     recVars, platVars
<1>2. CASE \/ RemoveSkipped \/ SsrBegin \/ RemoveBegin \/ NapBegin
           \/ WorkerSyncs \/ SsrShutdown \/ SocRemove \/ Nap \/ PowerOff
  BY <1>0, <1>2, <1>a DEF RemoveSkipped, SsrBegin, RemoveBegin, NapBegin,
     WorkerSyncs, SsrShutdown, SocRemove, Nap, PowerOff, Syncs, recVars,
     platVars
<1>3. CASE \/ ProbePlain \/ ProbeReinit \/ Reinit \/ ReinitStop \/ ProbeRestart
           \/ IdleRestart
  BY <1>0, <1>3, <1>a DEF ProbePlain, ProbeReinit, Reinit, ReinitStop,
     ProbeRestart, IdleRestart, Completed, recVars, platVars
<1>4. CASE OpenerStep \/ OpenBegin \/ CloseBegin
  BY <1>0, <1>4, <1>a DEF OpenerStep, OpenerSyncs, OpenCheck, OpenRestart,
     OpenPowered, OpenTimeout, OpenFailed, Close, OpenBegin, CloseBegin,
     Syncs, VdevBegin, recVars, platVars
<1>5. CASE UnloaderStep \/ UnloadBegin
  BY <1>0, <1>5, <1>a DEF UnloaderStep, UnloadBegin, UnloadGranted,
     UnloadFlag, UnloadCancel, UnloadLock, UnloadPowered, UnloadTest,
     UnloadClear, UnloadRecovered, Unloaded, recVars, platVars
<1>6. CASE \/ IdleStep \/ Booted \/ Crash \/ Hang \/ BootTimeout
           \/ \E t \in User : UserBegin(t) \/ UserEnd(t)
  BY <1>0, <1>6, <1>a DEF IdleStep, IdleFires, IdleCheck, IdlePost, IdleDone,
     Booted, Crash, Hang, BootTimeout, UserBegin, UserEnd, recVars, platVars
<1> QED BY <1>1, <1>2, <1>3, <1>4, <1>5, <1>6 DEF RecNext, WorkerStep

\* The flags.
LEMMA FlagsTyped ==
    ASSUME RecTypeOK, RecNext
    PROVE  {boot_timer, power_up_error, recovered, modules, opened, idle_armed,
            recovering, unloading, asserted}' \subseteq BOOLEAN
<1>0. {boot_timer, power_up_error, recovered, modules, opened, idle_armed,
       recovering, unloading, asserted} \subseteq BOOLEAN
  BY DEF RecTypeOK
<1>1. CASE TakeRecovery \/ TakeIdleRestart \/ TakeDown \/ TakeReady
  BY <1>0, <1>1 DEF TakeRecovery, TakeIdleRestart, TakeDown, TakeReady,
     PowerOn, recVars, platVars, hostVars
<1>2. CASE \/ RemoveSkipped \/ SsrBegin \/ RemoveBegin \/ NapBegin
           \/ WorkerSyncs \/ SsrShutdown
  BY <1>0, <1>2 DEF RemoveSkipped, SsrBegin, RemoveBegin, NapBegin,
     WorkerSyncs, SsrShutdown, Syncs, recVars, platVars, hostVars
<1>3. CASE SocRemove \/ Nap \/ PowerOff
  BY <1>0, <1>3 DEF SocRemove, Nap, PowerOff, recVars, platVars, hostVars
<1>4. CASE \/ ProbePlain \/ ProbeReinit \/ Reinit \/ ReinitStop \/ ProbeRestart
           \/ IdleRestart
  BY <1>0, <1>4 DEF ProbePlain, ProbeReinit, Reinit, ReinitStop, ProbeRestart,
     IdleRestart, Completed, RecoveryOver, Starts, recVars, platVars, hostVars
<1>5. CASE \/ OpenerSyncs \/ OpenCheck \/ OpenRestart \/ OpenPowered
           \/ OpenTimeout \/ OpenFailed \/ Close \/ OpenBegin \/ CloseBegin
  BY <1>0, <1>5 DEF OpenerSyncs, OpenCheck, OpenRestart, OpenPowered,
     OpenTimeout, OpenFailed, Close, OpenBegin, CloseBegin, Syncs, VdevBegin,
     Refused, UpAgain, Consumed, recVars, platVars, hostVars
<1>6. CASE \/ IdleFires \/ IdleCheck \/ IdlePost \/ IdleDone \/ Booted \/ Crash
           \/ Hang \/ BootTimeout
  BY <1>0, <1>6 DEF IdleFires, IdleCheck, IdlePost, IdleDone, Booted, Crash,
     Hang, BootTimeout, recVars, platVars, hostVars
<1>7. CASE \/ UnloadBegin \/ UnloadGranted \/ UnloadFlag \/ UnloadCancel
           \/ UnloadLock \/ UnloadPowered \/ UnloadTest \/ UnloadClear
           \/ UnloadRecovered \/ Unloaded
  BY <1>0, <1>7 DEF UnloadBegin, UnloadGranted, UnloadFlag, UnloadCancel,
     UnloadLock, UnloadPowered, UnloadTest, UnloadClear, UnloadRecovered,
     Unloaded, Consumed, recVars, platVars, hostVars
<1>8. CASE \E t \in User : UserBegin(t) \/ UserEnd(t)
  BY <1>0, <1>8 DEF UserBegin, UserEnd, recVars, platVars, hostVars
<1> QED BY <1>1, <1>2, <1>3, <1>4, <1>5, <1>6, <1>7, <1>8
        DEF RecNext, WorkerStep, OpenerStep, IdleStep, UnloaderStep

\* Every variable keeps its type.
LEMMA TypedStep ==
    ASSUME RecIInv, RecNext
    PROVE  IInv' /\ RecTypeOK'
<1>1. IInv'
  BY RecUsesDsc, NextInv, StutterInv DEF RecIInv
<1> QED BY <1>1, FlowTyped, BitsTyped, DeviceTyped, CountsTyped, FlagsTyped
        DEF RecTypeOK, RecIInv, IInv

-----------------------------------------------------------------------------
(* The invariant.                                                          *)

\* The device is up and idle at first.
LEMMA RecInitInv ==
    ASSUME RecInit
    PROVE  RecIInv
<1>1. TypeOK
  <2>1. 0 \in 0..MaxDone /\ Driver \in Node
    BY ThreadAssumption, Places
  <2> QED BY <2>1 DEF RecInit, NoActivity, TypeOK, PCs, TranStates
<1>2. ThreadAgrees /\ QueueAgrees /\ OpsAgree /\ WalkAgrees
  BY DEF RecInit, NoActivity, ThreadAgrees, QueueAgrees, OpsAgree, WalkAgrees
<1>3. TreeAgrees
  <2>1. \A n \in Node \ {Driver} : Parent(n) \in Node
    BY TreeAssumption DEF Parent, Node
  <2> QED BY <2>1 DEF RecInit, TreeAgrees
<1>4. OwnerAgrees /\ TreeExclusion /\ Quiescence
  BY ThreadAssumption DEF RecInit, NoActivity, OwnerAgrees, Owns, TreeExclusion, Quiescence
<1>5. RecTypeOK
  <2>1. step \in [Thread -> Steps] /\ event_list \in Seq(Posts)
    BY DEF RecInit, Steps
  <2>2. power_up \in 0..Forever /\ crashes \in 0..MaxCrash
    BY ActorsAssumption DEF RecInit, Forever
  <2> QED BY <1>1, <2>1, <2>2 DEF RecInit, RecTypeOK, Bits
<1>6. Placed /\ OpenerHolds /\ WorkerHolds
  BY Places DEF RecInit, NoActivity, Placed, OpenerHolds, WorkerHolds, Has
<1>7. PostersSleep /\ OpenAgrees /\ OpenHasModules
  BY DEF RecInit, PostersSleep, OpenAgrees, OpenHasModules, Has, NoEvent
<1> QED BY <1>1, <1>2, <1>3, <1>4, <1>5, <1>6, <1>7 DEF RecIInv, IInv

\* A step that changes nothing keeps it.
LEMMA RecStutter ==
    ASSUME RecIInv, UNCHANGED allVars
    PROVE  RecIInv'
<1>1. IInv'
  BY StutterInv DEF RecIInv, allVars
<1>2. /\ UNCHANGED <<driver_state, event_list, job, firmware, boot_timer,
                     power_up, power_up_error, recovered, ops_lock, modules>>
      /\ UNCHANGED <<opened, idle_armed, recovering, unloading, step, asserted,
                     crashes, pc, at, tran>>
  BY DEF allVars, vars, recVars, platVars, hostVars
<1>3. RecTypeOK'
  BY <1>1, <1>2 DEF RecIInv, IInv, RecTypeOK
<1>4. (Placed /\ OpenerHolds /\ WorkerHolds)'
  BY <1>2 DEF RecIInv, Placed, OpenerHolds, WorkerHolds, Has
<1>5. (PostersSleep /\ OpenAgrees /\ OpenHasModules)'
  BY <1>2 DEF RecIInv, PostersSleep, OpenAgrees, OpenHasModules, Has
<1> QED BY <1>1, <1>3, <1>4, <1>5 DEF RecIInv

\* Every step keeps it.
LEMMA RecNextInv ==
    ASSUME RecIInv, [RecNext]_allVars
    PROVE  RecIInv'
<1>1. CASE RecNext
  <2>1. (OpenAgrees /\ OpenHasModules)'
    BY <1>1, OpenStep, ProbedStep DEF OpenAgrees, OpenHasModules, Has
  <2> QED BY <1>1, <2>1, TypedStep, PlacedStep, OpenerStepHolds,
             WorkerStepHolds, PostersSleepStep DEF RecIInv
<1> QED BY <1>1, RecStutter

\* In every state the threads hold of DSC what their step says, an event's
\* poster sleeps, and an open interface has modules or a recovery.
THEOREM RecInvariance == RecSpec => []RecIInv
<1>1. RecInit => RecIInv
  BY RecInitInv
<1>2. RecIInv /\ [RecNext]_allVars => RecIInv'
  BY RecNextInv
<1> QED BY <1>1, <1>2, PTL DEF RecSpec

\* An open interface has running host modules, or a recovery or an unload
\* explains why not, after any number of crashes.
THEOREM OpenMeansModules == RecSpec => []OpenHasModules
<1>1. RecIInv => OpenHasModules
  BY DEF RecIInv
<1> QED BY <1>1, RecInvariance, PTL

\* The modules start and stop with no operation in flight; they start beside
\* operations only on an interface that a failed re-initialisation left open.
LEMMA ModulesChangeQuiet ==
    ASSUME RecIInv, RecNext, modules' # modules
    PROVE  NoOps \/ LeftOpen
<1>1. CASE SsrShutdown \/ SocRemove \/ Nap
  BY <1>1, QuietMeansNoOps DEF SsrShutdown, SocRemove, Nap, Quiet, RecIInv
<1>2. CASE Reinit \/ IdleRestart
  <2>1. ~modules
    BY <1>2 DEF Reinit, IdleRestart, Starts, RecIInv, RecTypeOK
  <2>2. pc[Worker] \in {"idle", "quiet"}
    BY <1>2 DEF Reinit, IdleRestart, RecIInv, WorkerHolds
  <2>3. CASE pc[Worker] = "quiet"
    BY <2>3, QuietMeansNoOps DEF RecIInv
  <2>4. CASE ~NoOps
    BY <2>1, <2>2, <2>3, <2>4 DEF RecIInv, IInv, TypeOK, OpsAgree, Placed, NoOps, LeftOpen
  <2> QED BY <2>4
<1> QED BY <1>1, <1>2, ModulesChange

\* The same of every step of the system.
THEOREM ModulesChangeInQuiet == RecSpec => ModulesQuiet
<1>1. RecIInv /\ [RecNext]_allVars => [modules' # modules => NoOps \/ LeftOpen]_allVars
  BY ModulesChangeQuiet
<1> QED BY <1>1, RecInvariance, PTL DEF RecSpec, ModulesQuiet

\* Recovery, idle shutdown and restart, interface up and down and unload
\* together use DSC as Dsc lets its threads use it.
THEOREM RecoveryKeepsDsc == RecSpec => [][Next]_vars
<1>1. [RecNext]_allVars => [Next]_vars
  BY RecUsesDsc
<1> QED BY <1>1, PTL DEF RecSpec

\* So what Dsc promises holds through every recovery: an owner is alone on its
\* branch, and a quiet owner's scope is free of operations (BranchSync).
THEOREM RecoveryKeepsPromise == RecSpec => Promise
<1>1. RecInit => Abs!Init
  BY DEF RecInit, NoActivity, Abs!Init, ModeOf
<1>2. RecIInv => IInv
  BY DEF RecIInv
<1> QED BY <1>1, <1>2, RecInvariance, RecoveryKeepsDsc, StepsKeepPromise, PTL
        DEF RecSpec

\* No end of a transition overlooks the worker, the opener or the unloader in
\* its queue, and none is granted past another that came first.
THEOREM RecoveryStrandsNobody == RecSpec => []NoStrandedWaiter /\ GrantOrder
<1>1. RecInit => CoveredInTree /\ NobodyLeftBehind
  BY NobodyWaits DEF RecInit
<1>2. RecIInv => IInv
  BY DEF RecIInv
<1>3. CoveredInTree /\ NobodyLeftBehind => NoStrandedWaiter
  BY StrandedIsLeft
<1> QED BY <1>1, <1>2, <1>3, RecInvariance, RecoveryKeepsDsc, StepsStrandNobody,
           StepsLeaveNobody, StepsGrantInOrder, PTL DEF RecSpec

\* The worker, the opener and the unloader wait for operations of interfaces
\* only, and none of them misses the end of the last one.
THEOREM RecoveryLosesNoWakeup == OpNode \subseteq Vdev /\ RecSpec => []NoLostWakeup
<1>1. RecInit => SleepersAgree /\ NoLostWakeup
  BY NobodySleeps DEF RecInit
<1>2. RecIInv => IInv
  BY DEF RecIInv
<1>3. OpNode \subseteq Vdev => WaitersOnBranch
  BY VdevWaiters
<1> QED BY <1>1, <1>2, <1>3, RecInvariance, RecoveryKeepsDsc, StepsLoseNoWakeup, PTL
        DEF RecSpec
=============================================================================
