---------------------------- MODULE Serialization ----------------------------
(***************************************************************************)
(* The queues of non-scan commands of one pdev                             *)
(* (qca-wifi-host-cmn/umac/cmn_services/serialization).                    *)
(*                                                                         *)
(* A command that may not run yet waits in the pending list.  At most one  *)
(* command of a vdev is active, and a blocking command wants to be active  *)
(* alone.  Each command is kept in a cell of a fixed pool.  The lists, the *)
(* bitmap of busy vdevs and the counters change under one spinlock, but    *)
(* the callbacks that activate, cancel or time out a command run without   *)
(* it, in the thread that requested or removed a command.  Such a thread   *)
(* nests: a failed activation removes the command, which activates the     *)
(* next.  stack holds, per thread, what it still has to do, outermost      *)
(* first.                                                                  *)
(*                                                                         *)
(* The list of a vdev is the pdev's list restricted to the vdev: the code  *)
(* always inserts into and removes from both under the lock.               *)
(***************************************************************************)
EXTENDS Integers, Sequences, FiniteSets, SequencesExt

CONSTANTS
    Vdev,
    Cmd,            \* what cmd_id, cmd_type and vdev identify together
    VdevOf,         \* cmd->vdev
    Blocking,       \* the commands with is_blocking
    HighPriority,   \* the commands with is_high_priority
    Cell,           \* struct wlan_serialization_command_list, in the pool
    Thread,
    Mc,             \* the scheduler thread, which runs timeouts
    ActiveCancels,  \* whether sessions are torn down, cancelling active commands
    MaxPending,     \* size of the pending list of a vdev
    MaxRequests,    \* bound on the requests of a behaviour
    None

ASSUME SerAssumption ==
    /\ VdevOf \in [Cmd -> Vdev]
    /\ Blocking \subseteq Cmd /\ HighPriority \subseteq Cmd
    /\ Mc \in Thread /\ ActiveCancels \in BOOLEAN
    /\ MaxPending \in Nat /\ MaxRequests \in Nat
    /\ None \notin Cmd \cup Cell \cup Vdev
    /\ Cmd \cap Cell = {}

VARIABLES
    cmd,            \* the command in each cell, None in the pool
    active,         \* active_list, as a set
    pending,        \* pending_list
    flags,          \* cmd_in_use of each cell
    bitmap,         \* vdev_active_cmd_bitmap
    blockingActive, \* blocking_cmd_active
    waiting,        \* blocking_cmd_waiting, a uint16_t
    timer,          \* the timer that points to the cell: off, running, expired
    late,           \* copies of timed-out commands posted to the scheduler
    stack,          \* what each thread has left to do
    requests        \* requests made so far

queueVars == <<cmd, active, pending, flags, bitmap, blockingActive>>
vars == <<queueVars, waiting, timer, late, stack, requests>>

Flags == {"activation", "removal", "cancel", "movement"}

Frame(op, on, flag) == [op |-> op, on |-> on, flag |-> flag]
Frames ==
    [op : {"activate", "callback", "test", "remove"}, on : Cell, flag : BOOLEAN]
    \cup [op : {"timeout", "cancelled"}, on : Cmd, flag : BOOLEAN]
    \cup [op : {"move", "resume"}, on : Vdev \cup {None}, flag : BOOLEAN]

\* uint16_t arithmetic
Uint16 == {n \in Nat : n < 65536}
Wrap(n) == n % 65536

OfVdev(c, v) == VdevOf[cmd[c]] = v
\* The pending list of a vdev, as its places in that of the pdev.
PendingOf(v) == {i \in 1..Len(pending) : OfVdev(pending[i], v)}
ActiveAs(k) == {c \in active : cmd[c] = k}
PendingAs(k) == {c \in ToSet(pending) : cmd[c] = k}
Pool == {c \in Cell : cmd[c] = None}

Idle(t) == stack[t] = << >>
Top(t) == Last(stack[t])
Rest(t) == Front(stack[t])
At(t, op) == ~Idle(t) /\ Top(t).op = op
Set(t, s) == stack' = [stack EXCEPT ![t] = s]

Init ==
    /\ cmd = [c \in Cell |-> None]
    /\ active = {} /\ pending = << >>
    /\ flags = [c \in Cell |-> {}]
    /\ bitmap = {} /\ blockingActive = FALSE /\ waiting = 0
    /\ timer = [c \in Cell |-> "off"]
    /\ late = {}
    /\ stack = [t \in Thread |-> << >>]
    /\ requests = 0

-----------------------------------------------------------------------------
(* Requesting a command.                                                   *)

\* is_active_non_scan_cmd_allowed reads the counter into a uint8_t, and does
\* not yet look at the pending list of the vdev.
Allowed(k) ==
    IF k \in Blocking THEN bitmap = {}
    ELSE ~blockingActive /\ waiting % 256 = 0 /\ VdevOf[k] \notin bitmap

ToActive(k) == Allowed(k) /\ PendingOf(VdevOf[k]) = {}

\* A blocking command that finds a vdev busy is counted as waiting, before it
\* is known whether it is accepted.
Counted(k) == IF k \in Blocking /\ bitmap # {} THEN Wrap(waiting + 1) ELSE waiting

Room(k) ==
    IF ToActive(k) THEN \A c \in active : ~OfVdev(c, VdevOf[k])
    ELSE Cardinality(PendingOf(VdevOf[k])) < MaxPending

Accepted(k) ==
    /\ (IF ToActive(k) THEN ActiveAs(k) ELSE PendingAs(k)) = {}
    /\ Pool # {} /\ Room(k)

\* Put cell c, holding command k, on the active list (add_non_scan_cmd and
\* the flag its callers set); m is what its flags hold already.
Activates(c, k, m) ==
    /\ active' = active \cup {c}
    /\ flags' = [m EXCEPT ![c] = @ \cup {"activation"}]
    /\ bitmap' = bitmap \cup {VdevOf[k]}
    /\ blockingActive' = (blockingActive \/ k \in Blocking)

\* wlan_serialization_request: enqueue_cmd, whose caller goes on to activate.
Request(t, k) ==
    /\ Idle(t) /\ requests < MaxRequests
    /\ requests' = requests + 1
    /\ waiting' = Counted(k)
    /\ IF ~Accepted(k)
       THEN UNCHANGED <<queueVars, stack>>
       ELSE \E c \in Pool :
              /\ cmd' = [cmd EXCEPT ![c] = k]
              /\ IF ToActive(k)
                 THEN /\ Activates(c, k, flags)
                      /\ Set(t, <<Frame("activate", c, FALSE)>>)
                      /\ UNCHANGED pending
                 ELSE /\ pending' = IF k \in HighPriority
                                    THEN <<c>> \o pending
                                    ELSE Append(pending, c)
                      /\ UNCHANGED <<active, flags, bitmap, blockingActive, stack>>
    /\ UNCHANGED <<timer, late>>

-----------------------------------------------------------------------------
(* activate_cmd, which runs without the lock.                              *)

\* Start the timer, or fail to: the callback is skipped then.
StartTimer(t) ==
    /\ At(t, "activate")
    /\ LET c == Top(t).on
       IN \/ /\ timer' = [timer EXCEPT ![c] = "running"]
             /\ Set(t, Append(Rest(t), Frame("callback", c, FALSE)))
          \/ /\ Set(t, Append(Rest(t), Frame("callback", c, TRUE)))
             /\ UNCHANGED timer
    /\ UNCHANGED <<queueVars, waiting, late, requests>>

\* The callback returns, with or without an error.
Activated(t) ==
    /\ At(t, "callback")
    /\ \E failed \in {Top(t).flag, TRUE} :
          Set(t, Append(Rest(t), Frame("test", Top(t).on, failed)))
    /\ flags' = [flags EXCEPT ![Top(t).on] = @ \ {"activation"}]
    /\ UNCHANGED <<cmd, active, pending, bitmap, blockingActive, waiting, timer,
                   late, requests>>

\* Mutant: a failed activation is not followed by a removal.
TestForgets(t) ==
    /\ At(t, "test")
    /\ LET c == Top(t).on
           next == IF cmd[c] = None THEN << >>
                   ELSE IF "removal" \in flags[c] THEN <<Frame("remove", c, FALSE)>>
                   ELSE IF "cancel" \in flags[c] THEN <<Frame("remove", c, TRUE)>>
                   ELSE << >>
       IN Set(t, Rest(t) \o next)
    /\ UNCHANGED <<queueVars, waiting, timer, late, requests>>

\* What was asked for during the activation is done now.  The cell is read
\* without the lock; it may be another command's by now.
Test(t) ==
    /\ At(t, "test")
    /\ LET c == Top(t).on
           next == IF cmd[c] = None THEN << >>
                   ELSE IF Top(t).flag \/ "removal" \in flags[c]
                   THEN <<Frame("remove", c, FALSE)>>
                   ELSE IF "cancel" \in flags[c] THEN <<Frame("remove", c, TRUE)>>
                   ELSE << >>
       IN Set(t, Rest(t) \o next)
    /\ UNCHANGED <<queueVars, waiting, timer, late, requests>>

-----------------------------------------------------------------------------
(* Removing and cancelling.                                                *)

\* Mutants: the cell is not given back; its timer is left pointing to it.
FreesNothing(c) ==
    /\ flags' = [flags EXCEPT ![c] = {}]
    /\ timer' = [timer EXCEPT ![c] = "off"]
    /\ UNCHANGED cmd

FreesKeepTimer(c) ==
    /\ cmd' = [cmd EXCEPT ![c] = None]
    /\ flags' = [flags EXCEPT ![c] = {}]
    /\ UNCHANGED timer

\* Cell c goes back to the pool.
Frees(c) ==
    /\ cmd' = [cmd EXCEPT ![c] = None]
    /\ flags' = [flags EXCEPT ![c] = {}]
    /\ timer' = [timer EXCEPT ![c] = "off"]

\* Mutant: a command is removed even while its activation runs.
DequeueNow(t, k, rest) ==
    IF ActiveAs(k) = {} THEN Set(t, rest) /\ UNCHANGED <<queueVars, timer>>
    ELSE \E c \in ActiveAs(k) :
           /\ active' = active \ {c}
           /\ Frees(c)
           /\ bitmap' = bitmap \ {VdevOf[k]}
           /\ blockingActive' = (blockingActive /\ k \notin Blocking)
           /\ Set(t, Append(rest, Frame("move", VdevOf[k], k \in Blocking)))
           /\ UNCHANGED pending

\* Mutant: nothing is moved up after a removal.
DequeueOnly(t, k, rest) ==
    /\ Set(t, rest)
    /\ IF \E c \in ActiveAs(k) : "activation" \notin flags[c]
       THEN \E c \in ActiveAs(k) :
              /\ active' = active \ {c}
              /\ Frees(c)
              /\ bitmap' = bitmap \ {VdevOf[k]}
              /\ blockingActive' = (blockingActive /\ k \notin Blocking)
              /\ UNCHANGED pending
       ELSE /\ flags' = [c \in Cell |-> IF c \in ActiveAs(k)
                                        THEN flags[c] \cup {"removal"} ELSE flags[c]]
            /\ UNCHANGED <<cmd, active, pending, bitmap, blockingActive, timer>>

\* dequeue_cmd of the active command k: not found, or marked because its
\* activation is not over, or removed.
Dequeue(t, k, rest) ==
    \/ /\ ActiveAs(k) = {}
       /\ Set(t, rest) /\ UNCHANGED <<queueVars, timer>>
    \/ \E c \in ActiveAs(k) :
         IF "activation" \in flags[c]
         THEN /\ flags' = [flags EXCEPT ![c] = @ \cup {"removal"}]
              /\ Set(t, rest)
              /\ UNCHANGED <<cmd, active, pending, bitmap, blockingActive, timer>>
         ELSE /\ active' = active \ {c}
              /\ Frees(c)
              /\ bitmap' = bitmap \ {VdevOf[k]}
              /\ blockingActive' = (blockingActive /\ k \notin Blocking)
              /\ Set(t, Append(rest, Frame("move", VdevOf[k], k \in Blocking)))
              /\ UNCHANGED pending

\* wlan_serialization_remove_cmd, by the requester once the command is done.
RemoveCmd(t, k) ==
    /\ Idle(t) /\ ActiveAs(k) # {}
    /\ Dequeue(t, k, << >>)
    /\ UNCHANGED <<waiting, late, requests>>

\* Once nothing is active any more a cancellation gives the pending commands
\* of every vdev their chance.
Reactivate(a, b) ==
    IF a = {} /\ b = {} THEN <<Frame("move", None, FALSE)>> ELSE << >>

\* cancel_non_scan_cmd of one active command: not found, or marked because its
\* activation is not over, or without a timer (a QDF_BUG), or cancelled; only
\* the lists change before the callback.
Cancel(t, k, rest) ==
    \/ /\ ActiveAs(k) = {}
       /\ Set(t, rest \o Reactivate(active, bitmap))
       /\ UNCHANGED <<cmd, active, flags, timer>>
    \/ \E c \in ActiveAs(k) :
         IF "activation" \in flags[c]
         THEN /\ flags' = [flags EXCEPT ![c] = @ \cup {"cancel"}]
              /\ Set(t, rest)
              /\ UNCHANGED <<cmd, active, timer>>
         ELSE IF timer[c] = "off"
         THEN Set(t, rest) /\ UNCHANGED <<cmd, active, flags, timer>>
         ELSE /\ active' = active \ {c}
              /\ Frees(c)
              /\ Set(t, Append(rest, Frame("cancelled", k, TRUE)))

CancelActive(t, k) ==
    /\ ActiveCancels /\ Idle(t) /\ Cancel(t, k, << >>)
    /\ UNCHANGED <<pending, bitmap, blockingActive, waiting, late, requests>>

\* Likewise for one pending command.
CancelPending(t, k) ==
    /\ Idle(t)
    /\ \E i \in 1..Len(pending) :
          /\ cmd[pending[i]] = k
          /\ pending' = RemoveAt(pending, i)
          /\ Frees(pending[i])
    /\ Set(t, <<Frame("cancelled", k, FALSE)>>)
    /\ UNCHANGED <<active, bitmap, blockingActive, waiting, late, requests>>

\* Mutant: the bit of the vdev is cleared only for a blocking command.
CancelDoneKeepsBit(t) ==
    /\ At(t, "cancelled")
    /\ LET k == Top(t).on
       IN /\ Top(t).flag
          /\ bitmap' = IF k \in Blocking THEN bitmap \ {VdevOf[k]} ELSE bitmap
          /\ blockingActive' = (blockingActive /\ k \notin Blocking)
          /\ Set(t, Rest(t))
    /\ UNCHANGED <<cmd, active, pending, flags, waiting, timer, late, requests>>

\* After the callback the counters follow.
CancelDone(t) ==
    /\ At(t, "cancelled")
    /\ LET k == Top(t).on
       IN IF Top(t).flag
          THEN /\ bitmap' = bitmap \ {VdevOf[k]}
               /\ blockingActive' = (blockingActive /\ k \notin Blocking)
               /\ Set(t, Rest(t) \o Reactivate(active, bitmap'))
               /\ UNCHANGED waiting
          ELSE /\ waiting' = IF k \in Blocking THEN Wrap(waiting - 1) ELSE waiting
               /\ Set(t, Rest(t))
               /\ UNCHANGED <<bitmap, blockingActive>>
    /\ UNCHANGED <<cmd, active, pending, flags, timer, late, requests>>

\* The removal or the cancellation that an activation left behind.
LeftBehind(t) ==
    /\ At(t, "remove")
    /\ LET k == cmd[Top(t).on]
       IN \/ /\ k = None
             /\ Set(t, Rest(t)) /\ UNCHANGED <<queueVars, timer>>
          \/ k # None /\ ~Top(t).flag /\ Dequeue(t, k, Rest(t))
          \/ /\ k # None /\ Top(t).flag /\ Cancel(t, k, Rest(t))
             /\ UNCHANGED <<pending, bitmap, blockingActive>>
    /\ UNCHANGED <<waiting, late, requests>>

-----------------------------------------------------------------------------
(* move_non_scan_pending_to_active.                                        *)

Busy(c) == VdevOf[cmd[c]] \in bitmap
Blocks(c) == cmd[c] \in Blocking

\* Where a walk over the pdev's list ends: at a command whose vdev is idle, or
\* at a blocking one while any vdev is busy.
Stops(i) == ~Busy(pending[i]) \/ (Blocks(pending[i]) /\ bitmap # {})
WalkEnd ==
    LET stops == {i \in 1..Len(pending) : Stops(i)}
    IN IF stops = {} THEN 0 ELSE Min(stops)

\* The marks the walk leaves: it marks the next command on its way and takes
\* the mark off each one it skips.
Marked(i) ==
    LET takes == i # 0 /\ ~(Blocks(pending[i]) /\ bitmap # {})
    IN [c \in Cell |->
          IF \E j \in 1..Len(pending) : pending[j] = c /\ (i = 0 \/ j < i)
          THEN flags[c] \ {"movement"}
          ELSE IF i # 0 /\ (\/ i > 1 /\ c = pending[i]
                            \/ takes /\ i < Len(pending) /\ c = pending[i + 1])
          THEN flags[c] \cup {"movement"}
          ELSE flags[c]]

\* The command at place i moves from the pending to the active list.
Promote(t, i, m, v) ==
    /\ pending' = RemoveAt(pending, i)
    /\ Activates(pending[i], cmd[pending[i]], m)
    /\ waiting' = IF Blocks(pending[i]) THEN Wrap(waiting - 1) ELSE waiting
    /\ Set(t, Rest(t) \o <<Frame("resume", v, FALSE),
                           Frame("activate", pending[i], FALSE)>>)
    /\ UNCHANGED cmd

Stay(t) ==
    /\ Set(t, Rest(t))
    /\ UNCHANGED <<cmd, active, pending, bitmap, blockingActive, waiting>>

WalkPdev(t) ==
    LET i == WalkEnd
    IN IF i = 0 \/ (i # 0 /\ Blocks(pending[i]) /\ bitmap # {})
       THEN Stay(t) /\ flags' = Marked(i)
       ELSE Promote(t, i, Marked(i), None)

WalkVdev(t, v) ==
    LET first == Min(PendingOf(v))
    IN IF PendingOf(v) = {} \/ v \in bitmap \/ "movement" \in flags[pending[first]]
       THEN Stay(t) /\ UNCHANGED flags
       ELSE Promote(t, first, flags, v)

\* The list of the vdev if no blocking command is involved, else the pdev's.
Move(t) ==
    /\ At(t, "move")
    /\ LET v == Top(t).on
       IN IF ~Top(t).flag /\ waiting = 0 /\ v # None
          THEN WalkVdev(t, v) ELSE WalkPdev(t)
    /\ UNCHANGED <<timer, late, requests>>

\* After an activation the walk over the pdev's list begins anew.
Resume(t) ==
    /\ At(t, "resume")
    /\ IF Top(t).on # None \/ blockingActive
       THEN Stay(t) /\ UNCHANGED flags
       ELSE WalkPdev(t)
    /\ UNCHANGED <<timer, late, requests>>

-----------------------------------------------------------------------------
(* Timeouts.                                                               *)

\* timer_cb_mc_ctx posts a copy of the command to the scheduler.
TimerFires(c) ==
    /\ timer[c] = "running"
    /\ timer' = [timer EXCEPT ![c] = "expired"]
    /\ late' = late \cup {cmd[c]}
    /\ UNCHANGED <<queueVars, waiting, stack, requests>>

\* generic_timer_cb drops the message unless an active command matches it, ...
Timeout(k) ==
    /\ Idle(Mc) /\ k \in late
    /\ late' = late \ {k}
    /\ Set(Mc, IF ActiveAs(k) = {} THEN << >>
               ELSE <<Frame("timeout", k, FALSE)>>)
    /\ UNCHANGED <<queueVars, waiting, timer, requests>>

\* ... calls the callback without the lock, and removes the command.
TimedOut(t) ==
    /\ At(t, "timeout")
    /\ Dequeue(t, Top(t).on, Rest(t))
    /\ UNCHANGED <<waiting, late, requests>>

-----------------------------------------------------------------------------
\* What a thread does by itself once it is in the module.
Proceed(t) ==
    \/ StartTimer(t) \/ Activated(t) \/ Test(t) \/ LeftBehind(t)
    \/ CancelDone(t) \/ Move(t) \/ Resume(t) \/ TimedOut(t)

Next ==
    \/ \E t \in Thread, k \in Cmd : \/ Request(t, k) \/ RemoveCmd(t, k)
                                    \/ CancelActive(t, k) \/ CancelPending(t, k)
    \/ \E t \in Thread : Proceed(t)
    \/ \E c \in Cell : TimerFires(c)
    \/ \E k \in Cmd : Timeout(k)

Spec == Init /\ [][Next]_vars

\* Threads run on, timers expire and the scheduler handles its messages;
\* nobody has to request, remove or cancel a command.
FairSpec ==
    /\ Spec
    /\ \A t \in Thread : WF_vars(Proceed(t))
    /\ \A c \in Cell : WF_vars(TimerFires(c))
    /\ \A k \in Cmd : WF_vars(Timeout(k))

-----------------------------------------------------------------------------
(* Properties.                                                             *)

Running(c) ==
    {t \in Thread : \E i \in 1..Len(stack[t]) :
        stack[t][i].op \in {"activate", "callback"} /\ stack[t][i].on = c}
BeingCancelled ==
    {t \in Thread : \E i \in 1..Len(stack[t]) : stack[t][i].op = "cancelled"}
Quiet == \A t \in Thread : Idle(t)

TypeOK ==
    /\ cmd \in [Cell -> Cmd \cup {None}]
    /\ active \subseteq Cell /\ pending \in Seq(Cell)
    /\ flags \in [Cell -> SUBSET Flags]
    /\ bitmap \subseteq Vdev /\ blockingActive \in BOOLEAN
    /\ waiting \in Uint16
    /\ timer \in [Cell -> {"off", "running", "expired"}]
    /\ late \subseteq Cmd
    /\ stack \in [Thread -> Seq(Frames)]

\* No command is lost and no cell is used twice: a cell holds a command
\* exactly if it is on one of the two lists, once.
CellsAccounted ==
    /\ IsInjective(pending) /\ ToSet(pending) \cap active = {}
    /\ \A c \in Cell : cmd[c] # None <=> c \in active \cup ToSet(pending)

\* At most one command of a vdev is active, the bitmap has its vdev, and the
\* bitmap and the blocking flag show nothing else, except while a cancelled
\* command is being called back.
OneActivePerVdev ==
    /\ \A c, e \in active : c # e => VdevOf[cmd[c]] # VdevOf[cmd[e]]
    /\ {VdevOf[cmd[c]] : c \in active} \subseteq bitmap
    /\ BeingCancelled = {} =>
          /\ bitmap = {VdevOf[cmd[c]] : c \in active}
          /\ blockingActive => \E c \in active : Blocks(c)

\* While the activation callback of a command runs without the lock, its cell
\* stays on the active list, whatever removals, cancellations and timeouts
\* come in meanwhile, and one thread only is at it.
CallbackKeepsCell ==
    \A c \in Cell :
        /\ Running(c) # {} => c \in active /\ "activation" \in flags[c]
        /\ (c \in active /\ "activation" \in flags[c]) => Cardinality(Running(c)) = 1

\* A timer never points to a cell of the pool, and an active command is
\* always watched by one, unless starting it failed and its removal is due.
TimersWatch ==
    /\ \A c \in Cell : timer[c] # "off" => c \in active
    /\ Quiet => \A c \in active : timer[c] # "off"

\* The inductive invariant: besides the properties above, what each thread is
\* at.  Below the frame on top of its stack are only walks to be resumed.
Doing(t) == IF Idle(t) THEN Frame("nothing", None, FALSE) ELSE Top(t)

StackShape ==
    \A t \in Thread : \A i \in 1..(Len(stack[t]) - 1) : stack[t][i].op = "resume"

\* A running activation has its cell marked, and every mark has its thread.
Runs(t, c) == Doing(t).op \in {"activate", "callback"} /\ Doing(t).on = c
RunsAgree ==
    /\ \A t \in Thread, c \in Cell :
          Runs(t, c) => c \in active /\ "activation" \in flags[c]
    /\ \A t, u \in Thread, c \in Cell : Runs(t, c) /\ Runs(u, c) => t = u
    /\ \A c \in active : "activation" \in flags[c] => \E t \in Thread : Runs(t, c)

\* A vdev is busy with its one active command, or with one being called back
\* after its cancellation.
Cancels(t, k) == Doing(t).op = "cancelled" /\ Doing(t).flag /\ Doing(t).on = k
VdevsAgree ==
    /\ \A c, e \in active : VdevOf[cmd[c]] = VdevOf[cmd[e]] => c = e
    /\ \A t, u \in Thread, k, l \in Cmd :
          Cancels(t, k) /\ Cancels(u, l) /\ VdevOf[k] = VdevOf[l] => t = u
    /\ \A t \in Thread, k \in Cmd, c \in active :
          Cancels(t, k) => VdevOf[cmd[c]] # VdevOf[k]
    /\ \A c \in active : VdevOf[cmd[c]] \in bitmap
    /\ \A t \in Thread, k \in Cmd : Cancels(t, k) => VdevOf[k] \in bitmap
    /\ \A v \in bitmap : \/ \E c \in active : VdevOf[cmd[c]] = v
                        \/ \E t \in Thread, k \in Cmd : Cancels(t, k) /\ VdevOf[k] = v

BlockingAgrees ==
    blockingActive => \/ \E c \in active : Blocks(c)
                      \/ \E t \in Thread, k \in Blocking : Cancels(t, k)

\* A callback that is not skipped has a timer; an active command without one
\* has a thread that will start it or remove the command.
Timed(t, c) == Doing(t).op = "callback" /\ ~Doing(t).flag /\ Doing(t).on = c
Owes(t, c) ==
    /\ Doing(t).on = c
    /\ \/ Doing(t).op = "activate"
       \/ Doing(t).op \in {"callback", "test"} /\ Doing(t).flag
       \/ Doing(t).op = "remove" /\ ~Doing(t).flag
TimersAgree ==
    /\ \A c \in Cell : timer[c] # "off" => c \in active
    /\ \A t \in Thread, c \in Cell : Timed(t, c) => timer[c] # "off"
    /\ \A c \in active : timer[c] = "off" => \E t \in Thread : Owes(t, c)

IInv == /\ TypeOK /\ StackShape /\ CellsAccounted /\ RunsAgree
        /\ VdevsAgree /\ BlockingAgrees /\ TimersAgree

\* "For blocking commands, no other commands from any vdev should be active"
\* (wlan_serialization_non_scan.c:82).
BlockingAlone == \A c, e \in active : Blocks(c) => c = e

\* "blocking_cmd_active: Indicate if a blocking cmd is in active execution"
\* (wlan_serialization_utils_i.h:100).
BlockingMarked == (\E c \in active : Blocks(c)) => blockingActive

\* "blocking_cmd_waiting: Indicate if a blocking cmd is in pending queue"
\* (wlan_serialization_utils_i.h:101), when nobody is inside the module.
BlockingAccounted ==
    Quiet => (waiting # 0 <=> \E c \in ToSet(pending) : Blocks(c))

\* A non-blocking command waits only for an active command of its own vdev or
\* for a blocking command (wlan_serialization_non_scan.c:94).
WaitsForSomeone ==
    Quiet => \A c \in ToSet(pending) :
                Blocks(c) \/ Busy(c) \/ blockingActive \/ waiting # 0

\* A timeout ends a command whose own timer has expired.
TimeoutEndsExpired ==
    [][\A t \in Thread : \A c \in active :
         (At(t, "timeout") /\ TimedOut(t) /\ cmd[c] = Top(t).on /\ c \notin active')
             => timer[c] = "expired"]_vars

\* Every pending command is activated or cancelled in the end, even if no
\* requester ever removes its command: the timers do.
EventuallyServed == \A c \in Cell : (c \in ToSet(pending)) ~> (c \notin ToSet(pending))
=============================================================================
