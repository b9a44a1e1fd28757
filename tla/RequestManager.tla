--------------------------- MODULE RequestManager ---------------------------
(***************************************************************************)
(* The OSIF request manager (wlan_osif_request_manager.c): a requester     *)
(* allocates a request, passes its cookie to lower layers and sleeps until *)
(* a response callback fills the private data and completes the request,   *)
(* a time-out ends the sleep, or firmware down completes all sleeping      *)
(* events by force (qdf_complete_wait_events).  Requester and callbacks    *)
(* share the request by reference count; the last one frees it, and its    *)
(* memory may be allocated again while late answers still come.            *)
(***************************************************************************)
EXTENDS Integers, FiniteSets

CONSTANTS
    Requester,      \* threads that issue requests
    Callback,       \* threads that deliver answers
    Recovery,       \* the thread that reports firmware down
    Cell,           \* memory for requests
    NoCell,
    MaxCookie,      \* bound of the number of requests
    MaxAnswers,     \* bound of the answers to one request
    MaxForced       \* bound of the number of firmware-down reports

ASSUME RequestAssumption ==
    /\ IsFiniteSet(Requester) /\ IsFiniteSet(Callback)
    /\ Requester \cap Callback = {}
    /\ Recovery \notin Requester \cup Callback
    /\ NoCell \notin Cell
    /\ MaxCookie \in Nat /\ MaxAnswers \in Nat /\ MaxForced \in Nat

VARIABLES
    is_initialized,
    next_cookie,    \* the static variable cookie
    live,           \* cells that are allocated
    requests,       \* cells on the list of requests
    cookie, reference_count, data,  \* fields of each request
    done, force_set, count,         \* its event
    wait_events,    \* cells on qdf_wait_event_list
    list_lock,      \* qdf_wait_event_lock is held over a walk
    todo,           \* events the walk has yet to look at
    answers,        \* answers the lower layers may yet deliver, by cookie
    forced,         \* firmware-down reports so far
    pc, at,         \* each thread's place and the request it points to
    mine            \* the cookie the thread was given

reqVars == <<live, requests, cookie, reference_count, data>>
eventVars == <<done, force_set, count>>
walkVars == <<wait_events, list_lock, todo, forced>>
threadVars == <<pc, at, mine>>
vars == <<is_initialized, next_cookie, answers, reqVars, eventVars, walkVars,
          threadVars>>

Client == Requester \cup Callback
Thread == Client \cup {Recovery}
Cookie == 1..MaxCookie

\* Places at which a client holds a reference.
Holding == {"allocated", "sent", "waiting", "woken", "good", "late", "read",
            "fill", "set", "complete", "put"}
Asleep == {"waiting", "woken", "good", "late"}

Holders(c) == {t \in Client : pc[t] \in Holding /\ at[t] = c}

Goto(t, s) == pc' = [pc EXCEPT ![t] = s]

\* The call is over, and with it the thread's own variables.
Return(t) ==
    /\ Goto(t, "idle")
    /\ at' = [at EXCEPT ![t] = NoCell]
    /\ mine' = [mine EXCEPT ![t] = 0]

\* qdf_event_create and qdf_event_destroy.
Blank(c) ==
    /\ done' = [done EXCEPT ![c] = FALSE]
    /\ force_set' = [force_set EXCEPT ![c] = FALSE]
    /\ count' = [count EXCEPT ![c] = 0]

-----------------------------------------------------------------------------
Init ==
    /\ is_initialized = TRUE
    /\ next_cookie = 1
    /\ live = {}
    /\ requests = {}
    /\ cookie = [c \in Cell |-> 0]
    /\ reference_count = [c \in Cell |-> 0]
    /\ data = [c \in Cell |-> 0]
    /\ done = [c \in Cell |-> FALSE]
    /\ force_set = [c \in Cell |-> FALSE]
    /\ count = [c \in Cell |-> 0]
    /\ wait_events = {}
    /\ list_lock = FALSE
    /\ todo = {}
    /\ answers = [k \in Cookie |-> 0]
    /\ forced = 0
    /\ pc = [t \in Thread |-> "idle"]
    /\ at = [t \in Thread |-> NoCell]
    /\ mine = [t \in Thread |-> 0]

-----------------------------------------------------------------------------
(* Initialisation.  Loading and unloading the driver wait for operations,  *)
(* so the list that init creates anew is empty; deinit may find requests.  *)

osif_request_manager_init ==
    /\ ~is_initialized
    /\ requests = {}
    /\ is_initialized' = TRUE
    /\ UNCHANGED <<next_cookie, answers, reqVars, eventVars, walkVars, threadVars>>

osif_request_manager_deinit ==
    /\ is_initialized
    /\ is_initialized' = FALSE
    /\ UNCHANGED <<next_cookie, answers, reqVars, eventVars, walkVars, threadVars>>

-----------------------------------------------------------------------------
(* The requester.                                                          *)

Unreferenced == 0   \* mutant: forgets its own reference
OwnReference == 1

osif_request_alloc(t) ==
    /\ pc[t] = "idle"
    /\ is_initialized
    /\ next_cookie \in Cookie
    /\ \E c \in Cell \ live :
        /\ live' = live \cup {c}
        /\ requests' = requests \cup {c}
        /\ cookie' = [cookie EXCEPT ![c] = next_cookie]
        /\ reference_count' = [reference_count EXCEPT ![c] = OwnReference]
        /\ data' = [data EXCEPT ![c] = 0]
        /\ Blank(c)
        /\ at' = [at EXCEPT ![t] = c]
    /\ mine' = [mine EXCEPT ![t] = next_cookie]
    /\ next_cookie' = next_cookie + 1
    /\ Goto(t, "allocated")
    /\ UNCHANGED <<is_initialized, answers, walkVars>>

\* The lower layers take the request, and may call back at once, or refuse.
Send(t) ==
    /\ pc[t] = "allocated"
    /\ \/ /\ answers' = [answers EXCEPT ![mine[t]] = MaxAnswers]
          /\ Goto(t, "sent")
       \/ Goto(t, "put") /\ UNCHANGED answers
    /\ UNCHANGED <<is_initialized, next_cookie, reqVars, eventVars, walkVars,
                   at, mine>>

Wait(t) ==
    /\ pc[t] = "sent"
    /\ ~list_lock
    /\ wait_events' = wait_events \cup {at[t]}
    /\ Goto(t, "waiting")
    /\ UNCHANGED <<is_initialized, next_cookie, answers, reqVars, eventVars,
                   list_lock, todo, forced, at, mine>>

Woken(t) ==
    /\ pc[t] = "waiting"
    /\ count[at[t]] > 0
    /\ count' = [count EXCEPT ![at[t]] = @ - 1]
    /\ Goto(t, "woken")
    /\ UNCHANGED <<is_initialized, next_cookie, answers, reqVars, done,
                   force_set, walkVars, at, mine>>

TimesOut(t) ==
    /\ pc[t] = "waiting"
    /\ count[at[t]] = 0
    /\ Goto(t, "late")
    /\ UNCHANGED <<is_initialized, next_cookie, answers, reqVars, eventVars,
                   walkVars, at, mine>>

\* mutant: does not look at force_set.
VerdictBlind(c) == "good"
Verdict(c) == IF force_set[c] THEN "late" ELSE "good"

Judge(t) ==
    /\ pc[t] = "woken"
    /\ Goto(t, Verdict(at[t]))
    /\ UNCHANGED <<is_initialized, next_cookie, answers, reqVars, eventVars,
                   walkVars, at, mine>>

\* The event comes off the list; only a good answer is read.
Leave(t) ==
    /\ pc[t] \in {"good", "late"}
    /\ ~list_lock
    /\ wait_events' = wait_events \ {at[t]}
    /\ Goto(t, IF pc[t] = "good" THEN "read" ELSE "put")
    /\ UNCHANGED <<is_initialized, next_cookie, answers, reqVars, eventVars,
                   list_lock, todo, forced, at, mine>>

Read(t) ==
    /\ pc[t] = "read"
    /\ Goto(t, "put")
    /\ UNCHANGED <<is_initialized, next_cookie, answers, reqVars, eventVars,
                   walkVars, at, mine>>

-----------------------------------------------------------------------------
(* The response callback.                                                  *)

Answer(t) ==
    /\ pc[t] = "idle"
    /\ \E k \in Cookie :
        /\ answers[k] > 0
        /\ answers' = [answers EXCEPT ![k] = @ - 1]
        /\ mine' = [mine EXCEPT ![t] = k]
    /\ Goto(t, "get")
    /\ UNCHANGED <<is_initialized, next_cookie, reqVars, eventVars, walkVars, at>>

Borrowed(n) == n   \* mutant: looks the request up and takes no reference
Referenced(n) == n + 1

osif_request_get(t) ==
    /\ pc[t] = "get"
    /\ \/ \E c \in requests :
            /\ is_initialized
            /\ cookie[c] = mine[t]
            /\ reference_count' =
                 [reference_count EXCEPT ![c] = Referenced(reference_count[c])]
            /\ at' = [at EXCEPT ![t] = c]
            /\ Goto(t, "fill")
            /\ UNCHANGED mine
       \/ /\ is_initialized => \A c \in requests : cookie[c] # mine[t]
          /\ Return(t)
          /\ UNCHANGED reference_count
    /\ UNCHANGED <<is_initialized, next_cookie, answers, live, requests,
                   cookie, data, eventVars, walkVars>>

Fill(t) ==
    /\ pc[t] = "fill"
    /\ data' = [data EXCEPT ![at[t]] = mine[t]]
    /\ Goto(t, "set")
    /\ UNCHANGED <<is_initialized, next_cookie, answers, live, requests,
                   cookie, reference_count, eventVars, walkVars, at, mine>>

-----------------------------------------------------------------------------
(* qdf_event_set, called by callbacks and by the walk: done, then complete. *)

SetDone(t) ==
    /\ pc[t] = "set"
    /\ done' = [done EXCEPT ![at[t]] = TRUE]
    /\ Goto(t, "complete")
    /\ UNCHANGED <<is_initialized, next_cookie, answers, reqVars, force_set,
                   count, walkVars, at, mine>>

\* mutant: the callback keeps its reference.
AfterLeaking(t) == IF t = Recovery THEN "walk" ELSE "idle"
After(t) == IF t = Recovery THEN "walk" ELSE "put"

Complete(t) ==
    /\ pc[t] = "complete"
    /\ count' = [count EXCEPT ![at[t]] = @ + 1]
    /\ Goto(t, After(t))
    /\ UNCHANGED <<is_initialized, next_cookie, answers, reqVars, done,
                   force_set, walkVars, at, mine>>

-----------------------------------------------------------------------------
(* The last reference unlinks the request; it is freed outside the lock.   *)

osif_request_put(t) ==
    /\ pc[t] = "put"
    /\ reference_count' = [reference_count EXCEPT ![at[t]] = @ - 1]
    /\ IF reference_count[at[t]] = 1
       THEN /\ requests' = requests \ {at[t]}
            /\ Goto(t, "destroy")
            /\ UNCHANGED <<at, mine>>
       ELSE Return(t) /\ UNCHANGED requests
    /\ UNCHANGED <<is_initialized, next_cookie, answers, live, cookie, data,
                   eventVars, walkVars>>

osif_request_destroy(t) ==
    /\ pc[t] = "destroy"
    /\ live' = live \ {at[t]}
    /\ Blank(at[t])
    /\ Return(t)
    /\ UNCHANGED <<is_initialized, next_cookie, answers, requests, cookie,
                   reference_count, data, walkVars>>

-----------------------------------------------------------------------------
(* qdf_complete_wait_events, under qdf_wait_event_lock.                    *)

WalkBegin ==
    /\ pc[Recovery] = "idle"
    /\ forced < MaxForced
    /\ wait_events # {}
    /\ forced' = forced + 1
    /\ list_lock' = TRUE
    /\ todo' = wait_events
    /\ Goto(Recovery, "walk")
    /\ UNCHANGED <<is_initialized, next_cookie, answers, reqVars, eventVars,
                   wait_events, at, mine>>

\* An event that is done is left alone.
WalkTest ==
    /\ pc[Recovery] = "walk"
    /\ \E c \in todo :
        /\ todo' = todo \ {c}
        /\ at' = [at EXCEPT ![Recovery] = c]
        /\ Goto(Recovery, IF done[c] THEN "walk" ELSE "force")
    /\ UNCHANGED <<is_initialized, next_cookie, answers, reqVars, eventVars,
                   wait_events, list_lock, forced, mine>>

WalkForce ==
    /\ pc[Recovery] = "force"
    /\ force_set' = [force_set EXCEPT ![at[Recovery]] = TRUE]
    /\ Goto(Recovery, "set")
    /\ UNCHANGED <<is_initialized, next_cookie, answers, reqVars, done, count,
                   walkVars, at, mine>>

WalkEnd ==
    /\ pc[Recovery] = "walk"
    /\ todo = {}
    /\ list_lock' = FALSE
    /\ Return(Recovery)
    /\ UNCHANGED <<is_initialized, next_cookie, answers, reqVars, eventVars,
                   wait_events, todo, forced>>

-----------------------------------------------------------------------------
RequesterStep(t) ==
    Send(t) \/ Wait(t) \/ Woken(t) \/ TimesOut(t) \/ Judge(t) \/ Leave(t) \/ Read(t)

CallbackStep(t) ==
    osif_request_get(t) \/ Fill(t) \/ SetDone(t) \/ Complete(t)

PutStep(t) == osif_request_put(t) \/ osif_request_destroy(t)

WalkStep ==
    WalkTest \/ WalkForce \/ SetDone(Recovery) \/ Complete(Recovery) \/ WalkEnd

Next ==
    \/ osif_request_manager_init \/ osif_request_manager_deinit
    \/ \E t \in Requester : osif_request_alloc(t) \/ RequesterStep(t) \/ PutStep(t)
    \/ \E t \in Callback : Answer(t) \/ CallbackStep(t) \/ PutStep(t)
    \/ WalkBegin \/ WalkStep

Spec == Init /\ [][Next]_vars

\* Threads inside a call run on, and time-outs end; nobody owes an answer.
Fairness ==
    /\ \A t \in Requester : WF_vars(RequesterStep(t)) /\ WF_vars(PutStep(t))
    /\ \A t \in Callback : WF_vars(CallbackStep(t)) /\ WF_vars(PutStep(t))
    /\ WF_vars(WalkStep)

FairSpec == Spec /\ Fairness

-----------------------------------------------------------------------------
(* Properties.                                                             *)

TypeOK ==
    /\ is_initialized \in BOOLEAN
    /\ next_cookie \in 1..(MaxCookie + 1)
    /\ live \subseteq Cell
    /\ requests \subseteq Cell
    /\ cookie \in [Cell -> 0..MaxCookie]
    /\ reference_count \in [Cell -> Nat]
    /\ data \in [Cell -> 0..MaxCookie]
    /\ done \in [Cell -> BOOLEAN]
    /\ force_set \in [Cell -> BOOLEAN]
    /\ count \in [Cell -> Nat]
    /\ wait_events \subseteq Cell
    /\ list_lock \in BOOLEAN
    /\ todo \subseteq Cell
    /\ answers \in [Cookie -> Nat]
    /\ forced \in Nat
    /\ pc \in [Thread -> Holding \cup {"idle", "get", "destroy", "walk", "force"}]
    /\ at \in [Thread -> Cell \cup {NoCell}]
    /\ mine \in [Thread -> 0..MaxCookie]

\* Nobody points into freed or reused memory: a client with a reference has
\* the very request it asked for, a thread about to free one still has it,
\* and every event that firmware down may set by force is alive.
NoDangling ==
    /\ \A t \in Client :
        /\ pc[t] \in Holding =>
             at[t] \in live /\ cookie[at[t]] = mine[t]
        /\ pc[t] = "destroy" => at[t] \in live
    /\ wait_events \subseteq live
    /\ pc[Recovery] \in {"force", "set", "complete"} => at[Recovery] \in live

\* A requester that is told of success reads the answer to its own request,
\* whatever late, repeated or forced completions came before.
AnswerIsMine ==
    \A t \in Requester : pc[t] = "read" => data[at[t]] = mine[t]

\* Every request is freed at last, whether it was answered, timed out, was
\* completed by force or refused, and with late answers on their way.
EventuallyFreed == \A c \in Cell : c \in live ~> c \notin live

-----------------------------------------------------------------------------
(* The inductive invariant (proved in RequestProofs).                      *)

\* Who holds what: the list has exactly the requests that someone refers to,
\* the count of each is the number of its holders, and a request that left
\* the list has one thread that frees it.
Linked ==
    \A t \in Client :
        pc[t] \in Holding => at[t] \in requests /\ cookie[at[t]] = mine[t]
Counted == \A c \in requests : reference_count[c] = Cardinality(Holders(c))
Freeing == \A t \in Client : pc[t] = "destroy" => at[t] \in live \ requests
FreedOnce ==
    \A t, u \in Client :
        pc[t] = "destroy" /\ pc[u] = "destroy" /\ at[t] = at[u] => t = u
RefInv == requests \subseteq live /\ Linked /\ Counted /\ Freeing /\ FreedOnce

\* Every event on the list has a sleeper, and the walk keeps it there.
Slept == \A c \in wait_events : \E t \in Client : pc[t] \in Asleep /\ at[t] = c
Walked ==
    /\ pc[Recovery] \in {"idle", "walk", "force", "set", "complete"}
    /\ list_lock <=> pc[Recovery] # "idle"
    /\ todo \subseteq wait_events
    /\ ~list_lock => todo = {}
    /\ pc[Recovery] \in {"force", "set", "complete"} => at[Recovery] \in wait_events
WaitInv == Slept /\ Walked

\* An event completed by nobody but the walk carries force_set.
Answered ==
    \A c \in requests : count[c] > 0 /\ ~force_set[c] => data[c] = cookie[c]
Sound ==
    \A t \in Client :
        \/ pc[t] \in {"good", "read", "set", "complete"}
        \/ pc[t] = "woken" /\ ~force_set[at[t]]
        => data[at[t]] = mine[t]
Marked == pc[Recovery] \in {"set", "complete"} => force_set[at[Recovery]]
DataInv == Answered /\ Sound /\ Marked

\* All of these together are what every step of the request manager and of
\* qdf_event.c relies on and keeps.
IInv == TypeOK /\ RefInv /\ WaitInv /\ DataInv
=============================================================================
