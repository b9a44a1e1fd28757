---------------------------- MODULE RequestProofs ----------------------------
(***************************************************************************)
(* Proofs about RequestManager, for any finite sets of requesters and      *)
(* callbacks, any memory and any bounds: requests are never used after     *)
(* they are freed, and a requester only reads the answer to its own.       *)
(***************************************************************************)
EXTENDS RequestManager, FiniteSetTheorems, TLAPS

-----------------------------------------------------------------------------
(* Facts used throughout.                                                  *)

LEMMA ThreadsApart ==
    /\ Requester \subseteq Client /\ Callback \subseteq Client
    /\ Client \subseteq Thread /\ Recovery \in Thread /\ Recovery \notin Client
    /\ IsFiniteSet(Client)
<1>1. IsFiniteSet(Client)
  BY RequestAssumption, FS_Union DEF Client
<1> QED
  BY <1>1, RequestAssumption DEF Client, Thread

LEMMA HoldersFinite ==
    \A c : IsFiniteSet(Holders(c))
<1>1. \A c : Holders(c) \in SUBSET Client
  BY DEF Holders
<1> QED
  BY <1>1, ThreadsApart, FS_Subset

\* A thread that holds a request is counted on it.
LEMMA HeldIsCounted ==
    ASSUME TypeOK, RefInv, NEW t \in Client, pc[t] \in Holding
    PROVE  /\ at[t] \in Cell /\ at[t] \in requests /\ at[t] \in live
           /\ reference_count[at[t]] \in Nat /\ reference_count[at[t]] # 0
<1>1. at[t] \in requests /\ at[t] \in live
  BY DEF RefInv, Linked
<1>2. at[t] \in Cell
  BY <1>1 DEF TypeOK
<1>3. t \in Holders(at[t])
  BY DEF Holders
<1>4. Cardinality(Holders(at[t])) # 0
  BY <1>3, HoldersFinite, FS_EmptySet
<1> QED
  BY <1>1, <1>2, <1>4 DEF RefInv, Counted, TypeOK

\* Steps that leave the holders alone leave RefInv alone.
LEMMA SameHolders ==
    ASSUME RefInv,
           UNCHANGED <<live, requests, cookie, reference_count>>,
           \A t \in Client :
             /\ pc'[t] \in Holding <=> pc[t] \in Holding
             /\ pc'[t] = "destroy" <=> pc[t] = "destroy"
             /\ pc[t] \in Holding \/ pc[t] = "destroy" =>
                  at'[t] = at[t] /\ mine'[t] = mine[t]
    PROVE  RefInv'
<1>1. \A c : Holders(c)' = Holders(c)
  BY DEF Holders
<1>2. Counted'
  BY <1>1 DEF RefInv, Counted
<1> QED
  BY <1>2 DEF RefInv, Linked, Freeing, FreedOnce

-----------------------------------------------------------------------------
(* Types.                                                                  *)

ThreadsTyped ==
    /\ pc \in [Thread -> Holding \cup {"idle", "get", "destroy", "walk", "force"}]
    /\ at \in [Thread -> Cell \cup {NoCell}]
    /\ mine \in [Thread -> 0..MaxCookie]

LEMMA GotoType ==
    ASSUME TypeOK, NEW t, NEW s, Goto(t, s),
           s \in Holding \cup {"idle", "get", "destroy", "walk", "force"}
    PROVE  pc' \in [Thread -> Holding \cup {"idle", "get", "destroy", "walk", "force"}]
BY DEF TypeOK, Goto

LEMMA ReturnType ==
    ASSUME TypeOK, NEW t, Return(t)
    PROVE  ThreadsTyped'
<1>1. pc' \in [Thread -> Holding \cup {"idle", "get", "destroy", "walk", "force"}]
  BY GotoType DEF Return
<1>2. at' \in [Thread -> Cell \cup {NoCell}]
  BY DEF Return, TypeOK
<1>3. mine' \in [Thread -> 0..MaxCookie]
  <2>1. 0 \in 0..MaxCookie
    BY RequestAssumption
  <2>2. mine' = [mine EXCEPT ![t] = 0]
    BY DEF Return
  <2>3. mine \in [Thread -> 0..MaxCookie]
    BY DEF TypeOK
  <2> QED
    BY <2>1, <2>2, <2>3
<1> QED
  BY <1>1, <1>2, <1>3 DEF ThreadsTyped

LEMMA TypeStep ==
    ASSUME IInv, Next
    PROVE  TypeOK'
<1> USE RequestAssumption, ThreadsApart DEF IInv, reqVars, eventVars, walkVars,
        threadVars, Return, Goto, Cookie, Holding
<1>1. CASE osif_request_manager_init \/ osif_request_manager_deinit
  BY <1>1 DEF TypeOK, osif_request_manager_init, osif_request_manager_deinit
<1>2. ASSUME NEW t \in Requester, osif_request_alloc(t)
      PROVE  TypeOK'
  <2>1. PICK c \in Cell \ live :
          /\ live' = live \cup {c} /\ requests' = requests \cup {c}
          /\ cookie' = [cookie EXCEPT ![c] = next_cookie]
          /\ reference_count' = [reference_count EXCEPT ![c] = OwnReference]
          /\ data' = [data EXCEPT ![c] = 0]
          /\ Blank(c)
    BY <1>2 DEF osif_request_alloc
  <2>2. /\ live' \subseteq Cell /\ requests' \subseteq Cell
        /\ cookie' \in [Cell -> 0..MaxCookie] /\ reference_count' \in [Cell -> Nat]
        /\ data' \in [Cell -> 0..MaxCookie]
    BY <1>2, <2>1 DEF TypeOK, osif_request_alloc, OwnReference
  <2>3. /\ done' \in [Cell -> BOOLEAN] /\ force_set' \in [Cell -> BOOLEAN]
        /\ count' \in [Cell -> Nat]
    BY <2>1 DEF TypeOK, Blank
  <2>4. /\ pc' \in [Thread -> Holding \cup {"idle", "get", "destroy", "walk", "force"}]
        /\ at' \in [Thread -> Cell \cup {NoCell}] /\ mine' \in [Thread -> 0..MaxCookie]
        /\ next_cookie' \in 1..(MaxCookie + 1)
    <3>1. pc' \in [Thread -> Holding \cup {"idle", "get", "destroy", "walk", "force"}]
      BY <1>2, GotoType DEF osif_request_alloc
    <3>2. at' \in [Thread -> Cell \cup {NoCell}]
      BY <1>2 DEF TypeOK, osif_request_alloc
    <3>3. next_cookie' \in 1..(MaxCookie + 1) /\ mine' \in [Thread -> 0..MaxCookie]
      BY <1>2 DEF TypeOK, osif_request_alloc
    <3> QED BY <3>1, <3>2, <3>3
  <2> QED BY <1>2, <2>2, <2>3, <2>4 DEF TypeOK, osif_request_alloc
<1>3. ASSUME NEW t \in Requester, RequesterStep(t)
      PROVE  TypeOK'
  <2>1. CASE Send(t)
    <3>1. answers' \in [Cookie -> Nat]
      BY <2>1 DEF TypeOK, Send
    <3>2. pc' \in [Thread -> Holding \cup {"idle", "get", "destroy", "walk", "force"}]
      BY <2>1, GotoType DEF Send
    <3> QED
      BY <2>1, <3>1, <3>2 DEF TypeOK, Send
  <2>2. CASE Wait(t)
    <3>1. at[t] \in Cell
      BY <2>2, HeldIsCounted DEF Wait
    <3> QED
      BY <2>2, <3>1 DEF TypeOK, Wait
  <2>3. CASE Woken(t)
    <3>1. at[t] \in Cell
      BY <2>3, HeldIsCounted DEF Woken
    <3> QED
      BY <2>3, <3>1 DEF TypeOK, Woken
  <2>4. CASE TimesOut(t) \/ Judge(t)
    BY <2>4 DEF TypeOK, TimesOut, Judge, Verdict
  <2>5. CASE Leave(t) \/ Read(t)
    BY <2>5 DEF TypeOK, Leave, Read
  <2> QED
    BY <1>3, <2>1, <2>2, <2>3, <2>4, <2>5 DEF RequesterStep
<1>4. ASSUME NEW t \in Client, PutStep(t)
      PROVE  TypeOK'
  <2>1. CASE osif_request_put(t)
    <3>1. at[t] \in Cell /\ reference_count[at[t]] # 0
      BY <2>1, HeldIsCounted DEF osif_request_put
    <3>2. reference_count[at[t]] - 1 \in Nat
      BY <3>1 DEF TypeOK
    <3>3. reference_count' \in [Cell -> Nat]
      BY <2>1, <3>2 DEF TypeOK, osif_request_put
    <3>4. ThreadsTyped'
      <4>1. CASE Return(t)
        BY <4>1, ReturnType
      <4>2. CASE Goto(t, "destroy") /\ UNCHANGED <<at, mine>>
        BY <4>2, GotoType DEF ThreadsTyped, TypeOK
      <4> QED
        BY <2>1, <4>1, <4>2 DEF osif_request_put
    <3> QED
      BY <2>1, <3>3, <3>4 DEF TypeOK, ThreadsTyped, osif_request_put
  <2>2. CASE osif_request_destroy(t)
    <3>1. ThreadsTyped'
      BY <2>2, ReturnType DEF osif_request_destroy
    <3> QED
      BY <2>2, <3>1 DEF TypeOK, ThreadsTyped, osif_request_destroy, Blank
  <2> QED
    BY <1>4, <2>1, <2>2 DEF PutStep
<1>5. ASSUME NEW t \in Callback, Answer(t)
      PROVE  TypeOK'
  <2>1. answers' \in [Cookie -> Nat]
    BY <1>5 DEF TypeOK, Answer
  <2>2. mine' \in [Thread -> 0..MaxCookie]
    BY <1>5 DEF TypeOK, Answer
  <2>3. pc' \in [Thread -> Holding \cup {"idle", "get", "destroy", "walk", "force"}]
    BY <1>5, GotoType DEF Answer
  <2> QED
    BY <1>5, <2>1, <2>2, <2>3 DEF TypeOK, Answer
<1>6. ASSUME NEW t \in Callback, CallbackStep(t)
      PROVE  TypeOK'
  <2>1. CASE osif_request_get(t)
    <3>1. CASE Return(t) /\ UNCHANGED reference_count
      <4>1. ThreadsTyped'
        BY <3>1, ReturnType
      <4> QED
        BY <2>1, <3>1, <4>1 DEF TypeOK, ThreadsTyped, osif_request_get
    <3>2. ASSUME NEW c \in requests,
                 reference_count' =
                   [reference_count EXCEPT ![c] = Referenced(reference_count[c])],
                 at' = [at EXCEPT ![t] = c],
                 pc' = [pc EXCEPT ![t] = "fill"],
                 mine' = mine
          PROVE  TypeOK'
      <4>1. c \in Cell /\ reference_count' \in [Cell -> Nat]
        BY <3>2 DEF TypeOK, Referenced
      <4> QED
        BY <2>1, <3>2, <4>1 DEF TypeOK, osif_request_get
    <3> QED
      BY <2>1, <3>1, <3>2 DEF osif_request_get
  <2>2. CASE Fill(t)
    BY <2>2 DEF TypeOK, Fill
  <2>3. CASE SetDone(t)
    BY <2>3 DEF TypeOK, SetDone
  <2>4. CASE Complete(t)
    <3>1. count' \in [Cell -> Nat]
      <4>1. at[t] \in Cell
        BY <2>4, HeldIsCounted DEF Complete
      <4> QED
        BY <2>4, <4>1 DEF TypeOK, Complete
    <3>2. pc' \in [Thread -> Holding \cup {"idle", "get", "destroy", "walk", "force"}]
      BY <2>4, GotoType DEF Complete, After
    <3> QED
      BY <2>4, <3>1, <3>2 DEF TypeOK, Complete
  <2> QED
    BY <1>6, <2>1, <2>2, <2>3, <2>4 DEF CallbackStep
<1>7. CASE WalkBegin
  BY <1>7 DEF TypeOK, WalkBegin
<1>8. CASE WalkStep
  <2>1. CASE WalkTest
    BY <2>1 DEF TypeOK, WalkTest
  <2>2. CASE WalkForce
    BY <2>2 DEF TypeOK, WalkForce
  <2>3. CASE SetDone(Recovery)
    BY <2>3 DEF TypeOK, SetDone
  <2>4. CASE Complete(Recovery)
    <3>1. count' \in [Cell -> Nat]
      <4>1. at[Recovery] \in Cell
        BY <2>4 DEF Complete, WaitInv, Walked, TypeOK
      <4> QED
        BY <2>4, <4>1 DEF TypeOK, Complete
    <3>2. pc' \in [Thread -> Holding \cup {"idle", "get", "destroy", "walk", "force"}]
      BY <2>4, GotoType DEF Complete, After
    <3> QED
      BY <2>4, <3>1, <3>2 DEF TypeOK, Complete
  <2>5. CASE WalkEnd
    <3>1. ThreadsTyped'
      BY <2>5, ReturnType DEF WalkEnd
    <3> QED
      BY <2>5, <3>1 DEF TypeOK, ThreadsTyped, WalkEnd
  <2> QED
    BY <1>8, <2>1, <2>2, <2>3, <2>4, <2>5 DEF WalkStep
<1> QED
  BY <1>1, <1>2, <1>3, <1>4, <1>5, <1>6, <1>7, <1>8 DEF Next

-----------------------------------------------------------------------------
(* References.                                                             *)

LEMMA AllocRef ==
    ASSUME IInv, NEW t \in Requester, osif_request_alloc(t)
    PROVE  RefInv'
<1> USE RequestAssumption, ThreadsApart DEF IInv, Goto
<1>1. t \in Client /\ pc[t] = "idle" /\ pc' = [pc EXCEPT ![t] = "allocated"]
  BY DEF osif_request_alloc
<1>2. PICK c \in Cell \ live :
        /\ live' = live \cup {c}
        /\ requests' = requests \cup {c}
        /\ cookie' = [cookie EXCEPT ![c] = next_cookie]
        /\ reference_count' = [reference_count EXCEPT ![c] = OwnReference]
        /\ at' = [at EXCEPT ![t] = c]
        /\ mine' = [mine EXCEPT ![t] = next_cookie]
  BY DEF osif_request_alloc
<1>3. c \notin requests /\ cookie'[c] = next_cookie /\ at'[t] = c
      /\ mine'[t] = next_cookie /\ pc'[t] = "allocated"
      /\ reference_count'[c] = 1
  BY <1>1, <1>2 DEF TypeOK, RefInv, OwnReference
<1>4. \A u \in Client \ {t} :
        pc'[u] = pc[u] /\ at'[u] = at[u] /\ mine'[u] = mine[u]
  BY <1>1, <1>2 DEF TypeOK
<1>5. \A d \in requests :
        /\ d # c /\ cookie'[d] = cookie[d]
        /\ reference_count'[d] = reference_count[d]
  BY <1>2, <1>3 DEF TypeOK
<1>6. Linked'
  BY <1>2, <1>3, <1>4, <1>5 DEF RefInv, Linked
<1>7. Holders(c)' = {t}
  BY <1>1, <1>3, <1>4 DEF Holders, RefInv, Linked, Holding
<1>8. \A d \in requests : Holders(d)' = Holders(d)
  BY <1>1, <1>3, <1>4 DEF Holders, Holding
<1>9. Counted'
  <2>1. ASSUME NEW d \in requests'
        PROVE  reference_count'[d] = Cardinality(Holders(d)')
    <3>1. CASE d = c
      BY <1>3, <1>7, <3>1, FS_Singleton
    <3>2. CASE d # c
      BY <1>2, <1>5, <1>8, <2>1, <3>2 DEF RefInv, Counted
    <3> QED
      BY <3>1, <3>2
  <2> QED
    BY <2>1 DEF Counted
<1>10. Freeing' /\ FreedOnce'
  BY <1>1, <1>2, <1>3, <1>4 DEF RefInv, Freeing, FreedOnce
<1> QED
  BY <1>2, <1>6, <1>9, <1>10 DEF RefInv

LEMMA GetRef ==
    ASSUME IInv, NEW t \in Callback, osif_request_get(t)
    PROVE  RefInv'
<1> USE RequestAssumption, ThreadsApart DEF IInv, Goto
<1>1. t \in Client /\ pc[t] = "get" /\ UNCHANGED <<live, requests, cookie>>
  BY DEF osif_request_get
<1>2. CASE Return(t) /\ UNCHANGED reference_count
  BY <1>1, <1>2, SameHolders DEF Return, TypeOK, Holding
<1>3. ASSUME NEW c \in requests,
             cookie[c] = mine[t],
             reference_count' =
               [reference_count EXCEPT ![c] = Referenced(reference_count[c])],
             at' = [at EXCEPT ![t] = c],
             pc' = [pc EXCEPT ![t] = "fill"],
             mine' = mine
      PROVE  RefInv'
  <2>1. /\ pc'[t] = "fill" /\ at'[t] = c
        /\ \A u \in Client \ {t} : pc'[u] = pc[u] /\ at'[u] = at[u]
    BY <1>1, <1>3 DEF TypeOK
  <2>2. Linked'
    BY <1>1, <1>3, <2>1 DEF RefInv, Linked
  <2>3. Holders(c)' = Holders(c) \cup {t} /\ t \notin Holders(c)
    BY <1>1, <2>1 DEF Holders, Holding
  <2>4. \A d : d # c => Holders(d)' = Holders(d)
    BY <1>1, <2>1 DEF Holders, Holding
  <2>5. Cardinality(Holders(c)') = Cardinality(Holders(c)) + 1
    BY <2>3, HoldersFinite, FS_AddElement
  <2>6. reference_count'[c] = reference_count[c] + 1
        /\ \A d \in requests \ {c} : reference_count'[d] = reference_count[d]
    BY <1>3 DEF TypeOK, Referenced
  <2>7. Counted'
    BY <1>1, <2>4, <2>5, <2>6 DEF RefInv, Counted
  <2>8. Freeing' /\ FreedOnce'
    BY <1>1, <2>1 DEF RefInv, Freeing, FreedOnce
  <2> QED
    BY <1>1, <2>2, <2>7, <2>8 DEF RefInv
<1> QED
  BY <1>2, <1>3 DEF osif_request_get

LEMMA PutRef ==
    ASSUME IInv, NEW t \in Client, osif_request_put(t)
    PROVE  RefInv'
<1> USE RequestAssumption, ThreadsApart DEF IInv, Goto
<1>0. PICK c : c = at[t]
  OBVIOUS
<1>1. /\ pc[t] = "put" /\ UNCHANGED <<live, cookie>>
      /\ c \in Cell /\ c \in requests /\ c \in live
      /\ reference_count[c] \in Nat /\ reference_count[c] # 0
  BY <1>0, HeldIsCounted DEF osif_request_put, Holding, reqVars
<1>2. /\ \A u \in Client \ {t} :
           pc'[u] = pc[u] /\ at'[u] = at[u] /\ mine'[u] = mine[u]
      /\ pc'[t] \in {"destroy", "idle"}
  BY DEF osif_request_put, Return, TypeOK
<1>3. Holders(c)' = Holders(c) \ {t} /\ t \in Holders(c)
  BY <1>0, <1>1, <1>2 DEF Holders, Holding
<1>4. \A d : d # c => Holders(d)' = Holders(d)
  BY <1>0, <1>1, <1>2 DEF Holders, Holding
<1>5. Cardinality(Holders(c)') = Cardinality(Holders(c)) - 1
  BY <1>3, HoldersFinite, FS_RemoveElement
<1>6. reference_count'[c] = reference_count[c] - 1
      /\ \A d \in requests \ {c} : reference_count'[d] = reference_count[d]
  BY <1>0, <1>1 DEF osif_request_put, TypeOK
<1>7. CASE reference_count[c] = 1
  <2>1. /\ requests' = requests \ {c}
        /\ pc'[t] = "destroy" /\ at'[t] = c
    BY <1>0, <1>7 DEF osif_request_put, TypeOK
  <2>2. Holders(c)' = {}
    BY <1>1, <1>3, <1>5, <1>7, HoldersFinite, FS_EmptySet, FS_RemoveElement
       DEF RefInv, Counted
  <2>3. Linked'
    BY <1>0, <1>1, <1>2, <2>1, <2>2 DEF RefInv, Linked, Holders, Holding
  <2>4. Counted'
    BY <1>4, <1>6, <2>1 DEF RefInv, Counted
  <2>5. Freeing' /\ FreedOnce'
    BY <1>0, <1>1, <1>2, <2>1 DEF RefInv, Freeing, FreedOnce
  <2> QED
    BY <1>1, <2>1, <2>3, <2>4, <2>5 DEF RefInv
<1>8. CASE reference_count[c] # 1
  <2>1. requests' = requests /\ pc'[t] = "idle"
    BY <1>0, <1>8 DEF osif_request_put, Return, TypeOK
  <2>2. Linked'
    BY <1>0, <1>1, <1>2, <2>1 DEF RefInv, Linked, Holding
  <2>3. Counted'
    BY <1>1, <1>4, <1>5, <1>6, <2>1 DEF RefInv, Counted
  <2>4. Freeing' /\ FreedOnce'
    BY <1>0, <1>1, <1>2, <2>1 DEF RefInv, Freeing, FreedOnce
  <2> QED
    BY <1>1, <2>1, <2>2, <2>3, <2>4 DEF RefInv
<1> QED
  BY <1>7, <1>8

LEMMA DestroyRef ==
    ASSUME IInv, NEW t \in Client, osif_request_destroy(t)
    PROVE  RefInv'
<1> USE RequestAssumption, ThreadsApart DEF IInv, Goto
<1>1. /\ pc[t] = "destroy" /\ UNCHANGED <<requests, cookie, reference_count>>
      /\ live' = live \ {at[t]} /\ at[t] \notin requests
  BY DEF osif_request_destroy, RefInv, Freeing
<1>2. /\ \A u \in Client \ {t} :
           pc'[u] = pc[u] /\ at'[u] = at[u] /\ mine'[u] = mine[u]
      /\ pc'[t] = "idle"
  BY DEF osif_request_destroy, Return, TypeOK
<1>3. \A d : Holders(d)' = Holders(d)
  BY <1>1, <1>2 DEF Holders, Holding
<1>4. Counted'
  BY <1>1, <1>3 DEF RefInv, Counted
<1>5. Linked' /\ requests' \subseteq live'
  BY <1>1, <1>2 DEF RefInv, Linked, Holding
<1>6. Freeing' /\ FreedOnce'
  BY <1>1, <1>2 DEF RefInv, Freeing, FreedOnce
<1> QED
  BY <1>4, <1>5, <1>6 DEF RefInv

LEMMA RefStep ==
    ASSUME IInv, Next
    PROVE  RefInv'
<1> USE ThreadsApart DEF IInv, reqVars, eventVars, walkVars, threadVars, Goto
<1>1. CASE osif_request_manager_init \/ osif_request_manager_deinit
  BY <1>1, SameHolders
     DEF osif_request_manager_init, osif_request_manager_deinit
<1>2. ASSUME NEW t \in Requester, osif_request_alloc(t)
      PROVE  RefInv'
  BY <1>2, AllocRef
<1>3. ASSUME NEW t \in Requester, RequesterStep(t)
      PROVE  RefInv'
  <2>1. /\ pc[t] \in Holding /\ pc'[t] \in Holding
        /\ \A u \in Client \ {t} : pc'[u] = pc[u]
        /\ UNCHANGED <<live, requests, cookie, reference_count, at, mine>>
    BY <1>3 DEF RequesterStep, Send, Wait, Woken, TimesOut, Judge, Verdict, Leave,
       Read, TypeOK, Holding
  <2> QED
    BY <2>1, SameHolders DEF Holding
<1>4. ASSUME NEW t \in Client, PutStep(t)
      PROVE  RefInv'
  BY <1>4, PutRef, DestroyRef DEF PutStep
<1>5. ASSUME NEW t \in Callback, Answer(t)
      PROVE  RefInv'
  BY <1>5, SameHolders DEF Answer, TypeOK, Holding
<1>6. ASSUME NEW t \in Callback, CallbackStep(t)
      PROVE  RefInv'
  <2>1. CASE osif_request_get(t)
    BY <2>1, GetRef
  <2>2. CASE Fill(t) \/ SetDone(t) \/ Complete(t)
    <3>1. /\ pc[t] \in Holding /\ pc'[t] \in Holding
          /\ \A u \in Client \ {t} : pc'[u] = pc[u]
          /\ UNCHANGED <<live, requests, cookie, reference_count, at, mine>>
      BY <2>2 DEF Fill, SetDone, Complete, After, TypeOK, Holding
    <3> QED
      BY <3>1, SameHolders DEF Holding
  <2> QED
    BY <1>6, <2>1, <2>2 DEF CallbackStep
<1>7. CASE WalkBegin \/ WalkStep
  <2>1. /\ UNCHANGED <<live, requests, cookie, reference_count>>
        /\ \A u \in Client : pc'[u] = pc[u] /\ at'[u] = at[u] /\ mine'[u] = mine[u]
    BY <1>7 DEF WalkBegin, WalkStep, WalkTest, WalkForce, SetDone, Complete, WalkEnd,
       Return, TypeOK
  <2> QED
    BY <2>1, SameHolders
<1> QED
  BY <1>1, <1>2, <1>3, <1>4, <1>5, <1>6, <1>7 DEF Next

-----------------------------------------------------------------------------
(* The list of events that threads wait for.                               *)

\* Steps of threads that do not come to or leave the list.
LEMMA SameSleepers ==
    ASSUME WaitInv,
           UNCHANGED <<wait_events, list_lock, todo>>,
           pc'[Recovery] = pc[Recovery], at'[Recovery] = at[Recovery],
           \A u \in Client :
             pc[u] \in Asleep => pc'[u] \in Asleep /\ at'[u] = at[u]
    PROVE  WaitInv'
BY DEF WaitInv, Slept, Walked

\* Steps of the walk: the sleepers sleep on.
LEMMA WalkWait ==
    ASSUME IInv, WalkBegin \/ WalkStep
    PROVE  WaitInv'
<1> USE ThreadsApart DEF IInv, reqVars, eventVars, walkVars, threadVars, Goto
<1>1. /\ wait_events' = wait_events
      /\ \A u \in Client : pc'[u] = pc[u] /\ at'[u] = at[u]
  BY DEF WalkBegin, WalkStep, WalkTest, WalkForce, SetDone, Complete, WalkEnd,
     Return, TypeOK
<1>2. Slept'
  BY <1>1 DEF WaitInv, Slept
<1>3. Walked'
  <2>1. CASE WalkBegin
    BY <2>1 DEF WalkBegin, WaitInv, Walked, TypeOK
  <2>2. CASE WalkTest
    BY <2>2 DEF WalkTest, WaitInv, Walked, TypeOK
  <2>3. CASE WalkForce
    BY <2>3 DEF WalkForce, WaitInv, Walked, TypeOK
  <2>4. CASE SetDone(Recovery)
    BY <2>4 DEF SetDone, WaitInv, Walked, TypeOK
  <2>5. CASE Complete(Recovery)
    BY <2>5 DEF Complete, After, WaitInv, Walked, TypeOK
  <2>6. CASE WalkEnd
    BY <2>6 DEF WalkEnd, Return, WaitInv, Walked, TypeOK
  <2> QED
    BY <2>1, <2>2, <2>3, <2>4, <2>5, <2>6 DEF WalkStep
<1> QED
  BY <1>2, <1>3 DEF WaitInv

LEMMA WaitStep ==
    ASSUME IInv, Next
    PROVE  WaitInv'
<1> USE ThreadsApart DEF IInv, reqVars, eventVars, walkVars, threadVars, Goto
<1>1. CASE osif_request_manager_init \/ osif_request_manager_deinit
  BY <1>1, SameSleepers
     DEF osif_request_manager_init, osif_request_manager_deinit
<1>2. ASSUME NEW t \in Requester, osif_request_alloc(t)
      PROVE  WaitInv'
  BY <1>2, SameSleepers DEF osif_request_alloc, TypeOK, Asleep
<1>3. ASSUME NEW t \in Requester, RequesterStep(t)
      PROVE  WaitInv'
  <2>1. CASE Send(t) \/ Read(t)
    BY <2>1, SameSleepers DEF Send, Read, TypeOK, Asleep
  <2>2. CASE Woken(t) \/ TimesOut(t) \/ Judge(t)
    BY <2>2, SameSleepers DEF Woken, TimesOut, Judge, Verdict, TypeOK, Asleep
  <2>3. CASE Wait(t)
    <3>1. /\ pc'[t] = "waiting" /\ UNCHANGED at
          /\ wait_events' = wait_events \cup {at[t]}
          /\ pc[t] \notin Asleep
          /\ \A u \in Thread \ {t} : pc'[u] = pc[u]
      BY <2>3 DEF Wait, TypeOK, Asleep
    <3>2. Slept'
      BY <3>1 DEF WaitInv, Slept, Asleep
    <3>3. Walked'
      BY <2>3, <3>1 DEF Wait, WaitInv, Walked
    <3> QED
      BY <3>2, <3>3 DEF WaitInv
  <2>4. CASE Leave(t)
    <3>1. /\ UNCHANGED at /\ wait_events' = wait_events \ {at[t]}
          /\ \A u \in Thread \ {t} : pc'[u] = pc[u]
      BY <2>4 DEF Leave, TypeOK
    <3>2. Slept'
      BY <3>1 DEF WaitInv, Slept
    <3>3. Walked'
      BY <2>4, <3>1 DEF Leave, WaitInv, Walked
    <3> QED
      BY <3>2, <3>3 DEF WaitInv
  <2> QED
    BY <1>3, <2>1, <2>2, <2>3, <2>4 DEF RequesterStep
<1>4. ASSUME NEW t \in Client, PutStep(t)
      PROVE  WaitInv'
  BY <1>4, SameSleepers
     DEF PutStep, osif_request_put, osif_request_destroy, Return, TypeOK, Asleep
<1>5. ASSUME NEW t \in Callback, Answer(t)
      PROVE  WaitInv'
  BY <1>5, SameSleepers DEF Answer, TypeOK, Asleep
<1>6. ASSUME NEW t \in Callback, CallbackStep(t)
      PROVE  WaitInv'
  <2>1. CASE osif_request_get(t)
    BY <2>1, SameSleepers DEF osif_request_get, Return, TypeOK, Asleep
  <2>2. CASE Fill(t) \/ SetDone(t) \/ Complete(t)
    BY <2>2, SameSleepers DEF Fill, SetDone, Complete, After, TypeOK, Asleep
  <2> QED
    BY <1>6, <2>1, <2>2 DEF CallbackStep
<1>7. CASE WalkBegin \/ WalkStep
  BY <1>7, WalkWait
<1> QED
  BY <1>1, <1>2, <1>3, <1>4, <1>5, <1>6, <1>7 DEF Next

-----------------------------------------------------------------------------
(* Answers.                                                                *)

LEMMA DataStep ==
    ASSUME IInv, Next
    PROVE  DataInv'
<1> USE ThreadsApart DEF IInv, reqVars, eventVars, walkVars, threadVars, Goto
<1>1. CASE osif_request_manager_init \/ osif_request_manager_deinit
  BY <1>1 DEF osif_request_manager_init, osif_request_manager_deinit, DataInv,
     Answered, Sound, Marked
<1>2. ASSUME NEW t \in Requester, osif_request_alloc(t)
      PROVE  DataInv'
  <2>1. PICK c \in Cell \ live :
          /\ requests' = requests \cup {c}
          /\ cookie' = [cookie EXCEPT ![c] = next_cookie]
          /\ data' = [data EXCEPT ![c] = 0]
          /\ Blank(c)
          /\ at' = [at EXCEPT ![t] = c]
    BY <1>2 DEF osif_request_alloc
  <2>2. /\ count'[c] = 0
        /\ \A d \in Cell \ {c} :
             /\ count'[d] = count[d] /\ force_set'[d] = force_set[d]
             /\ data'[d] = data[d] /\ cookie'[d] = cookie[d]
    BY <2>1 DEF Blank, TypeOK
  <2>3. /\ pc'[t] = "allocated"
        /\ \A u \in Thread \ {t} :
             pc'[u] = pc[u] /\ at'[u] = at[u] /\ mine'[u] = mine[u]
    BY <1>2, <2>1 DEF osif_request_alloc, TypeOK
  <2>4. c \notin requests /\ requests \subseteq Cell
    BY <2>1 DEF RefInv, TypeOK
  <2>5. Answered'
    BY <2>1, <2>2, <2>4 DEF DataInv, Answered
  <2>6. Sound'
    BY <2>2, <2>3, <2>4 DEF DataInv, Sound, RefInv, Linked, Holding
  <2>7. Marked'
    <3>1. pc[Recovery] \in {"set", "complete"} => at[Recovery] \in requests
      BY DEF WaitInv, Walked, Slept, Asleep, Holding, RefInv, Linked
    <3> QED
      BY <2>2, <2>3, <2>4, <3>1 DEF DataInv, Marked
  <2> QED
    BY <2>5, <2>6, <2>7 DEF DataInv
<1>3. ASSUME NEW t \in Requester, RequesterStep(t)
      PROVE  DataInv'
  <2>1. CASE Send(t) \/ Wait(t) \/ TimesOut(t) \/ Leave(t) \/ Read(t)
    BY <2>1 DEF Send, Wait, TimesOut, Leave, Read, TypeOK, DataInv, Answered,
       Sound, Marked
  <2>2. CASE Woken(t)
    <3>1. at[t] \in Cell /\ at[t] \in requests /\ cookie[at[t]] = mine[t]
      BY <2>2, HeldIsCounted DEF Woken, Holding, RefInv, Linked
    <3>2. /\ count[at[t]] > 0 /\ count'[at[t]] = count[at[t]] - 1
          /\ \A c \in Cell \ {at[t]} : count'[c] = count[c]
      BY <2>2, <3>1 DEF Woken, TypeOK
    <3>3. /\ pc'[t] = "woken" /\ \A u \in Thread \ {t} : pc'[u] = pc[u]
          /\ UNCHANGED <<requests, cookie, data, force_set, at, mine>>
      BY <2>2 DEF Woken, TypeOK
    <3>4. Answered'
      BY <3>2, <3>3 DEF DataInv, Answered, TypeOK
    <3>5. Sound' /\ Marked'
      BY <3>1, <3>2, <3>3 DEF DataInv, Answered, Sound, Marked
    <3> QED
      BY <3>4, <3>5 DEF DataInv
  <2>3. CASE Judge(t)
    BY <2>3 DEF Judge, Verdict, TypeOK, DataInv, Answered, Sound, Marked
  <2> QED
    BY <1>3, <2>1, <2>2, <2>3 DEF RequesterStep
<1>4. ASSUME NEW t \in Client, PutStep(t)
      PROVE  DataInv'
  <2>1. CASE osif_request_put(t)
    <3>1. /\ requests' \subseteq requests /\ UNCHANGED <<cookie, data, count, force_set>>
          /\ pc'[t] \in {"destroy", "idle"}
          /\ \A u \in Thread \ {t} :
               pc'[u] = pc[u] /\ at'[u] = at[u] /\ mine'[u] = mine[u]
      BY <2>1 DEF osif_request_put, Return, TypeOK
    <3> QED
      BY <3>1 DEF DataInv, Answered, Sound, Marked
  <2>2. CASE osif_request_destroy(t)
    <3>1. /\ pc'[t] = "idle" /\ UNCHANGED <<requests, cookie, data>>
          /\ \A u \in Thread \ {t} :
               pc'[u] = pc[u] /\ at'[u] = at[u] /\ mine'[u] = mine[u]
      BY <2>2 DEF osif_request_destroy, Return, TypeOK
    <3>2. at[t] \in Cell /\ at[t] \notin requests
      BY <2>2 DEF osif_request_destroy, RefInv, Freeing, TypeOK
    <3>3. \A c \in Cell \ {at[t]} : count'[c] = count[c] /\ force_set'[c] = force_set[c]
      BY <2>2 DEF osif_request_destroy, Blank, TypeOK
    <3>4. Answered'
      BY <3>1, <3>2, <3>3 DEF DataInv, Answered, TypeOK
    <3>5. Sound'
      BY <3>1, <3>2, <3>3 DEF DataInv, Sound, RefInv, Linked, Holding, TypeOK
    <3>6. pc[Recovery] \in {"set", "complete"} => at[Recovery] \in requests
      BY DEF WaitInv, Walked, Slept, Asleep, Holding, RefInv, Linked
    <3>7. Marked'
      BY <3>1, <3>2, <3>3, <3>6 DEF DataInv, Marked, TypeOK
    <3> QED
      BY <3>4, <3>5, <3>7 DEF DataInv
  <2> QED
    BY <1>4, <2>1, <2>2 DEF PutStep
<1>5. ASSUME NEW t \in Callback, Answer(t)
      PROVE  DataInv'
  BY <1>5 DEF Answer, TypeOK, DataInv, Answered, Sound, Marked
<1>6. ASSUME NEW t \in Callback, CallbackStep(t)
      PROVE  DataInv'
  <2>1. CASE osif_request_get(t)
    <3>1. /\ UNCHANGED <<requests, cookie, data, count, force_set>>
          /\ pc'[t] \in {"fill", "idle"}
          /\ \A u \in Thread \ {t} :
               pc'[u] = pc[u] /\ at'[u] = at[u] /\ mine'[u] = mine[u]
      BY <2>1 DEF osif_request_get, Return, TypeOK
    <3> QED
      BY <3>1 DEF DataInv, Answered, Sound, Marked
  <2>2. CASE Fill(t)
    <3>1. at[t] \in Cell /\ at[t] \in requests /\ cookie[at[t]] = mine[t]
      BY <2>2, HeldIsCounted DEF Fill, Holding, RefInv, Linked
    <3>2. /\ data'[at[t]] = mine[t] /\ \A c \in Cell \ {at[t]} : data'[c] = data[c]
          /\ UNCHANGED <<requests, cookie, count, force_set, at, mine>>
          /\ pc'[t] = "set" /\ \A u \in Thread \ {t} : pc'[u] = pc[u]
      BY <2>2, <3>1 DEF Fill, TypeOK
    <3>3. Answered'
      BY <3>1, <3>2 DEF DataInv, Answered, TypeOK
    <3>4. Sound'
      BY <3>1, <3>2 DEF DataInv, Sound, RefInv, Linked, Holding, TypeOK
    <3>5. Marked'
      BY <3>2 DEF DataInv, Marked
    <3> QED
      BY <3>3, <3>4, <3>5 DEF DataInv
  <2>3. CASE SetDone(t)
    BY <2>3 DEF SetDone, TypeOK, DataInv, Answered, Sound, Marked
  <2>4. CASE Complete(t)
    <3>1. at[t] \in requests /\ cookie[at[t]] = mine[t] /\ data[at[t]] = mine[t]
      BY <2>4 DEF Complete, Holding, RefInv, Linked, DataInv, Sound
    <3>2. /\ \A c \in Cell \ {at[t]} : count'[c] = count[c]
          /\ UNCHANGED <<requests, cookie, data, force_set, at, mine>>
          /\ pc'[t] = "put" /\ \A u \in Thread \ {t} : pc'[u] = pc[u]
      BY <2>4 DEF Complete, After, TypeOK
    <3> QED
      BY <3>1, <3>2 DEF DataInv, Answered, Sound, Marked, TypeOK
  <2> QED
    BY <1>6, <2>1, <2>2, <2>3, <2>4 DEF CallbackStep
<1>7. CASE WalkBegin \/ WalkStep
  <2>1. CASE WalkBegin \/ WalkTest \/ WalkEnd
    BY <2>1 DEF WalkBegin, WalkTest, WalkEnd, Return, WaitInv, Walked, TypeOK,
       DataInv, Answered, Sound, Marked
  <2>2. CASE WalkForce
    <3>1. at[Recovery] \in Cell
      BY <2>2 DEF WalkForce, WaitInv, Walked, TypeOK
    <3>2. /\ force_set'[at[Recovery]]
          /\ \A c \in Cell : force_set[c] => force_set'[c]
          /\ UNCHANGED <<requests, cookie, data, count, at, mine>>
          /\ \A u \in Client : pc'[u] = pc[u]
      BY <2>2, <3>1 DEF WalkForce, TypeOK
    <3>3. Answered' /\ Marked'
      BY <3>2 DEF DataInv, Answered, Marked, TypeOK
    <3>4. \A u \in Client : pc[u] = "woken" => at[u] \in Cell
      BY DEF Holding, RefInv, Linked, TypeOK
    <3>5. Sound'
      BY <3>2, <3>4 DEF DataInv, Sound
    <3> QED
      BY <3>3, <3>5 DEF DataInv
  <2>3. CASE SetDone(Recovery)
    BY <2>3 DEF SetDone, TypeOK, DataInv, Answered, Sound, Marked
  <2>4. CASE Complete(Recovery)
    <3>1. force_set[at[Recovery]]
      BY <2>4 DEF Complete, DataInv, Marked
    <3>2. /\ \A c \in Cell \ {at[Recovery]} : count'[c] = count[c]
          /\ UNCHANGED <<requests, cookie, data, force_set, at, mine>>
          /\ \A u \in Client : pc'[u] = pc[u]
          /\ pc'[Recovery] = "walk"
      BY <2>4 DEF Complete, After, TypeOK
    <3> QED
      BY <3>1, <3>2 DEF DataInv, Answered, Sound, Marked, TypeOK
  <2> QED
    BY <1>7, <2>1, <2>2, <2>3, <2>4 DEF WalkStep
<1> QED
  BY <1>1, <1>2, <1>3, <1>4, <1>5, <1>6, <1>7 DEF Next

-----------------------------------------------------------------------------
(* The theorems.                                                           *)

LEMMA InitIInv == Init => IInv
<1> SUFFICES ASSUME Init PROVE IInv
  OBVIOUS
<1>1. TypeOK
  <2>1. 0 \in 0..MaxCookie /\ 1 \in 1..(MaxCookie + 1)
    BY RequestAssumption
  <2>2. ThreadsTyped
    BY <2>1 DEF Init, ThreadsTyped
  <2> QED
    BY <2>1, <2>2 DEF Init, TypeOK, ThreadsTyped
<1>2. RefInv
  BY DEF Init, RefInv, Linked, Counted, Freeing, FreedOnce, Thread, Holding
<1>3. WaitInv
  BY ThreadsApart DEF Init, WaitInv, Slept, Walked
<1>4. DataInv
  BY ThreadsApart DEF Init, DataInv, Answered, Sound, Marked
<1> QED
  BY <1>1, <1>2, <1>3, <1>4 DEF IInv

LEMMA StutterIInv == IInv /\ UNCHANGED vars => IInv'
BY DEF IInv, TypeOK, RefInv, Linked, Counted, Freeing, FreedOnce, Holders, WaitInv,
   Slept, Walked, DataInv, Answered, Sound, Marked, vars, reqVars, eventVars,
   walkVars, threadVars

\* The inductive invariant: who holds a request, who sleeps on its event and
\* what its data is, in every reachable state.
THEOREM Invariance == Spec => []IInv
<1>1. IInv /\ [Next]_vars => IInv'
  BY TypeStep, RefStep, WaitStep, DataStep, StutterIInv DEF IInv
<1> QED
  BY <1>1, InitIInv, PTL DEF Spec

\* The variables keep their types; the reference counts, in particular, never
\* go below zero (osif_request_put).
THEOREM TypeCorrect == Spec => []TypeOK
BY Invariance, PTL DEF IInv

\* No thread uses a request after it was freed, nor one that its memory now
\* holds instead, and firmware down forces no freed event.
THEOREM NoUseAfterFree == Spec => []NoDangling
<1>1. IInv => NoDangling
  BY ThreadsApart DEF IInv, RefInv, Linked, Freeing, WaitInv, Slept, Walked, Asleep,
     Holding, NoDangling
<1> QED
  BY <1>1, Invariance, PTL

\* A requester told of success has the answer to its own request, not a late
\* one's and not blank data behind a forced completion.
THEOREM OwnAnswer == Spec => []AnswerIsMine
<1>1. IInv => AnswerIsMine
  BY ThreadsApart DEF IInv, DataInv, Sound, AnswerIsMine
<1> QED
  BY <1>1, Invariance, PTL

=============================================================================
