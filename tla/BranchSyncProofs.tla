-------------------------- MODULE BranchSyncProofs --------------------------
(***************************************************************************)
(* What the promise of BranchSync is worth to a client that knows nothing  *)
(* else: owners exclude each other, and who has made sure stays sure.      *)
(***************************************************************************)
EXTENDS BranchSync, TLAPS

\* The step that is none.
LEMMA Stutter ==
    ASSUME TypeOK, OwnersApart, SureAlone, UNCHANGED vars
    PROVE  (TypeOK /\ OwnersApart /\ SureAlone)'
BY DEF TypeOK, OwnersApart, SureAlone, Owning, vars

\* One thread that asks, starts, works or gives up.
LEMMA OneMoves ==
    ASSUME Branches, TypeOK, OwnersApart, SureAlone, NEW t \in Thread,
           \/ \E n \in Node : Ask(t, n) \/ Own(t, n) \/ Work(t, n)
           \/ GiveUp(t)
    PROVE  (TypeOK /\ OwnersApart /\ SureAlone)'
<1>1. PICK m \in Modes, n \in Node \cup {None} :
        /\ Move(t, m, n) /\ m # "sure" /\ (m # "out" => n \in Node)
        /\ m \in {"owns", "works"} => Free(n, {})
  BY DEF Ask, Own, Work, GiveUp, Modes
<1>2. TypeOK'
  BY <1>1 DEF TypeOK, Move
<1>3. OwnersApart'
  <2> SUFFICES ASSUME NEW u \in Thread, NEW w \in Thread, u # w,
                      Owning(u)', Owning(w)'
               PROVE  on'[w] \notin Branch[on'[u]]
    BY DEF OwnersApart
  <2>1. CASE u # t /\ w # t
    BY <1>1, <2>1 DEF TypeOK, Move, Owning, OwnersApart
  <2>2. ASSUME NEW k \in Thread, k # t, Owning(k)', Owning(t)'
        PROVE  /\ on'[t] = n /\ n \in Node /\ on'[k] \in Node
               /\ on'[k] \notin Branch[n]
    BY <1>1, <2>2 DEF TypeOK, Move, Owning, Free
  <2> QED BY <2>1, <2>2 DEF Branches
<1>4. SureAlone'
  <2> SUFFICES ASSUME NEW u \in Thread, NEW w \in Thread,
                      mode'[u] = "sure", mode'[w] = "works"
               PROVE  on'[w] \notin Scope[on'[u]]
    BY DEF SureAlone
  <2>1. u # t /\ mode[u] = "sure" /\ on'[u] = on[u] /\ on[u] \in Node
    BY <1>1 DEF TypeOK, Move
  <2>2. CASE w # t
    BY <1>1, <2>1, <2>2 DEF TypeOK, Move, SureAlone
  <2>3. CASE w = t
    <3>1. on'[w] = n /\ n \in Node /\ on[u] \notin Branch[n]
      BY <1>1, <2>1, <2>3 DEF TypeOK, Move, Free, Owning
    <3> QED BY <2>1, <3>1 DEF Branches
  <2> QED BY <2>2, <2>3
<1> QED BY <1>2, <1>3, <1>4

\* An owner that makes sure, in a scope where nobody works.
LEMMA SureMoves ==
    ASSUME TypeOK, OwnersApart, SureAlone, NEW t \in Thread, MakeSure(t)
    PROVE  (TypeOK /\ OwnersApart /\ SureAlone)'
<1>1. /\ mode' = [mode EXCEPT ![t] = "sure"] /\ on' = on /\ mode[t] = "owns"
      /\ \A u \in Thread : mode[u] = "works" => on[u] \notin Scope[on[t]]
  BY DEF MakeSure, Move, TypeOK
<1>2. TypeOK'
  BY <1>1 DEF TypeOK, Modes
<1>3. OwnersApart'
  BY <1>1 DEF TypeOK, OwnersApart, Owning
<1>4. SureAlone'
  BY <1>1 DEF TypeOK, SureAlone
<1> QED BY <1>2, <1>3, <1>4

\* A release, with those it hands nodes over to.
LEMMA ReleaseMoves ==
    ASSUME Branches, TypeOK, OwnersApart, SureAlone, NEW t \in Thread,
           NEW G \in SUBSET Thread, Release(t, G)
    PROVE  (TypeOK /\ OwnersApart /\ SureAlone)'
<1>1. /\ \A u \in G : /\ mode[u] = "asks" /\ on[u] \in Node /\ u # t
                       /\ \A w \in Thread \ {t} :
                             Owning(w) => on[w] \notin Branch[on[u]]
      /\ \A u, w \in G : u # w => on[w] \notin Branch[on[u]]
  BY DEF Release, Free, Owning, TypeOK
<1>2. /\ \A u \in Thread : mode'[u] = IF u = t THEN "out"
                                       ELSE IF u \in G THEN "owns" ELSE mode[u]
      /\ on' = [on EXCEPT ![t] = None]
  BY DEF Release
<1>3. TypeOK'
  BY <1>2 DEF TypeOK, Release, Modes
<1>4. OwnersApart'
  <2> SUFFICES ASSUME NEW u \in Thread, NEW w \in Thread, u # w,
                      Owning(u)', Owning(w)'
               PROVE  on'[w] \notin Branch[on'[u]]
    BY DEF OwnersApart
  <2>1. /\ u # t /\ w # t /\ on'[u] = on[u] /\ on'[w] = on[w]
        /\ u \notin G => Owning(u)
        /\ w \notin G => Owning(w)
    BY <1>2 DEF TypeOK, Owning
  <2>2. on[u] \in Node /\ on[w] \in Node
    BY <1>1, <2>1 DEF TypeOK, Owning
  <2>3. CASE u \in G
    BY <1>1, <2>1, <2>2, <2>3
  <2>4. CASE u \notin G /\ w \in G
    BY <1>1, <2>1, <2>2, <2>4 DEF Branches
  <2>5. CASE u \notin G /\ w \notin G
    BY <2>1, <2>5 DEF OwnersApart
  <2> QED BY <2>3, <2>4, <2>5
<1>5. SureAlone'
  BY <1>2 DEF TypeOK, SureAlone
<1> QED BY <1>3, <1>4, <1>5

\* Whatever keeps the promise excludes owners along a branch, and lets nobody
\* work where an owner has made sure, for as long as it owns: for any nodes and
\* threads, whatever "branch" and "scope" mean, if they fit together.
THEOREM PromiseIsEnough == Branches /\ Spec => []OwnersApart /\ []SureAlone
<1> DEFINE J == TypeOK /\ OwnersApart /\ SureAlone
<1>1. Init => J
  BY DEF Init, TypeOK, OwnersApart, SureAlone, Owning, Modes
<1>2. Branches /\ J /\ [Next]_vars => J'
  BY Stutter, OneMoves, SureMoves, ReleaseMoves DEF Next
<1>3. Branches => Branches'
  OBVIOUS
<1>4. J => OwnersApart /\ SureAlone
  OBVIOUS
<1> HIDE DEF J
<1> QED BY <1>1, <1>2, <1>3, <1>4, PTL DEF Spec
=============================================================================
