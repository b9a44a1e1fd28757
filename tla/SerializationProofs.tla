------------------------- MODULE SerializationProofs -------------------------
(***************************************************************************)
(* Proofs about Serialization, for any sets of vdevs, commands, cells and  *)
(* threads, any number of blocking commands, and any bounds: cells are     *)
(* accounted for, vdevs have one active command, a cell stays put while    *)
(* its callback runs, and active commands are watched by a timer.          *)
(***************************************************************************)
EXTENDS Serialization, SequenceTheorems, FiniteSetTheorems,
        WellFoundedInduction, TLAPS

-----------------------------------------------------------------------------
(* Sequences.                                                              *)

LEMMA LastOfAppend ==
    ASSUME NEW S, NEW s \in Seq(S), NEW x \in S
    PROVE  Last(Append(s, x)) = x
BY AppendProperties, LenProperties DEF Last

\* Taking one element out of a sequence without repetitions.
LEMMA RemovedAt ==
    ASSUME NEW S, NEW s \in Seq(S), IsInjective(s), NEW i \in 1..Len(s)
    PROVE  /\ RemoveAt(s, i) \in Seq(S)
           /\ IsInjective(RemoveAt(s, i))
           /\ ToSet(RemoveAt(s, i)) = ToSet(s) \ {s[i]}
<1> DEFINE a == SubSeq(s, 1, i - 1)
           b == SubSeq(s, i + 1, Len(s))
           r == RemoveAt(s, i)
<1>1. Len(s) \in Nat /\ DOMAIN s = 1..Len(s) /\ \A j \in 1..Len(s) : s[j] \in S
  BY LenProperties, ElementOfSeq
<1>2. /\ a \in Seq(S) /\ Len(a) = i - 1
      /\ \A j \in 1..(i - 1) : a[j] = s[j]
  <2>1. \A j \in 1..(i - 1) : s[j] \in S
    BY <1>1
  <2>2. /\ a \in Seq(S)
        /\ Len(a) = IF 1 <= i - 1 THEN i - 1 - 1 + 1 ELSE 0
        /\ \A j \in 1..(i - 1 - 1 + 1) : a[j] = s[1 + j - 1]
    BY <1>1, <2>1, SubSeqProperties
  <2> QED
    BY <1>1, <2>2
<1>3. /\ b \in Seq(S) /\ Len(b) = Len(s) - i
      /\ \A j \in 1..(Len(s) - i) : b[j] = s[i + j]
  <2> DEFINE m == i + 1
             n == Len(s)
  <2>1. m \in Int /\ n \in Int /\ i \in Int
    BY <1>1
  <2>2. \A j \in m..n : s[j] \in S
    BY <1>1
  <2>3. /\ b \in Seq(S)
        /\ Len(b) = IF m <= n THEN n - m + 1 ELSE 0
        /\ \A j \in 1..(n - m + 1) : b[j] = s[m + j - 1]
    <3> HIDE DEF m, n
    <3> QED
      BY <2>1, <2>2, SubSeqProperties DEF m, n
  <2>4. n - m + 1 = n - i /\ (m <= n \/ n - i = 0)
    <3>1. i \in Nat /\ i <= n /\ n \in Nat
      BY <1>1
    <3> HIDE DEF n
    <3> QED
      BY <3>1
  <2>5. ASSUME NEW j \in 1..(n - i)
        PROVE  b[j] = s[i + j]
    <3>1. m + j - 1 = i + j
      BY <2>1
    <3> QED
      BY <2>3, <2>4, <3>1
  <2> QED
    BY <1>1, <2>1, <2>3, <2>4, <2>5
<1>4. /\ r \in Seq(S) /\ Len(r) = Len(a) + Len(b)
      /\ \A j \in 1..(Len(a) + Len(b)) :
            r[j] = IF j <= Len(a) THEN a[j] ELSE b[j - Len(a)]
  <2>1. r = a \o b
    BY DEF RemoveAt
  <2> HIDE DEF a, b, r
  <2> QED
    BY <1>2, <1>3, <2>1, ConcatProperties
<1>5. /\ DOMAIN r = 1..(Len(s) - 1)
      /\ \A j \in 1..(Len(s) - 1) : r[j] = IF j < i THEN s[j] ELSE s[j + 1]
  <2> HIDE DEF a, b, r
  <2>1. Len(a) + Len(b) = Len(s) - 1
    BY <1>1, <1>2, <1>3
  <2>2. DOMAIN r = 1..(Len(s) - 1)
    BY <1>4, <2>1, LenProperties
  <2>3. ASSUME NEW j \in 1..(Len(s) - 1)
        PROVE  r[j] = IF j < i THEN s[j] ELSE s[j + 1]
    <3>1. CASE j < i
      BY <1>1, <1>2, <1>4, <2>1, <3>1
    <3>2. CASE j >= i
      <4> DEFINE k == j - Len(a)
      <4>1. k \in 1..(Len(s) - i) /\ i + k = j + 1
        BY <1>1, <1>2, <3>2
      <4>2. r[j] = b[k]
        BY <1>1, <1>2, <1>4, <2>1, <3>2
      <4> HIDE DEF k
      <4>3. b[k] = s[j + 1]
        BY <1>3, <4>1
      <4> QED
        BY <1>1, <3>2, <4>2, <4>3
    <3> QED
      BY <1>1, <3>1, <3>2
  <2> QED
    BY <2>2, <2>3
<1>6. \A j, k \in 1..Len(s) : s[j] = s[k] => j = k
  BY <1>1 DEF IsInjective
<1>7. IsInjective(r)
  <2> SUFFICES ASSUME NEW j \in 1..(Len(s) - 1), NEW k \in 1..(Len(s) - 1), r[j] = r[k]
               PROVE  j = k
    BY <1>5 DEF IsInjective
  <2> QED
    BY <1>1, <1>5, <1>6
<1>8. ToSet(r) \subseteq ToSet(s) \ {s[i]}
  <2> SUFFICES ASSUME NEW j \in 1..(Len(s) - 1)
               PROVE  r[j] \in ToSet(s) /\ r[j] # s[i]
    BY <1>5 DEF ToSet
  <2> QED
    BY <1>1, <1>5, <1>6 DEF ToSet
<1>9. ToSet(s) \ {s[i]} \subseteq ToSet(r)
  <2> SUFFICES ASSUME NEW j \in 1..Len(s), j # i
               PROVE  s[j] \in ToSet(r)
    BY <1>1 DEF ToSet
  <2>1. CASE j < i
    BY <1>1, <1>5, <2>1 DEF ToSet
  <2>2. CASE j > i
    <3>1. j - 1 \in 1..(Len(s) - 1) /\ r[j - 1] = s[j]
      BY <1>1, <1>5, <2>2
    <3> QED
      BY <1>5, <3>1 DEF ToSet
  <2> QED
    BY <1>1, <2>1, <2>2
<1> QED
  BY <1>4, <1>7, <1>8, <1>9

\* Putting a new element at either end of one.
LEMMA AddedAtEnd ==
    ASSUME NEW S, NEW s \in Seq(S), IsInjective(s), NEW x \in S, x \notin ToSet(s)
    PROVE  /\ Append(s, x) \in Seq(S) /\ IsInjective(Append(s, x))
           /\ ToSet(Append(s, x)) = ToSet(s) \cup {x}
<1> DEFINE r == Append(s, x)
<1>1. Len(s) \in Nat /\ DOMAIN s = 1..Len(s)
  BY LenProperties
<1>2. /\ r \in Seq(S) /\ DOMAIN r = 1..(Len(s) + 1)
      /\ \A j \in 1..Len(s) : r[j] = s[j]
      /\ r[Len(s) + 1] = x
  BY AppendProperties, LenProperties
<1>3. \A j \in 1..Len(s) : s[j] # x
  BY <1>1 DEF ToSet
<1>4. IsInjective(r)
  <2> SUFFICES ASSUME NEW j \in 1..(Len(s) + 1), NEW k \in 1..(Len(s) + 1), r[j] = r[k]
               PROVE  j = k
    BY <1>2 DEF IsInjective
  <2>1. \A m, n \in 1..Len(s) : s[m] = s[n] => m = n
    BY <1>1 DEF IsInjective
  <2> QED
    BY <1>1, <1>2, <1>3, <2>1
<1>5. ToSet(r) = ToSet(s) \cup {x}
  <2>1. ToSet(r) \subseteq ToSet(s) \cup {x}
    BY <1>1, <1>2 DEF ToSet
  <2>2. ToSet(s) \subseteq ToSet(r)
    BY <1>1, <1>2 DEF ToSet
  <2>3. x \in ToSet(r)
    BY <1>1, <1>2 DEF ToSet
  <2> QED
    BY <2>1, <2>2, <2>3
<1> QED
  BY <1>2, <1>4, <1>5

LEMMA AddedInFront ==
    ASSUME NEW S, NEW s \in Seq(S), IsInjective(s), NEW x \in S, x \notin ToSet(s)
    PROVE  /\ <<x>> \o s \in Seq(S) /\ IsInjective(<<x>> \o s)
           /\ ToSet(<<x>> \o s) = ToSet(s) \cup {x}
<1> DEFINE r == <<x>> \o s
<1>1. Len(s) \in Nat /\ DOMAIN s = 1..Len(s)
  BY LenProperties
<1>2. /\ r \in Seq(S) /\ DOMAIN r = 1..(Len(s) + 1)
      /\ \A j \in 1..Len(s) : r[j + 1] = s[j]
      /\ r[1] = x
  <2>1. <<x>> \in Seq(S) /\ Len(<<x>>) = 1 /\ <<x>>[1] = x
    OBVIOUS
  <2>2. /\ r \in Seq(S) /\ Len(r) = 1 + Len(s)
        /\ \A j \in 1..(1 + Len(s)) : r[j] = IF j <= 1 THEN <<x>>[j] ELSE s[j - 1]
    BY <2>1, ConcatProperties
  <2>3. DOMAIN r = 1..(Len(s) + 1)
    BY <1>1, <2>2, LenProperties
  <2>4. ASSUME NEW j \in 1..Len(s)
        PROVE  r[j + 1] = s[j]
    BY <1>1, <2>2
  <2>5. r[1] = x
    BY <1>1, <2>1, <2>2
  <2> QED
    BY <2>2, <2>3, <2>4, <2>5
<1>3. \A j \in 1..Len(s) : s[j] # x
  BY <1>1 DEF ToSet
<1>4. \A j \in 1..(Len(s) + 1) : j = 1 \/ \E m \in 1..Len(s) : j = m + 1 /\ r[j] = s[m]
  <2> SUFFICES ASSUME NEW j \in 1..(Len(s) + 1), j # 1
               PROVE  j - 1 \in 1..Len(s) /\ j = (j - 1) + 1 /\ r[j] = s[j - 1]
    OBVIOUS
  <2> QED
    BY <1>1, <1>2
<1>5. IsInjective(r)
  <2> SUFFICES ASSUME NEW j \in 1..(Len(s) + 1), NEW k \in 1..(Len(s) + 1), r[j] = r[k]
               PROVE  j = k
    BY <1>2 DEF IsInjective
  <2>1. \A m, n \in 1..Len(s) : s[m] = s[n] => m = n
    BY <1>1 DEF IsInjective
  <2> QED
    BY <1>2, <1>3, <1>4, <2>1
<1>6. ToSet(r) = ToSet(s) \cup {x}
  <2>1. ToSet(r) \subseteq ToSet(s) \cup {x}
    BY <1>1, <1>2, <1>4 DEF ToSet
  <2>2. ToSet(s) \subseteq ToSet(r)
    <3> SUFFICES ASSUME NEW m \in 1..Len(s) PROVE s[m] \in ToSet(r)
      BY <1>1 DEF ToSet
    <3>1. m + 1 \in 1..(Len(s) + 1) /\ r[m + 1] = s[m]
      BY <1>1, <1>2
    <3> QED
      BY <1>2, <3>1 DEF ToSet
  <2>3. x \in ToSet(r)
    BY <1>1, <1>2 DEF ToSet
  <2> QED
    BY <2>1, <2>2, <2>3
<1> QED
  BY <1>2, <1>5, <1>6

\* A set of numbers that is not empty has a least element.
LEMMA LeastOf ==
    ASSUME NEW T, T \subseteq Nat, T # {}
    PROVE  Min(T) \in T /\ \A j \in T : Min(T) <= j
<1> DEFINE R == StrictSubsetOrdering(Nat)
           U == {0..n : n \in T}
<1>1. IsWellFoundedOn(R, FiniteSubsetsOf(Nat))
  BY FS_StrictSubsetOrderingWellFounded
<1>2. U \subseteq FiniteSubsetsOf(Nat) /\ U # {}
  <2>1. ASSUME NEW n \in T
        PROVE  0..n \in SUBSET Nat /\ IsFiniteSet(0..n)
    BY FS_Interval
  <2> QED
    BY <2>1 DEF FiniteSubsetsOf
<1>3. PICK u \in U : \A w \in U : ~ (<<w, u>> \in R)
  <2> HIDE DEF R, U
  <2> QED
    BY <1>1, <1>2, WFMin
<1>4. PICK x \in T : u = 0..x
  OBVIOUS
<1>5. ASSUME NEW y \in T
      PROVE  x <= y
  <2> SUFFICES ASSUME y < x
               PROVE  FALSE
    OBVIOUS
  <2>1. 0..y \in SUBSET Nat /\ 0..x \in SUBSET Nat
    OBVIOUS
  <2>2. 0..y \subseteq 0..x
    OBVIOUS
  <2>3. x \in 0..x /\ x \notin 0..y
    OBVIOUS
  <2>4. <<0..y, 0..x>> \in R
    BY <2>1, <2>2, <2>3 DEF StrictSubsetOrdering
  <2> QED
    BY <1>3, <1>4, <2>4
<1>6. \E m \in T : \A y \in T : m <= y
  BY <1>5
<1> QED
  BY <1>6 DEF Min

-----------------------------------------------------------------------------
(* What a thread is at, when its stack grows and shrinks.                  *)

StackOK == stack \in [Thread -> Seq(Frames)] /\ StackShape

\* What lies below the top of a stack.
Resumes(s) == s \in Seq(Frames) /\ \A i \in 1..Len(s) : s[i].op = "resume"

Others(t) == \A u \in Thread \ {t} : Doing(u)' = Doing(u)

LEMMA FrameTypes ==
    /\ \A c \in Cell, f \in BOOLEAN :
          \A op \in {"activate", "callback", "test", "remove"} : Frame(op, c, f) \in Frames
    /\ \A k \in Cmd, f \in BOOLEAN :
          \A op \in {"timeout", "cancelled"} : Frame(op, k, f) \in Frames
    /\ \A v \in Vdev \cup {None}, f \in BOOLEAN :
          \A op \in {"move", "resume"} : Frame(op, v, f) \in Frames
BY DEF Frame, Frames

LEMMA EmptyResumes == Resumes(<< >>)
BY EmptySeq DEF Resumes

LEMMA DoingTop ==
    ASSUME StackOK, NEW t \in Thread, ~Idle(t)
    PROVE  /\ Doing(t) = Top(t) /\ Top(t) \in Frames /\ Resumes(Rest(t))
           /\ \A op : At(t, op) <=> Doing(t).op = op
<1>1. stack[t] \in Seq(Frames) /\ stack[t] # << >>
  BY DEF StackOK, Idle
<1>2. Len(stack[t]) \in Nat \ {0}
  BY <1>1, EmptySeq
<1>3. Top(t) \in Frames
  BY <1>1, <1>2, ElementOfSeq DEF Top, Last
<1>4. Resumes(Rest(t))
  <2> DEFINE s == stack[t]
  <2>1. \A i \in 1..(Len(s) - 1) : s[i] \in Frames /\ s[i].op = "resume"
    BY <1>1, <1>2, ElementOfSeq DEF StackOK, StackShape
  <2>2. Rest(t) = SubSeq(s, 1, Len(s) - 1)
    BY DEF Rest, Front
  <2> DEFINE n == Len(s) - 1
  <2>3. n \in Int
    BY <1>2
  <2>4. /\ Rest(t) \in Seq(Frames)
        /\ Len(Rest(t)) = IF 1 <= n THEN n - 1 + 1 ELSE 0
        /\ \A i \in 1..(n - 1 + 1) : Rest(t)[i] = s[1 + i - 1]
    <3> HIDE DEF n
    <3> QED
      BY <2>1, <2>2, <2>3, SubSeqProperties DEF n
  <2>5. Len(Rest(t)) = n
    BY <1>2, <2>4
  <2>6. ASSUME NEW i \in 1..n
        PROVE  Rest(t)[i].op = "resume"
    <3>1. i \in 1..(n - 1 + 1) /\ 1 + i - 1 = i
      BY <2>3
    <3> QED
      BY <2>1, <2>4, <3>1
  <2> QED
    BY <2>4, <2>5, <2>6 DEF Resumes
<1> QED
  BY <1>3, <1>4 DEF Doing, At

LEMMA DoingIdle ==
    ASSUME NEW t, Idle(t)
    PROVE  Doing(t).op = "nothing" /\ \A op : ~At(t, op)
BY DEF Doing, At, Frame

\* A thread has done the top of its stack and goes back to what is below.
LEMMA Returns ==
    ASSUME StackOK, NEW t \in Thread, NEW s, Resumes(s), Set(t, s)
    PROVE  /\ StackOK' /\ Others(t)
           /\ Doing(t)'.op \in {"nothing", "resume"}
<1>1. stack' \in [Thread -> Seq(Frames)] /\ stack'[t] = s
  BY DEF StackOK, Resumes, Set
<1>2. \A u \in Thread \ {t} : stack'[u] = stack[u]
  BY DEF StackOK, Set
<1>3. Len(s) \in Nat
  BY LenProperties DEF Resumes
<1>4. StackShape'
  <2> SUFFICES ASSUME NEW u \in Thread, NEW i \in 1..(Len(stack'[u]) - 1)
               PROVE  stack'[u][i].op = "resume"
    BY DEF StackShape
  <2>1. CASE u = t
    BY <1>1, <1>3, <2>1 DEF Resumes
  <2>2. CASE u # t
    BY <1>2, <2>2 DEF StackOK, StackShape
  <2> QED
    BY <2>1, <2>2
<1>5. Others(t)
  BY <1>2 DEF Others, Doing, Idle, Top
<1>6. Doing(t)'.op \in {"nothing", "resume"}
  <2>1. CASE s = << >>
    BY <1>1, <2>1 DEF Doing, Idle, Frame
  <2>2. CASE s # << >>
    <3>1. Len(s) \in 1..Len(s)
      BY <2>2, EmptySeq DEF Resumes
    <3> QED
      BY <1>1, <2>2, <3>1 DEF Resumes, Doing, Idle, Top, Last
  <2> QED
    BY <2>1, <2>2
<1> QED
  BY <1>1, <1>4, <1>5, <1>6 DEF StackOK

\* It goes on with f.
LEMMA GoesOn ==
    ASSUME StackOK, NEW t \in Thread, NEW s, Resumes(s), NEW f \in Frames,
           Set(t, Append(s, f))
    PROVE  StackOK' /\ Others(t) /\ Doing(t)' = f
<1> DEFINE r == Append(s, f)
<1>1. s \in Seq(Frames) /\ Len(s) \in Nat
  BY LenProperties DEF Resumes
<1>2. /\ r \in Seq(Frames) /\ r # << >> /\ Len(r) = Len(s) + 1
      /\ \A i \in 1..Len(s) : r[i] = s[i]
      /\ r[Len(s) + 1] = f
  BY <1>1, AppendProperties
<1> HIDE DEF r
<1>3. stack' \in [Thread -> Seq(Frames)] /\ stack'[t] = r
  BY <1>2 DEF StackOK, Set, r
<1>4. \A u \in Thread \ {t} : stack'[u] = stack[u]
  BY DEF StackOK, Set
<1>5. StackShape'
  <2> SUFFICES ASSUME NEW u \in Thread, NEW i \in 1..(Len(stack'[u]) - 1)
               PROVE  stack'[u][i].op = "resume"
    BY DEF StackShape
  <2>1. CASE u = t
    BY <1>1, <1>2, <1>3, <2>1 DEF Resumes
  <2>2. CASE u # t
    BY <1>4, <2>2 DEF StackOK, StackShape
  <2> QED
    BY <2>1, <2>2
<1>6. Others(t)
  BY <1>4 DEF Others, Doing, Idle, Top
<1>7. Doing(t)' = f
  BY <1>2, <1>3 DEF Doing, Idle, Top, Last
<1> QED
  BY <1>3, <1>5, <1>6, <1>7 DEF StackOK

\* The same, with the stack written as a concatenation.
LEMMA AppendsOne ==
    ASSUME NEW s, Resumes(s), NEW f \in Frames
    PROVE  s \o <<f>> = Append(s, f)
BY AppendIsConcat DEF Resumes

LEMMA AppendsTwo ==
    ASSUME NEW s, Resumes(s), NEW e \in Frames, NEW f \in Frames, e.op = "resume"
    PROVE  /\ Resumes(Append(s, e))
           /\ s \o <<e, f>> = Append(Append(s, e), f)
<1>1. s \in Seq(Frames) /\ Len(s) \in Nat
  BY LenProperties DEF Resumes
<1>2. /\ Append(s, e) \in Seq(Frames) /\ Len(Append(s, e)) = Len(s) + 1
      /\ \A i \in 1..Len(s) : Append(s, e)[i] = s[i]
      /\ Append(s, e)[Len(s) + 1] = e
  BY <1>1, AppendProperties
<1>3. <<e, f>> = <<e>> \o <<f>> /\ <<e>> \in Seq(Frames) /\ <<f>> \in Seq(Frames)
  <2>1. <<e>> \in Seq(Frames) /\ Len(<<e>>) = 1 /\ <<e>>[1] = e
    OBVIOUS
  <2>2. <<f>> \in Seq(Frames) /\ Len(<<f>>) = 1 /\ <<f>>[1] = f
    OBVIOUS
  <2>3. /\ <<e, f>> \in Seq(Frames) /\ Len(<<e, f>>) = 2
        /\ <<e, f>>[1] = e /\ <<e, f>>[2] = f
    OBVIOUS
  <2>4. /\ <<e>> \o <<f>> \in Seq(Frames) /\ Len(<<e>> \o <<f>>) = 2
        /\ (<<e>> \o <<f>>)[1] = e /\ (<<e>> \o <<f>>)[2] = f
    BY <2>1, <2>2, ConcatProperties
  <2>5. \A i \in 1..2 : <<e, f>>[i] = (<<e>> \o <<f>>)[i]
    BY <2>3, <2>4
  <2> QED
    BY <2>1, <2>2, <2>3, <2>4, <2>5, SeqEqual
<1>4. s \o <<e, f>> = (s \o <<e>>) \o <<f>>
  BY <1>1, <1>3, ConcatAssociative
<1>5. s \o <<e, f>> = Append(Append(s, e), f)
  BY <1>1, <1>2, <1>4, AppendIsConcat
<1>6. \A i \in 1..(Len(s) + 1) : Append(s, e)[i].op = "resume"
  BY <1>1, <1>2 DEF Resumes
<1> QED
  BY <1>2, <1>5, <1>6 DEF Resumes

\* Only the top of a stack can be a running activation or a cancellation.
LEMMA OnTopOnly ==
    ASSUME StackOK, NEW t \in Thread, NEW i \in 1..Len(stack[t]),
           stack[t][i].op # "resume"
    PROVE  stack[t][i] = Doing(t)
<1>1. stack[t] \in Seq(Frames) /\ Len(stack[t]) \in Nat
  BY LenProperties DEF StackOK
<1>2. i = Len(stack[t]) /\ stack[t] # << >>
  BY <1>1 DEF StackOK, StackShape
<1> QED
  BY <1>2 DEF Doing, Idle, Top, Last

-----------------------------------------------------------------------------
(* How a step disturbs what threads, vdevs and timers agree on.            *)

Agreements == RunsAgree /\ VdevsAgree /\ BlockingAgrees /\ TimersAgree

\* What a thread is at binds no cell, vdev or timer.
Plain(t) ==
    /\ \A c \in Cell : ~Runs(t, c) /\ ~Timed(t, c) /\ ~Owes(t, c)
    /\ \A k \in Cmd : ~Cancels(t, k)

PlainOps == {"nothing", "resume", "move", "timeout"}

LEMMA PlainOp ==
    ASSUME NEW t, Doing(t).op \in PlainOps
    PROVE  Plain(t)
BY DEF Plain, PlainOps, Runs, Timed, Owes, Cancels

LEMMA PlainOpNext ==
    ASSUME NEW t, Doing(t)'.op \in PlainOps
    PROVE  Plain(t)'
BY DEF Plain, PlainOps, Runs, Timed, Owes, Cancels

LEMMA Subsets ==
    ASSUME TypeOK
    PROVE  active \subseteq Cell /\ Blocking \subseteq Cmd
<1>1. active \subseteq Cell
  BY DEF TypeOK
<1>2. Blocking \subseteq Cmd
  BY SerAssumption
<1> QED
  BY <1>1, <1>2

CellsTyped ==
    /\ cmd \in [Cell -> Cmd \cup {None}]
    /\ flags \in [Cell -> SUBSET Flags]
    /\ timer \in [Cell -> {"off", "running", "expired"}]
ListsTyped ==
    /\ active \subseteq Cell /\ pending \in Seq(Cell)
    /\ bitmap \subseteq Vdev /\ blockingActive \in BOOLEAN
    /\ waiting \in Uint16 /\ late \subseteq Cmd

LEMMA TypeParts ==
    ASSUME TypeOK
    PROVE  CellsTyped /\ ListsTyped
<1>1. CellsTyped
  BY DEF TypeOK, CellsTyped
<1>2. ListsTyped
  BY DEF TypeOK, ListsTyped
<1> QED
  BY <1>1, <1>2

LEMMA CellTypes ==
    ASSUME TypeOK
    PROVE  /\ timer \in [Cell -> {"off", "running", "expired"}]
           /\ flags \in [Cell -> SUBSET Flags]
           /\ cmd \in [Cell -> Cmd \cup {None}]
BY TypeParts DEF CellsTyped

SameMarks == \A c \in active : "activation" \in flags'[c] <=> "activation" \in flags[c]

\* Active cells and their commands, vdevs and timers stay as they are, and the
\* thread is bound to the same ones as before.
LEMMA Unbound ==
    ASSUME TypeOK, Agreements, NEW t \in Thread, Others(t),
           UNCHANGED <<active, bitmap, blockingActive, timer>>,
           \A c \in active : cmd'[c] = cmd[c],
           SameMarks,
           \A c \in Cell : Runs(t, c)' <=> Runs(t, c),
           \A k \in Cmd : Cancels(t, k)' <=> Cancels(t, k),
           \A c \in Cell : Timed(t, c)' => timer[c] # "off",
           \A c \in active : timer[c] = "off" => \E u \in Thread : Owes(u, c)'
    PROVE  Agreements'
<1>1. /\ \A u \in Thread, c \in Cell : Runs(u, c)' <=> Runs(u, c)
      /\ \A u \in Thread, k \in Cmd : Cancels(u, k)' <=> Cancels(u, k)
      /\ \A u \in Thread \ {t}, c \in Cell : Timed(u, c)' <=> Timed(u, c)
  BY DEF Others, Runs, Cancels, Timed
<1>2. active \subseteq Cell /\ Blocking \subseteq Cmd
  BY Subsets
<1>3. RunsAgree'
  BY <1>1, <1>2 DEF Agreements, RunsAgree, SameMarks
<1>4. VdevsAgree'
  BY <1>1 DEF Agreements, VdevsAgree
<1>5. BlockingAgrees'
  BY <1>1, <1>2 DEF Agreements, BlockingAgrees, Blocks
<1>6. TimersAgree'
  <2>1. \A c \in Cell : timer'[c] # "off" => c \in active'
    BY DEF Agreements, TimersAgree
  <2>2. \A u \in Thread, c \in Cell : Timed(u, c)' => timer'[c] # "off"
    BY <1>1 DEF Agreements, TimersAgree
  <2> QED
    BY <2>1, <2>2 DEF TimersAgree
<1> QED
  BY <1>3, <1>4, <1>5, <1>6 DEF Agreements

\* A thread that was and is bound to nothing.
LEMMA StaysPlain ==
    ASSUME TypeOK, Agreements, NEW t \in Thread, Others(t), Plain(t), Plain(t)',
           UNCHANGED <<active, bitmap, blockingActive, timer>>,
           \A c \in active : cmd'[c] = cmd[c], SameMarks
    PROVE  Agreements'
<1>1. \A c \in Cell : Runs(t, c)' <=> Runs(t, c)
  BY DEF Plain
<1>2. \A k \in Cmd : Cancels(t, k)' <=> Cancels(t, k)
  BY DEF Plain
<1>3. \A c \in Cell : ~Timed(t, c)'
  BY DEF Plain
<1>4. ASSUME NEW c \in active, timer[c] = "off"
      PROVE  \E u \in Thread : Owes(u, c)'
  <2>1. PICK u \in Thread : Owes(u, c)
    BY <1>4 DEF Agreements, TimersAgree
  <2>2. u # t
    BY <2>1, Subsets DEF Plain
  <2> QED
    BY <2>1, <2>2 DEF Others, Owes
<1> QED
  BY <1>1, <1>2, <1>3, <1>4, Unbound

\* Cell c becomes active for command k, whose vdev was idle.
LEMMA Activation ==
    ASSUME TypeOK, Agreements, NEW t \in Thread, Others(t), Plain(t),
           NEW c \in Cell, c \notin active, NEW k \in Cmd, VdevOf[k] \notin bitmap,
           cmd'[c] = k, \A e \in active : cmd'[e] = cmd[e],
           active' = active \cup {c},
           "activation" \in flags'[c],
           \A e \in Cell \ {c} : "activation" \in flags'[e] <=> "activation" \in flags[e],
           bitmap' = bitmap \cup {VdevOf[k]},
           blockingActive' = (blockingActive \/ k \in Blocking),
           timer' = timer,
           Doing(t)' = Frame("activate", c, FALSE)
    PROVE  Agreements'
<1>1. /\ \A u \in Thread \ {t}, e \in Cell : Runs(u, e)' <=> Runs(u, e)
      /\ \A u \in Thread \ {t}, l \in Cmd : Cancels(u, l)' <=> Cancels(u, l)
      /\ \A u \in Thread \ {t}, e \in Cell : Owes(u, e)' <=> Owes(u, e)
      /\ \A u \in Thread \ {t}, e \in Cell : Timed(u, e)' <=> Timed(u, e)
  BY DEF Others, Runs, Cancels, Owes, Timed
<1>2. /\ \A e \in Cell : Runs(t, e)' <=> e = c
      /\ \A l \in Cmd : ~Cancels(t, l)'
      /\ Owes(t, c)'
      /\ \A e \in Cell : ~Timed(t, e)'
  BY DEF Frame, Runs, Cancels, Owes, Timed
<1>3. active \subseteq Cell /\ Blocking \subseteq Cmd
  BY Subsets
<1>4. RunsAgree'
  <2>1. \A u \in Thread \ {t} : ~Runs(u, c)
    BY DEF Agreements, RunsAgree
  <2>2. ASSUME NEW u \in Thread, NEW e \in Cell, Runs(u, e)'
        PROVE  e \in active' /\ "activation" \in flags'[e]
    BY <1>1, <1>2, <2>2 DEF Agreements, RunsAgree
  <2>3. ASSUME NEW u \in Thread, NEW w \in Thread, NEW e \in Cell, Runs(u, e)', Runs(w, e)'
        PROVE  u = w
    BY <1>1, <1>2, <2>1, <2>3 DEF Agreements, RunsAgree
  <2>4. ASSUME NEW e \in active', "activation" \in flags'[e]
        PROVE  \E u \in Thread : Runs(u, e)'
    <3>1. CASE e = c
      BY <1>2, <3>1
    <3>2. CASE e # c
      <4>1. e \in active /\ "activation" \in flags[e]
        BY <1>3, <2>4, <3>2
      <4>2. PICK u \in Thread : Runs(u, e)
        BY <4>1 DEF Agreements, RunsAgree
      <4>3. u # t
        BY <1>3, <4>1, <4>2 DEF Plain
      <4> QED
        BY <1>1, <1>3, <4>1, <4>2, <4>3
    <3> QED
      BY <3>1, <3>2
  <2> QED
    BY <2>2, <2>3, <2>4 DEF RunsAgree
<1>5. VdevsAgree'
  <2>1. \A e \in active : VdevOf[cmd'[e]] \in bitmap /\ VdevOf[cmd'[e]] # VdevOf[k]
    BY DEF Agreements, VdevsAgree
  <2>2. \A u \in Thread, l \in Cmd :
           Cancels(u, l)' => u # t /\ Cancels(u, l) /\ VdevOf[l] \in bitmap
    BY <1>1, <1>2 DEF Agreements, VdevsAgree
  <2>3. \A e, f \in active' : VdevOf[cmd'[e]] = VdevOf[cmd'[f]] => e = f
    BY <2>1 DEF Agreements, VdevsAgree
  <2>4. \A u, w \in Thread, l, m \in Cmd :
           Cancels(u, l)' /\ Cancels(w, m)' /\ VdevOf[l] = VdevOf[m] => u = w
    BY <2>2 DEF Agreements, VdevsAgree
  <2>5. \A u \in Thread, l \in Cmd, e \in active' :
           Cancels(u, l)' => VdevOf[cmd'[e]] # VdevOf[l]
    BY <2>2 DEF Agreements, VdevsAgree
  <2>6. \A e \in active' : VdevOf[cmd'[e]] \in bitmap'
    BY <2>1
  <2>7. \A u \in Thread, l \in Cmd : Cancels(u, l)' => VdevOf[l] \in bitmap'
    BY <2>2
  <2>8. ASSUME NEW v \in bitmap'
        PROVE  \/ \E e \in active' : VdevOf[cmd'[e]] = v
               \/ \E u \in Thread, l \in Cmd : Cancels(u, l)' /\ VdevOf[l] = v
    <3>1. CASE v = VdevOf[k]
      BY <3>1
    <3>2. CASE v \in bitmap
      <4>1. CASE \E e \in active : VdevOf[cmd[e]] = v
        BY <4>1
      <4>2. CASE \E u \in Thread, l \in Cmd : Cancels(u, l) /\ VdevOf[l] = v
        <5>1. PICK u \in Thread, l \in Cmd : Cancels(u, l) /\ VdevOf[l] = v
          BY <4>2
        <5>2. u # t
          BY <5>1 DEF Plain
        <5> QED
          BY <1>1, <5>1, <5>2
      <4> QED
        BY <3>2, <4>1, <4>2 DEF Agreements, VdevsAgree
    <3> QED
      BY <3>1, <3>2
  <2> QED
    BY <2>3, <2>4, <2>5, <2>6, <2>7, <2>8 DEF VdevsAgree
<1>6. BlockingAgrees'
  <2> SUFFICES ASSUME blockingActive'
               PROVE  \/ \E e \in active' : cmd'[e] \in Blocking
                      \/ \E u \in Thread, l \in Blocking : Cancels(u, l)'
    BY DEF BlockingAgrees, Blocks
  <2>1. CASE k \in Blocking
    BY <2>1
  <2>2. CASE blockingActive /\ \E e \in active : Blocks(e)
    BY <2>2 DEF Blocks
  <2>3. CASE blockingActive /\ \E u \in Thread, l \in Blocking : Cancels(u, l)
    <3>1. PICK u \in Thread, l \in Blocking : Cancels(u, l)
      BY <2>3
    <3>2. u # t
      BY <1>3, <3>1 DEF Plain
    <3> QED
      BY <1>1, <1>3, <3>1, <3>2
  <2> QED
    BY <2>1, <2>2, <2>3 DEF Agreements, BlockingAgrees
<1>7. TimersAgree'
  <2>1. \A e \in Cell : timer'[e] # "off" => e \in active'
    BY DEF Agreements, TimersAgree
  <2>2. \A u \in Thread, e \in Cell : Timed(u, e)' => timer'[e] # "off"
    BY <1>1, <1>2 DEF Agreements, TimersAgree
  <2>3. ASSUME NEW e \in active', timer'[e] = "off"
        PROVE  \E u \in Thread : Owes(u, e)'
    <3>1. CASE e = c
      BY <1>2, <3>1
    <3>2. CASE e # c
      <4>1. PICK u \in Thread : Owes(u, e)
        BY <2>3, <3>2 DEF Agreements, TimersAgree
      <4>2. u # t /\ e \in Cell
        BY <1>3, <3>2, <4>1 DEF Plain
      <4> QED
        BY <1>1, <4>1, <4>2
    <3> QED
      BY <3>1, <3>2
  <2> QED
    BY <2>1, <2>2, <2>3 DEF TimersAgree
<1> QED
  BY <1>4, <1>5, <1>6, <1>7 DEF Agreements


\* The cell of command k, whose activation is over, goes back to the pool; the
\* thread was bound to nothing else.
Vacates(t, c) ==
    /\ Others(t)
    /\ \A e \in Cell : ~Runs(t, e) /\ (Owes(t, e) /\ e \in active => e = c)
    /\ \A l \in Cmd : ~Cancels(t, l)
    /\ c \in active /\ "activation" \notin flags[c]
    /\ active' = active \ {c}
    /\ timer'[c] = "off"
    /\ \A e \in Cell \ {c} :
          /\ cmd'[e] = cmd[e] /\ timer'[e] = timer[e]
          /\ "activation" \in flags'[e] <=> "activation" \in flags[e]

LEMMA VacatedRuns ==
    ASSUME TypeOK, Agreements, NEW t \in Thread, NEW c \in Cell, Vacates(t, c),
           \A e \in Cell : ~Runs(t, e)' /\ ~Timed(t, e)' /\ ~Owes(t, e)'
    PROVE  RunsAgree' /\ TimersAgree'
<1>1. /\ \A u \in Thread \ {t}, e \in Cell : Runs(u, e)' <=> Runs(u, e)
      /\ \A u \in Thread \ {t}, e \in Cell : Owes(u, e)' <=> Owes(u, e)
      /\ \A u \in Thread \ {t}, e \in Cell : Timed(u, e)' <=> Timed(u, e)
  BY DEF Vacates, Others, Runs, Owes, Timed
<1>2. \A u \in Thread : ~Runs(u, c)
  BY DEF Agreements, RunsAgree, Vacates
<1>3. active \subseteq Cell
  BY Subsets
<1>4. RunsAgree'
  <2>1. ASSUME NEW u \in Thread, NEW e \in Cell, Runs(u, e)'
        PROVE  e \in active' /\ "activation" \in flags'[e]
    BY <1>1, <1>2, <2>1 DEF Agreements, RunsAgree, Vacates
  <2>2. ASSUME NEW u \in Thread, NEW w \in Thread, NEW e \in Cell, Runs(u, e)', Runs(w, e)'
        PROVE  u = w
    BY <1>1, <2>2 DEF Agreements, RunsAgree
  <2>3. ASSUME NEW e \in active', "activation" \in flags'[e]
        PROVE  \E u \in Thread : Runs(u, e)'
    <3>1. e \in active /\ e \in Cell /\ "activation" \in flags[e]
      BY <1>3, <2>3 DEF Vacates
    <3>2. PICK u \in Thread : Runs(u, e)
      BY <3>1 DEF Agreements, RunsAgree
    <3> QED
      BY <1>1, <3>1, <3>2 DEF Vacates
  <2> QED
    BY <2>1, <2>2, <2>3 DEF RunsAgree
<1>5. TimersAgree'
  <2>1. \A e \in Cell : timer'[e] # "off" => e \in active'
    BY DEF Agreements, TimersAgree, Vacates
  <2>2. ASSUME NEW u \in Thread, NEW e \in Cell, Timed(u, e)'
        PROVE  timer'[e] # "off"
    <3>1. u # t /\ Timed(u, e) /\ Runs(u, e)
      BY <1>1, <2>2 DEF Timed, Runs
    <3>2. e # c
      BY <1>2, <3>1
    <3> QED
      BY <3>1, <3>2 DEF Agreements, TimersAgree, Vacates
  <2>3. ASSUME NEW e \in active', timer'[e] = "off"
        PROVE  \E u \in Thread : Owes(u, e)'
    <3>1. e \in active /\ e \in Cell /\ e # c /\ timer[e] = "off"
      BY <1>3, <2>3 DEF Vacates
    <3>2. PICK u \in Thread : Owes(u, e)
      BY <3>1 DEF Agreements, TimersAgree
    <3> QED
      BY <1>1, <3>1, <3>2 DEF Vacates
  <2> QED
    BY <2>1, <2>2, <2>3 DEF TimersAgree
<1> QED
  BY <1>4, <1>5

\* It is removed: its vdev is idle now.
LEMMA Removal ==
    ASSUME TypeOK, Agreements, NEW t \in Thread, NEW c \in Cell, Vacates(t, c), Plain(t)',
           bitmap' = bitmap \ {VdevOf[cmd[c]]},
           blockingActive' = (blockingActive /\ cmd[c] \notin Blocking)
    PROVE  Agreements'
<1>1. \A u \in Thread \ {t}, l \in Cmd : Cancels(u, l)' <=> Cancels(u, l)
  BY DEF Vacates, Others, Cancels
<1>2. active \subseteq Cell /\ Blocking \subseteq Cmd
  BY Subsets
<1>3. \A u \in Thread, l \in Cmd : Cancels(u, l)' => u # t /\ Cancels(u, l)
  BY <1>1 DEF Plain
<1>4. \A u \in Thread, l \in Cmd : Cancels(u, l) => Cancels(u, l)'
  BY <1>1 DEF Vacates
<1>5. \A e \in active' : e \in active /\ e # c /\ cmd'[e] = cmd[e]
  BY <1>2 DEF Vacates
<1>6. \A e \in active : e = c \/ (e \in active' /\ cmd'[e] = cmd[e])
  BY <1>2 DEF Vacates
<1>7. RunsAgree' /\ TimersAgree'
  BY VacatedRuns DEF Plain
<1>8. VdevsAgree'
  <2>1. \A e, f \in active' : VdevOf[cmd'[e]] = VdevOf[cmd'[f]] => e = f
    BY <1>5 DEF Agreements, VdevsAgree
  <2>2. \A u, w \in Thread, l, m \in Cmd :
           Cancels(u, l)' /\ Cancels(w, m)' /\ VdevOf[l] = VdevOf[m] => u = w
    BY <1>3 DEF Agreements, VdevsAgree
  <2>3. \A u \in Thread, l \in Cmd, e \in active' :
           Cancels(u, l)' => VdevOf[cmd'[e]] # VdevOf[l]
    BY <1>3, <1>5 DEF Agreements, VdevsAgree
  <2>4. \A e \in active' : VdevOf[cmd'[e]] \in bitmap'
    BY <1>5 DEF Agreements, VdevsAgree, Vacates
  <2>5. \A u \in Thread, l \in Cmd : Cancels(u, l)' => VdevOf[l] \in bitmap'
    BY <1>3 DEF Agreements, VdevsAgree, Vacates
  <2>6. ASSUME NEW v \in bitmap'
        PROVE  \/ \E e \in active' : VdevOf[cmd'[e]] = v
               \/ \E u \in Thread, l \in Cmd : Cancels(u, l)' /\ VdevOf[l] = v
    <3>1. v \in bitmap /\ v # VdevOf[cmd[c]]
      OBVIOUS
    <3>2. CASE \E e \in active : VdevOf[cmd[e]] = v
      BY <1>6, <3>1, <3>2
    <3>3. CASE \E u \in Thread, l \in Cmd : Cancels(u, l) /\ VdevOf[l] = v
      BY <1>4, <3>3
    <3> QED
      BY <3>1, <3>2, <3>3 DEF Agreements, VdevsAgree
  <2> QED
    BY <2>1, <2>2, <2>3, <2>4, <2>5, <2>6 DEF VdevsAgree
<1>9. BlockingAgrees'
  <2> SUFFICES ASSUME blockingActive'
               PROVE  \/ \E e \in active' : cmd'[e] \in Blocking
                      \/ \E u \in Thread, l \in Blocking : Cancels(u, l)'
    BY DEF BlockingAgrees, Blocks
  <2>1. CASE \E e \in active : Blocks(e)
    BY <1>6, <2>1 DEF Blocks
  <2>2. CASE \E u \in Thread, l \in Blocking : Cancels(u, l)
    BY <1>2, <1>4, <2>2
  <2> QED
    BY <2>1, <2>2 DEF Agreements, BlockingAgrees
<1> QED
  BY <1>7, <1>8, <1>9 DEF Agreements


\* It is cancelled: its vdev stays busy until the callback is over.
LEMMA Cancellation ==
    ASSUME TypeOK, Agreements, NEW t \in Thread, NEW c \in Cell, Vacates(t, c),
           cmd[c] \in Cmd,
           UNCHANGED <<bitmap, blockingActive>>,
           Doing(t)' = Frame("cancelled", cmd[c], TRUE)
    PROVE  Agreements'
<1>1. /\ \A e \in Cell : ~Runs(t, e)' /\ ~Timed(t, e)' /\ ~Owes(t, e)'
      /\ \A l \in Cmd : Cancels(t, l)' <=> l = cmd[c]
  BY DEF Frame, Runs, Timed, Owes, Cancels
<1>2. active \subseteq Cell /\ Blocking \subseteq Cmd
  BY Subsets
<1>3. RunsAgree' /\ TimersAgree'
  BY <1>1, VacatedRuns
<1>4. \A u \in Thread \ {t}, l \in Cmd : Cancels(u, l)' <=> Cancels(u, l)
  BY DEF Vacates, Others, Cancels
<1>5. \A u \in Thread, l \in Cmd :
         Cancels(u, l)' => \/ u = t /\ l = cmd[c]
                           \/ u # t /\ Cancels(u, l) /\ VdevOf[l] # VdevOf[cmd[c]]
  BY <1>1, <1>4 DEF Agreements, VdevsAgree, Vacates
<1>6. \A u \in Thread, l \in Cmd : Cancels(u, l) => Cancels(u, l)'
  BY <1>4 DEF Vacates
<1>7. \A e \in active' :
         /\ e \in active /\ cmd'[e] = cmd[e]
         /\ VdevOf[cmd[e]] # VdevOf[cmd[c]] /\ VdevOf[cmd[e]] \in bitmap
  BY <1>2 DEF Agreements, VdevsAgree, Vacates
<1>8. \A e \in active : e = c \/ (e \in active' /\ cmd'[e] = cmd[e])
  BY <1>2 DEF Vacates
<1>9. VdevsAgree'
  <2>1. \A e, f \in active' : VdevOf[cmd'[e]] = VdevOf[cmd'[f]] => e = f
    BY <1>7 DEF Agreements, VdevsAgree
  <2>2. ASSUME NEW u \in Thread, NEW w \in Thread, NEW l \in Cmd, NEW m \in Cmd,
               Cancels(u, l)', Cancels(w, m)', VdevOf[l] = VdevOf[m]
        PROVE  u = w
    BY <1>5, <2>2 DEF Agreements, VdevsAgree
  <2>3. ASSUME NEW u \in Thread, NEW l \in Cmd, NEW e \in active', Cancels(u, l)'
        PROVE  VdevOf[cmd'[e]] # VdevOf[l]
    BY <1>5, <1>7, <2>3 DEF Agreements, VdevsAgree
  <2>4. \A e \in active' : VdevOf[cmd'[e]] \in bitmap'
    BY <1>7
  <2>5. VdevOf[cmd[c]] \in bitmap
    BY DEF Agreements, VdevsAgree, Vacates
  <2>6. \A u \in Thread, l \in Cmd : Cancels(u, l)' => VdevOf[l] \in bitmap'
    BY <1>5, <2>5 DEF Agreements, VdevsAgree
  <2>7. ASSUME NEW v \in bitmap'
        PROVE  \/ \E e \in active' : VdevOf[cmd'[e]] = v
               \/ \E u \in Thread, l \in Cmd : Cancels(u, l)' /\ VdevOf[l] = v
    <3>1. CASE \E e \in active : VdevOf[cmd[e]] = v
      BY <1>1, <1>8, <3>1
    <3>2. CASE \E u \in Thread, l \in Cmd : Cancels(u, l) /\ VdevOf[l] = v
      BY <1>6, <3>2
    <3> QED
      BY <3>1, <3>2 DEF Agreements, VdevsAgree
  <2> QED
    BY <2>1, <2>2, <2>3, <2>4, <2>6, <2>7 DEF VdevsAgree
<1>10. BlockingAgrees'
  <2> SUFFICES ASSUME blockingActive
               PROVE  \/ \E e \in active' : cmd'[e] \in Blocking
                      \/ \E u \in Thread, l \in Blocking : Cancels(u, l)'
    BY DEF BlockingAgrees, Blocks
  <2>1. CASE \E e \in active : Blocks(e)
    BY <1>1, <1>8, <2>1 DEF Blocks
  <2>2. CASE \E u \in Thread, l \in Blocking : Cancels(u, l)
    BY <1>2, <1>6, <2>2
  <2> QED
    BY <2>1, <2>2 DEF Agreements, BlockingAgrees
<1> QED
  BY <1>3, <1>9, <1>10 DEF Agreements

\* The callback of a cancelled command is over.
LEMMA CalledBack ==
    ASSUME TypeOK, Agreements, NEW t \in Thread, Others(t), NEW k \in Cmd,
           Doing(t) = Frame("cancelled", k, TRUE), Plain(t)',
           UNCHANGED <<cmd, active, flags, timer>>,
           bitmap' = bitmap \ {VdevOf[k]},
           blockingActive' = (blockingActive /\ k \notin Blocking)
    PROVE  Agreements'
<1>1. /\ \A e \in Cell : ~Runs(t, e) /\ ~Timed(t, e) /\ ~Owes(t, e)
      /\ \A l \in Cmd : Cancels(t, l) <=> l = k
  BY DEF Frame, Runs, Timed, Owes, Cancels
<1>2. /\ \A u \in Thread \ {t}, e \in Cell : Runs(u, e)' <=> Runs(u, e)
      /\ \A u \in Thread \ {t}, e \in Cell : Owes(u, e)' <=> Owes(u, e)
      /\ \A u \in Thread \ {t}, e \in Cell : Timed(u, e)' <=> Timed(u, e)
      /\ \A u \in Thread \ {t}, l \in Cmd : Cancels(u, l)' <=> Cancels(u, l)
  BY DEF Others, Runs, Owes, Timed, Cancels
<1>3. ASSUME NEW u \in Thread, NEW e \in Cell
      PROVE  /\ Runs(u, e)' <=> Runs(u, e)
             /\ Owes(u, e)' <=> Owes(u, e)
             /\ Timed(u, e)' <=> Timed(u, e)
  <2>1. CASE u = t
    <3>1. ~Runs(t, e)' /\ ~Timed(t, e)' /\ ~Owes(t, e)'
      BY DEF Plain
    <3> QED
      BY <1>1, <2>1, <3>1
  <2>2. CASE u # t
    BY <1>2, <2>2
  <2> QED
    BY <2>1, <2>2
<1>4. active \subseteq Cell /\ Blocking \subseteq Cmd
  BY Subsets
<1>5. RunsAgree' /\ TimersAgree'
  <2>1. RunsAgree'
    BY <1>3, <1>4 DEF Agreements, RunsAgree
  <2>2. TimersAgree'
    BY <1>3, <1>4 DEF Agreements, TimersAgree
  <2> QED
    BY <2>1, <2>2
<1>6. \A u \in Thread, l \in Cmd :
         Cancels(u, l)' <=> u # t /\ Cancels(u, l)
  BY <1>2 DEF Plain
<1>7. VdevsAgree'
  <2>1. \A u \in Thread, l \in Cmd : Cancels(u, l)' => VdevOf[l] # VdevOf[k]
    BY <1>1, <1>6 DEF Agreements, VdevsAgree
  <2>2. \A e \in active : VdevOf[cmd[e]] # VdevOf[k]
    BY <1>1 DEF Agreements, VdevsAgree
  <2>3. /\ \A e, f \in active : VdevOf[cmd[e]] = VdevOf[cmd[f]] => e = f
        /\ \A u, w \in Thread, l, m \in Cmd :
              Cancels(u, l)' /\ Cancels(w, m)' /\ VdevOf[l] = VdevOf[m] => u = w
        /\ \A u \in Thread, l \in Cmd, e \in active :
              Cancels(u, l)' => VdevOf[cmd[e]] # VdevOf[l]
    BY <1>6 DEF Agreements, VdevsAgree
  <2>4. /\ \A e \in active : VdevOf[cmd[e]] \in bitmap'
        /\ \A u \in Thread, l \in Cmd : Cancels(u, l)' => VdevOf[l] \in bitmap'
    BY <1>6, <2>1, <2>2 DEF Agreements, VdevsAgree
  <2>5. ASSUME NEW v \in bitmap'
        PROVE  \/ \E e \in active : VdevOf[cmd[e]] = v
               \/ \E u \in Thread, l \in Cmd : Cancels(u, l)' /\ VdevOf[l] = v
    <3>1. CASE \E e \in active : VdevOf[cmd[e]] = v
      BY <3>1
    <3>2. CASE \E u \in Thread, l \in Cmd : Cancels(u, l) /\ VdevOf[l] = v
      BY <1>1, <1>6, <3>2
    <3>3. v \in bitmap
      OBVIOUS
    <3> QED
      BY <3>1, <3>2, <3>3 DEF Agreements, VdevsAgree
  <2> QED
    BY <2>3, <2>4, <2>5 DEF VdevsAgree
<1>8. BlockingAgrees'
  BY <1>1, <1>4, <1>6 DEF Agreements, BlockingAgrees, Blocks
<1> QED
  BY <1>5, <1>7, <1>8 DEF Agreements

\* The timer of an activation is started.
LEMMA TimerStarted ==
    ASSUME TypeOK, Agreements, NEW t \in Thread, Others(t), NEW c \in Cell,
           Doing(t).op = "activate", Doing(t).on = c,
           Doing(t)' = Frame("callback", c, FALSE),
           UNCHANGED <<cmd, active, flags, bitmap, blockingActive>>,
           timer' = [timer EXCEPT ![c] = "running"]
    PROVE  Agreements'
<1>1. /\ \A e \in Cell : (Runs(t, e) <=> e = c) /\ (Runs(t, e)' <=> e = c)
      /\ \A e \in Cell : (Owes(t, e) <=> e = c) /\ (Timed(t, e)' <=> e = c)
      /\ \A l \in Cmd : ~Cancels(t, l) /\ ~Cancels(t, l)'
  BY DEF Frame, Runs, Timed, Owes, Cancels
<1>2. /\ \A u \in Thread \ {t}, e \in Cell : Runs(u, e)' <=> Runs(u, e)
      /\ \A u \in Thread \ {t}, e \in Cell : Owes(u, e)' <=> Owes(u, e)
      /\ \A u \in Thread \ {t}, e \in Cell : Timed(u, e)' <=> Timed(u, e)
      /\ \A u \in Thread \ {t}, l \in Cmd : Cancels(u, l)' <=> Cancels(u, l)
  BY DEF Others, Runs, Owes, Timed, Cancels
<1>3. /\ \A u \in Thread, e \in Cell : Runs(u, e)' <=> Runs(u, e)
      /\ \A u \in Thread, l \in Cmd : Cancels(u, l)' <=> Cancels(u, l)
  BY <1>1, <1>2
<1>4. active \subseteq Cell /\ Blocking \subseteq Cmd
  BY Subsets
<1>5. /\ timer'[c] = "running"
      /\ \A e \in Cell \ {c} : timer'[e] = timer[e]
  <2>1. timer \in [Cell -> {"off", "running", "expired"}]
    BY CellTypes
  <2> QED
    BY <2>1
<1>6. RunsAgree' /\ VdevsAgree' /\ BlockingAgrees'
  BY <1>3, <1>4 DEF Agreements, RunsAgree, VdevsAgree, BlockingAgrees, Blocks
<1>7. TimersAgree'
  <2>1. c \in active
    BY <1>1 DEF Agreements, RunsAgree
  <2>2. \A e \in Cell : timer'[e] # "off" => e \in active
    BY <1>5, <2>1 DEF Agreements, TimersAgree
  <2>3. ASSUME NEW u \in Thread, NEW e \in Cell, Timed(u, e)'
        PROVE  timer'[e] # "off"
    BY <1>1, <1>2, <1>5, <2>3 DEF Agreements, TimersAgree
  <2>4. ASSUME NEW e \in active, timer'[e] = "off"
        PROVE  \E u \in Thread : Owes(u, e)'
    <3>1. e \in Cell /\ e # c /\ timer[e] = "off"
      BY <1>4, <1>5, <2>4
    <3>2. PICK u \in Thread : Owes(u, e)
      BY <3>1 DEF Agreements, TimersAgree
    <3> QED
      BY <1>1, <1>2, <3>1, <3>2
  <2> QED
    BY <2>2, <2>3, <2>4 DEF TimersAgree
<1> QED
  BY <1>6, <1>7 DEF Agreements

\* An activation is over.
LEMMA ActivationOver ==
    ASSUME TypeOK, Agreements, NEW t \in Thread, Others(t), NEW c \in Cell,
           NEW f \in BOOLEAN, NEW failed \in {f, TRUE},
           Doing(t) = Frame("callback", c, f),
           Doing(t)' = Frame("test", c, failed),
           UNCHANGED <<cmd, active, timer, bitmap, blockingActive>>,
           "activation" \notin flags'[c],
           \A e \in Cell \ {c} : "activation" \in flags'[e] <=> "activation" \in flags[e]
    PROVE  Agreements'
<1>1. /\ \A e \in Cell : (Runs(t, e) <=> e = c) /\ ~Runs(t, e)' /\ ~Timed(t, e)'
      /\ \A e \in Cell : Owes(t, e) => e = c /\ Owes(t, e)'
      /\ \A l \in Cmd : ~Cancels(t, l) /\ ~Cancels(t, l)'
  <2>1. \A e \in Cell : (Runs(t, e) <=> e = c) /\ ~Runs(t, e)' /\ ~Timed(t, e)'
    BY DEF Frame, Runs, Timed
  <2>2. ASSUME NEW e \in Cell, Owes(t, e)
        PROVE  e = c /\ Owes(t, e)'
    <3>1. e = c /\ f
      BY <2>2 DEF Frame, Owes
    <3>2. failed
      BY <3>1
    <3> QED
      BY <3>1, <3>2 DEF Frame, Owes
  <2>3. \A l \in Cmd : ~Cancels(t, l) /\ ~Cancels(t, l)'
    BY DEF Frame, Cancels
  <2> QED
    BY <2>1, <2>2, <2>3
<1>2. /\ \A u \in Thread \ {t}, e \in Cell : Runs(u, e)' <=> Runs(u, e)
      /\ \A u \in Thread \ {t}, e \in Cell : Owes(u, e)' <=> Owes(u, e)
      /\ \A u \in Thread \ {t}, e \in Cell : Timed(u, e)' <=> Timed(u, e)
      /\ \A u \in Thread \ {t}, l \in Cmd : Cancels(u, l)' <=> Cancels(u, l)
  BY DEF Others, Runs, Owes, Timed, Cancels
<1>3. \A u \in Thread, l \in Cmd : Cancels(u, l)' <=> Cancels(u, l)
  BY <1>1, <1>2
<1>4. active \subseteq Cell /\ Blocking \subseteq Cmd
  BY Subsets
<1>5. \A u \in Thread, e \in Cell : Runs(u, e)' <=> Runs(u, e) /\ e # c
  BY <1>1, <1>2 DEF Agreements, RunsAgree
<1>6. RunsAgree'
  BY <1>4, <1>5 DEF Agreements, RunsAgree
<1>7. VdevsAgree' /\ BlockingAgrees'
  BY <1>3, <1>4 DEF Agreements, VdevsAgree, BlockingAgrees, Blocks
<1>8. TimersAgree'
  BY <1>1, <1>2, <1>4 DEF Agreements, TimersAgree
<1> QED
  BY <1>6, <1>7, <1>8 DEF Agreements

\* A timer expires.
LEMMA Expiry ==
    ASSUME TypeOK, Agreements, NEW c \in Cell, timer[c] # "off",
           UNCHANGED <<stack, cmd, active, flags, bitmap, blockingActive>>,
           timer' = [timer EXCEPT ![c] = "expired"]
    PROVE  Agreements'
<1>1. \A u : Doing(u)' = Doing(u)
  BY DEF Doing, Idle, Top
<1>2. \A e \in Cell : timer'[e] = "off" <=> timer[e] = "off"
  BY CellTypes
<1>3. active \subseteq Cell
  BY Subsets
<1>4. /\ \A u \in Thread, e \in Cell : Runs(u, e)' <=> Runs(u, e)
      /\ \A u \in Thread, e \in Cell : Owes(u, e)' <=> Owes(u, e)
      /\ \A u \in Thread, e \in Cell : Timed(u, e)' <=> Timed(u, e)
      /\ \A u \in Thread : \A l : Cancels(u, l)' <=> Cancels(u, l)
  BY <1>1 DEF Runs, Owes, Timed, Cancels
<1>5. RunsAgree' /\ VdevsAgree' /\ BlockingAgrees'
  BY <1>3, <1>4 DEF Agreements, RunsAgree, VdevsAgree, BlockingAgrees, Blocks
<1>6. TimersAgree'
  BY <1>2, <1>3, <1>4 DEF Agreements, TimersAgree
<1> QED
  BY <1>5, <1>6 DEF Agreements


-----------------------------------------------------------------------------
(* Every action keeps the invariant.                                       *)

LEMMA Parts ==
    ASSUME IInv
    PROVE  TypeOK /\ StackOK /\ CellsAccounted /\ Agreements /\ CellsTyped /\ ListsTyped
<1>1. TypeOK
  BY DEF IInv
<1>2. CellsTyped /\ ListsTyped
  BY <1>1, TypeParts
<1>3. stack \in [Thread -> Seq(Frames)]
  BY <1>1 DEF TypeOK
<1> QED
  BY <1>1, <1>2, <1>3 DEF IInv, StackOK, Agreements

LEMMA PartsNext ==
    ASSUME CellsTyped', ListsTyped', StackOK', CellsAccounted', Agreements'
    PROVE  IInv'
<1>1. TypeOK'
  BY DEF CellsTyped, ListsTyped, StackOK, TypeOK
<1> QED
  BY <1>1 DEF IInv, StackOK, Agreements

LEMMA FreesCell ==
    ASSUME TypeOK, NEW c \in Cell, Frees(c)
    PROVE  /\ CellsTyped'
           /\ cmd'[c] = None /\ timer'[c] = "off" /\ flags'[c] = {}
           /\ \A e \in Cell \ {c} :
                 cmd'[e] = cmd[e] /\ timer'[e] = timer[e] /\ flags'[e] = flags[e]
BY CellTypes DEF Frees, CellsTyped

\* A mark on cells that is not the one of an activation.
LEMMA MarksCell ==
    ASSUME TypeOK, NEW c \in Cell, NEW f \in {"removal", "cancel"},
           flags' = [flags EXCEPT ![c] = @ \cup {f}]
    PROVE  flags' \in [Cell -> SUBSET Flags] /\ SameMarks
<1>1. flags \in [Cell -> SUBSET Flags] /\ f \in Flags
  BY CellTypes DEF Flags
<1>2. flags' \in [Cell -> SUBSET Flags]
  BY <1>1
<1>3. SameMarks
  BY <1>1, Subsets DEF SameMarks
<1> QED
  BY <1>2, <1>3

\* An active cell holds a command.
LEMMA ActiveHolds ==
    ASSUME TypeOK, CellsAccounted, NEW c \in active
    PROVE  c \in Cell /\ cmd[c] \in Cmd /\ c \notin ToSet(pending)
<1>1. c \in Cell
  BY Subsets
<1> QED
  BY <1>1, CellTypes DEF CellsAccounted

LEMMA CellsVacated ==
    ASSUME TypeOK, CellsAccounted, NEW c \in active, Frees(c), active' = active \ {c},
           pending' = pending
    PROVE  CellsAccounted'
<1>1. c \in Cell /\ c \notin ToSet(pending)
  BY ActiveHolds
<1>2. cmd'[c] = None /\ \A e \in Cell \ {c} : cmd'[e] = cmd[e]
  BY <1>1, FreesCell
<1> QED
  BY <1>1, <1>2 DEF CellsAccounted

\* Some thread other than t will start the timer of a running activation.
LEMMA RunnerOwes ==
    ASSUME Agreements, NEW t \in Thread, Others(t), NEW c \in Cell, c \in active,
           ~Runs(t, c), "activation" \in flags[c], timer[c] = "off"
    PROVE  \E u \in Thread : Owes(u, c)'
<1>1. PICK u \in Thread : Runs(u, c)
  BY DEF Agreements, RunsAgree
<1>2. ~Timed(u, c)
  BY DEF Agreements, TimersAgree
<1>3. Owes(u, c)
  BY <1>1, <1>2 DEF Runs, Timed, Owes
<1> QED
  BY <1>1, <1>3 DEF Others, Owes

LEMMA DequeueInv ==
    ASSUME IInv, NEW t \in Thread, NEW k \in Cmd, NEW rest, Resumes(rest),
           Dequeue(t, k, rest), UNCHANGED <<waiting, late>>,
           \A e \in Cell : ~Runs(t, e) /\ (Owes(t, e) => cmd[e] = k),
           \A l \in Cmd : ~Cancels(t, l)
    PROVE  IInv'
<1>1. TypeOK /\ StackOK /\ CellsAccounted /\ Agreements /\ CellsTyped /\ ListsTyped
  BY Parts
<1>2. CASE ActiveAs(k) = {} /\ Set(t, rest) /\ UNCHANGED <<queueVars, timer>>
  <2>1. StackOK' /\ Others(t) /\ Doing(t)'.op \in PlainOps
    BY <1>1, <1>2, Returns DEF PlainOps
  <2>2. CellsTyped' /\ ListsTyped'
    BY <1>1, <1>2 DEF CellsTyped, ListsTyped, queueVars
  <2>3. CellsAccounted'
    BY <1>1, <1>2 DEF CellsAccounted, queueVars
  <2>4. Plain(t)'
    BY <2>1, PlainOpNext
  <2>5. ASSUME NEW c \in active, timer[c] = "off"
        PROVE  \E u \in Thread : Owes(u, c)'
    <3>1. PICK u \in Thread : Owes(u, c)
      BY <1>1, <2>5 DEF Agreements, TimersAgree
    <3>2. u # t
      BY <1>1, <1>2, <3>1, Subsets DEF ActiveAs
    <3> QED
      BY <2>1, <3>1, <3>2 DEF Others, Owes
  <2>6. Agreements'
    <3>1. /\ \A c \in Cell : Runs(t, c)' <=> Runs(t, c)
          /\ \A l \in Cmd : Cancels(t, l)' <=> Cancels(t, l)
          /\ \A c \in Cell : ~Timed(t, c)'
      BY <2>4 DEF Plain
    <3>2. UNCHANGED <<active, bitmap, blockingActive, timer, cmd, flags>>
      BY <1>2 DEF queueVars
    <3> QED
      BY <1>1, <2>1, <2>5, <3>1, <3>2, Unbound DEF SameMarks
  <2> QED
    BY <2>1, <2>2, <2>3, <2>6, PartsNext
<1>3. ASSUME NEW c \in ActiveAs(k), "activation" \in flags[c],
             flags' = [flags EXCEPT ![c] = @ \cup {"removal"}], Set(t, rest),
             UNCHANGED <<cmd, active, pending, bitmap, blockingActive, timer>>
      PROVE  IInv'
  <2>1. StackOK' /\ Others(t) /\ Doing(t)'.op \in PlainOps
    BY <1>1, <1>3, Returns DEF PlainOps
  <2>2. c \in active /\ cmd[c] = k /\ c \in Cell
    BY <1>1, Subsets DEF ActiveAs
  <2>3. flags' \in [Cell -> SUBSET Flags] /\ SameMarks
    BY <1>1, <1>3, <2>2, MarksCell
  <2>4. CellsTyped' /\ ListsTyped'
    BY <1>1, <1>3, <2>3 DEF CellsTyped, ListsTyped
  <2>5. CellsAccounted'
    BY <1>1, <1>3 DEF CellsAccounted
  <2>6. Plain(t)'
    BY <2>1, PlainOpNext
  <2>7. ASSUME NEW e \in active, timer[e] = "off"
        PROVE  \E u \in Thread : Owes(u, e)'
    <3>1. PICK u \in Thread : Owes(u, e)
      BY <1>1, <2>7 DEF Agreements, TimersAgree
    <3>2. CASE u # t
      BY <2>1, <3>1, <3>2 DEF Others, Owes
    <3>3. CASE u = t
      <4>1. e = c
        BY <1>1, <2>2, <3>1, <3>3, Subsets DEF Agreements, VdevsAgree
      <4> QED
        BY <1>1, <1>3, <2>1, <2>2, <2>7, <4>1, RunnerOwes
    <3> QED
      BY <3>2, <3>3
  <2>8. Agreements'
    <3>1. /\ \A e \in Cell : Runs(t, e)' <=> Runs(t, e)
          /\ \A l \in Cmd : Cancels(t, l)' <=> Cancels(t, l)
          /\ \A e \in Cell : ~Timed(t, e)'
      BY <2>6 DEF Plain
    <3> QED
      BY <1>1, <1>3, <2>1, <2>3, <2>7, <3>1, Unbound
  <2> QED
    BY <2>1, <2>4, <2>5, <2>8, PartsNext
<1>4. ASSUME NEW c \in ActiveAs(k), "activation" \notin flags[c],
             active' = active \ {c}, Frees(c), bitmap' = bitmap \ {VdevOf[k]},
             blockingActive' = (blockingActive /\ k \notin Blocking),
             Set(t, Append(rest, Frame("move", VdevOf[k], k \in Blocking))),
             UNCHANGED pending
      PROVE  IInv'
  <2> DEFINE f == Frame("move", VdevOf[k], k \in Blocking)
  <2>1. c \in active /\ cmd[c] = k /\ c \in Cell
    BY <1>1, Subsets DEF ActiveAs
  <2>2. f \in Frames /\ f.op \in PlainOps
    <3>1. VdevOf[k] \in Vdev /\ (k \in Blocking) \in BOOLEAN
      BY SerAssumption
    <3>2. f \in Frames
      BY <3>1, FrameTypes
    <3> QED
      BY <3>2 DEF Frame, PlainOps
  <2>3. StackOK' /\ Others(t) /\ Doing(t)' = f
    BY <1>1, <1>4, <2>2, GoesOn
  <2>4. Plain(t)'
    BY <2>2, <2>3, PlainOpNext
  <2>5. CellsTyped' /\ ListsTyped'
    <3>1. CellsTyped'
      BY <1>1, <1>4, <2>1, FreesCell
    <3>2. blockingActive' \in BOOLEAN
      BY <1>4
    <3>3. ListsTyped'
      BY <1>1, <1>4, <3>2 DEF ListsTyped
    <3> QED
      BY <3>1, <3>3
  <2>6. CellsAccounted'
    BY <1>1, <1>4, <2>1, CellsVacated
  <2>7. Vacates(t, c)
    <3>1. /\ timer'[c] = "off"
          /\ \A e \in Cell \ {c} :
                cmd'[e] = cmd[e] /\ timer'[e] = timer[e] /\ flags'[e] = flags[e]
      BY <1>1, <1>4, <2>1, FreesCell
    <3>2. \A e \in Cell : ~Runs(t, e) /\ (Owes(t, e) /\ e \in active => e = c)
      BY <1>1, <2>1, Subsets DEF Agreements, VdevsAgree
    <3> QED
      BY <1>4, <2>1, <2>3, <3>1, <3>2 DEF Vacates
  <2>8. Agreements'
    BY <1>1, <1>4, <2>1, <2>4, <2>7, Removal
  <2> QED
    BY <2>3, <2>5, <2>6, <2>8, PartsNext
<1> QED
  BY <1>2, <1>3, <1>4 DEF Dequeue


\* A step after which the thread only has walks left, and which changes no
\* queue, or only marks a cell.
LEMMA QuietInv ==
    ASSUME IInv, NEW t \in Thread, NEW s, Resumes(s), Plain(t), Set(t, s),
           UNCHANGED <<cmd, active, pending, bitmap, blockingActive, timer>>,
           SameMarks, CellsTyped', waiting' \in Uint16, late' \subseteq Cmd
    PROVE  IInv'
<1>1. TypeOK /\ StackOK /\ CellsAccounted /\ Agreements /\ CellsTyped /\ ListsTyped
  BY Parts
<1>2. StackOK' /\ Others(t) /\ Doing(t)'.op \in PlainOps
  BY <1>1, Returns DEF PlainOps
<1>3. ListsTyped'
  BY <1>1 DEF ListsTyped
<1>4. CellsAccounted'
  BY <1>1 DEF CellsAccounted
<1>5. Plain(t)'
  BY <1>2, PlainOpNext
<1>6. Agreements'
  BY <1>1, <1>2, <1>5, StaysPlain
<1> QED
  BY <1>2, <1>3, <1>4, <1>6, PartsNext

\* The same with one more thing to do.
LEMMA QuietGoesOn ==
    ASSUME IInv, NEW t \in Thread, NEW s, Resumes(s), Plain(t),
           NEW f \in Frames, f.op \in PlainOps, Set(t, Append(s, f)),
           UNCHANGED <<cmd, active, pending, bitmap, blockingActive, timer>>,
           SameMarks, CellsTyped', waiting' \in Uint16, late' \subseteq Cmd
    PROVE  IInv'
<1>1. TypeOK /\ StackOK /\ CellsAccounted /\ Agreements /\ CellsTyped /\ ListsTyped
  BY Parts
<1>2. StackOK' /\ Others(t) /\ Doing(t)' = f
  BY <1>1, GoesOn
<1>3. ListsTyped'
  BY <1>1 DEF ListsTyped
<1>4. CellsAccounted'
  BY <1>1 DEF CellsAccounted
<1>5. Plain(t)'
  BY <1>2, PlainOpNext
<1>6. Agreements'
  BY <1>1, <1>2, <1>5, StaysPlain
<1> QED
  BY <1>2, <1>3, <1>4, <1>6, PartsNext

LEMMA ReactivateFrames ==
    ASSUME NEW a, NEW b
    PROVE  \/ Reactivate(a, b) = << >>
           \/ \E f \in Frames : f.op \in PlainOps /\ Reactivate(a, b) = <<f>>
<1>1. Frame("move", None, FALSE) \in Frames
  BY FrameTypes
<1>2. Frame("move", None, FALSE).op \in PlainOps
  BY DEF Frame, PlainOps
<1> QED
  BY <1>1, <1>2 DEF Reactivate

LEMMA CancelInv ==
    ASSUME IInv, NEW t \in Thread, NEW k \in Cmd, NEW rest, Resumes(rest),
           Cancel(t, k, rest), Plain(t),
           UNCHANGED <<pending, bitmap, blockingActive, waiting, late>>
    PROVE  IInv'
<1>1. TypeOK /\ StackOK /\ CellsAccounted /\ Agreements /\ CellsTyped /\ ListsTyped
  BY Parts
<1>2. waiting' \in Uint16 /\ late' \subseteq Cmd
  BY <1>1 DEF ListsTyped
<1>3. ASSUME UNCHANGED <<cmd, active, flags, timer>>
      PROVE  SameMarks /\ CellsTyped'
  BY <1>1, <1>3 DEF SameMarks, CellsTyped
<1>4. CASE Set(t, rest \o Reactivate(active, bitmap)) /\ UNCHANGED <<cmd, active, flags, timer>>
  <2>1. CASE Reactivate(active, bitmap) = << >>
    <3>1. rest \o << >> = rest
      BY ConcatEmptySeq DEF Resumes
    <3> QED
      BY <1>2, <1>3, <1>4, <2>1, <3>1, QuietInv
  <2>2. ASSUME NEW f \in Frames, f.op \in PlainOps, Reactivate(active, bitmap) = <<f>>
        PROVE  IInv'
    BY <1>2, <1>3, <1>4, <2>2, AppendsOne, QuietGoesOn
  <2> QED
    BY <2>1, <2>2, ReactivateFrames
<1>5. ASSUME NEW c \in ActiveAs(k),
             flags' = [flags EXCEPT ![c] = @ \cup {"cancel"}], Set(t, rest),
             UNCHANGED <<cmd, active, timer>>
      PROVE  IInv'
  <2>1. c \in Cell
    BY <1>1, Subsets DEF ActiveAs
  <2>2. flags' \in [Cell -> SUBSET Flags] /\ SameMarks
    BY <1>1, <1>5, <2>1, MarksCell
  <2>3. CellsTyped'
    BY <1>1, <1>5, <2>2 DEF CellsTyped
  <2> QED
    BY <1>2, <1>5, <2>2, <2>3, QuietInv
<1>6. CASE Set(t, rest) /\ UNCHANGED <<cmd, active, flags, timer>>
  BY <1>2, <1>3, <1>6, QuietInv
<1>7. ASSUME NEW c \in ActiveAs(k), "activation" \notin flags[c],
             active' = active \ {c}, Frees(c),
             Set(t, Append(rest, Frame("cancelled", k, TRUE)))
      PROVE  IInv'
  <2>1. c \in active /\ cmd[c] = k /\ c \in Cell
    BY <1>1, Subsets DEF ActiveAs
  <2>2. StackOK' /\ Others(t) /\ Doing(t)' = Frame("cancelled", k, TRUE)
    BY <1>1, <1>7, FrameTypes, GoesOn
  <2>3. CellsTyped'
    BY <1>1, <1>7, <2>1, FreesCell
  <2>4. ListsTyped'
    BY <1>1, <1>7 DEF ListsTyped
  <2>5. CellsAccounted'
    BY <1>1, <1>7, <2>1, CellsVacated
  <2>6. Vacates(t, c)
    <3>1. /\ timer'[c] = "off"
          /\ \A e \in Cell \ {c} :
                cmd'[e] = cmd[e] /\ timer'[e] = timer[e] /\ flags'[e] = flags[e]
      BY <1>1, <1>7, <2>1, FreesCell
    <3>2. /\ \A e \in Cell : ~Runs(t, e) /\ ~Owes(t, e)
          /\ \A l \in Cmd : ~Cancels(t, l)
      BY DEF Plain
    <3> QED
      BY <1>7, <2>1, <2>2, <3>1, <3>2 DEF Vacates
  <2>7. Agreements'
    BY <1>1, <2>1, <2>2, <2>6, Cancellation
  <2> QED
    BY <2>2, <2>3, <2>4, <2>5, <2>7, PartsNext
<1> QED
  BY <1>4, <1>5, <1>6, <1>7 DEF Cancel

-----------------------------------------------------------------------------
(* Requests, cancellations of pending commands, and their aftermath.       *)

LEMMA WrapType == \A n \in Int : Wrap(n) \in Uint16
BY DEF Wrap, Uint16

LEMMA WaitingInt ==
    ASSUME ListsTyped
    PROVE  waiting \in Int
BY DEF ListsTyped, Uint16

LEMMA IdleDoes ==
    ASSUME NEW t \in Thread, Idle(t)
    PROVE  Plain(t)
BY PlainOp, DoingIdle DEF PlainOps

\* The command that becomes active is of an idle vdev.
LEMMA AllowedVdev ==
    ASSUME NEW k, Allowed(k)
    PROVE  VdevOf[k] \notin bitmap
BY DEF Allowed

LEMMA RequestInv ==
    ASSUME IInv, NEW t \in Thread, NEW k \in Cmd, Request(t, k)
    PROVE  IInv'
<1>1. TypeOK /\ StackOK /\ CellsAccounted /\ Agreements /\ CellsTyped /\ ListsTyped
  BY Parts
<1>2. Plain(t) /\ late' = late /\ timer' = timer
  BY IdleDoes DEF Request
<1>3. waiting' \in Uint16
  <2>1. waiting \in Int /\ waiting + 1 \in Int
    BY <1>1, WaitingInt
  <2>2. waiting \in Uint16
    BY <1>1 DEF ListsTyped
  <2> QED
    BY <2>1, <2>2, WrapType DEF Request, Counted
<1>4. CASE UNCHANGED <<queueVars, stack>>
  <2>1. UNCHANGED <<cmd, active, pending, bitmap, blockingActive, flags>>
    BY <1>4 DEF queueVars
  <2>2. Set(t, stack[t])
    BY <1>1, <1>4 DEF Set, StackOK
  <2>3. Resumes(stack[t])
    BY EmptyResumes DEF Request, Idle
  <2>4. SameMarks /\ CellsTyped' /\ late' \subseteq Cmd
    BY <1>1, <1>2, <2>1 DEF SameMarks, CellsTyped, ListsTyped
  <2> QED
    BY <1>2, <1>3, <2>1, <2>2, <2>3, <2>4, QuietInv
<1>5. ASSUME NEW c \in Pool, cmd' = [cmd EXCEPT ![c] = k]
      PROVE  /\ c \in Cell /\ c \notin active /\ c \notin ToSet(pending)
             /\ cmd' \in [Cell -> Cmd \cup {None}] /\ cmd'[c] = k /\ k # None
             /\ \A e \in Cell \ {c} : cmd'[e] = cmd[e]
  <2>1. c \in Cell /\ cmd[c] = None
    BY DEF Pool
  <2>2. cmd \in [Cell -> Cmd \cup {None}]
    BY <1>1 DEF CellsTyped
  <2>3. k # None
    BY SerAssumption
  <2> QED
    BY <1>1, <1>5, <2>1, <2>2, <2>3 DEF CellsAccounted
<1>6. ASSUME NEW c \in Pool, cmd' = [cmd EXCEPT ![c] = k], Activates(c, k, flags),
             Allowed(k), Set(t, <<Frame("activate", c, FALSE)>>), UNCHANGED pending
      PROVE  IInv'
  <2> DEFINE f == Frame("activate", c, FALSE)
  <2>1. /\ c \in Cell /\ c \notin active /\ c \notin ToSet(pending)
        /\ cmd' \in [Cell -> Cmd \cup {None}] /\ cmd'[c] = k /\ k # None
        /\ \A e \in Cell \ {c} : cmd'[e] = cmd[e]
    BY <1>5, <1>6
  <2>2. StackOK' /\ Others(t) /\ Doing(t)' = f
    <3>1. f \in Frames
      BY <2>1, FrameTypes
    <3>2. <<f>> = Append(<< >>, f)
      OBVIOUS
    <3> HIDE DEF f
    <3> QED
      BY <1>1, <1>6, <3>1, <3>2, EmptyResumes, GoesOn DEF f
  <2>3. /\ flags' \in [Cell -> SUBSET Flags] /\ "activation" \in flags'[c]
        /\ \A e \in Cell \ {c} : flags'[e] = flags[e]
    <3>1. flags \in [Cell -> SUBSET Flags] /\ "activation" \in Flags
      BY <1>1 DEF CellsTyped, Flags
    <3>2. flags' = [flags EXCEPT ![c] = @ \cup {"activation"}]
      BY <1>6 DEF Activates
    <3> QED
      BY <2>1, <3>1, <3>2
  <2>4. CellsTyped'
    BY <1>1, <1>2, <2>1, <2>3 DEF CellsTyped
  <2>5. ListsTyped'
    <3>1. VdevOf[k] \in Vdev /\ blockingActive' \in BOOLEAN
      BY <1>6, SerAssumption DEF Activates
    <3> QED
      BY <1>1, <1>2, <1>3, <1>6, <2>1, <3>1 DEF ListsTyped, Activates
  <2>6. CellsAccounted'
    BY <1>1, <1>6, <2>1 DEF CellsAccounted, Activates
  <2>7. Agreements'
    <3>1. VdevOf[k] \notin bitmap
      BY <1>6, AllowedVdev
    <3>2. \A e \in active : cmd'[e] = cmd[e]
      BY <1>1, <2>1, Subsets
    <3>3. /\ active' = active \cup {c} /\ bitmap' = bitmap \cup {VdevOf[k]}
          /\ blockingActive' = (blockingActive \/ k \in Blocking)
      BY <1>6 DEF Activates
    <3>4. \A e \in Cell \ {c} : "activation" \in flags'[e] <=> "activation" \in flags[e]
      BY <2>3
    <3> QED
      BY <1>1, <1>2, <2>1, <2>2, <2>3, <3>1, <3>2, <3>3, <3>4, Activation
  <2> QED
    BY <2>2, <2>4, <2>5, <2>6, <2>7, PartsNext
<1>7. ASSUME NEW c \in Pool, cmd' = [cmd EXCEPT ![c] = k],
             pending' \in {<<c>> \o pending, Append(pending, c)},
             UNCHANGED <<active, flags, bitmap, blockingActive, stack>>
      PROVE  IInv'
  <2>1. /\ c \in Cell /\ c \notin active /\ c \notin ToSet(pending)
        /\ cmd' \in [Cell -> Cmd \cup {None}] /\ cmd'[c] = k /\ k # None
        /\ \A e \in Cell \ {c} : cmd'[e] = cmd[e]
    BY <1>5, <1>7
  <2>2. /\ pending' \in Seq(Cell) /\ IsInjective(pending')
        /\ ToSet(pending') = ToSet(pending) \cup {c}
    <3>1. pending \in Seq(Cell) /\ IsInjective(pending)
      BY <1>1 DEF ListsTyped, CellsAccounted
    <3>2. CASE pending' = <<c>> \o pending
      BY <2>1, <3>1, <3>2, AddedInFront
    <3>3. CASE pending' = Append(pending, c)
      BY <2>1, <3>1, <3>3, AddedAtEnd
    <3> QED
      BY <1>7, <3>2, <3>3
  <2>3. CellsTyped' /\ ListsTyped'
    BY <1>1, <1>2, <1>3, <1>7, <2>1, <2>2 DEF CellsTyped, ListsTyped
  <2>4. CellsAccounted'
    BY <1>1, <1>7, <2>1, <2>2 DEF CellsAccounted
  <2>5. StackOK' /\ Others(t) /\ Plain(t)'
    <3>1. \A u : Doing(u)' = Doing(u)
      BY <1>7 DEF Doing, Idle, Top
    <3>2. Others(t)
      BY <3>1 DEF Others
    <3>3. Plain(t)'
      BY <1>2, <3>1 DEF Plain, Runs, Timed, Owes, Cancels
    <3>4. StackOK'
      BY <1>1, <1>7 DEF StackOK, StackShape
    <3> QED
      BY <3>2, <3>3, <3>4
  <2>6. Agreements'
    <3>1. \A e \in active : cmd'[e] = cmd[e]
      BY <1>1, <2>1, Subsets
    <3>2. SameMarks
      BY <1>7 DEF SameMarks
    <3> QED
      BY <1>1, <1>2, <1>7, <2>5, <3>1, <3>2, StaysPlain
  <2> QED
    BY <2>3, <2>4, <2>5, <2>6, PartsNext
<1> QED
  BY <1>4, <1>6, <1>7 DEF Request, ToActive

LEMMA CancelPendingInv ==
    ASSUME IInv, NEW t \in Thread, NEW k \in Cmd, CancelPending(t, k)
    PROVE  IInv'
<1>1. TypeOK /\ StackOK /\ CellsAccounted /\ Agreements /\ CellsTyped /\ ListsTyped
  BY Parts
<1>2. PICK i \in 1..Len(pending) : pending' = RemoveAt(pending, i) /\ Frees(pending[i])
  BY DEF CancelPending
<1>3. UNCHANGED <<active, bitmap, blockingActive, waiting, late>>
  BY DEF CancelPending
<1> DEFINE c == pending[i]
           f == Frame("cancelled", k, FALSE)
<1>4. pending \in Seq(Cell) /\ IsInjective(pending)
  BY <1>1 DEF ListsTyped, CellsAccounted
<1>5. c \in Cell /\ c \in ToSet(pending)
  BY <1>4, ElementOfSeq, LenProperties DEF ToSet
<1>6. c \notin active
  BY <1>1, <1>5 DEF CellsAccounted
<1>7. /\ pending' \in Seq(Cell) /\ IsInjective(pending')
      /\ ToSet(pending') = ToSet(pending) \ {c}
  BY <1>2, <1>4, RemovedAt
<1>8. /\ CellsTyped' /\ cmd'[c] = None /\ timer'[c] = "off"
      /\ \A e \in Cell \ {c} :
            cmd'[e] = cmd[e] /\ timer'[e] = timer[e] /\ flags'[e] = flags[e]
  BY <1>1, <1>2, <1>5, FreesCell
<1> HIDE DEF c
<1>9. StackOK' /\ Others(t) /\ Doing(t)' = f
  <2>1. f \in Frames
    BY FrameTypes
  <2>2. <<f>> = Append(<< >>, f)
    OBVIOUS
  <2>3. Set(t, <<f>>)
    BY DEF CancelPending
  <2> HIDE DEF f
  <2> QED
    BY <1>1, <2>1, <2>2, <2>3, EmptyResumes, GoesOn
<1>10. ListsTyped'
  BY <1>1, <1>3, <1>7 DEF ListsTyped
<1>11. CellsAccounted'
  BY <1>1, <1>3, <1>5, <1>6, <1>7, <1>8 DEF CellsAccounted
<1>12. Agreements'
  <2>1. /\ Plain(t)
        /\ \A e \in Cell : ~Runs(t, e)' /\ ~Timed(t, e)' /\ ~Owes(t, e)'
        /\ \A l \in Cmd : ~Cancels(t, l)'
    BY <1>9, IdleDoes DEF CancelPending, Frame, Runs, Timed, Owes, Cancels
  <2>2. Plain(t)'
    BY <2>1 DEF Plain
  <2>3. timer' = timer
    <3>1. timer[c] = "off"
      BY <1>1, <1>5, <1>6 DEF Agreements, TimersAgree
    <3>2. timer \in [Cell -> {"off", "running", "expired"}]
      BY <1>1 DEF CellsTyped
    <3>3. timer' \in [Cell -> {"off", "running", "expired"}]
      BY <1>8 DEF CellsTyped
    <3> QED
      BY <1>8, <3>1, <3>2, <3>3
  <2>4. SameMarks /\ \A e \in active : cmd'[e] = cmd[e]
    BY <1>1, <1>6, <1>8, Subsets DEF SameMarks
  <2> QED
    BY <1>1, <1>3, <1>9, <2>1, <2>2, <2>3, <2>4, StaysPlain
<1> QED
  BY <1>9, <1>8, <1>10, <1>11, <1>12, PartsNext


-----------------------------------------------------------------------------
(* Activations.                                                            *)

LEMMA FrameFields ==
    ASSUME NEW f \in Frames
    PROVE  /\ f = Frame(f.op, f.on, f.flag) /\ f.flag \in BOOLEAN
           /\ f.op \in {"activate", "callback", "test", "remove"} => f.on \in Cell
           /\ f.op \in {"timeout", "cancelled"} => f.on \in Cmd
           /\ f.op \in {"move", "resume"} => f.on \in Vdev \cup {None}
BY DEF Frames, Frame

LEMMA StartTimerInv ==
    ASSUME IInv, NEW t \in Thread, StartTimer(t)
    PROVE  IInv'
<1>1. TypeOK /\ StackOK /\ CellsAccounted /\ Agreements /\ CellsTyped /\ ListsTyped
  BY Parts
<1>2. ~Idle(t) /\ Top(t).op = "activate" /\ UNCHANGED <<queueVars, waiting, late>>
  BY DEF StartTimer, At
<1>3. UNCHANGED <<cmd, active, pending, flags, bitmap, blockingActive>>
  BY <1>2 DEF queueVars
<1>4. Doing(t) = Top(t) /\ Top(t) \in Frames /\ Resumes(Rest(t))
  BY <1>1, <1>2, DoingTop
<1> DEFINE c == Top(t).on
<1>5. c \in Cell /\ Doing(t).op = "activate" /\ Doing(t).on = c
  BY <1>2, <1>4, FrameFields
<1> HIDE DEF c
<1>6. ListsTyped' /\ CellsAccounted'
  BY <1>1, <1>2, <1>3 DEF ListsTyped, CellsAccounted
<1>7. CASE /\ timer' = [timer EXCEPT ![c] = "running"]
           /\ Set(t, Append(Rest(t), Frame("callback", c, FALSE)))
  <2>1. StackOK' /\ Others(t) /\ Doing(t)' = Frame("callback", c, FALSE)
    BY <1>1, <1>4, <1>5, <1>7, FrameTypes, GoesOn
  <2>2. CellsTyped'
    BY <1>1, <1>3, <1>5, <1>7 DEF CellsTyped
  <2>3. Agreements'
    BY <1>1, <1>3, <1>5, <1>7, <2>1, TimerStarted
  <2> QED
    BY <1>6, <2>1, <2>2, <2>3, PartsNext
<1>8. CASE /\ Set(t, Append(Rest(t), Frame("callback", c, TRUE)))
           /\ UNCHANGED timer
  <2>1. StackOK' /\ Others(t) /\ Doing(t)' = Frame("callback", c, TRUE)
    BY <1>1, <1>4, <1>5, <1>8, FrameTypes, GoesOn
  <2>2. CellsTyped'
    BY <1>1, <1>3, <1>8 DEF CellsTyped
  <2>3. /\ \A e \in Cell : Runs(t, e)' <=> Runs(t, e)
        /\ \A e \in Cell : Owes(t, e)' <=> Owes(t, e)
        /\ \A e \in Cell : ~Timed(t, e)'
        /\ \A k \in Cmd : ~Cancels(t, k)' /\ ~Cancels(t, k)
    BY <1>5, <2>1 DEF Frame, Runs, Owes, Timed, Cancels
  <2>4. ASSUME NEW e \in active, timer[e] = "off"
        PROVE  \E u \in Thread : Owes(u, e)'
    <3>1. PICK u \in Thread : Owes(u, e)
      BY <1>1, <2>4 DEF Agreements, TimersAgree
    <3>2. CASE u = t
      BY <1>1, <2>3, <3>1, <3>2, Subsets
    <3>3. CASE u # t
      BY <2>1, <3>1, <3>3 DEF Others, Owes
    <3> QED
      BY <3>2, <3>3
  <2>5. Agreements'
    BY <1>1, <1>3, <1>8, <2>1, <2>3, <2>4, Unbound DEF SameMarks
  <2> QED
    BY <1>6, <2>1, <2>2, <2>5, PartsNext
<1> QED
  BY <1>7, <1>8 DEF StartTimer, c

LEMMA ActivatedInv ==
    ASSUME IInv, NEW t \in Thread, Activated(t)
    PROVE  IInv'
<1>1. TypeOK /\ StackOK /\ CellsAccounted /\ Agreements /\ CellsTyped /\ ListsTyped
  BY Parts
<1>2. /\ ~Idle(t) /\ Top(t).op = "callback"
      /\ UNCHANGED <<cmd, active, pending, bitmap, blockingActive, waiting, timer, late>>
  BY DEF Activated, At
<1>3. Doing(t) = Top(t) /\ Top(t) \in Frames /\ Resumes(Rest(t))
  BY <1>1, <1>2, DoingTop
<1> DEFINE c == Top(t).on
           f == Top(t).flag
<1>4. c \in Cell /\ f \in BOOLEAN /\ Doing(t) = Frame("callback", c, f)
  BY <1>2, <1>3, FrameFields
<1>5. PICK failed \in {f, TRUE} : Set(t, Append(Rest(t), Frame("test", c, failed)))
  BY DEF Activated
<1>6. flags' = [flags EXCEPT ![c] = @ \ {"activation"}]
  BY DEF Activated
<1> HIDE DEF c, f
<1>7. StackOK' /\ Others(t) /\ Doing(t)' = Frame("test", c, failed)
  BY <1>1, <1>3, <1>4, <1>5, FrameTypes, GoesOn
<1>8. /\ flags' \in [Cell -> SUBSET Flags] /\ "activation" \notin flags'[c]
      /\ \A e \in Cell \ {c} : flags'[e] = flags[e]
  <2>1. flags \in [Cell -> SUBSET Flags]
    BY <1>1 DEF CellsTyped
  <2> QED
    BY <1>4, <1>6, <2>1
<1>9. CellsTyped' /\ ListsTyped' /\ CellsAccounted'
  BY <1>1, <1>2, <1>8 DEF CellsTyped, ListsTyped, CellsAccounted
<1>10. Agreements'
  <2>1. \A e \in Cell \ {c} : "activation" \in flags'[e] <=> "activation" \in flags[e]
    BY <1>8
  <2> QED
    BY <1>1, <1>2, <1>4, <1>5, <1>7, <1>8, <2>1, ActivationOver
<1> QED
  BY <1>7, <1>9, <1>10, PartsNext

LEMMA TestInv ==
    ASSUME IInv, NEW t \in Thread, Test(t)
    PROVE  IInv'
<1>1. TypeOK /\ StackOK /\ CellsAccounted /\ Agreements /\ CellsTyped /\ ListsTyped
  BY Parts
<1>2. ~Idle(t) /\ Top(t).op = "test" /\ UNCHANGED <<queueVars, waiting, timer, late>>
  BY DEF Test, At
<1>3. UNCHANGED <<cmd, active, pending, flags, bitmap, blockingActive>>
  BY <1>2 DEF queueVars
<1>4. Doing(t) = Top(t) /\ Top(t) \in Frames /\ Resumes(Rest(t))
  BY <1>1, <1>2, DoingTop
<1>5. PICK c \in Cell, f \in BOOLEAN :
           c = Top(t).on /\ f = Top(t).flag /\ Doing(t) = Frame("test", c, f)
  BY <1>2, <1>4, FrameFields
<1>6. \/ Set(t, Rest(t) \o << >>) /\ (f => cmd[c] = None)
      \/ Set(t, Rest(t) \o <<Frame("remove", c, FALSE)>>)
      \/ Set(t, Rest(t) \o <<Frame("remove", c, TRUE)>>) /\ ~f
  BY <1>5 DEF Test
<1>7. CellsTyped' /\ ListsTyped' /\ CellsAccounted'
  BY <1>1, <1>2, <1>3 DEF CellsTyped, ListsTyped, CellsAccounted
<1>8. /\ \A e \in Cell : ~Runs(t, e) /\ (Owes(t, e) => e = c /\ f)
      /\ \A k \in Cmd : ~Cancels(t, k)
  BY <1>5 DEF Frame, Runs, Owes, Cancels
<1>9. ASSUME StackOK', Others(t),
             \A e \in Cell : ~Runs(t, e)' /\ ~Timed(t, e)',
             \A k \in Cmd : ~Cancels(t, k)',
             f /\ c \in active => Owes(t, c)'
      PROVE  IInv'
  <2>1. ASSUME NEW e \in active, timer[e] = "off"
        PROVE  \E u \in Thread : Owes(u, e)'
    <3>1. PICK u \in Thread : Owes(u, e)
      BY <1>1, <2>1 DEF Agreements, TimersAgree
    <3>2. CASE u = t
      <4>1. e \in Cell /\ Owes(t, e)
        BY <1>1, <3>1, <3>2, Subsets
      <4>2. e = c /\ f
        BY <1>8, <4>1
      <4>3. c \in active
        BY <2>1, <4>2
      <4>4. Owes(t, c)'
        BY <1>9, <4>2, <4>3
      <4>5. Owes(t, e)'
        BY <4>2, <4>4
      <4> QED
        BY <4>5
    <3>3. CASE u # t
      BY <1>9, <3>1, <3>3 DEF Others, Owes
    <3> QED
      BY <3>2, <3>3
  <2>2. Agreements'
    BY <1>1, <1>2, <1>3, <1>8, <1>9, <2>1, Unbound DEF SameMarks
  <2> QED
    BY <1>7, <1>9, <2>2, PartsNext
<1>10. CASE Set(t, Rest(t) \o << >>) /\ (f => cmd[c] = None)
  <2>1. Rest(t) \o << >> = Rest(t)
    BY <1>4, ConcatEmptySeq DEF Resumes
  <2>2. StackOK' /\ Others(t) /\ Doing(t)'.op \in PlainOps
    BY <1>1, <1>4, <1>10, <2>1, Returns DEF PlainOps
  <2>3. Plain(t)'
    BY <2>2, PlainOpNext
  <2>4. f => c \notin active
    BY <1>1, <1>10, ActiveHolds, SerAssumption
  <2> QED
    BY <1>9, <2>2, <2>3, <2>4 DEF Plain
<1>11. ASSUME NEW g \in BOOLEAN, f => ~g, Set(t, Rest(t) \o <<Frame("remove", c, g)>>)
       PROVE  IInv'
  <2>1. StackOK' /\ Others(t) /\ Doing(t)' = Frame("remove", c, g)
    <3>1. Frame("remove", c, g) \in Frames
      BY <1>5, FrameTypes
    <3> QED
      BY <1>1, <1>4, <1>11, <3>1, AppendsOne, GoesOn
  <2>2. /\ \A e \in Cell : ~Runs(t, e)' /\ ~Timed(t, e)'
        /\ \A k \in Cmd : ~Cancels(t, k)'
        /\ ~g => Owes(t, c)'
    <3>1. Doing(t)'.op = "remove" /\ Doing(t)'.on = c /\ Doing(t)'.flag = g
      BY <2>1 DEF Frame
    <3>2. /\ \A e \in Cell : ~Runs(t, e)' /\ ~Timed(t, e)'
          /\ \A k \in Cmd : ~Cancels(t, k)'
      BY <3>1 DEF Runs, Timed, Cancels
    <3>3. ASSUME ~g
          PROVE  Owes(t, c)'
      <4>1. ~Doing(t)'.flag
        BY <3>1, <3>3
      <4> QED
        BY <3>1, <4>1 DEF Owes
    <3> QED
      BY <3>2, <3>3
  <2> QED
    BY <1>9, <1>11, <2>1, <2>2
<1> QED
  BY <1>6, <1>10, <1>11

-----------------------------------------------------------------------------
(* Removals and cancellations.                                             *)

LEMMA RemoveCmdInv ==
    ASSUME IInv, NEW t \in Thread, NEW k \in Cmd, RemoveCmd(t, k)
    PROVE  IInv'
<1>1. Plain(t) /\ Dequeue(t, k, << >>) /\ UNCHANGED <<waiting, late>>
  BY IdleDoes DEF RemoveCmd
<1> QED
  BY <1>1, EmptyResumes, DequeueInv DEF Plain

LEMMA CancelActiveInv ==
    ASSUME IInv, NEW t \in Thread, NEW k \in Cmd, CancelActive(t, k)
    PROVE  IInv'
BY IdleDoes, EmptyResumes, CancelInv DEF CancelActive

LEMMA LeftBehindInv ==
    ASSUME IInv, NEW t \in Thread, LeftBehind(t)
    PROVE  IInv'
<1>1. TypeOK /\ StackOK /\ CellsAccounted /\ Agreements /\ CellsTyped /\ ListsTyped
  BY Parts
<1>2. ~Idle(t) /\ Top(t).op = "remove" /\ UNCHANGED <<waiting, late>>
  BY DEF LeftBehind, At
<1>3. Doing(t) = Top(t) /\ Top(t) \in Frames /\ Resumes(Rest(t))
  BY <1>1, <1>2, DoingTop
<1> DEFINE c == Top(t).on
           g == Top(t).flag
<1>4. c \in Cell /\ g \in BOOLEAN /\ Doing(t) = Frame("remove", c, g)
  BY <1>2, <1>3, FrameFields
<1>5. \/ cmd[c] = None /\ Set(t, Rest(t)) /\ UNCHANGED <<queueVars, timer>>
      \/ cmd[c] # None /\ ~g /\ Dequeue(t, cmd[c], Rest(t))
      \/ /\ cmd[c] # None /\ g /\ Cancel(t, cmd[c], Rest(t))
         /\ UNCHANGED <<pending, bitmap, blockingActive>>
  BY DEF LeftBehind
<1> HIDE DEF c, g
<1>6. cmd[c] \in Cmd \cup {None}
  BY <1>1, <1>4 DEF CellsTyped
<1>7. /\ \A e \in Cell : ~Runs(t, e) /\ ~Timed(t, e) /\ (Owes(t, e) => e = c /\ ~g)
      /\ \A l \in Cmd : ~Cancels(t, l)
  BY <1>4 DEF Frame, Runs, Timed, Owes, Cancels
<1>8. CASE cmd[c] = None /\ Set(t, Rest(t)) /\ UNCHANGED <<queueVars, timer>>
  <2>1. StackOK' /\ Others(t) /\ Doing(t)'.op \in PlainOps
    BY <1>1, <1>3, <1>8, Returns DEF PlainOps
  <2>2. UNCHANGED <<cmd, active, pending, flags, bitmap, blockingActive, timer>>
    BY <1>8 DEF queueVars
  <2>3. CellsTyped' /\ ListsTyped' /\ CellsAccounted'
    BY <1>1, <1>2, <2>2 DEF CellsTyped, ListsTyped, CellsAccounted
  <2>4. Plain(t)'
    BY <2>1, PlainOpNext
  <2>5. c \notin active
    BY <1>1, <1>8, ActiveHolds, SerAssumption
  <2>6. ASSUME NEW e \in active, timer[e] = "off"
        PROVE  \E u \in Thread : Owes(u, e)'
    <3>1. PICK u \in Thread : Owes(u, e)
      BY <1>1, <2>6 DEF Agreements, TimersAgree
    <3>2. u # t
      BY <1>1, <1>7, <2>5, <3>1, Subsets
    <3> QED
      BY <2>1, <3>1, <3>2 DEF Others, Owes
  <2>7. Agreements'
    <3>1. /\ \A e \in Cell : Runs(t, e)' <=> Runs(t, e)
          /\ \A l \in Cmd : Cancels(t, l)' <=> Cancels(t, l)
          /\ \A e \in Cell : ~Timed(t, e)'
      BY <1>7, <2>4 DEF Plain
    <3> QED
      BY <1>1, <2>1, <2>2, <2>6, <3>1, Unbound DEF SameMarks
  <2> QED
    BY <2>1, <2>3, <2>7, PartsNext
<1>9. CASE cmd[c] # None /\ ~g /\ Dequeue(t, cmd[c], Rest(t))
  BY <1>2, <1>3, <1>6, <1>7, <1>9, DequeueInv
<1>10. CASE /\ cmd[c] # None /\ g /\ Cancel(t, cmd[c], Rest(t))
            /\ UNCHANGED <<pending, bitmap, blockingActive>>
  BY <1>2, <1>3, <1>6, <1>7, <1>10, CancelInv DEF Plain
<1> QED
  BY <1>5, <1>8, <1>9, <1>10

LEMMA TimedOutInv ==
    ASSUME IInv, NEW t \in Thread, TimedOut(t)
    PROVE  IInv'
<1>1. StackOK
  BY Parts
<1>2. ~Idle(t) /\ Top(t).op = "timeout" /\ UNCHANGED <<waiting, late>>
  BY DEF TimedOut, At
<1>3. Doing(t) = Top(t) /\ Top(t) \in Frames /\ Resumes(Rest(t))
  BY <1>1, <1>2, DoingTop
<1>4. Top(t).on \in Cmd
  BY <1>2, <1>3, FrameFields
<1>5. Plain(t)
  BY <1>2, <1>3, PlainOp DEF PlainOps
<1>6. Dequeue(t, Top(t).on, Rest(t))
  BY DEF TimedOut
<1> QED
  BY <1>2, <1>3, <1>4, <1>5, <1>6, DequeueInv DEF Plain

LEMMA CancelDoneInv ==
    ASSUME IInv, NEW t \in Thread, CancelDone(t)
    PROVE  IInv'
<1>1. TypeOK /\ StackOK /\ CellsAccounted /\ Agreements /\ CellsTyped /\ ListsTyped
  BY Parts
<1>2. /\ ~Idle(t) /\ Top(t).op = "cancelled"
      /\ UNCHANGED <<cmd, active, pending, flags, timer, late>>
  BY DEF CancelDone, At
<1>3. Doing(t) = Top(t) /\ Top(t) \in Frames /\ Resumes(Rest(t))
  BY <1>1, <1>2, DoingTop
<1> DEFINE k == Top(t).on
           g == Top(t).flag
<1>4. k \in Cmd /\ g \in BOOLEAN /\ Doing(t) = Frame("cancelled", k, g)
  BY <1>2, <1>3, FrameFields
<1>5. \/ /\ g /\ bitmap' = bitmap \ {VdevOf[k]} /\ waiting' = waiting
         /\ blockingActive' = (blockingActive /\ k \notin Blocking)
         /\ Set(t, Rest(t) \o Reactivate(active, bitmap'))
      \/ /\ ~g /\ waiting' = (IF k \in Blocking THEN Wrap(waiting - 1) ELSE waiting)
         /\ Set(t, Rest(t)) /\ UNCHANGED <<bitmap, blockingActive>>
  BY DEF CancelDone
<1> HIDE DEF k, g
<1>6. CellsTyped' /\ CellsAccounted'
  BY <1>1, <1>2 DEF CellsTyped, CellsAccounted
<1>7. CASE /\ g /\ bitmap' = bitmap \ {VdevOf[k]} /\ waiting' = waiting
           /\ blockingActive' = (blockingActive /\ k \notin Blocking)
           /\ Set(t, Rest(t) \o Reactivate(active, bitmap'))
  <2>1. StackOK' /\ Others(t) /\ Doing(t)'.op \in PlainOps
    <3>1. CASE Reactivate(active, bitmap') = << >>
      <4>1. Rest(t) \o << >> = Rest(t)
        BY <1>3, ConcatEmptySeq DEF Resumes
      <4> QED
        BY <1>1, <1>3, <1>7, <3>1, <4>1, Returns DEF PlainOps
    <3>2. ASSUME NEW f \in Frames, f.op \in PlainOps, Reactivate(active, bitmap') = <<f>>
          PROVE  StackOK' /\ Others(t) /\ Doing(t)'.op \in PlainOps
      BY <1>1, <1>3, <1>7, <3>2, AppendsOne, GoesOn
    <3> QED
      BY <3>1, <3>2, ReactivateFrames
  <2>2. Plain(t)'
    BY <2>1, PlainOpNext
  <2>3. ListsTyped'
    <3>1. blockingActive' \in BOOLEAN
      BY <1>7
    <3> QED
      BY <1>1, <1>2, <1>7, <3>1 DEF ListsTyped
  <2>4. Doing(t) = Frame("cancelled", k, TRUE)
    BY <1>4, <1>7
  <2>5. Agreements'
    BY <1>1, <1>2, <1>4, <1>7, <2>1, <2>2, <2>4, CalledBack
  <2> QED
    BY <1>6, <2>1, <2>3, <2>5, PartsNext
<1>8. CASE /\ ~g /\ waiting' = (IF k \in Blocking THEN Wrap(waiting - 1) ELSE waiting)
           /\ Set(t, Rest(t)) /\ UNCHANGED <<bitmap, blockingActive>>
  <2>1. Plain(t)
    BY <1>4, <1>8 DEF Plain, Frame, Runs, Timed, Owes, Cancels
  <2>2. waiting' \in Uint16 /\ late' \subseteq Cmd
    <3>1. waiting \in Uint16 /\ waiting - 1 \in Int /\ late \subseteq Cmd
      BY <1>1, WaitingInt DEF ListsTyped
    <3> QED
      BY <1>2, <1>8, <3>1, WrapType
  <2>3. SameMarks
    BY <1>2 DEF SameMarks
  <2> QED
    BY <1>2, <1>3, <1>6, <1>8, <2>1, <2>2, <2>3, QuietInv
<1> QED
  BY <1>5, <1>7, <1>8


-----------------------------------------------------------------------------
(* The walks.                                                              *)

LEMMA MarkedKeeps ==
    ASSUME TypeOK, NEW i
    PROVE  /\ Marked(i) \in [Cell -> SUBSET Flags]
           /\ \A c \in Cell : "activation" \in Marked(i)[c] <=> "activation" \in flags[c]
<1>1. flags \in [Cell -> SUBSET Flags] /\ "movement" \in Flags
  BY CellTypes DEF Flags
<1>2. ASSUME NEW c \in Cell
      PROVE  Marked(i)[c] \in {flags[c], flags[c] \ {"movement"}, flags[c] \cup {"movement"}}
  BY DEF Marked
<1>3. DOMAIN Marked(i) = Cell /\ Marked(i) = [c \in Cell |-> Marked(i)[c]]
  BY DEF Marked
<1>4. ASSUME NEW c \in Cell
      PROVE  /\ Marked(i)[c] \in SUBSET Flags
             /\ "activation" \in Marked(i)[c] <=> "activation" \in flags[c]
  BY <1>1, <1>2
<1>5. Marked(i) \in [Cell -> SUBSET Flags]
  <2> DEFINE m == Marked(i)
  <2>1. m = [c \in Cell |-> m[c]] /\ \A c \in Cell : m[c] \in SUBSET Flags
    BY <1>3, <1>4
  <2> HIDE DEF m
  <2>2. m \in [Cell -> SUBSET Flags]
    BY <2>1
  <2> QED
    BY <2>2 DEF m
<1> QED
  BY <1>4, <1>5

LEMMA WalkEndStops ==
    ASSUME WalkEnd # 0
    PROVE  WalkEnd \in 1..Len(pending) /\ Stops(WalkEnd)
<1> DEFINE T == {i \in 1..Len(pending) : Stops(i)}
<1>1. WalkEnd = IF T = {} THEN 0 ELSE Min(T)
  BY DEF WalkEnd
<1>2. T # {} /\ T \subseteq Nat
  BY <1>1
<1> HIDE DEF T
<1>3. WalkEnd \in T
  BY <1>1, <1>2, LeastOf
<1> QED
  BY <1>3 DEF T

LEMMA StayInv ==
    ASSUME IInv, NEW t \in Thread, ~Idle(t), Plain(t), Stay(t), CellsTyped', SameMarks,
           UNCHANGED <<timer, late>>
    PROVE  IInv'
<1>1. StackOK /\ ListsTyped
  BY Parts
<1>2. Resumes(Rest(t))
  BY <1>1, DoingTop
<1>3. waiting' \in Uint16 /\ late' \subseteq Cmd
  BY <1>1 DEF ListsTyped, Stay
<1> QED
  BY <1>2, <1>3, QuietInv DEF Stay

LEMMA PromoteInv ==
    ASSUME IInv, NEW t \in Thread, ~Idle(t), Plain(t), NEW i \in 1..Len(pending),
           NEW v \in Vdev \cup {None}, NEW m \in [Cell -> SUBSET Flags],
           \A c \in Cell : "activation" \in m[c] <=> "activation" \in flags[c],
           VdevOf[cmd[pending[i]]] \notin bitmap,
           Promote(t, i, m, v), UNCHANGED <<timer, late>>
    PROVE  IInv'
<1>1. TypeOK /\ StackOK /\ CellsAccounted /\ Agreements /\ CellsTyped /\ ListsTyped
  BY Parts
<1>2. pending \in Seq(Cell) /\ IsInjective(pending)
  BY <1>1 DEF ListsTyped, CellsAccounted
<1>3. PICK c \in Cell : c = pending[i] /\ c \in ToSet(pending)
  BY <1>2, ElementOfSeq, LenProperties DEF ToSet
<1>4. c \notin active /\ cmd[c] \in Cmd
  BY <1>1, <1>3 DEF CellsAccounted, CellsTyped
<1>5. PICK k \in Cmd : k = cmd[c]
  BY <1>4
<1>6. /\ pending' = RemoveAt(pending, i) /\ Activates(c, k, m) /\ cmd' = cmd
      /\ waiting' = (IF Blocks(c) THEN Wrap(waiting - 1) ELSE waiting)
      /\ Set(t, Rest(t) \o <<Frame("resume", v, FALSE), Frame("activate", c, FALSE)>>)
  BY <1>3, <1>5 DEF Promote
<1>7. /\ pending' \in Seq(Cell) /\ IsInjective(pending')
      /\ ToSet(pending') = ToSet(pending) \ {c}
  BY <1>2, <1>3, <1>6, RemovedAt
<1>8. StackOK' /\ Others(t) /\ Doing(t)' = Frame("activate", c, FALSE)
  <2> DEFINE e == Frame("resume", v, FALSE)
             f == Frame("activate", c, FALSE)
  <2>1. e \in Frames /\ e.op = "resume" /\ f \in Frames
    <3>1. e \in Frames
      BY FrameTypes
    <3>2. f \in Frames
      BY FrameTypes
    <3> QED
      BY <3>1, <3>2 DEF Frame
  <2> HIDE DEF e, f
  <2>2. Resumes(Rest(t))
    BY <1>1, DoingTop
  <2>3. Resumes(Append(Rest(t), e)) /\ Set(t, Append(Append(Rest(t), e), f))
    BY <1>6, <2>1, <2>2, AppendsTwo DEF e, f
  <2>4. StackOK' /\ Others(t) /\ Doing(t)' = f
    BY <1>1, <2>1, <2>3, GoesOn
  <2> QED
    BY <2>4 DEF f
<1>9. /\ flags' \in [Cell -> SUBSET Flags] /\ "activation" \in flags'[c]
      /\ \A e \in Cell \ {c} : flags'[e] = m[e]
  <2>1. "activation" \in Flags
    BY DEF Flags
  <2>2. flags' = [m EXCEPT ![c] = @ \cup {"activation"}]
    BY <1>6 DEF Activates
  <2> QED
    BY <2>1, <2>2
<1>10. CellsTyped'
  BY <1>1, <1>6, <1>9 DEF CellsTyped
<1>11. ListsTyped'
  <2>1. VdevOf[k] \in Vdev /\ blockingActive' \in BOOLEAN
    BY <1>6, SerAssumption DEF Activates
  <2>2. waiting' \in Uint16
    <3>1. waiting \in Uint16 /\ waiting - 1 \in Int
      BY <1>1, WaitingInt DEF ListsTyped
    <3> QED
      BY <1>6, <3>1, WrapType
  <2> QED
    BY <1>1, <1>6, <1>7, <2>1, <2>2 DEF ListsTyped, Activates
<1>12. CellsAccounted'
  BY <1>1, <1>3, <1>4, <1>6, <1>7 DEF CellsAccounted, Activates
<1>13. Agreements'
  <2>1. VdevOf[k] \notin bitmap
    BY <1>3, <1>5
  <2>2. /\ active' = active \cup {c} /\ bitmap' = bitmap \cup {VdevOf[k]}
        /\ blockingActive' = (blockingActive \/ k \in Blocking)
    BY <1>6 DEF Activates
  <2>3. \A e \in Cell \ {c} : "activation" \in flags'[e] <=> "activation" \in flags[e]
    BY <1>9
  <2>4. cmd'[c] = k /\ \A e \in active : cmd'[e] = cmd[e]
    BY <1>5, <1>6
  <2> QED
    BY <1>1, <1>4, <1>8, <1>9, <2>1, <2>2, <2>3, <2>4, Activation
<1> QED
  BY <1>8, <1>10, <1>11, <1>12, <1>13, PartsNext

LEMMA WalkPdevInv ==
    ASSUME IInv, NEW t \in Thread, ~Idle(t), Plain(t), WalkPdev(t), UNCHANGED <<timer, late>>
    PROVE  IInv'
<1>1. TypeOK /\ CellsTyped
  BY Parts
<1> DEFINE i == WalkEnd
<1>2. CASE Stay(t) /\ flags' = Marked(i)
  <2>1. CellsTyped' /\ SameMarks
    BY <1>1, <1>2, MarkedKeeps, Subsets DEF CellsTyped, Stay, SameMarks
  <2> QED
    BY <1>2, <2>1, StayInv
<1>3. CASE /\ i # 0 /\ ~(Blocks(pending[i]) /\ bitmap # {})
           /\ Promote(t, i, Marked(i), None)
  <2>1. i \in 1..Len(pending) /\ Stops(i)
    BY <1>3, WalkEndStops
  <2>2. VdevOf[cmd[pending[i]]] \notin bitmap
    BY <1>3, <2>1 DEF Stops, Busy
  <2>3. PICK j \in 1..Len(pending), m \in [Cell -> SUBSET Flags] :
             /\ j = i /\ m = Marked(i)
             /\ \A c \in Cell : "activation" \in m[c] <=> "activation" \in flags[c]
    BY <1>1, <2>1, MarkedKeeps
  <2> HIDE DEF i
  <2> QED
    BY <1>3, <2>2, <2>3, PromoteInv
<1> QED
  BY <1>2, <1>3 DEF WalkPdev

LEMMA WalkVdevInv ==
    ASSUME IInv, NEW t \in Thread, ~Idle(t), Plain(t), NEW v \in Vdev, WalkVdev(t, v),
           UNCHANGED <<timer, late>>
    PROVE  IInv'
<1>1. TypeOK /\ CellsTyped
  BY Parts
<1>2. CASE Stay(t) /\ UNCHANGED flags
  <2>1. CellsTyped' /\ SameMarks
    BY <1>1, <1>2 DEF CellsTyped, Stay, SameMarks
  <2> QED
    BY <1>2, <2>1, StayInv
<1>3. CASE /\ PendingOf(v) # {} /\ v \notin bitmap
           /\ Promote(t, Min(PendingOf(v)), flags, v)
  <2>1. PendingOf(v) \subseteq Nat
    BY DEF PendingOf
  <2>2. PICK i \in PendingOf(v) : i = Min(PendingOf(v))
    BY <1>3, <2>1, LeastOf
  <2>3. i \in 1..Len(pending) /\ VdevOf[cmd[pending[i]]] = v
    BY DEF PendingOf, OfVdev
  <2>4. flags \in [Cell -> SUBSET Flags]
    BY <1>1 DEF CellsTyped
  <2> QED
    BY <1>3, <2>2, <2>3, <2>4, PromoteInv
<1> QED
  BY <1>2, <1>3 DEF WalkVdev

LEMMA MoveInv ==
    ASSUME IInv, NEW t \in Thread, Move(t) \/ Resume(t)
    PROVE  IInv'
<1>1. TypeOK /\ StackOK /\ CellsTyped
  BY Parts
<1>2. /\ ~Idle(t) /\ Top(t).op \in {"move", "resume"} /\ UNCHANGED <<timer, late>>
  BY DEF Move, Resume, At
<1>3. Doing(t) = Top(t) /\ Top(t) \in Frames
  BY <1>1, <1>2, DoingTop
<1>4. Top(t).on \in Vdev \cup {None}
  BY <1>2, <1>3, FrameFields
<1>5. Plain(t)
  BY <1>2, <1>3, PlainOp DEF PlainOps
<1>6. CASE Stay(t) /\ UNCHANGED flags
  <2>1. CellsTyped' /\ SameMarks
    BY <1>1, <1>2, <1>6 DEF CellsTyped, Stay, SameMarks
  <2> QED
    BY <1>2, <1>5, <1>6, <2>1, StayInv
<1>7. CASE WalkPdev(t)
  BY <1>2, <1>5, <1>7, WalkPdevInv
<1>8. CASE Top(t).on # None /\ WalkVdev(t, Top(t).on)
  BY <1>2, <1>4, <1>5, <1>8, WalkVdevInv
<1> QED
  BY <1>6, <1>7, <1>8 DEF Move, Resume

-----------------------------------------------------------------------------
(* Timeouts.                                                               *)

LEMMA TimerFiresInv ==
    ASSUME IInv, NEW c \in Cell, TimerFires(c)
    PROVE  IInv'
<1>1. TypeOK /\ StackOK /\ CellsAccounted /\ Agreements /\ CellsTyped /\ ListsTyped
  BY Parts
<1>2. /\ timer[c] = "running" /\ timer' = [timer EXCEPT ![c] = "expired"]
      /\ late' = late \cup {cmd[c]}
      /\ UNCHANGED <<cmd, active, pending, flags, bitmap, blockingActive, waiting, stack>>
  BY DEF TimerFires, queueVars
<1>3. c \in active /\ cmd[c] \in Cmd
  <2>1. c \in active
    BY <1>1, <1>2 DEF Agreements, TimersAgree
  <2> QED
    BY <1>1, <2>1, ActiveHolds
<1>4. CellsTyped' /\ ListsTyped' /\ CellsAccounted'
  BY <1>1, <1>2, <1>3 DEF CellsTyped, ListsTyped, CellsAccounted
<1>5. StackOK'
  BY <1>1, <1>2 DEF StackOK, StackShape
<1>6. Agreements'
  BY <1>1, <1>2, Expiry
<1> QED
  BY <1>4, <1>5, <1>6, PartsNext

LEMMA TimeoutInv ==
    ASSUME IInv, NEW k \in Cmd, Timeout(k)
    PROVE  IInv'
<1>1. CellsTyped /\ ListsTyped
  BY Parts
<1>2. Mc \in Thread
  BY SerAssumption
<1>3. Plain(Mc)
  BY <1>2, IdleDoes DEF Timeout
<1>4. UNCHANGED <<cmd, active, pending, flags, bitmap, blockingActive, waiting, timer>>
  BY DEF Timeout, queueVars
<1>5. SameMarks /\ CellsTyped' /\ waiting' \in Uint16 /\ late' \subseteq Cmd
  BY <1>1, <1>4 DEF SameMarks, CellsTyped, ListsTyped, Timeout
<1>6. CASE Set(Mc, << >>)
  BY <1>2, <1>3, <1>4, <1>5, <1>6, EmptyResumes, QuietInv
<1>7. CASE Set(Mc, <<Frame("timeout", k, FALSE)>>)
  <2> DEFINE f == Frame("timeout", k, FALSE)
  <2>1. f \in Frames
    BY FrameTypes
  <2>2. f.op \in PlainOps
    BY DEF Frame, PlainOps
  <2> HIDE DEF f
  <2>3. <<f>> = Append(<< >>, f)
    OBVIOUS
  <2>4. Set(Mc, Append(<< >>, f))
    BY <1>7, <2>3 DEF f
  <2> QED
    BY <1>2, <1>3, <1>4, <1>5, <2>1, <2>2, <2>4, EmptyResumes, QuietGoesOn
<1> QED
  BY <1>6, <1>7 DEF Timeout


-----------------------------------------------------------------------------
(* Theorems.                                                               *)

LEMMA InitInv ==
    ASSUME Init
    PROVE  IInv
<1>1. \A t \in Thread : Idle(t) /\ Doing(t) = Frame("nothing", None, FALSE)
  BY DEF Init, Idle, Doing
<1>2. \A t \in Thread : Doing(t).op = "nothing"
  BY <1>1 DEF Frame
<1>3. TypeOK
  <2>1. CellsTyped
    BY DEF Init, CellsTyped
  <2>2. stack \in [Thread -> Seq(Frames)] /\ << >> \in Seq(Cell) /\ 0 \in Uint16
    BY DEF Init, Uint16
  <2> QED
    BY <2>1, <2>2 DEF Init, CellsTyped, TypeOK
<1>4. StackShape
  BY DEF Init, StackShape
<1>5. CellsAccounted
  BY DEF Init, CellsAccounted, ToSet, IsInjective
<1>6. RunsAgree /\ VdevsAgree /\ BlockingAgrees /\ TimersAgree
  BY <1>2 DEF Init, RunsAgree, VdevsAgree, BlockingAgrees, TimersAgree, Runs, Timed, Cancels
<1> QED
  BY <1>3, <1>4, <1>5, <1>6 DEF IInv

LEMMA NextInv ==
    ASSUME IInv, [Next]_vars
    PROVE  IInv'
<1>1. ASSUME NEW t \in Thread, NEW k \in Cmd,
             \/ Request(t, k) \/ RemoveCmd(t, k) \/ CancelActive(t, k) \/ CancelPending(t, k)
      PROVE  IInv'
  BY <1>1, RequestInv, RemoveCmdInv, CancelActiveInv, CancelPendingInv
<1>2. ASSUME NEW t \in Thread, Proceed(t)
      PROVE  IInv'
  BY <1>2, StartTimerInv, ActivatedInv, TestInv, LeftBehindInv, CancelDoneInv, MoveInv,
     TimedOutInv DEF Proceed
<1>3. CASE UNCHANGED vars
  <2>1. UNCHANGED <<cmd, active, pending, flags, bitmap, blockingActive, waiting, timer,
                    late, stack>>
    BY <1>3 DEF vars, queueVars
  <2>2. CellsTyped /\ ListsTyped /\ StackOK /\ CellsAccounted /\ Agreements
    BY Parts
  <2>3. CellsTyped' /\ ListsTyped' /\ StackOK' /\ CellsAccounted'
    BY <2>1, <2>2 DEF CellsTyped, ListsTyped, StackOK, StackShape, CellsAccounted
  <2>4. \A t : Doing(t)' = Doing(t)
    BY <2>1 DEF Doing, Idle, Top
  <2>5. RunsAgree' /\ VdevsAgree' /\ BlockingAgrees' /\ TimersAgree'
    <3>1. /\ \A t, c : Runs(t, c)' <=> Runs(t, c)
          /\ \A t, c : Owes(t, c)' <=> Owes(t, c)
          /\ \A t, c : Timed(t, c)' <=> Timed(t, c)
          /\ \A t, k : Cancels(t, k)' <=> Cancels(t, k)
      BY <2>4 DEF Runs, Owes, Timed, Cancels
    <3>2. RunsAgree'
      BY <2>1, <2>2, <3>1 DEF Agreements, RunsAgree
    <3>3. VdevsAgree'
      BY <2>1, <2>2, <3>1 DEF Agreements, VdevsAgree
    <3>4. BlockingAgrees'
      BY <2>1, <2>2, <3>1 DEF Agreements, BlockingAgrees, Blocks
    <3>5. TimersAgree'
      BY <2>1, <2>2, <3>1 DEF Agreements, TimersAgree
    <3> QED
      BY <3>2, <3>3, <3>4, <3>5
  <2> QED
    BY <2>3, <2>5, PartsNext DEF Agreements
<1> QED
  BY <1>1, <1>2, <1>3, TimerFiresInv, TimeoutInv DEF Next

\* The inductive invariant holds: what the threads are at agrees with cells,
\* lists, marks, vdevs and timers.
THEOREM Invariance == Spec => []IInv
<1>1. Init => IInv
  BY InitInv
<1>2. IInv /\ [Next]_vars => IInv'
  BY NextInv
<1> QED
  BY <1>1, <1>2, PTL DEF Spec

\* Every variable stays in its range, the 16-bit counter of waiting blocking
\* commands too.
THEOREM TypeCorrect == Spec => []TypeOK
<1>1. IInv => TypeOK
  BY DEF IInv
<1> QED
  BY <1>1, Invariance, PTL

\* No command is lost and no cell is on both lists or twice on one, whoever
\* requests, removes, cancels or times out commands.
THEOREM NothingLost == Spec => []CellsAccounted
<1>1. IInv => CellsAccounted
  BY DEF IInv
<1> QED
  BY <1>1, Invariance, PTL

\* A vdev has one active command, and the bitmap and the blocking flag mark
\* nothing that is over.
THEOREM VdevsApart == Spec => []OneActivePerVdev
<1>1. ASSUME IInv
      PROVE  OneActivePerVdev
  <2>1. StackOK /\ VdevsAgree /\ BlockingAgrees /\ active \subseteq Cell /\ Blocking \subseteq Cmd
    BY <1>1, Parts, Subsets DEF Agreements
  <2>2. ASSUME BeingCancelled = {}, NEW t \in Thread, NEW k
        PROVE  ~Cancels(t, k)
    <3> SUFFICES ASSUME Cancels(t, k)
                 PROVE  FALSE
      OBVIOUS
    <3>1. ~Idle(t) /\ stack[t][Len(stack[t])].op = "cancelled"
      BY DEF Cancels, Doing, Frame, Top, Last
    <3>2. stack[t] \in Seq(Frames) /\ stack[t] # << >>
      BY <2>1, <3>1 DEF StackOK, Idle
    <3>3. Len(stack[t]) \in 1..Len(stack[t])
      BY <3>2, EmptySeq
    <3> QED
      BY <2>2, <3>1, <3>3 DEF BeingCancelled
  <2>3. BeingCancelled = {} =>
           /\ bitmap = {VdevOf[cmd[c]] : c \in active}
           /\ blockingActive => \E c \in active : Blocks(c)
    BY <2>1, <2>2 DEF VdevsAgree, BlockingAgrees
  <2>4. /\ \A c, e \in active : c # e => VdevOf[cmd[c]] # VdevOf[cmd[e]]
        /\ {VdevOf[cmd[c]] : c \in active} \subseteq bitmap
    BY <2>1 DEF VdevsAgree
  <2> QED
    BY <2>3, <2>4 DEF OneActivePerVdev
<1> QED
  BY <1>1, Invariance, PTL

\* While the activation callback of a command runs without the lock its cell
\* stays active, and one thread only is at it.
THEOREM CallbacksSafe == Spec => []CallbackKeepsCell
<1>1. ASSUME IInv
      PROVE  CallbackKeepsCell
  <2>1. StackOK /\ RunsAgree
    BY <1>1, Parts DEF Agreements
  <2>2. ASSUME NEW t \in Thread, NEW c \in Cell
        PROVE  t \in Running(c) <=> Runs(t, c)
    <3>1. ASSUME NEW i \in 1..Len(stack[t]),
                 stack[t][i].op \in {"activate", "callback"}, stack[t][i].on = c
          PROVE  Runs(t, c)
      <4>1. stack[t][i] = Doing(t)
        BY <2>1, <3>1, OnTopOnly
      <4> QED
        BY <3>1, <4>1 DEF Runs
    <3>2. ASSUME Runs(t, c)
          PROVE  \E i \in 1..Len(stack[t]) :
                    stack[t][i].op \in {"activate", "callback"} /\ stack[t][i].on = c
      <4>1. ~Idle(t) /\ stack[t][Len(stack[t])] = Doing(t)
        BY <3>2 DEF Runs, Doing, Frame, Top, Last
      <4>2. stack[t] \in Seq(Frames) /\ stack[t] # << >>
        BY <2>1, <4>1 DEF StackOK, Idle
      <4>3. Len(stack[t]) \in 1..Len(stack[t])
        BY <4>2, EmptySeq
      <4> QED
        BY <3>2, <4>1, <4>3 DEF Runs
    <3> QED
      BY <3>1, <3>2 DEF Running
  <2> SUFFICES ASSUME NEW c \in Cell
               PROVE  /\ Running(c) # {} => c \in active /\ "activation" \in flags[c]
                      /\ (c \in active /\ "activation" \in flags[c]) =>
                            Cardinality(Running(c)) = 1
    BY DEF CallbackKeepsCell
  <2>3. Running(c) \subseteq Thread
    BY DEF Running
  <2>4. Running(c) # {} => c \in active /\ "activation" \in flags[c]
    BY <2>1, <2>2, <2>3 DEF RunsAgree
  <2>5. ASSUME c \in active, "activation" \in flags[c]
        PROVE  Cardinality(Running(c)) = 1
    <3>1. PICK t \in Thread : Runs(t, c)
      BY <2>1, <2>5 DEF RunsAgree
    <3>2. Running(c) = {t}
      BY <2>1, <2>2, <2>3, <3>1 DEF RunsAgree
    <3> QED
      BY <3>2, FS_Singleton
  <2> QED
    BY <2>4, <2>5
<1> QED
  BY <1>1, Invariance, PTL

\* A timer never points to a cell of the pool, and with nobody inside the
\* module every active command has one.
THEOREM TimersWatching == Spec => []TimersWatch
<1>1. ASSUME IInv
      PROVE  TimersWatch
  <2>1. TimersAgree
    BY <1>1 DEF IInv
  <2>2. ASSUME Quiet, NEW c \in active
        PROVE  timer[c] # "off"
    <3>1. \A t \in Thread : Doing(t).op = "nothing"
      BY <2>2, DoingIdle DEF Quiet
    <3>2. \A t \in Thread : ~Owes(t, c)
      BY <3>1 DEF Owes
    <3> QED
      BY <2>1, <3>2 DEF TimersAgree
  <2> QED
    BY <2>1, <2>2 DEF TimersWatch, TimersAgree
<1> QED
  BY <1>1, Invariance, PTL


=============================================================================
