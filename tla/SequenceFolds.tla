--------------------------- MODULE SequenceFolds ---------------------------
(***************************************************************************)
(* What the proofs about replays and message lists use of SequencesExt:     *)
(* FoldLeft takes one more element by one more step, and what holds of the  *)
(* empty sequence and is kept by Append holds of every sequence.  The       *)
(* module is instantiated with a step, a base and a predicate each time.    *)
(***************************************************************************)
EXTENDS Integers, Sequences, SequencesExt, SequenceTheorems, WellFoundedInduction, TLAPS

CONSTANTS
    Step(_, _), Base,    \* what is folded
    P(_)                 \* what is shown of every sequence

-----------------------------------------------------------------------------
(* Induction, with the set of the numbers a fact holds of.                 *)

Smaller == {ij \in Nat \X Nat : ij[1] < ij[2]}

\* A nonempty set of natural numbers has a least one.
LEMMA LeastNat ==
    ASSUME NEW S \in SUBSET Nat, S # {}
    PROVE  \E x \in S : \A y \in S : x <= y
<1>1. IsWellFoundedOn(Smaller, Nat)
  BY NatLessThanWellFounded, Zenon DEF OpToRel, Smaller
<1>2. \E x \in S : \A y \in S : ~(<<y, x>> \in Smaller)
  BY <1>1, WFMin
<1>3. \A x, y \in Nat : ~(<<y, x>> \in Smaller) => x <= y
  <2> SUFFICES ASSUME NEW x \in Nat, NEW y \in Nat, y < x PROVE <<y, x>> \in Smaller
    OBVIOUS
  <2>1. <<y, x>> \in Nat \X Nat /\ <<y, x>>[1] = y /\ <<y, x>>[2] = x
    OBVIOUS
  <2> QED
    BY <2>1, Zenon DEF Smaller
<1> QED
  BY <1>2, <1>3

\* A set with zero that is closed under the successor has every number.
LEMMA NatSteps ==
    ASSUME NEW S, 0 \in S, \A n \in Nat : n \in S => n + 1 \in S
    PROVE  \A n \in Nat : n \in S
<1> SUFFICES ASSUME Nat \ S # {} PROVE FALSE
  OBVIOUS
<1>1. PICK x \in Nat \ S : \A y \in Nat \ S : x <= y
  BY LeastNat
<1>2. x # 0 /\ x - 1 \in Nat
  BY <1>1
<1>3. x - 1 \in S
  BY <1>1, <1>2
<1> QED
  BY <1>1, <1>2, <1>3

-----------------------------------------------------------------------------
(* FoldLeft.                                                               *)

Folded(s) == FoldLeft(Step, Base, s)

\* The function over sets of positions that FoldLeft defines, for the first n.
IsIter(f, s, n) ==
    f = [t \in SUBSET (1..n) |->
           IF t = {} THEN Base ELSE Step(f[t \ {Max(t)}], s[Max(t)])]

LEMMA MaxWithLast ==
    ASSUME NEW n \in Nat, NEW t \in SUBSET (1..(n + 1)), n + 1 \in t
    PROVE  Max(t) = n + 1
<1>1. n + 1 \in t /\ \A y \in t : n + 1 >= y
  OBVIOUS
<1>2. \A x \in t : (\A y \in t : x >= y) => x = n + 1
  OBVIOUS
<1> QED
  BY <1>1, <1>2 DEF Max

LEMMA IterExtends ==
    ASSUME NEW s, NEW n \in Nat, NEW f, IsIter(f, s, n)
    PROVE  \E g : IsIter(g, s, n + 1)
<1> DEFINE g == [t \in SUBSET (1..(n + 1)) |->
                   IF n + 1 \in t THEN Step(f[t \ {n + 1}], s[n + 1]) ELSE f[t]]
<1>1. ASSUME NEW t \in SUBSET (1..(n + 1))
      PROVE  g[t] = IF t = {} THEN Base ELSE Step(g[t \ {Max(t)}], s[Max(t)])
  <2>1. CASE n + 1 \in t
    <3>1. Max(t) = n + 1
      BY <2>1, MaxWithLast
    <3>2. t \ {n + 1} \in SUBSET (1..(n + 1)) /\ n + 1 \notin t \ {n + 1} /\ t # {}
      BY <2>1
    <3>3. g[t \ {n + 1}] = f[t \ {n + 1}]
      BY <3>2
    <3> QED
      BY <2>1, <3>1, <3>2, <3>3
  <2>2. CASE n + 1 \notin t
    <3>0. t \in SUBSET (1..n)
      BY <2>2
    <3>1. t \in SUBSET (1..n) /\ t \ {Max(t)} \in SUBSET (1..n) /\ n + 1 \notin t \ {Max(t)}
      BY <2>2, <3>0, Zenon
    <3>2. f[t] = IF t = {} THEN Base ELSE Step(f[t \ {Max(t)}], s[Max(t)])
      BY <3>1 DEF IsIter
    <3>3. g[t] = f[t] /\ g[t \ {Max(t)}] = f[t \ {Max(t)}]
      BY <2>2, <3>1
    <3> QED
      BY <3>2, <3>3
  <2> QED
    BY <2>1, <2>2
<1>2. IsIter(g, s, n + 1)
  BY <1>1, Zenon DEF IsIter
<1> QED
  BY <1>2

LEMMA IterExists ==
    ASSUME NEW s, NEW k \in Nat
    PROVE  \E f : IsIter(f, s, k)
<1> DEFINE S == {n \in Nat : \E f : IsIter(f, s, n)}
<1>1. 0 \in S
  <2> DEFINE f == [t \in SUBSET (1..0) |-> Base]
  <2>1. \A t \in SUBSET (1..0) : t = {}
    OBVIOUS
  <2>2. IsIter(f, s, 0)
    BY <2>1 DEF IsIter
  <2> QED
    BY <2>2
<1>2. \A n \in Nat : n \in S => n + 1 \in S
  BY IterExtends
<1> HIDE DEF S
<1>3. k \in S
  BY <1>1, <1>2, NatSteps
<1> QED
  BY <1>3 DEF S

\* On the first positions it does not depend on what comes behind them.
LEMMA IterIsUnique ==
    ASSUME NEW s, NEW u, NEW n \in Nat, NEW m \in Nat, NEW f, NEW g,
           IsIter(f, s, n), IsIter(g, u, m), NEW k \in Nat, k <= n, k <= m,
           \A i \in 1..k : s[i] = u[i]
    PROVE  f[1..k] = g[1..k]
<1> DEFINE S == {j \in Nat : j <= k => f[1..j] = g[1..j]}
<1>1. 0 \in S
  BY DEF IsIter
<1>2. ASSUME NEW j \in Nat, j \in S PROVE j + 1 \in S
  <2> SUFFICES ASSUME j + 1 <= k PROVE f[1..(j + 1)] = g[1..(j + 1)]
    OBVIOUS
  <2> DEFINE t == 1..(j + 1)
  <2>1. t \in SUBSET (1..(j + 1)) /\ j + 1 \in t /\ t # {} /\ t \ {j + 1} = 1..j
    OBVIOUS
  <2>2. Max(t) = j + 1
    BY <2>1, MaxWithLast
  <2>3. t \in SUBSET (1..n) /\ t \in SUBSET (1..m)
    OBVIOUS
  <2>4. f[t] = Step(f[t \ {Max(t)}], s[Max(t)])
    BY <2>1, <2>3 DEF IsIter
  <2>5. g[t] = Step(g[t \ {Max(t)}], u[Max(t)])
    BY <2>1, <2>3 DEF IsIter
  <2>6. f[1..j] = g[1..j] /\ s[j + 1] = u[j + 1]
    BY <1>2
  <2> HIDE DEF t
  <2>7. f[t] = g[t]
    BY <2>1, <2>2, <2>4, <2>5, <2>6
  <2> QED
    BY <2>7 DEF t
<1> HIDE DEF S
<1>3. k \in S
  BY <1>1, <1>2, NatSteps
<1> QED
  BY <1>3 DEF S

Iter(s) == CHOOSE f : IsIter(f, s, Len(s))

LEMMA FoldIsIter ==
    ASSUME NEW s, DOMAIN s = 1..Len(s), Len(s) \in Nat
    PROVE  Folded(s) = Iter(s)[1..Len(s)] /\ IsIter(Iter(s), s, Len(s))
<1>1. IsIter(Iter(s), s, Len(s))
  BY IterExists DEF Iter
<1>2. Folded(s) = Iter(s)[1..Len(s)]
  BY DEF Folded, FoldLeft, MapThenFoldSet, Iter, IsIter
<1> QED
  BY <1>1, <1>2

\* Nothing has been folded yet.
LEMMA FoldEmpty == Folded(<< >>) = Base
<1> DEFINE s == << >>
<1>1. DOMAIN s = 1..Len(s) /\ Len(s) \in Nat /\ 1..Len(s) = {}
  OBVIOUS
<1> HIDE DEF s
<1>2. Folded(s) = Iter(s)[1..Len(s)] /\ IsIter(Iter(s), s, Len(s))
  BY <1>1, FoldIsIter
<1>3. Iter(s)[{}] = Base
  BY <1>2 DEF IsIter
<1> QED
  BY <1>1, <1>2, <1>3 DEF s

\* One more element, one more step.
LEMMA FoldAppend ==
    ASSUME NEW S, NEW s \in Seq(S), NEW e \in S
    PROVE  Folded(Append(s, e)) = Step(Folded(s), e)
<1> DEFINE n == Len(s)
           u == Append(s, e)
<1>1. /\ n \in Nat /\ DOMAIN s = 1..n /\ Len(u) = n + 1 /\ DOMAIN u = 1..(n + 1)
      /\ u[n + 1] = e /\ \A i \in 1..n : u[i] = s[i]
  OBVIOUS
<1> HIDE DEF u
<1>2. /\ Folded(s) = Iter(s)[1..n] /\ IsIter(Iter(s), s, n)
      /\ Folded(u) = Iter(u)[1..Len(u)] /\ IsIter(Iter(u), u, Len(u))
  BY <1>1, FoldIsIter
<1> HIDE DEF n
<1>3. Iter(u)[1..n] = Iter(s)[1..n]
  BY <1>1, <1>2, IterIsUnique
<1>5. Iter(u)[1..(n + 1)] = Step(Iter(u)[1..n], u[n + 1])
  <2> DEFINE t == 1..(n + 1)
  <2>1. t \in SUBSET (1..(n + 1)) /\ n + 1 \in t /\ t # {} /\ t \ {n + 1} = 1..n
    BY <1>1
  <2> HIDE DEF t
  <2>3. Max(t) = n + 1
    BY <1>1, <2>1, MaxWithLast
  <2>2. Iter(u)[t] = Step(Iter(u)[t \ {Max(t)}], u[Max(t)])
    BY <1>1, <1>2, <2>1 DEF IsIter
  <2> QED
    BY <2>1, <2>2, <2>3 DEF t
<1> QED
  BY <1>1, <1>2, <1>3, <1>5 DEF u

-----------------------------------------------------------------------------
\* What holds of the empty sequence and is kept by Append holds of them all.
LEMMA SequencesByAppend ==
    ASSUME NEW S, P(<< >>), \A s \in Seq(S), e \in S : P(s) => P(Append(s, e))
    PROVE  \A s \in Seq(S) : P(s)
<1> DEFINE T == {n \in Nat : \A s \in Seq(S) : Len(s) = n => P(s)}
<1>1. 0 \in T
  OBVIOUS
<1>2. ASSUME NEW n \in Nat, n \in T PROVE n + 1 \in T
  <2> SUFFICES ASSUME NEW s \in Seq(S), Len(s) = n + 1 PROVE P(s)
    OBVIOUS
  <2> DEFINE r == SubSeq(s, 1, n)
  <2>1. r \in Seq(S) /\ Len(r) = n /\ s[n + 1] \in S
    OBVIOUS
  <2>2. s = Append(r, s[n + 1])
    OBVIOUS
  <2>3. P(r)
    BY <1>2, <2>1
  <2> QED
    BY <2>1, <2>2, <2>3
<1> HIDE DEF T
<1>3. \A n \in Nat : n \in T
  BY <1>1, <1>2, NatSteps
<1> QED
  BY <1>3 DEF T
============================================================================
