-------------------------- MODULE LedgerStoreProofs -------------------------
(***************************************************************************)
(* The case ledger, for any sets of hypotheses, Experiments and sessions and *)
(* any bounds.  First CaseLedger: what the reducer, the validators and the *)
(* assembler make of a case's ledger.  Then LedgerStore: comparing versions is *)
(* enough, deciding on a copy implements CaseLedger.  There, what the reducer *)
(* and the assembler compute is never looked into: both are functions of the *)
(* ledger they are given, so it is enough that a copy with the ledger's    *)
(* version is the ledger.                                                  *)
(*                                                                         *)
(* Then LedgerTables, the tables below: whatever is repeated, lost or damaged, *)
(* what the store answers is so.  And last Subagents, the runs that are given *)
(* Experiments of the ledger: how far the cancelling of a turn reaches.    *)
(***************************************************************************)
EXTENDS LedgerStore, LedgerTables, Subagents, SequenceTheorems, WellFoundedInduction,
        TLAPS

-----------------------------------------------------------------------------
(***************************************************************************)
(* Folds.  FoldLeft is a function of the subsets of the sequence's domain, *)
(* the greatest index first; it is known once that function exists.        *)
(***************************************************************************)
\* A set of naturals has a least element.
LEMMA LeastNat ==
  ASSUME NEW T \in SUBSET Nat, T # {}
  PROVE  \E n \in T : \A m \in T : n <= m
<1> DEFINE R == {ss \in Nat \X Nat : ss[1] < ss[2]}
<1>1. IsWellFoundedOn(R, Nat)
  BY NatLessThanWellFounded DEF OpToRel
<1> HIDE DEF R
<1>2. PICK x \in T : \A y \in T : ~(<<y, x>> \in R)
  BY <1>1, WFMin
<1>3. \A y \in T : ~(y < x)
  BY <1>2 DEF R
<1> QED
  BY <1>3

\* What holds of 0 and passes from each number to the next holds up to n.
LEMMA UpTo ==
  ASSUME NEW n \in Nat, NEW T, 0 \in T, \A k \in 0..(n - 1) : k \in T => k + 1 \in T
  PROVE  \A k \in 0..n : k \in T
<1> DEFINE F == {k \in 0..n : k \notin T}
<1> SUFFICES ASSUME F # {} PROVE FALSE
  OBVIOUS
<1>1. F \in SUBSET Nat
  OBVIOUS
<1>2. PICK k \in F : \A m \in F : k <= m
  BY <1>1, LeastNat
<1>3. k # 0 /\ k - 1 \in 0..(n - 1)
  OBVIOUS
<1>4. k - 1 \in T
  BY <1>2, <1>3
<1> QED
  BY <1>3, <1>4

\* The greatest index.
LEMMA MaxIs ==
  ASSUME NEW k \in Nat, NEW s \in SUBSET (1..k), k \in s
  PROVE  Max(s) = k
<1>1. \A y \in s : k >= y
  OBVIOUS
<1>2. \A x \in s : (\A y \in s : x >= y) => x = k
  OBVIOUS
<1> QED
  BY <1>1, <1>2 DEF Max

\* Every set of them has one.
LEMMA MaxIn ==
  ASSUME NEW n \in Nat, NEW s \in SUBSET (1..n), s # {}
  PROVE  Max(s) \in s
<1> DEFINE T == {n - x : x \in s}
<1>1. T \in SUBSET Nat /\ T # {}
  <2>1. \A x \in s : x \in Nat /\ n - x \in Nat
    OBVIOUS
  <2>2. PICK x \in s : TRUE
    OBVIOUS
  <2>3. n - x \in T
    OBVIOUS
  <2> QED
    BY <2>1, <2>3
<1>2. PICK d \in T : \A y \in T : d <= y
  BY <1>1, LeastNat
<1>3. PICK x \in s : d = n - x
  OBVIOUS
<1>4. ASSUME NEW y \in s
      PROVE  x >= y
  <2>1. n - y \in T
    OBVIOUS
  <2>2. x \in 1..n /\ y \in 1..n
    OBVIOUS
  <2> QED
    BY <1>2, <1>3, <2>1, <2>2
<1>5. \E m \in s : \A y \in s : m >= y
  BY <1>4
<1> QED
  BY <1>5 DEF Max

\* f folds G over the indices 1..n.
IsFold(f, n, S, base, G) ==
  /\ f \in [SUBSET (1..n) -> S]
  /\ \A s \in SUBSET (1..n) :
       f[s] = IF s = {} THEN base ELSE G[<<Max(s), f[s \ {Max(s)}]>>]

\* There is such a function.
LEMMA FoldExists ==
  ASSUME NEW n \in Nat, NEW S, NEW base \in S, NEW G \in [(1..n) \X S -> S]
  PROVE  \E f : IsFold(f, n, S, base, G)
<1> DEFINE P(k) == \E f \in [SUBSET (1..k) -> S] :
                     \A s \in SUBSET (1..k) :
                       f[s] = IF s = {} THEN base ELSE G[<<Max(s), f[s \ {Max(s)}]>>]
           T == {k \in 0..n : P(k)}
<1>1. 0 \in T
  <2> DEFINE f == [s \in SUBSET (1..0) |-> base]
  <2>1. /\ f \in [SUBSET (1..0) -> S]
        /\ \A s \in SUBSET (1..0) : s = {} /\ f[s] = base
    OBVIOUS
  <2> HIDE DEF f
  <2>2. \A s \in SUBSET (1..0) :
          f[s] = IF s = {} THEN base ELSE G[<<Max(s), f[s \ {Max(s)}]>>]
    BY <2>1
  <2>3. P(0)
    <3>1. f \in [SUBSET (1..0) -> S]
      BY <2>1
    <3> QED
      BY <2>2, <3>1
  <2> HIDE DEF P
  <2> QED
    BY <2>3
<1>2. ASSUME NEW k \in 0..(n - 1),
             P(k)
      PROVE  P(k + 1)
  <2>1. PICK f \in [SUBSET (1..k) -> S] :
               \A s \in SUBSET (1..k) :
                 f[s] = IF s = {} THEN base ELSE G[<<Max(s), f[s \ {Max(s)}]>>]
    BY <1>2
  <2> DEFINE g == [s \in SUBSET (1..(k + 1)) |->
                     IF k + 1 \in s THEN G[<<k + 1, f[s \ {k + 1}]>>] ELSE f[s]]
  <2>2. \A s \in SUBSET (1..(k + 1)) :
          /\ k + 1 \in s => s \ {k + 1} \in SUBSET (1..k)
          /\ k + 1 \notin s => s \in SUBSET (1..k) /\ s \ {Max(s)} \in SUBSET (1..k)
    <3>1. k \in Nat
      OBVIOUS
    <3>2. ASSUME NEW s \in SUBSET (1..(k + 1)), k + 1 \notin s
          PROVE  \A x \in s : x \in 1..k
      BY <3>1, <3>2
    <3>3. ASSUME NEW s \in SUBSET (1..(k + 1))
          PROVE  \A x \in s \ {k + 1} : x \in 1..k
      BY <3>1, <3>3
    <3> QED
      BY <3>2, <3>3
  <2>3. g \in [SUBSET (1..(k + 1)) -> S]
    <3>1. ASSUME NEW s \in SUBSET (1..(k + 1))
          PROVE  (IF k + 1 \in s THEN G[<<k + 1, f[s \ {k + 1}]>>] ELSE f[s]) \in S
      BY <2>2, <3>1
    <3> QED
      BY <3>1
  <2>4. \A s \in SUBSET (1..k) : g[s] = f[s]
    OBVIOUS
  <2>5. ASSUME NEW s \in SUBSET (1..(k + 1))
        PROVE  g[s] = IF s = {} THEN base ELSE G[<<Max(s), g[s \ {Max(s)}]>>]
    <3>1. CASE k + 1 \in s
      <4>1. Max(s) = k + 1
        BY <3>1, MaxIs
      <4>2. g[s] = G[<<k + 1, f[s \ {k + 1}]>>]
        BY <3>1
      <4>3. g[s \ {k + 1}] = f[s \ {k + 1}]
        BY <2>2, <2>4, <3>1
      <4> QED
        BY <3>1, <4>1, <4>2, <4>3
    <3>2. CASE k + 1 \notin s
      <4>1. g[s] = f[s] /\ g[s \ {Max(s)}] = f[s \ {Max(s)}]
        BY <2>2, <2>4, <3>2
      <4> QED
        BY <2>1, <2>2, <3>2, <4>1
    <3> QED
      BY <3>1, <3>2
  <2> HIDE DEF g
  <2> QED
    BY <2>3, <2>5
<1> HIDE DEF P
<1>3. \A k \in 0..(n - 1) : k \in T => k + 1 \in T
  BY <1>2
<1> HIDE DEF T
<1>4. n \in T
  BY <1>1, <1>3, UpTo
<1> QED
  BY <1>4 DEF P, T, IsFold

-----------------------------------------------------------------------------
(***************************************************************************)
(* The reducer.                                                            *)
(***************************************************************************)
\* One event.
Step(acc, e) ==
  IF acc.ok /\ Valid(acc.led, acc.at, e)
  THEN [ok |-> TRUE, led |-> Applied(acc.led, e), at |-> acc.at + 1]
  ELSE [acc EXCEPT !.ok = FALSE]

\* The reducer is the fold of its steps.
LEMMA ReduceIsFold ==
  ASSUME NEW s, NEW v, NEW es
  PROVE  Reduce(s, v, es) =
           LET iter == CHOOSE f : f = [r \in SUBSET DOMAIN es |->
                         IF r = {} THEN [ok |-> TRUE, led |-> s, at |-> v]
                         ELSE Step(f[r \ {Max(r)}], es[Max(r)])]
           IN iter[DOMAIN es]
BY DEF Reduce, FoldLeft, MapThenFoldSet, Step

\* The events of a case.
Events ==
  UNION {[type: {"Proposed"}, hyp: Hyps, high: BOOLEAN, validator: Validators],
         [type: {"Planned"}, exp: Exps, hyp: Hyps],
         [type: {"Moved"}, exp: Exps, revision: Nat,
          to: ExpStatuses \ {"absent", "Planned"}, attempt: Nat, evs: SUBSET Nat],
         [type: {"Evidence"}, is: Evidence],
         [type: {"Linked"}, link: Links],
         [type: {"LinkRejected", "ResolutionRejected", "Contradiction"},
          hyp: Hyps, revision: Nat],
         [type: {"Requested"}, hyp: Hyps, revision: Nat, links: SUBSET Links],
         [type: {"Resolved"}, revision: Nat, is: Resolutions],
         [type: {"Deliberated"}, version: Nat]}

Accs == [ok: BOOLEAN, led: Snapshots, at: Nat]

\* A snapshot with one part replaced.
LEMMA SnapshotParts ==
  ASSUME NEW s \in Snapshots
  PROVE  /\ s.hyps \in [Hyps -> HypRecords] /\ s.exps \in [Exps -> ExpRecords]
         /\ s.evs \in Seq(Evidence) /\ s.links \in SUBSET Links
         /\ s.conflicts \in SUBSET Hyps /\ s.resolutions \in SUBSET Resolutions
         /\ \A x \in [Hyps -> HypRecords] : [s EXCEPT !.hyps = x] \in Snapshots
         /\ \A x \in [Exps -> ExpRecords] : [s EXCEPT !.exps = x] \in Snapshots
         /\ \A x \in Seq(Evidence) : [s EXCEPT !.evs = x] \in Snapshots
         /\ \A x \in SUBSET Links : [s EXCEPT !.links = x] \in Snapshots
         /\ \A x \in SUBSET Hyps : [s EXCEPT !.conflicts = x] \in Snapshots
<1> DEFINE A == [Hyps -> HypRecords]
           B == [Exps -> ExpRecords]
           C == Seq(Evidence)
           D == SUBSET Links
           E == SUBSET Hyps
           F == SUBSET Resolutions
<1>1. Snapshots = [hyps: A, exps: B, evs: C, links: D, conflicts: E, resolutions: F]
  BY DEF Snapshots
<1> HIDE DEF A, B, C, D, E, F
<1>2. /\ s.hyps \in A /\ s.exps \in B /\ s.evs \in C /\ s.links \in D
      /\ s.conflicts \in E /\ s.resolutions \in F
      /\ \A x \in A : [s EXCEPT !.hyps = x] \in Snapshots
      /\ \A x \in B : [s EXCEPT !.exps = x] \in Snapshots
      /\ \A x \in C : [s EXCEPT !.evs = x] \in Snapshots
      /\ \A x \in D : [s EXCEPT !.links = x] \in Snapshots
      /\ \A x \in E : [s EXCEPT !.conflicts = x] \in Snapshots
  BY <1>1
<1> QED
  BY <1>2 DEF A, B, C, D, E, F

\* A proposal opens its hypothesis.
LEMMA AppliedProposed ==
  ASSUME NEW s \in Snapshots, NEW h \in Hyps, NEW b \in BOOLEAN, NEW val \in Validators
  PROVE  LET t == Applied(s, [type |-> "Proposed", hyp |-> h, high |-> b,
                              validator |-> val])
         IN /\ t \in Snapshots
            /\ t.hyps[h] = [status |-> "Open", revision |-> 1, high |-> b,
                            validator |-> val]
            /\ \A g \in Hyps \ {h} : t.hyps[g] = s.hyps[g]
            /\ t.exps = s.exps /\ t.evs = s.evs /\ t.links = s.links
            /\ t.conflicts = s.conflicts /\ t.resolutions = s.resolutions
<1> DEFINE e == [type |-> "Proposed", hyp |-> h, high |-> b, validator |-> val]
           r == [status |-> "Open", revision |-> 1, high |-> b, validator |-> val]
           H == [s.hyps EXCEPT ![h] = r]
<1>1. Applied(s, e) = [s EXCEPT !.hyps = H]
  BY DEF Applied
<1>2. r \in HypRecords
  BY DEF HypRecords, HypStatuses
<1>3. s.hyps \in [Hyps -> HypRecords]
  BY SnapshotParts
<1> HIDE DEF r
<1>4. /\ H \in [Hyps -> HypRecords] /\ H[h] = r
      /\ \A g \in Hyps \ {h} : H[g] = s.hyps[g]
  BY <1>2, <1>3
<1> HIDE DEF H, e
<1>5. Applied(s, e) \in Snapshots
  BY <1>1, <1>4, SnapshotParts
<1>6. /\ Applied(s, e).hyps = H
      /\ Applied(s, e).exps = s.exps /\ Applied(s, e).evs = s.evs
      /\ Applied(s, e).links = s.links
      /\ Applied(s, e).conflicts = s.conflicts
      /\ Applied(s, e).resolutions = s.resolutions
  BY <1>1 DEF Snapshots
<1> QED
  BY <1>4, <1>5, <1>6 DEF e, r

\* A plan is a new Experiment on its hypothesis.
LEMMA AppliedPlanned ==
  ASSUME NEW s \in Snapshots, NEW x \in Exps, NEW h \in Hyps
  PROVE  LET t == Applied(s, [type |-> "Planned", exp |-> x, hyp |-> h])
         IN /\ t \in Snapshots
            /\ t.exps[x].status = "Planned" /\ t.exps[x].hyp = h
            /\ t.exps[x].evs = {}
            /\ \A y \in Exps \ {x} : t.exps[y] = s.exps[y]
            /\ t.hyps = s.hyps /\ t.evs = s.evs /\ t.links = s.links
            /\ t.conflicts = s.conflicts /\ t.resolutions = s.resolutions
<1> DEFINE e == [type |-> "Planned", exp |-> x, hyp |-> h]
           r == [status |-> "Planned", revision |-> 1, attempt |-> 0, hyp |-> h,
                 evs |-> {}, task |-> FALSE]
           X == [s.exps EXCEPT ![x] = r]
<1>1. Applied(s, e) = [s EXCEPT !.exps = X]
  BY DEF Applied
<1>2. r \in ExpRecords /\ r.status = "Planned" /\ r.hyp = h /\ r.evs = {}
  BY DEF ExpRecords, ExpStatuses
<1>3. s.exps \in [Exps -> ExpRecords]
  BY SnapshotParts
<1> HIDE DEF r
<1>4. /\ X \in [Exps -> ExpRecords] /\ X[x] = r
      /\ \A y \in Exps \ {x} : X[y] = s.exps[y]
  BY <1>2, <1>3
<1> HIDE DEF X, e
<1>5. Applied(s, e) \in Snapshots
  BY <1>1, <1>4, SnapshotParts
<1>6. /\ Applied(s, e).exps = X
      /\ Applied(s, e).hyps = s.hyps /\ Applied(s, e).evs = s.evs
      /\ Applied(s, e).links = s.links
      /\ Applied(s, e).conflicts = s.conflicts
      /\ Applied(s, e).resolutions = s.resolutions
  BY <1>1 DEF Snapshots
<1> QED
  BY <1>2, <1>4, <1>5, <1>6 DEF e

\* A move changes one Experiment, and never which hypothesis it is on.
LEMMA AppliedMoved ==
  ASSUME NEW s \in Snapshots, NEW e \in Events, e.type = "Moved"
  PROVE  LET t == Applied(s, e)
         IN /\ e.exp \in Exps
            /\ t \in Snapshots
            /\ t.exps[e.exp].status = e.to
            /\ t.exps[e.exp].hyp = s.exps[e.exp].hyp
            /\ t.exps[e.exp].evs = IF e.to = "Observed" THEN e.evs
                                   ELSE s.exps[e.exp].evs
            /\ s.exps[e.exp].task => t.exps[e.exp].task
            /\ \A y \in Exps \ {e.exp} : t.exps[y] = s.exps[y]
            /\ t.hyps = s.hyps /\ t.evs = s.evs /\ t.links = s.links
            /\ t.conflicts = s.conflicts /\ t.resolutions = s.resolutions
<1> DEFINE a == IF e.attempt = 0 THEN s.exps[e.exp].attempt ELSE e.attempt
           n == e.revision + 1
           o == IF e.to = "Observed" THEN e.evs ELSE s.exps[e.exp].evs
           b == s.exps[e.exp].task \/ e.to = "Queued"
           r == [status |-> e.to, revision |-> n, attempt |-> a,
                 hyp |-> s.exps[e.exp].hyp, evs |-> o, task |-> b]
           X == [s.exps EXCEPT ![e.exp] = r]
<1>1. Applied(s, e) = [s EXCEPT !.exps = X]
  BY DEF Applied
<1>2. /\ e.exp \in Exps /\ e.revision \in Nat /\ e.to \in ExpStatuses
      /\ e.attempt \in Nat /\ e.evs \in SUBSET Nat
  BY DEF Events
<1>3. /\ s.exps \in [Exps -> ExpRecords] /\ s.exps[e.exp].attempt \in Nat
      /\ s.exps[e.exp].hyp \in Hyps /\ s.exps[e.exp].evs \in SUBSET Nat
  BY <1>2, SnapshotParts DEF ExpRecords
<1>4. a \in Nat /\ n \in Nat /\ o \in SUBSET Nat
  BY <1>2, <1>3
<1>5. b \in BOOLEAN
  OBVIOUS
<1>5a. s.exps[e.exp].task => b = TRUE
  OBVIOUS
<1> HIDE DEF a, n, o, b
<1>6. /\ r \in ExpRecords /\ r.status = e.to /\ r.hyp = s.exps[e.exp].hyp
      /\ r.evs = o /\ r.task = b
  BY <1>2, <1>3, <1>4, <1>5 DEF ExpRecords
<1> HIDE DEF r
<1>7. /\ X \in [Exps -> ExpRecords] /\ X[e.exp] = r
      /\ \A y \in Exps \ {e.exp} : X[y] = s.exps[y]
  BY <1>2, <1>3, <1>6
<1> HIDE DEF X
<1>8. Applied(s, e) \in Snapshots
  BY <1>1, <1>7, SnapshotParts
<1>9. /\ Applied(s, e).exps = X
      /\ Applied(s, e).hyps = s.hyps /\ Applied(s, e).evs = s.evs
      /\ Applied(s, e).links = s.links
      /\ Applied(s, e).conflicts = s.conflicts
      /\ Applied(s, e).resolutions = s.resolutions
  BY <1>1 DEF Snapshots
<1> QED
  BY <1>2, <1>5a, <1>6, <1>7, <1>8, <1>9 DEF o

\* A receipt is one more piece of evidence.
LEMMA AppliedEvidence ==
  ASSUME NEW s \in Snapshots, NEW x \in Evidence
  PROVE  LET t == Applied(s, [type |-> "Evidence", is |-> x])
         IN /\ t \in Snapshots
            /\ t.evs = Append(s.evs, x)
            /\ t.hyps = s.hyps /\ t.exps = s.exps /\ t.links = s.links
            /\ t.conflicts = s.conflicts /\ t.resolutions = s.resolutions
<1> DEFINE e == [type |-> "Evidence", is |-> x]
           V == Append(s.evs, x)
<1>1. Applied(s, e) = [s EXCEPT !.evs = V]
  BY DEF Applied
<1>2. V \in Seq(Evidence)
  BY SnapshotParts
<1> HIDE DEF V, e
<1>3. Applied(s, e) \in Snapshots
  BY <1>1, <1>2, SnapshotParts
<1>4. /\ Applied(s, e).evs = V
      /\ Applied(s, e).hyps = s.hyps /\ Applied(s, e).exps = s.exps
      /\ Applied(s, e).links = s.links
      /\ Applied(s, e).conflicts = s.conflicts
      /\ Applied(s, e).resolutions = s.resolutions
  BY <1>1 DEF Snapshots
<1> QED
  BY <1>3, <1>4 DEF V, e

\* An accepted link is one more link.
LEMMA AppliedLinked ==
  ASSUME NEW s \in Snapshots, NEW l \in Links
  PROVE  LET t == Applied(s, [type |-> "Linked", link |-> l])
         IN /\ t \in Snapshots
            /\ t.links = s.links \cup {l}
            /\ t.hyps = s.hyps /\ t.exps = s.exps /\ t.evs = s.evs
            /\ t.conflicts = s.conflicts /\ t.resolutions = s.resolutions
<1> DEFINE e == [type |-> "Linked", link |-> l]
           K == s.links \cup {l}
<1>1. Applied(s, e) = [s EXCEPT !.links = K]
  BY DEF Applied
<1>2. K \in SUBSET Links
  BY SnapshotParts
<1> HIDE DEF K, e
<1>3. Applied(s, e) \in Snapshots
  BY <1>1, <1>2, SnapshotParts
<1>4. /\ Applied(s, e).links = K
      /\ Applied(s, e).hyps = s.hyps /\ Applied(s, e).exps = s.exps
      /\ Applied(s, e).evs = s.evs
      /\ Applied(s, e).conflicts = s.conflicts
      /\ Applied(s, e).resolutions = s.resolutions
  BY <1>1 DEF Snapshots
<1> QED
  BY <1>3, <1>4 DEF K, e

\* A contradiction marks its hypothesis.
LEMMA AppliedContradiction ==
  ASSUME NEW s \in Snapshots, NEW h \in Hyps, NEW n
  PROVE  LET t == Applied(s, [type |-> "Contradiction", hyp |-> h, revision |-> n])
         IN /\ t \in Snapshots
            /\ t.hyps = s.hyps /\ t.exps = s.exps /\ t.evs = s.evs
            /\ t.links = s.links /\ t.resolutions = s.resolutions
<1> DEFINE e == [type |-> "Contradiction", hyp |-> h, revision |-> n]
           K == s.conflicts \cup {h}
<1>1. Applied(s, e) = [s EXCEPT !.conflicts = K]
  BY DEF Applied
<1>2. K \in SUBSET Hyps
  BY SnapshotParts
<1> HIDE DEF K, e
<1>3. Applied(s, e) \in Snapshots
  BY <1>1, <1>2, SnapshotParts
<1>4. /\ Applied(s, e).hyps = s.hyps /\ Applied(s, e).exps = s.exps
      /\ Applied(s, e).evs = s.evs /\ Applied(s, e).links = s.links
      /\ Applied(s, e).resolutions = s.resolutions
  BY <1>1 DEF Snapshots
<1> QED
  BY <1>3, <1>4 DEF e

\* A resolution closes its hypothesis and raises its revision.
LEMMA AppliedResolved ==
  ASSUME NEW s \in Snapshots, NEW n \in Nat, NEW r \in Resolutions
  PROVE  LET t == Applied(s, [type |-> "Resolved", revision |-> n, is |-> r])
         IN /\ t \in Snapshots
            /\ r.hyp \in Hyps
            /\ t.hyps[r.hyp].status = r.status
            /\ t.hyps[r.hyp].revision = n + 1
            /\ t.hyps[r.hyp].high = s.hyps[r.hyp].high
            /\ t.hyps[r.hyp].validator = s.hyps[r.hyp].validator
            /\ \A g \in Hyps \ {r.hyp} : t.hyps[g] = s.hyps[g]
            /\ t.exps = s.exps /\ t.evs = s.evs /\ t.links = s.links
            /\ t.conflicts = s.conflicts
            /\ t.resolutions = s.resolutions \cup {r}
<1> DEFINE e == [type |-> "Resolved", revision |-> n, is |-> r]
           h == r.hyp
           k == n + 1
           q == [s.hyps[h] EXCEPT !.status = r.status, !.revision = k]
           H == [s.hyps EXCEPT ![h] = q]
           R == s.resolutions \cup {r}
<1>1. h \in Hyps /\ k \in Nat /\ r.status \in HypStatuses
  BY DEF Resolutions, Resolved, HypStatuses
<1>2. s.hyps \in [Hyps -> HypRecords] /\ s.hyps[h] \in HypRecords
  BY <1>1, SnapshotParts
<1>3. Applied(s, e) = [s EXCEPT !.hyps = H, !.resolutions = R]
  <2>1. Applied(s, e) = [s EXCEPT !.hyps[h].status = r.status,
                                  !.hyps[h].revision = n + 1,
                                  !.resolutions = s.resolutions \cup {r}]
    BY DEF Applied
  <2>2. [s.hyps EXCEPT ![h].status = r.status, ![h].revision = n + 1] = H
    BY <1>1, <1>2 DEF HypRecords
  <2> QED
    BY <2>1, <2>2 DEF Snapshots
<1>4. R \in SUBSET Resolutions
  BY SnapshotParts
<1> HIDE DEF k
<1>5. /\ q \in HypRecords /\ q.status = r.status /\ q.revision = k
      /\ q.high = s.hyps[h].high /\ q.validator = s.hyps[h].validator
  BY <1>1, <1>2 DEF HypRecords
<1> HIDE DEF q
<1>6. /\ H \in [Hyps -> HypRecords] /\ H[h] = q
      /\ \A g \in Hyps \ {h} : H[g] = s.hyps[g]
  BY <1>1, <1>2, <1>5
<1> HIDE DEF H, R, e
<1>7. /\ Applied(s, e).hyps = H /\ Applied(s, e).resolutions = R
      /\ Applied(s, e).exps = s.exps /\ Applied(s, e).evs = s.evs
      /\ Applied(s, e).links = s.links
      /\ Applied(s, e).conflicts = s.conflicts
  BY <1>3 DEF Snapshots
<1>8. Applied(s, e) \in Snapshots
  BY <1>3, <1>4, <1>6 DEF Snapshots
<1> QED
  BY <1>1, <1>5, <1>6, <1>7, <1>8 DEF h, k, R, e

\* The others are only recorded.
LEMMA AppliedNothing ==
  ASSUME NEW s, NEW e,
         e.type \in {"LinkRejected", "ResolutionRejected", "Requested", "Deliberated"}
  PROVE  Applied(s, e) = s
BY DEF Applied

\* Every event makes a snapshot of a snapshot.
LEMMA AppliedType ==
  ASSUME NEW s \in Snapshots, NEW e \in Events
  PROVE  Applied(s, e) \in Snapshots
<1>1. CASE e.type = "Proposed"
  <2>1. /\ e = [type |-> "Proposed", hyp |-> e.hyp, high |-> e.high,
                validator |-> e.validator]
        /\ e.hyp \in Hyps /\ e.high \in BOOLEAN /\ e.validator \in Validators
    BY <1>1 DEF Events
  <2> QED
    BY <2>1, AppliedProposed
<1>2. CASE e.type = "Planned"
  <2>1. /\ e = [type |-> "Planned", exp |-> e.exp, hyp |-> e.hyp]
        /\ e.hyp \in Hyps /\ e.exp \in Exps
    BY <1>2 DEF Events
  <2> QED
    BY <2>1, AppliedPlanned
<1>3. CASE e.type = "Moved"
  BY <1>3, AppliedMoved
<1>4. CASE e.type = "Evidence"
  <2>1. e = [type |-> "Evidence", is |-> e.is] /\ e.is \in Evidence
    BY <1>4 DEF Events
  <2> QED
    BY <2>1, AppliedEvidence
<1>5. CASE e.type = "Linked"
  <2>1. e = [type |-> "Linked", link |-> e.link] /\ e.link \in Links
    BY <1>5 DEF Events
  <2> QED
    BY <2>1, AppliedLinked
<1>6. CASE e.type = "Contradiction"
  <2>1. /\ e = [type |-> "Contradiction", hyp |-> e.hyp, revision |-> e.revision]
        /\ e.hyp \in Hyps
    BY <1>6 DEF Events
  <2> QED
    BY <2>1, AppliedContradiction
<1>7. CASE e.type = "Resolved"
  <2>1. /\ e = [type |-> "Resolved", revision |-> e.revision, is |-> e.is]
        /\ e.revision \in Nat /\ e.is \in Resolutions
    BY <1>7 DEF Events
  <2> QED
    BY <2>1, AppliedResolved
<1>8. CASE e.type \in {"LinkRejected", "ResolutionRejected", "Requested", "Deliberated"}
  BY <1>8, AppliedNothing
<1>9. e.type \in {"Proposed", "Planned", "Moved", "Evidence", "Linked", "Contradiction",
                  "Resolved", "LinkRejected", "ResolutionRejected", "Requested",
                  "Deliberated"}
  BY DEF Events
<1> QED
  BY <1>1, <1>2, <1>3, <1>4, <1>5, <1>6, <1>7, <1>8, <1>9

\* ... and every step an accumulator of an accumulator.
LEMMA StepType ==
  ASSUME NEW a \in Accs, NEW e \in Events
  PROVE  Step(a, e) \in Accs
<1>1. a.ok \in BOOLEAN /\ a.led \in Snapshots /\ a.at \in Nat
  BY DEF Accs
<1>2. Applied(a.led, e) \in Snapshots
  BY <1>1, AppliedType
<1>3. a.at + 1 \in Nat
  BY <1>1
<1>4. [ok |-> TRUE, led |-> Applied(a.led, e), at |-> a.at + 1] \in Accs
  BY <1>2, <1>3 DEF Accs
<1>5. [a EXCEPT !.ok = FALSE] \in Accs
  BY DEF Accs
<1> QED
  BY <1>4, <1>5 DEF Step

Fresh(s, v) == [ok |-> TRUE, led |-> s, at |-> v]

IsChain(g, n, es) == \A k \in 1..n : g[k] = Step(g[k - 1], es[k])

\* The reducer goes from event to event.
LEMMA ReduceChain ==
  ASSUME NEW s \in Snapshots, NEW v \in Nat, NEW es \in Seq(Events)
  PROVE  \E g \in [0..Len(es) -> Accs] :
           /\ g[0] = Fresh(s, v)
           /\ \A k \in 1..Len(es) : g[k] = Step(g[k - 1], es[k])
           /\ Reduce(s, v, es) = g[Len(es)]
<1> DEFINE n == Len(es)
           G == [p \in (1..n) \X Accs |-> Step(p[2], es[p[1]])]
<1>1. n \in Nat /\ DOMAIN es = 1..n /\ \A k \in 1..n : es[k] \in Events
  OBVIOUS
<1> HIDE DEF n
<1>2. Fresh(s, v) \in Accs
  BY DEF Fresh, Accs
<1>3. G \in [(1..n) \X Accs -> Accs]
  <2>1. ASSUME NEW p \in (1..n) \X Accs
        PROVE  Step(p[2], es[p[1]]) \in Accs
    BY <1>1, <2>1, StepType
  <2> QED
    BY <2>1
<1>4. \A k \in 1..n, a \in Accs : G[<<k, a>>] = Step(a, es[k])
  OBVIOUS
<1> HIDE DEF G
<1>5. PICK f \in [SUBSET (1..n) -> Accs] :
             \A r \in SUBSET (1..n) :
               f[r] = IF r = {} THEN Fresh(s, v) ELSE G[<<Max(r), f[r \ {Max(r)}]>>]
  <2>1. PICK f : IsFold(f, n, Accs, Fresh(s, v), G)
    BY <1>1, <1>2, <1>3, FoldExists
  <2> QED
    BY <2>1 DEF IsFold
<1>6. \A r \in SUBSET (1..n) : r # {} => Max(r) \in 1..n
  <2>1. ASSUME NEW r \in SUBSET (1..n), r # {}
        PROVE  Max(r) \in 1..n
    <3>1. Max(r) \in r
      BY <1>1, <2>1, MaxIn
    <3> QED
      BY <3>1
  <2> QED
    BY <2>1
<1> DEFINE Solves(i) == i = [r \in SUBSET (1..n) |->
                               IF r = {} THEN Fresh(s, v)
                               ELSE Step(i[r \ {Max(r)}], es[Max(r)])]
<1>7. Solves(f)
  <2>1. ASSUME NEW r \in SUBSET (1..n)
        PROVE  f[r] = IF r = {} THEN Fresh(s, v) ELSE Step(f[r \ {Max(r)}], es[Max(r)])
    <3>1. CASE r = {}
      BY <1>5, <3>1
    <3>2. CASE r # {}
      <4>1. f[r] = G[<<Max(r), f[r \ {Max(r)}]>>]
        BY <1>5, <3>2
      <4>2. Max(r) \in 1..n /\ f[r \ {Max(r)}] \in Accs
        BY <1>6, <3>2
      <4> QED
        BY <1>4, <3>2, <4>1, <4>2
    <3> QED
      BY <3>1, <3>2
  <2> QED
    BY <2>1
<1> DEFINE iter == CHOOSE i : Solves(i)
<1>8. Solves(iter)
  BY <1>7
<1>9. Reduce(s, v, es) = iter[1..n]
  BY <1>1, ReduceIsFold DEF Fresh
<1> HIDE DEF iter
<1>10. iter[{}] = Fresh(s, v)
  BY <1>8
<1>11. ASSUME NEW k \in 1..n
       PROVE  iter[1..k] = Step(iter[1..(k - 1)], es[k])
  <2>1. 1..k \in SUBSET (1..n) /\ k \in 1..k /\ k \in Nat
    <3>1. k \in Nat /\ k >= 1 /\ k <= n
      BY <1>1
    <3> QED
      BY <1>1, <3>1
  <2>2. Max(1..k) = k
    BY <2>1, MaxIs
  <2>3. (1..k) \ {k} = 1..(k - 1)
    BY <2>1
  <2>4. \A r \in SUBSET (1..n) : r # {} =>
          iter[r] = Step(iter[r \ {Max(r)}], es[Max(r)])
    BY <1>8
  <2>5. iter[1..k] = Step(iter[(1..k) \ {k}], es[k])
    BY <2>1, <2>2, <2>4
  <2> QED
    BY <2>3, <2>5
<1> DEFINE g == [k \in 0..n |-> iter[1..k]]
<1>12. g[0] = Fresh(s, v)
  <2>1. 1..0 = {}
    OBVIOUS
  <2> QED
    BY <1>1, <1>10, <2>1
<1>13. ASSUME NEW k \in 1..n
       PROVE  g[k] = Step(g[k - 1], es[k])
  BY <1>1, <1>11, <1>13
<1>14. g[n] = Reduce(s, v, es)
  BY <1>1, <1>9
<1> HIDE DEF g
<1>15. \A k \in 0..n : g[k] \in Accs
  <2> DEFINE T == {k \in 0..n : g[k] \in Accs}
  <2>1. 0 \in T
    BY <1>1, <1>2, <1>12
  <2>2. \A k \in 0..(n - 1) : k \in T => k + 1 \in T
    <3>1. ASSUME NEW k \in 0..(n - 1), g[k] \in Accs
          PROVE  g[k + 1] \in Accs
      <4>1. k + 1 \in 1..n /\ (k + 1) - 1 = k
        BY <1>1
      <4>2. g[k + 1] = Step(g[k], es[k + 1])
        BY <1>13, <4>1
      <4> QED
        BY <1>1, <3>1, <4>1, <4>2, StepType
    <3> QED
      BY <1>1, <3>1
  <2> HIDE DEF T
  <2>3. \A k \in 0..n : k \in T
    BY <1>1, <2>1, <2>2, UpTo
  <2> QED
    BY <2>3 DEF T
<1>16. g \in [0..n -> Accs]
  <2>1. g = [k \in 0..n |-> g[k]]
    BY DEF g
  <2> QED
    BY <1>15, <2>1
<1> QED
  BY <1>12, <1>13, <1>14, <1>16 DEF n

\* Two runs over the same events are the same as far as both go.
LEMMA SameChain ==
  ASSUME NEW n \in Nat, NEW es, NEW g, NEW h, g[0] = h[0],
         IsChain(g, n, es), IsChain(h, n, es)
  PROVE  g[n] = h[n]
<1> DEFINE T == {k \in 0..n : g[k] = h[k]}
<1>1. 0 \in T
  OBVIOUS
<1>2. ASSUME NEW k \in 0..(n - 1), g[k] = h[k]
      PROVE  g[k + 1] = h[k + 1]
  <2>1. k + 1 \in 1..n /\ (k + 1) - 1 = k
    OBVIOUS
  <2> QED
    BY <1>2, <2>1 DEF IsChain
<1>3. \A k \in 0..(n - 1) : k \in T => k + 1 \in T
  BY <1>2
<1> HIDE DEF T
<1>4. n \in T
  BY <1>1, <1>3, UpTo
<1> QED
  BY <1>4 DEF T

\* No events make nothing of a snapshot.
LEMMA ReduceEmpty ==
  ASSUME NEW s \in Snapshots, NEW v \in Nat
  PROVE  Reduce(s, v, <<>>) = Fresh(s, v)
<1>1. <<>> \in Seq(Events) /\ Len(<<>>) = 0
  OBVIOUS
<1>2. PICK g \in [0..Len(<<>>) -> Accs] :
             g[0] = Fresh(s, v) /\ Reduce(s, v, <<>>) = g[Len(<<>>)]
  BY <1>1, ReduceChain
<1> QED
  BY <1>1, <1>2

\* One event more is one step more.
LEMMA ReduceSnoc ==
  ASSUME NEW s \in Snapshots, NEW v \in Nat, NEW es \in Seq(Events), NEW e \in Events
  PROVE  /\ Reduce(s, v, es) \in Accs
         /\ Reduce(s, v, Append(es, e)) = Step(Reduce(s, v, es), e)
<1> DEFINE n == Len(es)
           fs == Append(es, e)
<1>1. /\ fs \in Seq(Events) /\ Len(fs) = n + 1 /\ n \in Nat
      /\ \A k \in 1..n : fs[k] = es[k]
      /\ fs[n + 1] = e
  OBVIOUS
<1>2. PICK g \in [0..n -> Accs] :
             /\ g[0] = Fresh(s, v)
             /\ \A k \in 1..n : g[k] = Step(g[k - 1], es[k])
             /\ Reduce(s, v, es) = g[n]
  BY ReduceChain
<1> HIDE DEF n, fs
<1>3. PICK h \in [0..(n + 1) -> Accs] :
             /\ h[0] = Fresh(s, v)
             /\ \A k \in 1..(n + 1) : h[k] = Step(h[k - 1], fs[k])
             /\ Reduce(s, v, fs) = h[n + 1]
  <2>1. \E h \in [0..Len(fs) -> Accs] :
          /\ h[0] = Fresh(s, v)
          /\ \A k \in 1..Len(fs) : h[k] = Step(h[k - 1], fs[k])
          /\ Reduce(s, v, fs) = h[Len(fs)]
    BY <1>1, ReduceChain
  <2> QED
    BY <1>1, <2>1
<1>4. \A k \in 1..n : h[k] = Step(h[k - 1], es[k])
  BY <1>1, <1>3
<1>5. g[n] = h[n]
  <2>1. g[0] = h[0] /\ IsChain(g, n, es) /\ IsChain(h, n, es)
    BY <1>2, <1>3, <1>4 DEF IsChain
  <2> QED
    BY <1>1, <2>1, SameChain
<1>6. h[n + 1] = Step(h[n], e)
  <2>1. n + 1 \in 1..(n + 1) /\ (n + 1) - 1 = n
    BY <1>1
  <2> QED
    BY <1>1, <1>3, <2>1
<1>7. g[n] \in Accs
  BY <1>1, <1>2
<1> QED
  BY <1>2, <1>3, <1>5, <1>6, <1>7 DEF fs

\* One event is one step.
LEMMA ReduceOne ==
  ASSUME NEW s \in Snapshots, NEW v \in Nat, NEW e \in Events
  PROVE  Reduce(s, v, <<e>>) = Step(Fresh(s, v), e)
<1>1. <<e>> = Append(<<>>, e) /\ <<>> \in Seq(Events)
  OBVIOUS
<1>2. Reduce(s, v, Append(<<>>, e)) = Step(Reduce(s, v, <<>>), e)
  BY <1>1, ReduceSnoc
<1> QED
  BY <1>1, <1>2, ReduceEmpty

\* Two events are two.
LEMMA ReduceTwo ==
  ASSUME NEW s \in Snapshots, NEW v \in Nat, NEW e \in Events, NEW f \in Events
  PROVE  Reduce(s, v, <<e, f>>) = Step(Step(Fresh(s, v), e), f)
<1>1. <<e, f>> = Append(<<e>>, f) /\ <<e>> \in Seq(Events)
  OBVIOUS
<1>2. Reduce(s, v, Append(<<e>>, f)) = Step(Reduce(s, v, <<e>>), f)
  BY <1>1, ReduceSnoc
<1> QED
  BY <1>1, <1>2, ReduceOne

\* Reducing two lists of events at once is reducing one after the other.
LEMMA ReduceAppend ==
  ASSUME NEW s \in Snapshots, NEW v \in Nat, NEW es \in Seq(Events),
         NEW fs \in Seq(Events), Reduce(s, v, es).ok
  PROVE  /\ Reduce(s, v, es).led \in Snapshots /\ Reduce(s, v, es).at \in Nat
         /\ Reduce(s, v, es \o fs)
              = Reduce(Reduce(s, v, es).led, Reduce(s, v, es).at, fs)
<1> DEFINE n == Len(es)
           m == Len(fs)
           hs == es \o fs
           a == Reduce(s, v, es)
<1>1. /\ hs \in Seq(Events) /\ Len(hs) = n + m /\ n \in Nat /\ m \in Nat
      /\ \A k \in 1..n : hs[k] = es[k]
      /\ \A k \in 1..m : hs[n + k] = fs[k]
  OBVIOUS
<1>2. PICK g \in [0..n -> Accs] :
             /\ g[0] = Fresh(s, v)
             /\ \A k \in 1..n : g[k] = Step(g[k - 1], es[k])
             /\ Reduce(s, v, es) = g[n]
  BY ReduceChain
<1>3. a \in Accs /\ a.led \in Snapshots /\ a.at \in Nat /\ a = Fresh(a.led, a.at)
  <2>1. a \in Accs
    BY <1>1, <1>2
  <2> HIDE DEF a
  <2>2. a.ok = TRUE
    BY <2>1 DEF Accs, a
  <2> QED
    BY <2>1, <2>2 DEF Accs, Fresh
<1> HIDE DEF hs, n, m, a
<1>4. PICK h \in [0..m -> Accs] :
             /\ h[0] = a
             /\ \A k \in 1..m : h[k] = Step(h[k - 1], fs[k])
             /\ Reduce(a.led, a.at, fs) = h[m]
  <2>1. PICK h \in [0..Len(fs) -> Accs] :
               /\ h[0] = Fresh(a.led, a.at)
               /\ \A k \in 1..Len(fs) : h[k] = Step(h[k - 1], fs[k])
               /\ Reduce(a.led, a.at, fs) = h[Len(fs)]
    BY <1>3, ReduceChain
  <2> QED
    BY <1>3, <2>1 DEF m
<1>5. PICK c \in [0..Len(hs) -> Accs] :
             /\ c[0] = Fresh(s, v)
             /\ \A k \in 1..Len(hs) : c[k] = Step(c[k - 1], hs[k])
             /\ Reduce(s, v, hs) = c[Len(hs)]
  BY <1>1, ReduceChain
<1>6. c[n] = a
  <2>1. IsChain(g, n, es)
    BY <1>2 DEF IsChain
  <2>2. IsChain(c, n, es)
    <3>1. \A k \in 1..n : k \in 1..Len(hs)
      BY <1>1
    <3> QED
      BY <1>1, <1>5, <3>1 DEF IsChain
  <2>3. g[0] = c[0]
    BY <1>2, <1>5
  <2>4. g[n] = c[n]
    BY <1>1, <2>1, <2>2, <2>3, SameChain
  <2> QED
    BY <1>2, <2>4 DEF a
<1>7. c[n + m] = h[m]
  <2> DEFINE d == [k \in 0..m |-> c[n + k]]
  <2>1. d[0] = h[0] /\ d[m] = c[n + m]
    BY <1>1, <1>4, <1>6
  <2>2. IsChain(d, m, fs)
    <3>1. ASSUME NEW k \in 1..m
          PROVE  d[k] = Step(d[k - 1], fs[k])
      <4>1. n + k \in 1..Len(hs) /\ (n + k) - 1 = n + (k - 1) /\ k - 1 \in 0..m /\ k \in 0..m
        BY <1>1
      <4>2. c[n + k] = Step(c[(n + k) - 1], hs[n + k])
        BY <1>5, <4>1
      <4> QED
        BY <1>1, <4>1, <4>2
    <3> QED
      BY <3>1 DEF IsChain
  <2>3. IsChain(h, m, fs)
    BY <1>4 DEF IsChain
  <2> HIDE DEF d
  <2>4. m \in Nat
    BY <1>1
  <2>5. d[m] = h[m]
    BY <2>1, <2>2, <2>3, <2>4, SameChain
  <2> QED
    BY <2>1, <2>5
<1> QED
  BY <1>1, <1>3, <1>4, <1>5, <1>7 DEF hs, a

\* What a step that is not refused has done.
LEMMA StepOk ==
  ASSUME NEW a \in Accs, NEW e \in Events, Step(a, e).ok
  PROVE  /\ a.ok /\ Valid(a.led, a.at, e)
         /\ Step(a, e).led = Applied(a.led, e) /\ Step(a, e).at = a.at + 1
<1>1. CASE a.ok /\ Valid(a.led, a.at, e)
  BY <1>1 DEF Step
<1>2. CASE ~(a.ok /\ Valid(a.led, a.at, e))
  <2>1. Step(a, e) = [a EXCEPT !.ok = FALSE]
    BY <1>2 DEF Step
  <2>2. Step(a, e).ok = FALSE
    BY <2>1 DEF Accs
  <2> QED
    BY <2>2
<1> QED
  BY <1>1, <1>2

\* What the reducer starts from.
LEMMA FreshType ==
  ASSUME NEW s \in Snapshots, NEW v \in Nat
  PROVE  /\ Fresh(s, v) \in Accs /\ Fresh(s, v).led = s /\ Fresh(s, v).at = v
         /\ Fresh(s, v).ok
BY DEF Fresh, Accs

-----------------------------------------------------------------------------
(***************************************************************************)
(* One meta-action: what it makes of the ledger when none of its events is *)
(* refused.                                                                *)
(***************************************************************************)
Metas ==
  UNION {[kind: {"propose"}, hyp: Hyps, high: BOOLEAN, validator: Validators],
         [kind: {"plan"}, exp: Exps, hyp: Hyps, bind: {"none", "direct", "spawn"}],
         [kind: {"link"}, ev: Nat, hyp: Hyps, rel: Relations, strength: 1..4],
         [kind: {"resolve"}, hyp: Hyps, revision: Nat, status: Resolved,
          links: SUBSET Links]}

Same(w, t) ==
  /\ t.hyps = w.hyps /\ t.exps = w.exps /\ t.evs = w.evs
  /\ t.links = w.links /\ t.resolutions = w.resolutions

Opens(w, t, m) ==
  /\ ~Known(w, m.hyp)
  /\ t.hyps[m.hyp].status = "Open"
  /\ \A g \in Hyps \ {m.hyp} : t.hyps[g] = w.hyps[g]
  /\ t.exps = w.exps /\ t.evs = w.evs
  /\ t.links = w.links /\ t.resolutions = w.resolutions

PlansOn(w, t, m) ==
  /\ w.exps[m.exp].status = "absent" /\ t.exps[m.exp].status = "Planned"
  /\ \A y \in Exps \ {m.exp} : t.exps[y] = w.exps[y]
  /\ t.hyps = w.hyps /\ t.evs = w.evs
  /\ t.links = w.links /\ t.resolutions = w.resolutions

LinksTo(w, t, m) ==
  /\ LinkAccepted(w, m)
  /\ t.links = w.links \cup {AcceptedLink(w, m)}
  /\ t.hyps = w.hyps /\ t.exps = w.exps /\ t.evs = w.evs
  /\ t.resolutions = w.resolutions

ResolutionOf(w, m, d) ==
  [hyp |-> m.hyp, status |-> m.status, links |-> m.links,
   by |-> IF NeedsReview(w, m) THEN "independent" ELSE "runtime", asked |-> d]

Resolves(w, t, m, a, d) ==
  /\ ResolutionAccepted(w, m)
  /\ NeedsReview(w, m) => a
  /\ t.hyps[m.hyp].status = m.status
  /\ t.hyps[m.hyp].revision = m.revision + 1
  /\ t.hyps[m.hyp].high = w.hyps[m.hyp].high
  /\ \A g \in Hyps \ {m.hyp} : t.hyps[g] = w.hyps[g]
  /\ t.exps = w.exps /\ t.evs = w.evs /\ t.links = w.links
  /\ t.resolutions = w.resolutions \cup {ResolutionOf(w, m, d)}

Does(w, t, m, a, d) ==
  /\ m.kind = "propose" => Opens(w, t, m)
  /\ m.kind = "plan"    => Same(w, t) \/ PlansOn(w, t, m)
  /\ m.kind = "link"    => Same(w, t) \/ LinksTo(w, t, m)
  /\ m.kind = "resolve" => /\ Current(w, m)
                           /\ Same(w, t) \/ Resolves(w, t, m, a, d)

\* Short sequences.
LEMMA ShortSequences ==
  ASSUME NEW S, NEW x \in S, NEW y \in S
  PROVE  /\ <<x>> \in Seq(S) /\ <<x, y>> \in Seq(S)
         /\ <<x>> \o <<y>> = <<x, y>> /\ <<x>> \o <<>> = <<x>>
<1>1. /\ <<x>> \in Seq(S) /\ <<y>> \in Seq(S) /\ <<x, y>> \in Seq(S)
      /\ <<>> \in Seq(S)
      /\ Len(<<x>>) = 1 /\ Len(<<y>>) = 1 /\ Len(<<x, y>>) = 2 /\ Len(<<>>) = 0
  OBVIOUS
<1>2. <<x>> \o <<y>> = <<x, y>>
  <2> DEFINE p == <<x>> \o <<y>>
  <2>1. p \in Seq(S) /\ Len(p) = 2 /\ p[1] = x /\ p[2] = y
    BY <1>1
  <2> HIDE DEF p
  <2> DEFINE o == <<x, y>>
  <2>2. o \in Seq(S) /\ Len(o) = 2 /\ o[1] = x /\ o[2] = y
    OBVIOUS
  <2> HIDE DEF o
  <2>3. p \in [1..2 -> S] /\ o \in [1..2 -> S]
    BY <2>1, <2>2
  <2>4. \A i \in 1..2 : p[i] = o[i]
    BY <2>1, <2>2
  <2>5. p = o
    BY <2>3, <2>4
  <2> QED
    BY <2>5 DEF p, o
<1>3. <<x>> \o <<>> = <<x>>
  <2> DEFINE p == <<x>> \o <<>>
  <2>1. p \in Seq(S) /\ Len(p) = 1 /\ p[1] = x
    BY <1>1
  <2> HIDE DEF p
  <2> QED
    BY <2>1
<1> QED
  BY <1>1, <1>2, <1>3

\* A proposal.
LEMMA ProposeDoes ==
  ASSUME NEW w \in Snapshots, NEW v \in Nat, NEW m \in Metas, m.kind = "propose",
         NEW a \in BOOLEAN, NEW d \in BOOLEAN
  PROVE  LET es == MetaEvents(w, m, a, d)
             r == Reduce(w, v, es)
         IN /\ es \in Seq(Events)
            /\ r.ok => r.led \in Snapshots /\ Opens(w, r.led, m)
<1> DEFINE e == [type |-> "Proposed", hyp |-> m.hyp, high |-> m.high,
                 validator |-> m.validator]
           r == Reduce(w, v, <<e>>)
<1>1. m.hyp \in Hyps /\ m.high \in BOOLEAN /\ m.validator \in Validators
  BY DEF Metas
<1>2. e \in Events
  BY <1>1 DEF Events
<1>3. MetaEvents(w, m, a, d) = <<e>>
  BY DEF MetaEvents
<1>4. ASSUME r.ok
      PROVE  r.led \in Snapshots /\ Opens(w, r.led, m)
  <2>1. Valid(w, v, e) /\ r.led = Applied(w, e)
    <3>1. r = Step(Fresh(w, v), e)
      BY <1>2, ReduceOne
    <3> HIDE DEF e, r
    <3> QED
      BY <1>2, <1>4, <3>1, StepOk, FreshType
  <2>2. ~Known(w, m.hyp)
    BY <2>1 DEF Valid
  <2>3. LET t == Applied(w, e)
        IN /\ t \in Snapshots
           /\ t.hyps[m.hyp] = [status |-> "Open", revision |-> 1, high |-> m.high,
                               validator |-> m.validator]
           /\ \A g \in Hyps \ {m.hyp} : t.hyps[g] = w.hyps[g]
           /\ t.exps = w.exps /\ t.evs = w.evs /\ t.links = w.links
           /\ t.conflicts = w.conflicts /\ t.resolutions = w.resolutions
    BY <1>1, AppliedProposed
  <2> HIDE DEF e, r
  <2> QED
    BY <2>1, <2>2, <2>3 DEF Opens
<1>5. <<e>> \in Seq(Events)
  BY <1>2
<1> QED
  BY <1>3, <1>4, <1>5

\* A plan: nothing if the Experiment is there already.
LEMMA PlanDoes ==
  ASSUME NEW w \in Snapshots, NEW v \in Nat, NEW m \in Metas, m.kind = "plan",
         NEW a \in BOOLEAN, NEW d \in BOOLEAN
  PROVE  LET es == MetaEvents(w, m, a, d)
             r == Reduce(w, v, es)
         IN /\ es \in Seq(Events)
            /\ r.ok => r.led \in Snapshots /\ (Same(w, r.led) \/ PlansOn(w, r.led, m))
<1> DEFINE e == [type |-> "Planned", exp |-> m.exp, hyp |-> m.hyp]
           r == Reduce(w, v, <<e>>)
<1>1. m.hyp \in Hyps /\ m.exp \in Exps
  BY DEF Metas
<1>2. e \in Events
  BY <1>1 DEF Events
<1>3. MetaEvents(w, m, a, d) = <<e>> \/ MetaEvents(w, m, a, d) = <<>>
  BY DEF MetaEvents
<1>4. ASSUME r.ok
      PROVE  r.led \in Snapshots /\ PlansOn(w, r.led, m)
  <2>1. Valid(w, v, e) /\ r.led = Applied(w, e)
    <3>1. r = Step(Fresh(w, v), e)
      BY <1>2, ReduceOne
    <3> HIDE DEF e, r
    <3> QED
      BY <1>2, <1>4, <3>1, StepOk, FreshType
  <2>2. w.exps[m.exp].status = "absent"
    BY <2>1 DEF Valid
  <2>3. LET t == Applied(w, e)
        IN /\ t \in Snapshots
           /\ t.exps[m.exp].status = "Planned"
           /\ \A y \in Exps \ {m.exp} : t.exps[y] = w.exps[y]
           /\ t.hyps = w.hyps /\ t.evs = w.evs /\ t.links = w.links
           /\ t.resolutions = w.resolutions
    BY <1>1, AppliedPlanned
  <2> HIDE DEF e, r
  <2> QED
    BY <2>1, <2>2, <2>3 DEF PlansOn
<1>5. Reduce(w, v, <<>>).led = w
  BY ReduceEmpty DEF Fresh
<1>6. <<e>> \in Seq(Events) /\ <<>> \in Seq(Events)
  BY <1>2
<1> HIDE DEF e
<1> QED
  BY <1>3, <1>4, <1>5, <1>6 DEF Same

\* The link as accepted is a link.
LEMMA AcceptedLinkType ==
  ASSUME NEW w \in Snapshots, NEW m \in Metas, m.kind = "link"
  PROVE  AcceptedLink(w, m) \in Links
<1>1. m.ev \in Nat /\ m.hyp \in Hyps /\ m.rel \in Relations /\ m.strength \in 1..4
  BY DEF Metas
<1>2. w.hyps[m.hyp].validator \in Validators
  BY <1>1, SnapshotParts DEF HypRecords
<1>3. Capped(m.strength, Cap(w.hyps[m.hyp].validator)) \in Weak..Strong
  BY <1>1 DEF Capped, Cap, Weak, Moderate, Strong
<1>4. Weak \in Weak..Strong
  BY DEF Weak, Strong
<1> QED
  BY <1>1, <1>2, <1>3, <1>4 DEF AcceptedLink, Links

\* A link: accepted, perhaps with the contradiction it makes, or rejected.
LEMMA LinkDoes ==
  ASSUME NEW w \in Snapshots, NEW v \in Nat, NEW m \in Metas, m.kind = "link",
         NEW a \in BOOLEAN, NEW d \in BOOLEAN
  PROVE  LET es == MetaEvents(w, m, a, d)
             r == Reduce(w, v, es)
         IN /\ es \in Seq(Events)
            /\ r.ok => r.led \in Snapshots /\ (Same(w, r.led) \/ LinksTo(w, r.led, m))
<1> DEFINE l == AcceptedLink(w, m)
           x == [type |-> "Linked", link |-> l]
           c == [type |-> "Contradiction", hyp |-> l.hyp,
                 revision |-> w.hyps[l.hyp].revision]
           n == [type |-> "LinkRejected", hyp |-> m.hyp,
                 revision |-> w.hyps[m.hyp].revision]
           es == MetaEvents(w, m, a, d)
           r == Reduce(w, v, es)
<1>1. m.hyp \in Hyps /\ l \in Links /\ l.hyp = m.hyp
  BY AcceptedLinkType DEF Metas, AcceptedLink
<1>2. w.hyps[m.hyp].revision \in Nat
  BY <1>1, SnapshotParts DEF HypRecords
<1>3. x \in Events /\ c \in Events /\ n \in Events
  BY <1>1, <1>2 DEF Events
<1>4. CASE ~LinkAccepted(w, m)
  <2>1. es = <<n>> /\ es \in Seq(Events)
    BY <1>3, <1>4 DEF MetaEvents
  <2>2. r.ok => r.led = w
    <3>1. r = Step(Fresh(w, v), n)
      BY <1>3, <2>1, ReduceOne
    <3>2. Applied(w, n) = w
      BY AppliedNothing
    <3> HIDE DEF n, r
    <3> QED
      BY <1>3, <3>1, <3>2, StepOk, FreshType
  <2> QED
    BY <2>1, <2>2 DEF Same
<1>5. CASE LinkAccepted(w, m)
  <2>1. es = <<x, c>> \/ es = <<x>>
    <3>1. es = <<x>> \o <<c>> \/ es = <<x>> \o <<>>
      BY <1>5 DEF MetaEvents
    <3> HIDE DEF x, c, es
    <3> QED
      BY <1>3, <3>1, ShortSequences
  <2>2. es \in Seq(Events)
    <3> HIDE DEF x, c, es
    <3> QED
      BY <1>3, <2>1, ShortSequences
  <2>3. /\ Applied(w, x) \in Snapshots
        /\ Applied(w, x).links = w.links \cup {l}
        /\ Applied(w, x).hyps = w.hyps /\ Applied(w, x).exps = w.exps
        /\ Applied(w, x).evs = w.evs /\ Applied(w, x).resolutions = w.resolutions
    BY <1>1, AppliedLinked
  <2> DEFINE u == Applied(w, x)
  <2>4. /\ Applied(u, c) \in Snapshots
        /\ Applied(u, c).links = u.links /\ Applied(u, c).hyps = u.hyps
        /\ Applied(u, c).exps = u.exps /\ Applied(u, c).evs = u.evs
        /\ Applied(u, c).resolutions = u.resolutions
    BY <1>1, <2>3, AppliedContradiction
  <2>5. ASSUME r.ok
        PROVE  r.led = u \/ r.led = Applied(u, c)
    <3>1. CASE es = <<x>>
      <4>1. r = Step(Fresh(w, v), x)
        BY <1>3, <3>1, ReduceOne
      <4> HIDE DEF x, r
      <4> QED
        BY <1>3, <2>5, <4>1, StepOk, FreshType
    <3>2. CASE es = <<x, c>>
      <4> DEFINE y == Step(Fresh(w, v), x)
      <4>1. r = Step(y, c)
        BY <1>3, <3>2, ReduceTwo
      <4>2. y \in Accs
        BY <1>3, StepType, FreshType
      <4> HIDE DEF x, c, r, y
      <4>3. y.ok /\ r.led = Applied(y.led, c)
        BY <1>3, <2>5, <4>1, <4>2, StepOk
      <4>4. y.led = Applied(w, x)
        BY <1>3, <4>3, StepOk, FreshType DEF y
      <4> QED
        BY <4>3, <4>4
    <3> QED
      BY <2>1, <3>1, <3>2
  <2> HIDE DEF u, r, es, x, c, l
  <2>6. r.ok => r.led \in Snapshots /\ LinksTo(w, r.led, m)
    BY <1>5, <2>3, <2>4, <2>5 DEF LinksTo, u, l
  <2> QED
    BY <2>2, <2>6 DEF r, es
<1> QED
  BY <1>4, <1>5

\* A request: for the revision the hypothesis has, and then either resolved
\* or rejected.
LEMMA ResolveDoes ==
  ASSUME NEW w \in Snapshots, NEW v \in Nat, NEW m \in Metas, m.kind = "resolve",
         NEW a \in BOOLEAN, NEW d \in BOOLEAN
  PROVE  LET es == MetaEvents(w, m, a, d)
             r == Reduce(w, v, es)
         IN /\ es \in Seq(Events)
            /\ r.ok => /\ r.led \in Snapshots /\ Current(w, m)
                       /\ Same(w, r.led) \/ Resolves(w, r.led, m, a, d)
<1> DEFINE q == [type |-> "Requested", hyp |-> m.hyp, revision |-> m.revision,
                 links |-> m.links]
           z == ResolutionOf(w, m, d)
           x == [type |-> "Resolved", revision |-> m.revision, is |-> z]
           n == [type |-> "ResolutionRejected", hyp |-> m.hyp, revision |-> m.revision]
           es == MetaEvents(w, m, a, d)
           r == Reduce(w, v, es)
           good == ResolutionAccepted(w, m) /\ (NeedsReview(w, m) => a)
<1>1. /\ m.hyp \in Hyps /\ m.revision \in Nat /\ m.links \in SUBSET Links
      /\ m.status \in Resolved
  BY DEF Metas
<1>2. z \in Resolutions /\ z.hyp = m.hyp /\ z.status = m.status
  BY <1>1 DEF ResolutionOf, Resolutions
<1>3. q \in Events /\ x \in Events /\ n \in Events
  BY <1>1, <1>2 DEF Events
<1>4. (es = <<q, x>> /\ good) \/ es = <<q, n>>
  <2>1. (es = <<q>> \o <<x>> /\ good) \/ es = <<q>> \o <<n>>
    BY DEF MetaEvents, ResolutionOf
  <2> HIDE DEF q, x, n, es, good
  <2> QED
    BY <1>3, <2>1, ShortSequences
<1>5. es \in Seq(Events)
  <2> HIDE DEF q, x, n, es, good
  <2> QED
    BY <1>3, <1>4, ShortSequences
<1> DEFINE y == Step(Fresh(w, v), q)
<1>6. y \in Accs
  BY <1>3, StepType, FreshType
<1>7. y.ok => Valid(w, v, q) /\ y.led = w
  <2>1. Applied(w, q) = w
    BY AppliedNothing
  <2> HIDE DEF q
  <2> QED
    BY <1>3, <2>1, StepOk, FreshType
<1>8. Valid(w, v, q) => Current(w, m)
  BY DEF Valid, Current
<1>9. ASSUME NEW f \in Events, es = <<q, f>>, r.ok
      PROVE  y.ok /\ r.led = Applied(w, f)
  <2>1. r = Step(y, f)
    BY <1>3, <1>9, ReduceTwo
  <2> HIDE DEF r, y
  <2>2. y.ok /\ r.led = Applied(y.led, f)
    BY <1>6, <1>9, <2>1, StepOk
  <2> QED
    BY <1>7, <2>2
<1>10. Applied(w, n) = w
  BY AppliedNothing
<1>11. LET t == Applied(w, x)
       IN /\ t \in Snapshots
          /\ t.hyps[z.hyp].status = z.status
          /\ t.hyps[z.hyp].revision = m.revision + 1
          /\ t.hyps[z.hyp].high = w.hyps[z.hyp].high
          /\ \A g \in Hyps \ {z.hyp} : t.hyps[g] = w.hyps[g]
          /\ t.exps = w.exps /\ t.evs = w.evs /\ t.links = w.links
          /\ t.resolutions = w.resolutions \cup {z}
  BY <1>1, <1>2, AppliedResolved
<1> HIDE DEF y, r, es, x, n, q, z
<1>12. ASSUME r.ok
       PROVE  /\ r.led \in Snapshots /\ Current(w, m)
              /\ Same(w, r.led) \/ Resolves(w, r.led, m, a, d)
  <2>1. CASE es = <<q, x>> /\ good
    BY <1>2, <1>3, <1>7, <1>8, <1>9, <1>11, <1>12, <2>1 DEF Resolves, z
  <2>2. CASE es = <<q, n>>
    BY <1>3, <1>7, <1>8, <1>9, <1>10, <1>12, <2>2 DEF Same
  <2> QED
    BY <1>4, <2>1, <2>2
<1> QED
  BY <1>5, <1>12 DEF r, es

\* Any meta-action.
LEMMA MetaDoes ==
  ASSUME NEW w \in Snapshots, NEW v \in Nat, NEW m \in Metas,
         NEW a \in BOOLEAN, NEW d \in BOOLEAN
  PROVE  LET es == MetaEvents(w, m, a, d)
             r == Reduce(w, v, es)
         IN /\ es \in Seq(Events)
            /\ r.ok => r.led \in Snapshots /\ Does(w, r.led, m, a, d)
<1>1. m.kind \in {"propose", "plan", "link", "resolve"}
  BY DEF Metas
<1>2. CASE m.kind = "propose"
  BY <1>2, ProposeDoes DEF Does
<1>3. CASE m.kind = "plan"
  BY <1>3, PlanDoes DEF Does
<1>4. CASE m.kind = "link"
  BY <1>4, LinkDoes DEF Does
<1>5. CASE m.kind = "resolve"
  BY <1>5, ResolveDoes DEF Does
<1> QED
  BY <1>1, <1>2, <1>3, <1>4, <1>5

-----------------------------------------------------------------------------
(***************************************************************************)
(* The assembler.                                                          *)
(***************************************************************************)
\* What the i-th meta-action of the response says to its events.
Passed(s, ms, verdicts, i) ==
  ms[i].kind = "resolve" /\ Approved(s, ms, verdicts, ms[i].hyp)

Verdict(ms, verdicts, i) == ms[i].kind = "resolve" /\ verdicts[i]

Assembled(s, ms, verdicts, acc, i) ==
  LET es == MetaEvents(acc.led, ms[i], Passed(s, ms, verdicts, i),
                       Verdict(ms, verdicts, i))
      r == Reduce(acc.led, acc.at, es)
  IN [ok |-> acc.ok /\ r.ok, led |-> r.led, at |-> r.at, evs |-> acc.evs \o es]

Begun(s, v) == [ok |-> TRUE, led |-> s, at |-> v, evs |-> <<>>]

Drafts == [ok: BOOLEAN, led: Snapshots, at: Nat, evs: Seq(Events)]

\* The assembler is the fold of its steps.
LEMMA AssembleIsFold ==
  ASSUME NEW s, NEW v, NEW ms, NEW verdicts
  PROVE  Assemble(s, v, ms, verdicts) =
           LET ix == [i \in DOMAIN ms |-> i]
               iter == CHOOSE f : f = [r \in SUBSET DOMAIN ix |->
                         IF r = {} THEN [ok |-> TRUE, led |-> s, at |-> v, evs |-> <<>>]
                         ELSE Assembled(s, ms, verdicts, f[r \ {Max(r)}], ix[Max(r)])]
           IN iter[DOMAIN ix]
BY DEF Assemble, FoldLeftDomain, FoldLeft, MapThenFoldSet, Assembled, Passed, Verdict

\* A draft stays a draft.
LEMMA AssembledType ==
  ASSUME NEW s, NEW ms \in Seq(Metas), NEW verdicts, NEW acc \in Drafts,
         NEW i \in DOMAIN ms
  PROVE  Assembled(s, ms, verdicts, acc, i) \in Drafts
<1> DEFINE a == Passed(s, ms, verdicts, i)
           d == Verdict(ms, verdicts, i)
           es == MetaEvents(acc.led, ms[i], a, d)
           r == Reduce(acc.led, acc.at, es)
           fs == acc.evs \o es
           ok == acc.ok /\ r.ok
<1>1. a \in BOOLEAN /\ d \in BOOLEAN
  BY DEF Passed, Verdict
<1>2. ms[i] \in Metas /\ acc.led \in Snapshots /\ acc.at \in Nat
      /\ acc.evs \in Seq(Events)
  BY DEF Drafts
<1> HIDE DEF a, d
<1>3. es \in Seq(Events)
  BY <1>1, <1>2, MetaDoes
<1> HIDE DEF es
<1>4. fs \in Seq(Events)
  BY <1>2, <1>3
<1>5. r \in Accs
  <2>1. PICK e \in Events : TRUE
    <3>1. [type |-> "Deliberated", version |-> 0] \in Events
      BY DEF Events
    <3> QED
      BY <3>1
  <2> QED
    BY <1>2, <1>3, <2>1, ReduceSnoc
<1>6. ok \in BOOLEAN
  OBVIOUS
<1>7. r.led \in Snapshots /\ r.at \in Nat
  BY <1>5 DEF Accs
<1>8. Assembled(s, ms, verdicts, acc, i) = [ok |-> ok, led |-> r.led, at |-> r.at, evs |-> fs]
  BY DEF Assembled, es, a, d
<1> HIDE DEF ok, r, fs
<1> QED
  BY <1>4, <1>6, <1>7, <1>8 DEF Drafts

\* A response of one meta-action, and one of two.
LEMMA AssembleRuns ==
  ASSUME NEW s \in Snapshots, NEW v \in Nat, NEW ms \in Seq(Metas), NEW verdicts
  PROVE  LET one == Assembled(s, ms, verdicts, Begun(s, v), 1)
         IN /\ Len(ms) = 1 => Assemble(s, v, ms, verdicts) = one
            /\ Len(ms) = 2 => Assemble(s, v, ms, verdicts)
                                = Assembled(s, ms, verdicts, one, 2)
<1> DEFINE n == Len(ms)
           A(acc, i) == Assembled(s, ms, verdicts, acc, i)
           G == [p \in (1..n) \X Drafts |-> A(p[2], p[1])]
<1>1. n \in Nat /\ DOMAIN ms = 1..n
  OBVIOUS
<1>2. Begun(s, v) \in Drafts
  BY DEF Begun, Drafts
<1> HIDE DEF n
<1>3. \A i \in 1..n, acc \in Drafts : A(acc, i) \in Drafts
  BY <1>1, AssembledType
<1> HIDE DEF A
<1>4. G \in [(1..n) \X Drafts -> Drafts] /\ \A i \in 1..n, acc \in Drafts : G[<<i, acc>>] = A(acc, i)
  BY <1>3
<1> HIDE DEF G
<1>5. PICK f : IsFold(f, n, Drafts, Begun(s, v), G)
  BY <1>1, <1>2, <1>4, FoldExists
<1> DEFINE Solves(g) == g = [r \in SUBSET (1..n) |->
                               IF r = {} THEN Begun(s, v) ELSE A(g[r \ {Max(r)}], Max(r))]
<1>6. Solves(f)
  <2>1. ASSUME NEW r \in SUBSET (1..n)
        PROVE  f[r] = IF r = {} THEN Begun(s, v) ELSE A(f[r \ {Max(r)}], Max(r))
    <3>1. CASE r = {}
      BY <1>5, <3>1 DEF IsFold
    <3>2. CASE r # {}
      <4>1. Max(r) \in r
        BY <1>1, <3>2, MaxIn
      <4>2. f[r] = G[<<Max(r), f[r \ {Max(r)}]>>] /\ f[r \ {Max(r)}] \in Drafts
        BY <1>5, <3>2 DEF IsFold
      <4> QED
        BY <1>4, <3>2, <4>1, <4>2
    <3> QED
      BY <3>1, <3>2
  <2>2. f \in [SUBSET (1..n) -> Drafts]
    BY <1>5 DEF IsFold
  <2> QED
    BY <2>1, <2>2
<1> DEFINE iter == CHOOSE g : Solves(g)
<1>7. Solves(iter)
  BY <1>6
<1>8. Assemble(s, v, ms, verdicts) = iter[1..n]
  <2> DEFINE ix == [i \in DOMAIN ms |-> i]
             Solved(g) == g = [r \in SUBSET DOMAIN ix |->
                                 IF r = {} THEN Begun(s, v)
                                 ELSE A(g[r \ {Max(r)}], ix[Max(r)])]
  <2>1. Assemble(s, v, ms, verdicts) = (CHOOSE g : Solved(g))[DOMAIN ix]
    BY AssembleIsFold DEF A, Begun
  <2>2. DOMAIN ix = 1..n
    BY <1>1
  <2>3. ASSUME NEW g
        PROVE  Solved(g) <=> Solves(g)
    <3>1. ASSUME NEW r \in SUBSET (1..n), r # {}
          PROVE  ix[Max(r)] = Max(r)
      <4>1. Max(r) \in r
        BY <1>1, <3>1, MaxIn
      <4> QED
        BY <1>1, <4>1
    <3> HIDE DEF ix
    <3>2. [r \in SUBSET DOMAIN ix |->
             IF r = {} THEN Begun(s, v) ELSE A(g[r \ {Max(r)}], ix[Max(r)])]
            = [r \in SUBSET (1..n) |->
                 IF r = {} THEN Begun(s, v) ELSE A(g[r \ {Max(r)}], Max(r))]
      BY <2>2, <3>1
    <3> QED
      BY <3>2
  <2> HIDE DEF Solved, Solves
  <2>4. (CHOOSE g : Solved(g)) = (CHOOSE g : Solves(g))
    BY <2>3
  <2> QED
    BY <2>1, <2>2, <2>4
<1> HIDE DEF iter
<1>9. iter[{}] = Begun(s, v)
  BY <1>7
<1>10. ASSUME NEW r \in SUBSET (1..n), r # {}
       PROVE  iter[r] = A(iter[r \ {Max(r)}], Max(r))
  BY <1>7, <1>10
<1>11. ASSUME n >= 1
       PROVE  iter[1..1] = A(Begun(s, v), 1)
  <2>1. 1..1 \in SUBSET (1..n) /\ 1 \in 1..1 /\ (1..1) \ {1} = {}
    BY <1>1, <1>11
  <2>2. Max(1..1) = 1
    BY <2>1, MaxIs
  <2> QED
    BY <1>9, <1>10, <2>1, <2>2
<1>12. ASSUME n = 2
       PROVE  iter[1..2] = A(A(Begun(s, v), 1), 2)
  <2>1. 1..2 \in SUBSET (1..n) /\ 2 \in 1..2 /\ (1..2) \ {2} = 1..1
    BY <1>1, <1>12
  <2>2. Max(1..2) = 2
    BY <2>1, MaxIs
  <2>3. iter[1..2] = A(iter[(1..2) \ {2}], 2)
    BY <1>10, <2>1, <2>2
  <2>4. iter[(1..2) \ {2}] = iter[1..1]
    BY <2>1
  <2>5. iter[1..1] = A(Begun(s, v), 1)
    BY <1>11, <1>12
  <2> QED
    BY <2>3, <2>4, <2>5
<1>13. n = 1 => Assemble(s, v, ms, verdicts) = A(Begun(s, v), 1)
  BY <1>8, <1>11
<1>14. n = 2 => Assemble(s, v, ms, verdicts) = A(A(Begun(s, v), 1), 2)
  BY <1>8, <1>12
<1> QED
  BY <1>13, <1>14 DEF n, A

-----------------------------------------------------------------------------
(***************************************************************************)
(* What is true of every snapshot the case reaches.                        *)
(***************************************************************************)
\* Evidence that is bound to an Experiment was recorded after its plan.
EvidenceBound(s) ==
  \A i \in DOMAIN s.evs :
    s.evs[i].exp # NoExp => s.exps[s.evs[i].exp].status # "absent"

\* A link still is what validate_link accepted.
LinksSound(s) ==
  \A l \in s.links :
    /\ l.ev \in DOMAIN s.evs /\ Known(s, l.hyp)
    /\ l.rel # "Inconclusive" =>
         /\ s.evs[l.ev].ok
         /\ s.evs[l.ev].exp # NoExp
         /\ s.exps[s.evs[l.ev].exp].hyp = l.hyp

\* The support a Confirmed hypothesis rests on.
Backing(s, h, r, l) ==
  /\ r \in s.resolutions /\ l \in r.links /\ l \in s.links
  /\ r.hyp = h /\ r.status = "Confirmed"
  /\ l.hyp = h /\ l.rel = "Supports"
  /\ s.hyps[h].high => l.strength >= Strong

ConfirmedBacked(s) ==
  \A h \in Hyps : s.hyps[h].status = "Confirmed" =>
    \E r \in s.resolutions : \E l \in r.links : Backing(s, h, r, l)

\* What needed the independent verifier has its approval.
Reviewed(s, r) ==
  (s.hyps[r.hyp].high \/ \E l \in r.links : l.validator = "Semantic")
    => r.by = "independent" /\ r.asked

ReviewBound(s) == \A r \in s.resolutions : Known(s, r.hyp) /\ Reviewed(s, r)

Good(s) ==
  EvidenceBound(s) /\ LinksSound(s) /\ ConfirmedBacked(s) /\ ReviewBound(s)

\* A step that changes no hypothesis, no link and no resolution, and only
\* adds Experiments or moves them on, keeps a sound ledger sound.
LEMMA ExperimentsKeepGood ==
  ASSUME NEW w \in Snapshots, NEW t \in Snapshots, Good(w),
         t.hyps = w.hyps, t.evs = w.evs, t.links = w.links,
         t.resolutions = w.resolutions,
         \A y \in Exps : w.exps[y].status # "absent" =>
           t.exps[y].status # "absent" /\ t.exps[y].hyp = w.exps[y].hyp
  PROVE  Good(t)
<1>1. \A i \in DOMAIN w.evs : w.evs[i].exp \in Exps \cup {NoExp}
  <2>1. w.evs \in Seq(Evidence)
    BY SnapshotParts
  <2>2. \A i \in DOMAIN w.evs : w.evs[i] \in Evidence
    BY <2>1
  <2> QED
    BY <2>2 DEF Evidence
<1>2. EvidenceBound(t)
  BY <1>1 DEF Good, EvidenceBound
<1>3. LinksSound(t)
  <2> DEFINE bound(l) == w.evs[l.ev].exp
  <2> SUFFICES ASSUME NEW l \in w.links
               PROVE  /\ l.ev \in DOMAIN w.evs /\ Known(t, l.hyp)
                      /\ l.rel # "Inconclusive" =>
                           w.evs[l.ev].ok /\ bound(l) # NoExp /\ t.exps[bound(l)].hyp = l.hyp
    BY DEF LinksSound
  <2>1. /\ l.ev \in DOMAIN w.evs /\ Known(t, l.hyp)
        /\ l.rel # "Inconclusive" =>
             w.evs[l.ev].ok /\ bound(l) # NoExp /\ w.exps[bound(l)].hyp = l.hyp
    BY DEF Good, LinksSound, Known
  <2>2. bound(l) # NoExp => bound(l) \in Exps /\ w.exps[bound(l)].status # "absent"
    BY <1>1, <2>1 DEF Good, EvidenceBound
  <2> QED
    BY <2>1, <2>2
<1>4. ConfirmedBacked(t)
  BY DEF Good, ConfirmedBacked, Backing
<1>5. ReviewBound(t)
  BY DEF Good, ReviewBound, Reviewed, Known
<1> QED
  BY <1>2, <1>3, <1>4, <1>5 DEF Good

\* Nothing happens.
LEMMA SameKeepsGood ==
  ASSUME NEW w \in Snapshots, NEW t \in Snapshots, Good(w), Same(w, t)
  PROVE  Good(t)
BY ExperimentsKeepGood DEF Same

\* A proposal.
LEMMA OpensKeepsGood ==
  ASSUME NEW w \in Snapshots, NEW t \in Snapshots, Good(w),
         NEW m, m.hyp \in Hyps, Opens(w, t, m)
  PROVE  Good(t)
<1>1. EvidenceBound(t)
  BY DEF Good, EvidenceBound, Opens
<1>2. \A g \in Hyps : Known(w, g) => t.hyps[g] = w.hyps[g]
  BY DEF Opens
<1>3. \A g \in Hyps : Known(w, g) => Known(t, g)
  BY <1>2 DEF Known
<1>4. w.links \in SUBSET Links /\ w.resolutions \in SUBSET Resolutions
  BY SnapshotParts
<1>5. LinksSound(t)
  <2>1. \A l \in w.links : l.hyp \in Hyps
    BY <1>4 DEF Links
  <2> QED
    BY <1>3, <2>1 DEF Good, LinksSound, Opens
<1>6. ConfirmedBacked(t)
  <2> SUFFICES ASSUME NEW h \in Hyps, t.hyps[h].status = "Confirmed"
               PROVE  \E r \in t.resolutions : \E l \in r.links : Backing(t, h, r, l)
    BY DEF ConfirmedBacked
  <2>1. t.hyps[h] = w.hyps[h]
    BY DEF Opens
  <2>2a. PICK r \in w.resolutions : \E l \in r.links : Backing(w, h, r, l)
    BY <2>1 DEF Good, ConfirmedBacked
  <2>2. PICK l \in r.links : Backing(w, h, r, l)
    BY <2>2a
  <2>3. Backing(t, h, r, l)
    BY <2>1, <2>2 DEF Backing, Opens
  <2> QED
    BY <2>3 DEF Backing
<1>7. ReviewBound(t)
  <2>1. \A r \in w.resolutions : r.hyp \in Hyps
    BY <1>4 DEF Resolutions
  <2> QED
    BY <1>2, <1>3, <2>1 DEF Good, ReviewBound, Reviewed, Opens
<1> QED
  BY <1>1, <1>5, <1>6, <1>7 DEF Good

\* A plan.
LEMMA PlansKeepGood ==
  ASSUME NEW w \in Snapshots, NEW t \in Snapshots, Good(w),
         NEW m, m.exp \in Exps, PlansOn(w, t, m)
  PROVE  Good(t)
BY ExperimentsKeepGood DEF PlansOn

\* A link.
LEMMA LinksKeepGood ==
  ASSUME NEW w \in Snapshots, NEW t \in Snapshots, Good(w),
         NEW m \in Metas, m.kind = "link", LinksTo(w, t, m)
  PROVE  Good(t)
<1>1. EvidenceBound(t)
  BY DEF Good, EvidenceBound, LinksTo
<1>2. LinksSound(t)
  BY DEF Good, LinksSound, LinksTo, LinkAccepted, AcceptedLink, Known
<1>3. ConfirmedBacked(t)
  BY DEF Good, ConfirmedBacked, Backing, LinksTo
<1>4. ReviewBound(t)
  BY DEF Good, ReviewBound, Reviewed, LinksTo, Known
<1> QED
  BY <1>1, <1>2, <1>3, <1>4 DEF Good

\* A resolution, given that a verifier that was needed said yes.
LEMMA ResolvesKeepsGood ==
  ASSUME NEW w \in Snapshots, NEW t \in Snapshots, Good(w),
         NEW m \in Metas, m.kind = "resolve", NEW a \in BOOLEAN, NEW d \in BOOLEAN,
         Resolves(w, t, m, a, d), NeedsReview(w, m) => d
  PROVE  Good(t)
<1> DEFINE z == ResolutionOf(w, m, d)
<1>1. /\ m.hyp \in Hyps /\ m.links \in SUBSET Links /\ m.status \in Resolved
  BY DEF Metas
<1>2. /\ z \in Resolutions /\ z.hyp = m.hyp /\ z.status = m.status
      /\ z.links = m.links /\ z.asked = d
      /\ NeedsReview(w, m) => z.by = "independent"
  BY <1>1 DEF ResolutionOf, Resolutions
<1> HIDE DEF z
<1>3. /\ w.hyps[m.hyp].status = "Open" /\ m.links \subseteq LinksOf(w, m.hyp)
  BY DEF Resolves, ResolutionAccepted
<1>4. /\ t.hyps[m.hyp].status = m.status
      /\ t.hyps[m.hyp].high = w.hyps[m.hyp].high
      /\ \A g \in Hyps \ {m.hyp} : t.hyps[g] = w.hyps[g]
      /\ t.exps = w.exps /\ t.evs = w.evs /\ t.links = w.links
      /\ t.resolutions = w.resolutions \cup {z}
  BY DEF Resolves, z
<1>5. \A g \in Hyps : Known(w, g) => Known(t, g) /\ t.hyps[g].high = w.hyps[g].high
  BY <1>1, <1>4 DEF Known, Resolved
<1>6. w.links \in SUBSET Links /\ w.resolutions \in SUBSET Resolutions
  BY SnapshotParts
<1>7. EvidenceBound(t)
  BY <1>4 DEF Good, EvidenceBound
<1>8. LinksSound(t)
  <2>1. \A l \in w.links : l.hyp \in Hyps
    BY <1>6 DEF Links
  <2> QED
    BY <1>4, <1>5, <2>1 DEF Good, LinksSound
<1>9. ConfirmedBacked(t)
  <2> SUFFICES ASSUME NEW h \in Hyps, t.hyps[h].status = "Confirmed"
               PROVE  \E r \in t.resolutions : \E l \in r.links : Backing(t, h, r, l)
    BY DEF ConfirmedBacked
  <2>1. CASE h # m.hyp
    <3>1. t.hyps[h] = w.hyps[h]
      BY <1>4, <2>1
    <3>2a. PICK r \in w.resolutions : \E l \in r.links : Backing(w, h, r, l)
      BY <3>1 DEF Good, ConfirmedBacked
    <3>2. PICK l \in r.links : Backing(w, h, r, l)
      BY <3>2a
    <3>3. Backing(t, h, r, l)
      BY <1>4, <3>1, <3>2 DEF Backing
    <3> QED
      BY <3>3 DEF Backing
  <2>2. CASE h = m.hyp
    <3>1. m.status = "Confirmed"
      BY <1>4, <2>2
    <3>2. /\ \E l \in m.links : l.rel = "Supports"
          /\ w.hyps[m.hyp].high => HasStrong(m.links, "Supports")
      BY <3>1 DEF Resolves, ResolutionAccepted
    <3>3. PICK l \in m.links : l.rel = "Supports" /\ (w.hyps[m.hyp].high => l.strength >= Strong)
      BY <3>2 DEF HasStrong
    <3>4. l \in w.links /\ l.hyp = m.hyp /\ l \in Links
      BY <1>1, <1>3 DEF LinksOf
    <3>5. Backing(t, h, z, l)
      BY <1>2, <1>4, <2>2, <3>1, <3>3, <3>4 DEF Backing
    <3> QED
      BY <1>2, <3>4, <3>5 DEF Backing
  <2> QED
    BY <2>1, <2>2
<1>10. ReviewBound(t)
  <2> SUFFICES ASSUME NEW r \in t.resolutions
               PROVE  Known(t, r.hyp) /\ Reviewed(t, r)
    BY DEF ReviewBound
  <2>1. CASE r \in w.resolutions
    <3>1. r.hyp \in Hyps
      BY <1>6, <2>1 DEF Resolutions
    <3> QED
      BY <1>5, <2>1, <3>1 DEF Good, ReviewBound, Reviewed
  <2>2. CASE r = z
    <3>1. Known(t, z.hyp)
      BY <1>1, <1>2, <1>3, <1>5 DEF Known
    <3>2. Reviewed(t, z)
      BY <1>2, <1>3, <1>4 DEF Reviewed, NeedsReview, LinksOf
    <3> QED
      BY <2>2, <3>1, <3>2
  <2> QED
    BY <1>4, <2>1, <2>2
<1> QED
  BY <1>7, <1>8, <1>9, <1>10 DEF Good

\* A meta-action that is no request.
LEMMA OthersKeepGood ==
  ASSUME NEW w \in Snapshots, NEW t \in Snapshots, Good(w), NEW m \in Metas,
         NEW a, NEW d, Does(w, t, m, a, d), m.kind # "resolve"
  PROVE  Good(t)
<1>1. m.kind \in {"propose", "plan", "link"}
  BY DEF Metas
<1>2. CASE m.kind = "propose"
  <2>1. m.hyp \in Hyps
    BY <1>2 DEF Metas
  <2> QED
    BY <1>2, <2>1, OpensKeepsGood DEF Does
<1>3. CASE m.kind = "plan"
  <2>1. m.exp \in Exps
    BY <1>3 DEF Metas
  <2> QED
    BY <1>3, <2>1, PlansKeepGood, SameKeepsGood DEF Does
<1>4. CASE m.kind = "link"
  BY <1>4, LinksKeepGood, SameKeepsGood DEF Does
<1> QED
  BY <1>1, <1>2, <1>3, <1>4

\* A request that got the verdict it needed.
LEMMA RequestsKeepGood ==
  ASSUME NEW w \in Snapshots, NEW t \in Snapshots, Good(w), NEW m \in Metas,
         NEW a \in BOOLEAN, NEW d \in BOOLEAN, Does(w, t, m, a, d), m.kind = "resolve",
         Resolves(w, t, m, a, d) /\ NeedsReview(w, m) => d
  PROVE  Good(t)
BY ResolvesKeepsGood, SameKeepsGood DEF Does

-----------------------------------------------------------------------------
(***************************************************************************)
(* A response: one meta-action or two.                                     *)
(***************************************************************************)
\* What a resolution needs of the links there are when it is stored.
Unopposed(s, h, status) ==
  /\ status = "Confirmed" => ~HasStrong(LinksOf(s, h), "Contradicts")
  /\ status = "Rejected"  => ~HasStrong(LinksOf(s, h), "Supports")

\* Whatever gives a hypothesis another status is a proposal or a resolution
\* that nothing strong opposes, and adds no link.
LEMMA StatusChanges ==
  ASSUME NEW w \in Snapshots, NEW t \in Snapshots, NEW m \in Metas,
         NEW a \in BOOLEAN, NEW d \in BOOLEAN, Does(w, t, m, a, d),
         NEW h \in Hyps, t.hyps[h].status # w.hyps[h].status
  PROVE  /\ t.links = w.links
         /\ \/ ~Known(w, h) /\ t.hyps[h].status = "Open"
            \/ /\ w.hyps[h].status = "Open" /\ t.hyps[h].status \in Resolved
               /\ Unopposed(w, h, t.hyps[h].status)
<1>1. m.kind \in {"propose", "plan", "link", "resolve"}
  BY DEF Metas
<1>2. CASE m.kind = "propose"
  BY <1>2 DEF Does, Opens
<1>3. CASE m.kind = "plan"
  BY <1>3 DEF Does, Same, PlansOn
<1>4. CASE m.kind = "link"
  BY <1>4 DEF Does, Same, LinksTo
<1>5. CASE m.kind = "resolve"
  <2>1. Resolves(w, t, m, a, d)
    BY <1>5 DEF Does, Same
  <2>2. h = m.hyp /\ t.links = w.links /\ t.hyps[h].status = m.status
    BY <2>1 DEF Resolves
  <2>3. m.status \in Resolved
    BY <1>5 DEF Metas
  <2>4. w.hyps[h].status = "Open" /\ Unopposed(w, h, m.status)
    BY <2>1, <2>2 DEF Resolves, ResolutionAccepted, Unopposed
  <2> QED
    BY <2>2, <2>3, <2>4
<1> QED
  BY <1>1, <1>2, <1>3, <1>4, <1>5

\* Only a link adds links.
LEMMA LinksStay ==
  ASSUME NEW w \in Snapshots, NEW t \in Snapshots, NEW m \in Metas,
         NEW a \in BOOLEAN, NEW d \in BOOLEAN, Does(w, t, m, a, d),
         m.kind # "link"
  PROVE  t.links = w.links
<1>1. m.kind \in {"propose", "plan", "resolve"}
  BY DEF Metas
<1> QED
  BY <1>1 DEF Does, Opens, Same, PlansOn, Resolves

\* A request made of snapshot s.
AsksOf(s, m) == m.kind = "resolve" => m.links \subseteq s.links

\* What the model may propose.
LEMMA MetaShapes ==
  ASSUME NEW s \in Snapshots
  PROVE  /\ Proposals(s) \in SUBSET Metas
         /\ Plans(KnownHyps(s)) \in SUBSET Metas /\ Plans(Hyps) \in SUBSET Metas
         /\ LinkProposals(s) \in SUBSET Metas
         /\ \A n \in {0, 1} : ResolutionRequests(s, n) \in SUBSET Metas
         /\ \A m \in Proposals(s) : m.kind = "propose"
         /\ \A m \in Plans(KnownHyps(s)) \cup Plans(Hyps) : m.kind = "plan"
         /\ \A m \in LinkProposals(s) : m.kind = "link"
         /\ \A n \in {0, 1} : \A m \in ResolutionRequests(s, n) :
              m.kind = "resolve" /\ AsksOf(s, m)
<1>1. KnownHyps(s) \in SUBSET Hyps
  BY DEF KnownHyps
<1>2. s.links \in SUBSET Links /\ s.hyps \in [Hyps -> HypRecords] /\ s.evs \in Seq(Evidence)
  BY SnapshotParts
<1>3. Proposals(s) \in SUBSET Metas /\ \A m \in Proposals(s) : m.kind = "propose"
  <2> SUFFICES ASSUME NEW m \in Proposals(s)
               PROVE  m \in Metas /\ m.kind = "propose"
    OBVIOUS
  <2>1. PICK h \in Hyps, k \in Kinds :
               m = [kind |-> "propose", hyp |-> h, high |-> k.high,
                    validator |-> k.validator]
    BY DEF Proposals
  <2>2. k.high \in BOOLEAN /\ k.validator \in Validators
    BY LedgerAssumption DEF Validators
  <2> QED
    BY <2>1, <2>2 DEF Metas
<1>4. /\ Plans(KnownHyps(s)) \in SUBSET Metas /\ Plans(Hyps) \in SUBSET Metas
      /\ \A m \in Plans(KnownHyps(s)) \cup Plans(Hyps) : m.kind = "plan"
  BY <1>1 DEF Plans, Metas
<1>5. LinkProposals(s) \in SUBSET Metas /\ \A m \in LinkProposals(s) : m.kind = "link"
  <2> SUFFICES ASSUME NEW m \in LinkProposals(s)
               PROVE  m \in Metas /\ m.kind = "link"
    OBVIOUS
  <2>1. /\ m.kind = "link" /\ m.ev \in DOMAIN s.evs /\ m.hyp \in KnownHyps(s)
        /\ m.rel \in Relations /\ m.strength \in Strengths
        /\ m = [kind |-> m.kind, ev |-> m.ev, hyp |-> m.hyp, rel |-> m.rel,
                strength |-> m.strength]
    BY DEF LinkProposals
  <2>2. m.ev \in Nat /\ m.hyp \in Hyps /\ m.strength \in 1..4
    BY <1>1, <1>2, <2>1, LedgerAssumption
  <2> QED
    BY <2>1, <2>2 DEF Metas
<1>6. ASSUME NEW n \in {0, 1}, NEW m \in ResolutionRequests(s, n)
      PROVE  m \in Metas /\ m.kind = "resolve" /\ AsksOf(s, m)
  <2>1. PICK h \in KnownHyps(s) :
               m \in [kind: {"resolve"}, hyp: {h}, revision: {s.hyps[h].revision + n},
                      status: Resolved, links: SUBSET LinksOf(s, h)]
    BY DEF ResolutionRequests
  <2>2. s.hyps[h].revision \in Nat
    BY <1>1, <1>2 DEF HypRecords
  <2>3. /\ m.kind = "resolve" /\ m.hyp \in Hyps /\ m.revision \in Nat
        /\ m.status \in Resolved /\ m.links \in SUBSET s.links
        /\ m = [kind |-> m.kind, hyp |-> m.hyp, revision |-> m.revision,
                status |-> m.status, links |-> m.links]
    BY <1>1, <2>1, <2>2 DEF LinksOf
  <2>4. m \in [kind: {"resolve"}, hyp: Hyps, revision: Nat, status: Resolved,
               links: SUBSET Links]
    BY <1>2, <2>3
  <2> QED
    BY <2>3, <2>4 DEF Metas, AsksOf
<1> QED
  BY <1>3, <1>4, <1>5, <1>6

\* A response is one meta-action, or two of which the second adds no link.
IsBatch(s, ms) ==
  /\ ms \in Seq(Metas)
  /\ \A i \in DOMAIN ms : AsksOf(s, ms[i])
  /\ \/ Len(ms) = 1
     \/ Len(ms) = 2 /\ ms[2].kind # "link" /\ ms[1].kind # "plan"
        /\ (ms[2].kind = "resolve" => ms[1].kind # "propose")

\* What a response may be made of.
LEMMA BatchShapes ==
  ASSUME NEW s \in Snapshots, NEW ms \in Batches(s)
  PROVE  IsBatch(s, ms)
<1>1. PICK shape \in Shapes : ms \in BatchesOf(shape, s)
  BY DEF Batches
<1>2. shape \in {"propose", "plan", "link", "resolve", "propose-plan",
                 "link-resolve", "resolve-resolve"}
  BY LedgerAssumption
<1>3. ASSUME NEW m \in Metas, AsksOf(s, m), ms = <<m>>
      PROVE  IsBatch(s, ms)
  BY <1>3 DEF IsBatch
<1>4. ASSUME NEW m \in Metas, NEW n \in Metas, AsksOf(s, m), AsksOf(s, n),
             n.kind # "link", m.kind # "plan", n.kind = "resolve" => m.kind # "propose",
             ms = <<m, n>>
      PROVE  IsBatch(s, ms)
  <2>1. ms \in Seq(Metas) /\ Len(ms) = 2 /\ DOMAIN ms = 1..2 /\ ms[1] = m /\ ms[2] = n
    BY <1>4
  <2> QED
    BY <1>4, <2>1 DEF IsBatch
<1>5. CASE shape = "propose"
  BY <1>1, <1>3, <1>5, MetaShapes DEF BatchesOf, AsksOf
<1>6. CASE shape = "plan"
  BY <1>1, <1>3, <1>6, MetaShapes DEF BatchesOf, AsksOf
<1>7. CASE shape = "link"
  BY <1>1, <1>3, <1>7, MetaShapes DEF BatchesOf, AsksOf
<1>8. CASE shape = "resolve"
  BY <1>1, <1>3, <1>8, MetaShapes DEF BatchesOf
<1>9. CASE shape = "propose-plan"
  <2>1. PICK m \in Proposals(s), n \in Plans(Hyps) : ms = <<m, n>>
    BY <1>1, <1>9 DEF BatchesOf, Pairs
  <2> QED
    BY <1>4, <2>1, MetaShapes DEF AsksOf
<1>10. CASE shape = "link-resolve"
  <2>1. PICK m \in LinkProposals(s), n \in ResolutionRequests(s, 0) : ms = <<m, n>>
    BY <1>1, <1>10 DEF BatchesOf, Pairs
  <2> QED
    BY <1>4, <2>1, MetaShapes DEF AsksOf
<1>11. CASE shape = "resolve-resolve"
  <2>1. PICK m \in ResolutionRequests(s, 0),
             n \in ResolutionRequests(s, 0) \cup ResolutionRequests(s, 1) : ms = <<m, n>>
    BY <1>1, <1>11 DEF BatchesOf, Pairs
  <2> QED
    BY <1>4, <2>1, MetaShapes
<1> QED
  BY <1>2, <1>5, <1>6, <1>7, <1>8, <1>9, <1>10, <1>11

\* The requests Approved looks at.
AskedFor(s, ms, h) == {i \in Requests(ms) : ms[i].hyp = h /\ NeedsReview(s, ms[i])}

\* The verdict that is kept for a hypothesis is the last request's.
LEMMA ApprovedIsLast ==
  ASSUME NEW s, NEW ms \in Seq(Metas), NEW verdicts, NEW h,
         Approved(s, ms, verdicts, h), NEW i \in AskedFor(s, ms, h),
         \A j \in AskedFor(s, ms, h) : j <= i
  PROVE  verdicts[i] /\ ResolutionAccepted(s, ms[i])
<1> DEFINE A == AskedFor(s, ms, h)
<1>1. DOMAIN ms = 1..Len(ms) /\ Len(ms) \in Nat
  OBVIOUS
<1>2. A \in SUBSET (1..Len(ms))
  BY <1>1 DEF AskedFor, Requests
<1>3. i \in Nat /\ A \in SUBSET (1..i)
  BY <1>2
<1>4. Max(A) = i
  BY <1>3, MaxIs
<1>5. verdicts[Max(A)] /\ ResolutionAccepted(s, ms[Max(A)])
  BY DEF Approved, AskedFor
<1> QED
  BY <1>4, <1>5

\* Whether a request needs the verifier does not depend on what the
\* meta-action before it did.
LEMMA NeedsReviewBefore ==
  ASSUME NEW s \in Snapshots, NEW w \in Snapshots, NEW m \in Metas, NEW n \in Metas,
         NEW a \in BOOLEAN, NEW d \in BOOLEAN, Does(s, w, m, a, d),
         m.kind \in {"link", "resolve"}, n.kind = "resolve", AsksOf(s, n)
  PROVE  NeedsReview(w, n) => NeedsReview(s, n)
<1>1. n.hyp \in Hyps
  BY DEF Metas
<1>2. w.hyps[n.hyp].high = s.hyps[n.hyp].high
  BY <1>1 DEF Does, Same, LinksTo, Resolves
<1> QED
  BY <1>2 DEF NeedsReview, AsksOf

\* The approval a single request got is the verdict on it.
LEMMA BoundAlone ==
  ASSUME NEW s \in Snapshots, NEW ms, IsBatch(s, ms), Len(ms) = 1, NEW verdicts,
         NEW t, Resolves(s, t, ms[1], Passed(s, ms, verdicts, 1), Verdict(ms, verdicts, 1)),
         NeedsReview(s, ms[1]), ms[1].kind = "resolve"
  PROVE  Verdict(ms, verdicts, 1)
<1>1. DOMAIN ms = 1..1 /\ ms \in Seq(Metas)
  BY DEF IsBatch
<1>2. Approved(s, ms, verdicts, ms[1].hyp)
  BY DEF Resolves, Passed
<1>3. 1 \in AskedFor(s, ms, ms[1].hyp) /\ \A j \in AskedFor(s, ms, ms[1].hyp) : j <= 1
  BY <1>1 DEF AskedFor, Requests
<1> QED
  BY <1>1, <1>2, <1>3, ApprovedIsLast DEF Verdict

\* So is the approval the first of two requests got: were it the verdict on
\* the second, then the second, made for the same revision, would be refused
\* and the commit with it.
LEMMA BoundFirst ==
  ASSUME NEW s \in Snapshots, NEW w \in Snapshots, NEW t \in Snapshots,
         NEW ms, IsBatch(s, ms), Len(ms) = 2, NEW verdicts, NEW a, NEW d,
         Resolves(s, w, ms[1], Passed(s, ms, verdicts, 1), Verdict(ms, verdicts, 1)),
         NeedsReview(s, ms[1]), ms[1].kind = "resolve",
         Does(w, t, ms[2], a, d)
  PROVE  Verdict(ms, verdicts, 1)
<1> DEFINE h == ms[1].hyp
<1>1. DOMAIN ms = 1..2 /\ ms \in Seq(Metas)
  BY DEF IsBatch
<1>2. Approved(s, ms, verdicts, h)
  BY DEF Resolves, Passed
<1>3. 1 \in AskedFor(s, ms, h)
  BY <1>1 DEF AskedFor, Requests
<1>4. 2 \notin AskedFor(s, ms, h)
  <2> SUFFICES ASSUME 2 \in AskedFor(s, ms, h)
               PROVE  FALSE
    OBVIOUS
  <2>1. \A j \in AskedFor(s, ms, h) : j <= 2
    BY <1>1 DEF AskedFor, Requests
  <2>2. ResolutionAccepted(s, ms[2])
    BY <1>1, <1>2, <2>1, ApprovedIsLast
  <2>3. ms[2].hyp = h /\ ms[2].kind = "resolve"
    BY DEF AskedFor, Requests
  <2>4. ms[2].revision = s.hyps[h].revision /\ ms[1].revision = s.hyps[h].revision
    BY <2>2, <2>3 DEF ResolutionAccepted, Resolves
  <2>5. w.hyps[h].revision = ms[1].revision + 1
    BY DEF Resolves
  <2>6. w.hyps[h].revision = ms[2].revision
    BY <2>3 DEF Does, Current
  <2>7. ms[1].revision \in Nat
    <3>1. ms[1] \in Metas
      BY <1>1, SMTT(40)
    <3> QED
      BY <3>1 DEF Metas
  <2> QED
    BY <2>4, <2>5, <2>6, <2>7
<1>5. \A j \in AskedFor(s, ms, h) : j <= 1
  BY <1>1, <1>4 DEF AskedFor, Requests
<1> QED
  BY <1>1, <1>2, <1>3, <1>5, ApprovedIsLast DEF Verdict

\* And the approval the second of two meta-actions got.
LEMMA BoundSecond ==
  ASSUME NEW s \in Snapshots, NEW w \in Snapshots, NEW t \in Snapshots,
         NEW ms, IsBatch(s, ms), Len(ms) = 2, NEW verdicts,
         NEW a \in BOOLEAN, NEW d \in BOOLEAN, Does(s, w, ms[1], a, d),
         Resolves(w, t, ms[2], Passed(s, ms, verdicts, 2), Verdict(ms, verdicts, 2)),
         NeedsReview(w, ms[2]), ms[2].kind = "resolve"
  PROVE  Verdict(ms, verdicts, 2)
<1> DEFINE h == ms[2].hyp
<1>1. DOMAIN ms = 1..2 /\ ms \in Seq(Metas) /\ ms[1] \in Metas /\ ms[2] \in Metas
  <2>1. ms \in Seq(Metas)
    BY DEF IsBatch
  <2> QED
    BY <2>1, SMTT(40)
<1>2. Approved(s, ms, verdicts, h)
  BY DEF Resolves, Passed
<1>3. ms[1].kind \in {"link", "resolve"} /\ AsksOf(s, ms[2])
  <2>1. ms[1].kind \in {"propose", "plan", "link", "resolve"}
    BY <1>1 DEF Metas
  <2> QED
    BY <1>1, <2>1 DEF IsBatch
<1>4. NeedsReview(s, ms[2])
  BY <1>1, <1>3, NeedsReviewBefore
<1>5. 2 \in AskedFor(s, ms, h) /\ \A j \in AskedFor(s, ms, h) : j <= 2
  BY <1>1, <1>4 DEF AskedFor, Requests
<1> QED
  BY <1>1, <1>2, <1>5, ApprovedIsLast DEF Verdict

\* What a response makes of the ledger.
Answers(s, t, ms, verdicts) ==
  \/ Len(ms) = 1 /\ Does(s, t, ms[1], Passed(s, ms, verdicts, 1), Verdict(ms, verdicts, 1))
  \/ /\ Len(ms) = 2
     /\ \E w \in Snapshots :
          /\ Does(s, w, ms[1], Passed(s, ms, verdicts, 1), Verdict(ms, verdicts, 1))
          /\ Does(w, t, ms[2], Passed(s, ms, verdicts, 2), Verdict(ms, verdicts, 2))

\* The events the assembler drafted make of the stored ledger what the
\* assembler saw them make of its working copy.
LEMMA CommitAnswers ==
  ASSUME NEW s \in Snapshots, NEW v \in Nat, NEW ms, IsBatch(s, ms), NEW verdicts,
         Assemble(s, v, ms, verdicts).ok
  PROVE  LET r == Reduce(s, v, Assemble(s, v, ms, verdicts).evs)
         IN r.led \in Snapshots /\ Answers(s, r.led, ms, verdicts)
<1> DEFINE P(i) == Passed(s, ms, verdicts, i)
           V(i) == Verdict(ms, verdicts, i)
           plan == Assemble(s, v, ms, verdicts)
           es == MetaEvents(s, ms[1], P(1), V(1))
           q == Reduce(s, v, es)
           one == Assembled(s, ms, verdicts, Begun(s, v), 1)
<1>1. ms \in Seq(Metas) /\ (Len(ms) = 1 \/ Len(ms) = 2)
  BY DEF IsBatch
<1>2. ms[1] \in Metas
  BY <1>1
<1>3. \A i : P(i) \in BOOLEAN /\ V(i) \in BOOLEAN
  BY DEF Passed, Verdict
<1>4. /\ es \in Seq(Events)
      /\ q.ok => q.led \in Snapshots /\ Does(s, q.led, ms[1], P(1), V(1))
  BY <1>2, <1>3, MetaDoes
<1>5. /\ one.ok <=> q.ok
      /\ one.led = q.led /\ one.at = q.at /\ one.evs = es
  <2>1. one = [ok |-> TRUE /\ q.ok, led |-> q.led, at |-> q.at, evs |-> <<>> \o es]
    BY DEF Assembled, Begun
  <2>2. <<>> \o es = es
    BY <1>4
  <2> HIDE DEF es, q, one
  <2> QED
    BY <2>1, <2>2
<1>6. CASE Len(ms) = 1
  <2>1. plan = one
    BY <1>1, <1>6, AssembleRuns
  <2> HIDE DEF es, q, one, plan, P, V
  <2>2. plan.ok
    BY DEF plan
  <2>3. Reduce(s, v, plan.evs) = q /\ q.ok
    BY <1>5, <2>1, <2>2 DEF q
  <2>4. Answers(s, q.led, ms, verdicts)
    BY <1>4, <1>6, <2>3 DEF Answers, P, V
  <2> QED
    BY <1>4, <2>3, <2>4 DEF plan
<1>7. CASE Len(ms) = 2
  <2> DEFINE fs == MetaEvents(one.led, ms[2], P(2), V(2))
             r == Reduce(one.led, one.at, fs)
  <2>1. plan = Assembled(s, ms, verdicts, one, 2)
    BY <1>1, <1>7, AssembleRuns
  <2>2. plan = [ok |-> one.ok /\ r.ok, led |-> r.led, at |-> r.at, evs |-> one.evs \o fs]
    BY <2>1 DEF Assembled
  <2>3. ms[2] \in Metas
    BY <1>1, <1>7
  <2>4. plan.ok
    OBVIOUS
  <2> HIDE DEF es, q, one, plan, r, fs, P, V
  <2>5. one.ok /\ r.ok /\ plan.evs = es \o fs
    BY <1>5, <2>2, <2>4
  <2>6. q.led \in Snapshots /\ q.at \in Nat /\ q.ok
    <3>1. q.ok
      BY <1>5, <2>5
    <3> QED
      BY <1>4, <3>1, ReduceAppend DEF q
  <2>7. /\ fs \in Seq(Events)
        /\ r.led \in Snapshots /\ Does(q.led, r.led, ms[2], P(2), V(2))
    BY <1>3, <1>5, <2>3, <2>5, <2>6, MetaDoes DEF r, fs
  <2>8. Reduce(s, v, plan.evs) = r
    BY <1>4, <1>5, <2>5, <2>6, <2>7, ReduceAppend DEF q, r
  <2>9. Answers(s, r.led, ms, verdicts)
    BY <1>4, <1>7, <2>6, <2>7 DEF Answers, P, V
  <2> QED
    BY <2>7, <2>8, <2>9 DEF plan
<1> QED
  BY <1>1, <1>6, <1>7

\* A meta-action records no evidence, and of the Experiments it only plans
\* one that was not there.
OnlyPlans(w, t) ==
  /\ t.evs = w.evs
  /\ \A y \in Exps : \/ t.exps[y] = w.exps[y]
                     \/ w.exps[y].status = "absent" /\ t.exps[y].status = "Planned"

\* Any meta-action.
LEMMA DoesOnlyPlans ==
  ASSUME NEW w, NEW t, NEW m \in Metas, NEW a, NEW d, Does(w, t, m, a, d)
  PROVE  OnlyPlans(w, t)
<1>1. m.kind \in {"propose", "plan", "link", "resolve"}
  BY DEF Metas
<1>2. CASE m.kind = "propose"
  BY <1>2 DEF Does, Opens, OnlyPlans
<1>3. CASE m.kind = "plan"
  BY <1>3 DEF Does, Same, PlansOn, OnlyPlans
<1>4. CASE m.kind = "link"
  BY <1>4 DEF Does, Same, LinksTo, OnlyPlans
<1>5. CASE m.kind = "resolve"
  BY <1>5 DEF Does, Same, Resolves, OnlyPlans
<1> QED
  BY <1>1, <1>2, <1>3, <1>4, <1>5

\* So does a response.
LEMMA AnswersOnlyPlan ==
  ASSUME NEW s, NEW t, NEW ms, IsBatch(s, ms), NEW verdicts, Answers(s, t, ms, verdicts)
  PROVE  OnlyPlans(s, t)
<1>1. ms \in Seq(Metas)
  BY DEF IsBatch
<1>2. ms[1] \in Metas /\ (Len(ms) = 2 => ms[2] \in Metas)
  BY <1>1 DEF Answers
<1>3. CASE Len(ms) = 1
  BY <1>2, <1>3, DoesOnlyPlans DEF Answers
<1>4. CASE Len(ms) = 2
  <2>1. PICK w : OnlyPlans(s, w) /\ OnlyPlans(w, t)
    BY <1>2, <1>4, DoesOnlyPlans DEF Answers
  <2> QED
    BY <2>1 DEF OnlyPlans
<1> QED
  BY <1>3, <1>4 DEF Answers

\* A response keeps a sound ledger sound.
LEMMA AnswersKeepGood ==
  ASSUME NEW s \in Snapshots, NEW t \in Snapshots, Good(s), NEW ms, IsBatch(s, ms),
         NEW verdicts, Answers(s, t, ms, verdicts)
  PROVE  Good(t)
<1> DEFINE P(i) == Passed(s, ms, verdicts, i)
           V(i) == Verdict(ms, verdicts, i)
<1>1. ms \in Seq(Metas)
  BY DEF IsBatch
<1>2. \A i : P(i) \in BOOLEAN /\ V(i) \in BOOLEAN
  BY DEF Passed, Verdict
<1>3. ms[1] \in Metas /\ (Len(ms) = 2 => ms[2] \in Metas)
  BY <1>1 DEF Answers
<1> HIDE DEF P, V
<1>4. CASE Len(ms) = 1
  <2>1. Does(s, t, ms[1], P(1), V(1))
    BY <1>4 DEF Answers, P, V
  <2>2. Resolves(s, t, ms[1], P(1), V(1)) /\ NeedsReview(s, ms[1])
          /\ ms[1].kind = "resolve" => V(1)
    BY <1>4, BoundAlone DEF P, V
  <2>3. CASE ms[1].kind = "resolve"
    BY <1>2, <1>3, <2>1, <2>2, <2>3, RequestsKeepGood
  <2>4. CASE ms[1].kind # "resolve"
    BY <1>2, <1>3, <2>1, <2>4, OthersKeepGood
  <2> QED
    BY <2>3, <2>4
<1>5. CASE Len(ms) = 2
  <2>1. PICK w \in Snapshots : Does(s, w, ms[1], P(1), V(1)) /\ Does(w, t, ms[2], P(2), V(2))
    BY <1>5 DEF Answers, P, V
  <2>2. Resolves(s, w, ms[1], P(1), V(1)) /\ NeedsReview(s, ms[1])
          /\ ms[1].kind = "resolve" => V(1)
    BY <1>5, <2>1, BoundFirst DEF P, V
  <2>3. Resolves(w, t, ms[2], P(2), V(2)) /\ NeedsReview(w, ms[2])
          /\ ms[2].kind = "resolve" => V(2)
    BY <1>2, <1>5, <2>1, BoundSecond DEF P, V
  <2>4. Good(w)
    <3>1. CASE ms[1].kind = "resolve"
      BY <1>2, <1>3, <2>1, <2>2, <3>1, RequestsKeepGood
    <3>2. CASE ms[1].kind # "resolve"
      BY <1>2, <1>3, <2>1, <3>2, OthersKeepGood
    <3> QED
      BY <3>1, <3>2
  <2>5. CASE ms[2].kind = "resolve"
    BY <1>2, <1>3, <1>5, <2>1, <2>3, <2>4, <2>5, RequestsKeepGood
  <2>6. CASE ms[2].kind # "resolve"
    BY <1>2, <1>3, <1>5, <2>1, <2>4, <2>6, OthersKeepGood
  <2> QED
    BY <2>5, <2>6
<1> QED
  BY <1>4, <1>5 DEF Answers

-----------------------------------------------------------------------------
(***************************************************************************)
(* Appends.                                                                *)
(***************************************************************************)
\* One event, appended.
LEMMA AppendOne ==
  ASSUME TypeOK, NEW e \in Events, AppendEvents(<<e>>)
  PROVE  Valid(led, version, e) /\ led' = Applied(led, e) /\ version' \in Nat
<1> DEFINE r == Reduce(led, version, <<e>>)
<1>1. led \in Snapshots /\ version \in Nat
  BY DEF TypeOK
<1>2. r = Step(Fresh(led, version), e)
  BY <1>1, ReduceOne
<1>3. r.ok /\ led' = r.led /\ version' \in Nat
  BY <1>1, LedgerAssumption DEF AppendEvents
<1> HIDE DEF r
<1> QED
  BY <1>1, <1>2, <1>3, StepOk, FreshType

\* persist_cognitive_commit's event changes nothing.
LEMMA DeliberateDoes ==
  ASSUME TypeOK, Deliberate
  PROVE  led' = led /\ version' \in Nat
<1> DEFINE e == [type |-> "Deliberated", version |-> version]
<1>1. e \in Events
  BY DEF TypeOK, Events
<1>2. AppendEvents(<<e>>)
  BY DEF Deliberate
<1>3. Applied(led, e) = led
  BY AppliedNothing
<1> HIDE DEF e
<1> QED
  BY <1>1, <1>2, <1>3, AppendOne

\* An evidence receipt adds evidence whose Experiment is planned.
LEMMA RecordDoes ==
  ASSUME TypeOK, NEW x \in Evidence, Record(x)
  PROVE  /\ led' \in Snapshots /\ version' \in Nat
         /\ led'.evs = Append(led.evs, x)
         /\ x.exp # NoExp => led.exps[x.exp].status # "absent"
         /\ led'.hyps = led.hyps /\ led'.exps = led.exps /\ led'.links = led.links
         /\ led'.resolutions = led.resolutions
<1> DEFINE e == [type |-> "Evidence", is |-> x]
<1>1. e \in Events
  BY DEF Events
<1>2. AppendEvents(<<e>>)
  BY DEF Record
<1>3. Valid(led, version, e) => (x.exp # NoExp => led.exps[x.exp].status # "absent")
  BY DEF Valid
<1>4. led \in Snapshots
  BY DEF TypeOK
<1>5. LET t == Applied(led, e)
      IN /\ t \in Snapshots
         /\ t.evs = Append(led.evs, x)
         /\ t.hyps = led.hyps /\ t.exps = led.exps /\ t.links = led.links
         /\ t.conflicts = led.conflicts /\ t.resolutions = led.resolutions
  BY <1>4, AppliedEvidence
<1> HIDE DEF e
<1> QED
  BY <1>1, <1>2, <1>3, <1>5, AppendOne

\* No transition leaves a status that ended.
LEMMA ComesFromLive ==
  ASSUME NEW to \in ExpStatuses \ {"absent", "Planned"}
  PROVE  ComesFrom(to) \subseteq {"Planned", "Queued", "Running"}
BY DEF ComesFrom, ExpStatuses, Ended

\* A transition changes one Experiment, which was planned and had not ended.
LEMMA MoveChanges ==
  ASSUME TypeOK, NEW x \in Exps, NEW to \in ExpStatuses \ {"absent", "Planned"},
         NEW evs \in SUBSET DOMAIN led.evs, Move(x, to, evs)
  PROVE  /\ led' \in Snapshots /\ version' \in Nat
         /\ led.exps[x].status \in {"Planned", "Queued", "Running"}
         /\ led'.exps[x].status = to /\ led'.exps[x].hyp = led.exps[x].hyp
         /\ to = "Observed" => led'.exps[x].evs = evs
         /\ led.exps[x].task => led'.exps[x].task
         /\ \A y \in Exps \ {x} : led'.exps[y] = led.exps[y]
         /\ led'.hyps = led.hyps /\ led'.evs = led.evs /\ led'.links = led.links
         /\ led'.resolutions = led.resolutions
<1> DEFINE e == MoveOf(led, x, to, evs)
<1>1. led \in Snapshots /\ led.exps[x] \in ExpRecords /\ led.evs \in Seq(Evidence)
  BY SnapshotParts DEF TypeOK
<1>2. led.exps[x].revision \in Nat /\ led.exps[x].attempt \in Nat
  BY <1>1 DEF ExpRecords
<1>3. evs \in SUBSET Nat
  BY <1>1
<1>4. e \in Events /\ e.type = "Moved" /\ e.exp = x /\ e.to = to /\ e.evs = evs
  BY <1>2, <1>3 DEF MoveOf, Events
<1>5. AppendEvents(<<e>>)
  BY DEF Move
<1> HIDE DEF e
<1>6. Valid(led, version, e) /\ led' = Applied(led, e) /\ version' \in Nat
  BY <1>4, <1>5, AppendOne
<1>7. LET t == Applied(led, e)
      IN /\ t \in Snapshots
         /\ t.exps[x].status = to /\ t.exps[x].hyp = led.exps[x].hyp
         /\ t.exps[x].evs = IF to = "Observed" THEN evs ELSE led.exps[x].evs
         /\ led.exps[x].task => t.exps[x].task
         /\ \A y \in Exps \ {x} : t.exps[y] = led.exps[y]
         /\ t.hyps = led.hyps /\ t.evs = led.evs /\ t.links = led.links
         /\ t.resolutions = led.resolutions
  BY <1>1, <1>4, AppliedMoved
<1>8. led.exps[x].status \in ComesFrom(to)
  BY <1>4, <1>6 DEF Valid
<1>9. led.exps[x].status \in {"Planned", "Queued", "Running"}
  BY <1>8, ComesFromLive
<1> QED
  BY <1>6, <1>7, <1>9

\* What an Experiment was planned for stays.
LEMMA MoveDoes ==
  ASSUME TypeOK, NEW x \in Exps, NEW to \in ExpStatuses \ {"absent", "Planned"},
         NEW evs \in SUBSET DOMAIN led.evs, Move(x, to, evs)
  PROVE  \A y \in Exps : led.exps[y].status # "absent" =>
           led'.exps[y].status # "absent" /\ led'.exps[y].hyp = led.exps[y].hyp
BY MoveChanges

\* A response's commit.
LEMMA CommitDoes ==
  ASSUME TypeOK, NEW ms \in Batches(led), NEW verdicts, Commit(ms, verdicts)
  PROVE  /\ IsBatch(led, ms)
         /\ led' \in Snapshots /\ version' \in Nat /\ Answers(led, led', ms, verdicts)
<1> DEFINE plan == Assemble(led, version, ms, verdicts)
<1>1. led \in Snapshots /\ version \in Nat
  BY DEF TypeOK
<1>2. IsBatch(led, ms)
  BY <1>1, BatchShapes
<1>3. plan.ok /\ AppendEvents(plan.evs)
  BY DEF Commit
<1>4. LET r == Reduce(led, version, plan.evs)
      IN r.led \in Snapshots /\ Answers(led, r.led, ms, verdicts)
  BY <1>1, <1>2, <1>3, CommitAnswers
<1> HIDE DEF plan
<1>5. led' = Reduce(led, version, plan.evs).led /\ version' \in Nat
  BY <1>1, <1>3, LedgerAssumption DEF AppendEvents
<1> QED
  BY <1>2, <1>4, <1>5

-----------------------------------------------------------------------------
(***************************************************************************)
(* The theorems.                                                           *)
(***************************************************************************)
\* The inductive invariant.
Sound == TypeOK /\ Good(led)

\* The empty ledger is sound.
LEMMA SoundAtInit ==
  ASSUME Init
  PROVE  Sound
<1> DEFINE f == CHOOSE h \in Hyps : TRUE
           H == [h \in Hyps |-> [status |-> "absent", revision |-> 0,
                                 high |-> FALSE, validator |-> "Semantic"]]
           X == [x \in Exps |-> [status |-> "absent", revision |-> 0, attempt |-> 0,
                                 hyp |-> f, evs |-> {}, task |-> FALSE]]
<1>1. f \in Hyps
  BY LedgerAssumption
<1>2. led = [hyps |-> H, exps |-> X, evs |-> <<>>, links |-> {}, conflicts |-> {},
             resolutions |-> {}]
  BY DEF Init, EmptyLedger
<1>3. version = 0
  BY DEF Init
<1>4. H \in [Hyps -> HypRecords]
  BY DEF HypRecords, HypStatuses, Validators
<1>5. X \in [Exps -> ExpRecords]
  <2> HIDE DEF f
  <2>1. [status |-> "absent", revision |-> 0, attempt |-> 0, hyp |-> f, evs |-> {},
         task |-> FALSE] \in ExpRecords
    BY <1>1 DEF ExpRecords, ExpStatuses
  <2> QED
    BY <2>1
<1>6. \A h \in Hyps : H[h].status = "absent"
  OBVIOUS
<1> HIDE DEF H, X
<1>7. led \in Snapshots
  BY <1>2, <1>4, <1>5 DEF Snapshots
<1>8. Good(led)
  BY <1>2, <1>6 DEF Good, EvidenceBound, LinksSound, ConfirmedBacked, ReviewBound
<1> QED
  BY <1>3, <1>7, <1>8 DEF Sound, TypeOK

\* More evidence keeps a sound ledger sound.
LEMMA EvidenceKeepsGood ==
  ASSUME NEW w \in Snapshots, NEW t \in Snapshots, Good(w), NEW x \in Evidence,
         t.evs = Append(w.evs, x), x.exp # NoExp => w.exps[x.exp].status # "absent",
         t.hyps = w.hyps, t.exps = w.exps, t.links = w.links,
         t.resolutions = w.resolutions
  PROVE  Good(t)
<1>1. w.evs \in Seq(Evidence)
  BY SnapshotParts
<1>2. /\ DOMAIN t.evs = DOMAIN w.evs \cup {Len(w.evs) + 1}
      /\ t.evs[Len(w.evs) + 1] = x /\ \A i \in DOMAIN w.evs : t.evs[i] = w.evs[i]
  BY <1>1
<1>3. EvidenceBound(t)
  BY <1>2 DEF Good, EvidenceBound
<1>4. LinksSound(t)
  BY <1>2 DEF Good, LinksSound, Known
<1>5. ConfirmedBacked(t)
  BY DEF Good, ConfirmedBacked, Backing
<1>6. ReviewBound(t)
  BY DEF Good, ReviewBound, Reviewed, Known
<1> QED
  BY <1>3, <1>4, <1>5, <1>6 DEF Good

\* Every step keeps it.
LEMMA SoundKept ==
  ASSUME Sound, [Next]_lvars
  PROVE  Sound'
<1>1. TypeOK /\ Good(led) /\ led \in Snapshots
  BY DEF Sound, TypeOK
<1>2. CASE Deliberate
  BY <1>1, <1>2, DeliberateDoes DEF Sound, TypeOK
<1>3. ASSUME NEW x \in Evidence, Record(x)
      PROVE  Sound'
  <2>1. led' \in Snapshots /\ version' \in Nat
    BY <1>1, <1>3, RecordDoes
  <2>2. Good(led')
    BY <1>1, <1>3, RecordDoes, EvidenceKeepsGood
  <2> QED
    BY <2>1, <2>2 DEF Sound, TypeOK
<1>4. ASSUME NEW x \in Exps, NEW to \in ExpStatuses \ {"absent", "Planned"},
             NEW evs \in SUBSET DOMAIN led.evs, Move(x, to, evs)
      PROVE  Sound'
  <2>1. led' \in Snapshots /\ version' \in Nat
    BY <1>1, <1>4, MoveChanges
  <2>2. Good(led')
    BY <1>1, <1>4, MoveChanges, MoveDoes, ExperimentsKeepGood
  <2> QED
    BY <2>1, <2>2 DEF Sound, TypeOK
<1>5. ASSUME NEW ms \in Batches(led), NEW verdicts, Commit(ms, verdicts)
      PROVE  Sound'
  <2>1. /\ IsBatch(led, ms)
        /\ led' \in Snapshots /\ version' \in Nat /\ Answers(led, led', ms, verdicts)
    BY <1>1, <1>5, CommitDoes
  <2>2. Good(led')
    BY <1>1, <2>1, AnswersKeepGood
  <2> QED
    BY <2>1, <2>2 DEF Sound, TypeOK
<1>6. CASE UNCHANGED lvars
  BY <1>1, <1>6 DEF Sound, TypeOK, lvars
<1> QED
  BY <1>2, <1>3, <1>4, <1>5, <1>6 DEF Next

\* A response resolves nothing that is contested when it is stored.
LEMMA AnswersUncontested ==
  ASSUME NEW s \in Snapshots, NEW t \in Snapshots, NEW ms, IsBatch(s, ms),
         NEW verdicts, Answers(s, t, ms, verdicts),
         NEW h \in Hyps, s.hyps[h].status = "Open", t.hyps[h].status # "Open"
  PROVE  Unopposed(t, h, t.hyps[h].status)
<1> DEFINE P(i) == Passed(s, ms, verdicts, i)
           V(i) == Verdict(ms, verdicts, i)
<1>1. ms \in Seq(Metas)
  BY DEF IsBatch
<1>2. \A i : P(i) \in BOOLEAN /\ V(i) \in BOOLEAN
  BY DEF Passed, Verdict
<1>3. ms[1] \in Metas /\ (Len(ms) = 2 => ms[2] \in Metas)
  BY <1>1 DEF Answers
<1> HIDE DEF P, V
<1>4. ASSUME NEW u \in Snapshots, t.links = u.links, Unopposed(u, h, t.hyps[h].status)
      PROVE  Unopposed(t, h, t.hyps[h].status)
  BY <1>4 DEF Unopposed, LinksOf
<1>5. CASE Len(ms) = 1
  <2>1. Does(s, t, ms[1], P(1), V(1))
    BY <1>5 DEF Answers, P, V
  <2>2. t.links = s.links /\ Unopposed(s, h, t.hyps[h].status)
    BY <1>2, <1>3, <2>1, StatusChanges DEF Known
  <2> QED
    BY <1>4, <2>2
<1>6. CASE Len(ms) = 2
  <2>1. PICK w \in Snapshots : Does(s, w, ms[1], P(1), V(1)) /\ Does(w, t, ms[2], P(2), V(2))
    BY <1>6 DEF Answers, P, V
  <2>2. t.links = w.links
    <3>1. ms[2].kind # "link"
      BY <1>6 DEF IsBatch
    <3> QED
      BY <1>2, <1>3, <1>6, <2>1, <3>1, LinksStay
  <2>3. CASE w.hyps[h].status = "Open"
    <3>1. Unopposed(w, h, t.hyps[h].status)
      BY <1>2, <1>3, <1>6, <2>1, <2>3, StatusChanges DEF Known
    <3> QED
      BY <1>4, <2>2, <3>1
  <2>4. CASE w.hyps[h].status # "Open"
    <3>1. /\ w.links = s.links /\ w.hyps[h].status \in Resolved
          /\ Unopposed(s, h, w.hyps[h].status)
      BY <1>2, <1>3, <2>1, <2>4, StatusChanges DEF Known
    <3>2. t.hyps[h].status = w.hyps[h].status
      <4> SUFFICES ASSUME t.hyps[h].status # w.hyps[h].status
                   PROVE  FALSE
        OBVIOUS
      <4>1. ~Known(w, h) \/ w.hyps[h].status = "Open"
        BY <1>2, <1>3, <1>6, <2>1, StatusChanges
      <4> QED
        BY <2>4, <3>1, <4>1 DEF Known, Resolved
    <3> QED
      BY <1>4, <2>2, <3>1, <3>2
  <2> QED
    BY <2>3, <2>4
<1> QED
  BY <1>5, <1>6 DEF Answers

\* Nor does any other step.
LEMMA UncontestedStep ==
  ASSUME Sound, [Next]_lvars
  PROVE  Uncontested
<1>1. TypeOK /\ led \in Snapshots
  BY DEF Sound, TypeOK
<1>2. ASSUME led'.hyps = led.hyps
      PROVE  Uncontested
  BY <1>2 DEF Uncontested
<1>3. CASE Deliberate
  BY <1>1, <1>2, <1>3, DeliberateDoes
<1>4. ASSUME NEW x \in Evidence, Record(x)
      PROVE  Uncontested
  BY <1>1, <1>2, <1>4, RecordDoes
<1>5. ASSUME NEW x \in Exps, NEW to \in ExpStatuses \ {"absent", "Planned"},
             NEW evs \in SUBSET DOMAIN led.evs, Move(x, to, evs)
      PROVE  Uncontested
  BY <1>1, <1>2, <1>5, MoveChanges
<1>6. ASSUME NEW ms \in Batches(led), NEW verdicts, Commit(ms, verdicts)
      PROVE  Uncontested
  <2>1. IsBatch(led, ms) /\ led' \in Snapshots /\ Answers(led, led', ms, verdicts)
    BY <1>1, <1>6, CommitDoes
  <2>2. ASSUME NEW h \in Hyps, led.hyps[h].status = "Open", led'.hyps[h].status # "Open"
        PROVE  Unopposed(led', h, led'.hyps[h].status)
    BY <1>1, <2>1, <2>2, AnswersUncontested
  <2> QED
    BY <2>2 DEF Uncontested, Unopposed
<1>7. CASE UNCHANGED lvars
  BY <1>2, <1>7 DEF lvars
<1> QED
  BY <1>3, <1>4, <1>5, <1>6, <1>7 DEF Next

\* What the inductive invariant says.
LEMMA SoundSays ==
  ASSUME Sound
  PROVE  TypeOK /\ ConfirmedIsTraceable /\ ApprovalIsBound
<1>1. TypeOK /\ Good(led) /\ led \in Snapshots
  BY DEF Sound, TypeOK
<1>2. ConfirmedIsTraceable
  <2> SUFFICES ASSUME NEW h \in Hyps, led.hyps[h].status = "Confirmed"
               PROVE  \E r \in led.resolutions : \E l \in r.links \cap led.links :
                        /\ r.hyp = h /\ r.status = "Confirmed"
                        /\ l.hyp = h /\ l.rel = "Supports"
                        /\ led.hyps[h].high => l.strength >= Strong
                        /\ led.evs[l.ev].ok
                        /\ led.evs[l.ev].exp \in Exps
                        /\ led.exps[led.evs[l.ev].exp].hyp = h
    BY DEF ConfirmedIsTraceable
  <2>1a. PICK r \in led.resolutions : \E l \in r.links : Backing(led, h, r, l)
    BY <1>1 DEF Good, ConfirmedBacked
  <2>1. PICK l \in r.links : Backing(led, h, r, l)
    BY <2>1a
  <2>2. /\ r \in led.resolutions /\ l \in r.links \cap led.links
        /\ r.hyp = h /\ r.status = "Confirmed"
        /\ l.hyp = h /\ l.rel = "Supports"
        /\ led.hyps[h].high => l.strength >= Strong
    BY <2>1 DEF Backing
  <2>3. /\ l.ev \in DOMAIN led.evs /\ led.evs[l.ev].ok /\ led.evs[l.ev].exp # NoExp
        /\ led.exps[led.evs[l.ev].exp].hyp = h
    BY <1>1, <2>2 DEF Good, LinksSound
  <2>4. led.evs[l.ev].exp \in Exps
    <3>1. led.evs \in Seq(Evidence)
      BY <1>1, SnapshotParts
    <3>2. led.evs[l.ev] \in Evidence
      BY <2>3, <3>1
    <3> QED
      BY <2>3, <3>2 DEF Evidence
  <2> QED
    BY <2>2, <2>3, <2>4
<1>3. ApprovalIsBound
  BY <1>1 DEF Good, ReviewBound, Reviewed, ApprovalIsBound
<1> QED
  BY <1>1, <1>2, <1>3

\* The reducer, the validators and the assembler keep a snapshot well formed.
THEOREM LedgerTypes == Spec => []TypeOK
<1>1. Init => Sound
  BY SoundAtInit
<1>2. Sound /\ [Next]_lvars => Sound'
  BY SoundKept
<1>3. Sound => TypeOK
  BY SoundSays
<1> QED
  BY <1>1, <1>2, <1>3, PTL DEF Spec

\* Whatever a model proposes, in responses of one or two meta-actions, a
\* Confirmed hypothesis rests on a supporting link to evidence of a call that
\* succeeded and was bound to an Experiment on it.
THEOREM ConfirmedTraceable == Spec => []ConfirmedIsTraceable
<1>1. Init => Sound
  BY SoundAtInit
<1>2. Sound /\ [Next]_lvars => Sound'
  BY SoundKept
<1>3. Sound => ConfirmedIsTraceable
  BY SoundSays
<1> QED
  BY <1>1, <1>2, <1>3, PTL DEF Spec

\* A resolution that needed the independent verifier has its approval of this
\* very request, although review_resolution_requests keeps one verdict per
\* hypothesis.
THEOREM ApprovalBound == Spec => []ApprovalIsBound
<1>1. Init => Sound
  BY SoundAtInit
<1>2. Sound /\ [Next]_lvars => Sound'
  BY SoundKept
<1>3. Sound => ApprovalIsBound
  BY SoundSays
<1> QED
  BY <1>1, <1>2, <1>3, PTL DEF Spec

\* No step confirms what something strong contradicts in the ledger the
\* resolution goes into, or rejects what something strong supports there.
THEOREM ResolutionsUncontested == Spec => ResolvedUncontested
<1>1. Init => Sound
  BY SoundAtInit
<1>2. Sound /\ [Next]_lvars => Sound'
  BY SoundKept
<1>3. Sound /\ [Next]_lvars => [Uncontested]_lvars
  BY UncontestedStep
<1> QED
  BY <1>1, <1>2, <1>3, PTL DEF Spec, ResolvedUncontested

-----------------------------------------------------------------------------
(***************************************************************************)
(* Deciding on a copy of the ledger.                                       *)
(***************************************************************************)
Fields == {"pc", "then", "cache", "at", "rebases", "assigned", "call", "exp",
           "outcome", "evs"}

\* What a step of one session may rely on.
Shaped(r) ==
  /\ r = [f \in Fields |-> r[f]]
  /\ r.at \in Nat
  /\ r.assigned \in Exps \cup {NoExp}
  /\ r.exp \in Exps \cup {NoExp}
  /\ r.call \in {"direct", "spawn"} => r.exp \in Exps
  /\ r.outcome \in Outcomes

SessionsShaped ==
  /\ sess = [s \in Sessions |-> sess[s]]
  /\ \A s \in Sessions : Shaped(sess[s])

\* A session that waits for a load has the empty copy at version 0, which
\* would be a wrong copy if the ledger could have events and version 0.
StoreInv ==
  /\ version \in Nat
  /\ version = 0 => led = EmptyLedger
  /\ SessionsShaped
  /\ CacheIsCurrent

\* A copy, at a version, that session records may hold next to the ledger.
GoodCopy(copy, at) ==
  /\ at \in Nat
  /\ at <= version
  /\ at = version => copy = led

-----------------------------------------------------------------------------
\* An append raises the version.
LEMMA AppendGrows ==
  ASSUME version \in Nat, NEW es, AppendEvents(es)
  PROVE  version' \in Nat /\ version' > version
BY DEF AppendEvents

\* The empty copy at version 0 is as good as any.
LEMMA EmptyIsGood ==
  ASSUME StoreInv
  PROVE  GoodCopy(EmptyLedger, 0)
BY DEF StoreInv, GoodCopy

\* If one session's record changes, to one whose copy is its old copy, the
\* ledger, or the empty copy, and the ledger stays, the invariant holds.
LEMMA SessionStep ==
  ASSUME StoreInv, NEW s \in Sessions, NEW r,
         Becomes(s, r), UNCHANGED lvars,
         Shaped(r), GoodCopy(r.cache, r.at)
  PROVE  StoreInv'
<1>1. /\ led' = led /\ version' = version
      /\ sess' = [sess EXCEPT ![s] = r]
  BY DEF Becomes, lvars
<1>2. SessionsShaped'
  BY <1>1 DEF StoreInv, SessionsShaped, Shaped
<1>3. CacheIsCurrent'
  BY <1>1 DEF StoreInv, SessionsShaped, CacheIsCurrent, GoodCopy
<1> QED
  BY <1>1, <1>2, <1>3 DEF StoreInv

\* An append makes every copy old, and the session that made it drops its own.
LEMMA AppendStep ==
  ASSUME StoreInv, NEW s \in Sessions, NEW r, NEW es,
         Becomes(s, r), AppendEvents(es),
         Shaped(r), r.at = 0, r.cache = EmptyLedger
  PROVE  StoreInv'
<1>1. version' \in Nat /\ version' > version
  BY AppendGrows DEF StoreInv
<1>2. sess' = [sess EXCEPT ![s] = r]
  BY DEF Becomes
<1>3. SessionsShaped'
  BY <1>2 DEF StoreInv, SessionsShaped, Shaped
<1>4. CacheIsCurrent'
  BY <1>1, <1>2 DEF StoreInv, SessionsShaped, Shaped, CacheIsCurrent
<1> QED
  BY <1>1, <1>3, <1>4 DEF StoreInv

\* The same for an append that no session made.
LEMMA ForeignAppend ==
  ASSUME StoreInv, NEW es, AppendEvents(es), UNCHANGED sess
  PROVE  StoreInv'
<1>1. version' \in Nat /\ version' > version
  BY AppendGrows DEF StoreInv
<1>2. SessionsShaped'
  BY DEF StoreInv, SessionsShaped, Shaped
<1>3. CacheIsCurrent'
  BY <1>1 DEF StoreInv, SessionsShaped, Shaped, CacheIsCurrent
<1> QED
  BY <1>1, <1>2, <1>3 DEF StoreInv

\* The records a turn's steps are built from.  Before refresh_ledger: the
\* empty copy.
LEMMA LoadingIs ==
  ASSUME StoreInv, NEW s \in Sessions, NEW step
  PROVE  /\ Shaped(Loading(s, step))
         /\ Loading(s, step).at = 0
         /\ Loading(s, step).cache = EmptyLedger
         /\ GoodCopy(Loading(s, step).cache, Loading(s, step).at)
<1>1. Shaped(sess[s])
  BY DEF StoreInv, SessionsShaped
<1>2. /\ Shaped(Loading(s, step))
      /\ Loading(s, step).at = 0
      /\ Loading(s, step).cache = EmptyLedger
  BY <1>1 DEF Shaped, Loading, Fields
<1> QED
  BY <1>2, EmptyIsGood

\* ... after refresh_ledger: the ledger itself.
LEMMA LoadedIs ==
  ASSUME StoreInv, NEW s \in Sessions, NEW step
  PROVE  /\ Shaped(Loaded(s, step))
         /\ GoodCopy(Loaded(s, step).cache, Loaded(s, step).at)
<1>1. Shaped(sess[s]) /\ version \in Nat
  BY DEF StoreInv, SessionsShaped
<1>2. /\ Shaped(Loaded(s, step))
      /\ Loaded(s, step).at = version
      /\ Loaded(s, step).cache = led
  BY <1>1 DEF Shaped, Loaded, Fields
<1> QED
  BY <1>1, <1>2 DEF GoodCopy

\* ... and between loads: the copy the session has.
LEMMA OwnCopyIsGood ==
  ASSUME StoreInv, NEW s \in Sessions
  PROVE  Shaped(sess[s]) /\ GoodCopy(sess[s].cache, sess[s].at)
BY DEF StoreInv, SessionsShaped, CacheIsCurrent, GoodCopy, Shaped

\* Going back to the model keeps the copy.
LEMMA NextResponseIs ==
  ASSUME NEW r, Shaped(r)
  PROVE  /\ Shaped(NextResponse(r))
         /\ NextResponse(r).at = r.at
         /\ NextResponse(r).cache = r.cache
BY DEF Shaped, NextResponse, Fields, Outcomes

-----------------------------------------------------------------------------
\* Every step keeps the invariant.  Steps that leave the ledger alone are
\* SessionStep, steps that append are AppendStep or ForeignAppend.
LEMMA StoreStep ==
  ASSUME StoreInv, StoreNext
  PROVE  StoreInv'
<1>1. ASSUME NEW s \in Sessions, NEW x \in Exps \cup {NoExp}, BeginTurn(s, x)
      PROVE  StoreInv'
  <2> DEFINE r == [Loaded(s, "think") EXCEPT !.assigned = x]
  <2>1. Shaped(r) /\ GoodCopy(r.cache, r.at)
    BY LoadedIs DEF Shaped, Fields
  <2> QED
    BY <1>1, <2>1, SessionStep DEF BeginTurn
<1>2. ASSUME NEW s \in Sessions, Load(s)
      PROVE  StoreInv'
  <2> DEFINE r == IF sess[s].then = "think" THEN NextResponse(Loaded(s, "think"))
                                            ELSE Loaded(s, sess[s].then)
  <2>1. Shaped(r) /\ GoodCopy(r.cache, r.at)
    BY LoadedIs, NextResponseIs
  <2> QED
    BY <1>2, <2>1, SessionStep DEF Load
<1>3. ASSUME NEW s \in Sessions, Unchanged(s)
      PROVE  StoreInv'
  <2> DEFINE r == [sess[s] EXCEPT !.pc = "commit"]
  <2>1. Shaped(r) /\ GoodCopy(r.cache, r.at)
    BY OwnCopyIsGood DEF Shaped, Fields
  <2> QED
    BY <1>3, <2>1, SessionStep DEF Unchanged
<1>4. ASSUME NEW s \in Sessions, Rebase(s)
      PROVE  StoreInv'
  <2> DEFINE r == [Loaded(s, "think") EXCEPT !.rebases = sess[s].rebases + 1]
  <2>1. Shaped(r) /\ GoodCopy(r.cache, r.at)
    BY LoadedIs DEF Shaped, Fields
  <2> QED
    BY <1>4, <2>1, SessionStep DEF Rebase
<1>5. ASSUME NEW s \in Sessions, NEW ms, NEW verdicts, CommitMetas(s, ms, verdicts)
      PROVE  StoreInv'
  <2> DEFINE plan == Assemble(sess[s].cache, sess[s].at, ms, verdicts)
             q == Loading(s, "persist")
  <2>1. AppendEvents(plan.evs)
    BY <1>5 DEF CommitMetas, AppendAt
  <2>2. PICK r : /\ Becomes(s, r)
                 /\ \/ r = q
                    \/ \E b \in Exps \X {"direct", "spawn"} :
                         r = [q EXCEPT !.exp = b[1], !.call = b[2]]
    BY <1>5 DEF CommitMetas
  <2>3. Shaped(q) /\ q.at = 0 /\ q.cache = EmptyLedger
    BY LoadingIs
  <2>4. Shaped(r) /\ r.at = 0 /\ r.cache = EmptyLedger
    BY <2>2, <2>3 DEF Shaped, Fields
  <2> QED
    BY <2>1, <2>2, <2>4, AppendStep
<1>6. ASSUME NEW s \in Sessions, NoMetas(s)
      PROVE  StoreInv'
  <2> DEFINE r == [sess[s] EXCEPT !.pc = "persist"]
  <2>1. Shaped(r) /\ GoodCopy(r.cache, r.at)
    BY OwnCopyIsGood DEF Shaped, Fields
  <2> QED
    BY <1>6, <2>1, SessionStep DEF NoMetas
<1>7. ASSUME NEW s \in Sessions, Persist(s)
      PROVE  StoreInv'
  BY <1>7, LoadingIs, AppendStep DEF Persist, AppendAt
<1>8. ASSUME NEW s \in Sessions, PersistNothing(s)
      PROVE  StoreInv'
  <2> DEFINE r == [sess[s] EXCEPT !.pc = "act"]
  <2>1. Shaped(r) /\ GoodCopy(r.cache, r.at)
    BY OwnCopyIsGood DEF Shaped, Fields
  <2> QED
    BY <1>8, <2>1, SessionStep DEF PersistNothing
<1>9. ASSUME NEW s \in Sessions, Continue(s) \/ FinalizeNothing(s)
      PROVE  StoreInv'
  <2>1. /\ Shaped(NextResponse(sess[s]))
        /\ GoodCopy(NextResponse(sess[s]).cache, NextResponse(sess[s]).at)
    BY OwnCopyIsGood, NextResponseIs
  <2> QED
    BY <1>9, <2>1, SessionStep DEF Continue, FinalizeNothing
<1>10. ASSUME NEW s \in Sessions, Call(s)
       PROVE  StoreInv'
  <2> DEFINE r == [sess[s] EXCEPT !.pc = "tools", !.exp = sess[s].assigned,
                                  !.cache = EmptyLedger, !.at = 0]
  <2>1. Becomes(s, NextResponse(sess[s])) \/ Becomes(s, r)
    BY <1>10 DEF Call
  <2>2. /\ Shaped(NextResponse(sess[s]))
        /\ GoodCopy(NextResponse(sess[s]).cache, NextResponse(sess[s]).at)
    BY OwnCopyIsGood, NextResponseIs
  <2>3. sess[s].call = "unbound" /\ UNCHANGED lvars
    BY <1>10 DEF Call
  <2>4. Shaped(r) /\ r.at = 0 /\ r.cache = EmptyLedger
    BY <2>3, OwnCopyIsGood, ZenonT(40) DEF Shaped, Fields
  <2> QED
    BY <2>1, <2>2, <2>3, <2>4, EmptyIsGood, SessionStep
<1>11. ASSUME NEW s \in Sessions, StartBound(s)
       PROVE  StoreInv'
  <2> DEFINE r == [sess[s] EXCEPT !.pc = "tools", !.cache = EmptyLedger, !.at = 0]
  <2>1. Shaped(r) /\ r.at = 0 /\ r.cache = EmptyLedger
    BY OwnCopyIsGood DEF Shaped, Fields
  <2> QED
    BY <1>11, <2>1, AppendStep DEF StartBound, AppendAt
<1>12. ASSUME NEW s \in Sessions, Spawn(s)
       PROVE  StoreInv'
  BY <1>12, LoadingIs, AppendStep DEF Spawn, Move
<1>13. ASSUME NEW s \in Sessions, SpawnRefused(s)
       PROVE  StoreInv'
  BY <1>13, LoadingIs, SessionStep DEF SpawnRefused
<1>14. ASSUME NEW s \in Sessions, NEW outcome \in Outcomes,
              RecordResult(s, outcome)
       PROVE  StoreInv'
  <2> DEFINE q == Loading(s, "close")
             r == [q EXCEPT !.outcome = outcome, !.evs = {Len(led.evs) + 1}]
  <2>1. Shaped(r) /\ r.at = 0 /\ r.cache = EmptyLedger
    BY LoadingIs DEF Shaped, Fields
  <2> QED
    BY <1>14, <2>1, AppendStep DEF RecordResult, Record
<1>15. ASSUME NEW s \in Sessions, NEW outcome \in Outcomes,
              RecordNothing(s, outcome)
       PROVE  StoreInv'
  <2> DEFINE q == Loading(s, "close")
             r == [q EXCEPT !.outcome = outcome]
  <2>1. Shaped(r) /\ r.at = 0 /\ r.cache = EmptyLedger
    BY LoadingIs DEF Shaped, Fields
  <2> QED
    BY <1>15, <2>1, EmptyIsGood, SessionStep DEF RecordNothing
<1>16. ASSUME NEW s \in Sessions, FinalizeBound(s)
       PROVE  StoreInv'
  BY <1>16, LoadingIs, AppendStep DEF FinalizeBound, AppendAt
<1>17. ASSUME NEW s \in Sessions, EndTurn(s)
       PROVE  StoreInv'
  <2>1. Shaped(Idle) /\ Idle.at = 0 /\ Idle.cache = EmptyLedger
    BY DEF Shaped, Fields, Idle, Outcomes
  <2> QED
    BY <1>17, <2>1, EmptyIsGood, SessionStep DEF EndTurn
<1>18. ASSUME NEW x, NEW to, NEW evs, TaskMoves(x, to, evs)
       PROVE  StoreInv'
  BY <1>18, ForeignAppend DEF TaskMoves, Move
<1> QED
  BY <1>1, <1>2, <1>3, <1>4, <1>5, <1>6, <1>7, <1>8, <1>9, <1>10, <1>11,
     <1>12, <1>13, <1>14, <1>15, <1>16, <1>17, <1>18 DEF StoreNext

\* A case starts empty and without turns.
LEMMA StoreStarts == StoreInit => StoreInv
<1> SUFFICES ASSUME StoreInit PROVE StoreInv
  OBVIOUS
<1>1. Shaped(Idle) /\ Idle.at = 0 /\ Idle.cache = EmptyLedger
  BY DEF Shaped, Fields, Idle, Outcomes
<1>2. /\ led = EmptyLedger /\ version = 0
      /\ sess = [s \in Sessions |-> Idle]
  BY DEF StoreInit, Init
<1> QED
  BY <1>1, <1>2 DEF StoreInv, SessionsShaped, CacheIsCurrent

-----------------------------------------------------------------------------
\* Every step is a step of CaseLedger or leaves the ledger alone.  Where the
\* version was compared, the copy is the ledger, and what was assembled from
\* the copy is what CaseLedger assembles.
LEMMA StoreRefines ==
  ASSUME StoreInv, StoreNext
  PROVE  [Next]_lvars
<1>1. ASSUME NEW s \in Sessions, NEW es, AppendAt(s, es)
      PROVE  /\ sess[s].cache = led /\ sess[s].at = version
             /\ AppendEvents(es)
  BY <1>1 DEF StoreInv, CacheIsCurrent, AppendAt
<1>2. ASSUME NEW x \in Exps, NEW to \in ExpStatuses \ {"absent", "Planned"},
             NEW evs \in SUBSET DOMAIN led.evs, Move(x, to, evs)
      PROVE  Next
  BY <1>2 DEF Next
<1>3. ASSUME NEW s \in Sessions, NEW ms \in Batches(sess[s].cache), HasRoomFor(ms),
             NEW verdicts \in [Requests(ms) -> BOOLEAN],
             CommitMetas(s, ms, verdicts)
      PROVE  Next
  <2>1. /\ Assemble(sess[s].cache, sess[s].at, ms, verdicts).ok
        /\ AppendAt(s, Assemble(sess[s].cache, sess[s].at, ms, verdicts).evs)
    BY <1>3 DEF CommitMetas
  <2>2. sess[s].cache = led /\ sess[s].at = version
    BY <2>1, <1>1
  <2>3. Commit(ms, verdicts)
    BY <2>1, <2>2, <1>1 DEF Commit
  <2> QED
    BY <1>3, <2>2, <2>3 DEF Next
<1>4. ASSUME NEW s \in Sessions, Persist(s)
      PROVE  Next
  <2>1. AppendAt(s, <<[type |-> "Deliberated", version |-> sess[s].at]>>)
    BY <1>4 DEF Persist
  <2>2. Deliberate
    BY <2>1, <1>1 DEF Deliberate
  <2> QED
    BY <2>2 DEF Next
<1>5. ASSUME NEW s \in Sessions, StartBound(s)
      PROVE  Next
  <2>1. sess[s].exp \in Exps
    BY <1>5 DEF StartBound, StoreInv, SessionsShaped, Shaped
  <2>2. AppendAt(s, <<MoveOf(sess[s].cache, sess[s].exp, "Running", {})>>)
    BY <1>5 DEF StartBound
  <2>3. Move(sess[s].exp, "Running", {})
    BY <2>2, <1>1 DEF Move
  <2> QED
    BY <2>1, <2>3, <1>2 DEF ExpStatuses, Ended
<1>6. ASSUME NEW s \in Sessions, Spawn(s)
      PROVE  Next
  <2>1. sess[s].exp \in Exps
    BY <1>6 DEF Spawn, StoreInv, SessionsShaped, Shaped
  <2>2. Move(sess[s].exp, "Queued", {})
    BY <1>6 DEF Spawn
  <2> QED
    BY <2>1, <2>2, <1>2 DEF ExpStatuses, Ended
<1>7. ASSUME NEW s \in Sessions, NEW outcome \in Outcomes,
             RecordResult(s, outcome)
      PROVE  Next
  <2> DEFINE e == [exp |-> sess[s].exp, ok |-> outcome = "ok", by |-> s]
  <2>1. sess[s].exp \in Exps \cup {NoExp}
    BY DEF StoreInv, SessionsShaped, Shaped
  <2>2. e \in Evidence
    BY <2>1 DEF Evidence
  <2>3. Record(e)
    BY <1>7 DEF RecordResult
  <2> QED
    BY <2>2, <2>3 DEF Next
<1>8. ASSUME NEW s \in Sessions, FinalizeBound(s)
      PROVE  Next
  <2> DEFINE x == sess[s].exp
             to == EndsAs(sess[s].outcome)
             found == sess[s].evs \cap DOMAIN sess[s].cache.evs
             evs == IF to = "Observed" THEN found ELSE {}
  <2>1. x \in Exps /\ sess[s].outcome \in Outcomes
    BY <1>8 DEF FinalizeBound, StoreInv, SessionsShaped, Shaped
  <2>2. AppendAt(s, <<MoveOf(sess[s].cache, x, to, evs)>>)
    BY <1>8 DEF FinalizeBound
  <2>3. sess[s].cache = led /\ AppendEvents(<<MoveOf(led, x, to, evs)>>)
    BY <2>2, <1>1
  <2>4. to \in ExpStatuses \ {"absent", "Planned"}
    BY <2>1 DEF EndsAs, Outcomes, ExpStatuses, Ended
  <2>5. Move(x, to, evs) /\ evs \in SUBSET DOMAIN led.evs
    BY <2>3 DEF Move
  <2> QED
    BY <2>1, <2>4, <2>5, <1>2
<1>9. ASSUME NEW x \in Exps, NEW to \in ExpStatuses,
             NEW evs \in SUBSET DOMAIN led.evs, TaskMoves(x, to, evs)
      PROVE  Next
  <2>1. to \in ExpStatuses \ {"absent", "Planned"} /\ Move(x, to, evs)
    BY <1>9 DEF TaskMoves
  <2> QED
    BY <2>1, <1>2
<1> QED
  BY <1>3, <1>4, <1>5, <1>6, <1>7, <1>8, <1>9
  DEF StoreNext, BeginTurn, Load, Unchanged, Rebase, NoMetas, PersistNothing,
      Continue, Call, SpawnRefused, RecordNothing, FinalizeNothing, EndTurn

-----------------------------------------------------------------------------
\* The invariant holds in every state.
LEMMA StoreInvHolds == StoreSpec => []StoreInv
<1>1. StoreInv /\ [StoreNext]_svars => StoreInv'
  <2> SUFFICES ASSUME StoreInv, [StoreNext]_svars PROVE StoreInv'
    OBVIOUS
  <2>1. CASE StoreNext
    BY <2>1, StoreStep
  <2>2. CASE UNCHANGED svars
    BY <2>2 DEF svars, StoreInv, SessionsShaped, Shaped, CacheIsCurrent
  <2> QED
    BY <2>1, <2>2
<1> QED
  BY <1>1, StoreStarts, PTL DEF StoreSpec

\* A copy with the ledger's version is the ledger, for any number of sessions
\* appending evidence, commits and Experiment moves in any order: the
\* expected_version that LedgerStore::append compares is enough.
THEOREM CopiesAreCurrent == StoreSpec => []CacheIsCurrent
<1>1. StoreInv => CacheIsCurrent
  BY DEF StoreInv
<1> QED
  BY <1>1, StoreInvHolds, PTL

\* Sessions whose turns decide on copies they loaded earlier implement the
\* ledger in which every append is decided and stored in one step.
THEOREM StoreImplementsCaseLedger == StoreSpec => ImplementsCaseLedger
<1>1. StoreInit => Init
  BY DEF StoreInit
<1>2. StoreInv /\ [StoreNext]_svars => [lvars' # lvars => Next]_lvars
  <2> SUFFICES ASSUME StoreInv, [StoreNext]_svars
               PROVE  [lvars' # lvars => Next]_lvars
    OBVIOUS
  <2>1. CASE StoreNext
    BY <2>1, StoreRefines
  <2>2. CASE UNCHANGED svars
    BY <2>2 DEF svars, lvars
  <2> QED
    BY <2>1, <2>2
<1> QED
  BY <1>1, <1>2, StoreInvHolds, PTL DEF StoreSpec, ImplementsCaseLedger

-----------------------------------------------------------------------------
(***************************************************************************)
(* Observed Experiments.                                                   *)
(***************************************************************************)
\* The session is about to end the Experiment of a call that it executed
\* itself and that succeeded.
Closing(r) ==
  /\ r.pc = "close" \/ (r.pc = "load" /\ r.then = "close")
  /\ r.call = "direct"
  /\ r.outcome = "ok"

\* It holds the one piece of evidence that the call left.
Holds(s, r) ==
  Closing(r) => \E n \in DOMAIN s.evs : /\ r.evs = {n}
                                        /\ s.evs[n].exp = r.exp
                                        /\ s.evs[n].ok

ResultsHeld == \A s \in Sessions : Holds(led, sess[s])

\* What an Observed Experiment was given, and that it is in the ledger.
Gathered(s, x) ==
  /\ s.exps[x].evs # {}
  /\ s.exps[x].evs \subseteq DOMAIN s.evs
  /\ \A i \in s.exps[x].evs : s.evs[i].exp = x
  /\ s.exps[x].task \/ \E i \in s.exps[x].evs : s.evs[i].ok

AllGathered == \A x \in Exps : led.exps[x].status = "Observed" => Gathered(led, x)

EvidenceInv == ResultsHeld /\ AllGathered

\* The ledger's evidence only grows.
Grows(s, t) ==
  /\ DOMAIN s.evs \subseteq DOMAIN t.evs
  /\ \A i \in DOMAIN s.evs : t.evs[i] = s.evs[i]

\* What an Experiment was given stays in a ledger that grows.
LEMMA GatheredStays ==
  ASSUME NEW s, NEW t, NEW x, Gathered(s, x), Grows(s, t), t.exps[x] = s.exps[x]
  PROVE  Gathered(t, x)
BY DEF Gathered, Grows

\* What a session holds does too.
LEMMA HeldStays ==
  ASSUME NEW s, NEW t, NEW r, Holds(s, r), Grows(s, t)
  PROVE  Holds(t, r)
<1> SUFFICES ASSUME Closing(r)
             PROVE  \E n \in DOMAIN t.evs : r.evs = {n} /\ t.evs[n].exp = r.exp /\ t.evs[n].ok
  BY DEF Holds
<1>1. PICK n \in DOMAIN s.evs : r.evs = {n} /\ s.evs[n].exp = r.exp /\ s.evs[n].ok
  BY DEF Holds
<1> QED
  BY <1>1 DEF Grows

\* A session's step: every other session's evidence stays.
LEMMA SessionHolds ==
  ASSUME StoreInv, ResultsHeld, Grows(led, led'), NEW s \in Sessions, NEW r,
         Becomes(s, r), Holds(led', r)
  PROVE  ResultsHeld'
<1>1. sess' = [sess EXCEPT ![s] = r] /\ sess = [q \in Sessions |-> sess[q]]
  BY DEF Becomes, StoreInv, SessionsShaped
<1>2. ASSUME NEW q \in Sessions
      PROVE  Holds(led', sess'[q])
  <2>1. CASE q = s
    BY <1>1, <2>1
  <2>2. CASE q # s
    <3>1. sess'[q] = sess[q] /\ Holds(led, sess[q])
      BY <1>1, <2>2 DEF ResultsHeld
    <3> QED
      BY <3>1, HeldStays
  <2> QED
    BY <2>1, <2>2
<1> QED
  BY <1>2 DEF ResultsHeld

\* The ledger stays: so does what was gathered.
LEMMA QuietStep ==
  ASSUME StoreInv, EvidenceInv, UNCHANGED lvars, NEW s \in Sessions, NEW r,
         Becomes(s, r), Holds(led, r)
  PROVE  EvidenceInv'
<1>1. led' = led
  BY DEF lvars
<1>2. Grows(led, led')
  BY <1>1 DEF Grows
<1>3. ResultsHeld'
  BY <1>1, <1>2, SessionHolds DEF EvidenceInv
<1>4. AllGathered'
  BY <1>1 DEF EvidenceInv, AllGathered, Gathered
<1> QED
  BY <1>3, <1>4 DEF EvidenceInv

\* No new Experiment is Observed, and the others stay.
LEMMA PlanningStep ==
  ASSUME AllGathered, OnlyPlans(led, led')
  PROVE  AllGathered' /\ Grows(led, led')
<1>1. Grows(led, led')
  BY DEF OnlyPlans, Grows
<1>2. ASSUME NEW x \in Exps, led'.exps[x].status = "Observed"
      PROVE  Gathered(led', x)
  <2>1. led'.exps[x] = led.exps[x]
    BY <1>2 DEF OnlyPlans
  <2>2. Gathered(led, x)
    BY <1>2, <2>1 DEF AllGathered
  <2> QED
    BY <1>1, <2>1, <2>2, GatheredStays
<1> QED
  BY <1>1, <1>2 DEF AllGathered

\* A transition gives an Experiment what it is said to.
LEMMA MovingStep ==
  ASSUME TypeOK, AllGathered, NEW x \in Exps, NEW to \in ExpStatuses \ {"absent", "Planned"},
         NEW evs \in SUBSET DOMAIN led.evs, Move(x, to, evs),
         to = "Observed" => /\ evs # {} /\ \A i \in evs : led.evs[i].exp = x
                            /\ led.exps[x].task \/ \E i \in evs : led.evs[i].ok
  PROVE  AllGathered' /\ Grows(led, led')
<1>1. /\ led'.exps[x].status = to /\ led'.evs = led.evs
      /\ to = "Observed" => led'.exps[x].evs = evs
      /\ led.exps[x].task => led'.exps[x].task
      /\ \A y \in Exps \ {x} : led'.exps[y] = led.exps[y]
  BY MoveChanges
<1>2. Grows(led, led')
  BY <1>1 DEF Grows
<1>3. ASSUME NEW y \in Exps, led'.exps[y].status = "Observed"
      PROVE  Gathered(led', y)
  <2>1. CASE y = x
    BY <1>1, <1>3, <2>1 DEF Gathered
  <2>2. CASE y # x
    BY <1>1, <1>2, <1>3, <2>2, GatheredStays DEF AllGathered
  <2> QED
    BY <2>1, <2>2
<1> QED
  BY <1>2, <1>3 DEF AllGathered

\* A session on its way to another step than the end of a call holds nothing.
LEMMA NotClosing ==
  ASSUME NEW s, NEW r, r.pc # "close", r.pc = "load" => r.then # "close"
  PROVE  Holds(s, r)
BY DEF Holds, Closing

\* Where a load leads to.
LEMMA LoadingGoes ==
  ASSUME StoreInv, NEW s \in Sessions, NEW step
  PROVE  LET r == Loading(s, step)
         IN /\ r.pc = "load" /\ r.then = step /\ r.call = sess[s].call
            /\ r.exp = sess[s].exp /\ r.outcome = sess[s].outcome /\ r.evs = sess[s].evs
BY DEF StoreInv, SessionsShaped, Shaped, Fields, Loading

\* What a load brings.
LEMMA LoadedGoes ==
  ASSUME StoreInv, NEW s \in Sessions, NEW step
  PROVE  LET r == Loaded(s, step)
         IN /\ r.pc = step /\ r.then = "idle" /\ r.call = sess[s].call
            /\ r.exp = sess[s].exp /\ r.outcome = sess[s].outcome /\ r.evs = sess[s].evs
BY DEF StoreInv, SessionsShaped, Shaped, Fields, Loaded

\* The next response.
LEMMA NextResponseGoes ==
  ASSUME NEW r, Shaped(r)
  PROVE  NextResponse(r).pc = "think"
BY DEF Shaped, Fields, NextResponse

\* Every step keeps what was gathered and what sessions hold.
LEMMA EvidenceStep ==
  ASSUME StoreInv, Sound, EvidenceInv, StoreNext
  PROVE  EvidenceInv'
<1>1. TypeOK /\ led \in Snapshots /\ ResultsHeld /\ AllGathered
  BY DEF Sound, TypeOK, EvidenceInv
<1>2. ASSUME NEW s \in Sessions
      PROVE  Shaped(sess[s]) /\ Holds(led, sess[s])
  BY <1>1 DEF StoreInv, SessionsShaped, ResultsHeld
<1>3. ASSUME NEW s \in Sessions, NEW es, AppendAt(s, es)
      PROVE  sess[s].cache = led /\ sess[s].at = version /\ AppendEvents(es)
  BY <1>3 DEF StoreInv, CacheIsCurrent, AppendAt
<1>4. ASSUME NEW s \in Sessions, NEW x \in Exps \cup {NoExp}, BeginTurn(s, x)
      PROVE  EvidenceInv'
  <2> DEFINE q == Loaded(s, "think")
             r == [q EXCEPT !.assigned = x]
  <2>1. Shaped(q) /\ q.pc = "think"
    BY LoadedIs, LoadedGoes
  <2> HIDE DEF q
  <2>2. r.pc = "think"
    BY <2>1 DEF Shaped, Fields
  <2> QED
    BY <1>4, <2>2, NotClosing, QuietStep DEF BeginTurn, q
<1>5. ASSUME NEW s \in Sessions, Load(s)
      PROVE  EvidenceInv'
  <2>1. CASE sess[s].then = "think"
    <3>1. NextResponse(Loaded(s, "think")).pc = "think"
      BY LoadedIs, NextResponseGoes
    <3> QED
      BY <1>5, <2>1, <3>1, NotClosing, QuietStep DEF Load
  <2>2. CASE sess[s].then # "think"
    <3> DEFINE r == Loaded(s, sess[s].then)
    <3>1. /\ r.pc = sess[s].then /\ r.then = "idle" /\ r.call = sess[s].call
          /\ r.exp = sess[s].exp /\ r.outcome = sess[s].outcome /\ r.evs = sess[s].evs
      BY LoadedGoes
    <3>2. sess[s].pc = "load" /\ Becomes(s, r) /\ UNCHANGED lvars
      BY <1>5, <2>2 DEF Load, At
    <3> HIDE DEF r
    <3>3. Holds(led, r)
      BY <1>2, <3>1, <3>2 DEF Holds, Closing
    <3> QED
      BY <3>2, <3>3, QuietStep
  <2> QED
    BY <2>1, <2>2
<1>6. ASSUME NEW s \in Sessions, NEW step \in {"commit", "persist", "act"},
             Becomes(s, [sess[s] EXCEPT !.pc = step]), UNCHANGED lvars
      PROVE  EvidenceInv'
  <2> DEFINE r == [sess[s] EXCEPT !.pc = step]
  <2>1. r.pc = step
    BY <1>2 DEF Shaped, Fields
  <2> QED
    BY <1>6, <2>1, NotClosing, QuietStep
<1>7. ASSUME NEW s \in Sessions, Rebase(s)
      PROVE  EvidenceInv'
  <2> DEFINE q == Loaded(s, "think")
             r == [q EXCEPT !.rebases = sess[s].rebases + 1]
  <2>1. Shaped(q) /\ q.pc = "think"
    BY LoadedIs, LoadedGoes
  <2> HIDE DEF q
  <2>2. r.pc = "think"
    BY <2>1 DEF Shaped, Fields
  <2> QED
    BY <1>7, <2>2, NotClosing, QuietStep DEF Rebase, q
<1>8. ASSUME NEW s \in Sessions, NEW ms \in Batches(sess[s].cache), NEW verdicts,
             CommitMetas(s, ms, verdicts)
      PROVE  EvidenceInv'
  <2> DEFINE plan == Assemble(sess[s].cache, sess[s].at, ms, verdicts)
             q == Loading(s, "persist")
  <2>1. plan.ok /\ AppendAt(s, plan.evs)
    BY <1>8 DEF CommitMetas
  <2>2. sess[s].cache = led /\ Commit(ms, verdicts)
    BY <1>3, <2>1 DEF Commit
  <2>3. OnlyPlans(led, led')
    BY <1>1, <1>8, <2>2, CommitDoes, AnswersOnlyPlan
  <2>4. AllGathered' /\ Grows(led, led')
    BY <1>1, <2>3, PlanningStep
  <2>5. PICK r : /\ Becomes(s, r)
                 /\ \/ r = q
                    \/ \E b \in Exps \X {"direct", "spawn"} :
                         r = [q EXCEPT !.exp = b[1], !.call = b[2]]
    BY <1>8 DEF CommitMetas
  <2>6. Shaped(q) /\ q.pc = "load" /\ q.then = "persist"
    BY LoadingIs, LoadingGoes
  <2>7. r.pc = "load" /\ r.then = "persist"
    BY <2>5, <2>6 DEF Shaped, Fields
  <2> QED
    BY <1>1, <2>4, <2>5, <2>7, NotClosing, SessionHolds DEF EvidenceInv
<1>9. ASSUME NEW s \in Sessions, Persist(s)
      PROVE  EvidenceInv'
  <2> DEFINE r == Loading(s, "act")
  <2>1. AppendAt(s, <<[type |-> "Deliberated", version |-> sess[s].at]>>) /\ Becomes(s, r)
    BY <1>9 DEF Persist
  <2>2. Deliberate
    BY <1>3, <2>1 DEF Deliberate
  <2>3. led' = led
    BY <1>1, <2>2, DeliberateDoes
  <2>4. AllGathered' /\ Grows(led, led')
    BY <1>1, <2>3 DEF AllGathered, Gathered, Grows
  <2>5. r.pc = "load" /\ r.then = "act"
    BY LoadingGoes
  <2> QED
    BY <1>1, <2>1, <2>4, <2>5, NotClosing, SessionHolds DEF EvidenceInv
<1>10. ASSUME NEW s \in Sessions, Becomes(s, NextResponse(sess[s])), UNCHANGED lvars
       PROVE  EvidenceInv'
  BY <1>2, <1>10, NextResponseGoes, NotClosing, QuietStep
<1>11. ASSUME NEW s \in Sessions, Call(s)
       PROVE  EvidenceInv'
  <2> DEFINE r == [sess[s] EXCEPT !.pc = "tools", !.exp = sess[s].assigned,
                                  !.cache = EmptyLedger, !.at = 0]
  <2>1. (Becomes(s, NextResponse(sess[s])) \/ Becomes(s, r)) /\ UNCHANGED lvars
    BY <1>11 DEF Call
  <2>2. r.pc = "tools"
    BY <1>2 DEF Shaped, Fields
  <2> QED
    BY <1>10, <2>1, <2>2, NotClosing, QuietStep
<1>12. ASSUME NEW s \in Sessions, StartBound(s)
       PROVE  EvidenceInv'
  <2> DEFINE r == [sess[s] EXCEPT !.pc = "tools", !.cache = EmptyLedger, !.at = 0]
             x == sess[s].exp
  <2>1. x \in Exps
    BY <1>2, <1>12 DEF StartBound, Shaped
  <2>2. /\ AppendAt(s, <<MoveOf(sess[s].cache, x, "Running", {})>>)
        /\ Becomes(s, r)
    BY <1>12 DEF StartBound
  <2>3. Move(x, "Running", {})
    BY <1>3, <2>2 DEF Move
  <2>4. AllGathered' /\ Grows(led, led')
    BY <1>1, <2>1, <2>3, MovingStep DEF ExpStatuses
  <2>5. r.pc = "tools"
    BY <1>2 DEF Shaped, Fields
  <2> QED
    BY <1>1, <2>2, <2>4, <2>5, NotClosing, SessionHolds DEF EvidenceInv
<1>13. ASSUME NEW s \in Sessions, sess[s].call = "spawn"
       PROVE  Holds(led', Loading(s, "close")) /\ Holds(led, Loading(s, "close"))
  BY <1>13, LoadingGoes DEF Holds, Closing
<1>14. ASSUME NEW s \in Sessions, Spawn(s)
       PROVE  EvidenceInv'
  <2>1. /\ sess[s].exp \in Exps /\ sess[s].call = "spawn"
        /\ Move(sess[s].exp, "Queued", {}) /\ Becomes(s, Loading(s, "close"))
    BY <1>2, <1>14 DEF Spawn, Shaped
  <2>2. AllGathered' /\ Grows(led, led')
    BY <1>1, <2>1, MovingStep DEF ExpStatuses
  <2> QED
    BY <1>1, <1>13, <2>1, <2>2, SessionHolds DEF EvidenceInv
<1>15. ASSUME NEW s \in Sessions, SpawnRefused(s)
       PROVE  EvidenceInv'
  BY <1>13, <1>15, QuietStep DEF SpawnRefused
<1>16. ASSUME NEW s \in Sessions, NEW outcome \in Outcomes, RecordResult(s, outcome)
       PROVE  EvidenceInv'
  <2> DEFINE q == Loading(s, "close")
             n == Len(led.evs) + 1
             r == [q EXCEPT !.outcome = outcome, !.evs = {n}]
             good == (outcome = "ok")
             x == [exp |-> sess[s].exp, ok |-> good, by |-> s]
  <2>1. x \in Evidence /\ x.exp = sess[s].exp /\ (x.ok <=> outcome = "ok")
    <3>1. good \in BOOLEAN
      OBVIOUS
    <3>2. sess[s].exp \in Exps \cup {NoExp}
      BY <1>2 DEF Shaped
    <3> QED
      BY <3>1, <3>2 DEF Evidence
  <2>2. Record(x) /\ Becomes(s, r)
    BY <1>16 DEF RecordResult
  <2>3. led.evs \in Seq(Evidence)
    BY <1>1, SnapshotParts
  <2>4. Shaped(q) /\ q.exp = sess[s].exp /\ n \in Nat
    BY <2>3, LoadingIs, LoadingGoes
  <2> HIDE DEF q, x
  <2>5. r.outcome = outcome /\ r.evs = {n} /\ r.exp = sess[s].exp
    BY <2>4 DEF Shaped, Fields
  <2>6. led'.evs = Append(led.evs, x) /\ led'.exps = led.exps
    BY <1>1, <2>1, <2>2, RecordDoes
  <2>7. n \in DOMAIN led'.evs /\ led'.evs[n] = x /\ Grows(led, led')
    BY <2>3, <2>6 DEF Grows
  <2>8. AllGathered'
    BY <1>1, <2>6, <2>7, GatheredStays DEF AllGathered
  <2> HIDE DEF r, n
  <2>9. Holds(led', r)
    BY <2>1, <2>5, <2>7 DEF Holds, Closing
  <2> QED
    BY <1>1, <2>2, <2>7, <2>8, <2>9, SessionHolds DEF EvidenceInv, r, q, n
<1>17. ASSUME NEW s \in Sessions, NEW outcome \in Outcomes, RecordNothing(s, outcome)
       PROVE  EvidenceInv'
  <2> DEFINE q == Loading(s, "close")
             r == [q EXCEPT !.outcome = outcome]
  <2>1. Shaped(q) /\ outcome # "ok"
    BY <1>17, LoadingIs DEF RecordNothing
  <2> HIDE DEF q
  <2>2. r.outcome = outcome
    BY <2>1 DEF Shaped, Fields
  <2>3. Holds(led, r)
    BY <2>1, <2>2 DEF Holds, Closing
  <2> QED
    BY <1>17, <2>3, QuietStep DEF RecordNothing, q
<1>18. ASSUME NEW s \in Sessions, FinalizeBound(s)
       PROVE  EvidenceInv'
  <2> DEFINE x == sess[s].exp
             to == EndsAs(sess[s].outcome)
             found == sess[s].evs \cap DOMAIN sess[s].cache.evs
             evs == IF to = "Observed" THEN found ELSE {}
             r == Loading(s, "think")
  <2>1. x \in Exps /\ sess[s].outcome \in Outcomes /\ sess[s].pc = "close"
        /\ sess[s].call = "direct"
    BY <1>2, <1>18 DEF FinalizeBound, Shaped, At
  <2>2. AppendAt(s, <<MoveOf(sess[s].cache, x, to, evs)>>) /\ Becomes(s, r)
    BY <1>18 DEF FinalizeBound
  <2>3. sess[s].cache = led /\ AppendEvents(<<MoveOf(led, x, to, evs)>>)
    BY <1>3, <2>2
  <2>4. /\ to \in ExpStatuses \ {"absent", "Planned"}
        /\ to = "Observed" => sess[s].outcome = "ok"
    BY <2>1 DEF EndsAs, Outcomes, ExpStatuses, Ended
  <2>5. Move(x, to, evs) /\ evs \in SUBSET DOMAIN led.evs
    BY <2>3 DEF Move
  <2>6. ASSUME to = "Observed"
        PROVE  /\ evs # {} /\ \A i \in evs : led.evs[i].exp = x
               /\ led.exps[x].task \/ \E i \in evs : led.evs[i].ok
    <3>1. Closing(sess[s])
      BY <2>1, <2>4, <2>6 DEF Closing
    <3>2. PICK n \in DOMAIN led.evs : /\ sess[s].evs = {n} /\ led.evs[n].exp = x
                                      /\ led.evs[n].ok
      BY <1>2, <3>1 DEF Holds
    <3>3. evs = {n}
      BY <2>3, <2>6, <3>2
    <3> QED
      BY <3>2, <3>3
  <2>7. r.pc = "load" /\ r.then = "think"
    BY LoadingGoes
  <2> HIDE DEF to, evs, x, r
  <2>8. AllGathered' /\ Grows(led, led')
    BY <1>1, <2>1, <2>4, <2>5, <2>6, MovingStep
  <2> QED
    BY <1>1, <2>2, <2>7, <2>8, NotClosing, SessionHolds DEF EvidenceInv
<1>19. ASSUME NEW s \in Sessions, EndTurn(s)
       PROVE  EvidenceInv'
  <2>1. Idle.pc = "idle"
    BY DEF Idle
  <2> QED
    BY <1>19, <2>1, NotClosing, QuietStep DEF EndTurn
<1>20. ASSUME NEW x \in Exps, NEW to \in ExpStatuses,
              NEW evs \in SUBSET DOMAIN led.evs, TaskMoves(x, to, evs)
       PROVE  EvidenceInv'
  <2>1. /\ to \in ExpStatuses \ {"absent", "Planned"} /\ Move(x, to, evs)
        /\ led.exps[x].task /\ UNCHANGED sess
        /\ to = "Observed" => evs # {} /\ \A i \in evs : led.evs[i].exp = x
    BY <1>20 DEF TaskMoves
  <2>2. AllGathered' /\ Grows(led, led')
    BY <1>1, <2>1, MovingStep
  <2>3. ResultsHeld'
    BY <1>1, <2>1, <2>2, HeldStays DEF ResultsHeld
  <2> QED
    BY <2>2, <2>3 DEF EvidenceInv
<1> QED
  BY <1>4, <1>5, <1>6, <1>7, <1>8, <1>9, <1>10, <1>11, <1>12, <1>14, <1>15, <1>16,
     <1>17, <1>18, <1>19, <1>20
  DEF StoreNext, Unchanged, NoMetas, PersistNothing, Continue, FinalizeNothing

\* A case starts without evidence.
LEMMA EvidenceStarts == StoreInit => EvidenceInv
<1> SUFFICES ASSUME StoreInit PROVE EvidenceInv
  OBVIOUS
<1>1. led = EmptyLedger /\ sess = [s \in Sessions |-> Idle]
  BY DEF StoreInit, Init
<1>2. ResultsHeld
  <2>1. Idle.pc = "idle"
    BY DEF Idle
  <2> QED
    BY <1>1, <2>1, NotClosing DEF ResultsHeld
<1>3. \A x \in Exps : led.exps[x].status = "absent"
  BY <1>1 DEF EmptyLedger
<1>4. AllGathered
  BY <1>3 DEF AllGathered
<1> QED
  BY <1>2, <1>4 DEF EvidenceInv

\* What CaseLedger proves of a ledger that is decided on in one step holds of
\* one that is decided on from copies, and with it the evidence invariant.
LEMMA StoreIsSound == StoreSpec => [](Sound /\ EvidenceInv)
<1>1. StoreInit => Sound
  BY SoundAtInit DEF StoreInit
<1>2. StoreInv /\ Sound /\ EvidenceInv /\ [StoreNext]_svars => Sound' /\ EvidenceInv'
  <2> SUFFICES ASSUME StoreInv, Sound, EvidenceInv, [StoreNext]_svars
               PROVE  Sound' /\ EvidenceInv'
    OBVIOUS
  <2>1. CASE StoreNext
    BY <2>1, StoreRefines, SoundKept, EvidenceStep
  <2>2. CASE UNCHANGED svars
    <3>1. led' = led /\ version' = version /\ sess' = sess
      BY <2>2 DEF svars
    <3>2. Sound'
      BY <3>1, SoundKept DEF lvars
    <3>3. EvidenceInv'
      BY <3>1 DEF EvidenceInv, ResultsHeld, Holds, AllGathered, Gathered
    <3> QED
      BY <3>2, <3>3
  <2> QED
    BY <2>1, <2>2
<1> QED
  BY <1>1, <1>2, EvidenceStarts, StoreInvHolds, PTL DEF StoreSpec

\* An Experiment is Observed only with evidence gathered for it, of a call
\* that succeeded if the runtime executed it itself, for any number of sessions
\* and task stores that move Experiments between a call and its end.
THEOREM ObservedBacked == StoreSpec => []ObservedHasEvidence
<1>1. EvidenceInv => ObservedHasEvidence
  BY DEF EvidenceInv, AllGathered, Gathered, ObservedHasEvidence
<1> QED
  BY <1>1, StoreIsSound, PTL

\* Sessions that decide on copies confirm nothing that cannot be traced, and
\* store no resolution without the approval it needed.
THEOREM StoreKeepsRules == StoreSpec => [](ConfirmedIsTraceable /\ ApprovalIsBound)
<1>1. Sound => ConfirmedIsTraceable /\ ApprovalIsBound
  BY SoundSays
<1> QED
  BY <1>1, StoreIsSound, PTL

-----------------------------------------------------------------------------
(* The tables under several processes: a row once written stays where it   *)
(* is, and what processes hold of the stream is a beginning of it.         *)

EventIds == (UNION {ToSet(payload) : payload \in Payloads}) \cup TaskEvents
              \cup {<<"ev", n>> : n \in Nat}
CommandIds == {<<"cmd", c, n>> : c \in Clients, n \in Nat}
                \cup {<<"receipt", c, n>> : c \in Clients, n \in Nat}
                \cup {<<"task", id>> : id \in TaskEvents}
TableRows == [id : EventIds, cmd : CommandIds]

TablesShape ==
  /\ entries \in Seq(TableRows) /\ ledgerVersion = Len(entries) /\ nextEv \in Nat
  /\ DOMAIN commands \subseteq CommandIds
  /\ tools \in [Clients -> Seq(CommandIds)]

\* Two rows never hold the same event, and the evidence ids still to be drawn
\* are in none.
IdsDrawnOnce ==
  /\ \A i, j \in DOMAIN entries : entries[i].id = entries[j].id => i = j
  /\ \A i \in DOMAIN entries, n \in Nat : n >= nextEv => entries[i].id # <<"ev", n>>

\* A command is stored with its rows, all of them its own.
StoredAt(cmd, k, es) ==
  /\ k.first \in Nat \ {0} /\ k.count \in Nat /\ k.first + k.count <= Len(es) + 1
  /\ {i \in DOMAIN es : es[i].cmd = cmd} = k.first .. (k.first + k.count - 1)
  /\ cmd[1] = "receipt" => k.count = 1
  /\ cmd[1] # "receipt" =>
       /\ k.payload \in Seq(EventIds) /\ Len(k.payload) = k.count
       /\ \A i \in 1 .. k.count : es[k.first + i - 1].id = k.payload[i]
  /\ \A id : cmd = <<"task", id>> => k.payload = <<id>>

CommandsStored ==
  /\ \A cmd \in DOMAIN commands : StoredAt(cmd, commands[cmd], entries)
  /\ \A i \in DOMAIN entries : entries[i].cmd \in DOMAIN commands

\* A receipt has the session event its command names, and no other has it.
ReceiptsKept ==
  \A c \in Clients :
    /\ \A i \in DOMAIN tools[c] :
         tools[c][i] \in DOMAIN commands /\ commands[tools[c][i]].index = i
    /\ \A n \in Nat :
         LET cmd == <<"receipt", c, n>>
         IN cmd \in DOMAIN commands =>
              commands[cmd].index \in DOMAIN tools[c] /\ tools[c][commands[cmd].index] = cmd

\* What a stream begins with.
Begins(state, es) ==
  /\ state \in Seq(TableRows) /\ Len(state) <= Len(es)
  /\ \A i \in 1 .. Len(state) : state[i] = es[i]

\* A snapshot is of a beginning of the stream, or was and shows that it is not.
RowHeld(row, es) ==
  /\ DOMAIN row = {"seq", "state", "checksum"}
  /\ Begins(row.checksum, es) /\ row.seq = Len(row.checksum)
  /\ row.state \in Seq(TableRows)
  /\ row.state = row.checksum \/ Len(row.state) < row.seq

\* What a process has read holds still.
ReadHolds(c, r, es) ==
  /\ DOMAIN r = DOMAIN Resting
  /\ r.at \in {"idle", "append", "receipt", "cache", "events", "compact"}
  /\ r.at # "idle" => r.ans = NoAnswer
  /\ r.at = "append" => r.req.payload \in Payloads /\ \E n \in Nat : r.req.cmd = <<"cmd", c, n>>
  /\ r.at = "receipt" => \E n \in Nat : r.req.cmd = <<"receipt", c, n>>
  /\ r.at \in {"cache", "events"} => r.durable \in 0 .. Len(es)
  /\ r.at \in {"events", "compact"} =>
       \A row \in r.cached :
         /\ RowHeld(row, es) /\ row.state = row.checksum
         /\ r.at = "events" => row.seq <= r.durable

\* Its answer is so.
AnswerHolds(c, a, cs, es) ==
  /\ a.kind = "loaded" => Begins(a.state, es)
  /\ a.kind = "appended" =>
       /\ a.cmd \in DOMAIN cs /\ a.cmd[1] # "receipt" /\ a.payload = cs[a.cmd].payload
       /\ a.place = cs[a.cmd].first .. (cs[a.cmd].first + cs[a.cmd].count - 1)
  /\ a.kind = "conflict" => a.cmd \notin DOMAIN cs /\ \E n \in Nat : a.cmd = <<"cmd", c, n>>
  /\ a.kind = "receipt" =>
       /\ a.cmd \in DOMAIN cs /\ \E n \in Nat : a.cmd = <<"receipt", c, n>>
       /\ a.at = cs[a.cmd].first /\ a.at <= a.version /\ a.index = cs[a.cmd].index

TablesInv ==
  /\ TablesShape /\ IdsDrawnOnce /\ CommandsStored /\ ReceiptsKept
  /\ \A row \in snapshot : RowHeld(row, entries)
  /\ \A row, other \in snapshot : row = other
  /\ client = [c \in Clients |-> client[c]]
  /\ \A c \in Clients :
       ReadHolds(c, client[c], entries) /\ AnswerHolds(c, client[c].ans, commands, entries)

-----------------------------------------------------------------------------
\* A stream goes on: more rows behind the ones there were.
GoesOn(es, on) ==
  /\ es \in Seq(TableRows) /\ on \in Seq(TableRows) /\ Len(es) <= Len(on)
  /\ \A i \in 1 .. Len(es) : on[i] = es[i]

\* What the stream began with, it begins with.
LEMMA StillBegins ==
  ASSUME NEW es, NEW on, GoesOn(es, on), NEW state, Begins(state, es)
  PROVE  Begins(state, on)
<1>1. /\ state \in Seq(TableRows) /\ Len(state) <= Len(es) /\ Len(state) \in Nat
      /\ Len(es) \in Nat /\ Len(on) \in Nat /\ Len(es) <= Len(on)
  BY DEF Begins, GoesOn
<1>2. \A i \in 1 .. Len(state) : i \in 1 .. Len(es)
  BY <1>1
<1> QED
  BY <1>1, <1>2 DEF Begins, GoesOn

LEMMA StillHeld ==
  ASSUME NEW es, NEW on, GoesOn(es, on), NEW row, RowHeld(row, es)
  PROVE  RowHeld(row, on)
BY StillBegins DEF RowHeld

LEMMA StillRead ==
  ASSUME NEW es, NEW on, GoesOn(es, on), NEW c, NEW r, ReadHolds(c, r, es)
  PROVE  ReadHolds(c, r, on)
<1>1. \A durable \in 0 .. Len(es) : durable \in 0 .. Len(on)
  BY DEF GoesOn
<1> QED
  BY <1>1, StillHeld DEF ReadHolds

\* What is kept of the commands when one that was not stored is added.
Adds(cs, with, cmd) ==
  /\ cmd \notin DOMAIN cs /\ DOMAIN with = DOMAIN cs \cup {cmd}
  /\ \A d \in DOMAIN cs : with[d] = cs[d]

LEMMA StillAnswered ==
  ASSUME NEW es, NEW on, GoesOn(es, on), NEW cs, NEW with, NEW cmd, Adds(cs, with, cmd),
         NEW c, NEW a, AnswerHolds(c, a, cs, es), a.kind = "conflict" => a.cmd # cmd
  PROVE  AnswerHolds(c, a, with, on)
BY StillBegins DEF AnswerHolds, Adds

-----------------------------------------------------------------------------
\* The rows of a transaction go behind the others.
GoesBehind(es, on, cmd, ids) ==
  /\ GoesOn(es, on) /\ Len(on) = Len(es) + Len(ids)
  /\ \A i \in 1 .. Len(ids) : on[Len(es) + i].id = ids[i] /\ on[Len(es) + i].cmd = cmd
  /\ \A i \in DOMAIN on : i \in DOMAIN es \/ \E j \in 1 .. Len(ids) : i = Len(es) + j

LEMMA WrittenRows ==
  ASSUME TablesInv, NEW cmd \in CommandIds, NEW payload, NEW ids \in Seq(EventIds), NEW index,
         Writes(cmd, payload, ids, index)
  PROVE  GoesBehind(entries, entries', cmd, ids) /\ ledgerVersion' = Len(entries')
<1> DEFINE more == [i \in DOMAIN ids |-> [id |-> ids[i], cmd |-> cmd]]
<1>1. /\ entries \in Seq(TableRows) /\ ledgerVersion = Len(entries) /\ Len(entries) \in Nat
      /\ Len(ids) \in Nat /\ DOMAIN ids = 1 .. Len(ids)
  BY DEF TablesInv, TablesShape
<1>2. \A i \in 1 .. Len(ids) :
        more[i] \in TableRows /\ more[i].id = ids[i] /\ more[i].cmd = cmd
  BY <1>1 DEF TableRows
<1>3. more \in Seq(TableRows) /\ Len(more) = Len(ids)
  <2>1. more \in [1 .. Len(ids) -> TableRows]
    BY <1>1, <1>2
  <2> HIDE DEF more
  <2> QED
    BY <1>1, <2>1
<1>4. entries' = entries \o more /\ ledgerVersion' = ledgerVersion + Len(ids)
  BY DEF Writes
<1> HIDE DEF more
<1>5. /\ entries' \in Seq(TableRows) /\ Len(entries') = Len(entries) + Len(ids)
      /\ DOMAIN entries' = 1 .. Len(entries) + Len(ids) /\ DOMAIN entries = 1 .. Len(entries)
      /\ \A i \in 1 .. Len(entries) : entries'[i] = entries[i]
      /\ \A i \in Len(entries) + 1 .. Len(entries) + Len(ids) : entries'[i] = more[i - Len(entries)]
  <2>1. /\ entries' \in Seq(TableRows) /\ Len(entries') = Len(entries) + Len(more)
        /\ \A i \in 1 .. Len(entries) + Len(more) :
             entries'[i] = IF i <= Len(entries) THEN entries[i] ELSE more[i - Len(entries)]
    <3>1. /\ entries \o more \in Seq(TableRows) /\ Len(entries \o more) = Len(entries) + Len(more)
          /\ \A i \in 1 .. Len(entries) + Len(more) :
               (entries \o more)[i] = IF i <= Len(entries) THEN entries[i] ELSE more[i - Len(entries)]
      BY <1>1, <1>3, ConcatProperties
    <3> QED
      BY <1>4, <3>1
  <2> QED
    BY <1>1, <1>3, <2>1
<1>6. ASSUME NEW i \in 1 .. Len(ids)
      PROVE  entries'[Len(entries) + i].id = ids[i] /\ entries'[Len(entries) + i].cmd = cmd
  <2>1. /\ Len(entries) + i \in Len(entries) + 1 .. Len(entries) + Len(ids)
        /\ (Len(entries) + i) - Len(entries) = i
    BY <1>1
  <2>2. entries'[Len(entries) + i] = more[i]
    BY <1>5, <2>1
  <2> QED
    BY <1>2, <2>2
<1>7. \A i \in DOMAIN entries' :
         i \in DOMAIN entries \/ \E j \in 1 .. Len(ids) : i = Len(entries) + j
  <2> SUFFICES ASSUME NEW i \in 1 .. Len(entries) + Len(ids), ~(i <= Len(entries))
               PROVE  \E j \in 1 .. Len(ids) : i = Len(entries) + j
    BY <1>1, <1>5
  <2>1. i - Len(entries) \in 1 .. Len(ids) /\ i = Len(entries) + (i - Len(entries))
    BY <1>1
  <2> QED
    BY <2>1
<1>8. Len(entries) <= Len(entries')
  BY <1>1, <1>5
<1> QED
  BY <1>1, <1>4, <1>5, <1>6, <1>7, <1>8 DEF GoesOn, GoesBehind

LEMMA WrittenCommand ==
  ASSUME NEW cmd, NEW payload, NEW ids, NEW index, Writes(cmd, payload, ids, index),
         cmd \notin DOMAIN commands
  PROVE  /\ Adds(commands, commands', cmd)
         /\ commands'[cmd] = [payload |-> payload, first |-> ledgerVersion + 1,
                              count |-> Len(ids), index |-> index]
BY DEF Writes, Adds

\* What a transaction leaves of the invariant when its command is new and so
\* are its events, and nothing is changed with it.
LEMMA Wrote ==
  ASSUME TablesInv, NEW cmd \in CommandIds, NEW payload, NEW ids \in Seq(EventIds), NEW index,
         Writes(cmd, payload, ids, index), cmd \notin DOMAIN commands,
         \A i \in DOMAIN ids : ids[i] \notin Ids(entries) /\ \A j \in 1 .. (i - 1) : ids[i] # ids[j],
         cmd[1] = "receipt" => Len(ids) = 1,
         cmd[1] # "receipt" => payload = ids,
         \A id : cmd = <<"task", id>> => payload = <<id>>
  PROVE  /\ GoesOn(entries, entries') /\ ledgerVersion' = Len(entries')
         /\ Adds(commands, commands', cmd) /\ DOMAIN commands' \subseteq CommandIds
         /\ commands'[cmd] = [payload |-> payload, first |-> Len(entries) + 1,
                              count |-> Len(ids), index |-> index]
         /\ \A i, j \in DOMAIN entries' : entries'[i].id = entries'[j].id => i = j
         /\ CommandsStored'
<1> DEFINE top == Len(entries)
<1>0. GoesBehind(entries, entries', cmd, ids) /\ ledgerVersion' = Len(entries')
  BY WrittenRows
<1>1. /\ GoesOn(entries, entries') /\ Len(entries') = top + Len(ids)
      /\ ledgerVersion' = Len(entries')
      /\ \A i \in 1 .. Len(ids) : entries'[top + i].id = ids[i] /\ entries'[top + i].cmd = cmd
      /\ \A i \in DOMAIN entries' : i \in DOMAIN entries \/ \E j \in 1 .. Len(ids) : i = top + j
  BY <1>0 DEF GoesBehind
<1>2. /\ Adds(commands, commands', cmd) /\ ledgerVersion = top
      /\ commands'[cmd] = [payload |-> payload, first |-> ledgerVersion + 1,
                           count |-> Len(ids), index |-> index]
  BY WrittenCommand DEF TablesInv, TablesShape
<1>3. /\ top \in Nat /\ Len(ids) \in Nat /\ DOMAIN ids = 1 .. Len(ids) /\ DOMAIN entries = 1 .. top
      /\ DOMAIN entries' = 1 .. (top + Len(ids))
      /\ \A i \in 1 .. top : entries'[i] = entries[i] /\ entries[i].id \in Ids(entries)
  BY <1>1 DEF GoesOn, Ids
<1> HIDE DEF top
<1>4. DOMAIN commands' \subseteq CommandIds
  BY <1>2 DEF Adds, TablesInv, TablesShape
<1>5. ASSUME NEW i \in DOMAIN entries', NEW j \in DOMAIN entries', entries'[i].id = entries'[j].id
      PROVE  i = j
  <2>1. CASE i \in DOMAIN entries /\ j \in DOMAIN entries
    BY <1>3, <1>5, <2>1 DEF TablesInv, IdsDrawnOnce
  <2>2. CASE i \notin DOMAIN entries /\ j \notin DOMAIN entries
    <3>1. PICK m \in 1 .. Len(ids), n \in 1 .. Len(ids) : i = top + m /\ j = top + n
      BY <1>1, <2>2
    <3>2. ids[m] = ids[n]
      BY <1>1, <1>5, <3>1
    <3>3. ~(n \in 1 .. (m - 1)) /\ ~(m \in 1 .. (n - 1))
      BY <1>3, <3>2
    <3> QED
      BY <1>3, <3>1, <3>3
  <2>3. CASE i \in DOMAIN entries /\ j \notin DOMAIN entries
    <3>1. PICK n \in 1 .. Len(ids) : j = top + n
      BY <1>1, <2>3
    <3> QED
      BY <1>1, <1>3, <1>5, <2>3, <3>1
  <2>4. CASE i \notin DOMAIN entries /\ j \in DOMAIN entries
    <3>1. PICK m \in 1 .. Len(ids) : i = top + m
      BY <1>1, <2>4
    <3> QED
      BY <1>1, <1>3, <1>5, <2>4, <3>1
  <2> QED
    BY <2>1, <2>2, <2>3, <2>4
<1>6. ASSUME NEW d \in DOMAIN commands
      PROVE  StoredAt(d, commands'[d], entries')
  <2> DEFINE k == commands[d]
  <2>1. commands'[d] = k /\ d # cmd /\ StoredAt(d, k, entries)
    BY <1>2 DEF Adds, TablesInv, CommandsStored
  <2>2. {i \in DOMAIN entries' : entries'[i].cmd = d} = {i \in DOMAIN entries : entries[i].cmd = d}
    BY <1>1, <1>3, <2>1
  <2>3. /\ k.first \in Nat \ {0} /\ k.count \in Nat /\ k.first + k.count <= top + 1
    BY <2>1 DEF StoredAt, top
  <2>4. /\ k.first + k.count <= Len(entries') + 1
        /\ \A i \in 1 .. k.count : entries'[k.first + i - 1] = entries[k.first + i - 1]
    <3>1. \A i \in 1 .. k.count : k.first + i - 1 \in 1 .. top
      BY <1>3, <2>3
    <3>2. k.first + k.count <= Len(entries') + 1
      BY <1>1, <1>3, <2>3
    <3> QED
      BY <1>3, <3>1, <3>2
  <2> HIDE DEF k
  <2>5. StoredAt(d, k, entries')
    BY <2>1, <2>2, <2>3, <2>4 DEF StoredAt
  <2> QED
    BY <2>1, <2>5
<1>7. StoredAt(cmd, commands'[cmd], entries')
  <2> DEFINE k == [payload |-> payload, first |-> top + 1, count |-> Len(ids), index |-> index]
  <2>1. /\ commands'[cmd] = k /\ k.first = top + 1 /\ k.count = Len(ids) /\ k.payload = payload
    BY <1>2
  <2>2. \A i \in DOMAIN entries : entries'[i].cmd # cmd
    BY <1>3 DEF TablesInv, CommandsStored
  <2>3. {i \in DOMAIN entries' : entries'[i].cmd = cmd} = (top + 1) .. (top + Len(ids))
    <3>1. ASSUME NEW i \in DOMAIN entries', entries'[i].cmd = cmd
          PROVE  i \in (top + 1) .. (top + Len(ids))
      BY <1>1, <1>3, <2>2, <3>1
    <3>2. ASSUME NEW i \in (top + 1) .. (top + Len(ids))
          PROVE  i \in DOMAIN entries' /\ entries'[i].cmd = cmd
      <4>1. i - top \in 1 .. Len(ids) /\ top + (i - top) = i /\ i \in 1 .. (top + Len(ids))
        BY <1>3
      <4> QED
        BY <1>1, <1>3, <4>1
    <3> QED
      BY <3>1, <3>2
  <2>4. \A i \in 1 .. Len(ids) : entries'[(top + 1) + i - 1].id = ids[i]
    BY <1>1, <1>3
  <2>5. /\ top + 1 \in Nat \ {0} /\ (top + 1) + Len(ids) <= Len(entries') + 1
        /\ (top + 1) + Len(ids) - 1 = top + Len(ids)
    BY <1>1, <1>3
  <2> HIDE DEF k
  <2> QED
    BY <1>3, <2>1, <2>3, <2>4, <2>5 DEF StoredAt
<1>8. \A i \in DOMAIN entries' : entries'[i].cmd \in DOMAIN commands'
  BY <1>1, <1>2, <1>3 DEF Adds, TablesInv, CommandsStored
<1>9. CommandsStored'
  BY <1>2, <1>6, <1>7, <1>8 DEF CommandsStored, Adds
<1> QED
  BY <1>1, <1>2, <1>4, <1>5, <1>9 DEF top

-----------------------------------------------------------------------------
\* A step that writes no event and no command is up to the process that takes it.
LEMMA Quiet ==
  ASSUME TablesInv, NEW c \in Clients, NEW doing, Goes(c, doing),
         UNCHANGED <<entries, ledgerVersion, commands, nextEv, tools>>,
         ReadHolds(c, doing, entries), AnswerHolds(c, doing.ans, commands, entries),
         \A row, other \in snapshot' : RowHeld(row, entries) /\ row = other
  PROVE  TablesInv'
<1>1. TablesShape' /\ IdsDrawnOnce' /\ CommandsStored' /\ ReceiptsKept'
  BY DEF TablesInv, TablesShape, IdsDrawnOnce, CommandsStored, ReceiptsKept
<1>2. /\ client' = [d \in Clients |-> client'[d]] /\ client'[c] = doing
      /\ \A d \in Clients \ {c} : client'[d] = client[d]
  BY DEF TablesInv, Goes
<1>3. \A d \in Clients :
        ReadHolds(d, client'[d], entries) /\ AnswerHolds(d, client'[d].ans, commands, entries)
  BY <1>2 DEF TablesInv
<1>4. entries' = entries /\ commands' = commands
  OBVIOUS
<1> QED
  BY <1>1, <1>2, <1>3, <1>4 DEF TablesInv

\* What a transaction leaves of the rest, when only the process that commits
\* it may have been refused its command, and it is no receipt.
LEMMA WroteOther ==
  ASSUME TablesInv, NEW cmd, cmd[1] # "receipt",
         GoesOn(entries, entries'), Adds(commands, commands', cmd), UNCHANGED <<tools, snapshot>>
  PROVE  ReceiptsKept' /\ \A row, other \in snapshot' : RowHeld(row, entries') /\ row = other
<1>1. \A row, other \in snapshot' : RowHeld(row, entries') /\ row = other
  BY StillHeld DEF TablesInv
<1>2. \A c, n : <<"receipt", c, n>> # cmd
  OBVIOUS
<1>3. ReceiptsKept'
  BY <1>2 DEF TablesInv, ReceiptsKept, Adds
<1> QED
  BY <1>1, <1>3

LEMMA WroteAmong ==
  ASSUME TablesInv, NEW cmd, GoesOn(entries, entries'), Adds(commands, commands', cmd),
         NEW d \in Clients, client[d].ans.kind = "conflict" => client[d].ans.cmd # cmd
  PROVE  ReadHolds(d, client[d], entries') /\ AnswerHolds(d, client[d].ans, commands', entries')
<1>1. ReadHolds(d, client[d], entries) /\ AnswerHolds(d, client[d].ans, commands, entries)
  BY DEF TablesInv
<1>2. ReadHolds(d, client[d], entries')
  BY <1>1, StillRead
<1>3. AnswerHolds(d, client[d].ans, commands', entries')
  BY <1>1, StillAnswered
<1> QED
  BY <1>2, <1>3

\* Ids that are no evidence's leave the ones still to be drawn alone.
LEMMA WroteIds ==
  ASSUME TablesInv, NEW cmd, NEW ids, GoesBehind(entries, entries', cmd, ids), UNCHANGED nextEv,
         \A i \in 1 .. Len(ids), n \in Nat : ids[i] # <<"ev", n>>
  PROVE  \A i \in DOMAIN entries', n \in Nat : n >= nextEv' => entries'[i].id # <<"ev", n>>
<1>1. /\ \A i \in 1 .. Len(entries) : entries'[i] = entries[i]
      /\ DOMAIN entries = 1 .. Len(entries)
  BY DEF GoesBehind, GoesOn
<1> SUFFICES ASSUME NEW i \in DOMAIN entries', NEW n \in Nat, n >= nextEv
             PROVE  entries'[i].id # <<"ev", n>>
  OBVIOUS
<1>2. CASE i \in DOMAIN entries
  BY <1>1, <1>2 DEF TablesInv, IdsDrawnOnce
<1>3. CASE i \notin DOMAIN entries
  BY <1>3 DEF GoesBehind
<1> QED
  BY <1>2, <1>3

\* What a caller may append is a sequence of ids, none of evidence.
LEMMA PayloadsAreIds ==
  ASSUME NEW payload \in Payloads
  PROVE  /\ payload \in Seq(EventIds) /\ DOMAIN payload = 1 .. Len(payload)
         /\ \A i \in 1 .. Len(payload), n \in Nat : payload[i] # <<"ev", n>>
<1>1. payload \in Seq(ToSet(payload)) /\ \A i \in DOMAIN payload : payload[i][1] # "ev"
  BY TablesAssumption
<1>2. ToSet(payload) \subseteq EventIds
  BY DEF EventIds
<1>3. DOMAIN payload = 1 .. Len(payload)
  BY <1>1
<1>4. payload \in Seq(EventIds)
  BY <1>1, <1>2
<1> QED
  BY <1>1, <1>3, <1>4

-----------------------------------------------------------------------------
LEMMA AskAppendKeeps ==
  ASSUME TablesInv, NEW c \in Clients, NEW n \in 1 .. MaxCommands, NEW payload \in Payloads,
         AskAppend(c, n, payload)
  PROVE  TablesInv'
<1> DEFINE doing == [[Resting EXCEPT !.at = "append",
                                     !.req = [cmd |-> <<"cmd", c, n>>, payload |-> payload,
                                              expected |-> client[c].known]]
                       EXCEPT !.known = client[c].known]
<1>1. Goes(c, doing)
  BY DEF AskAppend, Asks
<1>2. /\ DOMAIN doing = DOMAIN Resting /\ doing.at = "append" /\ doing.ans = NoAnswer
      /\ doing.req.payload = payload /\ doing.req.cmd = <<"cmd", c, n>>
  BY DEF Resting
<1> HIDE DEF doing
<1>3. ReadHolds(c, doing, entries) /\ AnswerHolds(c, doing.ans, commands, entries)
  BY <1>2, TablesAssumption DEF ReadHolds, AnswerHolds, NoAnswer
<1> QED
  BY <1>1, <1>3, Quiet DEF AskAppend, TablesInv

LEMMA AskReceiptKeeps ==
  ASSUME TablesInv, NEW c \in Clients, NEW n \in 1 .. MaxCommands, AskReceipt(c, n)
  PROVE  TablesInv'
<1> DEFINE doing == [[Resting EXCEPT !.at = "receipt",
                                     !.req = [cmd |-> <<"receipt", c, n>>, payload |-> <<>>,
                                              expected |-> 0]]
                       EXCEPT !.known = client[c].known]
<1>1. Goes(c, doing)
  BY DEF AskReceipt, Asks
<1>2. /\ DOMAIN doing = DOMAIN Resting /\ doing.at = "receipt" /\ doing.ans = NoAnswer
      /\ doing.req.cmd = <<"receipt", c, n>>
  BY DEF Resting
<1> HIDE DEF doing
<1>3. ReadHolds(c, doing, entries) /\ AnswerHolds(c, doing.ans, commands, entries)
  BY <1>2, TablesAssumption DEF ReadHolds, AnswerHolds, NoAnswer
<1> QED
  BY <1>1, <1>3, Quiet DEF AskReceipt, TablesInv

LEMMA LoadVersionKeeps ==
  ASSUME TablesInv, NEW c \in Clients, NEW for, LoadVersion(c, for)
  PROVE  TablesInv'
<1> DEFINE doing == [[Resting EXCEPT !.at = "cache", !.for = for, !.durable = ledgerVersion]
                       EXCEPT !.known = client[c].known]
<1>1. Goes(c, doing)
  BY DEF LoadVersion, Asks
<1>2. /\ DOMAIN doing = DOMAIN Resting /\ doing.at = "cache" /\ doing.ans = NoAnswer
      /\ doing.durable = Len(entries)
  BY DEF Resting, TablesInv, TablesShape
<1>3. Len(entries) \in 0 .. Len(entries)
  BY DEF TablesInv, TablesShape
<1> HIDE DEF doing
<1>4. ReadHolds(c, doing, entries) /\ AnswerHolds(c, doing.ans, commands, entries)
  BY <1>2, <1>3 DEF ReadHolds, AnswerHolds, NoAnswer
<1> QED
  BY <1>1, <1>4, Quiet DEF LoadVersion, TablesInv

\* A process that goes back to rest with an answer that is so.
LEMMA AnsweredKeeps ==
  ASSUME TablesInv, NEW c \in Clients, NEW known, NEW answer,
         Goes(c, [Resting EXCEPT !.known = known, !.ans = answer]),
         UNCHANGED <<entries, ledgerVersion, commands, nextEv, tools>>,
         AnswerHolds(c, answer, commands, entries),
         \A row, other \in snapshot' : RowHeld(row, entries) /\ row = other
  PROVE  TablesInv'
<1> DEFINE doing == [Resting EXCEPT !.known = known, !.ans = answer]
<1>1. DOMAIN doing = DOMAIN Resting /\ doing.at = "idle" /\ doing.ans = answer
  BY DEF Resting
<1> HIDE DEF doing
<1>2. ReadHolds(c, doing, entries) /\ AnswerHolds(c, doing.ans, commands, entries)
  BY <1>1 DEF ReadHolds
<1>3. Goes(c, doing)
  BY DEF doing
<1> QED
  BY <1>2, <1>3, Quiet

LEMMA GivesUpKeeps ==
  ASSUME TablesInv, NEW c \in Clients, GivesUp(c)
  PROVE  TablesInv'
<1>1. PICK known : Goes(c, [Resting EXCEPT !.known = known])
  BY DEF GivesUp
<1> DEFINE doing == [Resting EXCEPT !.known = known]
<1>2. DOMAIN doing = DOMAIN Resting /\ doing.at = "idle" /\ doing.ans = NoAnswer
  BY DEF Resting
<1> HIDE DEF doing
<1>3. ReadHolds(c, doing, entries) /\ AnswerHolds(c, doing.ans, commands, entries)
  BY <1>2 DEF ReadHolds, AnswerHolds, NoAnswer
<1>4. Goes(c, doing)
  BY <1>1 DEF doing
<1> QED
  BY <1>3, <1>4, Quiet DEF GivesUp, TablesInv

LEMMA LoadSnapshotKeeps ==
  ASSUME TablesInv, NEW c \in Clients, LoadSnapshot(c)
  PROVE  TablesInv'
<1> DEFINE r == client[c]
           doing == [r EXCEPT !.at = "events",
                              !.cached = {row \in snapshot : Usable(row, r.durable)}]
<1>1. Goes(c, doing) /\ r.at = "cache" /\ ReadHolds(c, r, entries)
  BY DEF LoadSnapshot, TablesInv
<1>2. /\ DOMAIN r = DOMAIN Resting /\ r.ans = NoAnswer /\ r.durable \in 0 .. Len(entries)
  BY <1>1 DEF ReadHolds
<1>3. /\ DOMAIN doing = DOMAIN Resting /\ doing.at = "events" /\ doing.ans = NoAnswer
      /\ doing.durable = r.durable
      /\ doing.cached = {row \in snapshot : Usable(row, r.durable)}
  <2>1. {"at", "ans", "durable", "cached"} \subseteq DOMAIN r
    BY <1>2 DEF Resting
  <2> HIDE DEF r
  <2> QED
    BY <1>2, <2>1
<1>4. \A row \in doing.cached :
        RowHeld(row, entries) /\ row.state = row.checksum /\ row.seq <= doing.durable
  BY <1>3 DEF Usable, IsSound, TablesInv
<1> HIDE DEF doing, r
<1>5. ReadHolds(c, doing, entries) /\ AnswerHolds(c, doing.ans, commands, entries)
  BY <1>2, <1>3, <1>4 DEF ReadHolds, AnswerHolds, NoAnswer
<1> QED
  BY <1>1, <1>5, Quiet DEF LoadSnapshot, TablesInv

\* A cached beginning and the rows from there on are a beginning too.
LEMMA ReadOn ==
  ASSUME TablesInv, NEW state, Begins(state, entries), NEW durable \in Len(state) .. Len(entries)
  PROVE  /\ Len(state \o SubSeq(entries, Len(state) + 1, durable)) = durable
         /\ Begins(state \o SubSeq(entries, Len(state) + 1, durable), entries)
<1> DEFINE more == SubSeq(entries, Len(state) + 1, durable)
<1>1. /\ entries \in Seq(TableRows) /\ state \in Seq(TableRows) /\ Len(state) \in Nat
      /\ Len(entries) \in Nat /\ Len(state) <= Len(entries)
      /\ \A i \in 1 .. Len(state) : state[i] = entries[i]
  BY DEF TablesInv, TablesShape, Begins
<1>2. /\ more \in Seq(TableRows) /\ Len(more) = durable - Len(state)
      /\ \A i \in 1 .. Len(more) : more[i] = entries[Len(state) + i]
  BY <1>1, SubSeqProperties
<1> HIDE DEF more
<1>3. /\ state \o more \in Seq(TableRows) /\ Len(state \o more) = Len(state) + Len(more)
      /\ \A i \in 1 .. Len(state) + Len(more) :
           (state \o more)[i] = IF i <= Len(state) THEN state[i] ELSE more[i - Len(state)]
  BY <1>1, <1>2, ConcatProperties
<1>4. Len(state \o more) = durable /\ durable <= Len(entries)
  BY <1>1, <1>2, <1>3
<1>5. ASSUME NEW i \in 1 .. durable
      PROVE  (state \o more)[i] = entries[i]
  <2>1. CASE i <= Len(state)
    BY <1>1, <1>2, <1>3, <2>1
  <2>2. CASE ~(i <= Len(state))
    <3>1. i - Len(state) \in 1 .. Len(more) /\ Len(state) + (i - Len(state)) = i
      BY <1>1, <1>2, <2>2
    <3> QED
      BY <1>1, <1>2, <1>3, <2>2, <3>1
  <2> QED
    BY <2>1, <2>2
<1> QED
  BY <1>3, <1>4, <1>5 DEF Begins, more

LEMMA LoadEventsKeeps ==
  ASSUME TablesInv, NEW c \in Clients, LoadEvents(c)
  PROVE  TablesInv'
<1> DEFINE r == client[c]
           row == CHOOSE old \in r.cached : TRUE
           state == IF r.cached = {} THEN entries
                    ELSE row.state \o SubSeq(entries, row.seq + 1, r.durable)
<1>1. r.at = "events" /\ ReadHolds(c, r, entries)
  BY DEF LoadEvents, TablesInv
<1>2. /\ DOMAIN r = DOMAIN Resting /\ r.ans = NoAnswer /\ r.durable \in 0 .. Len(entries)
      /\ \A old \in r.cached :
           RowHeld(old, entries) /\ old.state = old.checksum /\ old.seq <= r.durable
  BY <1>1 DEF ReadHolds
<1>3. entries \in Seq(TableRows) /\ Len(entries) \in Nat
  BY DEF TablesInv, TablesShape
<1>4. Begins(state, entries)
  <2>1. CASE r.cached = {}
    BY <1>3, <2>1 DEF Begins
  <2>2. CASE r.cached # {}
    <3>1. RowHeld(row, entries) /\ row.state = row.checksum /\ row.seq <= r.durable
      BY <1>2, <2>2
    <3>2. Begins(row.state, entries) /\ row.seq = Len(row.state)
      BY <3>1 DEF RowHeld
    <3>3. r.durable \in Len(row.state) .. Len(entries)
      BY <1>2, <1>3, <3>1, <3>2 DEF Begins
    <3> HIDE DEF row, r
    <3> QED
      BY <2>2, <3>2, <3>3, ReadOn
  <2> QED
    BY <2>1, <2>2
<1>5. /\ UNCHANGED <<entries, ledgerVersion, commands, nextEv, tools, snapshot>>
      /\ \/ Answered(c, [kind |-> "load_failed"])
         \/ Goes(c, [Resting EXCEPT !.known = r.durable, !.ans = [kind |-> "loaded", state |-> state]])
         \/ Goes(c, [r EXCEPT !.at = "compact", !.cached = {Row(state)}])
  BY Zenon DEF LoadEvents
<1> HIDE DEF state, row
<1>6. \A old, other \in snapshot' : RowHeld(old, entries) /\ old = other
  BY <1>5 DEF TablesInv
<1>7. CASE Answered(c, [kind |-> "load_failed"])
  <2>1. AnswerHolds(c, [kind |-> "load_failed"], commands, entries)
    BY DEF AnswerHolds
  <2> QED
    BY <1>5, <1>6, <1>7, <2>1, AnsweredKeeps DEF Answered
<1>8. CASE Goes(c, [Resting EXCEPT !.known = r.durable, !.ans = [kind |-> "loaded", state |-> state]])
  <2>1. AnswerHolds(c, [kind |-> "loaded", state |-> state], commands, entries)
    BY <1>4 DEF AnswerHolds
  <2> QED
    BY <1>5, <1>6, <1>8, <2>1, AnsweredKeeps
<1>9. CASE Goes(c, [r EXCEPT !.at = "compact", !.cached = {Row(state)}])
  <2> DEFINE doing == [r EXCEPT !.at = "compact", !.cached = {Row(state)}]
  <2>1. /\ DOMAIN doing = DOMAIN Resting /\ doing.at = "compact" /\ doing.ans = NoAnswer
        /\ doing.cached = {Row(state)}
    <3>1. {"at", "ans", "cached"} \subseteq DOMAIN r
      BY <1>2 DEF Resting
    <3> HIDE DEF r
    <3> QED
      BY <1>2, <3>1
  <2>2. RowHeld(Row(state), entries) /\ Row(state).state = Row(state).checksum
    BY <1>4 DEF Row, RowHeld, Begins
  <2> HIDE DEF doing
  <2>3. ReadHolds(c, doing, entries) /\ AnswerHolds(c, doing.ans, commands, entries)
    BY <2>1, <2>2 DEF ReadHolds, AnswerHolds, NoAnswer
  <2>4. Goes(c, doing)
    BY <1>9 DEF doing
  <2> QED
    BY <1>5, <1>6, <2>3, <2>4, Quiet
<1> QED
  BY <1>5, <1>7, <1>8, <1>9

LEMMA CompactKeeps ==
  ASSUME TablesInv, NEW c \in Clients, Compact(c)
  PROVE  TablesInv'
<1>1. ReadHolds(c, client[c], entries) /\ client[c].at = "compact"
  BY DEF Compact, TablesInv
<1>2. \A row, other \in snapshot' : RowHeld(row, entries) /\ row = other
  BY <1>1 DEF ReadHolds, Compact, TablesInv
<1>3. AnswerHolds(c, NoAnswer, commands, entries)
  BY DEF AnswerHolds, NoAnswer
<1> QED
  BY <1>2, <1>3, AnsweredKeeps DEF Compact, Answered

LEMMA DamageKeeps ==
  ASSUME TablesInv, Damage
  PROVE  TablesInv'
<1>1. UNCHANGED <<entries, ledgerVersion, commands, nextEv, tools, client>>
  BY DEF Damage
<1>2. TablesShape' /\ IdsDrawnOnce' /\ CommandsStored' /\ ReceiptsKept'
  BY <1>1 DEF TablesInv, TablesShape, IdsDrawnOnce, CommandsStored, ReceiptsKept
<1>3. PICK row \in snapshot : row.state # <<>> /\ snapshot' = {[row EXCEPT !.state = Tail(@)]}
  BY DEF Damage, TablesInv
<1> DEFINE torn == [row EXCEPT !.state = Tail(@)]
<1>4. /\ DOMAIN row = {"seq", "state", "checksum"}
      /\ Begins(row.checksum, entries) /\ row.seq = Len(row.checksum)
      /\ row.state \in Seq(TableRows) /\ Len(row.state) <= row.seq
  BY DEF RowHeld, TablesInv, Begins
<1>5. /\ DOMAIN torn = {"seq", "state", "checksum"} /\ torn.state = Tail(row.state)
      /\ torn.seq = row.seq /\ torn.checksum = row.checksum
  BY <1>4
<1>6. Tail(row.state) \in Seq(TableRows) /\ Len(Tail(row.state)) < row.seq
  BY <1>3, <1>4 DEF Begins
<1> HIDE DEF torn
<1>7. RowHeld(torn, entries)
  BY <1>4, <1>5, <1>6 DEF RowHeld
<1>8. snapshot' = {torn}
  BY <1>3 DEF torn
<1> QED
  BY <1>1, <1>2, <1>7, <1>8 DEF TablesInv

-----------------------------------------------------------------------------
\* A batch that fits has events the stream does not, each once.
LEMMA FitsIsNew ==
  ASSUME NEW ids, Fits(ids)
  PROVE  \A i \in DOMAIN ids :
           ids[i] \notin Ids(entries) /\ \A j \in 1 .. (i - 1) : ids[i] # ids[j]
BY DEF Fits

\* The invariant after a transaction whose process goes back to rest with an
\* answer that is so.
LEMMA WroteAnswered ==
  ASSUME TablesInv, NEW c \in Clients, NEW n \in Nat, NEW known, NEW answer, NEW cmd,
         cmd \in {<<"cmd", c, n>>, <<"receipt", c, n>>},
         Goes(c, [Resting EXCEPT !.known = known, !.ans = answer]),
         TablesShape', IdsDrawnOnce', CommandsStored', ReceiptsKept', UNCHANGED snapshot,
         GoesOn(entries, entries'), Adds(commands, commands', cmd),
         AnswerHolds(c, answer, commands', entries')
  PROVE  TablesInv'
<1> DEFINE doing == [Resting EXCEPT !.known = known, !.ans = answer]
<1>1. DOMAIN doing = DOMAIN Resting /\ doing.at = "idle" /\ doing.ans = answer
  BY DEF Resting
<1>2. Goes(c, doing)
  OBVIOUS
<1> HIDE DEF doing
<1>3. /\ client' = [d \in Clients |-> client'[d]] /\ client'[c] = doing
      /\ \A d \in Clients \ {c} : client'[d] = client[d]
  BY <1>2 DEF TablesInv, Goes
<1>4. ReadHolds(c, client'[c], entries') /\ AnswerHolds(c, client'[c].ans, commands', entries')
  BY <1>1, <1>3 DEF ReadHolds
<1>5. ASSUME NEW d \in Clients \ {c}
      PROVE  ReadHolds(d, client'[d], entries') /\ AnswerHolds(d, client'[d].ans, commands', entries')
  <2>1. AnswerHolds(d, client[d].ans, commands, entries)
    BY DEF TablesInv
  <2>2. client[d].ans.kind = "conflict" => client[d].ans.cmd # cmd
    BY <2>1 DEF AnswerHolds
  <2>3. ReadHolds(d, client[d], entries') /\ AnswerHolds(d, client[d].ans, commands', entries')
    BY <2>2, WroteAmong
  <2> QED
    BY <1>3, <2>3
<1>6. \A row, other \in snapshot' : RowHeld(row, entries') /\ row = other
  BY StillHeld DEF TablesInv
<1> QED
  BY <1>3, <1>4, <1>5, <1>6 DEF TablesInv

LEMMA AppendKeeps ==
  ASSUME TablesInv, NEW c \in Clients, AppendCommand(c)
  PROVE  TablesInv'
<1> DEFINE req == client[c].req
<1>1. /\ client[c].at = "append" /\ UNCHANGED <<nextEv, tools, snapshot>>
      /\ ReadHolds(c, client[c], entries)
  BY DEF AppendCommand, TablesInv
<1>2. PICK n \in Nat : req.payload \in Payloads /\ req.cmd = <<"cmd", c, n>>
  BY <1>1 DEF ReadHolds
<1>3. \/ /\ req.cmd \in DOMAIN commands
         /\ \/ commands[req.cmd].payload = req.payload /\ Answered(c, Stored(req.cmd))
            \/ Answered(c, Refusal("reused", req))
         /\ UNCHANGED <<entries, ledgerVersion, commands>>
      \/ /\ req.cmd \notin DOMAIN commands /\ Answered(c, Refusal("conflict", req))
         /\ UNCHANGED <<entries, ledgerVersion, commands>>
      \/ /\ Answered(c, Refusal("invalid", req))
         /\ UNCHANGED <<entries, ledgerVersion, commands>>
      \/ /\ req.cmd \notin DOMAIN commands /\ Fits(req.payload)
         /\ Writes(req.cmd, req.payload, req.payload, 0)
         /\ Answered(c, [kind |-> "appended", cmd |-> req.cmd, payload |-> req.payload,
                         place |-> (ledgerVersion + 1) .. (ledgerVersion + Len(req.payload))])
  BY DEF AppendCommand
<1> HIDE DEF req
<1>4. ASSUME NEW answer, Answered(c, answer), AnswerHolds(c, answer, commands, entries),
             UNCHANGED <<entries, ledgerVersion, commands>>
      PROVE  TablesInv'
  <2>1. \A row, other \in snapshot' : RowHeld(row, entries) /\ row = other
    BY <1>1 DEF TablesInv
  <2> QED
    BY <1>1, <1>4, <2>1, AnsweredKeeps DEF Answered
<1>5. ASSUME req.cmd \in DOMAIN commands, Answered(c, Stored(req.cmd)),
             UNCHANGED <<entries, ledgerVersion, commands>>
      PROVE  TablesInv'
  <2>1. AnswerHolds(c, Stored(req.cmd), commands, entries)
    BY <1>2, <1>5 DEF AnswerHolds, Stored
  <2> QED
    BY <1>4, <1>5, <2>1
<1>6. ASSUME NEW kind \in {"reused", "invalid"}, Answered(c, Refusal(kind, req)),
             UNCHANGED <<entries, ledgerVersion, commands>>
      PROVE  TablesInv'
  <2>1. AnswerHolds(c, Refusal(kind, req), commands, entries)
    BY DEF AnswerHolds, Refusal
  <2> QED
    BY <1>4, <1>6, <2>1
<1>7. ASSUME req.cmd \notin DOMAIN commands, Answered(c, Refusal("conflict", req)),
             UNCHANGED <<entries, ledgerVersion, commands>>
      PROVE  TablesInv'
  <2>1. AnswerHolds(c, Refusal("conflict", req), commands, entries)
    BY <1>2, <1>7 DEF AnswerHolds, Refusal
  <2> QED
    BY <1>4, <1>7, <2>1
<1>8. ASSUME req.cmd \notin DOMAIN commands, Fits(req.payload),
             Writes(req.cmd, req.payload, req.payload, 0),
             Answered(c, [kind |-> "appended", cmd |-> req.cmd, payload |-> req.payload,
                          place |-> (ledgerVersion + 1) .. (ledgerVersion + Len(req.payload))])
      PROVE  TablesInv'
  <2> DEFINE cmd == req.cmd
             ids == req.payload
             answer == [kind |-> "appended", cmd |-> cmd, payload |-> ids,
                        place |-> (ledgerVersion + 1) .. (ledgerVersion + Len(ids))]
  <2>1. /\ ids \in Seq(EventIds) /\ cmd \in CommandIds /\ cmd[1] = "cmd"
        /\ \A i \in 1 .. Len(ids), m \in Nat : ids[i] # <<"ev", m>>
    BY <1>2, PayloadsAreIds DEF CommandIds
  <2>2. \A id : cmd # <<"task", id>>
    BY <2>1
  <2>3. \A i \in DOMAIN ids : ids[i] \notin Ids(entries) /\ \A j \in 1 .. (i - 1) : ids[i] # ids[j]
    BY <1>8, FitsIsNew
  <2> HIDE DEF cmd, ids
  <2>4. /\ GoesBehind(entries, entries', cmd, ids)
    BY <1>8, <2>1, WrittenRows DEF cmd, ids
  <2>5. /\ GoesOn(entries, entries') /\ ledgerVersion' = Len(entries')
        /\ Adds(commands, commands', cmd) /\ DOMAIN commands' \subseteq CommandIds
        /\ commands'[cmd] = [payload |-> ids, first |-> Len(entries) + 1,
                             count |-> Len(ids), index |-> 0]
        /\ \A i, j \in DOMAIN entries' : entries'[i].id = entries'[j].id => i = j
        /\ CommandsStored'
    BY <1>8, <2>1, <2>2, <2>3, Wrote DEF cmd, ids
  <2>6. TablesShape'
    BY <1>1, <2>5 DEF TablesInv, TablesShape, GoesOn
  <2>7. IdsDrawnOnce'
    BY <1>1, <2>1, <2>4, <2>5, WroteIds DEF IdsDrawnOnce
  <2>8. ReceiptsKept'
    BY <1>1, <2>1, <2>5, WroteOther
  <2>9. AnswerHolds(c, answer, commands', entries')
    <3>1. /\ ledgerVersion = Len(entries) /\ Len(entries) \in Nat /\ Len(ids) \in Nat
          /\ (Len(entries) + 1) + Len(ids) - 1 = Len(entries) + Len(ids)
      BY <2>1 DEF TablesInv, TablesShape
    <3>2. /\ answer.kind = "appended" /\ answer.cmd = cmd /\ answer.payload = ids
          /\ answer.place = (Len(entries) + 1) .. ((Len(entries) + 1) + Len(ids) - 1)
      BY <3>1
    <3>3. cmd \in DOMAIN commands' /\ cmd[1] # "receipt"
      BY <2>1, <2>5 DEF Adds
    <3> HIDE DEF answer
    <3> QED
      BY <2>5, <3>2, <3>3 DEF AnswerHolds
  <2>10. Goes(c, [Resting EXCEPT !.known = client[c].known, !.ans = answer])
    BY <1>8 DEF Answered, cmd, ids
  <2>11. cmd \in {<<"cmd", c, n>>, <<"receipt", c, n>>}
    BY <1>2 DEF cmd
  <2> HIDE DEF answer
  <2> QED
    BY <1>1, <2>5, <2>6, <2>7, <2>8, <2>9, <2>10, <2>11, WroteAnswered
<1> QED
  BY <1>3, <1>5, <1>6, <1>7, <1>8

LEMMA MoveTaskKeeps ==
  ASSUME TablesInv, NEW id \in TaskEvents, MoveTask(id)
  PROVE  TablesInv'
<1> DEFINE cmd == <<"task", id>>
           ids == <<id>>
<1>1. /\ Fits(ids) /\ Writes(cmd, ids, ids, 0) /\ UNCHANGED <<nextEv, tools, snapshot, client>>
  BY DEF MoveTask
<1>2. /\ ids \in Seq(EventIds) /\ Len(ids) = 1 /\ ids[1] = id /\ DOMAIN ids = 1 .. 1
      /\ cmd \in CommandIds /\ cmd[1] = "task" /\ cmd[1] # "receipt"
      /\ \A other : cmd = <<"task", other>> => ids = <<other>>
  <2>1. id \in EventIds /\ cmd \in CommandIds
    BY DEF EventIds, CommandIds
  <2>2. cmd[1] = "task" /\ \A other : cmd = <<"task", other>> => id = other
    OBVIOUS
  <2>3. ids \in Seq(EventIds) /\ Len(ids) = 1 /\ ids[1] = id /\ DOMAIN ids = 1 .. 1
    BY <2>1
  <2> QED
    BY <2>1, <2>2, <2>3
<1>3. id[1] # "ev"
  BY TablesAssumption
<1>4. \A i \in 1 .. Len(ids), n \in Nat : ids[i] # <<"ev", n>>
  BY <1>2, <1>3
<1>5. \A i \in DOMAIN ids : ids[i] \notin Ids(entries) /\ \A j \in 1 .. (i - 1) : ids[i] # ids[j]
  BY <1>1, FitsIsNew
<1>6. cmd \notin DOMAIN commands
  <2> SUFFICES ASSUME cmd \in DOMAIN commands
               PROVE  FALSE
    OBVIOUS
  <2> DEFINE k == commands[cmd]
  <2>1. StoredAt(cmd, k, entries)
    BY DEF TablesInv, CommandsStored
  <2> HIDE DEF k, ids
  <2>2. k.payload = <<id>>
    BY <2>1 DEF StoredAt
  <2>3. Len(<<id>>) = 1 /\ <<id>>[1] = id
    OBVIOUS
  <2>4. /\ k.count = 1 /\ k.first \in Nat \ {0} /\ k.first + k.count <= Len(entries) + 1
        /\ \A i \in 1 .. k.count : entries[k.first + i - 1].id = k.payload[i]
    BY <1>2, <2>1, <2>2, <2>3 DEF StoredAt
  <2>5. k.first \in 1 .. Len(entries) /\ k.first + 1 - 1 = k.first /\ 1 \in 1 .. k.count
    BY <2>4 DEF TablesInv, TablesShape
  <2>6. k.first \in DOMAIN entries /\ entries[k.first].id = id
    BY <2>2, <2>3, <2>4, <2>5 DEF TablesInv, TablesShape
  <2> QED
    BY <1>2, <1>5, <2>6 DEF Ids
<1> HIDE DEF cmd, ids
<1>7. GoesBehind(entries, entries', cmd, ids)
  BY <1>1, <1>2, WrittenRows
<1>8. /\ GoesOn(entries, entries') /\ ledgerVersion' = Len(entries')
      /\ Adds(commands, commands', cmd) /\ DOMAIN commands' \subseteq CommandIds
      /\ \A i, j \in DOMAIN entries' : entries'[i].id = entries'[j].id => i = j
      /\ CommandsStored'
  BY <1>1, <1>2, <1>5, <1>6, Wrote
<1>9. TablesShape'
  BY <1>1, <1>8 DEF TablesInv, TablesShape, GoesOn
<1>10. IdsDrawnOnce'
  BY <1>1, <1>4, <1>7, <1>8, WroteIds DEF IdsDrawnOnce
<1>11. ReceiptsKept' /\ \A row, other \in snapshot' : RowHeld(row, entries') /\ row = other
  BY <1>1, <1>2, <1>8, WroteOther
<1>12. ASSUME NEW d \in Clients
       PROVE  ReadHolds(d, client[d], entries') /\ AnswerHolds(d, client[d].ans, commands', entries')
  <2>1. AnswerHolds(d, client[d].ans, commands, entries)
    BY DEF TablesInv
  <2>2. client[d].ans.kind = "conflict" => client[d].ans.cmd # cmd
    BY <1>2, <2>1 DEF AnswerHolds
  <2> QED
    BY <1>8, <2>2, WroteAmong
<1>13. client' = client /\ client = [d \in Clients |-> client[d]]
  BY <1>1 DEF TablesInv
<1> QED
  BY <1>8, <1>9, <1>10, <1>11, <1>12, <1>13 DEF TablesInv

LEMMA RecordEvidenceKeeps ==
  ASSUME TablesInv, NEW c \in Clients, RecordEvidence(c)
  PROVE  TablesInv'
<1> DEFINE cmd == client[c].req.cmd
           ids == <<<<"ev", nextEv>>>>
           index == Len(tools[c]) + 1
<1>1. /\ client[c].at = "receipt" /\ UNCHANGED snapshot /\ ReadHolds(c, client[c], entries)
  BY DEF RecordEvidence, TablesInv
<1>2. PICK n \in Nat : cmd = <<"receipt", c, n>>
  BY <1>1 DEF ReadHolds
<1>3. /\ ledgerVersion = Len(entries) /\ Len(entries) \in Nat /\ nextEv \in Nat
      /\ tools \in [Clients -> Seq(CommandIds)] /\ DOMAIN commands \subseteq CommandIds
  BY DEF TablesInv, TablesShape
<1>4. CASE cmd \in DOMAIN commands
  <2> DEFINE k == commands[cmd]
             answer == Receipt(cmd, k.index, k.first, ledgerVersion)
  <2>1. /\ Goes(c, [Resting EXCEPT !.known = client[c].known, !.ans = answer])
        /\ UNCHANGED <<entries, ledgerVersion, commands, nextEv, tools>>
    BY <1>4 DEF RecordEvidence, Answered
  <2>2. /\ k.first \in Nat /\ k.first + k.count <= Len(entries) + 1 /\ k.count = 1
    BY <1>2, <1>4 DEF TablesInv, CommandsStored, StoredAt
  <2>3. /\ answer.kind = "receipt" /\ answer.cmd = cmd /\ answer.index = k.index
        /\ answer.at = k.first /\ answer.version = Len(entries) /\ k.first <= Len(entries)
    BY <1>3, <2>2 DEF Receipt
  <2> HIDE DEF answer
  <2>4. AnswerHolds(c, answer, commands, entries)
    BY <1>2, <1>4, <2>3 DEF AnswerHolds
  <2>5. \A row, other \in snapshot' : RowHeld(row, entries) /\ row = other
    BY <1>1 DEF TablesInv
  <2> QED
    BY <2>1, <2>4, <2>5, AnsweredKeeps
<1>5. CASE cmd \notin DOMAIN commands
  <2> DEFINE answer == Receipt(cmd, index, ledgerVersion + 1, ledgerVersion + 1)
  <2>1. /\ Writes(cmd, <<>>, ids, index) /\ tools' = [tools EXCEPT ![c] = Append(@, cmd)]
        /\ nextEv' = nextEv + 1
        /\ Goes(c, [Resting EXCEPT !.known = client[c].known, !.ans = answer])
    BY <1>5 DEF RecordEvidence, Answered
  <2>2. /\ ids \in Seq(EventIds) /\ Len(ids) = 1 /\ ids[1] = <<"ev", nextEv>> /\ DOMAIN ids = 1 .. 1
        /\ cmd \in CommandIds /\ cmd[1] = "receipt" /\ \A id : cmd # <<"task", id>>
    <3>1. <<"ev", nextEv>> \in EventIds
      BY <1>3 DEF EventIds
    <3>2. cmd \in CommandIds
      BY <1>2 DEF CommandIds
    <3>3. cmd[1] = "receipt" /\ \A id : cmd # <<"task", id>>
      BY <1>2
    <3>4. ids \in Seq(EventIds) /\ Len(ids) = 1 /\ ids[1] = <<"ev", nextEv>> /\ DOMAIN ids = 1 .. 1
      BY <3>1
    <3> QED
      BY <3>2, <3>3, <3>4
  <2> HIDE DEF cmd, ids, index
  <2>3. \A i \in DOMAIN ids : ids[i] \notin Ids(entries) /\ \A j \in 1 .. (i - 1) : ids[i] # ids[j]
    <3>1. <<"ev", nextEv>> \notin Ids(entries)
      BY <1>3 DEF Ids, TablesInv, IdsDrawnOnce
    <3> QED
      BY <2>2, <3>1
  <2>4. GoesBehind(entries, entries', cmd, ids)
    BY <2>1, <2>2, WrittenRows
  <2>5. /\ GoesOn(entries, entries') /\ ledgerVersion' = Len(entries')
        /\ Adds(commands, commands', cmd) /\ DOMAIN commands' \subseteq CommandIds
        /\ commands'[cmd] = [payload |-> <<>>, first |-> Len(entries) + 1,
                             count |-> Len(ids), index |-> index]
        /\ \A i, j \in DOMAIN entries' : entries'[i].id = entries'[j].id => i = j
        /\ CommandsStored'
    BY <1>5, <2>1, <2>2, <2>3, Wrote
  <2> DEFINE with == Append(tools[c], cmd)
  <2>6. /\ tools'[c] = with /\ \A d \in Clients \ {c} : tools'[d] = tools[d]
        /\ tools' \in [Clients -> Seq(CommandIds)]
        /\ index \in DOMAIN with /\ with[index] = cmd
        /\ \A i \in DOMAIN tools[c] : i \in DOMAIN with /\ with[i] = tools[c][i]
        /\ \A i \in DOMAIN with : i \in DOMAIN tools[c] \/ i = index
    <3>1. tools[c] \in Seq(CommandIds) /\ Len(tools[c]) \in Nat
      BY <1>3
    <3>2. /\ with \in Seq(CommandIds) /\ Len(with) = index /\ with[index] = cmd
          /\ \A i \in 1 .. Len(tools[c]) : with[i] = tools[c][i]
      BY <2>2, <3>1, AppendProperties DEF index
    <3>3. /\ DOMAIN with = 1 .. index /\ DOMAIN tools[c] = 1 .. Len(tools[c])
          /\ index = Len(tools[c]) + 1
      BY <3>1, <3>2 DEF index
    <3> HIDE DEF with
    <3>4. tools' = [tools EXCEPT ![c] = with]
      BY <2>1 DEF with
    <3>5. tools'[c] = with /\ tools' \in [Clients -> Seq(CommandIds)]
      BY <1>3, <3>2, <3>4
    <3>6. \A d \in Clients \ {c} : tools'[d] = tools[d]
      BY <1>3, <3>4
    <3> QED
      BY <3>1, <3>2, <3>3, <3>5, <3>6
  <2> HIDE DEF with
  <2>7. TablesShape'
    BY <1>3, <2>1, <2>5, <2>6 DEF TablesShape, GoesOn
  <2>8. \A i \in DOMAIN entries', m \in Nat : m >= nextEv' => entries'[i].id # <<"ev", m>>
    <3> SUFFICES ASSUME NEW i \in DOMAIN entries', NEW m \in Nat, m >= nextEv + 1
                 PROVE  entries'[i].id # <<"ev", m>>
      BY <2>1
    <3>1. CASE i \in DOMAIN entries
      <4>1. entries'[i] = entries[i]
        BY <2>5, <3>1 DEF GoesOn
      <4>2. m >= nextEv
        BY <1>3
      <4> QED
        BY <3>1, <4>1, <4>2 DEF TablesInv, IdsDrawnOnce
    <3>2. CASE i \notin DOMAIN entries
      <4>1. entries'[i].id = <<"ev", nextEv>>
        BY <2>2, <2>4, <3>2 DEF GoesBehind
      <4>2. m # nextEv
        BY <1>3
      <4> QED
        BY <4>1, <4>2
    <3> QED
      BY <3>1, <3>2
  <2>9. IdsDrawnOnce'
    BY <2>5, <2>8 DEF IdsDrawnOnce
  <2>10. ReceiptsKept'
    <3>1. ASSUME NEW d \in Clients, NEW i \in DOMAIN tools'[d]
          PROVE  tools'[d][i] \in DOMAIN commands' /\ commands'[tools'[d][i]].index = i
      <4>1. CASE i \in DOMAIN tools[d]
        <5>1. tools'[d][i] = tools[d][i]
          BY <2>6, <4>1
        <5> QED
          BY <2>5, <4>1, <5>1 DEF Adds, TablesInv, ReceiptsKept
      <4>2. CASE i \notin DOMAIN tools[d]
        <5>1. d = c /\ i = index /\ tools'[d][i] = cmd
          BY <2>6, <3>1, <4>2
        <5> QED
          BY <2>5, <5>1 DEF Adds
      <4> QED
        BY <4>1, <4>2
    <3>2. ASSUME NEW d \in Clients, NEW m \in Nat, <<"receipt", d, m>> \in DOMAIN commands'
          PROVE  LET e == <<"receipt", d, m>>
                 IN commands'[e].index \in DOMAIN tools'[d] /\ tools'[d][commands'[e].index] = e
      <4> DEFINE e == <<"receipt", d, m>>
      <4>1. CASE e = cmd
        <5>1. d = c
          BY <1>2, <4>1 DEF cmd
        <5>2. commands'[e].index = index
          BY <2>5, <4>1
        <5> QED
          BY <2>6, <4>1, <5>1, <5>2
      <4>2. CASE e # cmd
        <5>1. e \in DOMAIN commands /\ commands'[e] = commands[e]
          BY <2>5, <3>2, <4>2 DEF Adds
        <5>2. commands[e].index \in DOMAIN tools[d] /\ tools[d][commands[e].index] = e
          BY <5>1 DEF TablesInv, ReceiptsKept
        <5> QED
          BY <2>6, <5>1, <5>2
      <4> QED
        BY <4>1, <4>2
    <3> QED
      BY <3>1, <3>2 DEF ReceiptsKept
  <2>11. AnswerHolds(c, answer, commands', entries')
    <3>1. /\ answer.kind = "receipt" /\ answer.cmd = cmd /\ answer.index = index
          /\ answer.at = Len(entries) + 1 /\ answer.version = Len(entries) + 1
      BY <1>3 DEF Receipt
    <3>2. cmd \in DOMAIN commands' /\ Len(entries) + 1 <= Len(entries) + 1
      BY <1>3, <2>5 DEF Adds
    <3> HIDE DEF answer
    <3> QED
      BY <1>2, <2>5, <3>1, <3>2 DEF AnswerHolds
  <2>12. cmd \in {<<"cmd", c, n>>, <<"receipt", c, n>>}
    BY <1>2
  <2> HIDE DEF answer
  <2> QED
    BY <1>1, <2>1, <2>5, <2>7, <2>9, <2>10, <2>11, <2>12, WroteAnswered
<1> QED
  BY <1>4, <1>5

-----------------------------------------------------------------------------
LEMMA TablesInit == LTInit => TablesInv
<1> SUFFICES ASSUME LTInit
             PROVE  TablesInv
  OBVIOUS
<1>1. /\ entries = <<>> /\ ledgerVersion = 0 /\ commands = <<>> /\ nextEv = 1
      /\ tools = [c \in Clients |-> <<>>] /\ snapshot = {} /\ client = [c \in Clients |-> Resting]
  BY DEF LTInit
<1>2. DOMAIN entries = {} /\ DOMAIN commands = {} /\ entries \in Seq(TableRows) /\ Len(entries) = 0
  BY <1>1
<1>3. TablesShape /\ IdsDrawnOnce /\ CommandsStored /\ ReceiptsKept
  BY <1>1, <1>2 DEF TablesShape, IdsDrawnOnce, CommandsStored, ReceiptsKept
<1>4. Resting.at = "idle" /\ Resting.ans = NoAnswer
  BY DEF Resting
<1>5. \A c \in Clients :
        ReadHolds(c, client[c], entries) /\ AnswerHolds(c, client[c].ans, commands, entries)
  BY <1>1, <1>4 DEF ReadHolds, AnswerHolds, NoAnswer
<1> QED
  BY <1>1, <1>3, <1>5 DEF TablesInv

LEMMA TablesStep ==
  ASSUME TablesInv, [LTNext]_ltVars
  PROVE  TablesInv'
<1>1. CASE UNCHANGED ltVars
  BY <1>1 DEF ltVars, TablesInv, TablesShape, IdsDrawnOnce, CommandsStored, ReceiptsKept
<1>2. CASE LTNext
  BY <1>2, AskAppendKeeps, AskReceiptKeeps, LoadVersionKeeps, AppendKeeps, RecordEvidenceKeeps,
     LoadSnapshotKeeps, LoadEventsKeeps, CompactKeeps, GivesUpKeeps, MoveTaskKeeps, DamageKeeps
     DEF LTNext
<1> QED
  BY <1>1, <1>2

LEMMA TablesTrue == TablesInv => AnswersAreTrue
<1> SUFFICES ASSUME TablesInv
             PROVE  AnswersAreTrue
  OBVIOUS
<1>1. /\ ledgerVersion = Len(entries) /\ entries \in Seq(TableRows)
      /\ \A i, j \in DOMAIN entries : entries[i].id = entries[j].id => i = j
  BY DEF TablesInv, TablesShape, IdsDrawnOnce
<1>2. \A cmd \in DOMAIN commands :
        Places(cmd) = commands[cmd].first .. (commands[cmd].first + commands[cmd].count - 1)
  BY DEF TablesInv, CommandsStored, StoredAt, Places
<1>3. ASSUME NEW c \in Clients
      PROVE  LET a == client[c].ans
             IN /\ a.kind = "loaded" => a.state = SubSeq(entries, 1, Len(a.state))
                /\ a.kind = "appended" =>
                     /\ Places(a.cmd) = a.place
                     /\ [i \in 1..Len(a.payload) |->
                           entries[commands[a.cmd].first + i - 1].id] = a.payload
                /\ a.kind = "conflict" => a.cmd \notin DOMAIN commands
                /\ a.kind = "receipt" =>
                     /\ Places(a.cmd) = {a.at} /\ a.at <= a.version
                     /\ {i \in DOMAIN tools[c] : tools[c][i] = a.cmd} = {a.index}
  <2> DEFINE a == client[c].ans
             k == commands[a.cmd]
  <2>1. AnswerHolds(c, a, commands, entries)
    BY DEF TablesInv
  <2>2. ASSUME a.kind = "loaded"
        PROVE  a.state = SubSeq(entries, 1, Len(a.state))
    <3> DEFINE state == a.state
    <3>1. /\ state \in Seq(TableRows) /\ Len(state) <= Len(entries) /\ Len(state) \in Nat
          /\ \A i \in 1 .. Len(state) : state[i] = entries[i]
      BY <2>1, <2>2 DEF AnswerHolds, Begins
    <3> HIDE DEF state
    <3>2. /\ SubSeq(entries, 1, Len(state)) \in Seq(TableRows)
          /\ Len(SubSeq(entries, 1, Len(state))) = Len(state)
          /\ \A i \in 1 .. Len(state) : SubSeq(entries, 1, Len(state))[i] = entries[i]
      BY <1>1, <3>1, SubSeqProperties
    <3>3. state = SubSeq(entries, 1, Len(state))
      BY <3>1, <3>2, SeqEqual
    <3> QED
      BY <3>3 DEF state
  <2>3. ASSUME a.kind = "appended"
        PROVE  /\ Places(a.cmd) = a.place
               /\ [i \in 1 .. Len(a.payload) |-> entries[k.first + i - 1].id] = a.payload
    <3>1. /\ a.cmd \in DOMAIN commands /\ a.cmd[1] # "receipt" /\ a.payload = k.payload
          /\ a.place = k.first .. (k.first + k.count - 1)
      BY <2>1, <2>3 DEF AnswerHolds
    <3>2. /\ k.payload \in Seq(EventIds) /\ Len(k.payload) = k.count
          /\ \A i \in 1 .. k.count : entries[k.first + i - 1].id = k.payload[i]
      BY <3>1 DEF TablesInv, CommandsStored, StoredAt
    <3> DEFINE payload == k.payload
               told == [i \in 1 .. Len(payload) |-> entries[k.first + i - 1].id]
    <3>3. payload = [i \in 1 .. Len(payload) |-> payload[i]]
      <4>1. payload \in Seq(EventIds)
        BY <3>2
      <4> HIDE DEF payload
      <4> QED
        BY <4>1
    <3>4. \A i \in 1 .. Len(payload) : entries[k.first + i - 1].id = payload[i]
      BY <3>2
    <3>5. told = payload
      BY <3>3, <3>4
    <3> QED
      BY <1>2, <3>1, <3>5
  <2>4. a.kind = "conflict" => a.cmd \notin DOMAIN commands
    BY <2>1 DEF AnswerHolds
  <2>5. ASSUME a.kind = "receipt"
        PROVE  /\ Places(a.cmd) = {a.at} /\ a.at <= a.version
               /\ {i \in DOMAIN tools[c] : tools[c][i] = a.cmd} = {a.index}
    <3>1. PICK n \in Nat : a.cmd = <<"receipt", c, n>>
      BY <2>1, <2>5 DEF AnswerHolds
    <3>2. /\ a.cmd \in DOMAIN commands /\ a.at = k.first /\ a.at <= a.version /\ a.index = k.index
      BY <2>1, <2>5 DEF AnswerHolds
    <3>3. k.first \in Nat /\ k.count = 1
      BY <3>1, <3>2 DEF TablesInv, CommandsStored, StoredAt
    <3>4. Places(a.cmd) = {a.at}
      <4>1. k.first .. (k.first + k.count - 1) = {k.first}
        BY <3>3
      <4> QED
        BY <1>2, <3>2, <4>1
    <3>5. k.index \in DOMAIN tools[c] /\ tools[c][k.index] = a.cmd
      <4> DEFINE cmd == <<"receipt", c, n>>
      <4>1. cmd \in DOMAIN commands =>
              commands[cmd].index \in DOMAIN tools[c] /\ tools[c][commands[cmd].index] = cmd
        BY DEF TablesInv, ReceiptsKept
      <4> HIDE DEF cmd
      <4>2. a.cmd = cmd
        BY <3>1 DEF cmd
      <4> QED
        BY <3>2, <4>1, <4>2
    <3>6. \A i \in DOMAIN tools[c] : tools[c][i] = a.cmd => k.index = i
      BY DEF TablesInv, ReceiptsKept
    <3> QED
      BY <3>2, <3>4, <3>5, <3>6
  <2> QED
    BY <2>2, <2>3, <2>4, <2>5
<1> QED
  BY <1>1, <1>3 DEF AnswersAreTrue

\* For any processes, payloads and events of tasks, whatever is repeated, lost
\* or damaged: what append, record_evidence and load of ledger_store.rs answer
\* is so, and stays so while the answer is held.
THEOREM AnswersStayTrue == LTSpec => []AnswersAreTrue
<1>1. LTSpec => []TablesInv
  BY TablesInit, TablesStep, PTL DEF LTSpec
<1> QED
  BY <1>1, TablesTrue, PTL

-----------------------------------------------------------------------------
(***************************************************************************)
(* Subagents: InterruptReachesAll and CleanIsEarned for any number of runs, *)
(* any depth, any pool and any number of turns.                             *)
(*                                                                         *)
(* That a cancelled turn reaches a run is not inductive: the run may hang   *)
(* below others that have ended.  What carries it is that every live run    *)
(* of a turn still knows, among the runs above it, one that the turn at the *)
(* top started itself, whose token is below the turn's own.                 *)
(***************************************************************************)
RunRecords ==
    [st : {"none", "running", "ended"}, mode : {"none", "sync", "background", "again"},
     boss : Nat, above : SUBSET SubRuns, origin : Nat, depth : Nat,
     permit : BOOLEAN, waited : BOOLEAN, cut : BOOLEAN, failed : BOOLEAN,
     seen : {"none", "lost", "completed", "partial", "failed", "cancelled"},
     clean : BOOLEAN]

Shape ==
    /\ sub \in [SubRuns -> RunRecords]
    /\ turn \in Nat \ {0} /\ stopped \subseteq Nat \ {0}

\* A run that was started at the top in turn o.
StartedByTurn(runs, b, o) ==
    runs[b].st # "none" /\ runs[b].boss = Root /\ runs[b].origin = o

\* The token of a live run of a turn is below the turn's own.
HangsBelowTurn ==
    \A a \in SubRuns : Live(a) /\ sub[a].origin # 0 =>
        \/ sub[a].boss = Root
        \/ \E b \in sub[a].above : StartedByTurn(sub, b, sub[a].origin)

SubInv == Shape /\ HangsBelowTurn /\ InterruptReachesAll /\ CleanIsEarned

LEMMA NoRunIsRecord == NoRun \in RunRecords
BY DEF NoRun, RunRecords

LEMMA SubInitially == SubInit => SubInv
<1> SUFFICES ASSUME SubInit PROVE SubInv
  OBVIOUS
<1>1. NoRun \in RunRecords /\ NoRun.st = "none" /\ NoRun.seen = "none"
  BY DEF NoRun, RunRecords
<1>2. \A a \in SubRuns : sub[a] = NoRun
  BY DEF SubInit
<1>3. Shape
  BY <1>1 DEF SubInit, Shape
<1>4. QED
  BY <1>1, <1>2, <1>3 DEF SubInv, HangsBelowTurn, InterruptReachesAll, CleanIsEarned, Live

-----------------------------------------------------------------------------
(* Three ways a step changes the runs.                                     *)

\* A run is started.
LEMMA Starting ==
    ASSUME SubInv, NEW a \in SubRuns, Unused(a), NEW r \in RunRecords,
           sub' = [sub EXCEPT ![a] = r], turn' = turn, stopped' = stopped,
           r.st = "running", r.seen = "none", r.origin \in stopped => r.cut,
           \/ r.origin = 0 \/ r.boss = Root
           \/ \E b \in r.above : StartedByTurn(sub, b, r.origin)
    PROVE  SubInv'
<1>1. /\ sub \in [SubRuns -> RunRecords] /\ sub[a].st = "none"
      /\ sub'[a] = r /\ \A c \in SubRuns : c # a => sub'[c] = sub[c]
  BY DEF SubInv, Shape, Unused
<1>2. Shape'
  BY <1>1 DEF SubInv, Shape
<1>3. \A b \in SubRuns : \A o : StartedByTurn(sub, b, o) => StartedByTurn(sub', b, o)
  BY <1>1 DEF StartedByTurn
<1>4. \A c \in SubRuns : sub[c].above \subseteq SubRuns
  BY <1>1 DEF RunRecords
<1>5. r.above \subseteq SubRuns
  BY DEF RunRecords
<1>6. HangsBelowTurn'
  <2> SUFFICES ASSUME NEW c \in SubRuns, Live(c)', sub'[c].origin # 0
               PROVE  \/ sub'[c].boss = Root
                      \/ \E b \in sub'[c].above : StartedByTurn(sub', b, sub'[c].origin)
    BY DEF HangsBelowTurn
  <2>1. CASE c = a
    BY <1>1, <1>3, <1>5, <2>1
  <2>2. CASE c # a
    <3>1. sub'[c] = sub[c] /\ Live(c)
      BY <1>1, <2>2 DEF Live
    <3>2. sub[c].boss = Root \/ \E b \in sub[c].above : StartedByTurn(sub, b, sub[c].origin)
      BY <3>1 DEF SubInv, HangsBelowTurn
    <3>3. QED BY <1>3, <1>4, <3>1, <3>2
  <2>3. QED BY <2>1, <2>2
<1>7. InterruptReachesAll' /\ CleanIsEarned'
  BY <1>1 DEF SubInv, InterruptReachesAll, CleanIsEarned, Live
<1>8. QED BY <1>2, <1>6, <1>7 DEF SubInv

\* A run ends or notes something: who started it, and in which turn, stays.
LEMMA Going ==
    ASSUME SubInv, NEW a \in SubRuns, Live(a), NEW r \in RunRecords,
           sub' = [sub EXCEPT ![a] = r], turn' = turn, stopped' = stopped,
           r.st # "none", r.boss = sub[a].boss, r.origin = sub[a].origin,
           r.st = "running" => r.above = sub[a].above /\ r.cut = sub[a].cut,
           r.seen = "completed" => r.clean
    PROVE  SubInv'
<1>1. /\ sub \in [SubRuns -> RunRecords]
      /\ sub'[a] = r /\ \A c \in SubRuns : c # a => sub'[c] = sub[c]
  BY DEF SubInv, Shape
<1>2. Shape'
  BY <1>1 DEF SubInv, Shape
<1>3. \A b \in SubRuns : \A o : StartedByTurn(sub, b, o) => StartedByTurn(sub', b, o)
  BY <1>1 DEF StartedByTurn
<1>4. \A c \in SubRuns : sub[c].above \subseteq SubRuns
  BY <1>1 DEF RunRecords
<1>5. \A c \in SubRuns : Live(c)' =>
        /\ Live(c) /\ sub'[c].boss = sub[c].boss /\ sub'[c].origin = sub[c].origin
        /\ sub'[c].above = sub[c].above /\ sub'[c].cut = sub[c].cut
  BY <1>1 DEF Live
<1>6. HangsBelowTurn'
  BY <1>3, <1>4, <1>5 DEF SubInv, HangsBelowTurn
<1>7. InterruptReachesAll'
  BY <1>5 DEF SubInv, InterruptReachesAll
<1>8. CleanIsEarned'
  BY <1>1 DEF SubInv, CleanIsEarned
<1>9. QED BY <1>2, <1>6, <1>7, <1>8 DEF SubInv

\* Tokens are cancelled.
LEMMA Cutting ==
    ASSUME SubInv, NEW hit, sub' = CutBelow(hit), turn' = turn,
           stopped' \in {stopped, stopped \cup {turn}},
           stopped' # stopped =>
             \A b \in SubRuns : StartedByTurn(sub, b, turn) => b \in hit
    PROVE  SubInv'
<1>1. sub \in [SubRuns -> RunRecords] /\ turn \in Nat \ {0}
  BY DEF SubInv, Shape
<1>2. \A c \in SubRuns :
        /\ sub'[c] = (IF c \in hit \/ sub[c].above \cap hit # {}
                      THEN [sub[c] EXCEPT !.cut = TRUE] ELSE sub[c])
        /\ sub[c] \in RunRecords
  BY <1>1 DEF CutBelow
<1>3. \A c \in SubRuns :
        /\ sub'[c] \in RunRecords
        /\ sub'[c].st = sub[c].st /\ sub'[c].boss = sub[c].boss
        /\ sub'[c].origin = sub[c].origin /\ sub'[c].above = sub[c].above
        /\ sub'[c].seen = sub[c].seen /\ sub'[c].clean = sub[c].clean
        /\ sub[c].cut => sub'[c].cut
        /\ c \in hit \/ sub[c].above \cap hit # {} => sub'[c].cut
  <2> SUFFICES ASSUME NEW c \in SubRuns
               PROVE  /\ sub'[c] \in RunRecords
                      /\ sub'[c].st = sub[c].st /\ sub'[c].boss = sub[c].boss
                      /\ sub'[c].origin = sub[c].origin /\ sub'[c].above = sub[c].above
                      /\ sub'[c].seen = sub[c].seen /\ sub'[c].clean = sub[c].clean
                      /\ sub[c].cut => sub'[c].cut
                      /\ c \in hit \/ sub[c].above \cap hit # {} => sub'[c].cut
    OBVIOUS
  <2>1. CASE c \in hit \/ sub[c].above \cap hit # {}
    <3>1. sub'[c] = [sub[c] EXCEPT !.cut = TRUE] /\ sub[c] \in RunRecords
      BY <1>2, <2>1
    <3>2. QED BY <3>1 DEF RunRecords
  <2>2. CASE ~(c \in hit \/ sub[c].above \cap hit # {})
    BY <1>2, <2>2
  <2>3. QED BY <2>1, <2>2
<1>4. Shape'
  <2>1. sub' \in [SubRuns -> RunRecords]
    BY <1>3 DEF CutBelow
  <2>2. QED BY <1>1, <2>1 DEF SubInv, Shape
<1>5. \A c \in SubRuns : sub[c].above \subseteq SubRuns
  BY <1>2 DEF RunRecords
<1>6. \A b \in SubRuns : \A o : StartedByTurn(sub', b, o) <=> StartedByTurn(sub, b, o)
  BY <1>3 DEF StartedByTurn
<1>7. HangsBelowTurn'
  BY <1>3, <1>5, <1>6 DEF SubInv, HangsBelowTurn, Live
<1>8. InterruptReachesAll'
  <2> SUFFICES ASSUME NEW c \in SubRuns, Live(c)', sub'[c].origin \in stopped'
               PROVE  sub'[c].cut
    BY DEF InterruptReachesAll
  <2>1. Live(c) /\ sub'[c].origin = sub[c].origin
    BY <1>3 DEF Live
  <2>2. CASE sub[c].origin \in stopped
    BY <1>3, <2>1, <2>2 DEF SubInv, InterruptReachesAll
  <2>3. CASE sub[c].origin \notin stopped
    <3>1. sub[c].origin = turn /\ stopped' # stopped
      BY <2>1, <2>3
    <3>2. StartedByTurn(sub, c, turn) \/ \E b \in sub[c].above : StartedByTurn(sub, b, turn)
      BY <1>1, <2>1, <3>1 DEF SubInv, HangsBelowTurn, StartedByTurn, Live
    <3>3. c \in hit \/ sub[c].above \cap hit # {}
      BY <1>5, <3>1, <3>2
    <3>4. QED BY <1>3, <3>3
  <2>4. QED BY <2>2, <2>3
<1>9. CleanIsEarned'
  BY <1>3 DEF SubInv, CleanIsEarned
<1>10. QED BY <1>4, <1>7, <1>8, <1>9 DEF SubInv

-----------------------------------------------------------------------------
(* The actions.                                                            *)

LEMMA DelegateKeeps ==
    ASSUME SubInv, NEW a \in SubRuns, NEW b \in SubRuns \cup {Root},
           NEW mode \in {"sync", "background"}, Delegate(b, a, mode)
    PROVE  SubInv'
<1>1. Unused(a) /\ turn' = turn /\ stopped' = stopped /\ (b # Root => Live(b))
  BY DEF Delegate
<1>2. /\ sub \in [SubRuns -> RunRecords] /\ turn \in Nat \ {0}
      /\ CallerDepth(b) \in Nat
  BY DEF SubInv, Shape, RunRecords, CallerDepth
<1> DEFINE r == [NoRun EXCEPT !.st = "running", !.mode = mode, !.boss = b,
                       !.above = CallerAbove(b), !.origin = CallerOrigin(b),
                       !.depth = RunDepth(b), !.permit = TRUE,
                       !.waited = mode = "sync", !.cut = BornCut(b)]
<1>3. sub' = [sub EXCEPT ![a] = r]
  BY DEF Delegate
<1>4. /\ r.st = "running" /\ r.seen = "none" /\ r.boss = b /\ r.above = CallerAbove(b)
      /\ r.origin = CallerOrigin(b) /\ r.cut = BornCut(b)
  BY DEF NoRun
<1>5. ASSUME CallerAbove(b) \in SUBSET SubRuns, CallerOrigin(b) \in Nat,
             RunDepth(b) \in Nat, b \in Nat, BornCut(b) \in BOOLEAN
      PROVE  r \in RunRecords
  <2>1. "running" \in {"none", "running", "ended"} /\ (mode = "sync") \in BOOLEAN
        /\ mode \in {"none", "sync", "background", "again"}
    OBVIOUS
  <2>2. QED BY <1>5, <2>1, NoRunIsRecord DEF RunRecords
<1> HIDE DEF r
<1>6. CASE b = Root
  <2>1. /\ CallerAbove(b) = {} /\ CallerOrigin(b) = turn /\ BornCut(b) = (turn \in stopped)
        /\ RunDepth(b) \in Nat /\ b \in Nat
    BY <1>2, <1>6 DEF CallerAbove, CallerOrigin, BornCut, CallerCut, RunDepth, Root
  <2>2. r \in RunRecords
    BY <1>2, <1>5, <2>1
  <2>3. QED BY <1>1, <1>3, <1>4, <1>6, <2>1, <2>2, Starting
<1>7. CASE b # Root
  <2>1. b \in SubRuns /\ Live(b) /\ sub[b] \in RunRecords
    BY <1>1, <1>2, <1>7
  <2>2. /\ CallerAbove(b) = sub[b].above \cup {b} /\ CallerOrigin(b) = sub[b].origin
        /\ BornCut(b) = sub[b].cut /\ RunDepth(b) \in Nat /\ b \in Nat
    BY <1>2, <1>7, <2>1, SubagentsAssumption
       DEF CallerAbove, CallerOrigin, BornCut, CallerCut, RunDepth, SubRuns
  <2>3. r \in RunRecords
    BY <1>5, <2>1, <2>2 DEF RunRecords
  <2>4. r.origin \in stopped => r.cut
    BY <1>4, <2>1, <2>2 DEF SubInv, InterruptReachesAll
  <2>5. r.origin = 0 \/ \E c \in r.above : StartedByTurn(sub, c, r.origin)
    <3>1. sub[b].origin = 0 \/ sub[b].boss = Root
          \/ \E c \in sub[b].above : StartedByTurn(sub, c, sub[b].origin)
      BY <2>1 DEF SubInv, HangsBelowTurn
    <3>2. sub[b].boss = Root => StartedByTurn(sub, b, sub[b].origin)
      BY <2>1 DEF StartedByTurn, Live
    <3>3. QED BY <1>4, <2>2, <3>1, <3>2
  <2>6. QED BY <1>1, <1>3, <1>4, <2>3, <2>4, <2>5, Starting
<1>8. QED BY <1>6, <1>7

LEMMA ReexecuteKeeps ==
    ASSUME SubInv, NEW a \in SubRuns, Reexecute(a)
    PROVE  SubInv'
<1>1. Unused(a) /\ turn' = turn /\ stopped' = stopped
  BY DEF Reexecute
<1> DEFINE r == [NoRun EXCEPT !.st = "running", !.mode = "again", !.boss = Scheduler,
                       !.depth = 1, !.waited = TRUE]
<1>2. sub' = [sub EXCEPT ![a] = r]
  BY DEF Reexecute
<1>3. r.st = "running" /\ r.seen = "none" /\ r.origin = 0
  BY DEF NoRun
<1>4. Scheduler \in Nat
  BY SubagentsAssumption DEF Scheduler
<1>5. r \in RunRecords
  BY <1>4, NoRunIsRecord DEF RunRecords
<1> HIDE DEF r
<1>6. 0 \notin stopped
  BY DEF SubInv, Shape
<1>7. QED BY <1>1, <1>2, <1>3, <1>5, <1>6, Starting

\* One field of a live run.
LEMMA NoteKeeps ==
    ASSUME SubInv, NEW a \in SubRuns, FailsItsGoal(a) \/ CallerGivesUp(a)
    PROVE  SubInv'
<1>1. /\ Live(a) /\ turn' = turn /\ stopped' = stopped
      /\ sub \in [SubRuns -> RunRecords] /\ sub[a] \in RunRecords
      /\ sub[a].seen = "completed" => sub[a].clean
  BY DEF FailsItsGoal, CallerGivesUp, SubInv, Shape, CleanIsEarned
<1>2. PICK r \in {[sub[a] EXCEPT !.failed = TRUE], [sub[a] EXCEPT !.waited = FALSE]} :
        sub' = [sub EXCEPT ![a] = r]
  BY DEF FailsItsGoal, CallerGivesUp
<1>3. /\ r \in RunRecords /\ r.st = sub[a].st /\ r.boss = sub[a].boss
      /\ r.origin = sub[a].origin /\ r.above = sub[a].above /\ r.cut = sub[a].cut
      /\ r.seen = sub[a].seen /\ r.clean = sub[a].clean
  BY <1>1, <1>2 DEF RunRecords
<1>4. r.st # "none"
  BY <1>1, <1>3 DEF Live
<1>5. QED BY <1>1, <1>2, <1>3, <1>4, Going

\* A run ends, and completed is told only of a clean one.
LEMMA EndedKeeps ==
    ASSUME SubInv, NEW a \in SubRuns, Live(a), NEW clean \in BOOLEAN,
           NEW seen \in {"none", "lost", "completed", "partial", "failed", "cancelled"},
           RunEnded(a, seen, clean), seen = "completed" => clean
    PROVE  SubInv'
<1>1. /\ turn' = turn /\ stopped' = stopped /\ sub[a] \in RunRecords
      /\ sub[a].boss \in Nat /\ sub[a].origin \in Nat
  BY DEF RunEnded, SubInv, Shape, RunRecords
<1> DEFINE r == [NoRun EXCEPT !.st = "ended", !.boss = sub[a].boss, !.origin = sub[a].origin,
                       !.seen = seen, !.clean = clean]
<1>2. sub' = [sub EXCEPT ![a] = r]
  BY DEF RunEnded
<1>3. r \in RunRecords
  BY <1>1, NoRunIsRecord DEF RunRecords
<1>4. /\ r.st = "ended" /\ r.boss = sub[a].boss /\ r.origin = sub[a].origin
      /\ r.seen = seen /\ r.clean = clean
  BY DEF NoRun
<1> HIDE DEF r
<1>5. QED BY <1>1, <1>2, <1>3, <1>4, Going

LEMMA ReturnsKeeps ==
    ASSUME SubInv, NEW a \in SubRuns, NEW stop \in StopReasons,
           NEW answered \in BOOLEAN, NEW readable \in BOOLEAN,
           RunReturns(a, stop, answered, readable)
    PROVE  SubInv'
<1> DEFINE failed == readable /\ sub[a].failed
           seen == Told(a, SeenStatus(BuiltStatus(stop, failed), answered))
           clean == stop = "finished" /\ answered /\ ~failed
<1>1. Live(a) /\ RunEnded(a, seen, clean)
  BY DEF RunReturns
<1>2. clean \in BOOLEAN
  OBVIOUS
<1>3. /\ seen \in {"none", "lost", "completed", "partial", "failed", "cancelled"}
      /\ seen = "completed" => clean
  BY DEF Told, SeenStatus, BuiltStatus, StopReasons
<1> HIDE DEF seen, clean
<1>4. QED BY <1>1, <1>2, <1>3, EndedKeeps

LEMMA FailsKeeps ==
    ASSUME SubInv, NEW a \in SubRuns, RunFails(a) \/ BackgroundCut(a)
    PROVE  SubInv'
<1>1. Live(a) /\ (RunEnded(a, Told(a, "failed"), FALSE) \/ RunEnded(a, "failed", FALSE))
  BY DEF RunFails, BackgroundCut
<1>2. Told(a, "failed") \in {"failed", "lost"}
  BY DEF Told
<1>3. QED BY <1>1, <1>2, EndedKeeps

LEMMA CutKeeps ==
    ASSUME SubInv, StopTurn \/ \E a \in SubRuns : CutRun(a)
    PROVE  SubInv'
<1>1. CASE StopTurn
  <2> DEFINE hit == {b \in SubRuns : sub[b].boss = Root /\ sub[b].origin = turn}
  <2>1. sub' = CutBelow(hit) /\ turn' = turn /\ stopped' = stopped \cup {turn}
    BY <1>1 DEF StopTurn
  <2>2. \A b \in SubRuns : StartedByTurn(sub, b, turn) => b \in hit
    BY DEF StartedByTurn
  <2> HIDE DEF hit
  <2>3. QED BY <2>1, <2>2, Cutting
<1>2. CASE \E a \in SubRuns : CutRun(a)
  BY <1>2, Cutting DEF CutRun
<1>3. QED BY <1>1, <1>2

LEMMA SubStep == SubInv /\ [SubNext]_subVars => SubInv'
<1> SUFFICES ASSUME SubInv, [SubNext]_subVars PROVE SubInv'
  OBVIOUS
<1>1. CASE UNCHANGED subVars
  BY <1>1 DEF subVars, SubInv, Shape, HangsBelowTurn, InterruptReachesAll, CleanIsEarned, Live
<1>2. CASE NextTurn
  <2>1. turn' \in Nat \ {0} /\ UNCHANGED <<sub, stopped>>
    BY <1>2 DEF NextTurn, SubInv, Shape
  <2>2. QED
    BY <2>1 DEF SubInv, Shape, HangsBelowTurn, InterruptReachesAll, CleanIsEarned, Live
<1>3. CASE StopTurn
  BY <1>3, CutKeeps
<1>4. ASSUME NEW a \in SubRuns, NEW b \in SubRuns \cup {Root},
             NEW mode \in {"sync", "background"}, Delegate(b, a, mode)
      PROVE  SubInv'
  BY <1>4, DelegateKeeps
<1>5. ASSUME NEW a \in SubRuns, NEW stop \in StopReasons, NEW answered \in BOOLEAN,
             NEW readable \in BOOLEAN, RunReturns(a, stop, answered, readable)
      PROVE  SubInv'
  BY <1>5, ReturnsKeeps
<1>6. ASSUME NEW a \in SubRuns,
             \/ Reexecute(a) \/ FailsItsGoal(a) \/ RunFails(a) \/ BackgroundCut(a)
             \/ CallerGivesUp(a) \/ CutRun(a)
      PROVE  SubInv'
  BY <1>6, ReexecuteKeeps, NoteKeeps, FailsKeeps, CutKeeps
<1>7. QED BY <1>1, <1>2, <1>3, <1>4, <1>5, <1>6 DEF SubNext

LEMMA SubInvariant == SubSpec => []SubInv
BY SubInitially, SubStep, PTL DEF SubSpec

\* Cancelling a turn reaches every run it still has, however deep they are nested
\* and whichever of the runs between them have ended (ExecutionContext, child).
THEOREM InterruptsReachAll == SubSpec => []InterruptReachesAll
<1>1. SubInv => InterruptReachesAll
  BY DEF SubInv
<1>2. QED BY <1>1, SubInvariant, PTL

\* No parent is told completed of a run that was not clean
\* (build_agent_task_result, wrap_for_parent).
THEOREM SuccessIsEarned == SubSpec => []CleanIsEarned
<1>1. SubInv => CleanIsEarned
  BY DEF SubInv
<1>2. QED BY <1>1, SubInvariant, PTL
=============================================================================
