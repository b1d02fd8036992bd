---------------------------- MODULE ReplayProofs ----------------------------
(***************************************************************************)
(* What the algorithms of Conversation compute, for logs and lists of any  *)
(* length: the two repairs leave every tool_use with its result and add    *)
(* nothing to what is said, and a replay of the log is paired, in order and*)
(* says all that the log says and no compaction on record covers.          *)
(*                                                                         *)
(* A replay is a fold over the log.  SequenceFolds, instantiated with the  *)
(* step, its base and what is to be shown of every log, is the induction.  *)
(***************************************************************************)
EXTENDS Conversation, FiniteSetTheorems, SequenceTheorems, TLAPS

Nats == INSTANCE SequenceFolds WITH Step <- ReplayStep, Base <- [msgs |-> <<>>, run |-> NoRun],
                                    P <- IsTool

-----------------------------------------------------------------------------
(* FlattenSeq.                                                             *)

IsFlatten(f, seqs, n) ==
    f = [i \in 1..n |-> IF i = 1 THEN seqs[i] ELSE f[i - 1] \o seqs[i]]

LEMMA FlattenExists ==
    ASSUME NEW seqs, NEW k \in Nat
    PROVE  \E f : IsFlatten(f, seqs, k)
<1> DEFINE S == {n \in Nat : \E f : IsFlatten(f, seqs, n)}
<1>1. 0 \in S
  <2>1. IsFlatten([i \in 1..0 |-> 0], seqs, 0)
    BY DEF IsFlatten
  <2> QED
    BY <2>1
<1>2. ASSUME NEW n \in Nat, n \in S PROVE n + 1 \in S
  <2>1. PICK f : IsFlatten(f, seqs, n)
    BY <1>2
  <2> DEFINE g == [i \in 1..(n + 1) |->
                     IF i = n + 1 THEN IF i = 1 THEN seqs[i] ELSE f[n] \o seqs[i] ELSE f[i]]
  <2>2. ASSUME NEW i \in 1..(n + 1) PROVE g[i] = IF i = 1 THEN seqs[i] ELSE g[i - 1] \o seqs[i]
    <3>1. CASE i = n + 1
      BY <3>1
    <3>2. CASE i \in 1..n
      <4>1. f[i] = IF i = 1 THEN seqs[i] ELSE f[i - 1] \o seqs[i]
        BY <2>1, <3>2 DEF IsFlatten
      <4>2. g[i] = f[i] /\ (i # 1 => g[i - 1] = f[i - 1])
        BY <3>2
      <4> QED
        BY <4>1, <4>2
    <3> QED
      BY <3>1, <3>2
  <2>3. IsFlatten(g, seqs, n + 1)
    BY <2>2 DEF IsFlatten
  <2> QED
    BY <2>3
<1> HIDE DEF S
<1>3. k \in S
  BY <1>1, <1>2, Nats!NatSteps
<1> QED
  BY <1>3 DEF S

LEMMA FlattenAt ==
    ASSUME NEW s, NEW n, NEW f, IsFlatten(f, s, n), NEW i \in 1..n
    PROVE  f[i] = IF i = 1 THEN s[i] ELSE f[i - 1] \o s[i]
  BY DEF IsFlatten

Flatten(seqs) == CHOOSE f : IsFlatten(f, seqs, Len(seqs))

LEMMA FlattenIs ==
    ASSUME NEW seqs, Len(seqs) \in Nat
    PROVE  IsFlatten(Flatten(seqs), seqs, Len(seqs))
  BY FlattenExists DEF Flatten

LEMMA FlattenIsUnique ==
    ASSUME NEW s, NEW u, Len(s) \in Nat, Len(u) \in Nat, Len(s) <= Len(u),
           \A i \in 1..Len(s) : s[i] = u[i]
    PROVE  \A i \in 1..Len(s) : Flatten(s)[i] = Flatten(u)[i]
<1> DEFINE n == Len(s)
           m == Len(u)
           f == Flatten(s)
           g == Flatten(u)
<1>0. IsFlatten(f, s, n) /\ IsFlatten(g, u, m)
  BY FlattenIs
<1> HIDE DEF f, g
<1> DEFINE S == {j \in Nat : j \in 1..n => f[j] = g[j]}
<1>1. 0 \in S
  OBVIOUS
<1>2. ASSUME NEW j \in Nat, j \in S PROVE j + 1 \in S
  <2> SUFFICES ASSUME j + 1 \in 1..n PROVE f[j + 1] = g[j + 1]
    OBVIOUS
  <2>0. j + 1 \in 1..m
    OBVIOUS
  <2>1. f[j + 1] = IF j + 1 = 1 THEN s[j + 1] ELSE f[j + 1 - 1] \o s[j + 1]
    BY <1>0, FlattenAt
  <2>2. g[j + 1] = IF j + 1 = 1 THEN u[j + 1] ELSE g[j + 1 - 1] \o u[j + 1]
    BY <1>0, <2>0, FlattenAt
  <2>3. s[j + 1] = u[j + 1] /\ j + 1 - 1 = j /\ (j + 1 # 1 => f[j] = g[j])
    BY <1>2
  <2> QED
    BY <2>1, <2>2, <2>3
<1> HIDE DEF S
<1>3. \A j \in Nat : j \in S
  BY <1>1, <1>2, Nats!NatSteps
<1> QED
  BY <1>3 DEF S, f, g

LEMMA FlattenAppend ==
    ASSUME NEW S, NEW seqs \in Seq(Seq(S)), NEW t \in Seq(S)
    PROVE  FlattenSeq(Append(seqs, t)) = IF seqs = <<>> THEN t ELSE FlattenSeq(seqs) \o t
<1> DEFINE n == Len(seqs)
           u == Append(seqs, t)
           m == Len(u)
<1>1. n \in Nat /\ m \in Nat /\ m = n + 1 /\ u[m] = t /\ (\A i \in 1..n : u[i] = seqs[i])
      /\ (n = 0 <=> seqs = <<>>) /\ n <= m /\ m \in 1..m /\ (n # 0 => n \in 1..n) /\ m # 0
      /\ m - 1 = n /\ (m = 1 <=> n = 0)
  OBVIOUS
<1> HIDE DEF u
<1>2. IsFlatten(Flatten(seqs), seqs, n) /\ IsFlatten(Flatten(u), u, m)
  BY <1>1, FlattenIs
<1>3. n # 0 => FlattenSeq(seqs) = Flatten(seqs)[n]
  BY DEF FlattenSeq, Flatten, IsFlatten
<1>4. FlattenSeq(u) = Flatten(u)[m]
  BY <1>1 DEF FlattenSeq, Flatten, IsFlatten
<1> HIDE DEF n, m
<1>5. Flatten(u)[m] = IF m = 1 THEN u[m] ELSE Flatten(u)[m - 1] \o u[m]
  BY <1>1, <1>2, FlattenAt
<1>6. \A i \in 1..n : Flatten(seqs)[i] = Flatten(u)[i]
  BY <1>1, FlattenIsUnique DEF n, m
<1> QED
  BY <1>1, <1>3, <1>4, <1>5, <1>6 DEF u

LEMMA FlattenEmpty == FlattenSeq(<<>>) = <<>>
  BY DEF FlattenSeq

-----------------------------------------------------------------------------
(* Picked.                                                                 *)

\* The positions of a set, in order.
Order(S) == [k \in 1..Cardinality(S) |-> CHOOSE j \in S : Rank(S, j) = k]

LEMMA RankGrows ==
    ASSUME NEW n \in Nat, NEW S \in SUBSET (1..n)
    PROVE  /\ IsFiniteSet(S) /\ Cardinality(S) \in Nat
           /\ \A j \in S : Rank(S, j) \in 1..Cardinality(S)
           /\ \A i, j \in S : i < j => Rank(S, i) < Rank(S, j)
<1>1. IsFiniteSet(S) /\ Cardinality(S) \in Nat
  <2>1. IsFiniteSet(1..n)
    BY FS_Interval
  <2>2. IsFiniteSet(S)
    BY <2>1, FS_Subset
  <2> QED
    BY <2>2, FS_CardinalityType
<1>2. ASSUME NEW j \in S PROVE Rank(S, j) \in 1..Cardinality(S)
  <2> DEFINE T == {i \in S : i <= j}
  <2>1. T \in SUBSET S /\ j \in T
    OBVIOUS
  <2> HIDE DEF T
  <2>2. IsFiniteSet(T) /\ Cardinality(T) <= Cardinality(S)
    BY <1>1, <2>1, FS_Subset
  <2>3. Cardinality(T) \in Nat /\ Cardinality(T) # 0
    BY <2>1, <2>2, FS_CardinalityType, FS_EmptySet
  <2> QED
    BY <1>1, <2>2, <2>3 DEF Rank, T
<1>3. ASSUME NEW i \in S, NEW j \in S, i < j PROVE Rank(S, i) < Rank(S, j)
  <2> DEFINE T == {k \in S : k <= i}
             U == {k \in S : k <= j}
  <2>1. T \in SUBSET U /\ U \in SUBSET S /\ T # U
    <3>1. j \in U /\ j \notin T
      BY <1>3
    <3>2. \A k \in T : k \in U
      BY <1>3
    <3> QED
      BY <3>1, <3>2
  <2> HIDE DEF T, U
  <2>2. IsFiniteSet(U)
    BY <1>1, <2>1, FS_Subset
  <2>3. IsFiniteSet(T) /\ Cardinality(T) <= Cardinality(U) /\ Cardinality(U) # Cardinality(T)
    BY <2>1, <2>2, FS_Subset
  <2>4. Cardinality(T) \in Nat /\ Cardinality(U) \in Nat
    BY <2>2, <2>3, FS_CardinalityType
  <2>5. Cardinality(T) < Cardinality(U)
    BY <2>3, <2>4
  <2> QED
    BY <2>5 DEF Rank, T, U
<1> QED
  BY <1>1, <1>2, <1>3

LEMMA OrderIs ==
    ASSUME NEW n \in Nat, NEW S \in SUBSET (1..n)
    PROVE  /\ Cardinality(S) \in Nat /\ Order(S) \in [1..Cardinality(S) -> S]
           /\ \A a, b \in 1..Cardinality(S) : a < b => Order(S)[a] < Order(S)[b]
           /\ \A x \in S : \E k \in 1..Cardinality(S) : Order(S)[k] = x
<1> DEFINE c == Cardinality(S)
           r == [j \in S |-> Rank(S, j)]
<1>1. /\ IsFiniteSet(S) /\ c \in Nat /\ r \in [S -> 1..c]
      /\ \A i, j \in S : i < j => r[i] < r[j]
  BY RankGrows
<1>2. r \in Injection(S, 1..c)
  <2>1. \A i, j \in S : i # j => r[i] # r[j]
    <3> SUFFICES ASSUME NEW i \in S, NEW j \in S, i # j PROVE r[i] # r[j]
      OBVIOUS
    <3>1. r[i] \in Nat /\ r[j] \in Nat /\ (i < j \/ j < i)
      BY <1>1
    <3> QED
      BY <1>1, <3>1
  <2> HIDE DEF r
  <2> QED
    BY <1>1, <2>1 DEF Injection, IsInjective
<1>3. IsFiniteSet(1..c) /\ Cardinality(1..c) = c
  BY <1>1, FS_Interval
<1> HIDE DEF c
<1>4. r \in Surjection(S, 1..c)
  <2> HIDE DEF r
  <2> QED
    BY <1>2, <1>3, FS_Injection DEF c
<1>5. ASSUME NEW k \in 1..c PROVE \E j \in S : Rank(S, j) = k
  BY <1>4 DEF Surjection
<1>6. \A k \in 1..c : Order(S)[k] \in S /\ Rank(S, Order(S)[k]) = k
  BY <1>5 DEF Order, c
<1>7. Order(S) \in [1..c -> S]
  BY <1>6 DEF Order, c
<1>8. ASSUME NEW a \in 1..c, NEW b \in 1..c, a < b PROVE Order(S)[a] < Order(S)[b]
  <2> DEFINE x == Order(S)[a]
             y == Order(S)[b]
  <2>1. x \in S /\ y \in S /\ r[x] = a /\ r[y] = b
    BY <1>6
  <2> HIDE DEF x, y, r
  <2>2. x \in Nat /\ y \in Nat /\ (y < x => r[y] < r[x])
    BY <1>1, <2>1
  <2>3. x < y
    BY <1>8, <2>1, <2>2
  <2> QED
    BY <2>3 DEF x, y
<1>9. ASSUME NEW x \in S PROVE \E k \in 1..c : Order(S)[k] = x
  <2>1. PICK k \in 1..c : r[x] = k
    BY <1>1
  <2> DEFINE y == Order(S)[k]
  <2>2. y \in S /\ r[y] = k
    <3>1. y \in S /\ Rank(S, y) = k
      BY <1>6
    <3> HIDE DEF y
    <3> QED
      BY <3>1
  <2>3. y = x
    <3> HIDE DEF r, y
    <3> QED
      BY <1>2, <2>1, <2>2 DEF Injection, IsInjective
  <2> QED
    BY <2>1, <2>3
<1> QED
  BY <1>1, <1>7, <1>8, <1>9 DEF c

LEMMA PickedIs ==
    ASSUME NEW T, NEW s \in Seq(T), NEW S \in SUBSET DOMAIN s
    PROVE  /\ Cardinality(S) \in Nat
           /\ Order(S) \in [1..Cardinality(S) -> S]
           /\ \A a, b \in 1..Cardinality(S) : a < b => Order(S)[a] < Order(S)[b]
           /\ \A x \in S : \E k \in 1..Cardinality(S) : Order(S)[k] = x
           /\ Picked(s, S) = [k \in 1..Cardinality(S) |-> s[Order(S)[k]]]
           /\ Picked(s, S) \in Seq(T) /\ Len(Picked(s, S)) = Cardinality(S)
<1>1. Len(s) \in Nat /\ S \in SUBSET (1..Len(s)) /\ \A j \in S : s[j] \in T
  OBVIOUS
<1>2. /\ Cardinality(S) \in Nat
      /\ Order(S) \in [1..Cardinality(S) -> S]
      /\ \A a, b \in 1..Cardinality(S) : a < b => Order(S)[a] < Order(S)[b]
      /\ \A x \in S : \E k \in 1..Cardinality(S) : Order(S)[k] = x
  BY <1>1, OrderIs
<1>3. Picked(s, S) = [k \in 1..Cardinality(S) |-> s[Order(S)[k]]]
  BY DEF Picked, Order
<1>4. Picked(s, S) \in [1..Cardinality(S) -> T]
  BY <1>1, <1>2, <1>3
<1> QED
  BY <1>2, <1>3, <1>4, SMTT(40)

-----------------------------------------------------------------------------
(* Messages, and lists in which every call is answered behind its message. *)

Roles == {"user", "asst", "tool", "lost", "text", "sum"}
ItemSet == BOOLEAN \X Nat
MsgRec == [role : Roles, id : Nat, calls : Seq(Nat), of : SUBSET ItemSet]
Once(c) == \A a, b \in DOMAIN c : c[a] = c[b] => a = b
Msgs == {m \in MsgRec : Once(m.calls) /\ (IsTool(m) => m.calls = <<>>)}

Answered(s, n) ==
    LET k == Len(s[n].calls)
    IN  k # 0 => /\ n + k <= Len(s)
                 /\ \A h \in 1..k : IsTool(s[n + h]) /\ s[n + h].id = s[n].calls[h]
                 /\ n + k + 1 <= Len(s) => ~IsTool(s[n + k + 1])

Called(s, n) == IsTool(s[n]) => \E a \in 1..(n - 1) : n <= a + Len(s[a].calls)

Paired(s) == s \in Seq(Msgs) /\ \A n \in 1..Len(s) : Answered(s, n) /\ Called(s, n)

Opens(s) == s # <<>> => ~IsTool(s[1])

LEMMA CallsOfMsg ==
    ASSUME NEW m \in Msgs
    PROVE  /\ m.calls \in Seq(Nat) /\ Len(m.calls) \in Nat /\ DOMAIN m.calls = 1..Len(m.calls)
           /\ \A a, b \in 1..Len(m.calls) : m.calls[a] = m.calls[b] => a = b
           /\ m.id \in Nat /\ (IsTool(m) => m.calls = <<>> /\ Len(m.calls) = 0)
<1>1. m.calls \in Seq(Nat) /\ Once(m.calls) /\ m.id \in Nat /\ (IsTool(m) => m.calls = <<>>)
  BY DEF Msgs, MsgRec
<1>2. Len(m.calls) \in Nat /\ DOMAIN m.calls = 1..Len(m.calls)
  BY <1>1
<1> QED
  BY <1>1, <1>2 DEF Once

LEMMA PairedIsLegal == ASSUME NEW s, Paired(s) PROVE Legal(s)
<1>1. s \in Seq(Msgs) /\ Len(s) \in Nat /\ DOMAIN s = 1..Len(s)
  BY DEF Paired
<1>2. ASSUME NEW n \in DOMAIN s, Len(s[n].calls) # 0
      PROVE  LET k == Len(s[n].calls) IN
             /\ k \in Nat /\ n + k <= Len(s)
             /\ RunAfter(s, n) = (n + 1)..(n + k)
  <2> DEFINE k == Len(s[n].calls)
  <2>1. k \in Nat /\ n \in Nat
    BY <1>1, CallsOfMsg
  <2>2. /\ n + k <= Len(s)
        /\ \A h \in 1..k : IsTool(s[n + h]) /\ s[n + h].id = s[n].calls[h]
        /\ n + k + 1 <= Len(s) => ~IsTool(s[n + k + 1])
    BY <1>1, <1>2 DEF Paired, Answered
  <2>3. ASSUME NEW j \in (n + 1)..(n + k) PROVE IsTool(s[j])
    <3>1. j - n \in 1..k /\ n + (j - n) = j
      BY <2>1
    <3> QED
      BY <2>2, <3>1
  <2> HIDE DEF k
  <2>4. ASSUME NEW j \in (n + 1)..(n + k) PROVE j \in RunAfter(s, n)
    <3>1. j \in DOMAIN s /\ j > n
      BY <1>1, <2>1, <2>2
    <3>2. \A i \in (n + 1)..j : IsTool(s[i])
      BY <1>1, <2>1, <2>3
    <3> QED
      BY <3>1, <3>2 DEF RunAfter
  <2>5. ASSUME NEW j \in RunAfter(s, n) PROVE j \in (n + 1)..(n + k)
    <3>1. j \in 1..Len(s) /\ j > n /\ \A i \in (n + 1)..j : IsTool(s[i])
      BY <1>1 DEF RunAfter
    <3>2. CASE j > n + k
      <4>1. n + k + 1 \in (n + 1)..j /\ n + k + 1 <= Len(s)
        BY <1>1, <2>1, <3>1, <3>2
      <4> QED
        BY <2>2, <3>1, <4>1
    <3> QED
      BY <1>1, <2>1, <3>1, <3>2
  <2>6. RunAfter(s, n) = (n + 1)..(n + k)
    BY <2>4, <2>5
  <2> QED
    BY <2>1, <2>2, <2>6 DEF k
<1>3. ASSUME NEW n \in DOMAIN s, IsTool(s[n])
      PROVE  \E a \in DOMAIN s : s[n].id \in ToSet(s[a].calls) /\ n \in RunAfter(s, a)
  <2>1. PICK a \in 1..(n - 1) : n <= a + Len(s[a].calls)
    BY <1>1, <1>3 DEF Paired, Called
  <2> DEFINE k == Len(s[a].calls)
  <2>2. a \in DOMAIN s /\ k \in Nat /\ n \in Nat /\ a \in Nat /\ DOMAIN s[a].calls = 1..k
    BY <1>1, <2>1, CallsOfMsg
  <2>3. k # 0 /\ n - a \in 1..k /\ a + (n - a) = n
    BY <2>1, <2>2
  <2>4. s[n].id = s[a].calls[n - a]
    <3>1. Answered(s, a)
      BY <1>1, <2>2 DEF Paired
    <3>2. \A h \in 1..k : s[a + h].id = s[a].calls[h]
      BY <2>3, <3>1 DEF Answered
    <3> QED
      BY <2>3, <3>2
  <2>5. RunAfter(s, a) = (a + 1)..(a + k)
    BY <1>2, <2>2, <2>3
  <2> QED
    BY <2>1, <2>2, <2>3, <2>4, <2>5 DEF ToSet
<1>4. ASSUME NEW n \in DOMAIN s, NEW c \in ToSet(s[n].calls)
      PROVE  Cardinality(AnswerAt(s, n, c)) = 1
  <2> DEFINE k == Len(s[n].calls)
  <2>1. /\ k \in Nat /\ DOMAIN s[n].calls = 1..k /\ n \in Nat
        /\ \A a, b \in 1..k : s[n].calls[a] = s[n].calls[b] => a = b
    BY <1>1, CallsOfMsg
  <2>2. PICK h \in 1..k : s[n].calls[h] = c
    BY <1>4, <2>1 DEF ToSet
  <2>3. k # 0
    BY <2>1, <2>2
  <2>4. RunAfter(s, n) = (n + 1)..(n + k)
    BY <1>2, <2>3
  <2>5. \A g \in 1..k : s[n + g].id = s[n].calls[g]
    <3>1. Answered(s, n)
      BY <1>1 DEF Paired
    <3> QED
      BY <2>3, <3>1 DEF Answered
  <2> HIDE DEF k
  <2>6. ASSUME NEW j \in AnswerAt(s, n, c) PROVE j = n + h
    <3>1. j \in (n + 1)..(n + k) /\ s[j].id = c
      BY <2>4 DEF AnswerAt
    <3>2. j - n \in 1..k /\ n + (j - n) = j
      BY <2>1, <3>1
    <3>3. s[n].calls[j - n] = c
      BY <2>5, <3>1, <3>2
    <3>4. j - n = h
      BY <2>1, <2>2, <3>2, <3>3
    <3> QED
      BY <2>1, <3>2, <3>4
  <2>7. n + h \in AnswerAt(s, n, c)
    BY <2>1, <2>2, <2>4, <2>5 DEF AnswerAt
  <2>8. AnswerAt(s, n, c) = {n + h}
    BY <2>6, <2>7
  <2> QED
    BY <2>8, FS_Singleton
<1> QED
  BY <1>3, <1>4 DEF Legal

LEMMA ConcatIs ==
    ASSUME NEW T, NEW s \in Seq(T), NEW t \in Seq(T)
    PROVE  /\ s \o t \in Seq(T) /\ Len(s \o t) = Len(s) + Len(t) /\ Len(s) \in Nat /\ Len(t) \in Nat
           /\ \A i \in 1..Len(s) : (s \o t)[i] = s[i]
           /\ \A i \in 1..Len(t) : (s \o t)[Len(s) + i] = t[i]
           /\ \A i \in 1..(Len(s) + Len(t)) : i \notin 1..Len(s) =>
                i - Len(s) \in 1..Len(t) /\ (s \o t)[i] = t[i - Len(s)]
  OBVIOUS

LEMMA PairedConcat ==
    ASSUME NEW s, NEW t, Paired(s), Paired(t), Opens(t)
    PROVE  Paired(s \o t)
<1> DEFINE u == s \o t
           n == Len(s)
           k == Len(t)
<1>1. s \in Seq(Msgs) /\ t \in Seq(Msgs)
  BY DEF Paired
<1>2. /\ u \in Seq(Msgs) /\ Len(u) = n + k /\ n \in Nat /\ k \in Nat
      /\ \A i \in 1..n : u[i] = s[i]
      /\ \A i \in 1..k : u[n + i] = t[i]
      /\ \A i \in 1..(n + k) : i \notin 1..n => i - n \in 1..k /\ u[i] = t[i - n]
  BY <1>1, ConcatIs
<1>3. k # 0 => ~IsTool(t[1])
  BY <1>1 DEF Opens
<1>0. n \in Nat /\ k \in Nat /\ Len(u) = n + k
  BY <1>2
<1>4. /\ \A i \in 1..n : Answered(s, i) /\ Called(s, i)
      /\ \A i \in 1..k : Answered(t, i) /\ Called(t, i)
  BY DEF Paired
<1>5. /\ \A i \in 1..n : Len(s[i].calls) \in Nat
      /\ \A i \in 1..k : Len(t[i].calls) \in Nat
  BY <1>1, CallsOfMsg
<1> HIDE DEF u, n, k
<1>6. ASSUME NEW i \in 1..n PROVE Answered(u, i)
  <2>0. PICK c \in Nat : c = Len(s[i].calls)
    BY <1>5
  <2>1. u[i] = s[i] /\ c = Len(u[i].calls)
    BY <1>2, <2>0
  <2>2. CASE c # 0
    <3>1. /\ i + c <= n
          /\ \A h \in 1..c : IsTool(s[i + h]) /\ s[i + h].id = s[i].calls[h]
          /\ i + c + 1 <= n => ~IsTool(s[i + c + 1])
      BY <1>4, <2>0, <2>2 DEF Answered, n
    <3>2. i + c <= Len(u)
      BY <1>0, <3>1
    <3>3. \A h \in 1..c : i + h \in 1..n /\ u[i + h] = s[i + h]
      BY <1>2, <2>1, <3>1
    <3>4. ASSUME i + c + 1 <= Len(u) PROVE ~IsTool(u[i + c + 1])
      <4>1. CASE i + c + 1 <= n
        BY <1>2, <2>1, <3>1, <4>1
      <4>2. CASE i + c = n
        <5>1. k # 0 /\ u[n + 1] = t[1]
          BY <1>2, <3>4, <4>2
        <5> QED
          BY <1>3, <4>2, <5>1
      <4> QED
        BY <1>0, <3>1, <4>1, <4>2
    <3> QED
      BY <2>1, <3>1, <3>2, <3>3, <3>4 DEF Answered
  <2> QED
    BY <2>1, <2>2 DEF Answered
<1>7. ASSUME NEW j \in 1..k PROVE Answered(u, n + j)
  <2>0. PICK c \in Nat : c = Len(t[j].calls)
    BY <1>5
  <2>1. u[n + j] = t[j] /\ c = Len(u[n + j].calls)
    BY <1>2, <2>0
  <2>2. CASE c # 0
    <3>1. /\ j + c <= k
          /\ \A h \in 1..c : IsTool(t[j + h]) /\ t[j + h].id = t[j].calls[h]
          /\ j + c + 1 <= k => ~IsTool(t[j + c + 1])
      BY <1>4, <2>0, <2>2 DEF Answered, k
    <3>2. n + j + c <= Len(u)
      BY <1>0, <3>1
    <3>3. \A h \in 1..c : u[n + j + h] = t[j + h]
      <4> SUFFICES ASSUME NEW h \in 1..c PROVE u[n + j + h] = t[j + h]
        OBVIOUS
      <4>1. j + h \in 1..k /\ n + (j + h) = n + j + h
        BY <1>0, <3>1
      <4> QED
        BY <1>2, <4>1
    <3>4. ASSUME n + j + c + 1 <= Len(u) PROVE ~IsTool(u[n + j + c + 1])
      <4>1. j + c + 1 \in 1..k /\ n + (j + c + 1) = n + j + c + 1
        BY <1>0, <3>4
      <4>2. u[n + j + c + 1] = t[j + c + 1]
        BY <1>2, <4>1
      <4> QED
        BY <3>1, <4>1, <4>2
    <3> QED
      BY <2>1, <3>1, <3>2, <3>3, <3>4 DEF Answered
  <2> QED
    BY <2>1, <2>2 DEF Answered
<1>8. ASSUME NEW i \in 1..n PROVE Called(u, i)
  <2>1. ASSUME IsTool(u[i]) PROVE \E a \in 1..(i - 1) : i <= a + Len(u[a].calls)
    <3>1. PICK a \in 1..(i - 1) : i <= a + Len(s[a].calls)
      BY <1>2, <1>4, <2>1 DEF Called
    <3>2. a \in 1..n
      BY <1>2
    <3> QED
      BY <1>2, <3>1, <3>2
  <2> QED
    BY <2>1 DEF Called
<1>9. ASSUME NEW j \in 1..k PROVE Called(u, n + j)
  <2>1. ASSUME IsTool(u[n + j]) PROVE \E a \in 1..((n + j) - 1) : n + j <= a + Len(u[a].calls)
    <3>1. PICK a \in 1..(j - 1) : j <= a + Len(t[a].calls)
      BY <1>2, <1>4, <2>1 DEF Called
    <3>2. a \in 1..k /\ n + a \in 1..((n + j) - 1)
      BY <1>0
    <3>4. u[n + a] = t[a] /\ Len(t[a].calls) \in Nat
      BY <1>2, <1>5, <3>2
    <3>3. n + j <= n + a + Len(u[n + a].calls)
      <4>1. PICK c \in Nat : c = Len(t[a].calls)
        BY <3>4
      <4>3. j <= a + c
        BY <3>1, <4>1, Zenon
      <4>2. n + j <= n + a + c
        BY <1>0, <4>3
      <4> QED
        BY <3>4, <4>1, <4>2
    <3> QED
      BY <3>2, <3>3
  <2> QED
    BY <2>1 DEF Called
<1>10. ASSUME NEW i \in 1..Len(u) PROVE Answered(u, i) /\ Called(u, i)
  <2>1. CASE i \in 1..n
    BY <1>6, <1>8, <2>1
  <2>2. CASE i \notin 1..n
    <3>1. i - n \in 1..k /\ n + (i - n) = i
      BY <1>2, <2>2
    <3> QED
      BY <1>7, <1>9, <3>1
  <2> QED
    BY <2>1, <2>2
<1> QED
  BY <1>2, <1>10 DEF Paired, u

LEMMA OpensConcat ==
    ASSUME NEW s \in Seq(Msgs), NEW t \in Seq(Msgs), Opens(s), Opens(t)
    PROVE  Opens(s \o t)
<1>1. CASE s = <<>>
  BY <1>1 DEF Opens
<1>2. CASE s # <<>>
  BY <1>2 DEF Opens
<1> QED
  BY <1>1, <1>2

\* A message with the answers to its calls.
LEMMA GroupIsPaired ==
    ASSUME NEW m \in Msgs, ~IsTool(m), NEW ans \in Seq(Msgs), Len(ans) = Len(m.calls),
           \A k \in 1..Len(ans) : IsTool(ans[k]) /\ ans[k].id = m.calls[k]
    PROVE  Paired(<<m>> \o ans) /\ Opens(<<m>> \o ans)
<1> DEFINE u == <<m>> \o ans
           k == Len(ans)
<1>1. <<m>> \in Seq(Msgs) /\ Len(<<m>>) = 1 /\ <<m>>[1] = m
  OBVIOUS
<1>2. /\ u \in Seq(Msgs) /\ Len(u) = 1 + k /\ k \in Nat /\ u[1] = m
      /\ \A i \in 1..k : u[1 + i] = ans[i]
  BY <1>1, ConcatIs
<1>3. \A i \in 1..k : Len(ans[i].calls) = 0
  BY CallsOfMsg
<1> HIDE DEF u
<1>4. Answered(u, 1) /\ Called(u, 1)
  BY <1>2 DEF Answered, Called
<1>5. ASSUME NEW i \in 1..k PROVE Answered(u, 1 + i) /\ Called(u, 1 + i)
  <2>1. Answered(u, 1 + i)
    BY <1>2, <1>3 DEF Answered
  <2>2. 1 \in 1..(1 + i - 1) /\ 1 + i <= 1 + Len(u[1].calls)
    BY <1>2
  <2> QED
    BY <2>1, <2>2 DEF Called
<1>6. \A i \in 1..Len(u) : i = 1 \/ (i - 1 \in 1..k /\ 1 + (i - 1) = i)
  BY <1>2
<1>7. \A i \in 1..Len(u) : Answered(u, i) /\ Called(u, i)
  BY <1>4, <1>5, <1>6
<1> QED
  BY <1>2, <1>7 DEF Paired, Opens, u

\* Messages without calls or results.
Plain(m) == ~IsTool(m) /\ m.calls = <<>>

LEMMA PlainIsPaired ==
    ASSUME NEW s \in Seq(Msgs), \A i \in 1..Len(s) : Plain(s[i])
    PROVE  Paired(s) /\ Opens(s)
  BY DEF Plain, Paired, Opens, Answered, Called

LEMMA OnePlain ==
    ASSUME NEW m \in Msgs, Plain(m)
    PROVE  Paired(<<m>>) /\ Opens(<<m>>) /\ <<m>> \in Seq(Msgs)
<1>1. <<m>> \in Seq(Msgs) /\ Len(<<m>>) = 1 /\ <<m>>[1] = m
  OBVIOUS
<1>2. \A i \in 1..Len(<<m>>) : Plain(<<m>>[i])
  BY <1>1
<1> QED
  BY <1>1, <1>2, PlainIsPaired

-----------------------------------------------------------------------------
(* What FlattenSeq makes of lists of messages.                             *)

\* Where the elements of the flattened list come from: part g, place h.
Origins(seqs, flat, g, h) ==
    /\ \A q \in 1..Len(flat) :
         g[q] \in 1..Len(seqs) /\ h[q] \in 1..Len(seqs[g[q]]) /\ flat[q] = seqs[g[q]][h[q]]
    /\ \A q, r \in 1..Len(flat) : q < r => g[q] < g[r] \/ (g[q] = g[r] /\ h[q] < h[r])

FlatOrigins(seqs) == \E g, h : Origins(seqs, FlattenSeq(seqs), g, h)

FlatPaired(seqs) ==
    (\A n \in 1..Len(seqs) : Paired(seqs[n]) /\ Opens(seqs[n]))
      => Paired(FlattenSeq(seqs)) /\ Opens(FlattenSeq(seqs))

FlatSingles(seqs) ==
    (\A n \in 1..Len(seqs) : Len(seqs[n]) = 1)
      => /\ Len(FlattenSeq(seqs)) = Len(seqs)
         /\ \A n \in 1..Len(seqs) : FlattenSeq(seqs)[n] = seqs[n][1]

FlatHolds(seqs) ==
    /\ FlattenSeq(seqs) \in Seq(Msgs)
    /\ FlatOrigins(seqs) /\ FlatPaired(seqs) /\ FlatSingles(seqs)

Flats == INSTANCE SequenceFolds WITH Step <- ReplayStep, Base <- [msgs |-> <<>>, run |-> NoRun],
                                     P <- FlatHolds

LEMMA FlatOfNone == FlatHolds(<<>>)
<1>1. FlattenSeq(<<>>) = <<>> /\ Len(<<>>) = 0
  BY FlattenEmpty
<1>2. Origins(<<>>, <<>>, <<>>, <<>>)
  BY <1>1 DEF Origins
<1>3. <<>> \in Seq(Msgs) /\ Paired(<<>>) /\ Opens(<<>>)
  BY DEF Paired, Opens
<1>4. FlatOrigins(<<>>)
  BY <1>1, <1>2, Zenon DEF FlatOrigins
<1>5. FlatPaired(<<>>) /\ FlatSingles(<<>>)
  BY <1>1, <1>3 DEF FlatPaired, FlatSingles
<1> QED
  BY <1>1, <1>3, <1>4, <1>5 DEF FlatHolds

LEMMA FlatOfMore ==
    ASSUME NEW seqs \in Seq(Seq(Msgs)), NEW t \in Seq(Msgs), FlatHolds(seqs)
    PROVE  FlatHolds(Append(seqs, t))
<1> DEFINE u == Append(seqs, t)
           f == FlattenSeq(seqs)
           n == Len(seqs)
           k == Len(f)
<1>1. /\ Len(u) = n + 1 /\ n \in Nat /\ u[n + 1] = t /\ \A i \in 1..n : u[i] = seqs[i]
  OBVIOUS
<1>2. f \in Seq(Msgs) /\ FlatOrigins(seqs) /\ FlatPaired(seqs) /\ FlatSingles(seqs)
  BY DEF FlatHolds
<1>3. FlattenSeq(u) = f \o t
  <2>1. CASE seqs = <<>>
    <3>1. f = <<>> /\ FlattenSeq(u) = t
      BY <2>1, FlattenAppend, FlattenEmpty
    <3> QED
      BY <3>1
  <2>2. CASE seqs # <<>>
    BY <2>2, FlattenAppend
  <2> QED
    BY <2>1, <2>2
<1> HIDE DEF u, f, n
<1>4. /\ f \o t \in Seq(Msgs) /\ Len(f \o t) = k + Len(t) /\ k \in Nat /\ Len(t) \in Nat
      /\ \A i \in 1..k : (f \o t)[i] = f[i]
      /\ \A i \in 1..Len(t) : (f \o t)[k + i] = t[i]
      /\ \A i \in 1..(k + Len(t)) : i \notin 1..k => i - k \in 1..Len(t) /\ (f \o t)[i] = t[i - k]
  BY <1>2, ConcatIs
<1> HIDE DEF k
<1>5. FlatPaired(u)
  <2> SUFFICES ASSUME \A i \in 1..Len(u) : Paired(u[i]) /\ Opens(u[i])
               PROVE  Paired(f \o t) /\ Opens(f \o t)
    BY <1>3 DEF FlatPaired
  <2>1. Paired(t) /\ Opens(t) /\ \A i \in 1..n : Paired(seqs[i]) /\ Opens(seqs[i])
    <3>1. n + 1 \in 1..Len(u) /\ \A i \in 1..n : i \in 1..Len(u)
      BY <1>1
    <3> QED
      BY <1>1, <3>1
  <2>2. Paired(f) /\ Opens(f)
    BY <1>2, <2>1 DEF FlatPaired, f, n
  <2> QED
    BY <1>2, <2>1, <2>2, PairedConcat, OpensConcat
<1>6. FlatSingles(u)
  <2> SUFFICES ASSUME \A i \in 1..Len(u) : Len(u[i]) = 1
               PROVE  Len(f \o t) = Len(u) /\ \A i \in 1..Len(u) : (f \o t)[i] = u[i][1]
    BY <1>3 DEF FlatSingles
  <2>1. Len(t) = 1 /\ \A i \in 1..n : Len(seqs[i]) = 1
    <3>1. n + 1 \in 1..Len(u) /\ \A i \in 1..n : i \in 1..Len(u)
      BY <1>1
    <3> QED
      BY <1>1, <3>1
  <2>2. k = n /\ \A i \in 1..n : f[i] = seqs[i][1]
    BY <1>2, <2>1 DEF FlatSingles, f, n, k
  <2>3. Len(f \o t) = Len(u)
    BY <1>1, <1>4, <2>1, <2>2
  <2>4. ASSUME NEW i \in 1..Len(u) PROVE (f \o t)[i] = u[i][1]
    <3>1. CASE i \in 1..n
      BY <1>1, <1>4, <2>2, <3>1
    <3>2. CASE i = n + 1
      <4>1. 1 \in 1..Len(t) /\ k + 1 = i
        BY <2>1, <2>2, <3>2
      <4>2. (f \o t)[i] = t[1]
        BY <1>4, <4>1
      <4> QED
        BY <1>1, <3>2, <4>2
    <3>3. i \in 1..n \/ i = n + 1
      BY <1>1
    <3> QED
      BY <3>1, <3>2, <3>3
  <2> QED
    BY <2>3, <2>4
<1>7. FlatOrigins(u)
  <2>1. PICK g, h : Origins(seqs, f, g, h)
    BY <1>2 DEF FlatOrigins, f
  <2> DEFINE a == [q \in 1..(k + Len(t)) |-> IF q \in 1..k THEN g[q] ELSE n + 1]
             b == [q \in 1..(k + Len(t)) |-> IF q \in 1..k THEN h[q] ELSE q - k]
  <2>2. ASSUME NEW q \in 1..Len(f \o t)
        PROVE  a[q] \in 1..Len(u) /\ b[q] \in 1..Len(u[a[q]]) /\ (f \o t)[q] = u[a[q]][b[q]]
    <3>1. CASE q \in 1..k
      <4>1. g[q] \in 1..n /\ h[q] \in 1..Len(seqs[g[q]]) /\ f[q] = seqs[g[q]][h[q]]
        BY <2>1, <3>1 DEF Origins, n, k
      <4>2. g[q] \in 1..Len(u) /\ u[g[q]] = seqs[g[q]] /\ (f \o t)[q] = f[q]
        BY <1>1, <1>4, <3>1, <4>1
      <4>3. a[q] = g[q] /\ b[q] = h[q]
        BY <1>4, <3>1
      <4> HIDE DEF a, b
      <4> QED
        BY <4>1, <4>2, <4>3
    <3>2. CASE q \notin 1..k
      <4>1. q - k \in 1..Len(t) /\ (f \o t)[q] = t[q - k]
        BY <1>4, <3>2
      <4>2. a[q] = n + 1 /\ b[q] = q - k
        BY <1>4, <3>2
      <4>3. n + 1 \in 1..Len(u) /\ u[n + 1] = t
        BY <1>1
      <4> HIDE DEF a, b
      <4> QED
        BY <4>1, <4>2, <4>3
    <3> QED
      BY <3>1, <3>2
  <2>3. ASSUME NEW q \in 1..Len(f \o t), NEW r \in 1..Len(f \o t), q < r
        PROVE  a[q] < a[r] \/ (a[q] = a[r] /\ b[q] < b[r])
    <3>1. CASE r \in 1..k
      <4>1. q \in 1..k
        BY <1>4, <2>3, <3>1
      <4>2. a[q] = g[q] /\ b[q] = h[q] /\ a[r] = g[r] /\ b[r] = h[r]
        BY <1>4, <3>1, <4>1
      <4>3. g[q] < g[r] \/ (g[q] = g[r] /\ h[q] < h[r])
        BY <2>1, <2>3, <3>1, <4>1 DEF Origins, k
      <4> HIDE DEF a, b
      <4> QED
        BY <4>2, <4>3
    <3>2. CASE r \notin 1..k /\ q \in 1..k
      <4>1. a[q] = g[q] /\ a[r] = n + 1
        BY <1>4, <3>2
      <4>2. g[q] \in 1..n
        BY <2>1, <3>2 DEF Origins, n, k
      <4> HIDE DEF a, b
      <4> QED
        BY <1>1, <4>1, <4>2
    <3>3. CASE r \notin 1..k /\ q \notin 1..k
      <4>1. a[q] = a[r] /\ b[q] = q - k /\ b[r] = r - k
        BY <1>4, <3>3
      <4> HIDE DEF a, b
      <4> QED
        BY <1>4, <2>3, <4>1
    <3> QED
      BY <3>1, <3>2, <3>3
  <2> HIDE DEF a, b
  <2>4. Origins(u, f \o t, a, b)
    BY <2>2, <2>3 DEF Origins
  <2> QED
    BY <1>3, <2>4 DEF FlatOrigins
<1> QED
  BY <1>3, <1>4, <1>5, <1>6, <1>7 DEF FlatHolds, u

LEMMA FlatAll == \A seqs \in Seq(Seq(Msgs)) : FlatHolds(seqs)
  BY FlatOfNone, FlatOfMore, Flats!SequencesByAppend

-----------------------------------------------------------------------------
(* The two repairs.                                                        *)

LEMMA MessageIs ==
    ASSUME NEW role \in Roles, NEW id \in Nat, NEW calls \in Seq(Nat), Once(calls),
           role \in {"tool", "lost"} => calls = <<>>
    PROVE  /\ Message(role, id, calls) \in Msgs
           /\ Message(role, id, calls).role = role /\ Message(role, id, calls).id = id
           /\ Message(role, id, calls).calls = calls
  BY DEF Message, Msgs, MsgRec, IsTool

LEMMA BareMessageIs ==
    ASSUME NEW role \in Roles, NEW id \in Nat
    PROVE  /\ Message(role, id, <<>>) \in Msgs
           /\ Message(role, id, <<>>).role = role /\ Message(role, id, <<>>).id = id
           /\ Message(role, id, <<>>).calls = <<>>
<1>1. <<>> \in Seq(Nat) /\ Once(<<>>) /\ {} \in SUBSET ItemSet
  BY DEF Once
<1> QED
  BY <1>1 DEF Message, Msgs, MsgRec, IsTool

LEMMA AsTextIsPlain ==
    ASSUME NEW s \in Seq(Msgs)
    PROVE  AsText(s) \in Seq(Msgs) /\ Paired(AsText(s)) /\ Opens(AsText(s))
<1> DEFINE t == AsText(s)
<1>1. \A j \in DOMAIN s : s[j].id \in Nat
  BY CallsOfMsg
<1>2. \A j \in DOMAIN s : Message("text", s[j].id, <<>>) \in Msgs /\ Plain(Message("text", s[j].id, <<>>))
  BY <1>1, BareMessageIs DEF Roles, Plain, IsTool
<1>3. t \in Seq(Msgs) /\ Len(t) = Len(s) /\ \A j \in 1..Len(s) : t[j] = Message("text", s[j].id, <<>>)
  BY <1>2 DEF AsText
<1> HIDE DEF t
<1>4. \A j \in 1..Len(t) : Plain(t[j])
  BY <1>2, <1>3
<1>5. t \in Seq(Msgs) /\ Paired(t) /\ Opens(t)
  BY <1>3, <1>4, PlainIsPaired
<1> QED
  BY <1>5 DEF t

LEMMA RunAfterIs ==
    ASSUME NEW s \in Seq(Msgs), NEW n \in Nat, NEW j \in RunAfter(s, n)
    PROVE  j \in DOMAIN s /\ j \in Nat /\ IsTool(s[j])
  BY DEF RunAfter

LEMMA FirstOfIs ==
    ASSUME NEW S \in SUBSET Nat, S # {}
    PROVE  FirstOf(S) \in S
<1>1. \E x \in S : \A y \in S : x <= y
  BY Nats!LeastNat
<1> QED
  BY <1>1 DEF FirstOf

LEMMA FirstAnswer ==
    ASSUME NEW s \in Seq(Msgs), NEW n \in Nat, NEW c, AnswerAt(s, n, c) # {}
    PROVE  LET j == FirstOf(AnswerAt(s, n, c))
           IN  j \in RunAfter(s, n) /\ j \in DOMAIN s /\ IsTool(s[j]) /\ s[j].id = c
<1>1. AnswerAt(s, n, c) \in SUBSET Nat
  BY RunAfterIs DEF AnswerAt
<1>2. FirstOf(AnswerAt(s, n, c)) \in AnswerAt(s, n, c)
  BY <1>1, FirstOfIs
<1> QED
  BY <1>2, RunAfterIs DEF AnswerAt

LEMMA MatchedIsInRun ==
    ASSUME NEW s \in Seq(Msgs), NEW n \in Nat
    PROVE  Matched(s, n) \subseteq RunAfter(s, n) /\ RunAfter(s, n) \in SUBSET DOMAIN s
  BY FirstAnswer, RunAfterIs DEF Matched

LEMMA AnswerToIs ==
    ASSUME NEW s \in Seq(Msgs), NEW n \in Nat, NEW c \in Nat
    PROVE  AnswerTo(s, n, c) \in Msgs /\ IsTool(AnswerTo(s, n, c)) /\ AnswerTo(s, n, c).id = c
<1>1. CASE AnswerAt(s, n, c) = {}
  BY <1>1, BareMessageIs DEF AnswerTo, Roles, IsTool
<1>2. CASE AnswerAt(s, n, c) # {}
  <2>1. PICK j \in DOMAIN s : j = FirstOf(AnswerAt(s, n, c)) /\ IsTool(s[j]) /\ s[j].id = c
    BY <1>2, FirstAnswer
  <2>2. AnswerTo(s, n, c) = s[j]
    BY <1>2, <2>1 DEF AnswerTo
  <2> QED
    BY <2>1, <2>2
<1> QED
  BY <1>1, <1>2

LEMMA WireGroupIsPaired ==
    ASSUME NEW s \in Seq(Msgs), NEW n \in DOMAIN s, ~IsTool(s[n])
    PROVE  WireGroup(s, n) \in Seq(Msgs) /\ Paired(WireGroup(s, n)) /\ Opens(WireGroup(s, n))
<1> DEFINE ans == [k \in DOMAIN s[n].calls |-> AnswerTo(s, n, s[n].calls[k])]
           rest == AsText(Picked(s, RunAfter(s, n) \ Matched(s, n)))
<1>1. n \in Nat /\ s[n] \in Msgs
  OBVIOUS
<1>2. s[n].calls \in Seq(Nat) /\ Len(s[n].calls) \in Nat /\ DOMAIN s[n].calls = 1..Len(s[n].calls)
  BY <1>1, CallsOfMsg
<1>3. \A k \in 1..Len(s[n].calls) :
        LET a == AnswerTo(s, n, s[n].calls[k]) IN a \in Msgs /\ IsTool(a) /\ a.id = s[n].calls[k]
  BY <1>1, <1>2, AnswerToIs
<1>4. ans \in Seq(Msgs) /\ Len(ans) = Len(s[n].calls)
      /\ \A k \in 1..Len(ans) : IsTool(ans[k]) /\ ans[k].id = s[n].calls[k]
  BY <1>2, <1>3
<1>5. rest \in Seq(Msgs) /\ Paired(rest) /\ Opens(rest)
  <2>1. RunAfter(s, n) \ Matched(s, n) \in SUBSET DOMAIN s
    BY <1>1, MatchedIsInRun
  <2>2. Picked(s, RunAfter(s, n) \ Matched(s, n)) \in Seq(Msgs)
    BY <2>1, PickedIs
  <2> QED
    BY <2>2, AsTextIsPlain
<1> HIDE DEF ans, rest
<1>6. Paired(<<s[n]>> \o ans) /\ Opens(<<s[n]>> \o ans)
  BY <1>1, <1>4, GroupIsPaired
<1>7. Paired((<<s[n]>> \o ans) \o rest) /\ Opens((<<s[n]>> \o ans) \o rest)
  BY <1>5, <1>6, PairedConcat, OpensConcat DEF Paired
<1>8. WireGroup(s, n) = (<<s[n]>> \o ans) \o rest
  BY DEF WireGroup, ans, rest
<1> QED
  BY <1>7, <1>8 DEF Paired

LEMMA WireIsPaired == ASSUME NEW s \in Seq(Msgs) PROVE Paired(Wire(s))
<1> DEFINE head == AsText(Picked(s, RunAfter(s, 0)))
           parts == [n \in DOMAIN s |-> IF IsTool(s[n]) THEN <<>> ELSE WireGroup(s, n)]
<1>1. Paired(head)
  <2>1. RunAfter(s, 0) \in SUBSET DOMAIN s
    BY MatchedIsInRun
  <2>2. Picked(s, RunAfter(s, 0)) \in Seq(Msgs)
    BY <2>1, PickedIs
  <2> QED
    BY <2>2, AsTextIsPlain
<1>2. <<>> \in Seq(Msgs) /\ Paired(<<>>) /\ Opens(<<>>)
  BY DEF Paired, Opens
<1>3. \A n \in DOMAIN s : parts[n] \in Seq(Msgs) /\ Paired(parts[n]) /\ Opens(parts[n])
  BY <1>2, WireGroupIsPaired
<1>4. parts \in Seq(Seq(Msgs)) /\ Len(parts) = Len(s) /\ DOMAIN s = 1..Len(s)
  <2>1. Len(s) \in Nat /\ DOMAIN s = 1..Len(s) /\ DOMAIN parts = DOMAIN s
    OBVIOUS
  <2>2. parts = [n \in 1..Len(s) |-> parts[n]]
    BY <2>1
  <2> HIDE DEF parts
  <2> QED
    BY <1>3, <2>1, <2>2
<1> HIDE DEF parts, head
<1>5. Paired(FlattenSeq(parts)) /\ Opens(FlattenSeq(parts))
  BY <1>3, <1>4, FlatAll DEF FlatHolds, FlatPaired
<1>6. Wire(s) = head \o FlattenSeq(parts)
  BY DEF Wire, head, parts
<1> QED
  BY <1>1, <1>5, <1>6, PairedConcat

\* A message that says something, and lists that say it in the order it was said in.
Says(m) == m.role \notin {"tool", "text", "lost"} /\ m.id # 0

InOrder(s) ==
    \A a, b \in 1..Len(s) : a < b /\ Says(s[a]) /\ Says(s[b]) => s[a].id < s[b].id

Nothing == <<FALSE, 0>>

LEMMA ItemIs ==
    ASSUME NEW m
    PROVE  /\ m.role \in {"tool", "text"} => Item(m) = <<TRUE, m.id>>
           /\ m.role = "lost" => Item(m) = Nothing
           /\ m.role \notin {"tool", "text", "lost"} => Item(m) = <<FALSE, m.id>>
<1>1. ASSUME m.role \in {"tool", "text"} PROVE Item(m) = <<TRUE, m.id>>
  <2>1. (m.role \in {"tool", "text"}) = TRUE /\ m.role # "lost"
    BY <1>1
  <2> QED
    BY <2>1 DEF Item
<1>2. ASSUME m.role \notin {"tool", "text"}
      PROVE  Item(m) = <<FALSE, IF m.role = "lost" THEN 0 ELSE m.id>>
  <2>1. (m.role \in {"tool", "text"}) = FALSE
    BY <1>2
  <2> QED
    BY <2>1 DEF Item
<1> QED
  BY <1>1, <1>2 DEF Nothing

LEMMA ItemsAre ==
    ASSUME NEW s, NEW x
    PROVE  x \in Items(s) <=> x # Nothing /\ \E i \in DOMAIN s : x = Item(s[i])
  BY Zenon DEF Items, Nothing

LEMMA ListOf ==
    ASSUME NEW T, NEW n \in Nat, NEW f, f = [i \in 1..n |-> f[i]], \A i \in 1..n : f[i] \in T
    PROVE  f \in Seq(T) /\ Len(f) = n /\ DOMAIN f = 1..n
<1>1. f \in [1..n -> T]
  OBVIOUS
<1> QED
  BY <1>1

\* A message of the list behind which only results and made-up results are put.
LEMMA SanitizeOrphansIs ==
    ASSUME NEW s \in Seq(Msgs)
    PROVE  /\ SanitizeOrphans(s) \in Seq(Msgs) /\ Items(SanitizeOrphans(s)) \subseteq Items(s)
           /\ InOrder(s) => InOrder(SanitizeOrphans(s))
<1> DEFINE Part(n) == <<s[n]>> \o Picked(s, Matched(s, n)) \o MadeUp(s, n)
           parts == [n \in DOMAIN s |-> IF IsTool(s[n]) THEN <<>> ELSE Part(n)]
           flat == FlattenSeq(parts)
<1>1. ASSUME NEW n \in DOMAIN s
      PROVE  /\ Part(n) \in Seq(Msgs) /\ Part(n)[1] = s[n]
             /\ \A h \in 1..Len(Part(n)) : h # 1 =>
                  /\ IsTool(Part(n)[h])
                  /\ Item(Part(n)[h]) = Nothing \/ \E j \in DOMAIN s : Part(n)[h] = s[j]
  <2> DEFINE pk == Picked(s, Matched(s, n))
             mu == MadeUp(s, n)
  <2>0. n \in Nat /\ s[n] \in Msgs
    OBVIOUS
  <2>1. pk \in Seq(Msgs) /\ \A h \in 1..Len(pk) : IsTool(pk[h]) /\ \E j \in DOMAIN s : pk[h] = s[j]
    <3>1. Matched(s, n) \in SUBSET DOMAIN s /\ Matched(s, n) \subseteq RunAfter(s, n)
      BY <2>0, MatchedIsInRun
    <3>2. /\ pk \in Seq(Msgs) /\ Len(pk) = Cardinality(Matched(s, n))
          /\ pk = [k \in 1..Cardinality(Matched(s, n)) |-> s[Order(Matched(s, n))[k]]]
          /\ Order(Matched(s, n)) \in [1..Cardinality(Matched(s, n)) -> Matched(s, n)]
      BY <3>1, PickedIs
    <3>3. ASSUME NEW h \in 1..Len(pk) PROVE IsTool(pk[h]) /\ \E j \in DOMAIN s : pk[h] = s[j]
      <4>1. PICK j \in Matched(s, n) : pk[h] = s[j]
        BY <3>2
      <4> QED
        BY <2>0, <3>1, <4>1, RunAfterIs
    <3> QED
      BY <3>2, <3>3
  <2>2. mu \in Seq(Msgs) /\ \A h \in 1..Len(mu) : IsTool(mu[h]) /\ Item(mu[h]) = Nothing
    <3> DEFINE calls == s[n].calls
               gaps == Picked(calls, {k \in DOMAIN calls : AnswerAt(s, n, calls[k]) = {}})
    <3>1. calls \in Seq(Nat)
      BY <2>0, CallsOfMsg
    <3>2. gaps \in Seq(Nat)
      BY <3>1, PickedIs
    <3>3. mu = [k \in DOMAIN gaps |-> Message("lost", gaps[k], <<>>)]
      BY DEF MadeUp
    <3> HIDE DEF gaps, mu
    <3>4. DOMAIN gaps = 1..Len(gaps) /\ Len(gaps) \in Nat /\ \A k \in DOMAIN gaps : gaps[k] \in Nat
      BY <3>2
    <3>5. \A k \in DOMAIN gaps : mu[k] \in Msgs /\ mu[k].role = "lost"
      BY <3>3, <3>4, BareMessageIs DEF Roles
    <3>6. mu \in Seq(Msgs) /\ Len(mu) = Len(gaps)
      BY <3>3, <3>4, <3>5, ListOf
    <3> QED
      BY <3>4, <3>5, <3>6, ItemIs DEF IsTool
  <2>3. <<s[n]>> \in Seq(Msgs) /\ Len(<<s[n]>>) = 1 /\ <<s[n]>>[1] = s[n]
    BY <2>0
  <2> HIDE DEF pk, mu
  <2> DEFINE a == <<s[n]>> \o pk
  <2>4. /\ a \in Seq(Msgs) /\ Len(a) = 1 + Len(pk) /\ Len(pk) \in Nat /\ a[1] = s[n]
        /\ \A h \in 1..Len(pk) : a[1 + h] = pk[h]
    BY <2>1, <2>3, ConcatIs
  <2> HIDE DEF a
  <2>5. /\ a \o mu \in Seq(Msgs) /\ Len(a \o mu) = Len(a) + Len(mu) /\ Len(mu) \in Nat
        /\ \A h \in 1..Len(a) : (a \o mu)[h] = a[h]
        /\ \A h \in 1..(Len(a) + Len(mu)) : h \notin 1..Len(a) =>
             h - Len(a) \in 1..Len(mu) /\ (a \o mu)[h] = mu[h - Len(a)]
    <3>1. a \in Seq(Msgs) /\ mu \in Seq(Msgs)
      BY <2>2, <2>4
    <3> QED
      BY <3>1, ConcatIs
  <2>6. Part(n) = a \o mu
    BY DEF a, pk, mu
  <2> HIDE DEF Part
  <2>7. Part(n)[1] = s[n]
    <3>1. 1 \in 1..Len(a)
      BY <2>4
    <3> QED
      BY <2>4, <2>5, <2>6, <3>1
  <2>8. ASSUME NEW h \in 1..Len(Part(n)), h # 1
        PROVE  /\ IsTool(Part(n)[h])
               /\ Item(Part(n)[h]) = Nothing \/ \E j \in DOMAIN s : Part(n)[h] = s[j]
    <3>1. CASE h \in 1..Len(a)
      <4>1. h - 1 \in 1..Len(pk) /\ 1 + (h - 1) = h
        BY <2>4, <2>8, <3>1
      <4>2. Part(n)[h] = pk[h - 1]
        BY <2>4, <2>5, <2>6, <3>1, <4>1
      <4> QED
        BY <2>1, <4>1, <4>2
    <3>2. CASE h \notin 1..Len(a)
      <4>1. h - Len(a) \in 1..Len(mu) /\ Part(n)[h] = mu[h - Len(a)]
        BY <2>5, <2>6, <3>2
      <4> QED
        BY <2>2, <4>1
    <3> QED
      BY <3>1, <3>2
  <2> QED
    BY <2>5, <2>6, <2>7, <2>8
<1> HIDE DEF Part
<1>2. DOMAIN s = 1..Len(s) /\ Len(s) \in Nat /\ \A i \in DOMAIN s : s[i] \in Msgs
  OBVIOUS
<1>3. \A n \in DOMAIN s : parts[n] \in Seq(Msgs)
  <2>1. <<>> \in Seq(Msgs) /\ \A n \in DOMAIN s : Part(n) \in Seq(Msgs)
    BY <1>1
  <2> QED
    BY <2>1
<1>4. parts = [n \in 1..Len(s) |-> parts[n]]
  BY <1>2
<1>5. ASSUME NEW n \in DOMAIN s, NEW h \in 1..Len(parts[n])
      PROVE  /\ h = 1 => parts[n][h] = s[n]
             /\ h # 1 => IsTool(parts[n][h])
             /\ Item(parts[n][h]) = Nothing \/ \E j \in DOMAIN s : parts[n][h] = s[j]
  <2>1. parts[n] = Part(n)
    <3>1. CASE IsTool(s[n])
      BY <1>5, <3>1
    <3> QED
      BY <3>1
  <2> HIDE DEF parts
  <2>2. /\ parts[n][1] = s[n]
        /\ \A i \in 1..Len(parts[n]) : i # 1 =>
             /\ IsTool(parts[n][i])
             /\ Item(parts[n][i]) = Nothing \/ \E j \in DOMAIN s : parts[n][i] = s[j]
    BY <1>1, <2>1
  <2> QED
    BY <1>5, <2>2
<1> HIDE DEF parts
<1>6. parts \in Seq(Seq(Msgs)) /\ Len(parts) = Len(s)
  BY <1>2, <1>3, <1>4, ListOf
<1>7. flat \in Seq(Msgs) /\ FlatOrigins(parts)
  BY <1>6, FlatAll DEF FlatHolds
<1>8. PICK g, h : Origins(parts, flat, g, h)
  BY <1>7 DEF FlatOrigins
<1> HIDE DEF flat
<1>9. \A q \in 1..Len(flat) :
        /\ g[q] \in DOMAIN s /\ h[q] \in 1..Len(parts[g[q]]) /\ flat[q] = parts[g[q]][h[q]]
        /\ flat[q] \in Msgs
  BY <1>2, <1>6, <1>7, <1>8 DEF Origins
<1>10. Items(flat) \subseteq Items(s)
  <2> SUFFICES ASSUME NEW q \in 1..Len(flat), Item(flat[q]) # Nothing
               PROVE  Item(flat[q]) \in Items(s)
    BY <1>7, ItemsAre
  <2>1. PICK j \in DOMAIN s : flat[q] = s[j]
    BY <1>5, <1>9, SMTT(40)
  <2> QED
    BY <2>1, ItemsAre
<1>11. ASSUME InOrder(s) PROVE InOrder(flat)
  <2> SUFFICES ASSUME NEW q \in 1..Len(flat), NEW r \in 1..Len(flat), q < r,
                      Says(flat[q]), Says(flat[r])
               PROVE  flat[q].id < flat[r].id
    BY DEF InOrder
  <2>1. ~IsTool(flat[q]) /\ ~IsTool(flat[r])
    BY DEF Says, IsTool
  <2>2. h[q] = 1 /\ h[r] = 1
    BY <1>5, <1>9, <2>1, ZenonT(40)
  <2>3. flat[q] = s[g[q]] /\ flat[r] = s[g[r]]
    BY <1>5, <1>9, <2>2
  <2>4. g[q] < g[r]
    BY <1>8, <2>2 DEF Origins
  <2> QED
    BY <1>2, <1>9, <1>11, <2>3, <2>4 DEF InOrder
<1>12. SanitizeOrphans(s) = flat
  BY DEF SanitizeOrphans, flat, parts, Part
<1> QED
  BY <1>7, <1>10, <1>11, <1>12

LEMMA LegalizeIs ==
    ASSUME NEW s \in Seq(Msgs)
    PROVE  /\ LegalizeToolHistory(s) \in Seq(Msgs)
           /\ Paired(s) => LegalizeToolHistory(s) = s
<1> DEFINE answered == {s[i].id : i \in Answers(s, "tool") \cup Answers(s, "lost")}
           Gaps(n) == {k \in DOMAIN s[n].calls : s[n].calls[k] \notin answered}
           Missing(n) == Picked(s[n].calls, Gaps(n))
           MadeFor(n) == [k \in DOMAIN Missing(n) |-> Message("lost", Missing(n)[k], <<>>)]
           parts == [n \in DOMAIN s |-> <<s[n]>> \o MadeFor(n)]
<1>1. LegalizeToolHistory(s) = FlattenSeq(parts)
  BY DEF LegalizeToolHistory
<1>2. DOMAIN s = 1..Len(s) /\ Len(s) \in Nat /\ \A i \in DOMAIN s : s[i] \in Msgs
  OBVIOUS
<1>3. \A n \in DOMAIN s : s[n].calls \in Seq(Nat) /\ Gaps(n) \in SUBSET DOMAIN s[n].calls
  BY <1>2, CallsOfMsg
<1> HIDE DEF Gaps
<1>4. \A n \in DOMAIN s : Missing(n) \in Seq(Nat) /\ Len(Missing(n)) = Cardinality(Gaps(n))
  BY <1>3, PickedIs
<1> HIDE DEF Missing
<1>5. ASSUME NEW n \in DOMAIN s PROVE MadeFor(n) \in Seq(Msgs) /\ Len(MadeFor(n)) = Len(Missing(n))
  <2>1. /\ DOMAIN Missing(n) = 1..Len(Missing(n)) /\ Len(Missing(n)) \in Nat
        /\ \A k \in DOMAIN Missing(n) : Missing(n)[k] \in Nat
    BY <1>4
  <2>2. \A k \in DOMAIN Missing(n) : Message("lost", Missing(n)[k], <<>>) \in Msgs
    BY <2>1, BareMessageIs DEF Roles
  <2> QED
    BY <2>1, <2>2
<1> HIDE DEF MadeFor
<1>6. ASSUME NEW n \in DOMAIN s
      PROVE  parts[n] \in Seq(Msgs) /\ Len(parts[n]) = 1 + Len(Missing(n)) /\ parts[n][1] = s[n]
  <2>1. <<s[n]>> \in Seq(Msgs) /\ Len(<<s[n]>>) = 1 /\ <<s[n]>>[1] = s[n] /\ 1 \in 1..1
    BY <1>2
  <2>2. parts[n] = <<s[n]>> \o MadeFor(n)
    OBVIOUS
  <2> QED
    BY <1>5, <2>1, <2>2, ConcatIs
<1>7. parts = [n \in 1..Len(s) |-> parts[n]]
  BY <1>2
<1> HIDE DEF parts
<1>8. parts \in Seq(Seq(Msgs)) /\ Len(parts) = Len(s)
  BY <1>2, <1>6, <1>7, ListOf
<1>9. FlatHolds(parts)
  BY <1>8, FlatAll
<1>10. ASSUME Paired(s) PROVE FlattenSeq(parts) = s
  <2>1. ASSUME NEW n \in DOMAIN s PROVE Gaps(n) = {}
    <3>1. ASSUME NEW k \in DOMAIN s[n].calls PROVE s[n].calls[k] \in answered
      <4>1. k \in 1..Len(s[n].calls) /\ Len(s[n].calls) # 0 /\ Len(s[n].calls) \in Nat
        BY <1>2, CallsOfMsg
      <4>2. Answered(s, n)
        BY <1>2, <1>10 DEF Paired
      <4>3. n + Len(s[n].calls) <= Len(s) /\ IsTool(s[n + k]) /\ s[n + k].id = s[n].calls[k]
        BY <4>1, <4>2 DEF Answered
      <4>4. n + k \in DOMAIN s
        <5>1. PICK c \in Nat : c = Len(s[n].calls)
          BY <4>1
        <5>2. k \in 1..c /\ n + c <= Len(s) /\ n \in 1..Len(s)
          BY <1>2, <4>1, <4>3, <5>1
        <5> QED
          BY <1>2, <5>2
      <4>5. n + k \in Answers(s, "tool") \cup Answers(s, "lost")
        BY <4>3, <4>4 DEF Answers, IsTool
      <4> QED
        BY <4>3, <4>5
    <3> QED
      BY <3>1 DEF Gaps
  <2>2. \A n \in 1..Len(parts) : Len(parts[n]) = 1
    <3>1. Cardinality({}) = 0
      BY FS_EmptySet
    <3>3. ASSUME NEW n \in DOMAIN s PROVE Len(parts[n]) = 1
      <4>1. Len(Missing(n)) = Cardinality(Gaps(n))
        BY <1>4
      <4>2. Len(Missing(n)) = 0
        BY <2>1, <3>1, <4>1
      <4>3. Len(parts[n]) = 1 + Len(Missing(n))
        BY <1>6
      <4> QED
        BY <4>2, <4>3
    <3> QED
      BY <1>2, <1>8, <3>3
  <2>3. Len(FlattenSeq(parts)) = Len(s) /\ \A n \in 1..Len(s) : FlattenSeq(parts)[n] = s[n]
    BY <1>2, <1>6, <1>8, <1>9, <2>2 DEF FlatHolds, FlatSingles
  <2>4. FlattenSeq(parts) \in Seq(Msgs)
    BY <1>9 DEF FlatHolds
  <2> HIDE DEF answered
  <2> QED
    BY <2>3, <2>4
<1> QED
  BY <1>1, <1>9, <1>10 DEF FlatHolds

-----------------------------------------------------------------------------
(* The log.                                                                *)

Kinds == {"meta", "user", "think", "call", "result", "compact", "snap"}
EvSet == [i : Nat, k : Kinds, id : Nat, upto : Nat, of : SUBSET ItemSet]

\* Of two events, the later: indexes grow, a call is recorded once, what is said
\* later has the larger number, and a compaction leaves out only messages of the
\* user that came while it was under way.
PairOK(x, y) ==
    /\ x.i < y.i
    /\ x.k = "call" /\ y.k = "call" => x.id # y.id
    /\ x.k \in {"user", "think"} /\ y.k \in {"user", "think"} => x.id < y.id
    /\ y.k = "compact" /\ x.i > y.upto => x.k = "user"

LogOK(evs) ==
    /\ evs \in Seq(EvSet)
    /\ \A j \in 1..Len(evs) : evs[j].k \in {"user", "think"} => evs[j].id # 0
    /\ \A a, b \in 1..Len(evs) : a < b => PairOK(evs[a], evs[b])

LEMMA LogAppend ==
    ASSUME NEW evs \in Seq(EvSet), NEW e \in EvSet
    PROVE  /\ LogOK(Append(evs, e)) <=>
                /\ LogOK(evs) /\ (e.k \in {"user", "think"} => e.id # 0)
                /\ \A j \in 1..Len(evs) : PairOK(evs[j], e)
           /\ Append(evs, e) \in Seq(EvSet) /\ Len(Append(evs, e)) = Len(evs) + 1
           /\ \A j \in 1..Len(evs) : Append(evs, e)[j] = evs[j]
           /\ Append(evs, e)[Len(evs) + 1] = e /\ Len(evs) \in Nat
<1> DEFINE u == Append(evs, e)
           n == Len(evs)
<1>1. /\ u \in Seq(EvSet) /\ Len(u) = n + 1 /\ n \in Nat /\ \A j \in 1..n : u[j] = evs[j]
      /\ u[n + 1] = e
  OBVIOUS
<1>2. /\ \A j \in 1..n : j \in 1..Len(u) /\ j < n + 1
      /\ n + 1 \in 1..Len(u)
      /\ \A j \in 1..Len(u) : j \in 1..n \/ j = n + 1
      /\ \A a, b \in 1..Len(u) : a < b => a \in 1..n
  BY <1>1
<1> HIDE DEF u, n
<1>3. LogOK(u) => LogOK(evs) /\ (e.k \in {"user", "think"} => e.id # 0)
                  /\ \A j \in 1..n : PairOK(evs[j], e)
  BY <1>1, <1>2 DEF LogOK, n
<1>4. ASSUME LogOK(evs), e.k \in {"user", "think"} => e.id # 0, \A j \in 1..n : PairOK(evs[j], e)
      PROVE  LogOK(u)
  <2>1. \A j \in 1..Len(u) : u[j].k \in {"user", "think"} => u[j].id # 0
    BY <1>1, <1>2, <1>4 DEF LogOK, n
  <2>2. ASSUME NEW a \in 1..Len(u), NEW b \in 1..Len(u), a < b PROVE PairOK(u[a], u[b])
    BY <1>1, <1>2, <1>4, <2>2 DEF LogOK, n
  <2> QED
    BY <1>1, <2>1, <2>2 DEF LogOK
<1> QED
  BY <1>1, <1>3, <1>4 DEF u, n

-----------------------------------------------------------------------------
(* The replay without startup metadata.                                    *)

LegacyFold(evs) == FoldLeft(LegacyStep, <<>>, evs)

\* A call is in the list only if it is in the log.
CallsFrom(evs, m) ==
    \A k \in 1..Len(m.calls) : \E j \in 1..Len(evs) : evs[j].k = "call" /\ evs[j].id = m.calls[k]

LegacyHolds(evs) ==
    LogOK(evs) => /\ LegacyFold(evs) \in Seq(Msgs)
                  /\ \A n \in 1..Len(LegacyFold(evs)) : CallsFrom(evs, LegacyFold(evs)[n])

Legacy == INSTANCE SequenceFolds WITH Step <- LegacyStep, Base <- <<>>, P <- LegacyHolds

LEMMA LegacyIsFold == \A evs : Legacy!Folded(evs) = LegacyFold(evs)
  BY DEF LegacyFold, FoldLeft, MapThenFoldSet, Max, Legacy!Folded, Legacy!FoldLeft,
         Legacy!MapThenFoldSet, Legacy!Max

\* One more call joins a message.
LEMMA OneMoreCall ==
    ASSUME NEW m \in Msgs, ~IsTool(m), NEW c \in Nat, \A k \in 1..Len(m.calls) : m.calls[k] # c
    PROVE  LET r == [m EXCEPT !.calls = Append(@, c)]
           IN  r \in Msgs /\ r.calls = Append(m.calls, c)
<1> DEFINE r == [m EXCEPT !.calls = Append(@, c)]
           d == Append(m.calls, c)
<1>1. m \in MsgRec /\ m.calls \in Seq(Nat) /\ Once(m.calls)
  BY DEF Msgs, MsgRec
<1>2. d \in Seq(Nat) /\ Once(d)
  <2> DEFINE n == Len(m.calls)
  <2>1. /\ d \in Seq(Nat) /\ Len(d) = n + 1 /\ n \in Nat /\ DOMAIN d = 1..(n + 1)
        /\ d[n + 1] = c /\ \A k \in 1..n : d[k] = m.calls[k]
        /\ DOMAIN m.calls = 1..n
    BY <1>1
  <2> HIDE DEF d, n
  <2>2. \A a \in DOMAIN d : a \in 1..n \/ a = n + 1
    BY <2>1
  <2>3. \A k \in 1..n : d[k] # c
    BY <2>1 DEF n
  <2>4. \A a, b \in 1..n : d[a] = d[b] => a = b
    BY <1>1, <2>1 DEF Once
  <2> QED
    BY <2>1, <2>2, <2>3, <2>4 DEF Once
<1> HIDE DEF d
<1>3. r \in MsgRec /\ r.calls = d /\ r.role = m.role
  BY <1>1, <1>2 DEF MsgRec, d
<1> HIDE DEF r
<1>4. ~IsTool(r)
  BY <1>3 DEF IsTool
<1>5. r \in Msgs
  BY <1>2, <1>3, <1>4 DEF Msgs
<1> QED
  BY <1>3, <1>5 DEF r, d

LEMMA LegacyReplays == \A evs \in Seq(EvSet) : LegacyHolds(evs)
<1>1. LegacyHolds(<<>>)
  <2>1. LegacyFold(<<>>) = <<>>
    BY Legacy!FoldEmpty, LegacyIsFold
  <2>2. <<>> \in Seq(Msgs) /\ 1..Len(<<>>) = {}
    OBVIOUS
  <2> QED
    BY <2>1, <2>2, Zenon DEF LegacyHolds
<1>2. ASSUME NEW evs \in Seq(EvSet), NEW e \in EvSet, LegacyHolds(evs)
      PROVE  LegacyHolds(Append(evs, e))
  <2> DEFINE u == Append(evs, e)
             s == LegacyFold(evs)
             t == LegacyFold(u)
  <2> SUFFICES ASSUME LogOK(u) PROVE t \in Seq(Msgs) /\ \A n \in 1..Len(t) : CallsFrom(u, t[n])
    BY DEF LegacyHolds
  <2>1. /\ LogOK(evs) /\ \A j \in 1..Len(evs) : PairOK(evs[j], e)
        /\ Len(u) = Len(evs) + 1 /\ Len(evs) \in Nat /\ u[Len(evs) + 1] = e
        /\ \A j \in 1..Len(evs) : u[j] = evs[j]
    BY LogAppend
  <2>2. s \in Seq(Msgs) /\ \A n \in 1..Len(s) : CallsFrom(evs, s[n])
    BY <1>2, <2>1 DEF LegacyHolds
  <2>3. t = LegacyStep(s, e)
    <3>1. Legacy!Folded(Append(evs, e)) = LegacyStep(Legacy!Folded(evs), e)
      BY Legacy!FoldAppend
    <3> QED
      BY <3>1, LegacyIsFold
  <2> HIDE DEF s, t, u
  <2>4. /\ \A j \in 1..Len(evs) : j \in 1..Len(u)
        /\ Len(evs) + 1 \in 1..Len(u)
    BY <2>1
  <2>5. ASSUME NEW m, CallsFrom(evs, m) PROVE CallsFrom(u, m)
    BY <2>1, <2>4, <2>5 DEF CallsFrom
  <2>6. e.id \in Nat
    BY DEF EvSet
  <2>7. ASSUME NEW m \in Msgs, CallsFrom(u, m), t = Append(s, m)
        PROVE  t \in Seq(Msgs) /\ \A n \in 1..Len(t) : CallsFrom(u, t[n])
    <3>1. t \in Seq(Msgs) /\ Len(t) = Len(s) + 1 /\ Len(s) \in Nat /\ t[Len(s) + 1] = m
          /\ \A n \in 1..Len(s) : t[n] = s[n]
      BY <2>2, <2>7
    <3>2. \A n \in 1..Len(t) : n \in 1..Len(s) \/ n = Len(s) + 1
      BY <3>1
    <3> QED
      BY <2>2, <2>5, <2>7, <3>1, <3>2
  <2>8. ASSUME NEW m \in Msgs, m.calls = <<>> PROVE CallsFrom(u, m)
    BY <2>8 DEF CallsFrom
  <2>9. CASE e.k = "user"
    <3>1. t = Append(s, Message("user", e.id, <<>>))
      BY <2>3, <2>9 DEF LegacyStep
    <3> QED
      BY <2>6, <2>7, <2>8, <3>1, BareMessageIs DEF Roles
  <2>10. CASE e.k = "think"
    <3>1. t = Append(s, Message("asst", e.id, <<>>))
      BY <2>3, <2>10 DEF LegacyStep
    <3> QED
      BY <2>6, <2>7, <2>8, <3>1, BareMessageIs DEF Roles
  <2>11. CASE e.k = "result"
    <3>1. t = Append(s, Message("tool", e.id, <<>>))
      BY <2>3, <2>11 DEF LegacyStep
    <3> QED
      BY <2>6, <2>7, <2>8, <3>1, BareMessageIs DEF Roles
  <2>12. CASE e.k = "call" /\ s # <<>> /\ Last(s).role = "asst"
    <3> DEFINE n == Len(s)
    <3>1. n \in DOMAIN s /\ s[n] \in Msgs /\ s[n].role = "asst" /\ n \in 1..Len(s) /\ DOMAIN s = 1..Len(s)
      BY <2>2, <2>12 DEF Last
    <3>2. t = [s EXCEPT ![n].calls = Append(@, e.id)]
      BY <2>3, <2>12 DEF LegacyStep
    <3> HIDE DEF n
    <3> DEFINE r == [s[n] EXCEPT !.calls = Append(@, e.id)]
    <3>3. CallsFrom(evs, s[n])
      BY <2>2, <3>1
    <3>4. \A k \in 1..Len(s[n].calls) : s[n].calls[k] # e.id
      BY <2>1, <2>12, <3>3 DEF CallsFrom, PairOK
    <3>5. r \in Msgs /\ r.calls = Append(s[n].calls, e.id)
      BY <2>6, <3>1, <3>4, OneMoreCall DEF IsTool
    <3>6. t = [s EXCEPT ![n] = r]
      BY <3>2
    <3> HIDE DEF r
    <3>7. /\ t \in Seq(Msgs) /\ Len(t) = Len(s) /\ t[n] = r
          /\ \A a \in 1..Len(s) : a # n => t[a] = s[a]
      BY <2>2, <3>1, <3>5, <3>6
    <3>8. CallsFrom(u, r)
      <4>1. s[n].calls \in Seq(Nat)
        BY <3>1, CallsOfMsg
      <4>2. ASSUME NEW k \in 1..Len(r.calls)
            PROVE  \E j \in 1..Len(u) : u[j].k = "call" /\ u[j].id = r.calls[k]
        <5>1. (k \in 1..Len(s[n].calls) /\ r.calls[k] = s[n].calls[k]) \/ r.calls[k] = e.id
          BY <2>6, <3>5, <4>1, <4>2
        <5> QED
          BY <2>1, <2>4, <2>12, <3>3, <5>1 DEF CallsFrom
      <4> QED
        BY <4>2 DEF CallsFrom
    <3> QED
      BY <2>2, <2>5, <3>7, <3>8
  <2>13. CASE e.k = "call" /\ ~(s # <<>> /\ Last(s).role = "asst")
    <3> DEFINE m == Message("asst", 0, <<e.id>>)
    <3>1. t = Append(s, m)
      BY <2>3, <2>13 DEF LegacyStep
    <3>2. PICK l : l = <<e.id>>
      OBVIOUS
    <3>5. l \in Seq(Nat) /\ Len(l) = 1 /\ l[1] = e.id /\ DOMAIN l = 1..1
      BY <2>6, <3>2
    <3>6. Once(l)
      BY <3>5 DEF Once
    <3>7. "asst" \in Roles /\ "asst" \notin {"tool", "lost"} /\ 0 \in Nat
      BY DEF Roles
    <3>3. m \in Msgs /\ m.calls = l
      <4>1. Message("asst", 0, l) \in Msgs /\ Message("asst", 0, l).calls = l
        BY <3>5, <3>6, <3>7, MessageIs
      <4> QED
        BY <3>2, <4>1, Zenon
    <3> HIDE DEF m
    <3>4. CallsFrom(u, m)
      <4>1. \A k \in 1..Len(l) : l[k] = e.id
        BY <3>5
      <4>2. u[Len(evs) + 1].k = "call" /\ u[Len(evs) + 1].id = e.id
        BY <2>1, <2>13
      <4> QED
        BY <2>4, <3>3, <4>1, <4>2, Zenon DEF CallsFrom
    <3> QED
      BY <2>7, <3>1, <3>3, <3>4
  <2>14. CASE e.k \notin {"user", "think", "call", "result"}
    <3>1. t = s
      BY <2>3, <2>14 DEF LegacyStep
    <3> QED
      BY <2>2, <2>5, <3>1
  <2> QED
    BY <2>9, <2>10, <2>11, <2>12, <2>13, <2>14
<1> QED
  BY <1>1, <1>2, Legacy!SequencesByAppend

LEMMA LegacyReplayIs == ASSUME NEW evs, LogOK(evs) PROVE LegacyReplay(evs) \in Seq(Msgs)
<1>1. evs \in Seq(EvSet)
  BY DEF LogOK
<1>2. LegacyFold(evs) \in Seq(Msgs)
  BY <1>1, LegacyReplays DEF LegacyHolds
<1> QED
  BY <1>2, LegalizeIs DEF LegacyReplay, LegacyFold

-----------------------------------------------------------------------------
(* The entries of a replay: messages with the index they are from.         *)

EntrySet == [i : Nat, m : Msgs]
Bare(es) == [n \in DOMAIN es |-> es[n].m]

LEMMA BareIs ==
    ASSUME NEW es \in Seq(EntrySet)
    PROVE  /\ Bare(es) \in Seq(Msgs) /\ Len(Bare(es)) = Len(es) /\ Len(es) \in Nat
           /\ \A n \in 1..Len(es) : Bare(es)[n] = es[n].m /\ es[n] \in EntrySet /\ es[n].m \in Msgs
<1>1. Len(es) \in Nat /\ DOMAIN es = 1..Len(es) /\ \A n \in 1..Len(es) : es[n] \in EntrySet
  OBVIOUS
<1>2. \A n \in 1..Len(es) : es[n].m \in Msgs
  BY <1>1 DEF EntrySet
<1>3. Bare(es) = [n \in 1..Len(es) |-> es[n].m]
  BY <1>1 DEF Bare
<1>4. Bare(es) = [n \in 1..Len(es) |-> Bare(es)[n]] /\ \A n \in 1..Len(es) : Bare(es)[n] = es[n].m
  BY <1>3
<1>5. Bare(es) \in Seq(Msgs) /\ Len(Bare(es)) = Len(es)
  BY <1>1, <1>2, <1>4, ListOf
<1> QED
  BY <1>1, <1>2, <1>4, <1>5

LEMMA BareConcat ==
    ASSUME NEW s \in Seq(EntrySet), NEW t \in Seq(EntrySet)
    PROVE  Bare(s \o t) = Bare(s) \o Bare(t)
<1> DEFINE u == s \o t
           v == Bare(s) \o Bare(t)
<1>1. /\ u \in Seq(EntrySet) /\ Len(u) = Len(s) + Len(t) /\ Len(s) \in Nat /\ Len(t) \in Nat
      /\ \A i \in 1..Len(s) : u[i] = s[i]
      /\ \A i \in 1..(Len(s) + Len(t)) : i \notin 1..Len(s) =>
           i - Len(s) \in 1..Len(t) /\ u[i] = t[i - Len(s)]
  BY ConcatIs
<1>2. Bare(s) \in Seq(Msgs) /\ Bare(t) \in Seq(Msgs) /\ Len(Bare(s)) = Len(s) /\ Len(Bare(t)) = Len(t)
  BY BareIs
<1>3. /\ v \in Seq(Msgs) /\ Len(v) = Len(s) + Len(t)
      /\ \A i \in 1..Len(s) : v[i] = Bare(s)[i]
      /\ \A i \in 1..(Len(s) + Len(t)) : i \notin 1..Len(s) => v[i] = Bare(t)[i - Len(s)]
  <2>1. PICK x \in Seq(Msgs) : x = Bare(s)
    BY <1>2
  <2>2. PICK y \in Seq(Msgs) : y = Bare(t)
    BY <1>2
  <2>3. Len(x) = Len(s) /\ Len(y) = Len(t)
    BY <1>2, <2>1, <2>2
  <2>4. /\ x \o y \in Seq(Msgs) /\ Len(x \o y) = Len(x) + Len(y)
        /\ \A i \in 1..Len(x) : (x \o y)[i] = x[i]
        /\ \A i \in 1..(Len(x) + Len(y)) : i \notin 1..Len(x) => (x \o y)[i] = y[i - Len(x)]
    OBVIOUS
  <2> QED
    BY <2>1, <2>2, <2>3, <2>4, Zenon
<1> HIDE DEF u, v
<1>4. Bare(u) \in Seq(Msgs) /\ Len(Bare(u)) = Len(u) /\ \A n \in 1..Len(u) : Bare(u)[n] = u[n].m
  BY <1>1, BareIs
<1>7. /\ \A n \in 1..Len(s) : Bare(s)[n] = s[n].m
      /\ \A n \in 1..Len(t) : Bare(t)[n] = t[n].m
  BY BareIs
<1>5. ASSUME NEW n \in 1..Len(u) PROVE Bare(u)[n] = v[n]
  <2>1. Bare(u)[n] = u[n].m
    BY <1>4
  <2>2. CASE n \in 1..Len(s)
    BY <1>1, <1>3, <1>7, <2>1, <2>2
  <2>3. CASE n \notin 1..Len(s)
    <3>1. n - Len(s) \in 1..Len(t) /\ u[n] = t[n - Len(s)] /\ v[n] = Bare(t)[n - Len(s)]
      BY <1>1, <1>3, <2>3
    <3> QED
      BY <1>7, <2>1, <3>1, Zenon
  <2> QED
    BY <2>2, <2>3
<1>6. Bare(u) = v
  BY <1>1, <1>3, <1>4, <1>5
<1> QED
  BY <1>6 DEF u, v

LEMMA BareAppend ==
    ASSUME NEW s \in Seq(EntrySet), NEW e \in EntrySet
    PROVE  Bare(Append(s, e)) = Append(Bare(s), e.m)
<1>1. /\ Append(s, e) \in Seq(EntrySet) /\ Len(Append(s, e)) = Len(s) + 1 /\ Len(s) \in Nat
      /\ Append(s, e)[Len(s) + 1] = e /\ \A i \in 1..Len(s) : Append(s, e)[i] = s[i]
  OBVIOUS
<1> DEFINE u == Bare(Append(s, e))
           v == Append(Bare(s), e.m)
<1>2. u \in Seq(Msgs) /\ Len(u) = Len(s) + 1 /\ \A n \in 1..(Len(s) + 1) : u[n] = Append(s, e)[n].m
  BY <1>1, BareIs
<1>3. Bare(s) \in Seq(Msgs) /\ Len(Bare(s)) = Len(s) /\ \A n \in 1..Len(s) : Bare(s)[n] = s[n].m
  BY BareIs
<1>4. e.m \in Msgs
  BY DEF EntrySet
<1>5. v \in Seq(Msgs) /\ Len(v) = Len(s) + 1 /\ v[Len(s) + 1] = e.m /\ \A n \in 1..Len(s) : v[n] = s[n].m
  BY <1>3, <1>4
<1> HIDE DEF u, v
<1>6. \A n \in 1..(Len(s) + 1) : n \in 1..Len(s) \/ n = Len(s) + 1
  BY <1>1
<1>7. \A n \in 1..(Len(s) + 1) : u[n] = v[n]
  BY <1>1, <1>2, <1>5, <1>6
<1>8. u = v
  BY <1>1, <1>2, <1>5, <1>7
<1> QED
  BY <1>8 DEF u, v

Telling == {"user", "think", "result"}
ItemOf(e) == <<e.k = "result", e.id>>

LEMMA ItemOfIs ==
    ASSUME NEW e
    PROVE  /\ e.k = "result" => ItemOf(e) = <<TRUE, e.id>>
           /\ e.k # "result" => ItemOf(e) = <<FALSE, e.id>>
<1>1. CASE e.k = "result"
  <2>1. (e.k = "result") = TRUE
    BY <1>1
  <2> QED
    BY <2>1 DEF ItemOf
<1>2. CASE e.k # "result"
  <2>1. (e.k = "result") = FALSE
    BY <1>2
  <2> QED
    BY <2>1 DEF ItemOf
<1> QED
  BY <1>1, <1>2

LEMMA ItemsDiffer ==
    ASSUME NEW a, NEW b
    PROVE  <<TRUE, a>> # <<FALSE, b>> /\ (<<FALSE, a>> = <<FALSE, b>> => a = b)
  OBVIOUS

LEMMA EventItemsAre ==
    ASSUME NEW evs, NEW x
    PROVE  x \in EventItems(evs) <=>
             \E j \in DOMAIN evs : evs[j].k \in Telling /\ x = ItemOf(evs[j])
  BY Zenon DEF EventItems, Telling, ItemOf

\* An entry stands for an event, and says only what one said.
FromLog(evs, en) ==
    /\ \E j \in 1..Len(evs) : evs[j].i = en.i /\ (evs[j].k = "user" => Plain(en.m))
    /\ Item(en.m) # Nothing =>
         \E j \in 1..Len(evs) : evs[j].k \in Telling /\ Item(en.m) = ItemOf(evs[j])

EntriesOK(evs, es) ==
    /\ es \in Seq(EntrySet) /\ Paired(Bare(es)) /\ InOrder(Bare(es))
    /\ \A n \in 1..Len(es) : FromLog(evs, es[n])

CallSet == [id : Nat, i : Nat]

RunOK(evs, run) ==
    /\ run \in [calls : Seq(CallSet), got : SUBSET Nat]
    /\ \A n \in 1..Len(run.calls) : \E j \in 1..Len(evs) :
         evs[j].k = "call" /\ evs[j].id = run.calls[n].id /\ evs[j].i = run.calls[n].i
    /\ \A a, b \in 1..Len(run.calls) : run.calls[a].id = run.calls[b].id => a = b
    /\ \A g \in run.got : /\ \E j \in 1..Len(evs) : evs[j].k = "result" /\ evs[j].id = g
                          /\ \E n \in 1..Len(run.calls) : run.calls[n].id = g

\* A compaction recorded later covers event j.
Covered(evs, j) ==
    \E b \in 1..Len(evs) : j < b /\ evs[b].k = "compact" /\ evs[j].i <= evs[b].upto

\* The list shows what event e said, in a message of its own if it is the user's.
Shown(es, e) ==
    \E n \in 1..Len(es) : Item(es[n].m) = ItemOf(e) /\ (e.k = "user" => es[n].i = e.i)

AllShown(evs, es, got) ==
    \A j \in 1..Len(evs) : evs[j].k \in Telling =>
        Covered(evs, j) \/ Shown(es, evs[j]) \/ (evs[j].k = "result" /\ evs[j].id \in got)

-----------------------------------------------------------------------------
(* One more event.                                                         *)

Extends(u, evs, e) ==
    /\ evs \in Seq(EvSet) /\ e \in EvSet /\ Len(evs) \in Nat
    /\ Len(u) = Len(evs) + 1 /\ u[Len(evs) + 1] = e
    /\ \A j \in 1..Len(evs) : u[j] = evs[j] /\ j \in 1..Len(u)
    /\ Len(evs) + 1 \in 1..Len(u)
    /\ \A j \in 1..Len(u) : j \in 1..Len(evs) \/ j = Len(evs) + 1

LEMMA StillFromLog ==
    ASSUME NEW u, NEW evs, NEW e, Extends(u, evs, e), NEW en, FromLog(evs, en)
    PROVE  FromLog(u, en)
  BY DEF FromLog, Extends

LEMMA StillEntries ==
    ASSUME NEW u, NEW evs, NEW e, Extends(u, evs, e), NEW es, EntriesOK(evs, es)
    PROVE  EntriesOK(u, es)
  BY StillFromLog DEF EntriesOK

LEMMA StillRun ==
    ASSUME NEW u, NEW evs, NEW e, Extends(u, evs, e), NEW run, RunOK(evs, run)
    PROVE  RunOK(u, run)
<1>1. /\ \A j \in 1..Len(evs) : u[j] = evs[j] /\ j \in 1..Len(u)
  BY DEF Extends
<1>2. \A n \in 1..Len(run.calls) : \E j \in 1..Len(u) :
         u[j].k = "call" /\ u[j].id = run.calls[n].id /\ u[j].i = run.calls[n].i
  <2> SUFFICES ASSUME NEW n \in 1..Len(run.calls)
               PROVE  \E j \in 1..Len(u) :
                        u[j].k = "call" /\ u[j].id = run.calls[n].id /\ u[j].i = run.calls[n].i
    OBVIOUS
  <2>1. PICK j \in 1..Len(evs) :
           evs[j].k = "call" /\ evs[j].id = run.calls[n].id /\ evs[j].i = run.calls[n].i
    BY Zenon DEF RunOK
  <2> QED
    BY <1>1, <2>1, Zenon
<1>3. \A g \in run.got : \E j \in 1..Len(u) : u[j].k = "result" /\ u[j].id = g
  <2> SUFFICES ASSUME NEW g \in run.got
               PROVE  \E j \in 1..Len(u) : u[j].k = "result" /\ u[j].id = g
    OBVIOUS
  <2>1. PICK j \in 1..Len(evs) : evs[j].k = "result" /\ evs[j].id = g
    BY Zenon DEF RunOK
  <2> QED
    BY <1>1, <2>1, Zenon
<1> QED
  BY <1>2, <1>3 DEF RunOK

\* What was shown is, if the event tells nothing itself and the entries stay.
LEMMA StillShown ==
    ASSUME NEW u, NEW evs, NEW e, Extends(u, evs, e), NEW es, NEW got, NEW more,
           AllShown(evs, es, got), got \subseteq more,
           e.k \in Telling => Shown(es, e) \/ (e.k = "result" /\ e.id \in more)
    PROVE  AllShown(u, es, more)
<1> SUFFICES ASSUME NEW j \in 1..Len(u), u[j].k \in Telling
             PROVE  Covered(u, j) \/ Shown(es, u[j]) \/ (u[j].k = "result" /\ u[j].id \in more)
  BY DEF AllShown
<1>1. CASE j \in 1..Len(evs)
  <2>1. u[j] = evs[j]
    BY <1>1 DEF Extends
  <2>2. Covered(evs, j) => Covered(u, j)
    <3>1. \A b \in 1..Len(evs) : u[b] = evs[b] /\ b \in 1..Len(u)
      BY DEF Extends
    <3> QED
      BY <2>1, <3>1 DEF Covered
  <2>3. Covered(evs, j) \/ Shown(es, evs[j]) \/ (evs[j].k = "result" /\ evs[j].id \in got)
    BY <1>1, <2>1 DEF AllShown
  <2> QED
    BY <2>1, <2>2, <2>3
<1>2. CASE j = Len(evs) + 1
  <2>1. u[j] = e
    BY <1>2 DEF Extends
  <2> QED
    BY <2>1
<1> QED
  BY <1>1, <1>2 DEF Extends

In(x, s) == \E n \in 1..Len(s) : s[n] = x

\* What a concatenation holds.
LEMMA JoinHas ==
    ASSUME NEW s \in Seq(EntrySet), NEW t \in Seq(EntrySet)
    PROVE  /\ s \o t \in Seq(EntrySet)
           /\ \A x : In(x, s \o t) <=> In(x, s) \/ In(x, t)
<1> DEFINE u == s \o t
<1>1. /\ u \in Seq(EntrySet) /\ Len(u) = Len(s) + Len(t) /\ Len(s) \in Nat /\ Len(t) \in Nat
      /\ \A i \in 1..Len(s) : u[i] = s[i]
      /\ \A i \in 1..Len(t) : u[Len(s) + i] = t[i]
      /\ \A i \in 1..(Len(s) + Len(t)) : i \notin 1..Len(s) =>
           i - Len(s) \in 1..Len(t) /\ u[i] = t[i - Len(s)]
  OBVIOUS
<1> HIDE DEF u
<1>2. /\ \A i \in 1..Len(s) : i \in 1..Len(u)
      /\ \A i \in 1..Len(t) : Len(s) + i \in 1..Len(u)
  BY <1>1
<1>3. ASSUME NEW x, In(x, u) PROVE In(x, s) \/ In(x, t)
  <2>1. PICK n \in 1..Len(u) : u[n] = x
    BY <1>3 DEF In
  <2>2. CASE n \in 1..Len(s)
    BY <1>1, <2>1, <2>2, Zenon DEF In
  <2>3. CASE n \notin 1..Len(s)
    <3>1. n - Len(s) \in 1..Len(t) /\ u[n] = t[n - Len(s)]
      BY <1>1, <2>3
    <3> QED
      BY <2>1, <3>1, Zenon DEF In
  <2> QED
    BY <2>2, <2>3
<1>4. ASSUME NEW x, In(x, s) \/ In(x, t) PROVE In(x, u)
  BY <1>1, <1>2, <1>4, Zenon DEF In
<1> QED
  BY <1>1, <1>3, <1>4 DEF u

LEMMA OneHas ==
    ASSUME NEW e \in EntrySet
    PROVE  <<e>> \in Seq(EntrySet) /\ (\A x : In(x, <<e>>) <=> x = e) /\ Bare(<<e>>) = <<e.m>>
<1>1. <<e>> \in Seq(EntrySet) /\ Len(<<e>>) = 1 /\ <<e>>[1] = e /\ DOMAIN <<e>> = 1..1
  OBVIOUS
<1>2. \A x : In(x, <<e>>) <=> x = e
  BY <1>1 DEF In
<1>3. Bare(<<e>>) = <<e.m>>
  BY <1>1 DEF Bare
<1> QED
  BY <1>1, <1>2, <1>3

\* Messages that say nothing do not disturb the order.
LEMMA InOrderConcat ==
    ASSUME NEW s \in Seq(Msgs), NEW t \in Seq(Msgs), InOrder(s), \A n \in 1..Len(t) : ~Says(t[n])
    PROVE  InOrder(s \o t)
<1> DEFINE u == s \o t
<1>1. /\ Len(u) = Len(s) + Len(t) /\ Len(s) \in Nat /\ Len(t) \in Nat
      /\ \A i \in 1..Len(s) : u[i] = s[i]
      /\ \A i \in 1..(Len(s) + Len(t)) : i \notin 1..Len(s) =>
           i - Len(s) \in 1..Len(t) /\ u[i] = t[i - Len(s)]
  BY ConcatIs
<1> HIDE DEF u
<1>2. \A i \in 1..Len(u) : Says(u[i]) => i \in 1..Len(s) /\ u[i] = s[i]
  BY <1>1, Zenon
<1> SUFFICES ASSUME NEW a \in 1..Len(u), NEW b \in 1..Len(u), a < b, Says(u[a]), Says(u[b])
             PROVE  u[a].id < u[b].id
  BY DEF InOrder, u
<1>3. a \in 1..Len(s) /\ b \in 1..Len(s) /\ u[a] = s[a] /\ u[b] = s[b]
  BY <1>2
<1> QED
  BY <1>3 DEF InOrder

-----------------------------------------------------------------------------
(* FlushToolRun.                                                           *)

LEMMA FlushIs ==
    ASSUME NEW evs, NEW s, EntriesOK(evs, s.msgs), RunOK(evs, s.run),
           AllShown(evs, s.msgs, s.run.got)
    PROVE  EntriesOK(evs, FlushToolRun(s)) /\ AllShown(evs, FlushToolRun(s), {})
<1> DEFINE c == s.run.calls
           F == FlushToolRun(s)
<1>1. /\ c \in Seq(CallSet) /\ s.run.got \subseteq Nat
      /\ s.msgs \in Seq(EntrySet)
  BY DEF RunOK, EntriesOK
<1>2. CASE c = <<>>
  <2>1. F = s.msgs
    BY <1>2 DEF FlushToolRun
  <2>2. 1..Len(c) = {}
    BY <1>2
  <2>3. s.run.got = {}
    BY <2>2 DEF RunOK
  <2> QED
    BY <2>1, <2>3
<1>3. CASE c # <<>>
  <2> DEFINE ids == [n \in DOMAIN c |-> c[n].id]
             m == Message("asst", 0, ids)
             a == [i |-> Last(c).i, m |-> m]
             R(n) == Message(IF c[n].id \in s.run.got THEN "tool" ELSE "lost", c[n].id, <<>>)
             ans == [n \in DOMAIN c |-> [i |-> c[n].i, m |-> R(n)]]
             grp == <<a>> \o ans
  <2>1. F = s.msgs \o <<a>> \o ans
    BY <1>3 DEF FlushToolRun
  <2>2. /\ Len(c) \in Nat /\ DOMAIN c = 1..Len(c) /\ Len(c) \in 1..Len(c)
        /\ \A n \in 1..Len(c) : c[n] \in CallSet /\ c[n].id \in Nat /\ c[n].i \in Nat
        /\ Last(c) = c[Len(c)]
    <3> HIDE DEF c
    <3>1. /\ Len(c) \in Nat /\ DOMAIN c = 1..Len(c) /\ Len(c) \in 1..Len(c)
          /\ \A n \in 1..Len(c) : c[n] \in CallSet
      BY <1>1, <1>3
    <3> QED
      BY <3>1 DEF Last, CallSet
  <2>3. \A x, y \in 1..Len(c) : c[x].id = c[y].id => x = y
    BY DEF RunOK
  <2>4. ids \in Seq(Nat) /\ Len(ids) = Len(c) /\ \A n \in 1..Len(c) : ids[n] = c[n].id
    <3>1. ids = [n \in 1..Len(c) |-> c[n].id]
      BY <2>2
    <3>2. ids = [n \in 1..Len(c) |-> ids[n]] /\ \A n \in 1..Len(c) : ids[n] = c[n].id
      BY <3>1
    <3> HIDE DEF ids, c
    <3>3. \A n \in 1..Len(c) : ids[n] \in Nat
      BY <2>2, <3>2
    <3> QED
      BY <2>2, <3>2, <3>3, ListOf
  <2> HIDE DEF ids, c
  <2>5. Once(ids)
    <3>1. DOMAIN ids = 1..Len(c)
      BY <2>4
    <3> QED
      BY <2>3, <2>4, <3>1 DEF Once
  <2>6. m \in Msgs /\ m.role = "asst" /\ m.id = 0 /\ m.calls = ids
    <3>1. "asst" \in Roles /\ "asst" \notin {"tool", "lost"} /\ 0 \in Nat
      BY DEF Roles
    <3> QED
      BY <2>4, <2>5, <3>1, MessageIs
  <2> HIDE DEF m
  <2>7. a \in EntrySet /\ a.m = m /\ a.i = c[Len(c)].i
    BY <2>2, <2>6 DEF EntrySet
  <2> HIDE DEF a
  <2>8. ASSUME NEW n \in 1..Len(c)
        PROVE  /\ R(n) \in Msgs /\ R(n).id = c[n].id /\ IsTool(R(n))
               /\ c[n].id \in s.run.got => R(n).role = "tool"
               /\ c[n].id \notin s.run.got => R(n).role = "lost"
    <3>1. c[n].id \in Nat /\ "tool" \in Roles /\ "lost" \in Roles
      BY <2>2 DEF Roles
    <3>2. /\ Message("tool", c[n].id, <<>>) \in Msgs /\ Message("tool", c[n].id, <<>>).id = c[n].id
          /\ Message("tool", c[n].id, <<>>).role = "tool"
      BY <3>1, BareMessageIs
    <3>3. /\ Message("lost", c[n].id, <<>>) \in Msgs /\ Message("lost", c[n].id, <<>>).id = c[n].id
          /\ Message("lost", c[n].id, <<>>).role = "lost"
      BY <3>1, BareMessageIs
    <3>4. CASE c[n].id \in s.run.got
      <4>1. R(n) = Message("tool", c[n].id, <<>>)
        BY <3>4
      <4> QED
        BY <3>2, <3>4, <4>1 DEF IsTool
    <3>5. CASE c[n].id \notin s.run.got
      <4>1. R(n) = Message("lost", c[n].id, <<>>)
        BY <3>5
      <4> QED
        BY <3>3, <3>5, <4>1 DEF IsTool
    <3> QED
      BY <3>4, <3>5
  <2> HIDE DEF R
  <2>9. /\ ans \in Seq(EntrySet) /\ Len(ans) = Len(c)
        /\ \A n \in 1..Len(c) : ans[n].m = R(n) /\ ans[n].i = c[n].i
    <3>1. ans = [n \in 1..Len(c) |-> [i |-> c[n].i, m |-> R(n)]]
      BY <2>2
    <3>2. \A n \in 1..Len(c) : ans[n].m = R(n) /\ ans[n].i = c[n].i
      BY <3>1
    <3>3. \A n \in 1..Len(c) : ans[n] \in EntrySet
      BY <2>2, <2>8, <3>1 DEF EntrySet
    <3>4. ans = [n \in 1..Len(c) |-> ans[n]]
      BY <3>1
    <3> HIDE DEF ans
    <3> QED
      BY <2>2, <3>2, <3>3, <3>4, ListOf
  <2> HIDE DEF ans
  <2>10. PICK one \in Seq(EntrySet) : /\ one = <<a>> /\ Bare(one) = <<m>>
                                       /\ \A x : In(x, one) <=> x = a
    BY <2>7, OneHas
  <2>25. grp = one \o ans
    BY <2>10
  <2>11. grp \in Seq(EntrySet) /\ \A x : In(x, grp) <=> x = a \/ In(x, ans)
    BY <2>9, <2>10, <2>25, JoinHas
  <2>12. F = s.msgs \o grp
    <3>1. PICK x \in Seq(EntrySet) : x = s.msgs
      BY <1>1
    <3>2. (x \o one) \o ans = x \o (one \o ans)
      BY <2>9, ConcatAssociative
    <3> QED
      BY <2>1, <2>10, <3>1, <3>2, Zenon
  <2>13. Bare(grp) = <<m>> \o Bare(ans)
    BY <2>9, <2>10, <2>25, BareConcat
  <2> HIDE DEF grp, F
  <2>14. Paired(Bare(grp)) /\ Opens(Bare(grp))
    <3>1. Bare(ans) \in Seq(Msgs) /\ Len(Bare(ans)) = Len(c) /\ \A n \in 1..Len(c) : Bare(ans)[n] = R(n)
      BY <2>9, BareIs
    <3>2. ~IsTool(m)
      BY <2>6 DEF IsTool
    <3>3. \A k \in 1..Len(Bare(ans)) : IsTool(Bare(ans)[k]) /\ Bare(ans)[k].id = m.calls[k]
      BY <2>4, <2>6, <2>8, <3>1
    <3>4. Len(Bare(ans)) = Len(m.calls)
      BY <2>4, <2>6, <3>1
    <3> QED
      BY <2>6, <2>13, <3>1, <3>2, <3>3, <3>4, GroupIsPaired
  <2>15. /\ Bare(F) = Bare(s.msgs) \o Bare(grp) /\ F \in Seq(EntrySet)
         /\ \A x : In(x, F) <=> In(x, s.msgs) \/ In(x, grp)
    BY <1>1, <2>11, <2>12, BareConcat, JoinHas
  <2>16. Paired(Bare(F))
    BY <2>14, <2>15, PairedConcat DEF EntriesOK
  <2>17. \A n \in 1..Len(grp) : ~Says(grp[n].m)
    <3>1. ~Says(m)
      BY <2>6 DEF Says
    <3>2. \A n \in 1..Len(c) : ~Says(R(n))
      BY <2>8 DEF Says
    <3>4. \A x : In(x, ans) => ~Says(x.m)
      BY <2>9, <3>2, Zenon DEF In
    <3>3. \A x : In(x, grp) => ~Says(x.m)
      BY <2>7, <2>11, <3>1, <3>4
    <3> QED
      BY <3>3, Zenon DEF In
  <2>18. InOrder(Bare(F))
    <3>1. Bare(grp) \in Seq(Msgs) /\ \A n \in 1..Len(Bare(grp)) : ~Says(Bare(grp)[n])
      BY <2>11, <2>17, BareIs
    <3>2. Bare(s.msgs) \in Seq(Msgs) /\ InOrder(Bare(s.msgs))
      BY <1>1, BareIs DEF EntriesOK
    <3> QED
      BY <2>15, <3>1, <3>2, InOrderConcat
  <2>19. FromLog(evs, a)
    <3>1. PICK j \in 1..Len(evs) : evs[j].k = "call" /\ evs[j].i = c[Len(c)].i
      BY <2>2 DEF RunOK, c
    <3>2. Item(m) = Nothing
      BY <2>6, ItemIs DEF Nothing
    <3> QED
      BY <2>7, <3>1, <3>2 DEF FromLog
  <2>20. ASSUME NEW n \in 1..Len(c) PROVE FromLog(evs, ans[n])
    <3>1. PICK j \in 1..Len(evs) : evs[j].k = "call" /\ evs[j].i = c[n].i
      BY DEF RunOK, c
    <3>2. CASE c[n].id \in s.run.got
      <4>1. PICK h \in 1..Len(evs) : evs[h].k = "result" /\ evs[h].id = c[n].id
        BY <3>2 DEF RunOK
      <4>2. Item(R(n)) = <<TRUE, c[n].id>>
        BY <2>8, <3>2, ItemIs
      <4>3. ItemOf(evs[h]) = <<TRUE, c[n].id>> /\ evs[h].k \in Telling
        BY <4>1, ItemOfIs DEF Telling
      <4> QED
        BY <2>9, <3>1, <4>2, <4>3 DEF FromLog
    <3>3. CASE c[n].id \notin s.run.got
      <4>1. Item(R(n)) = Nothing
        BY <2>8, <3>3, ItemIs
      <4> QED
        BY <2>9, <3>1, <4>1 DEF FromLog
    <3> QED
      BY <3>2, <3>3
  <2>22. ASSUME NEW n \in 1..Len(F) PROVE FromLog(evs, F[n])
    <3>1. \A x : In(x, s.msgs) => FromLog(evs, x)
      BY DEF EntriesOK, In
    <3>2. \A x : In(x, grp) => FromLog(evs, x)
      BY <2>9, <2>11, <2>19, <2>20 DEF In
    <3>3. In(F[n], F)
      BY DEF In
    <3> QED
      BY <2>15, <3>1, <3>2, <3>3
  <2>23. EntriesOK(evs, F)
    BY <2>15, <2>16, <2>18, <2>22 DEF EntriesOK
  <2>24. ASSUME NEW j \in 1..Len(evs), evs[j].k \in Telling
         PROVE  Covered(evs, j) \/ Shown(F, evs[j])
    <3>1. Covered(evs, j) \/ Shown(s.msgs, evs[j]) \/ (evs[j].k = "result" /\ evs[j].id \in s.run.got)
      BY <2>24 DEF AllShown
    <3>2. Shown(s.msgs, evs[j]) => Shown(F, evs[j])
      <4>1. \A h \in 1..Len(s.msgs) : \E n \in 1..Len(F) : F[n] = s.msgs[h]
        BY <2>15 DEF In
      <4> QED
        BY <4>1, Zenon DEF Shown
    <3>3. ASSUME evs[j].k = "result", evs[j].id \in s.run.got PROVE Shown(F, evs[j])
      <4>1. PICK n \in 1..Len(c) : c[n].id = evs[j].id
        BY <3>3 DEF RunOK, c
      <4>2. Item(R(n)) = <<TRUE, evs[j].id>> /\ ItemOf(evs[j]) = <<TRUE, evs[j].id>>
        BY <2>8, <3>3, <4>1, ItemIs, ItemOfIs
      <4>3. PICK k \in 1..Len(F) : F[k] = ans[n]
        <5>1. In(ans[n], ans)
          BY <2>9 DEF In
        <5>2. In(ans[n], F)
          BY <2>11, <2>15, <5>1
        <5> QED
          BY <5>2 DEF In
      <4>4. F[k].m = R(n) /\ evs[j].k # "user"
        BY <2>9, <3>3, <4>3
      <4> QED
        BY <4>2, <4>4 DEF Shown
    <3> QED
      BY <3>1, <3>2, <3>3
  <2> QED
    BY <2>23, <2>24 DEF AllShown, F
<1> QED
  BY <1>2, <1>3

-----------------------------------------------------------------------------
(* A message of its own.                                                   *)

\* Messages of t that say something are of s, in its order.
LEMMA InOrderBy ==
    ASSUME NEW s, NEW t, InOrder(s),
           \A a, b \in 1..Len(t) : a < b /\ Says(t[a]) /\ Says(t[b]) =>
              \E c, d \in 1..Len(s) : c < d /\ s[c] = t[a] /\ s[d] = t[b]
    PROVE  InOrder(t)
<1> SUFFICES ASSUME NEW a \in 1..Len(t), NEW b \in 1..Len(t), a < b, Says(t[a]), Says(t[b])
             PROVE  t[a].id < t[b].id
  BY DEF InOrder
<1>1. PICK c \in 1..Len(s), d \in 1..Len(s) : c < d /\ s[c] = t[a] /\ s[d] = t[b]
  OBVIOUS
<1>2. s[c].id < s[d].id
  BY <1>1 DEF InOrder
<1> QED
  BY <1>1, <1>2

LEMMA InOrderAppend ==
    ASSUME NEW s \in Seq(Msgs), NEW m \in Msgs, InOrder(s),
           \A n \in 1..Len(s) : Says(s[n]) /\ Says(m) => s[n].id < m.id
    PROVE  InOrder(Append(s, m))
<1> DEFINE u == Append(s, m)
<1>1. /\ Len(u) = Len(s) + 1 /\ Len(s) \in Nat /\ u[Len(s) + 1] = m
      /\ \A n \in 1..Len(s) : u[n] = s[n]
  OBVIOUS
<1> HIDE DEF u
<1>2. \A a, b \in 1..Len(u) : a < b => a \in 1..Len(s) /\ (b \in 1..Len(s) \/ b = Len(s) + 1)
  BY <1>1
<1> SUFFICES ASSUME NEW a \in 1..Len(u), NEW b \in 1..Len(u), a < b, Says(u[a]), Says(u[b])
             PROVE  u[a].id < u[b].id
  BY DEF InOrder, u
<1>3. CASE b \in 1..Len(s)
  <2>1. a \in 1..Len(s) /\ u[a] = s[a] /\ u[b] = s[b]
    BY <1>1, <1>2, <1>3
  <2> QED
    BY <1>3, <2>1 DEF InOrder
<1>4. CASE b = Len(s) + 1
  <2>1. a \in 1..Len(s) /\ u[a] = s[a] /\ u[b] = m
    BY <1>1, <1>2, <1>4
  <2> QED
    BY <2>1
<1> QED
  BY <1>2, <1>3, <1>4

LEMMA FlushedIs ==
    ASSUME NEW u, NEW evs, NEW e, Extends(u, evs, e), \A j \in 1..Len(evs) : PairOK(evs[j], e),
           NEW F, EntriesOK(evs, F), AllShown(evs, F, {}),
           NEW m \in Msgs, Plain(m), e.k \in Telling, Item(m) = ItemOf(e),
           Says(m) => m.id = e.id /\ e.k \in {"user", "think"}
    PROVE  LET G == Append(F, [i |-> e.i, m |-> m])
           IN  EntriesOK(u, G) /\ AllShown(u, G, {})
<1> DEFINE x == [i |-> e.i, m |-> m]
           G == Append(F, x)
<1>1. x \in EntrySet /\ x.i = e.i /\ x.m = m
  BY DEF EntrySet, Extends, EvSet
<1> HIDE DEF x
<1>2. F \in Seq(EntrySet)
  BY DEF EntriesOK
<1>3. Bare(G) = Append(Bare(F), m)
  BY <1>1, <1>2, BareAppend
<1>4. G = F \o <<x>>
  BY <1>1, <1>2, AppendIsConcat
<1>5. G \in Seq(EntrySet) /\ \A y : In(y, G) <=> In(y, F) \/ y = x
  <2>1. PICK one \in Seq(EntrySet) : one = <<x>> /\ \A y : In(y, one) <=> y = x
    BY <1>1, OneHas
  <2>2. G = F \o one
    BY <1>4, <2>1
  <2> HIDE DEF G
  <2> QED
    BY <1>2, <2>1, <2>2, JoinHas
<1> HIDE DEF G
<1>6. /\ Bare(F) \in Seq(Msgs) /\ Len(Bare(F)) = Len(F) /\ Len(F) \in Nat
      /\ \A n \in 1..Len(F) : Bare(F)[n] = F[n].m
  BY <1>2, BareIs
<1>7. Paired(Bare(G))
  <2>1. Append(Bare(F), m) = Bare(F) \o <<m>>
    BY <1>6, AppendIsConcat
  <2>2. Paired(<<m>>) /\ Opens(<<m>>)
    BY OnePlain
  <2> QED
    BY <1>3, <2>1, <2>2, PairedConcat DEF EntriesOK
<1>8. ASSUME NEW n \in 1..Len(F), Says(F[n].m), Says(m) PROVE F[n].m.id < m.id
  <2>1. Item(F[n].m) = <<FALSE, F[n].m.id>> /\ F[n].m.id # 0
    BY <1>8, ItemIs DEF Says
  <2>2. Item(F[n].m) # Nothing
    BY <2>1 DEF Nothing
  <2>3. PICK j \in 1..Len(evs) : evs[j].k \in Telling /\ Item(F[n].m) = ItemOf(evs[j])
    BY <2>2 DEF EntriesOK, FromLog
  <2>4. evs[j].k # "result"
    <3> SUFFICES ASSUME evs[j].k = "result" PROVE FALSE
      OBVIOUS
    <3>1. ItemOf(evs[j]) = <<TRUE, evs[j].id>>
      BY ItemOfIs
    <3>2. <<TRUE, evs[j].id>> # <<FALSE, F[n].m.id>>
      BY ItemsDiffer
    <3> QED
      BY <2>1, <2>3, <3>1, <3>2, Zenon
  <2>5. evs[j].id = F[n].m.id
    <3>1. ItemOf(evs[j]) = <<FALSE, evs[j].id>>
      BY <2>4, ItemOfIs
    <3> QED
      BY <2>1, <2>3, <3>1, ItemsDiffer, Zenon
  <2>6. evs[j].id < e.id
    BY <1>8, <2>3, <2>4 DEF PairOK, Telling
  <2> QED
    BY <1>8, <2>5, <2>6
<1>9. InOrder(Bare(G))
  <2>1. \A n \in 1..Len(Bare(F)) : Says(Bare(F)[n]) /\ Says(m) => Bare(F)[n].id < m.id
    BY <1>6, <1>8
  <2>2. InOrder(Bare(F))
    BY DEF EntriesOK
  <2> QED
    BY <1>3, <1>6, <2>1, <2>2, InOrderAppend
<1>10. FromLog(u, x)
  <2>1. u[Len(evs) + 1] = e /\ Len(evs) + 1 \in 1..Len(u)
    BY DEF Extends
  <2> QED
    BY <1>1, <2>1, Zenon DEF FromLog
<1>11. \A y : In(y, G) => FromLog(u, y)
  <2>1. \A y : In(y, F) => FromLog(evs, y)
    BY DEF EntriesOK, In
  <2> QED
    BY <1>5, <1>10, <2>1, StillFromLog
<1>12. EntriesOK(u, G)
  BY <1>5, <1>7, <1>9, <1>11 DEF EntriesOK, In
<1>13. \A ev : Shown(F, ev) => Shown(G, ev)
  <2>1. \A h \in 1..Len(F) : \E n \in 1..Len(G) : G[n] = F[h]
    BY <1>5 DEF In
  <2> QED
    BY <2>1, Zenon DEF Shown
<1>14. AllShown(evs, G, {})
  BY <1>13 DEF AllShown
<1>15. Shown(G, e)
  <2>1. PICK n \in 1..Len(G) : G[n] = x
    BY <1>5 DEF In
  <2> QED
    BY <1>1, <2>1, Zenon DEF Shown
<1>16. AllShown(u, G, {})
  BY <1>14, <1>15, StillShown
<1> QED
  BY <1>12, <1>16 DEF G, x

-----------------------------------------------------------------------------
(* ReplaceArchived.                                                        *)

LEMMA PickedHas ==
    ASSUME NEW T, NEW s \in Seq(T), NEW K \in SUBSET DOMAIN s
    PROVE  /\ Picked(s, K) \in Seq(T)
           /\ \A k \in 1..Len(Picked(s, K)) : \E c \in K : Picked(s, K)[k] = s[c]
           /\ \A c \in K : \E k \in 1..Len(Picked(s, K)) : Picked(s, K)[k] = s[c]
           /\ \A a, b \in 1..Len(Picked(s, K)) : a < b =>
                \E c, d \in K : c < d /\ Picked(s, K)[a] = s[c] /\ Picked(s, K)[b] = s[d]
<1> DEFINE p == Picked(s, K)
           n == Cardinality(K)
<1>1. /\ p \in Seq(T) /\ Len(p) = n
      /\ Order(K) \in [1..n -> K]
      /\ \A a, b \in 1..n : a < b => Order(K)[a] < Order(K)[b]
      /\ \A x \in K : \E k \in 1..n : Order(K)[k] = x
      /\ p = [k \in 1..n |-> s[Order(K)[k]]]
  BY PickedIs
<1> HIDE DEF p, n
<1>2. \A k \in 1..n : p[k] = s[Order(K)[k]] /\ Order(K)[k] \in K
  BY <1>1
<1>3. \A k \in 1..Len(p) : \E c \in K : p[k] = s[c]
  BY <1>1, <1>2
<1>4. \A c \in K : \E k \in 1..Len(p) : p[k] = s[c]
  BY <1>1, <1>2
<1>5. \A a, b \in 1..Len(p) : a < b => \E c, d \in K : c < d /\ p[a] = s[c] /\ p[b] = s[d]
  BY <1>1, <1>2
<1> QED
  BY <1>1, <1>3, <1>4, <1>5 DEF p

LEMMA InsertIs ==
    ASSUME NEW s \in Seq(EntrySet), NEW x \in EntrySet, NEW p \in Nat, p >= 1, p <= Len(s) + 1
    PROVE  LET g == SubSeq(s, 1, p - 1) \o <<x>> \o SubSeq(s, p, Len(s))
           IN  /\ g \in Seq(EntrySet) /\ Len(g) = Len(s) + 1
               /\ \A n \in 1..Len(g) : \/ n < p /\ n \in 1..Len(s) /\ g[n] = s[n]
                                       \/ n = p /\ g[n] = x
                                       \/ n > p /\ n - 1 \in 1..Len(s) /\ g[n] = s[n - 1]
               /\ \A n \in 1..Len(s) : \E k \in 1..Len(g) : g[k] = s[n]
               /\ p \in 1..Len(g) /\ g[p] = x
<1> DEFINE l == SubSeq(s, 1, p - 1)
           r == SubSeq(s, p, Len(s))
           lx == l \o <<x>>
           g == lx \o r
<1>1. Len(s) \in Nat /\ p - 1 \in Nat
  OBVIOUS
<1>2. l \in Seq(EntrySet) /\ Len(l) = p - 1 /\ \A n \in 1..(p - 1) : l[n] = s[n]
  BY <1>1
<1>3. /\ r \in Seq(EntrySet) /\ Len(r) = (Len(s) - p) + 1
      /\ \A n \in 1..((Len(s) - p) + 1) : r[n] = s[(n + p) - 1]
  BY <1>1
<1> HIDE DEF l, r
<1>4. lx \in Seq(EntrySet) /\ Len(lx) = p /\ (\A n \in 1..(p - 1) : lx[n] = l[n]) /\ lx[p] = x
  BY <1>1, <1>2
<1> HIDE DEF lx
<1>5. /\ g \in Seq(EntrySet) /\ Len(g) = p + Len(r)
      /\ \A n \in 1..p : g[n] = lx[n]
      /\ \A n \in 1..Len(g) : n > p => g[n] = r[n - p]
  <2>1. /\ g \in Seq(EntrySet) /\ Len(g) = Len(lx) + Len(r)
        /\ \A n \in 1..Len(lx) : g[n] = lx[n]
        /\ \A n \in 1..Len(g) : n > Len(lx) => g[n] = r[n - Len(lx)]
    BY <1>3, <1>4
  <2> QED
    BY <1>4, <2>1, Zenon
<1> HIDE DEF g
<1>6. Len(g) = Len(s) + 1
  BY <1>1, <1>3, <1>5
<1>7. ASSUME NEW n \in 1..Len(g)
      PROVE  \/ n < p /\ n \in 1..Len(s) /\ g[n] = s[n]
             \/ n = p /\ g[n] = x
             \/ n > p /\ n - 1 \in 1..Len(s) /\ g[n] = s[n - 1]
  <2>1. CASE n < p
    <3>1. n \in 1..(p - 1) /\ n \in 1..p /\ n \in 1..Len(s)
      BY <1>1, <1>6, <2>1
    <3> QED
      BY <1>2, <1>4, <1>5, <2>1, <3>1
  <2>2. CASE n = p
    <3>1. p \in 1..p
      BY <1>1
    <3> QED
      BY <1>4, <1>5, <2>2, <3>1
  <2>3. CASE n > p
    <3>1. n - p \in 1..((Len(s) - p) + 1) /\ ((n - p) + p) - 1 = n - 1 /\ n - 1 \in 1..Len(s)
      BY <1>1, <1>6, <2>3
    <3>2. g[n] = r[n - p] /\ r[n - p] = s[((n - p) + p) - 1]
      BY <1>3, <1>5, <2>3, <3>1
    <3> QED
      BY <2>3, <3>1, <3>2
  <2>4. n < p \/ n = p \/ n > p
    BY <1>1
  <2> QED
    BY <2>1, <2>2, <2>3, <2>4
<1>8. ASSUME NEW n \in 1..Len(s) PROVE \E k \in 1..Len(g) : g[k] = s[n]
  <2>1. CASE n < p
    <3>1. n \in 1..Len(g) /\ ~(n = p) /\ ~(n > p)
      BY <1>1, <1>6, <2>1
    <3> QED
      BY <1>7, <3>1
  <2>2. CASE n >= p
    <3>1. n + 1 \in 1..Len(g) /\ ~(n + 1 < p) /\ ~(n + 1 = p) /\ (n + 1) - 1 = n
      BY <1>1, <1>6, <2>2
    <3>2. g[n + 1] = s[(n + 1) - 1]
      BY <1>7, <3>1
    <3> QED
      BY <3>1, <3>2
  <2> QED
    BY <1>1, <2>1, <2>2
<1>9. p \in 1..Len(g) /\ g[p] = x
  <2>1. p \in 1..Len(g) /\ p \in 1..p
    BY <1>1, <1>6
  <2> QED
    BY <1>4, <1>5, <2>1
<1> QED
  BY <1>5, <1>6, <1>7, <1>8, <1>9 DEF g, lx, l, r

LEMMA FirstIs ==
    ASSUME NEW I \in SUBSET Nat
    PROVE  (IF I # {} THEN Min(I) ELSE 0) \in Nat
<1>1. I # {} => Min(I) \in I
  BY Nats!LeastNat DEF Min
<1> QED
  BY <1>1

LEMMA ReplaceArchivedIs ==
    ASSUME NEW u, NEW evs, NEW e, Extends(u, evs, e), \A j \in 1..Len(evs) : PairOK(evs[j], e),
           NEW F, EntriesOK(evs, F), AllShown(evs, F, {}), e.k = "compact"
    PROVE  LET G == ReplaceArchived(F, e.upto, e.i, Summary(e.of))
           IN  EntriesOK(u, G) /\ AllShown(u, G, {})
<1> DEFINE covered(en) == en.i <= e.upto
           K == {j \in DOMAIN F : ~covered(F[j])}
           kept == Picked(F, K)
           first == SelectInSeq(F, covered)
           place == IF first = 0 \/ first > Len(kept) + 1 THEN Len(kept) + 1 ELSE first
           x == [i |-> e.i, m |-> Summary(e.of)]
           G == SubSeq(kept, 1, place - 1) \o <<x>> \o SubSeq(kept, place, Len(kept))
<1>1. ReplaceArchived(F, e.upto, e.i, Summary(e.of)) = G
  BY DEF ReplaceArchived
<1>2. /\ F \in Seq(EntrySet) /\ e.i \in Nat /\ e.upto \in Nat /\ e.of \in SUBSET ItemSet
      /\ \A j \in 1..Len(F) : F[j].i \in Nat /\ F[j] \in EntrySet
      /\ DOMAIN F = 1..Len(F)
  <2>1. F \in Seq(EntrySet) /\ e \in EvSet
    BY DEF EntriesOK, Extends
  <2>2. DOMAIN F = 1..Len(F) /\ \A j \in 1..Len(F) : F[j] \in EntrySet
    BY <2>1
  <2> QED
    BY <2>1, <2>2 DEF EvSet, EntrySet
<1>3. Summary(e.of) \in Msgs /\ Plain(Summary(e.of)) /\ ~Says(Summary(e.of)) /\ Item(Summary(e.of)) = Nothing
  <2>1. /\ Summary(e.of).role = "sum" /\ Summary(e.of).id = 0 /\ Summary(e.of).calls = <<>>
        /\ Summary(e.of) \in MsgRec
    BY <1>2 DEF Summary, MsgRec, Roles
  <2>2. Once(<<>>)
    BY DEF Once
  <2> QED
    BY <2>1, <2>2, ItemIs DEF Msgs, Plain, IsTool, Says, Nothing
<1>4. x \in EntrySet /\ x.i = e.i /\ x.m = Summary(e.of)
  BY <1>2, <1>3 DEF EntrySet
<1> HIDE DEF x
<1>5. K \in SUBSET DOMAIN F /\ \A j \in K : j \in 1..Len(F) /\ F[j].i > e.upto
  BY <1>2
<1>6. \A j \in 1..Len(F) : F[j].i > e.upto => j \in K
  BY <1>2
<1> HIDE DEF K
<1>7. /\ kept \in Seq(EntrySet)
      /\ \A k \in 1..Len(kept) : \E c \in K : kept[k] = F[c]
      /\ \A c \in K : \E k \in 1..Len(kept) : kept[k] = F[c]
      /\ \A a, b \in 1..Len(kept) : a < b =>
           \E c, d \in K : c < d /\ kept[a] = F[c] /\ kept[b] = F[d]
  BY <1>2, <1>5, PickedHas
<1> HIDE DEF kept
<1>8. place \in Nat /\ place >= 1 /\ place <= Len(kept) + 1
  <2>1. Len(kept) \in Nat
    BY <1>7
  <2> DEFINE I == {i \in 1..Len(F) : covered(F[i])}
  <2>2. first = IF I # {} THEN Min(I) ELSE 0
    BY DEF SelectInSeq
  <2>3. I \in SUBSET Nat
    OBVIOUS
  <2> HIDE DEF I, first
  <2>4. first \in Nat
    BY <2>2, <2>3, FirstIs
  <2> QED
    BY <2>1, <2>4
<1> HIDE DEF place, first, covered
<1>9. /\ G \in Seq(EntrySet) /\ Len(G) = Len(kept) + 1
      /\ \A n \in 1..Len(G) : \/ n < place /\ n \in 1..Len(kept) /\ G[n] = kept[n]
                              \/ n = place /\ G[n] = x
                              \/ n > place /\ n - 1 \in 1..Len(kept) /\ G[n] = kept[n - 1]
      /\ \A n \in 1..Len(kept) : \E k \in 1..Len(G) : G[k] = kept[n]
      /\ place \in 1..Len(G) /\ G[place] = x
  BY <1>4, <1>7, <1>8, InsertIs, ZenonT(40)
<1> HIDE DEF G
<1>10. \A n \in 1..Len(G) : G[n] = x \/ \E c \in K : G[n] = F[c]
  <2> SUFFICES ASSUME NEW n \in 1..Len(G), G[n] # x PROVE \E c \in K : G[n] = F[c]
    OBVIOUS
  <2>1. \E k \in 1..Len(kept) : G[n] = kept[k]
    BY <1>9
  <2> QED
    BY <1>7, <2>1
<1>11. \A c \in K : FromLog(evs, F[c])
  BY <1>5 DEF EntriesOK
<1>12. ASSUME NEW c \in K PROVE Plain(F[c].m)
  <2>1. PICK j \in 1..Len(evs) : evs[j].i = F[c].i /\ (evs[j].k = "user" => Plain(F[c].m))
    BY <1>11 DEF FromLog
  <2>2. evs[j].i > e.upto
    BY <1>5, <2>1
  <2>3. evs[j].k = "user"
    BY <2>2 DEF PairOK
  <2> QED
    BY <2>1, <2>3
<1>13. \A n \in 1..Len(G) : Plain(G[n].m)
  BY <1>3, <1>4, <1>10, <1>12
<1>14. /\ Bare(G) \in Seq(Msgs) /\ Len(Bare(G)) = Len(G) /\ Len(G) \in Nat
       /\ \A n \in 1..Len(G) : Bare(G)[n] = G[n].m
  BY <1>9, BareIs
<1>15. Paired(Bare(G))
  BY <1>13, <1>14, PlainIsPaired
<1>16. InOrder(Bare(G))
  <2>1. InOrder(Bare(F)) /\ Len(Bare(F)) = Len(F) /\ \A n \in 1..Len(F) : Bare(F)[n] = F[n].m
    BY <1>2, BareIs DEF EntriesOK
  <2>2. ASSUME NEW a \in 1..Len(G), NEW b \in 1..Len(G), a < b, Says(G[a].m), Says(G[b].m)
        PROVE  \E c, d \in 1..Len(kept) : c < d /\ G[a] = kept[c] /\ G[b] = kept[d]
    <3>1. G[a] # x /\ G[b] # x
      BY <1>3, <1>4, <2>2
    <3>2. \/ a < place /\ a \in 1..Len(kept) /\ G[a] = kept[a]
          \/ a > place /\ a - 1 \in 1..Len(kept) /\ G[a] = kept[a - 1]
      BY <1>9, <3>1
    <3>3. \/ b < place /\ b \in 1..Len(kept) /\ G[b] = kept[b]
          \/ b > place /\ b - 1 \in 1..Len(kept) /\ G[b] = kept[b - 1]
      BY <1>9, <3>1
    <3>4. CASE b < place
      <4>1. a < place
        BY <1>8, <1>14, <2>2, <3>4
      <4>2. ~(a > place) /\ ~(b > place)
        BY <1>8, <1>14, <3>4, <4>1
      <4> QED
        BY <2>2, <3>2, <3>3, <4>2
    <3>5. CASE b > place /\ a < place
      <4>1. ~(b < place) /\ ~(a > place) /\ a < b - 1
        BY <1>8, <1>14, <3>5
      <4> QED
        BY <3>2, <3>3, <4>1
    <3>6. CASE b > place /\ a > place
      <4>1. ~(b < place) /\ ~(a < place) /\ a - 1 < b - 1
        BY <1>8, <1>14, <2>2, <3>6
      <4> QED
        BY <3>2, <3>3, <4>1
    <3> QED
      BY <3>2, <3>3, <3>4, <3>5, <3>6
  <2>3. ASSUME NEW a \in 1..Len(Bare(G)), NEW b \in 1..Len(Bare(G)), a < b,
               Says(Bare(G)[a]), Says(Bare(G)[b])
        PROVE  \E c, d \in 1..Len(Bare(F)) :
                  c < d /\ Bare(F)[c] = Bare(G)[a] /\ Bare(F)[d] = Bare(G)[b]
    <3>1. Says(G[a].m) /\ Says(G[b].m) /\ a \in 1..Len(G) /\ b \in 1..Len(G)
      BY <1>14, <2>3
    <3>2. PICK c1 \in 1..Len(kept), d1 \in 1..Len(kept) : c1 < d1 /\ G[a] = kept[c1] /\ G[b] = kept[d1]
      BY <2>2, <2>3, <3>1
    <3>3. PICK c \in K, d \in K : c < d /\ kept[c1] = F[c] /\ kept[d1] = F[d]
      BY <1>7, <3>2
    <3>4. c \in 1..Len(F) /\ d \in 1..Len(F)
      BY <1>5
    <3>5. Bare(F)[c] = Bare(G)[a] /\ Bare(F)[d] = Bare(G)[b]
      BY <1>14, <2>1, <3>1, <3>2, <3>3, <3>4, Zenon
    <3> QED
      BY <2>1, <3>3, <3>4, <3>5
  <2> QED
    BY <2>1, <2>3, InOrderBy
<1>17. FromLog(u, x)
  <2>1. u[Len(evs) + 1] = e /\ Len(evs) + 1 \in 1..Len(u)
    BY DEF Extends
  <2>2. e.k # "user"
    OBVIOUS
  <2> QED
    BY <1>3, <1>4, <2>1, <2>2, Zenon DEF FromLog
<1>18. \A n \in 1..Len(G) : FromLog(u, G[n])
  BY <1>10, <1>11, <1>17, StillFromLog
<1>19. EntriesOK(u, G)
  BY <1>9, <1>15, <1>16, <1>18 DEF EntriesOK
<1>20. ASSUME NEW j \in 1..Len(u), u[j].k \in Telling
       PROVE  Covered(u, j) \/ Shown(G, u[j])
  <2>1. /\ \A h \in 1..Len(evs) : u[h] = evs[h] /\ h \in 1..Len(u)
        /\ u[Len(evs) + 1] = e /\ Len(evs) + 1 \in 1..Len(u) /\ Len(evs) \in Nat
        /\ \A h \in 1..Len(u) : h \in 1..Len(evs) \/ h = Len(evs) + 1
    BY DEF Extends
  <2>2. j # Len(evs) + 1
    BY <1>20, <2>1 DEF Telling
  <2>3. j \in 1..Len(evs) /\ u[j] = evs[j] /\ j < Len(evs) + 1
    BY <2>1, <2>2
  <2>4. Covered(evs, j) \/ Shown(F, evs[j])
    BY <1>20, <2>3 DEF AllShown
  <2>5. CASE Covered(evs, j)
    BY <2>1, <2>3, <2>5 DEF Covered
  <2>6. CASE evs[j].i <= e.upto
    BY <2>1, <2>3, <2>6 DEF Covered
  <2>7. CASE Shown(F, evs[j]) /\ ~(evs[j].i <= e.upto)
    <3>1. evs[j].i \in Nat
      <4>1. evs[j] \in EvSet
        BY <2>3 DEF Extends
      <4> QED
        BY <4>1 DEF EvSet
    <3>2. evs[j].i > e.upto
      BY <1>2, <2>7, <3>1
    <3>3. evs[j].k = "user"
      BY <2>3, <3>2 DEF PairOK
    <3>4. PICK n \in 1..Len(F) : Item(F[n].m) = ItemOf(evs[j]) /\ F[n].i = evs[j].i
      BY <2>7, <3>3 DEF Shown
    <3>5. n \in K
      BY <1>6, <3>2, <3>4
    <3>6. PICK k \in 1..Len(kept) : kept[k] = F[n]
      BY <1>7, <3>5
    <3>7. PICK h \in 1..Len(G) : G[h] = F[n]
      BY <1>9, <3>6
    <3> QED
      BY <2>3, <3>4, <3>7, Zenon DEF Shown
  <2> QED
    BY <2>4, <2>5, <2>6, <2>7
<1> QED
  BY <1>1, <1>19, <1>20 DEF AllShown

-----------------------------------------------------------------------------
(* The replay of a log.                                                    *)

ReplayState(evs) == FoldLeft(ReplayStep, [msgs |-> <<>>, run |-> NoRun], evs)

ReplayOK(evs, s) ==
    /\ EntriesOK(evs, s.msgs) /\ RunOK(evs, s.run) /\ AllShown(evs, s.msgs, s.run.got)
    /\ s = [msgs |-> s.msgs, run |-> s.run]

ReplayHolds(evs) == LogOK(evs) => ReplayOK(evs, ReplayState(evs))

Replays == INSTANCE SequenceFolds WITH Step <- ReplayStep, Base <- [msgs |-> <<>>, run |-> NoRun],
                                       P <- ReplayHolds

LEMMA ReplayIsFold == \A evs : Replays!Folded(evs) = ReplayState(evs)
  BY DEF ReplayState, FoldLeft, MapThenFoldSet, Max, Replays!Folded, Replays!FoldLeft,
         Replays!MapThenFoldSet, Replays!Max

LEMMA NoRunOK == ASSUME NEW evs PROVE RunOK(evs, NoRun) /\ NoRun.got = {}
<1>1. NoRun.calls = <<>> /\ NoRun.got = {} /\ NoRun \in [calls : Seq(CallSet), got : SUBSET Nat]
  BY DEF NoRun
<1>2. 1..Len(<<>>) = {}
  OBVIOUS
<1> QED
  BY <1>1, <1>2 DEF RunOK

\* Another call of the run.
LEMMA CallStep ==
    ASSUME NEW u, NEW evs, NEW e, Extends(u, evs, e), \A j \in 1..Len(evs) : PairOK(evs[j], e),
           NEW run, RunOK(evs, run), e.k = "call"
    PROVE  LET r == [run EXCEPT !.calls = Append(@, [id |-> e.id, i |-> e.i])]
           IN  RunOK(u, r) /\ r.got = run.got
<1> DEFINE x == [id |-> e.id, i |-> e.i]
           c == run.calls
           d == Append(c, x)
           r == [run EXCEPT !.calls = Append(@, x)]
<1>1. run \in [calls : Seq(CallSet), got : SUBSET Nat] /\ c \in Seq(CallSet)
  BY DEF RunOK
<1>2. x \in CallSet /\ x.id = e.id /\ x.i = e.i
  BY DEF CallSet, Extends, EvSet
<1> HIDE DEF x, c
<1>3. /\ d \in Seq(CallSet) /\ Len(d) = Len(c) + 1 /\ Len(c) \in Nat /\ d[Len(c) + 1] = x
      /\ \A n \in 1..Len(c) : d[n] = c[n]
  BY <1>1, <1>2
<1> HIDE DEF d
<1>4. r.calls = d /\ r.got = run.got /\ r \in [calls : Seq(CallSet), got : SUBSET Nat]
  BY <1>1, <1>3 DEF d, c
<1> HIDE DEF r
<1>5. \A n \in 1..Len(d) : n \in 1..Len(c) \/ n = Len(c) + 1
  BY <1>3
<1>6. /\ \A j \in 1..Len(evs) : u[j] = evs[j] /\ j \in 1..Len(u)
      /\ u[Len(evs) + 1] = e /\ Len(evs) + 1 \in 1..Len(u)
  BY DEF Extends
<1>7. \A n \in 1..Len(c) : \E j \in 1..Len(evs) :
         evs[j].k = "call" /\ evs[j].id = c[n].id /\ evs[j].i = c[n].i
  BY DEF RunOK, c
<1>8. ASSUME NEW n \in 1..Len(d)
      PROVE  \E j \in 1..Len(u) : u[j].k = "call" /\ u[j].id = d[n].id /\ u[j].i = d[n].i
  <2>1. CASE n \in 1..Len(c)
    <3>1. PICK j \in 1..Len(evs) : evs[j].k = "call" /\ evs[j].id = c[n].id /\ evs[j].i = c[n].i
      BY <1>7, <2>1
    <3> QED
      BY <1>3, <1>6, <2>1, <3>1, Zenon
  <2>2. CASE n = Len(c) + 1
    BY <1>2, <1>3, <1>6, <2>2, Zenon
  <2> QED
    BY <1>5, <2>1, <2>2
<1>9. \A n \in 1..Len(c) : d[n].id # e.id
  BY <1>3, <1>7 DEF PairOK
<1>10. \A a, b \in 1..Len(c) : d[a].id = d[b].id => a = b
  BY <1>3 DEF RunOK, c
<1>11. \A a, b \in 1..Len(d) : d[a].id = d[b].id => a = b
  BY <1>2, <1>3, <1>5, <1>9, <1>10
<1>12. ASSUME NEW g \in run.got
       PROVE  /\ \E j \in 1..Len(u) : u[j].k = "result" /\ u[j].id = g
              /\ \E n \in 1..Len(d) : d[n].id = g
  <2>1. PICK j \in 1..Len(evs) : evs[j].k = "result" /\ evs[j].id = g
    BY DEF RunOK
  <2>2. PICK n \in 1..Len(c) : c[n].id = g
    BY DEF RunOK, c
  <2>3. n \in 1..Len(d)
    BY <1>3
  <2> QED
    BY <1>3, <1>6, <2>1, <2>2, <2>3, Zenon
<1>13. RunOK(u, r)
  BY <1>4, <1>8, <1>11, <1>12 DEF RunOK
<1> QED
  BY <1>4, <1>13 DEF r, x

\* The result of a call of the run.
LEMMA ResultStep ==
    ASSUME NEW u, NEW evs, NEW e, Extends(u, evs, e), NEW run, RunOK(evs, run), e.k = "result",
           NEW n \in 1..Len(run.calls), run.calls[n].id = e.id
    PROVE  LET r == [run EXCEPT !.got = @ \cup {e.id}]
           IN  RunOK(u, r) /\ r.got = run.got \cup {e.id}
<1> DEFINE r == [run EXCEPT !.got = @ \cup {e.id}]
<1>1. RunOK(u, run)
  BY StillRun
<1>2. e.id \in Nat
  BY DEF Extends, EvSet
<1>3. /\ r \in [calls : Seq(CallSet), got : SUBSET Nat] /\ r.calls = run.calls
      /\ r.got = run.got \cup {e.id}
  BY <1>1, <1>2, SMTT(40) DEF RunOK
<1> HIDE DEF r
<1>4. u[Len(evs) + 1] = e /\ Len(evs) + 1 \in 1..Len(u)
  BY DEF Extends
<1>5. ASSUME NEW g \in r.got
      PROVE  /\ \E j \in 1..Len(u) : u[j].k = "result" /\ u[j].id = g
             /\ \E h \in 1..Len(run.calls) : run.calls[h].id = g
  <2>1. CASE g = e.id
    BY <1>4, <2>1, Zenon
  <2>2. CASE g \in run.got
    BY <1>1, <2>2, Zenon DEF RunOK
  <2> QED
    BY <1>3, <2>1, <2>2
<1>6. RunOK(u, r)
  <2>1. /\ \A h \in 1..Len(run.calls) : \E j \in 1..Len(u) :
              u[j].k = "call" /\ u[j].id = run.calls[h].id /\ u[j].i = run.calls[h].i
        /\ \A a, b \in 1..Len(run.calls) : run.calls[a].id = run.calls[b].id => a = b
    BY <1>1, Zenon DEF RunOK
  <2>2. /\ \A h \in 1..Len(r.calls) : \E j \in 1..Len(u) :
              u[j].k = "call" /\ u[j].id = r.calls[h].id /\ u[j].i = r.calls[h].i
        /\ \A a, b \in 1..Len(r.calls) : r.calls[a].id = r.calls[b].id => a = b
    <3>1. PICK c : c = run.calls
      OBVIOUS
    <3>2. r.calls = c
      BY <1>3, <3>1
    <3>3. /\ \A h \in 1..Len(c) : \E j \in 1..Len(u) :
                u[j].k = "call" /\ u[j].id = c[h].id /\ u[j].i = c[h].i
          /\ \A a, b \in 1..Len(c) : c[a].id = c[b].id => a = b
      BY <2>1, <3>1
    <3> QED
      BY <3>2, <3>3
  <2>3. \A g \in r.got : /\ \E j \in 1..Len(u) : u[j].k = "result" /\ u[j].id = g
                         /\ \E h \in 1..Len(r.calls) : r.calls[h].id = g
    BY <1>3, <1>5, SMTT(40)
  <2> QED
    BY <1>3, <2>2, <2>3, Zenon DEF RunOK
<1> QED
  BY <1>3, <1>6 DEF r

LEMMA ReplayStepIs ==
    ASSUME NEW u, NEW evs, NEW e, Extends(u, evs, e), \A j \in 1..Len(evs) : PairOK(evs[j], e),
           NEW s, ReplayOK(evs, s)
    PROVE  ReplayOK(u, ReplayStep(s, e))
<1> SUFFICES ASSUME NEW t, t = ReplayStep(s, e) PROVE ReplayOK(u, t)
  OBVIOUS
<1> DEFINE F == FlushToolRun(s)
<1>1. EntriesOK(evs, F) /\ AllShown(evs, F, {})
  BY FlushIs DEF ReplayOK
<1>2. e.id \in Nat /\ e.k \in Kinds
  BY DEF Extends, EvSet
<1> HIDE DEF F
<1>3. ASSUME NEW G, EntriesOK(u, G), AllShown(u, G, {}), t = [msgs |-> G, run |-> NoRun]
      PROVE  ReplayOK(u, t)
  <2>1. t.msgs = G /\ t.run = NoRun /\ t = [msgs |-> t.msgs, run |-> t.run]
    BY <1>3
  <2> QED
    BY <1>3, <2>1, NoRunOK DEF ReplayOK
<1>4. ASSUME NEW role \in Roles, role \notin {"tool", "lost"},
             t = Flushed(s, e.i, Message(role, e.id, <<>>)), e.k \in Telling,
             role = "text" <=> e.k = "result"
      PROVE  ReplayOK(u, t)
  <2> DEFINE m == Message(role, e.id, <<>>)
             G == Append(F, [i |-> e.i, m |-> m])
  <2>1. m \in Msgs /\ m.role = role /\ m.id = e.id /\ m.calls = <<>>
    BY <1>2, BareMessageIs
  <2>2. t = [msgs |-> G, run |-> NoRun]
    BY <1>4 DEF Flushed, F
  <2> HIDE DEF m
  <2>3. Plain(m)
    BY <1>4, <2>1 DEF Plain, IsTool
  <2>4. Item(m) = ItemOf(e)
    <3>1. CASE e.k = "result"
      <4>1. Item(m) = <<TRUE, e.id>>
        BY <1>4, <2>1, <3>1, ItemIs
      <4> QED
        BY <3>1, <4>1, ItemOfIs
    <3>2. CASE e.k # "result"
      <4>1. Item(m) = <<FALSE, e.id>>
        BY <1>4, <2>1, <3>2, ItemIs
      <4> QED
        BY <3>2, <4>1, ItemOfIs
    <3> QED
      BY <3>1, <3>2
  <2>5. Says(m) => m.id = e.id /\ e.k \in {"user", "think"}
    BY <1>4, <2>1 DEF Says, Telling
  <2>6. EntriesOK(u, G) /\ AllShown(u, G, {})
    BY <1>1, <1>4, <2>1, <2>3, <2>4, <2>5, FlushedIs
  <2> HIDE DEF G
  <2> QED
    BY <1>3, <2>2, <2>6
<1>5. CASE e.k = "user"
  <2>1. t = Flushed(s, e.i, Message("user", e.id, <<>>))
    BY <1>5 DEF ReplayStep
  <2>2. /\ "user" \in Roles /\ "user" \notin {"tool", "lost"} /\ e.k \in Telling
        /\ "user" = "text" <=> e.k = "result"
    BY <1>5 DEF Roles, Telling
  <2> QED
    BY <1>4, <2>1, <2>2
<1>6. CASE e.k = "think"
  <2>1. t = Flushed(s, e.i, Message("asst", e.id, <<>>))
    BY <1>6 DEF ReplayStep
  <2>2. /\ "asst" \in Roles /\ "asst" \notin {"tool", "lost"} /\ e.k \in Telling
        /\ "asst" = "text" <=> e.k = "result"
    BY <1>6 DEF Roles, Telling
  <2> QED
    BY <1>4, <2>1, <2>2
<1>7. CASE e.k = "call"
  <2> DEFINE r == [s.run EXCEPT !.calls = Append(@, [id |-> e.id, i |-> e.i])]
  <2>1. t = [msgs |-> s.msgs, run |-> r]
    <3>1. t = [s EXCEPT !.run.calls = Append(@, [id |-> e.id, i |-> e.i])]
      BY <1>7 DEF ReplayStep
    <3>2. s = [msgs |-> s.msgs, run |-> s.run]
      BY DEF ReplayOK
    <3> QED
      BY <3>1, <3>2
  <2>2. RunOK(u, r) /\ r.got = s.run.got
    BY <1>7, CallStep DEF ReplayOK
  <2> HIDE DEF r
  <2>3. t.msgs = s.msgs /\ t.run = r /\ t = [msgs |-> t.msgs, run |-> t.run]
    BY <2>1
  <2>4. EntriesOK(u, s.msgs)
    BY StillEntries DEF ReplayOK
  <2>5. AllShown(u, s.msgs, s.run.got)
    BY <1>7, StillShown DEF ReplayOK, Telling
  <2> QED
    BY <2>2, <2>3, <2>4, <2>5 DEF ReplayOK
<1>8. CASE e.k = "result" /\ \E n \in DOMAIN s.run.calls : s.run.calls[n].id = e.id
  <2> DEFINE r == [s.run EXCEPT !.got = @ \cup {e.id}]
  <2>1. t = [msgs |-> s.msgs, run |-> r]
    <3>1. t = [s EXCEPT !.run.got = @ \cup {e.id}]
      BY <1>8 DEF ReplayStep
    <3>2. s = [msgs |-> s.msgs, run |-> s.run]
      BY DEF ReplayOK
    <3> QED
      BY <3>1, <3>2
  <2>6. PICK n \in 1..Len(s.run.calls) : s.run.calls[n].id = e.id
    BY <1>8 DEF ReplayOK, RunOK
  <2>2. RunOK(u, r) /\ r.got = s.run.got \cup {e.id}
    BY <1>8, <2>6, ResultStep DEF ReplayOK
  <2> HIDE DEF r
  <2>3. t.msgs = s.msgs /\ t.run = r /\ t = [msgs |-> t.msgs, run |-> t.run]
    BY <2>1
  <2>4. EntriesOK(u, s.msgs)
    BY StillEntries DEF ReplayOK
  <2>5. AllShown(u, s.msgs, r.got)
    BY <1>8, <2>2, StillShown DEF ReplayOK
  <2> QED
    BY <2>2, <2>3, <2>4, <2>5 DEF ReplayOK
<1>9. CASE e.k = "result" /\ ~(\E n \in DOMAIN s.run.calls : s.run.calls[n].id = e.id)
  <2>1. t = Flushed(s, e.i, Message("text", e.id, <<>>))
    BY <1>9 DEF ReplayStep
  <2>2. /\ "text" \in Roles /\ "text" \notin {"tool", "lost"} /\ e.k \in Telling
        /\ "text" = "text" <=> e.k = "result"
    BY <1>9 DEF Roles, Telling
  <2> QED
    BY <1>4, <2>1, <2>2
<1>10. CASE e.k = "compact"
  <2> DEFINE G == ReplaceArchived(F, e.upto, e.i, Summary(e.of))
  <2>1. t = [msgs |-> G, run |-> NoRun]
    BY <1>10 DEF ReplayStep, F
  <2>2. EntriesOK(u, G) /\ AllShown(u, G, {})
    BY <1>1, <1>10, ReplaceArchivedIs
  <2> HIDE DEF G
  <2> QED
    BY <1>3, <2>1, <2>2, Zenon
<1>11. CASE e.k \notin {"user", "think", "call", "result", "compact"}
  <2>1. t = s
    BY <1>11 DEF ReplayStep
  <2>2. EntriesOK(u, s.msgs) /\ RunOK(u, s.run)
    BY StillEntries, StillRun DEF ReplayOK
  <2>3. AllShown(u, s.msgs, s.run.got)
    BY <1>11, StillShown DEF ReplayOK, Telling
  <2>4. s = [msgs |-> s.msgs, run |-> s.run]
    BY DEF ReplayOK
  <2>5. ReplayOK(u, s)
    BY <2>2, <2>3, <2>4, Zenon DEF ReplayOK
  <2> QED
    BY <2>1, <2>5
<1>12. ReplayOK(u, t)
  <2>1. \/ e.k = "user" \/ e.k = "think" \/ e.k = "call" \/ e.k = "result" \/ e.k = "compact"
        \/ e.k \notin {"user", "think", "call", "result", "compact"}
    OBVIOUS
  <2> QED
    BY <1>5, <1>6, <1>7, <1>8, <1>9, <1>10, <1>11, <2>1, Zenon
<1> QED
  BY <1>12

LEMMA ReplayFolds == \A evs \in Seq(EvSet) : ReplayHolds(evs)
<1>1. ReplayHolds(<<>>)
  <2>1. ReplayState(<<>>) = [msgs |-> <<>>, run |-> NoRun]
    BY Replays!FoldEmpty, ReplayIsFold
  <2> SUFFICES ASSUME NEW s, s = [msgs |-> <<>>, run |-> NoRun] PROVE ReplayOK(<<>>, s)
    BY <2>1 DEF ReplayHolds
  <2>2. s.msgs = <<>> /\ s.run = NoRun /\ s = [msgs |-> s.msgs, run |-> s.run]
    OBVIOUS
  <2>3. PICK none : none = <<>>
    OBVIOUS
  <2>4. none \in Seq(EntrySet) /\ Len(none) = 0 /\ 1..Len(none) = {}
    BY <2>3
  <2>5. Bare(none) \in Seq(Msgs) /\ Len(Bare(none)) = 0 /\ 1..Len(Bare(none)) = {}
    BY <2>4, BareIs
  <2>6. Paired(Bare(none)) /\ InOrder(Bare(none))
    BY <2>5 DEF Paired, InOrder
  <2>7. EntriesOK(none, none) /\ AllShown(none, none, {})
    BY <2>4, <2>6 DEF EntriesOK, AllShown
  <2> QED
    BY <2>2, <2>3, <2>7, NoRunOK DEF ReplayOK
<1>2. ASSUME NEW evs \in Seq(EvSet), NEW e \in EvSet, ReplayHolds(evs)
      PROVE  ReplayHolds(Append(evs, e))
  <2> SUFFICES ASSUME NEW u, u = Append(evs, e), LogOK(u) PROVE ReplayOK(u, ReplayState(u))
    BY DEF ReplayHolds
  <2>1. /\ LogOK(evs) /\ \A j \in 1..Len(evs) : PairOK(evs[j], e)
        /\ Len(u) = Len(evs) + 1 /\ Len(evs) \in Nat /\ u[Len(evs) + 1] = e
        /\ \A j \in 1..Len(evs) : u[j] = evs[j]
    BY LogAppend
  <2>2. /\ \A j \in 1..Len(evs) : j \in 1..Len(u)
        /\ Len(evs) + 1 \in 1..Len(u)
        /\ \A j \in 1..Len(u) : j \in 1..Len(evs) \/ j = Len(evs) + 1
    BY <2>1
  <2>3. Extends(u, evs, e)
    BY <2>1, <2>2 DEF Extends
  <2>4. ReplayOK(evs, ReplayState(evs))
    BY <1>2, <2>1 DEF ReplayHolds
  <2>5. ReplayState(u) = ReplayStep(ReplayState(evs), e)
    <3>1. Replays!Folded(Append(evs, e)) = ReplayStep(Replays!Folded(evs), e)
      BY Replays!FoldAppend
    <3> QED
      BY <3>1, ReplayIsFold
  <2> QED
    BY <2>1, <2>3, <2>4, <2>5, ReplayStepIs
<1> QED
  BY <1>1, <1>2, Replays!SequencesByAppend

\* What a replay is: every call with its answer, what was said in order, and
\* nothing but what the log tells; what it leaves out is covered by a compaction.
LEMMA ReplayIs ==
    ASSUME NEW evs, LogOK(evs)
    PROVE  /\ Paired(Replay(evs)) /\ InOrder(Replay(evs))
           /\ Items(Replay(evs)) \subseteq EventItems(evs)
           /\ \A j \in 1..Len(evs) : evs[j].k \in Telling =>
                Covered(evs, j) \/ ItemOf(evs[j]) \in Items(Replay(evs))
<1> DEFINE s == ReplayState(evs)
           F == FlushToolRun(s)
           b == Bare(F)
<1>1. evs \in Seq(EvSet) /\ DOMAIN evs = 1..Len(evs)
  BY DEF LogOK
<1>2. ReplayOK(evs, s)
  BY <1>1, ReplayFolds DEF ReplayHolds
<1>3. Replay(evs) = LegalizeToolHistory(b)
  BY DEF Replay, ReplayState, Bare
<1> HIDE DEF s
<1>4. EntriesOK(evs, F) /\ AllShown(evs, F, {})
  BY <1>2, FlushIs DEF ReplayOK
<1> HIDE DEF F
<1>5. F \in Seq(EntrySet) /\ Paired(b) /\ InOrder(b)
  BY <1>4 DEF EntriesOK
<1>6. b \in Seq(Msgs) /\ Len(b) = Len(F) /\ Len(F) \in Nat /\ \A n \in 1..Len(F) : b[n] = F[n].m
  BY <1>5, BareIs
<1> HIDE DEF b
<1>7. Replay(evs) = b
  BY <1>3, <1>5, <1>6, LegalizeIs
<1>8. DOMAIN b = 1..Len(F)
  BY <1>6
<1>9. ASSUME NEW y \in Items(b) PROVE y \in EventItems(evs)
  <2>1. PICK n \in 1..Len(F) : y = Item(b[n])
    BY <1>8, ItemsAre
  <2>2. y # Nothing /\ y = Item(F[n].m)
    BY <1>6, <2>1, ItemsAre
  <2>3. \E j \in 1..Len(evs) : evs[j].k \in Telling /\ Item(F[n].m) = ItemOf(evs[j])
    BY <1>4, <2>2 DEF EntriesOK, FromLog
  <2> QED
    BY <1>1, <2>2, <2>3, EventItemsAre
<1>10. ASSUME NEW j \in 1..Len(evs), evs[j].k \in Telling, Shown(F, evs[j])
       PROVE  ItemOf(evs[j]) \in Items(b)
  <2>1. PICK n \in 1..Len(F) : Item(F[n].m) = ItemOf(evs[j])
    BY <1>10 DEF Shown
  <2>2. ItemOf(evs[j]) # Nothing
    <3>1. CASE evs[j].k = "result"
      BY <3>1, ItemOfIs, ItemsDiffer DEF Nothing
    <3>2. CASE evs[j].k # "result"
      <4>1. evs[j].id # 0
        BY <1>10, <3>2 DEF LogOK, Telling
      <4>2. ItemOf(evs[j]) = <<FALSE, evs[j].id>>
        BY <3>2, ItemOfIs
      <4> QED
        BY <4>1, <4>2, ItemsDiffer DEF Nothing
    <3> QED
      BY <3>1, <3>2
  <2>3. Item(b[n]) = ItemOf(evs[j]) /\ n \in DOMAIN b
    BY <1>6, <1>8, <2>1
  <2> QED
    BY <2>2, <2>3, ItemsAre
<1>11. \A j \in 1..Len(evs) : evs[j].k \in Telling =>
          Covered(evs, j) \/ ItemOf(evs[j]) \in Items(b)
  BY <1>4, <1>10 DEF AllShown
<1> QED
  BY <1>5, <1>7, <1>9, <1>11

-----------------------------------------------------------------------------
(* Two lists of what was said, both in order and with the same items, are  *)
(* the same list.                                                          *)

Increasing(g) == \A a, b \in 1..Len(g) : a < b => g[a] < g[b]

Within(g, h) == \A a \in 1..Len(g) : \E b \in 1..Len(h) : h[b] = g[a]

LEMMA SameIncreasing ==
    ASSUME NEW g \in Seq(Nat), NEW h \in Seq(Nat), Increasing(g), Increasing(h),
           Within(g, h), Within(h, g)
    PROVE  g = h
<1>1. Len(g) \in Nat /\ Len(h) \in Nat
  OBVIOUS
<1>2. \A k \in 1..Len(g) : g[k] \in Nat
  OBVIOUS
<1>3. \A k \in 1..Len(h) : h[k] \in Nat
  OBVIOUS
<1>4. ASSUME NEW k \in Nat, k \in 1..Len(g), k \in 1..Len(h),
             \A j \in 1..Len(g) : j < k /\ j \in 1..Len(h) => g[j] = h[j]
      PROVE  g[k] = h[k]
  <2>1. ASSUME g[k] < h[k] PROVE FALSE
    <3>1. PICK b \in 1..Len(h) : h[b] = g[k]
      BY <1>4 DEF Within
    <3>2. CASE b < k
      <4>1. b \in 1..Len(g)
        BY <1>1, <1>4, <3>2
      <4>2. g[b] = h[b] /\ g[b] < g[k]
        BY <1>4, <3>2, <4>1 DEF Increasing
      <4> QED
        BY <1>2, <1>4, <3>1, <4>1, <4>2
    <3>3. CASE b = k
      BY <1>3, <1>4, <2>1, <3>1, <3>3
    <3>4. CASE b > k
      <4>1. h[k] < h[b]
        BY <1>4, <3>4 DEF Increasing
      <4> QED
        BY <1>2, <1>3, <1>4, <2>1, <3>1, <4>1
    <3> QED
      BY <3>2, <3>3, <3>4
  <2>2. ASSUME h[k] < g[k] PROVE FALSE
    <3>1. PICK b \in 1..Len(g) : g[b] = h[k]
      BY <1>4 DEF Within
    <3>2. CASE b < k
      <4>1. b \in 1..Len(h)
        BY <1>1, <1>4, <3>2
      <4>2. g[b] = h[b] /\ h[b] < h[k]
        BY <1>4, <3>2, <4>1 DEF Increasing
      <4> QED
        BY <1>3, <1>4, <3>1, <4>1, <4>2
    <3>3. CASE b = k
      BY <1>3, <1>4, <2>2, <3>1, <3>3
    <3>4. CASE b > k
      <4>1. g[k] < g[b]
        BY <1>4, <3>4 DEF Increasing
      <4> QED
        BY <1>2, <1>3, <1>4, <2>2, <3>1, <4>1
    <3> QED
      BY <3>2, <3>3, <3>4
  <2>3. g[k] \in Nat /\ h[k] \in Nat
    BY <1>2, <1>3, <1>4
  <2> QED
    BY <2>1, <2>2, <2>3
<1>5. \A k \in Nat : k \in 1..Len(g) /\ k \in 1..Len(h) => g[k] = h[k]
  <2> DEFINE D == {k \in Nat : k \in 1..Len(g) /\ k \in 1..Len(h) /\ g[k] # h[k]}
  <2> SUFFICES ASSUME D # {} PROVE FALSE
    OBVIOUS
  <2>1. D \in SUBSET Nat
    OBVIOUS
  <2> HIDE DEF D
  <2>2. PICK k \in D : \A j \in D : k <= j
    BY <2>1, Nats!LeastNat
  <2>3. k \in Nat /\ k \in 1..Len(g) /\ k \in 1..Len(h) /\ g[k] # h[k]
    BY <2>2 DEF D
  <2>4. \A j \in 1..Len(g) : j < k /\ j \in 1..Len(h) => g[j] = h[j]
    <3> SUFFICES ASSUME NEW j \in 1..Len(g), j < k, j \in 1..Len(h), g[j] # h[j] PROVE FALSE
      OBVIOUS
    <3>1. j \in D
      BY DEF D
    <3>2. k <= j
      BY <2>2, <3>1
    <3> QED
      BY <2>3, <3>2
  <2> QED
    BY <1>4, <2>3, <2>4
<1>6. ~(Len(g) < Len(h))
  <2> SUFFICES ASSUME Len(g) < Len(h) PROVE FALSE
    OBVIOUS
  <2>1. Len(g) + 1 \in 1..Len(h)
    BY <1>1
  <2>2. PICK a \in 1..Len(g) : g[a] = h[Len(g) + 1]
    BY <2>1 DEF Within
  <2>3. a \in 1..Len(h) /\ a < Len(g) + 1 /\ a \in Nat
    BY <1>1, <2>1
  <2>4. g[a] = h[a] /\ h[a] < h[Len(g) + 1]
    BY <1>5, <2>1, <2>3 DEF Increasing
  <2> QED
    BY <1>3, <2>2, <2>3, <2>4
<1>7. ~(Len(h) < Len(g))
  <2> SUFFICES ASSUME Len(h) < Len(g) PROVE FALSE
    OBVIOUS
  <2>1. Len(h) + 1 \in 1..Len(g)
    BY <1>1
  <2>2. PICK b \in 1..Len(h) : h[b] = g[Len(h) + 1]
    BY <2>1 DEF Within
  <2>3. b \in 1..Len(g) /\ b < Len(h) + 1 /\ b \in Nat
    BY <1>1, <2>1
  <2>4. g[b] = h[b] /\ g[b] < g[Len(h) + 1]
    BY <1>5, <2>1, <2>3 DEF Increasing
  <2> QED
    BY <1>2, <2>2, <2>3, <2>4
<1>8. Len(g) = Len(h)
  BY <1>1, <1>6, <1>7
<1>9. \A k \in 1..Len(g) : g[k] = h[k]
  BY <1>1, <1>5, <1>8
<1> QED
  BY <1>8, <1>9

LEMMA SaidIs == ASSUME NEW y \in Said PROVE \E x \in Nat : y = <<FALSE, x>>
<1>1. y \in {FALSE} \X Nat
  BY DEF Said
<1>2. y = <<y[1], y[2]>> /\ y[2] \in Nat
  BY <1>1
<1>3. y[1] = FALSE
  BY <1>1, Zenon
<1> QED
  BY <1>2, <1>3, Zenon

\* What was said of S, as its numbers in order.
Lists(g, s, S) ==
    /\ Increasing(g) /\ Common(s, S) = [k \in 1..Len(g) |-> <<FALSE, g[k]>>]
    /\ \A k \in 1..Len(g) : <<FALSE, g[k]>> \in S
    /\ \A i \in Nat : <<FALSE, i>> \in S => \E k \in 1..Len(g) : g[k] = i

LEMMA CommonIs ==
    ASSUME NEW s \in Seq(Msgs), InOrder(s), NEW S, S \subseteq Items(s), S \subseteq Said
    PROVE  \E g \in Seq(Nat) : Lists(g, s, S)
<1> DEFINE f == [i \in DOMAIN s |-> Item(s[i])]
           K == {i \in DOMAIN s : Item(s[i]) \in S}
           n == Cardinality(K)
           O == Order(K)
           g == [k \in 1..n |-> s[O[k]].id]
<1>1. DOMAIN s = 1..Len(s) /\ Len(s) \in Nat /\ \A i \in 1..Len(s) : s[i] \in Msgs
  OBVIOUS
<1>2. Common(s, S) = Picked(f, K)
  BY DEF Common
<1>3. f \in Seq({Item(s[i]) : i \in 1..Len(s)}) /\ DOMAIN f = 1..Len(s) /\ \A i \in 1..Len(s) : f[i] = Item(s[i])
  <2>1. f = [i \in 1..Len(s) |-> Item(s[i])]
    BY <1>1
  <2>2. f = [i \in 1..Len(s) |-> f[i]] /\ \A i \in 1..Len(s) : f[i] \in {Item(s[j]) : j \in 1..Len(s)}
    BY <2>1
  <2>3. \A i \in 1..Len(s) : f[i] = Item(s[i])
    BY <2>1
  <2> HIDE DEF f
  <2> QED
    BY <1>1, <2>2, <2>3, ListOf
<1>4. K \in SUBSET DOMAIN f /\ K \in SUBSET (1..Len(s)) /\ \A i \in K : Item(s[i]) \in S
  BY <1>1, <1>3
<1>5. \A i \in 1..Len(s) : Item(s[i]) \in S => i \in K
  BY <1>1
<1> HIDE DEF K, f
<1>6. /\ n \in Nat /\ O \in [1..n -> K]
      /\ \A a, b \in 1..n : a < b => O[a] < O[b]
      /\ \A x \in K : \E k \in 1..n : O[k] = x
      /\ Picked(f, K) = [k \in 1..n |-> f[O[k]]]
  BY <1>3, <1>4, PickedIs
<1> HIDE DEF n, O
<1>7. ASSUME NEW i \in K PROVE Says(s[i]) /\ Item(s[i]) = <<FALSE, s[i].id>> /\ s[i].id \in Nat
  <2>1. Item(s[i]) \in S /\ Item(s[i]) \in Items(s) /\ i \in 1..Len(s)
    BY <1>4, Zenon
  <2>2. PICK x \in Nat : Item(s[i]) = <<FALSE, x>>
    <3>1. PICK y : y = Item(s[i])
      OBVIOUS
    <3>2. y \in Said
      BY <2>1, <3>1, Zenon
    <3>3. \E x \in Nat : y = <<FALSE, x>>
      BY <3>2, SaidIs
    <3> QED
      BY <3>1, <3>3
  <2>3. Item(s[i]) # Nothing
    BY <2>1, ItemsAre
  <2>4. s[i].role \notin {"tool", "text"}
    <3> SUFFICES ASSUME s[i].role \in {"tool", "text"} PROVE FALSE
      OBVIOUS
    <3>1. Item(s[i]) = <<TRUE, s[i].id>>
      BY ItemIs
    <3>2. <<TRUE, s[i].id>> # <<FALSE, x>>
      BY ItemsDiffer
    <3> QED
      BY <2>2, <3>1, <3>2, Zenon
  <2>5. s[i].role # "lost"
    BY <2>3, ItemIs
  <2>6. Item(s[i]) = <<FALSE, s[i].id>>
    BY <2>4, <2>5, ItemIs
  <2>7. s[i].id # 0
    BY <2>3, <2>6 DEF Nothing
  <2>8. s[i].id \in Nat
    BY <1>1, <2>1, CallsOfMsg
  <2> QED
    BY <2>4, <2>5, <2>6, <2>7, <2>8 DEF Says
<1>8. \A k \in 1..n : O[k] \in K /\ O[k] \in 1..Len(s) /\ g[k] = s[O[k]].id
  BY <1>4, <1>6
<1>9. g \in Seq(Nat) /\ Len(g) = n
  <2>1. g = [k \in 1..n |-> g[k]] /\ \A k \in 1..n : g[k] \in Nat
    BY <1>7, <1>8
  <2> HIDE DEF g
  <2> QED
    BY <1>6, <2>1, ListOf
<1> HIDE DEF g
<1>10. Increasing(g)
  <2> SUFFICES ASSUME NEW a \in 1..n, NEW b \in 1..n, a < b PROVE g[a] < g[b]
    BY <1>9 DEF Increasing
  <2>1. O[a] < O[b] /\ O[a] \in 1..Len(s) /\ O[b] \in 1..Len(s) /\ Says(s[O[a]]) /\ Says(s[O[b]])
    BY <1>6, <1>7, <1>8
  <2>2. s[O[a]].id < s[O[b]].id
    BY <2>1 DEF InOrder
  <2> QED
    BY <1>8, <2>2
<1>11. \A k \in 1..n : f[O[k]] = <<FALSE, g[k]>> /\ <<FALSE, g[k]>> \in S
  BY <1>3, <1>4, <1>7, <1>8, ZenonT(40)
<1>12. Common(s, S) = [k \in 1..Len(g) |-> <<FALSE, g[k]>>]
  BY <1>2, <1>6, <1>9, <1>11
<1>13. ASSUME NEW i \in Nat, <<FALSE, i>> \in S PROVE \E k \in 1..Len(g) : g[k] = i
  <2>1. PICK j \in 1..Len(s) : <<FALSE, i>> = Item(s[j])
    BY <1>1, <1>13, ItemsAre
  <2>2. j \in K
    BY <1>5, <1>13, <2>1
  <2>3. s[j].id = i
    BY <1>7, <2>1, <2>2, ItemsDiffer, Zenon
  <2>4. PICK k \in 1..n : O[k] = j
    BY <1>6, <2>2
  <2> QED
    BY <1>8, <1>9, <2>3, <2>4
<1>14. Lists(g, s, S)
  BY <1>9, <1>10, <1>11, <1>12, <1>13 DEF Lists
<1> QED
  BY <1>9, <1>14

LEMMA CommonSame ==
    ASSUME NEW s \in Seq(Msgs), NEW t \in Seq(Msgs), InOrder(s), InOrder(t),
           NEW S, S \subseteq Items(s), S \subseteq Items(t), S \subseteq Said
    PROVE  Common(s, S) = Common(t, S)
<1>1. PICK g \in Seq(Nat) : Lists(g, s, S)
  BY CommonIs
<1>2. PICK h \in Seq(Nat) : Lists(h, t, S)
  BY CommonIs
<1>3. (\A k \in 1..Len(g) : g[k] \in Nat) /\ (\A k \in 1..Len(h) : h[k] \in Nat)
  OBVIOUS
<1>4. Within(g, h) /\ Within(h, g)
  BY <1>1, <1>2, <1>3 DEF Within, Lists
<1>5. g = h
  BY <1>1, <1>2, <1>4, SameIncreasing DEF Lists
<1> QED
  BY <1>1, <1>2, <1>5, Zenon DEF Lists
=============================================================================
