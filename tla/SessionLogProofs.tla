-------------------------- MODULE SessionLogProofs --------------------------
(***************************************************************************)
(* ProjectionsFollow for any number of processes, events, faults and        *)
(* rollbacks, and any capacity of the worker's channel.                     *)
(*                                                                         *)
(* That the transcript heals rests on how much a file can have lost: a line *)
(* stands for one event and a spoilt one for two, so a file with as many    *)
(* lines as events, whose last line was not cut off, has them all.  That    *)
(* the sessions row agrees rests on what is between a column and its event, *)
(* or between the statements of a truncation, being known of one process.   *)
(***************************************************************************)
EXTENDS SessionLog, FiniteSetTheorems, SequenceTheorems, WellFoundedInduction,
        TLAPS

LogKinds == EventKinds \cup {"meta"}
LogEvents == [i : Nat, k : LogKinds, n : Nat \ {0}]
LogRows == [users : Nat, calls : Nat, goal : BOOLEAN, met : BOOLEAN]
Cuts == {{}, {<<>>}} \cup {{<<r>>} : r \in LogRows}
LogProcs == [at : {"down", "scanned", "rebuild", "rewrite", "up"}, found : Seq(LogEvents),
             due : {{}} \cup {{k} : k \in EventKinds \cap {"set", "clear", "met"}},
             todo : Seq(LogEvents), queue : Seq(LogEvents), done : LogEvents \cup {NoEvent},
             through : Int, cut : Cuts]

LogTypes ==
  /\ rows \in Seq(LogEvents) /\ row \in LogRows /\ lines \in Seq(Int) /\ offset \in Int
  /\ procs \in [Processes -> LogProcs] /\ written \in Nat /\ faults \in Nat /\ rolled \in Nat
  /\ whole \in BOOLEAN /\ shared \in BOOLEAN /\ torn \in BOOLEAN

\* Indexes rise, and one event at most describes the session.
Ordered(evs) ==
  /\ \A g, h \in DOMAIN evs : g < h => evs[g].i < evs[h].i
  /\ \A g, h \in DOMAIN evs : evs[g].k = "meta" /\ evs[h].k = "meta" => g = h

\* Only a process that is up has anything under way.
Started(r) ==
  /\ r.at # "up" => /\ r.due = {} /\ r.todo = <<>> /\ r.queue = <<>> /\ r.done = NoEvent
                    /\ r.through = -1 /\ r.cut = {}
  /\ r.due = {} \/ r.cut = {}

LogShape ==
  /\ LogTypes /\ Ordered(rows)
  /\ \A p \in Processes : Started(procs[p])
  /\ ~shared => \A p, q \in Processes : p = q \/ procs[p].at = "down" \/ procs[q].at = "down"
  /\ rolled = 0 => \A p \in Processes : procs[p].cut = {}

CountsAgree(r, evs) == r.users = CountOf(evs, "user") /\ r.calls = CountOf(evs, "call")
GoalAgrees(r, evs) == (r.goal <=> GoalStands(evs)) /\ (r.met <=> GoalMet(evs))

\* The columns as they are when the event that is due has not followed.
GoalDue(k, r, evs) ==
  /\ r.goal <=> k # "clear"
  /\ r.met <=> k = "met"
  /\ k = "met" => GoalStands(evs)

\* What the columns say while one process has this under way and no other any.
ColumnsTold(r, cols, evs) ==
  /\ r.due = {} /\ r.cut = {} => GoalAgrees(cols, evs)
  /\ r.cut = {} => CountsAgree(cols, evs)
  /\ \A k \in r.due : GoalDue(k, cols, evs)
  /\ \A c \in LogRows : r.cut = {<<c>>} => GoalAgrees(c, evs) /\ CountsAgree(c, evs)

Sole(p) == \A q \in Processes \ {p} : procs[q].at = "down"

ColumnsInv ==
  ~torn =>
    /\ ~shared => \A p \in Processes : Sole(p) => ColumnsTold(procs[p], row, rows)
    /\ rolled = 0 => CountsAgree(row, rows)

\* Before a rollback an event's index, its number and its place say the same.
Numbered(evs) == \A j \in DOMAIN evs : evs[j].i = j - 1 /\ evs[j].n = j

\* How many events come before the ones a process still has to write.
Behind(r, w) == w - Len(r.queue) - Len(r.todo)

\* What the file can be when the first m events have been written, or lost:
\* a line stands for one event and a spoilt one for two.
LinesAccount(ls, m) ==
  /\ Len(ls) <= m
  /\ \A j \in DOMAIN ls : ls[j] # Junk =>
       /\ ls[j] = Cut => j = Len(ls)
       /\ ls[j] # Cut => j <= ls[j] /\ ls[j] + (Len(ls) - j) <= m
  /\ (\E j \in DOMAIN ls : ls[j] = Junk) => Len(ls) < m

EndsCut(ls) == ls # <<>> /\ ls[Len(ls)] = Cut

\* What the worker has to do, in the order of the events.
Queued(r, evs, w) ==
  /\ \A j \in DOMAIN r.queue : r.queue[j] = evs[Behind(r, w) + j]
  /\ \A j \in DOMAIN r.todo : r.todo[j] = evs[Behind(r, w) + Len(r.queue) + j]

Waits(r, evs, w, ls) ==
  /\ Behind(r, w) >= 0 /\ Queued(r, evs, w)
  /\ r.done # NoEvent => r.done.i < Behind(r, w) /\ ~EndsCut(ls)
  /\ r.through < Behind(r, w)
  /\ r.at \in {"scanned", "rewrite"} => r.found = evs

\* The file behind a process that writes alone.
LinesTold(r, evs, w, ls, off, wh) ==
  /\ Waits(r, evs, w, ls) /\ LinesAccount(ls, Behind(r, w)) /\ off < Behind(r, w)
  /\ EndsCut(ls) => off + 1 < Behind(r, w)
  /\ wh /\ r.at = "up" => Len(ls) = Behind(r, w) /\ \A j \in DOMAIN ls : ls[j] = j

TranscriptInv ==
  rolled = 0 =>
    /\ Numbered(rows) /\ written = Len(rows)
    /\ ~shared => \A p \in Processes : LinesTold(procs[p], rows, written, lines, offset, whole)

SLInv == LogShape /\ ColumnsInv /\ TranscriptInv

-----------------------------------------------------------------------------
\* Numbers that are bounded have a greatest.
LEMMA GreatestExists ==
  ASSUME NEW m \in Nat, NEW S, S \subseteq 0 .. m, S # {}
  PROVE  \E x \in S : \A y \in S : y <= x
<1> DEFINE T == {m - x : x \in S}
           Less == {ss \in Nat \X Nat : ss[1] < ss[2]}
<1>1. IsWellFoundedOn(Less, Nat)
  BY NatLessThanWellFounded, Zenon DEF OpToRel
<1>2. T \subseteq Nat /\ T # {}
  <2>1. \A x \in S : m - x \in Nat
    OBVIOUS
  <2> QED
    BY <2>1
<1> HIDE DEF Less, T
<1>3. PICK t \in T : \A u \in T : ~(<<u, t>> \in Less)
  BY <1>1, <1>2, WFMin
<1>4. \A u \in T : t <= u
  <2> TAKE u \in T
  <2>1. t \in Nat /\ u \in Nat
    BY <1>2
  <2>2. ASSUME u < t
        PROVE  <<u, t>> \in Less
    <3>1. <<u, t>> \in Nat \X Nat /\ <<u, t>>[1] = u /\ <<u, t>>[2] = t
      BY <2>1
    <3> QED
      BY <2>2, <3>1, Zenon DEF Less
  <2>3. ~(u < t)
    BY <1>3, <2>2
  <2> QED
    BY <2>1, <2>3
<1>5. PICK x \in S : t = m - x
  BY DEF T
<1>6. \A y \in S : m - y \in T
  BY DEF T
<1>7. \A y \in S : m - x <= m - y /\ y \in 0 .. m /\ x \in 0 .. m
  BY <1>4, <1>5, <1>6
<1>8. \A y \in S : y <= x
  BY <1>7
<1> QED
  BY <1>8

\* The last event of a kind.
LEMMA LastOfKind ==
  ASSUME NEW evs \in Seq(LogEvents), NEW kinds, NEW h \in DOMAIN evs, evs[h].k \in kinds
  PROVE  \E j \in DOMAIN evs :
           /\ evs[j].k \in kinds
           /\ \A g \in DOMAIN evs : evs[g].k \in kinds => g <= j
<1> DEFINE S == {j \in DOMAIN evs : evs[j].k \in kinds}
<1>1. S \subseteq 0 .. Len(evs) /\ S # {} /\ Len(evs) \in Nat
  OBVIOUS
<1> HIDE DEF S
<1>2. \E x \in S : \A y \in S : y <= x
  BY <1>1, GreatestExists
<1> QED
  BY <1>2 DEF S

LEMMA EventsTyped ==
  ASSUME NEW evs \in Seq(LogEvents)
  PROVE  /\ DOMAIN evs = 1 .. Len(evs) /\ Len(evs) \in Nat
         /\ \A g \in DOMAIN evs :
              /\ evs[g] \in LogEvents /\ evs[g].i \in Nat /\ evs[g].n \in Nat \ {0}
              /\ evs[g].k \in LogKinds /\ evs[g] = [i |-> evs[g].i, k |-> evs[g].k, n |-> evs[g].n]
<1>1. \A g \in DOMAIN evs : evs[g] \in LogEvents
  OBVIOUS
<1>2. \A e \in LogEvents : /\ e.i \in Nat /\ e.n \in Nat \ {0} /\ e.k \in LogKinds
                          /\ e = [i |-> e.i, k |-> e.k, n |-> e.n]
  BY DEF LogEvents
<1> QED
  BY <1>1, <1>2

LEMMA PlacesFinite ==
  ASSUME NEW evs \in Seq(LogEvents), NEW kind
  PROVE  /\ IsFiniteSet({j \in DOMAIN evs : evs[j].k = kind}) /\ CountOf(evs, kind) \in Nat
<1>1. DOMAIN evs = 1 .. Len(evs) /\ Len(evs) \in Nat
  OBVIOUS
<1>2. IsFiniteSet(1 .. Len(evs))
  BY <1>1, FS_Interval
<1>3. IsFiniteSet({j \in DOMAIN evs : evs[j].k = kind})
  BY <1>1, <1>2, FS_Subset
<1> QED
  BY <1>3, FS_CardinalityType DEF CountOf

LEMMA CountOfMore ==
  ASSUME NEW evs \in Seq(LogEvents), NEW e \in LogEvents, NEW kind
  PROVE  CountOf(Append(evs, e), kind) = CountOf(evs, kind) + (IF e.k = kind THEN 1 ELSE 0)
<1> DEFINE old == {j \in DOMAIN evs : evs[j].k = kind}
           new == {j \in DOMAIN Append(evs, e) : Append(evs, e)[j].k = kind}
           top == Len(evs) + 1
<1>1. /\ DOMAIN evs = 1 .. Len(evs) /\ Len(evs) \in Nat /\ DOMAIN Append(evs, e) = 1 .. top
      /\ Append(evs, e)[top] = e /\ \A j \in 1 .. Len(evs) : Append(evs, e)[j] = evs[j]
  BY AppendProperties
<1>2. new = IF e.k = kind THEN old \cup {top} ELSE old
  BY <1>1
<1>3. IsFiniteSet(old) /\ CountOf(evs, kind) = Cardinality(old) /\ Cardinality(old) \in Nat
  BY PlacesFinite, FS_CardinalityType DEF CountOf
<1>4. top \notin old
  BY <1>1
<1>5. CountOf(Append(evs, e), kind) = Cardinality(new)
  BY DEF CountOf
<1> HIDE DEF old, new, top
<1>6. Cardinality(old \cup {top}) = Cardinality(old) + 1
  BY <1>3, <1>4, FS_AddElement
<1> QED
  BY <1>2, <1>3, <1>5, <1>6

\* Indexes that rise count as places do.
LEMMA OfCounts ==
  ASSUME NEW evs \in Seq(LogEvents), Ordered(evs), NEW kind
  PROVE  Cardinality(Of(evs, kind)) = CountOf(evs, kind)
<1> DEFINE S == {j \in DOMAIN evs : evs[j].k = kind}
           f == [j \in S |-> evs[j].i]
<1>1. \A g, h \in S : g # h => f[g] # f[h]
  <2>1. \A g, h \in DOMAIN evs : g # h => g < h \/ h < g
    OBVIOUS
  <2>2. \A g \in DOMAIN evs : evs[g].i \in Nat
    BY EventsTyped
  <2> SUFFICES ASSUME NEW g \in S, NEW h \in S, g # h
               PROVE  evs[g].i # evs[h].i
    OBVIOUS
  <2>3. g \in DOMAIN evs /\ h \in DOMAIN evs
    OBVIOUS
  <2>4. evs[g].i < evs[h].i \/ evs[h].i < evs[g].i
    BY <2>1, <2>3 DEF Ordered
  <2> QED
    BY <2>2, <2>3, <2>4
<1>2. f \in [S -> Of(evs, kind)] /\ \A x \in Of(evs, kind) : \E j \in S : f[j] = x
  BY DEF Of
<1>3. IsFiniteSet(S) /\ CountOf(evs, kind) = Cardinality(S)
  BY PlacesFinite DEF CountOf
<1> HIDE DEF f, S
<1>4. f \in Injection(S, Of(evs, kind)) /\ f \in Surjection(S, Of(evs, kind))
  BY <1>1, <1>2 DEF Injection, Surjection, IsInjective
<1>5. f \in Bijection(S, Of(evs, kind))
  BY <1>4 DEF Bijection
<1> QED
  BY <1>3, <1>5, FS_Bijection DEF ExistsBijection

\* The highest index of a kind is that of the last event of the kind.
LEMMA HighestIsLast ==
  ASSUME NEW evs \in Seq(LogEvents), Ordered(evs), NEW kind,
         NEW j \in DOMAIN evs, evs[j].k = kind, \A g \in DOMAIN evs : evs[g].k = kind => g <= j
  PROVE  Highest(Of(evs, kind)) = evs[j].i
<1> DEFINE x == evs[j].i
<1>1. x \in Of(evs, kind) /\ Of(evs, kind) # {}
  BY DEF Of
<1>2. \A y \in Of(evs, kind) : y \in Nat /\ y <= x
  <2> SUFFICES ASSUME NEW g \in DOMAIN evs, evs[g].k = kind
               PROVE  evs[g].i \in Nat /\ evs[g].i <= x
    BY DEF Of
  <2>1. evs[g].i \in Nat /\ x \in Nat
    BY EventsTyped
  <2>2. g = j \/ g < j
    OBVIOUS
  <2>3. g < j => evs[g].i < x
    BY DEF Ordered
  <2> QED
    BY <2>1, <2>2, <2>3
<1>3. \A z \in Of(evs, kind) : (\A y \in Of(evs, kind) : y <= z) => z = x
  BY <1>1, <1>2
<1> HIDE DEF x
<1>4. (CHOOSE z \in Of(evs, kind) : \A y \in Of(evs, kind) : y <= z) = x
  BY <1>1, <1>2, <1>3
<1>5. Highest(Of(evs, kind)) = x
  BY <1>1, <1>4, Zenon DEF Highest
<1> QED
  BY <1>5 DEF x

\* There is none, or it is the last one's.
LEMMA HighestOf ==
  ASSUME NEW evs \in Seq(LogEvents), Ordered(evs), NEW kind
  PROVE  \/ /\ \A g \in DOMAIN evs : evs[g].k # kind
            /\ Highest(Of(evs, kind)) = -1
         \/ \E j \in DOMAIN evs :
              /\ evs[j].k = kind /\ \A g \in DOMAIN evs : evs[g].k = kind => g <= j
              /\ Highest(Of(evs, kind)) = evs[j].i
<1>1. CASE \A g \in DOMAIN evs : evs[g].k # kind
  <2>1. Of(evs, kind) = {}
    BY <1>1 DEF Of
  <2> QED
    BY <1>1, <2>1 DEF Highest
<1>2. CASE \E h \in DOMAIN evs : evs[h].k = kind
  <2>1. PICK h \in DOMAIN evs : evs[h].k \in {kind}
    BY <1>2
  <2>2. \E j \in DOMAIN evs : evs[j].k \in {kind} /\ \A g \in DOMAIN evs : evs[g].k \in {kind} => g <= j
    BY <2>1, LastOfKind
  <2>3. PICK j \in DOMAIN evs : evs[j].k = kind /\ \A g \in DOMAIN evs : evs[g].k = kind => g <= j
    BY <2>2
  <2> QED
    BY <2>3, HighestIsLast
<1> QED
  BY <1>1, <1>2

\* A goal stands that was set after the last time it was cleared.
LEMMA GoalByIndex ==
  ASSUME NEW evs \in Seq(LogEvents), Ordered(evs)
  PROVE  /\ Highest(Of(evs, "set")) > Highest(Of(evs, "clear")) <=> GoalStands(evs)
         /\ (/\ Highest(Of(evs, "set")) > Highest(Of(evs, "clear"))
             /\ \E i \in Of(evs, "met") : i > Highest(Of(evs, "set"))) <=> GoalMet(evs)
<1> DEFINE s == Highest(Of(evs, "set"))
           c == Highest(Of(evs, "clear"))
<1>1. /\ DOMAIN evs = 1 .. Len(evs) /\ Len(evs) \in Nat /\ \A g \in DOMAIN evs : evs[g].i \in Nat
  BY EventsTyped
<1>2. \A g, h \in DOMAIN evs : evs[g].i < evs[h].i <=> g < h
  <2> SUFFICES ASSUME NEW g \in DOMAIN evs, NEW h \in DOMAIN evs
               PROVE  evs[g].i < evs[h].i <=> g < h
    OBVIOUS
  <2>1. (g < h => evs[g].i < evs[h].i) /\ (h < g => evs[h].i < evs[g].i)
    BY DEF Ordered
  <2> QED
    BY <1>1, <2>1
<1>3. CASE \A g \in DOMAIN evs : evs[g].k # "set"
  <2>1. s = -1 /\ ~GoalStands(evs) /\ ~GoalMet(evs)
    BY <1>3, HighestOf DEF GoalStands, GoalMet
  <2>2. ~(s > c)
    <3>1. c = -1 \/ c \in Nat
      BY <1>1, HighestOf
    <3> QED
      BY <2>1, <3>1
  <2> QED
    BY <2>1, <2>2
<1>4. CASE ~(\A g \in DOMAIN evs : evs[g].k # "set")
  <2>1. PICK j \in DOMAIN evs :
          /\ evs[j].k = "set" /\ \A g \in DOMAIN evs : evs[g].k = "set" => g <= j
          /\ s = evs[j].i
    BY <1>4, HighestOf
  <2>2. s > c <=> \A g \in DOMAIN evs : evs[g].k = "clear" => g < j
    <3>1. CASE \A g \in DOMAIN evs : evs[g].k # "clear"
      <4>1. c = -1
        BY <3>1, HighestOf
      <4> QED
        BY <1>1, <2>1, <3>1, <4>1
    <3>2. CASE ~(\A g \in DOMAIN evs : evs[g].k # "clear")
      <4>1. PICK h \in DOMAIN evs :
              /\ evs[h].k = "clear" /\ \A g \in DOMAIN evs : evs[g].k = "clear" => g <= h
              /\ c = evs[h].i
        BY <3>2, HighestOf
      <4>2. s > c <=> h < j
        BY <1>1, <1>2, <2>1, <4>1
      <4> QED
        BY <1>1, <4>1, <4>2
    <3> QED
      BY <3>1, <3>2
  <2> HIDE DEF s, c
  <2>3. s > c <=> GoalStands(evs)
    <3>1. ASSUME s > c
          PROVE  GoalStands(evs)
      <4>1. \A h \in j .. Len(evs) : evs[h].k # "clear"
        BY <1>1, <2>1, <2>2, <3>1
      <4> QED
        BY <2>1, <4>1 DEF GoalStands
    <3>2. ASSUME GoalStands(evs)
          PROVE  s > c
      <4>1. PICK g \in DOMAIN evs : evs[g].k = "set" /\ \A h \in g .. Len(evs) : evs[h].k # "clear"
        BY <3>2 DEF GoalStands
      <4>2. g <= j
        BY <2>1, <4>1
      <4>3. \A h \in DOMAIN evs : evs[h].k = "clear" => h < j
        BY <1>1, <4>1, <4>2
      <4> QED
        BY <2>2, <4>3
    <3> QED
      BY <3>1, <3>2
  <2>4. (s > c /\ \E i \in Of(evs, "met") : i > s) <=> GoalMet(evs)
    <3>1. ASSUME s > c, NEW i \in Of(evs, "met"), i > s
          PROVE  GoalMet(evs)
      <4>1. PICK h \in DOMAIN evs : evs[h].k = "met" /\ i = evs[h].i
        BY <3>1 DEF Of
      <4>2. j < h
        BY <1>1, <1>2, <2>1, <3>1, <4>1
      <4>3. \A g \in (j + 1) .. Len(evs) : evs[g].k \notin {"set", "clear"}
        BY <1>1, <2>1, <2>2, <3>1
      <4> QED
        BY <2>1, <4>1, <4>2, <4>3 DEF GoalMet
    <3>2. ASSUME GoalMet(evs)
          PROVE  s > c /\ \E i \in Of(evs, "met") : i > s
      <4>1. PICK g \in DOMAIN evs, h \in DOMAIN evs :
              /\ g < h /\ evs[g].k = "set" /\ evs[h].k = "met"
              /\ \A f \in (g + 1) .. Len(evs) : evs[f].k \notin {"set", "clear"}
        BY <3>2 DEF GoalMet
      <4>2. g = j
        BY <1>1, <2>1, <4>1
      <4>3. \A f \in DOMAIN evs : evs[f].k = "clear" => f < j
        BY <1>1, <2>1, <4>1, <4>2
      <4>4. evs[h].i > s /\ evs[h].i \in Of(evs, "met")
        BY <1>1, <1>2, <2>1, <4>1, <4>2 DEF Of
      <4> QED
        BY <2>2, <4>3, <4>4
    <3> QED
      BY <3>1, <3>2
  <2> QED
    BY <2>3, <2>4 DEF s, c
<1> QED
  BY <1>3, <1>4

LEMMA RecountedAgrees ==
  ASSUME NEW evs \in Seq(LogEvents), Ordered(evs)
  PROVE  /\ Recounted(evs) \in LogRows /\ CountsAgree(Recounted(evs), evs)
         /\ GoalAgrees(Recounted(evs), evs) /\ (Recounted(evs).met => Recounted(evs).goal)
<1> DEFINE r == Recounted(evs)
<1>1. /\ DOMAIN r = {"users", "calls", "goal", "met"}
      /\ r = [users |-> r.users, calls |-> r.calls, goal |-> r.goal, met |-> r.met]
      /\ r.users = Cardinality(Of(evs, "user")) /\ r.calls = Cardinality(Of(evs, "call"))
      /\ r.goal = (Highest(Of(evs, "set")) > Highest(Of(evs, "clear")))
      /\ r.met = (/\ Highest(Of(evs, "set")) > Highest(Of(evs, "clear"))
                  /\ \E i \in Of(evs, "met") : i > Highest(Of(evs, "set")))
  BY DEF Recounted
<1>2. CountsAgree(r, evs) /\ r.users \in Nat /\ r.calls \in Nat
  BY <1>1, OfCounts, PlacesFinite DEF CountsAgree
<1> HIDE DEF r
<1>3. r.goal \in BOOLEAN /\ r.met \in BOOLEAN
  BY <1>1
<1>4. GoalAgrees(r, evs) /\ (r.met => r.goal)
  BY <1>1, GoalByIndex DEF GoalAgrees
<1>5. r \in LogRows
  BY <1>1, <1>2, <1>3 DEF LogRows
<1> QED
  BY <1>2, <1>4, <1>5 DEF r

\* What one more event changes of the goal.
LEMMA GoalAppended ==
  ASSUME NEW evs \in Seq(LogEvents), NEW e \in LogEvents
  PROVE  /\ e.k = "set" => GoalStands(Append(evs, e)) /\ ~GoalMet(Append(evs, e))
         /\ e.k = "clear" => ~GoalStands(Append(evs, e)) /\ ~GoalMet(Append(evs, e))
         /\ e.k = "met" /\ GoalStands(evs) => GoalStands(Append(evs, e)) /\ GoalMet(Append(evs, e))
         /\ e.k \notin {"set", "clear", "met"} =>
              /\ GoalStands(Append(evs, e)) <=> GoalStands(evs)
              /\ GoalMet(Append(evs, e)) <=> GoalMet(evs)
<1> DEFINE with == Append(evs, e)
           top == Len(evs) + 1
<1>1. /\ DOMAIN evs = 1 .. Len(evs) /\ Len(evs) \in Nat /\ DOMAIN with = 1 .. top
      /\ Len(with) = top /\ with[top] = e /\ top \in DOMAIN with
      /\ \A j \in 1 .. Len(evs) : with[j] = evs[j] /\ j \in DOMAIN with
      /\ \A j \in DOMAIN with : j = top \/ j \in DOMAIN evs
  <2>1. with \in Seq(LogEvents) /\ Len(with) = top /\ with[top] = e /\ Len(evs) \in Nat
    BY AppendProperties
  <2>2. \A j \in 1 .. Len(evs) : with[j] = evs[j]
    BY AppendProperties
  <2> HIDE DEF with
  <2> QED
    BY <2>1, <2>2
<1> HIDE DEF with
<1>2. e.k = "set" => GoalStands(with) /\ ~GoalMet(with)
  <2> SUFFICES ASSUME e.k = "set"
               PROVE  GoalStands(with) /\ ~GoalMet(with)
    OBVIOUS
  <2>1. \A h \in top .. Len(with) : with[h].k # "clear"
    BY <1>1
  <2>2. GoalStands(with)
    BY <1>1, <2>1 DEF GoalStands
  <2>3. ~GoalMet(with)
    <3> SUFFICES ASSUME NEW j \in DOMAIN with, NEW h \in DOMAIN with, j < h,
                        \A g \in (j + 1) .. Len(with) : with[g].k \notin {"set", "clear"}
                 PROVE  FALSE
      BY DEF GoalMet
    <3>1. top \in (j + 1) .. Len(with)
      BY <1>1
    <3> QED
      BY <1>1, <3>1
  <2> QED
    BY <2>2, <2>3
<1>3. e.k = "clear" => ~GoalStands(with) /\ ~GoalMet(with)
  <2> SUFFICES ASSUME e.k = "clear"
               PROVE  ~GoalStands(with) /\ ~GoalMet(with)
    OBVIOUS
  <2>1. ~GoalStands(with)
    <3> SUFFICES ASSUME NEW j \in DOMAIN with, \A h \in j .. Len(with) : with[h].k # "clear"
                 PROVE  FALSE
      BY DEF GoalStands
    <3>1. top \in j .. Len(with)
      BY <1>1
    <3> QED
      BY <1>1, <3>1
  <2>2. ~GoalMet(with)
    <3> SUFFICES ASSUME NEW j \in DOMAIN with, NEW h \in DOMAIN with, j < h,
                        \A g \in (j + 1) .. Len(with) : with[g].k \notin {"set", "clear"}
                 PROVE  FALSE
      BY DEF GoalMet
    <3>1. top \in (j + 1) .. Len(with)
      BY <1>1
    <3> QED
      BY <1>1, <3>1
  <2> QED
    BY <2>1, <2>2
<1>4. e.k # "set" /\ e.k # "clear" => (GoalStands(with) <=> GoalStands(evs))
  <2> SUFFICES ASSUME e.k # "set", e.k # "clear"
               PROVE  GoalStands(with) <=> GoalStands(evs)
    OBVIOUS
  <2>1. ASSUME NEW j \in DOMAIN evs, evs[j].k = "set", \A h \in j .. Len(evs) : evs[h].k # "clear"
        PROVE  GoalStands(with)
    <3>1. \A h \in j .. Len(with) : with[h].k # "clear"
      <4> SUFFICES ASSUME NEW h \in j .. Len(with)
                   PROVE  with[h].k # "clear"
        OBVIOUS
      <4>1. h = top \/ h \in j .. Len(evs)
        BY <1>1
      <4> QED
        BY <1>1, <2>1, <4>1
    <3>2. j \in DOMAIN with /\ with[j].k = "set"
      BY <1>1, <2>1
    <3> QED
      BY <3>1, <3>2 DEF GoalStands
  <2>2. ASSUME NEW j \in DOMAIN with, with[j].k = "set", \A h \in j .. Len(with) : with[h].k # "clear"
        PROVE  GoalStands(evs)
    <3>1. j \in DOMAIN evs /\ evs[j].k = "set"
      BY <1>1, <2>2
    <3>2. \A h \in j .. Len(evs) : h \in j .. Len(with) /\ evs[h] = with[h]
      BY <1>1, <3>1
    <3> QED
      BY <2>2, <3>1, <3>2 DEF GoalStands
  <2> QED
    BY <2>1, <2>2 DEF GoalStands
<1>5. e.k \notin {"set", "clear", "met"} => (GoalMet(with) <=> GoalMet(evs))
  <2> SUFFICES ASSUME e.k \notin {"set", "clear", "met"}
               PROVE  GoalMet(with) <=> GoalMet(evs)
    OBVIOUS
  <2>1. ASSUME NEW j \in DOMAIN evs, NEW h \in DOMAIN evs, j < h, evs[j].k = "set", evs[h].k = "met",
               \A g \in (j + 1) .. Len(evs) : evs[g].k \notin {"set", "clear"}
        PROVE  GoalMet(with)
    <3>1. \A g \in (j + 1) .. Len(with) : with[g].k \notin {"set", "clear"}
      <4> SUFFICES ASSUME NEW g \in (j + 1) .. Len(with)
                   PROVE  with[g].k \notin {"set", "clear"}
        OBVIOUS
      <4>1. g = top \/ g \in (j + 1) .. Len(evs)
        BY <1>1
      <4> QED
        BY <1>1, <2>1, <4>1
    <3>2. /\ j \in DOMAIN with /\ with[j].k = "set" /\ h \in DOMAIN with /\ with[h].k = "met"
      BY <1>1, <2>1
    <3> QED
      BY <2>1, <3>1, <3>2 DEF GoalMet
  <2>2. ASSUME NEW j \in DOMAIN with, NEW h \in DOMAIN with, j < h, with[j].k = "set",
               with[h].k = "met", \A g \in (j + 1) .. Len(with) : with[g].k \notin {"set", "clear"}
        PROVE  GoalMet(evs)
    <3>1. j \in DOMAIN evs /\ evs[j].k = "set" /\ h \in DOMAIN evs /\ evs[h].k = "met"
      BY <1>1, <2>2
    <3>2. \A g \in (j + 1) .. Len(evs) : g \in (j + 1) .. Len(with) /\ evs[g] = with[g]
      BY <1>1, <3>1
    <3> QED
      BY <2>2, <3>1, <3>2 DEF GoalMet
  <2> QED
    BY <2>1, <2>2 DEF GoalMet
<1>6. e.k = "met" /\ GoalStands(evs) => GoalMet(with)
  <2> SUFFICES ASSUME e.k = "met", NEW s \in DOMAIN evs, evs[s].k = "set",
                      \A h \in s .. Len(evs) : evs[h].k # "clear"
               PROVE  GoalMet(with)
    BY DEF GoalStands
  <2>1. \E j \in DOMAIN evs : evs[j].k \in {"set"} /\ \A g \in DOMAIN evs : evs[g].k \in {"set"} => g <= j
    BY LastOfKind
  <2>2. PICK j \in DOMAIN evs : evs[j].k = "set" /\ \A g \in DOMAIN evs : evs[g].k = "set" => g <= j
    BY <2>1
  <2>3. s <= j
    BY <2>2
  <2>4. \A g \in (j + 1) .. Len(with) : with[g].k \notin {"set", "clear"}
    <3> SUFFICES ASSUME NEW g \in (j + 1) .. Len(with)
                 PROVE  with[g].k \notin {"set", "clear"}
      OBVIOUS
    <3>1. g = top \/ (g \in s .. Len(evs) /\ g \in DOMAIN evs /\ ~(g <= j))
      BY <1>1, <2>3
    <3> QED
      BY <1>1, <2>2, <3>1
  <2>5. j \in DOMAIN with /\ with[j].k = "set" /\ j < top /\ with[top].k = "met"
    BY <1>1, <2>2
  <2> QED
    BY <1>1, <2>4, <2>5 DEF GoalMet
<1> QED
  BY <1>2, <1>3, <1>4, <1>5, <1>6 DEF with

LEMMA OrderedAppend ==
  ASSUME NEW evs \in Seq(LogEvents), Ordered(evs), NEW e \in LogEvents, e.i = MaxIndex(evs) + 1,
         e.k = "meta" => \A g \in DOMAIN evs : evs[g].k # "meta"
  PROVE  Append(evs, e) \in Seq(LogEvents) /\ Ordered(Append(evs, e))
<1> DEFINE with == Append(evs, e)
           top == Len(evs) + 1
<1>1. /\ with \in Seq(LogEvents) /\ Len(with) = top /\ with[top] = e /\ Len(evs) \in Nat
      /\ \A j \in 1 .. Len(evs) : with[j] = evs[j]
  BY AppendProperties
<1>2. /\ DOMAIN evs = 1 .. Len(evs) /\ Len(evs) \in Nat /\ \A g \in DOMAIN evs : evs[g].i \in Nat
  BY EventsTyped
<1>3. \A g \in DOMAIN evs : evs[g].i < e.i
  <2> SUFFICES ASSUME NEW g \in DOMAIN evs
               PROVE  evs[g].i < e.i
    OBVIOUS
  <2>1. evs # <<>> /\ Len(evs) \in DOMAIN evs /\ (g = Len(evs) \/ g < Len(evs))
    BY <1>2
  <2>2. e.i = evs[Len(evs)].i + 1
    BY <2>1 DEF MaxIndex, Last
  <2>3. g < Len(evs) => evs[g].i < evs[Len(evs)].i
    BY <2>1 DEF Ordered
  <2> QED
    BY <1>2, <2>1, <2>2, <2>3
<1> HIDE DEF with
<1>4. DOMAIN with = 1 .. top
  BY <1>1
<1>5. ASSUME NEW g \in DOMAIN with, NEW h \in DOMAIN with
      PROVE  /\ g < h => with[g].i < with[h].i
             /\ with[g].k = "meta" /\ with[h].k = "meta" => g = h
  <2>1. (g = top \/ g \in DOMAIN evs) /\ (h = top \/ h \in DOMAIN evs)
    BY <1>2, <1>4
  <2>2. CASE g \in DOMAIN evs /\ h \in DOMAIN evs
    BY <1>1, <1>2, <2>2 DEF Ordered
  <2>3. CASE g \in DOMAIN evs /\ h = top
    BY <1>1, <1>2, <1>3, <2>3
  <2>4. CASE g = top /\ h \in DOMAIN evs
    <3>1. ~(g < h)
      BY <1>2, <2>4
    <3> QED
      BY <1>1, <1>2, <2>4, <3>1
  <2>5. CASE g = top /\ h = top
    BY <1>1, <2>5
  <2> QED
    BY <2>1, <2>2, <2>3, <2>4, <2>5
<1>6. Ordered(with)
  BY <1>5 DEF Ordered
<1> QED
  BY <1>1, <1>6 DEF with

\* A part of the log in the log's order.
LEMMA OrderedPart ==
  ASSUME NEW evs \in Seq(LogEvents), Ordered(evs), NEW part \in Seq(LogEvents),
         NEW f \in [DOMAIN part -> DOMAIN evs],
         \A g, h \in DOMAIN part : g < h => f[g] < f[h],
         \A g \in DOMAIN part : part[g] = evs[f[g]]
  PROVE  Ordered(part)
<1> SUFFICES ASSUME NEW g \in DOMAIN part, NEW h \in DOMAIN part
             PROVE  /\ g < h => part[g].i < part[h].i
                    /\ part[g].k = "meta" /\ part[h].k = "meta" => g = h
  BY DEF Ordered
<1>1. f[g] \in DOMAIN evs /\ f[h] \in DOMAIN evs /\ part[g] = evs[f[g]] /\ part[h] = evs[f[h]]
  OBVIOUS
<1>2. g < h => part[g].i < part[h].i
  BY <1>1 DEF Ordered
<1>3. ASSUME part[g].k = "meta", part[h].k = "meta"
      PROVE  g = h
  <2>1. f[g] = f[h]
    BY <1>1, <1>3 DEF Ordered
  <2>2. g \in Int /\ h \in Int /\ f[g] \in Int
    BY <1>1
  <2>3. ~(g < h) /\ ~(h < g)
    BY <2>1, <2>2
  <2> QED
    BY <2>2, <2>3
<1> QED
  BY <1>2, <1>3

LEMMA OrderedBeginning ==
  ASSUME NEW evs \in Seq(LogEvents), Ordered(evs), NEW j \in 0 .. Len(evs)
  PROVE  SubSeq(evs, 1, j) \in Seq(LogEvents) /\ Ordered(SubSeq(evs, 1, j)) /\ Len(SubSeq(evs, 1, j)) = j
<1> DEFINE part == SubSeq(evs, 1, j)
           f == [g \in DOMAIN part |-> g]
<1>1. /\ part \in Seq(LogEvents) /\ Len(part) = j /\ \A g \in 1 .. j : part[g] = evs[g]
      /\ Len(evs) \in Nat
  BY SubSeqProperties
<1> HIDE DEF part
<1>2. DOMAIN part = 1 .. j /\ DOMAIN evs = 1 .. Len(evs)
  BY <1>1
<1>3. f \in [DOMAIN part -> DOMAIN evs] /\ \A g \in DOMAIN part : f[g] = g
  BY <1>2
<1> HIDE DEF f
<1>4. \A g, h \in DOMAIN part : g < h => f[g] < f[h]
  BY <1>3
<1>5. \A g \in DOMAIN part : part[g] = evs[f[g]]
  BY <1>1, <1>2, <1>3
<1>6. Ordered(part)
  BY <1>1, <1>3, <1>4, <1>5, OrderedPart
<1> QED
  BY <1>1, <1>6 DEF part

\* What a fork copies has no event that describes the parent.
LEMMA OrderedCopy ==
  ASSUME NEW evs \in Seq(LogEvents), Ordered(evs),
         NEW copied, copied = RemoveFirstMatch(evs, LAMBDA e : e.k = "meta")
  PROVE  copied \in Seq(LogEvents) /\ Ordered(copied) /\ \A g \in DOMAIN copied : copied[g].k # "meta"
<1> DEFINE I == {g \in 1 .. Len(evs) : evs[g].k = "meta"}
<1>1. DOMAIN evs = 1 .. Len(evs) /\ Len(evs) \in Nat
  OBVIOUS
<1>2. CASE I = {}
  <2>1. copied = evs
    BY <1>2 DEF RemoveFirstMatch
  <2> QED
    BY <1>1, <1>2, <2>1
<1>3. CASE I # {}
  <2>1. PICK m \in DOMAIN evs : evs[m].k = "meta"
    BY <1>1, <1>3
  <2>2. I = {m}
    BY <1>1, <2>1 DEF Ordered
  <2>3. SelectInSeq(evs, LAMBDA e : e.k = "meta") = m
    BY <2>2 DEF SelectInSeq, Min
  <2>4. copied = SubSeq(evs, 1, m - 1) \o SubSeq(evs, m + 1, Len(evs))
    BY <1>3, <2>3 DEF RemoveFirstMatch, RemoveAt
  <2> DEFINE part == SubSeq(evs, 1, m - 1) \o SubSeq(evs, m + 1, Len(evs))
             f == [g \in DOMAIN part |-> IF g < m THEN g ELSE g + 1]
  <2>5. /\ part \in Seq(LogEvents) /\ Len(part) = Len(evs) - 1
        /\ \A g \in 1 .. (Len(evs) - 1) : part[g] = IF g < m THEN evs[g] ELSE evs[g + 1]
    <3> DEFINE a == SubSeq(evs, 1, m - 1)
               b == SubSeq(evs, m + 1, Len(evs))
    <3>1. /\ a \in Seq(LogEvents) /\ Len(a) = m - 1 /\ \A g \in 1 .. (m - 1) : a[g] = evs[g]
      BY <1>1, SubSeqProperties
    <3>2. /\ b \in Seq(LogEvents) /\ Len(b) = Len(evs) - m
          /\ \A g \in 1 .. (Len(evs) - m) : b[g] = evs[m + g]
      <4>1. /\ m + 1 \in 1 .. Len(evs) + 1 /\ Len(evs) \in m .. Len(evs)
        BY <1>1
      <4> QED
        BY <1>1, <4>1, SubSeqProperties
    <3> HIDE DEF a, b
    <3>3. /\ a \o b \in Seq(LogEvents) /\ Len(a \o b) = Len(a) + Len(b)
          /\ \A g \in 1 .. Len(a) + Len(b) : (a \o b)[g] = IF g <= Len(a) THEN a[g] ELSE b[g - Len(a)]
      BY <3>1, <3>2, ConcatProperties
    <3>4. Len(a \o b) = Len(evs) - 1 /\ Len(a) + Len(b) = Len(evs) - 1
      BY <1>1, <3>1, <3>2, <3>3
    <3>5. ASSUME NEW g \in 1 .. (Len(evs) - 1)
          PROVE  (a \o b)[g] = IF g < m THEN evs[g] ELSE evs[g + 1]
      <4>1. CASE g < m
        BY <1>1, <3>1, <3>3, <3>4, <4>1
      <4>2. CASE ~(g < m)
        <5>1. g - (m - 1) \in 1 .. (Len(evs) - m) /\ m + (g - (m - 1)) = g + 1 /\ ~(g <= m - 1)
          BY <1>1, <4>2
        <5>2. g \in 1 .. Len(a) + Len(b) /\ Len(a) = m - 1
          BY <3>1, <3>4
        <5>3. (a \o b)[g] = b[g - (m - 1)]
          BY <3>3, <5>1, <5>2
        <5>4. b[g - (m - 1)] = evs[g + 1]
          BY <3>2, <5>1
        <5> QED
          BY <4>2, <5>3, <5>4
      <4> QED
        BY <4>1, <4>2
    <3> QED
      BY <3>3, <3>4, <3>5 DEF a, b
  <2> HIDE DEF part
  <2>6. DOMAIN part = 1 .. (Len(evs) - 1)
    BY <2>5
  <2>7. /\ f \in [DOMAIN part -> DOMAIN evs]
        /\ \A g \in DOMAIN part : f[g] = (IF g < m THEN g ELSE g + 1) /\ f[g] # m
    BY <1>1, <2>6
  <2> HIDE DEF f
  <2>8. /\ \A g, h \in DOMAIN part : g < h => f[g] < f[h]
    BY <1>1, <2>6, <2>7
  <2>9. \A g \in DOMAIN part : part[g] = evs[f[g]]
    BY <2>5, <2>6, <2>7
  <2>10. Ordered(part)
    BY <2>5, <2>7, <2>8, <2>9, OrderedPart
  <2>11. \A g \in DOMAIN part : part[g].k # "meta"
    BY <1>1, <2>2, <2>7, <2>9
  <2> QED
    BY <2>4, <2>5, <2>10, <2>11 DEF part
<1> QED
  BY <1>2, <1>3

-----------------------------------------------------------------------------
LEMMA ProcTyped ==
  ASSUME NEW r \in LogProcs
  PROVE  /\ r.at \in {"down", "scanned", "rebuild", "rewrite", "up"} /\ r.found \in Seq(LogEvents)
         /\ r.due \in {{}} \cup {{k} : k \in EventKinds \cap {"set", "clear", "met"}}
         /\ r.todo \in Seq(LogEvents) /\ r.queue \in Seq(LogEvents)
         /\ Len(r.todo) \in Nat /\ Len(r.queue) \in Nat
         /\ r.done \in LogEvents \cup {NoEvent} /\ r.through \in Int /\ r.cut \in Cuts
<1>1. r.todo \in Seq(LogEvents) /\ r.queue \in Seq(LogEvents)
  BY DEF LogProcs
<1>2. Len(r.todo) \in Nat /\ Len(r.queue) \in Nat
  BY <1>1
<1> QED
  BY <1>1, <1>2 DEF LogProcs

\* The more events are behind, the more the file can have lost.
LEMMA AccountsForMore ==
  ASSUME NEW ls \in Seq(Int), NEW m \in Int, NEW w \in Int, m <= w, LinesAccount(ls, m)
  PROVE  LinesAccount(ls, w)
<1>1. Len(ls) \in Nat /\ DOMAIN ls = 1 .. Len(ls) /\ \A j \in DOMAIN ls : ls[j] \in Int
  OBVIOUS
<1>2. Len(ls) <= w /\ (Len(ls) < m => Len(ls) < w)
  BY <1>1 DEF LinesAccount
<1>3. \A j \in DOMAIN ls : ls[j] + (Len(ls) - j) <= m => ls[j] + (Len(ls) - j) <= w
  BY <1>1
<1> QED
  BY <1>2, <1>3 DEF LinesAccount

\* What is so behind a process is so behind one that is down.
LEMMA DownIsTold ==
  ASSUME NEW r \in LogProcs, NEW d \in LogProcs, d.at = "down", Started(d), NEW evs, NEW w \in Nat,
         NEW ls \in Seq(Int), NEW off \in Int, NEW wh, NEW wh2, LinesTold(r, evs, w, ls, off, wh)
  PROVE  LinesTold(d, evs, w, ls, off, wh2)
<1>1. /\ d.queue = <<>> /\ d.todo = <<>> /\ d.done = NoEvent /\ d.through = -1
  BY DEF Started
<1>2. Behind(d, w) = w /\ DOMAIN d.queue = {} /\ DOMAIN d.todo = {}
  BY <1>1 DEF Behind
<1>3. Behind(r, w) <= w /\ Behind(r, w) \in Int
  BY ProcTyped DEF Behind
<1>4. Waits(d, evs, w, ls)
  BY <1>1, <1>2 DEF Waits, Queued
<1>5. LinesAccount(ls, w)
  BY <1>3, AccountsForMore DEF LinesTold
<1>6. off < w /\ (EndsCut(ls) => off + 1 < w)
  BY <1>3 DEF LinesTold
<1> QED
  BY <1>2, <1>4, <1>5, <1>6 DEF LinesTold

\* It is enough to look at the process that moves.
LEMMA Kept ==
  ASSUME SLInv, NEW p \in Processes, NEW r \in LogProcs, Set(p, r), Started(r),
         rows' \in Seq(LogEvents), Ordered(rows'), row' \in LogRows, lines' \in Seq(Int),
         offset' \in Int, written' \in Nat, faults' \in Nat, rolled' \in Nat,
         whole' \in BOOLEAN, shared' \in BOOLEAN, torn' \in BOOLEAN,
         ~shared' => ~shared /\ (procs[p].at # "down" \/ Alone(p)),
         procs[p].at = "down" => r.at # "down",
         rolled' = 0 => rolled = 0 /\ r.cut = {} /\ Numbered(rows') /\ written' = Len(rows'),
         ~torn' /\ ~shared' => ColumnsTold(r, row', rows'),
         ~torn' /\ rolled' = 0 => CountsAgree(row', rows'),
         rolled' = 0 /\ ~shared' => LinesTold(r, rows', written', lines', offset', whole')
  PROVE  SLInv'
<1>1. /\ procs' \in [Processes -> LogProcs] /\ procs'[p] = r
      /\ \A q \in Processes \ {p} : procs'[q] = procs[q]
  BY DEF Set, SLInv, LogShape, LogTypes
<1>2. ASSUME ~shared', NEW q \in Processes \ {p}
      PROVE  procs'[q].at = "down"
  <2>1. ~shared /\ (procs[p].at # "down" \/ Alone(p))
    BY <1>2
  <2>2. procs[q].at = "down"
    BY <2>1 DEF Alone, SLInv, LogShape
  <2> QED
    BY <1>1, <2>2
<1>3. \A q \in Processes : Started(procs'[q])
  BY <1>1 DEF SLInv, LogShape
<1>4. LogTypes'
  BY <1>1 DEF LogTypes
<1>5. rolled' = 0 => \A q \in Processes : procs'[q].cut = {}
  BY <1>1 DEF SLInv, LogShape
<1>6. LogShape'
  <2>1. ~shared' => \A q, s \in Processes : q = s \/ procs'[q].at = "down" \/ procs'[s].at = "down"
    BY <1>2
  <2> QED
    BY <1>3, <1>4, <1>5, <2>1 DEF LogShape
<1>7. ColumnsInv'
  <2>1. ASSUME ~torn', ~shared', NEW q \in Processes, \A s \in Processes \ {q} : procs'[s].at = "down"
        PROVE  ColumnsTold(procs'[q], row', rows')
    <3>1. CASE q = p
      BY <1>1, <2>1, <3>1
    <3>2. CASE q # p
      <4>1. procs'[q].at = "down" /\ r.at = "down"
        BY <1>1, <1>2, <2>1, <3>2
      <4>2. /\ procs'[q].due = {} /\ procs'[q].cut = {} /\ r.due = {} /\ r.cut = {}
        BY <1>3, <4>1 DEF Started
      <4>3. ColumnsTold(r, row', rows')
        BY <2>1
      <4>4. \A c : {<<c>>} # {}
        OBVIOUS
      <4> QED
        BY <4>2, <4>3, <4>4 DEF ColumnsTold
    <3> QED
      BY <3>1, <3>2
  <2> QED
    BY <2>1 DEF ColumnsInv, Sole
<1>8. TranscriptInv'
  <2>1. ASSUME rolled' = 0, ~shared', NEW q \in Processes
        PROVE  LinesTold(procs'[q], rows', written', lines', offset', whole')
    <3>1. CASE q = p
      BY <1>1, <2>1, <3>1
    <3>2. CASE q # p
      <4>1. procs'[q].at = "down" /\ procs'[q] \in LogProcs /\ Started(procs'[q])
        BY <1>1, <1>2, <1>3, <2>1, <3>2
      <4>2. LinesTold(r, rows', written', lines', offset', whole')
        BY <2>1
      <4> QED
        BY <4>1, <4>2, DownIsTold
    <3> QED
      BY <3>1, <3>2
  <2> QED
    BY <2>1 DEF TranscriptInv
<1> QED
  BY <1>6, <1>7, <1>8 DEF SLInv

\* What the invariant says of a process that moves.
LEMMA Here ==
  ASSUME SLInv, NEW p \in Processes
  PROVE  /\ procs[p] \in LogProcs /\ Started(procs[p])
         /\ rows \in Seq(LogEvents) /\ Ordered(rows) /\ row \in LogRows /\ lines \in Seq(Int)
         /\ offset \in Int /\ written \in Nat /\ faults \in Nat /\ rolled \in Nat
         /\ whole \in BOOLEAN /\ shared \in BOOLEAN /\ torn \in BOOLEAN
         /\ rolled = 0 => procs[p].cut = {} /\ Numbered(rows) /\ written = Len(rows)
         /\ ~torn /\ ~shared /\ (procs[p].at # "down" \/ Alone(p)) => ColumnsTold(procs[p], row, rows)
         /\ ~torn /\ rolled = 0 => CountsAgree(row, rows)
         /\ rolled = 0 /\ ~shared => LinesTold(procs[p], rows, written, lines, offset, whole)
<1>1. ~shared /\ (procs[p].at # "down" \/ Alone(p)) => Sole(p)
  BY DEF SLInv, LogShape, Sole, Alone
<1> QED
  BY <1>1 DEF SLInv, LogShape, LogTypes, ColumnsInv, TranscriptInv

-----------------------------------------------------------------------------
LEMMA OneOf ==
  ASSUME NEW e \in LogEvents, NEW kind
  PROVE  Cardinality(Of(<<e>>, kind)) = IF e.k = kind THEN 1 ELSE 0
<1>1. DOMAIN <<e>> = {1} /\ <<e>>[1] = e
  OBVIOUS
<1>2. Of(<<e>>, kind) = IF e.k = kind THEN {e.i} ELSE {}
  BY <1>1 DEF Of
<1>3. Cardinality({e.i}) = 1 /\ Cardinality({}) = 0
  BY FS_Singleton, FS_EmptySet
<1> QED
  BY <1>2, <1>3

\* append_event, with nothing waiting to be queued.
LEMMA CommitKeeps ==
  ASSUME SLInv, NEW p \in Processes, NEW k \in LogKinds, Committed(p, <<New(k)>>),
         procs[p].at = "up", procs[p].todo = <<>>, procs[p].cut = {}, k = "meta" => rows = <<>>,
         procs[p].due = IF k \in {"set", "clear", "met"} THEN {k} ELSE {},
         UNCHANGED <<lines, offset, faults, rolled, whole, shared, torn>>
  PROVE  SLInv'
<1> DEFINE o == procs[p]
           e == New(k)
           r == [o EXCEPT !.todo = <<e>>, !.due = {}]
<1>1. /\ o \in LogProcs /\ Started(o)
      /\ rows \in Seq(LogEvents) /\ Ordered(rows) /\ row \in LogRows /\ lines \in Seq(Int)
      /\ offset \in Int /\ written \in Nat /\ faults \in Nat /\ rolled \in Nat
      /\ whole \in BOOLEAN /\ shared \in BOOLEAN /\ torn \in BOOLEAN
      /\ rolled = 0 => Numbered(rows) /\ written = Len(rows)
      /\ ~torn /\ ~shared => ColumnsTold(o, row, rows)
      /\ ~torn /\ rolled = 0 => CountsAgree(row, rows)
      /\ rolled = 0 /\ ~shared => LinesTold(o, rows, written, lines, offset, whole)
  BY Here
<1>2. MaxIndex(rows) \in Int /\ MaxIndex(rows) >= -1 /\ (Numbered(rows) => MaxIndex(rows) = Len(rows) - 1)
  <2>1. CASE rows = <<>>
    BY <2>1 DEF MaxIndex
  <2>2. CASE rows # <<>>
    <3>1. Len(rows) \in DOMAIN rows /\ MaxIndex(rows) = rows[Len(rows)].i
      BY <1>1, <2>2 DEF MaxIndex, Last
    <3>2. rows[Len(rows)].i \in Nat
      BY <1>1, <3>1, EventsTyped
    <3> QED
      BY <3>1, <3>2 DEF Numbered
  <2> QED
    BY <2>1, <2>2
<1>3. e \in LogEvents /\ e.k = k /\ e.i = MaxIndex(rows) + 1 /\ e.n = written + 1
  BY <1>1, <1>2 DEF New, LogEvents
<1> HIDE DEF e
<1>4. rows' = Append(rows, e) /\ written' = written + 1 /\ Set(p, r)
  <2>1. rows' = rows \o <<e>> /\ Len(<<e>>) = 1
    BY DEF Committed, e
  <2>2. rows' = Append(rows, e)
    BY <1>1, <1>3, <2>1, AppendIsConcat
  <2> QED
    BY <2>1, <2>2 DEF Committed, e
<1>5. /\ row' \in LogRows /\ row'.goal = row.goal /\ row'.met = row.met
      /\ row'.users = row.users + (IF k = "user" THEN 1 ELSE 0)
      /\ row'.calls = row.calls + (IF k = "call" THEN 1 ELSE 0)
  <2> DEFINE u == IF k = "user" THEN 1 ELSE 0
             c == IF k = "call" THEN 1 ELSE 0
  <2>1. row' = [row EXCEPT !.users = @ + u, !.calls = @ + c]
    BY <1>3, OneOf DEF Committed, e
  <2>2. u \in Nat /\ c \in Nat
    OBVIOUS
  <2> HIDE DEF u, c
  <2>3. /\ row.users \in Nat /\ row.calls \in Nat /\ row.goal \in BOOLEAN /\ row.met \in BOOLEAN
        /\ row = [users |-> row.users, calls |-> row.calls, goal |-> row.goal, met |-> row.met]
    BY <1>1 DEF LogRows
  <2>4. row' = [users |-> row.users + u, calls |-> row.calls + c, goal |-> row.goal, met |-> row.met]
    BY <2>1, <2>3
  <2>5. row.users + u \in Nat /\ row.calls + c \in Nat
    BY <2>2, <2>3
  <2>6. /\ row' \in LogRows /\ row'.goal = row.goal /\ row'.met = row.met
        /\ row'.users = row.users + u /\ row'.calls = row.calls + c
    BY <2>3, <2>4, <2>5 DEF LogRows
  <2> QED
    BY <2>6 DEF u, c
<1>6. rows' \in Seq(LogEvents) /\ Ordered(rows')
  <2>1. k = "meta" => \A g \in DOMAIN rows : rows[g].k # "meta"
    OBVIOUS
  <2> QED
    BY <1>1, <1>3, <1>4, <2>1, OrderedAppend
<1>7. /\ r \in LogProcs /\ r.todo = <<e>> /\ r.due = {} /\ r.at = "up" /\ r.cut = {}
      /\ r.queue = o.queue /\ r.done = o.done /\ r.through = o.through
  <2>1. <<e>> \in Seq(LogEvents)
    BY <1>3
  <2> QED
    BY <1>1, <2>1 DEF LogProcs
<1>8. Started(r)
  BY <1>7 DEF Started
<1> HIDE DEF r
<1>9. CountsAgree(row, rows) => CountsAgree(row', rows')
  BY <1>1, <1>3, <1>4, <1>5, CountOfMore DEF CountsAgree
<1>10. ColumnsTold(o, row, rows) => ColumnsTold(r, row', rows')
  <2> SUFFICES ASSUME ColumnsTold(o, row, rows)
               PROVE  ColumnsTold(r, row', rows')
    OBVIOUS
  <2>1. \A c : {<<c>>} # {}
    OBVIOUS
  <2>2. CountsAgree(row', rows')
    BY <1>9 DEF ColumnsTold
  <2>3. GoalAgrees(row', rows')
    <3>1. CASE k \in {"set", "clear", "met"}
      <4>1. GoalDue(k, row, rows)
        BY <3>1 DEF ColumnsTold
      <4> QED
        BY <1>1, <1>3, <1>4, <1>5, <3>1, <4>1, GoalAppended DEF GoalDue, GoalAgrees
    <3>2. CASE k \notin {"set", "clear", "met"}
      <4>1. GoalAgrees(row, rows)
        BY <3>2 DEF ColumnsTold
      <4> QED
        BY <1>1, <1>3, <1>4, <1>5, <3>2, <4>1, GoalAppended DEF GoalAgrees
    <3> QED
      BY <3>1, <3>2
  <2> QED
    BY <1>7, <2>1, <2>2, <2>3 DEF ColumnsTold
<1>11. ASSUME rolled = 0
       PROVE  Numbered(rows') /\ written' = Len(rows')
  <2>1. /\ Len(rows') = Len(rows) + 1 /\ rows'[Len(rows) + 1] = e /\ Len(rows) \in Nat
        /\ \A j \in 1 .. Len(rows) : rows'[j] = rows[j]
    BY <1>1, <1>3, <1>4, AppendProperties
  <2>2. DOMAIN rows' = 1 .. (Len(rows) + 1) /\ DOMAIN rows = 1 .. Len(rows)
    BY <1>1, <1>6, <2>1
  <2>3. ASSUME NEW j \in DOMAIN rows'
        PROVE  rows'[j].i = j - 1 /\ rows'[j].n = j
    <3>1. CASE j \in 1 .. Len(rows)
      BY <1>1, <1>11, <2>1, <2>2, <3>1 DEF Numbered
    <3>2. CASE j = Len(rows) + 1
      BY <1>1, <1>2, <1>3, <1>11, <2>1, <3>2
    <3> QED
      BY <2>1, <2>2, <3>1, <3>2
  <2> QED
    BY <1>1, <1>4, <1>11, <2>1, <2>3 DEF Numbered
<1>12. ASSUME rolled = 0, ~shared
       PROVE  LinesTold(r, rows', written', lines', offset', whole')
  <2>1. LinesTold(o, rows, written, lines, offset, whole) /\ written = Len(rows)
    BY <1>1, <1>12
  <2>2. /\ Len(rows') = Len(rows) + 1 /\ rows'[Len(rows) + 1] = e /\ Len(rows) \in Nat
        /\ \A j \in 1 .. Len(rows) : rows'[j] = rows[j]
    BY <1>1, <1>3, <1>4, AppendProperties
  <2>3. /\ Behind(r, written') = Behind(o, written) /\ Behind(o, written) = Len(rows) - Len(o.queue)
        /\ Len(o.queue) \in Nat /\ o.queue \in Seq(LogEvents) /\ DOMAIN o.queue = 1 .. Len(o.queue)
    <3>1. Len(r.todo) = 1 /\ Len(o.todo) = 0 /\ Len(o.queue) \in Nat /\ o.queue \in Seq(LogEvents)
      BY <1>1, <1>7, ProcTyped
    <3> QED
      BY <1>1, <1>4, <1>7, <2>1, <3>1 DEF Behind
  <2>4. \A j \in DOMAIN r.queue : r.queue[j] = rows'[Behind(r, written') + j]
    <3> SUFFICES ASSUME NEW j \in DOMAIN o.queue
                 PROVE  o.queue[j] = rows'[Behind(o, written) + j]
      BY <1>7, <2>3
    <3>1. o.queue[j] = rows[Behind(o, written) + j] /\ Behind(o, written) >= 0
      BY <2>1 DEF LinesTold, Waits, Queued
    <3>2. Behind(o, written) + j \in 1 .. Len(rows)
      BY <2>2, <2>3, <3>1
    <3> QED
      BY <2>2, <3>1, <3>2
  <2>5. \A j \in DOMAIN r.todo : r.todo[j] = rows'[Behind(r, written') + Len(r.queue) + j]
    <3>1. DOMAIN r.todo = {1} /\ r.todo[1] = e
      BY <1>7
    <3>2. Behind(r, written') + Len(r.queue) + 1 = Len(rows) + 1
      BY <1>7, <2>2, <2>3
    <3> QED
      BY <2>2, <3>1, <3>2
  <2>6. Waits(r, rows', written', lines')
    BY <1>7, <2>1, <2>3, <2>4, <2>5 DEF LinesTold, Waits, Queued
  <2> QED
    BY <1>7, <2>1, <2>3, <2>6 DEF LinesTold
<1>13. /\ lines' \in Seq(Int) /\ offset' \in Int /\ written' \in Nat /\ faults' \in Nat
       /\ rolled' \in Nat /\ whole' \in BOOLEAN /\ shared' \in BOOLEAN /\ torn' \in BOOLEAN
       /\ ~shared' => ~shared /\ procs[p].at # "down"
       /\ rolled' = 0 => rolled = 0 /\ r.cut = {} /\ Numbered(rows') /\ written' = Len(rows')
       /\ ~torn' /\ ~shared' => ColumnsTold(r, row', rows')
       /\ ~torn' /\ rolled' = 0 => CountsAgree(row', rows')
       /\ rolled' = 0 /\ ~shared' => LinesTold(r, rows', written', lines', offset', whole')
  BY <1>1, <1>4, <1>7, <1>9, <1>10, <1>11, <1>12
<1> QED
  BY <1>4, <1>5, <1>6, <1>7, <1>8, <1>13, Kept

\* A step of the worker, or of an open: the events and the columns stay.
LEMMA OnlyTheFile ==
  ASSUME SLInv, NEW p \in Processes, NEW r \in LogProcs, Set(p, r), Started(r),
         procs[p].at # "down", r.due = procs[p].due, r.cut = procs[p].cut,
         UNCHANGED <<rows, row, written, rolled, shared, torn>>,
         lines' \in Seq(Int), offset' \in Int, faults' \in Nat, whole' \in BOOLEAN,
         ASSUME rolled = 0, ~shared, Numbered(rows), written = Len(rows),
                LinesTold(procs[p], rows, written, lines, offset, whole)
         PROVE  LinesTold(r, rows, written, lines', offset', whole')
  PROVE  SLInv'
<1> DEFINE o == procs[p]
<1>1. /\ o \in LogProcs /\ rows \in Seq(LogEvents) /\ Ordered(rows) /\ row \in LogRows
      /\ written \in Nat /\ rolled \in Nat /\ shared \in BOOLEAN /\ torn \in BOOLEAN
      /\ rolled = 0 => o.cut = {} /\ Numbered(rows) /\ written = Len(rows)
      /\ ~torn /\ ~shared => ColumnsTold(o, row, rows)
      /\ ~torn /\ rolled = 0 => CountsAgree(row, rows)
      /\ rolled = 0 /\ ~shared => LinesTold(o, rows, written, lines, offset, whole)
  BY Here
<1>2. ~torn /\ ~shared => ColumnsTold(r, row, rows)
  BY <1>1 DEF ColumnsTold
<1>3. rolled = 0 /\ ~shared => LinesTold(r, rows, written, lines', offset', whole')
  BY <1>1
<1>4. /\ rows' = rows /\ row' = row /\ written' = written /\ rolled' = rolled /\ shared' = shared
      /\ torn' = torn
  OBVIOUS
<1>5. /\ rows' \in Seq(LogEvents) /\ Ordered(rows') /\ row' \in LogRows /\ written' \in Nat
      /\ rolled' \in Nat /\ shared' \in BOOLEAN /\ torn' \in BOOLEAN
      /\ ~shared' => ~shared /\ procs[p].at # "down"
      /\ rolled' = 0 => rolled = 0 /\ r.cut = {} /\ Numbered(rows') /\ written' = Len(rows')
      /\ ~torn' /\ ~shared' => ColumnsTold(r, row', rows')
      /\ ~torn' /\ rolled' = 0 => CountsAgree(row', rows')
      /\ rolled' = 0 /\ ~shared' => LinesTold(r, rows', written', lines', offset', whole')
  BY <1>1, <1>2, <1>3, <1>4
<1> QED
  BY <1>5, Kept

\* The worker takes the event that the file comes to next.
LEMMA NextEvent ==
  ASSUME NEW o \in LogProcs, NEW r \in LogProcs, NEW evs \in Seq(LogEvents), NEW w, w = Len(evs),
         NEW ls, NEW off, NEW wh, Numbered(evs), LinesTold(o, evs, w, ls, off, wh),
         o.queue # <<>>, r.queue = Tail(o.queue), r.todo = o.todo
  PROVE  /\ Behind(o, w) \in Nat /\ Behind(r, w) = Behind(o, w) + 1
         /\ Head(o.queue).i = Behind(o, w) /\ Head(o.queue).n = Behind(o, w) + 1
         /\ Queued(r, evs, w)
<1> DEFINE B == Behind(o, w)
<1>1. /\ o.todo \in Seq(LogEvents) /\ o.queue \in Seq(LogEvents)
      /\ Len(o.todo) \in Nat /\ Len(o.queue) \in Nat /\ Len(evs) \in Nat
  BY ProcTyped
<1>2. /\ Len(r.queue) = Len(o.queue) - 1 /\ Len(o.queue) > 0 /\ Head(o.queue) = o.queue[1]
      /\ r.queue \in Seq(LogEvents) /\ \A j \in 1 .. Len(r.queue) : r.queue[j] = o.queue[j + 1]
  BY <1>1, HeadTailProperties
<1>3. /\ DOMAIN r.queue = 1 .. (Len(o.queue) - 1) /\ DOMAIN o.queue = 1 .. Len(o.queue)
  BY <1>1, <1>2
<1>4. B \in Nat /\ Behind(r, w) = B + 1 /\ B + Len(o.queue) <= Len(evs)
  <2> DEFINE n == Len(evs)
             q == Len(o.queue)
             t == Len(o.todo)
  <2>1. B >= 0 /\ B = n - q - t
    BY DEF LinesTold, Waits, Queued, Behind
  <2>2. Behind(r, w) = n - (q - 1) - t
    BY <1>2 DEF Behind
  <2>3. n \in Nat /\ q \in Nat /\ t \in Nat
    BY <1>1
  <2> HIDE DEF B, n, q, t
  <2>4. B \in Nat /\ Behind(r, w) = B + 1 /\ B + q <= n
    BY <2>1, <2>2, <2>3
  <2> QED
    BY <2>4 DEF n, q
<1>5. /\ \A j \in DOMAIN o.queue : o.queue[j] = evs[B + j]
      /\ \A j \in DOMAIN o.todo : o.todo[j] = evs[B + Len(o.queue) + j]
  BY DEF LinesTold, Waits, Queued
<1> HIDE DEF B
<1>6. Head(o.queue).i = B /\ Head(o.queue).n = B + 1
  <2>1. B + 1 \in DOMAIN evs /\ 1 \in DOMAIN o.queue
    BY <1>1, <1>2, <1>3, <1>4
  <2>2. Head(o.queue) = evs[B + 1]
    BY <1>2, <1>5, <2>1
  <2> QED
    BY <1>4, <2>1, <2>2 DEF Numbered
<1>7. \A j \in DOMAIN r.queue : r.queue[j] = evs[B + 1 + j]
  <2> SUFFICES ASSUME NEW j \in DOMAIN r.queue
               PROVE  r.queue[j] = evs[B + 1 + j]
    OBVIOUS
  <2>1. j \in Int /\ j + 1 \in DOMAIN o.queue /\ j \in 1 .. Len(r.queue)
    BY <1>1, <1>2, <1>3
  <2>2. B + (j + 1) = B + 1 + j
    BY <1>4, <2>1
  <2> QED
    BY <1>2, <1>5, <2>1, <2>2
<1>8. \A j \in DOMAIN r.todo : r.todo[j] = evs[B + 1 + Len(r.queue) + j]
  <2> SUFFICES ASSUME NEW j \in DOMAIN o.todo
               PROVE  o.todo[j] = evs[B + 1 + Len(r.queue) + j]
    OBVIOUS
  <2>1. B + Len(o.queue) + j = B + 1 + Len(r.queue) + j
    <3> DEFINE q == Len(o.queue)
               l == Len(r.queue)
    <3>1. l = q - 1 /\ q \in Nat /\ B \in Nat
      BY <1>1, <1>2, <1>4
    <3>2. j \in Int
      BY <1>1
    <3> HIDE DEF q, l
    <3>3. B + q + j = B + 1 + l + j
      BY <3>1, <3>2
    <3> QED
      BY <3>3 DEF q, l
  <2> QED
    BY <1>5, <2>1
<1> QED
  BY <1>4, <1>6, <1>7, <1>8 DEF B, Queued

LEMMA ProjectKeeps ==
  ASSUME SLInv, NEW p \in Processes, Project(p)
  PROVE  SLInv'
<1> DEFINE o == procs[p]
           e == Head(o.todo)
           r == [o EXCEPT !.queue = Append(@, e), !.todo = Tail(@)]
<1>1. /\ o \in LogProcs /\ Started(o) /\ lines \in Seq(Int) /\ offset \in Int /\ faults \in Nat
      /\ whole \in BOOLEAN /\ rows \in Seq(LogEvents) /\ o.at = "up" /\ o.todo # <<>> /\ Set(p, r)
      /\ UNCHANGED <<rows, row, lines, offset, written, faults, rolled, whole, shared, torn>>
  BY Here DEF Project
<1>2. /\ o.todo \in Seq(LogEvents) /\ o.queue \in Seq(LogEvents)
      /\ Len(o.todo) \in Nat /\ Len(o.queue) \in Nat
  BY <1>1, ProcTyped
<1>3. /\ e \in LogEvents /\ e = o.todo[1] /\ Tail(o.todo) \in Seq(LogEvents)
      /\ Len(Tail(o.todo)) = Len(o.todo) - 1 /\ Len(o.todo) > 0
      /\ \A j \in 1 .. (Len(o.todo) - 1) : Tail(o.todo)[j] = o.todo[j + 1]
  BY <1>1, <1>2, HeadTailProperties
<1> HIDE DEF e
<1>4. /\ Append(o.queue, e) \in Seq(LogEvents) /\ Len(Append(o.queue, e)) = Len(o.queue) + 1
      /\ \A j \in 1 .. Len(o.queue) : Append(o.queue, e)[j] = o.queue[j]
      /\ Append(o.queue, e)[Len(o.queue) + 1] = e
  BY <1>2, <1>3, AppendProperties
<1>5. /\ r \in LogProcs /\ r.queue = Append(o.queue, e) /\ r.todo = Tail(o.todo) /\ r.at = o.at
      /\ r.due = o.due /\ r.cut = o.cut /\ r.done = o.done /\ r.through = o.through
      /\ r.found = o.found
  BY <1>1, <1>3, <1>4 DEF LogProcs
<1>6. Started(r)
  BY <1>1, <1>5 DEF Started
<1> HIDE DEF r
<1>7. ASSUME LinesTold(o, rows, written, lines, offset, whole), written = Len(rows)
      PROVE  LinesTold(r, rows, written, lines', offset', whole')
  <2>1. Behind(r, written) = Behind(o, written) /\ Behind(o, written) \in Nat
    <3> DEFINE q == Len(o.queue)
               t == Len(o.todo)
    <3>1. Behind(r, written) = written - (q + 1) - (t - 1)
      BY <1>3, <1>4, <1>5 DEF Behind
    <3>2. Behind(o, written) = written - q - t /\ Behind(o, written) >= 0
      BY <1>7 DEF Behind, LinesTold, Waits
    <3>3. written \in Nat /\ q \in Nat /\ t \in Nat
      BY <1>2, Here
    <3> HIDE DEF q, t
    <3> QED
      BY <3>1, <3>2, <3>3
  <2>2. /\ \A j \in DOMAIN o.queue : o.queue[j] = rows[Behind(o, written) + j]
        /\ \A j \in DOMAIN o.todo : o.todo[j] = rows[Behind(o, written) + Len(o.queue) + j]
    BY <1>7 DEF LinesTold, Waits, Queued
  <2>3. \A j \in DOMAIN r.queue : r.queue[j] = rows[Behind(r, written) + j]
    <3> SUFFICES ASSUME NEW j \in DOMAIN r.queue
                 PROVE  r.queue[j] = rows[Behind(o, written) + j]
      BY <2>1
    <3>1. CASE j = Len(o.queue) + 1
      <4>1. 1 \in DOMAIN o.todo
        BY <1>2, <1>3
      <4>2. Behind(o, written) + Len(o.queue) + 1 = Behind(o, written) + j
        BY <1>2, <2>1, <3>1
      <4> QED
        BY <1>3, <1>4, <1>5, <2>2, <3>1, <4>1, <4>2
    <3>2. CASE j # Len(o.queue) + 1
      <4>1. j \in 1 .. Len(o.queue) /\ j \in DOMAIN o.queue
        BY <1>2, <1>4, <1>5, <3>2
      <4> QED
        BY <1>4, <1>5, <2>2, <4>1
    <3> QED
      BY <3>1, <3>2
  <2>4. \A j \in DOMAIN r.todo : r.todo[j] = rows[Behind(r, written) + Len(r.queue) + j]
    <3> SUFFICES ASSUME NEW j \in DOMAIN r.todo
                 PROVE  r.todo[j] = rows[Behind(o, written) + (Len(o.queue) + 1) + j]
      BY <1>4, <1>5, <2>1
    <3>1. j \in Int /\ j \in 1 .. (Len(o.todo) - 1) /\ j + 1 \in DOMAIN o.todo
      <4>1. DOMAIN r.todo = 1 .. (Len(o.todo) - 1) /\ DOMAIN o.todo = 1 .. Len(o.todo)
        BY <1>2, <1>3, <1>5
      <4> QED
        BY <1>2, <4>1
    <3>2. Behind(o, written) + Len(o.queue) + (j + 1) = Behind(o, written) + (Len(o.queue) + 1) + j
      <4> DEFINE b == Behind(o, written)
                 q == Len(o.queue)
      <4>1. b \in Nat /\ q \in Nat
        BY <1>2, <2>1
      <4> HIDE DEF b, q
      <4>2. b + q + (j + 1) = b + (q + 1) + j
        BY <3>1, <4>1
      <4> QED
        BY <4>2 DEF b, q
    <3> QED
      BY <1>3, <1>5, <2>2, <3>1, <3>2
  <2>5. Waits(r, rows, written, lines)
    BY <1>5, <1>7, <2>1, <2>3, <2>4 DEF LinesTold, Waits, Queued
  <2> QED
    BY <1>1, <1>5, <1>7, <2>1, <2>5 DEF LinesTold
<1>8. lines' \in Seq(Int) /\ offset' \in Int /\ faults' \in Nat /\ whole' \in BOOLEAN
  BY <1>1
<1> QED
  BY <1>1, <1>5, <1>6, <1>7, <1>8, OnlyTheFile

\* A line is written, or half of it, for the event that comes next.
LEMMA LineAdded ==
  ASSUME lines \in Seq(Int), NEW n, NEW m \in Nat, LinesAccount(lines, m), n = Cut \/ n = m + 1
  PROVE  /\ WithLine(n) \in Seq(Int) /\ LinesAccount(WithLine(n), m + 1)
         /\ EndsCut(WithLine(n)) => n = Cut
         /\ n = m + 1 /\ Len(lines) = m /\ (\A j \in DOMAIN lines : lines[j] = j) =>
              /\ Len(WithLine(n)) = m + 1
              /\ \A j \in DOMAIN WithLine(n) : WithLine(n)[j] = j
<1> DEFINE new == WithLine(n)
<1>1. Len(lines) \in Nat /\ DOMAIN lines = 1 .. Len(lines) /\ \A j \in DOMAIN lines : lines[j] \in Int
  OBVIOUS
<1>2. /\ Len(lines) <= m
      /\ \A j \in DOMAIN lines : lines[j] # Junk =>
           /\ lines[j] = Cut => j = Len(lines)
           /\ lines[j] # Cut => j <= lines[j] /\ lines[j] + (Len(lines) - j) <= m
      /\ (\E j \in DOMAIN lines : lines[j] = Junk) => Len(lines) < m
  BY DEF LinesAccount
<1>3. n \in Int /\ n # Junk /\ Cut # Junk /\ Junk \in Int
  BY DEF Cut, Junk
<1>4. CASE EndsCut(lines)
  <2>1. lines # <<>> /\ lines[Len(lines)] = Cut /\ Len(lines) \in DOMAIN lines
    BY <1>1, <1>4 DEF EndsCut
  <2>2. new = [lines EXCEPT ![Len(lines)] = Junk]
    BY <2>1 DEF WithLine, Last
  <2>3. /\ new \in Seq(Int) /\ Len(new) = Len(lines) /\ DOMAIN new = DOMAIN lines
        /\ new[Len(lines)] = Junk /\ \A j \in DOMAIN lines : j # Len(lines) => new[j] = lines[j]
    BY <1>3, <2>1, <2>2
  <2> HIDE DEF new
  <2>4. ASSUME NEW j \in DOMAIN new, new[j] # Junk
        PROVE  /\ new[j] = Cut => j = Len(new)
               /\ new[j] # Cut => j <= new[j] /\ new[j] + (Len(new) - j) <= m + 1
    <3>1. j \in DOMAIN lines /\ new[j] = lines[j] /\ j \in Int /\ lines[j] \in Int
      BY <1>1, <2>3, <2>4
    <3>2. /\ lines[j] = Cut => j = Len(lines)
          /\ lines[j] # Cut => j <= lines[j] /\ lines[j] + (Len(lines) - j) <= m
      BY <1>2, <2>4, <3>1
    <3> QED
      BY <1>1, <2>3, <3>1, <3>2
  <2>5. Len(new) <= m + 1 /\ Len(new) < m + 1
    BY <1>1, <1>2, <2>3
  <2>6. LinesAccount(new, m + 1)
    BY <2>4, <2>5 DEF LinesAccount
  <2>7. ~EndsCut(new)
    BY <1>3, <2>3 DEF EndsCut
  <2>8. ~(\A j \in DOMAIN lines : lines[j] = j)
    BY <1>1, <2>1 DEF Cut
  <2> QED
    BY <2>3, <2>6, <2>7, <2>8 DEF new
<1>5. CASE ~EndsCut(lines)
  <2> DEFINE top == Len(lines) + 1
  <2>1. new = Append(lines, n)
    BY <1>5 DEF WithLine, EndsCut, Last
  <2>2. /\ new \in Seq(Int) /\ Len(new) = top /\ new # <<>>
        /\ new[top] = n /\ \A j \in 1 .. Len(lines) : new[j] = lines[j]
    BY <1>3, <2>1, AppendProperties
  <2> HIDE DEF new
  <2>3. DOMAIN new = 1 .. top /\ \A j \in DOMAIN new : j = top \/ j \in DOMAIN lines
    BY <1>1, <2>2
  <2>4. ASSUME NEW j \in DOMAIN new, new[j] # Junk
        PROVE  /\ new[j] = Cut => j = Len(new)
               /\ new[j] # Cut => j <= new[j] /\ new[j] + (Len(new) - j) <= m + 1
    <3>1. CASE j = top
      BY <1>1, <1>2, <2>2, <3>1
    <3>2. CASE j \in DOMAIN lines
      <4>1. new[j] = lines[j] /\ j \in Int /\ lines[j] \in Int
        BY <1>1, <2>2, <3>2
      <4>2. lines[j] # Cut
        BY <1>1, <1>2, <1>5, <2>4, <3>2, <4>1 DEF EndsCut
      <4>3. j <= lines[j] /\ lines[j] + (Len(lines) - j) <= m
        BY <1>2, <2>4, <3>2, <4>1, <4>2
      <4> QED
        BY <1>1, <2>2, <4>1, <4>2, <4>3
    <3> QED
      BY <2>3, <3>1, <3>2
  <2>5. Len(new) <= m + 1
    BY <1>1, <1>2, <2>2
  <2>6. (\E j \in DOMAIN new : new[j] = Junk) => Len(new) < m + 1
    <3> SUFFICES ASSUME NEW j \in DOMAIN new, new[j] = Junk
                 PROVE  Len(new) < m + 1
      OBVIOUS
    <3>1. j \in DOMAIN lines /\ lines[j] = Junk
      BY <1>1, <1>3, <2>2, <2>3
    <3> QED
      BY <1>1, <1>2, <2>2, <3>1
  <2>7. LinesAccount(new, m + 1)
    BY <2>4, <2>5, <2>6 DEF LinesAccount
  <2>8. EndsCut(new) => n = Cut
    BY <2>2 DEF EndsCut
  <2>9. ASSUME n = m + 1, Len(lines) = m, \A j \in DOMAIN lines : lines[j] = j
        PROVE  Len(new) = m + 1 /\ \A j \in DOMAIN new : new[j] = j
    BY <1>1, <2>2, <2>3, <2>9
  <2> QED
    BY <2>2, <2>7, <2>8, <2>9 DEF new
<1> QED
  BY <1>4, <1>5

\* A step that takes an event from the queue.
LEMMA WorkKeeps ==
  ASSUME SLInv, NEW p \in Processes, SkipCovered(p) \/ AppendLine(p) \/ AppendLineFails(p)
  PROVE  SLInv'
<1> DEFINE o == procs[p]
           e == Head(o.queue)
           d == IF AppendLine(p) THEN e ELSE NoEvent
           r == [o EXCEPT !.queue = Tail(@), !.done = d]
           B == Behind(o, written)
<1>1. /\ o \in LogProcs /\ Started(o) /\ lines \in Seq(Int) /\ offset \in Int /\ faults \in Nat
      /\ whole \in BOOLEAN /\ rows \in Seq(LogEvents) /\ written \in Nat
  BY Here
<1>2. /\ o.at = "up" /\ o.queue # <<>> /\ o.done = NoEvent
      /\ UNCHANGED <<rows, row, offset, written, rolled, shared, torn>>
  BY DEF SkipCovered, AppendLine, AppendLineFails, Working
<1>3. o.queue \in Seq(LogEvents) /\ o.through \in Int
  BY <1>1, ProcTyped
<1>4. e \in LogEvents /\ Tail(o.queue) \in Seq(LogEvents) /\ e.i \in Nat
  <2>1. e \in LogEvents /\ Tail(o.queue) \in Seq(LogEvents)
    BY <1>2, <1>3, HeadTailProperties
  <2> QED
    BY <2>1 DEF LogEvents
<1>5. Set(p, r)
  <2>1. ASSUME ~AppendLine(p)
        PROVE  [o EXCEPT !.queue = Tail(@)] = [o EXCEPT !.queue = Tail(@), !.done = NoEvent]
    BY <1>1, <1>2 DEF LogProcs
  <2>2. CASE AppendLine(p)
    BY <2>2 DEF AppendLine
  <2>3. CASE ~AppendLine(p)
    BY <2>1, <2>3 DEF SkipCovered, AppendLineFails
  <2> QED
    BY <2>2, <2>3
<1>6. /\ r \in LogProcs /\ r.queue = Tail(o.queue) /\ r.todo = o.todo /\ r.at = o.at
      /\ r.due = o.due /\ r.cut = o.cut /\ r.done = d /\ r.through = o.through
      /\ r.found = o.found
  <2>1. d \in LogEvents \cup {NoEvent}
    BY <1>4
  <2> HIDE DEF d, e
  <2> QED
    BY <1>1, <1>4, <2>1 DEF LogProcs
<1>7. Started(r)
  BY <1>1, <1>2, <1>6 DEF Started
<1> HIDE DEF r
<1>8. SkipCovered(p) => lines' = lines /\ faults' = faults /\ whole' = whole /\ e.i <= o.through
  BY DEF SkipCovered
<1>9. AppendLine(p) => lines' = WithLine(e.n) /\ faults' = faults /\ whole' = whole
  BY DEF AppendLine
<1>10. AppendLineFails(p) => lines' \in {lines, WithLine(Cut)} /\ faults' = faults + 1 /\ whole' = FALSE
  BY DEF AppendLineFails
<1> HIDE DEF d, e
<1>11. lines' \in Seq(Int) /\ offset' \in Int /\ faults' \in Nat /\ whole' \in BOOLEAN
  <2>1. \A n \in Int : WithLine(n) \in Seq(Int)
    <3> SUFFICES ASSUME NEW n \in Int
                 PROVE  WithLine(n) \in Seq(Int)
      OBVIOUS
    <3>1. Append(lines, n) \in Seq(Int)
      BY <1>1, AppendProperties
    <3>2. lines # <<>> => [lines EXCEPT ![Len(lines)] = Junk] \in Seq(Int)
      <4>1. Junk \in Int
        BY DEF Junk
      <4> QED
        BY <1>1, <4>1
    <3> QED
      BY <3>1, <3>2 DEF WithLine
  <2>2. e.n \in Int /\ Cut \in Int
    BY <1>4 DEF LogEvents, Cut
  <2>3. lines' \in {lines, WithLine(e.n), WithLine(Cut)} /\ faults' \in {faults, faults + 1}
    BY <1>8, <1>9, <1>10
  <2>4. whole' \in BOOLEAN
    BY <1>1, <1>8, <1>9, <1>10
  <2>5. lines' \in Seq(Int)
    BY <1>1, <2>1, <2>2, <2>3, Zenon
  <2>6. offset' \in Int /\ faults' \in Nat
    BY <1>1, <1>2, <2>3
  <2> QED
    BY <2>4, <2>5, <2>6
<1>12. ASSUME Numbered(rows), written = Len(rows),
              LinesTold(o, rows, written, lines, offset, whole)
       PROVE  LinesTold(r, rows, written, lines', offset', whole')
  <2>1. /\ B \in Nat /\ Behind(r, written) = B + 1 /\ e.i = B /\ e.n = B + 1
        /\ Queued(r, rows, written)
    <3>1. /\ o \in LogProcs /\ o.queue # <<>> /\ r \in LogProcs /\ rows \in Seq(LogEvents)
          /\ r.queue = Tail(o.queue) /\ r.todo = o.todo
      BY <1>1, <1>2, <1>6
    <3> HIDE DEF o
    <3> QED
      BY <1>12, <3>1, NextEvent DEF e
  <2>2. /\ LinesAccount(lines, B) /\ offset < B /\ (EndsCut(lines) => offset + 1 < B) /\ o.through < B
        /\ whole => Len(lines) = B /\ \A j \in DOMAIN lines : lines[j] = j
    BY <1>2, <1>12 DEF LinesTold, Waits, Queued
  <2> HIDE DEF B
  <2>3. ~SkipCovered(p)
    BY <1>3, <1>8, <2>1, <2>2
  <2>4. offset < B + 1 /\ (EndsCut(lines) => offset + 1 < B + 1) /\ r.through < B + 1
    BY <1>1, <1>3, <1>6, <2>1, <2>2
  <2>5. offset + 1 < B + 1
    BY <1>1, <2>1, <2>2
  <2>6. ASSUME r.done # NoEvent => r.done.i < B + 1 /\ ~EndsCut(lines')
        PROVE  Waits(r, rows, written, lines')
    <3>1. r.at = "up"
      BY <1>2, <1>6
    <3>2. B + 1 >= 0
      BY <2>1
    <3> QED
      BY <2>1, <2>4, <2>6, <3>1, <3>2, Zenon DEF Waits
  <2>7. CASE AppendLine(p)
    <3>1. /\ LinesAccount(lines', B + 1) /\ ~EndsCut(lines')
          /\ whole => Len(lines') = B + 1 /\ \A j \in DOMAIN lines' : lines'[j] = j
      <4>1. B + 1 # Cut
        BY <2>1 DEF Cut
      <4> QED
        BY <1>1, <1>9, <2>1, <2>2, <2>7, <4>1, LineAdded
    <3>2. r.done.i < B + 1
      BY <1>6, <2>1, <2>7 DEF d
    <3>3. Waits(r, rows, written, lines')
      BY <2>6, <3>1, <3>2
    <3> QED
      BY <1>2, <1>9, <2>1, <2>4, <2>7, <3>1, <3>3 DEF LinesTold
  <2>8. CASE ~AppendLine(p)
    <3>1. lines' \in {lines, WithLine(Cut)} /\ whole' = FALSE
      BY <1>10, <2>3, <2>8
    <3>2. LinesAccount(lines', B + 1)
      <4>1. LinesAccount(lines, B + 1)
        <5>1. B \in Int /\ B + 1 \in Int /\ B <= B + 1
          BY <2>1
        <5> QED
          BY <1>1, <2>2, <5>1, AccountsForMore
      <4>2. LinesAccount(WithLine(Cut), B + 1)
        BY <1>1, <2>1, <2>2, LineAdded
      <4> QED
        BY <3>1, <4>1, <4>2
    <3>3. r.done = NoEvent
      BY <1>6, <2>8 DEF d
    <3>4. Waits(r, rows, written, lines')
      BY <2>6, <3>3
    <3> QED
      BY <1>2, <2>1, <2>4, <2>5, <3>1, <3>2, <3>4 DEF LinesTold
  <2> QED
    BY <2>7, <2>8
<1> QED
  BY <1>1, <1>2, <1>5, <1>6, <1>7, <1>11, <1>12, OnlyTheFile

LEMMA OffsetKeeps ==
  ASSUME SLInv, NEW p \in Processes, PersistOffset(p)
  PROVE  SLInv'
<1> DEFINE o == procs[p]
           r == [o EXCEPT !.done = NoEvent]
<1>1. /\ o \in LogProcs /\ Started(o) /\ lines \in Seq(Int) /\ offset \in Int /\ faults \in Nat
      /\ whole \in BOOLEAN /\ written \in Nat /\ o.done # NoEvent /\ Set(p, r)
      /\ UNCHANGED <<rows, row, lines, written, faults, rolled, whole, shared, torn>>
  BY Here DEF PersistOffset
<1>2. /\ o.at = "up" /\ o.done.i \in Nat /\ Behind(o, written) \in Int
  <2>1. o.at = "up"
    BY <1>1 DEF Started
  <2>2. o.done \in LogEvents /\ Len(o.todo) \in Nat /\ Len(o.queue) \in Nat
    BY <1>1, ProcTyped
  <2>3. o.done.i \in Nat
    BY <2>2 DEF LogEvents
  <2>4. Behind(o, written) \in Int
    BY <1>1, <2>2 DEF Behind
  <2> QED
    BY <2>1, <2>3, <2>4
<1>3. /\ r \in LogProcs /\ r.queue = o.queue /\ r.todo = o.todo /\ r.at = o.at
      /\ r.due = o.due /\ r.cut = o.cut /\ r.done = NoEvent /\ r.through = o.through
      /\ r.found = o.found
  BY <1>1 DEF LogProcs
<1>4. Started(r)
  BY <1>1, <1>2, <1>3 DEF Started
<1> HIDE DEF r
<1>5. /\ lines' \in Seq(Int) /\ offset' \in Int /\ faults' \in Nat /\ whole' \in BOOLEAN
      /\ offset' \in {offset, o.done.i}
  <2>1. offset' \in {offset, o.done.i}
    BY DEF PersistOffset
  <2> QED
    BY <1>1, <1>2, <2>1
<1>6. ASSUME LinesTold(o, rows, written, lines, offset, whole)
      PROVE  LinesTold(r, rows, written, lines', offset', whole')
  <2>1. Behind(r, written) = Behind(o, written) /\ (Queued(r, rows, written) <=> Queued(o, rows, written))
    BY <1>3 DEF Behind, Queued
  <2>2. /\ o.done.i < Behind(o, written) /\ ~EndsCut(lines) /\ offset < Behind(o, written)
    BY <1>1, <1>6 DEF LinesTold, Waits
  <2>3. Waits(r, rows, written, lines)
    BY <1>2, <1>3, <1>6, <2>1 DEF LinesTold, Waits
  <2>4. offset' < Behind(o, written)
    BY <1>5, <2>2
  <2> QED
    BY <1>1, <1>3, <1>6, <2>1, <2>2, <2>3, <2>4 DEF LinesTold
<1> QED
  BY <1>1, <1>2, <1>3, <1>4, <1>5, <1>6, OnlyTheFile

\* While the database is being opened nothing is under way.
LEMMA Opening ==
  ASSUME SLInv, NEW p \in Processes, procs[p].at # "up", NEW r \in LogProcs, Started(r), r.at # "up"
  PROVE  /\ procs[p].due = {} /\ procs[p].cut = {} /\ r.due = {} /\ r.cut = {}
         /\ \A evs : Queued(r, evs, written) /\ Behind(r, written) = written
                     /\ Behind(procs[p], written) = written
<1>1. /\ procs[p].due = {} /\ procs[p].cut = {} /\ procs[p].queue = <<>> /\ procs[p].todo = <<>>
      /\ r.due = {} /\ r.cut = {} /\ r.queue = <<>> /\ r.todo = <<>> /\ written \in Nat
  BY Here DEF Started
<1> QED
  BY <1>1 DEF Behind, Queued

LEMMA ScanKeeps ==
  ASSUME SLInv, NEW p \in Processes, OpenScan(p)
  PROVE  SLInv'
<1> DEFINE o == procs[p]
           r == [o EXCEPT !.at = "scanned", !.found = rows]
<1>1. /\ o \in LogProcs /\ Started(o)
      /\ rows \in Seq(LogEvents) /\ Ordered(rows) /\ row \in LogRows /\ lines \in Seq(Int)
      /\ offset \in Int /\ written \in Nat /\ faults \in Nat /\ rolled \in Nat
      /\ whole \in BOOLEAN /\ shared \in BOOLEAN /\ torn \in BOOLEAN
      /\ rolled = 0 => Numbered(rows) /\ written = Len(rows)
      /\ ~torn /\ ~shared /\ Alone(p) => ColumnsTold(o, row, rows)
      /\ ~torn /\ rolled = 0 => CountsAgree(row, rows)
      /\ rolled = 0 /\ ~shared => LinesTold(o, rows, written, lines, offset, whole)
  BY Here
<1>2. /\ o.at = "down" /\ Set(p, r) /\ shared' = (shared \/ ~Alone(p)) /\ whole' = Alone(p)
      /\ UNCHANGED <<rows, row, lines, offset, written, faults, rolled, torn>>
  BY DEF OpenScan
<1>3. /\ r \in LogProcs /\ r.queue = o.queue /\ r.todo = o.todo /\ r.at = "scanned"
      /\ r.due = o.due /\ r.cut = o.cut /\ r.done = o.done /\ r.through = o.through
      /\ r.found = rows
  BY <1>1 DEF LogProcs
<1>4. Started(r)
  BY <1>1, <1>2, <1>3 DEF Started
<1> HIDE DEF r
<1>5. /\ o.due = {} /\ o.cut = {} /\ r.due = {} /\ r.cut = {}
      /\ Queued(r, rows, written) /\ Behind(r, written) = written /\ Behind(o, written) = written
  BY <1>2, <1>3, <1>4, Opening
<1>6. ColumnsTold(o, row, rows) => ColumnsTold(r, row, rows)
  BY <1>3 DEF ColumnsTold
<1>7. LinesTold(o, rows, written, lines, offset, whole) => LinesTold(r, rows, written, lines, offset, whole')
  BY <1>3, <1>5 DEF LinesTold, Waits
<1>8. whole' \in BOOLEAN /\ shared' \in BOOLEAN
  BY <1>1, <1>2 DEF Alone
<1>9. /\ rows' = rows /\ row' = row /\ written' = written /\ rolled' = rolled /\ torn' = torn
      /\ lines' = lines /\ offset' = offset /\ faults' = faults /\ (~shared' => ~shared /\ Alone(p))
  BY <1>2
<1>10. /\ rows' \in Seq(LogEvents) /\ Ordered(rows') /\ row' \in LogRows /\ written' \in Nat
       /\ rolled' \in Nat /\ torn' \in BOOLEAN /\ lines' \in Seq(Int) /\ offset' \in Int /\ faults' \in Nat
       /\ rolled' = 0 => rolled = 0 /\ r.cut = {} /\ Numbered(rows') /\ written' = Len(rows')
       /\ ~torn' /\ ~shared' => ColumnsTold(r, row', rows')
       /\ ~torn' /\ rolled' = 0 => CountsAgree(row', rows')
       /\ rolled' = 0 /\ ~shared' => LinesTold(r, rows', written', lines', offset', whole')
  BY <1>1, <1>5, <1>6, <1>7, <1>9
<1>11. r.at # "down" /\ (~shared' => ~shared /\ Alone(p))
  BY <1>3, <1>9
<1> QED
  BY <1>2, <1>3, <1>4, <1>8, <1>10, <1>11, Kept

\* The file has a line for each event and the last was not cut off: each is the event's own.
LEMMA FileIsWhole ==
  ASSUME NEW ls \in Seq(Int), NEW w \in Nat, NEW off \in Int, LinesAccount(ls, w),
         Len(ls) = w, EndsCut(ls) => off + 1 < w, off >= w - 1
  PROVE  \A j \in DOMAIN ls : ls[j] = j
<1> SUFFICES ASSUME NEW j \in DOMAIN ls
             PROVE  ls[j] = j
  OBVIOUS
<1>1. j \in 1 .. Len(ls) /\ Len(ls) \in Nat /\ ls[j] \in Int
  OBVIOUS
<1>2. ls[j] # Junk
  BY <1>1 DEF LinesAccount
<1>3. ls[j] # Cut
  <2>1. ~EndsCut(ls)
    OBVIOUS
  <2>2. ls # <<>>
    OBVIOUS
  <2> QED
    BY <1>2, <2>1, <2>2 DEF LinesAccount, EndsCut
<1>4. j <= ls[j] /\ ls[j] + (Len(ls) - j) <= w
  BY <1>2, <1>3 DEF LinesAccount
<1> QED
  BY <1>1, <1>4

LEMMA LastIndex ==
  ASSUME NEW evs \in Seq(LogEvents), Numbered(evs)
  PROVE  /\ MaxIndex(evs) = Len(evs) - 1
         /\ evs # <<>> => Last(evs) \in LogEvents /\ Last(evs).i = Len(evs) - 1
<1>1. CASE evs = <<>>
  BY <1>1 DEF MaxIndex
<1>2. CASE evs # <<>>
  <2>1. Len(evs) \in DOMAIN evs /\ Last(evs) = evs[Len(evs)]
    BY <1>2 DEF Last
  <2>2. evs[Len(evs)] \in LogEvents /\ evs[Len(evs)].i = Len(evs) - 1
    BY <2>1 DEF Numbered
  <2> QED
    BY <1>2, <2>1, <2>2 DEF MaxIndex
<1> QED
  BY <1>1, <1>2

LEMMA ReconcileKeeps ==
  ASSUME SLInv, NEW p \in Processes, OpenReconcile(p)
  PROVE  SLInv'
<1> DEFINE o == procs[p]
           a == IF Reconciled(o.found) THEN "up" ELSE "rebuild"
           r == [o EXCEPT !.at = a, !.found = <<>>]
<1>1. /\ o \in LogProcs /\ Started(o) /\ lines \in Seq(Int) /\ offset \in Int /\ faults \in Nat
      /\ whole \in BOOLEAN /\ written \in Nat /\ rows \in Seq(LogEvents)
      /\ o.at = "scanned" /\ Set(p, r)
      /\ UNCHANGED <<rows, row, lines, offset, written, faults, rolled, whole, shared, torn>>
  BY Here DEF OpenReconcile
<1>2. a \in {"up", "rebuild"} /\ (a = "up" => Reconciled(o.found))
  OBVIOUS
<1> HIDE DEF a
<1>3. /\ r \in LogProcs /\ r.queue = o.queue /\ r.todo = o.todo /\ r.at = a
      /\ r.due = o.due /\ r.cut = o.cut /\ r.done = o.done /\ r.through = o.through
      /\ r.found = <<>>
  <2>1. <<>> \in Seq(LogEvents)
    OBVIOUS
  <2> QED
    BY <1>1, <1>2, <2>1 DEF LogProcs
<1>4. Started(r)
  BY <1>1, <1>3 DEF Started
<1> HIDE DEF r
<1>5. lines' \in Seq(Int) /\ offset' \in Int /\ faults' \in Nat /\ whole' \in BOOLEAN
  BY <1>1
<1>6. ASSUME Numbered(rows), written = Len(rows), LinesTold(o, rows, written, lines, offset, whole)
      PROVE  LinesTold(r, rows, written, lines', offset', whole')
  <2>1. /\ Queued(o, rows, written) /\ Behind(o, written) = written /\ o.found = rows
        /\ LinesAccount(lines, written) /\ (EndsCut(lines) => offset + 1 < written)
    <3>1. Queued(o, rows, written) /\ Behind(o, written) = written
      BY <1>1, Opening
    <3> QED
      BY <1>1, <1>6, <3>1 DEF LinesTold, Waits
  <2>2. Behind(r, written) = written /\ Queued(r, rows, written)
    BY <1>3, <2>1 DEF Behind, Queued
  <2>3. ASSUME a = "up"
        PROVE  Len(lines) = written /\ \A j \in DOMAIN lines : lines[j] = j
    <3>1. CASE rows = <<>>
      <4>1. Len(lines) = 0 /\ written = 0
        BY <1>1, <1>6, <2>1, <3>1 DEF LinesAccount
      <4> QED
        BY <1>1, <4>1
    <3>2. CASE rows # <<>>
      <4>1. offset >= written - 1 /\ Len(lines) = written
        BY <1>1, <1>2, <1>6, <2>1, <2>3, <3>2, LastIndex DEF Reconciled
      <4> QED
        BY <1>1, <2>1, <4>1, FileIsWhole
    <3> QED
      BY <3>1, <3>2
  <2>4. Waits(r, rows, written, lines)
    BY <1>1, <1>2, <1>3, <1>6, <2>1, <2>2 DEF LinesTold, Waits
  <2> QED
    BY <1>1, <1>3, <1>6, <2>1, <2>2, <2>3, <2>4 DEF LinesTold
<1> QED
  BY <1>1, <1>3, <1>4, <1>5, <1>6, OnlyTheFile

LEMMA RebuildKeeps ==
  ASSUME SLInv, NEW p \in Processes, RebuildRead(p) \/ RebuildWrite(p)
  PROVE  SLInv'
<1> DEFINE o == procs[p]
<1>1. /\ o \in LogProcs /\ Started(o) /\ lines \in Seq(Int) /\ offset \in Int /\ faults \in Nat
      /\ whole \in BOOLEAN /\ written \in Nat /\ rows \in Seq(LogEvents)
      /\ o.at \in {"rebuild", "rewrite"} /\ o.found \in Seq(LogEvents)
      /\ UNCHANGED <<rows, row, offset, written, rolled, shared, torn>>
  BY Here, ProcTyped DEF RebuildRead, RebuildWrite
<1>2. o.queue = <<>> /\ o.todo = <<>> /\ o.due = {} /\ o.cut = {} /\ o.done = NoEvent /\ o.through = -1
  BY <1>1 DEF Started
<1>3. ASSUME LinesTold(o, rows, written, lines, offset, whole), NEW r \in LogProcs,
             r.queue = <<>>, r.todo = <<>>
      PROVE  /\ Behind(r, written) = written /\ Queued(r, rows, written)
             /\ LinesAccount(lines, written) /\ offset < written
             /\ EndsCut(lines) => offset + 1 < written
             /\ o.at = "rewrite" => o.found = rows
  <2>1. Behind(r, written) = written /\ Behind(o, written) = written /\ Queued(r, rows, written)
    BY <1>1, <1>2, <1>3 DEF Behind, Queued
  <2> QED
    BY <1>3, <2>1 DEF LinesTold, Waits
<1>4. CASE RebuildRead(p)
  <2> DEFINE r == [o EXCEPT !.at = "rewrite", !.found = rows]
  <2>1. /\ r \in LogProcs /\ r.queue = <<>> /\ r.todo = <<>> /\ r.at = "rewrite" /\ r.found = rows
        /\ r.due = {} /\ r.cut = {} /\ r.done = NoEvent /\ r.through = -1
    BY <1>1, <1>2 DEF LogProcs
  <2>2. Set(p, r) /\ lines' = lines /\ offset' = offset /\ faults' = faults /\ whole' = whole
    BY <1>4 DEF RebuildRead
  <2>3. Started(r)
    BY <2>1 DEF Started
  <2> HIDE DEF r
  <2>4. ASSUME LinesTold(o, rows, written, lines, offset, whole)
        PROVE  LinesTold(r, rows, written, lines', offset', whole')
    <3>1. /\ Behind(r, written) = written /\ Queued(r, rows, written)
          /\ LinesAccount(lines, written) /\ offset < written
          /\ EndsCut(lines) => offset + 1 < written
      BY <1>3, <2>1, <2>4
    <3>2. written >= 0 /\ -1 < written
      BY <1>1
    <3>3. Waits(r, rows, written, lines)
      BY <2>1, <3>1, <3>2 DEF Waits
    <3> QED
      BY <2>1, <2>2, <3>1, <3>3 DEF LinesTold
  <2> QED
    BY <1>1, <1>2, <2>1, <2>2, <2>3, <2>4, OnlyTheFile
<1>5. CASE RebuildWrite(p)
  <2>1. o.at = "rewrite"
    BY <1>5 DEF RebuildWrite
  <2>2. CASE /\ lines' = Numbers(o.found)
             /\ Set(p, [o EXCEPT !.at = "up", !.found = <<>>, !.through = MaxIndex(o.found),
                                 !.done = IF o.found = <<>> THEN NoEvent ELSE Last(o.found)])
             /\ UNCHANGED <<faults, whole>>
    <3> DEFINE d == IF o.found = <<>> THEN NoEvent ELSE Last(o.found)
               r == [o EXCEPT !.at = "up", !.found = <<>>, !.through = MaxIndex(o.found), !.done = d]
    <3>1. /\ d \in LogEvents \cup {NoEvent} /\ MaxIndex(o.found) \in Int
      <4>1. ASSUME o.found # <<>>
            PROVE  Last(o.found) \in LogEvents /\ Last(o.found).i \in Int
        <5>1. Len(o.found) \in DOMAIN o.found /\ Last(o.found) = o.found[Len(o.found)]
          BY <1>1, <4>1 DEF Last
        <5> QED
          BY <1>1, <5>1, EventsTyped
      <4> QED
        BY <4>1 DEF MaxIndex
    <3>2. o.found # <<>> => d = Last(o.found)
      OBVIOUS
    <3>3. o.found = <<>> => d = NoEvent
      OBVIOUS
    <3>4. Set(p, r)
      BY <2>2
    <3> HIDE DEF d
    <3>5. /\ r \in LogProcs /\ r.queue = <<>> /\ r.todo = <<>> /\ r.at = "up"
          /\ r.due = {} /\ r.cut = {} /\ r.done = d /\ r.through = MaxIndex(o.found)
      <4>1. <<>> \in Seq(LogEvents)
        OBVIOUS
      <4> QED
        BY <1>1, <1>2, <3>1, <4>1 DEF LogProcs
    <3>6. Started(r)
      BY <3>5 DEF Started
    <3> HIDE DEF r
    <3>7. lines' \in Seq(Int) /\ Len(lines') = Len(o.found) /\ DOMAIN lines' = 1 .. Len(o.found)
          /\ \A j \in 1 .. Len(o.found) : lines'[j] = o.found[j].n
      <4>1. \A j \in 1 .. Len(o.found) : o.found[j].n \in Int
        BY <1>1, EventsTyped
      <4>2. lines' = [j \in 1 .. Len(o.found) |-> o.found[j].n] /\ Len(o.found) \in Nat
        BY <1>1, <2>2 DEF Numbers
      <4> QED
        BY <4>1, <4>2
    <3>8. ASSUME Numbered(rows), written = Len(rows), LinesTold(o, rows, written, lines, offset, whole)
          PROVE  LinesTold(r, rows, written, lines', offset', whole')
      <4>1. /\ Behind(r, written) = written /\ Queued(r, rows, written) /\ offset < written /\ o.found = rows
        BY <1>3, <2>1, <3>5, <3>8
      <4>2. Len(lines') = written /\ DOMAIN lines' = 1 .. written /\ \A j \in 1 .. written : lines'[j] = j
        <5>1. DOMAIN rows = 1 .. written
          BY <1>1, <3>8
        <5>2. \A j \in 1 .. written : rows[j].n = j
          BY <3>8, <5>1 DEF Numbered
        <5> QED
          BY <3>7, <3>8, <4>1, <5>2
      <4>3. ~EndsCut(lines')
        BY <1>1, <3>7, <4>2 DEF EndsCut, Cut
      <4>4. LinesAccount(lines', written)
        BY <1>1, <4>2 DEF LinesAccount, Cut, Junk
      <4>5. r.through < written /\ (r.done # NoEvent => r.done.i < written)
        <5>1. MaxIndex(rows) = written - 1 /\ (rows # <<>> => Last(rows).i = written - 1)
          BY <1>1, <3>8, LastIndex
        <5>2. r.through = written - 1 /\ (r.done = NoEvent \/ r.done.i = written - 1)
          BY <3>2, <3>3, <3>5, <4>1, <5>1
        <5> QED
          BY <1>1, <5>2
      <4>6. Waits(r, rows, written, lines')
        BY <1>1, <3>5, <4>1, <4>3, <4>5 DEF Waits
      <4> QED
        BY <1>1, <4>1, <4>2, <4>3, <4>4, <4>6 DEF LinesTold
    <3>9. offset' \in Int /\ faults' \in Nat /\ whole' \in BOOLEAN
      BY <1>1, <2>2
    <3> QED
      BY <1>1, <1>2, <3>4, <3>5, <3>6, <3>7, <3>8, <3>9, OnlyTheFile
  <2>3. CASE /\ faults' = faults + 1 /\ whole' = FALSE /\ lines' = lines
             /\ Set(p, [o EXCEPT !.at = "up", !.found = <<>>])
    <3> DEFINE r == [o EXCEPT !.at = "up", !.found = <<>>]
    <3>1. /\ r \in LogProcs /\ r.queue = <<>> /\ r.todo = <<>> /\ r.at = "up"
          /\ r.due = {} /\ r.cut = {} /\ r.done = NoEvent /\ r.through = -1
      <4>1. <<>> \in Seq(LogEvents)
        OBVIOUS
      <4> QED
        BY <1>1, <1>2, <4>1 DEF LogProcs
    <3>2. Started(r)
      BY <3>1 DEF Started
    <3>3. Set(p, r)
      BY <2>3
    <3> HIDE DEF r
    <3>4. ASSUME LinesTold(o, rows, written, lines, offset, whole)
          PROVE  LinesTold(r, rows, written, lines', offset', whole')
      <4>1. /\ Behind(r, written) = written /\ Queued(r, rows, written)
            /\ LinesAccount(lines, written) /\ offset < written
            /\ EndsCut(lines) => offset + 1 < written
        BY <1>3, <3>1, <3>4
      <4>2. written >= 0 /\ -1 < written
        BY <1>1
      <4>3. Waits(r, rows, written, lines)
        BY <3>1, <4>1, <4>2 DEF Waits
      <4> QED
        BY <1>1, <2>3, <4>1, <4>3 DEF LinesTold
    <3>5. lines' \in Seq(Int) /\ offset' \in Int /\ faults' \in Nat /\ whole' \in BOOLEAN
      <4>1. lines' = lines /\ offset' = offset /\ faults' = faults + 1 /\ whole' = FALSE
        BY <1>1, <2>3
      <4>2. faults + 1 \in Nat /\ FALSE \in BOOLEAN
        BY <1>1
      <4> QED
        BY <1>1, <4>1, <4>2, Zenon
    <3> QED
      BY <1>1, <1>2, <3>1, <3>2, <3>3, <3>4, <3>5, OnlyTheFile
  <2> QED
    BY <1>5, <2>2, <2>3 DEF RebuildWrite
<1> QED
  BY <1>4, <1>5

\* A step that writes the columns, or says what is to be written: the file stays.
LEMMA OnlyTheColumns ==
  ASSUME SLInv, NEW p \in Processes, NEW r \in LogProcs, Set(p, r), Started(r),
         procs[p].at # "down", r.at = procs[p].at, r.found = procs[p].found,
         r.todo = procs[p].todo, r.queue = procs[p].queue, r.done = procs[p].done,
         r.through = procs[p].through, row' \in LogRows,
         UNCHANGED <<rows, lines, offset, written, faults, rolled, whole, shared, torn>>,
         rolled = 0 => r.cut = {} /\ row'.users = row.users /\ row'.calls = row.calls,
         ASSUME ColumnsTold(procs[p], row, rows)
         PROVE  ColumnsTold(r, row', rows)
  PROVE  SLInv'
<1> DEFINE o == procs[p]
<1>1. /\ o \in LogProcs /\ rows \in Seq(LogEvents) /\ Ordered(rows) /\ lines \in Seq(Int)
      /\ offset \in Int /\ written \in Nat /\ faults \in Nat /\ rolled \in Nat
      /\ whole \in BOOLEAN /\ shared \in BOOLEAN /\ torn \in BOOLEAN
      /\ rolled = 0 => Numbered(rows) /\ written = Len(rows)
      /\ ~torn /\ ~shared => ColumnsTold(o, row, rows)
      /\ ~torn /\ rolled = 0 => CountsAgree(row, rows)
      /\ rolled = 0 /\ ~shared => LinesTold(o, rows, written, lines, offset, whole)
  BY Here
<1>2. ~torn /\ ~shared => ColumnsTold(r, row', rows)
  BY <1>1
<1>3. ~torn /\ rolled = 0 => CountsAgree(row', rows)
  BY <1>1 DEF CountsAgree
<1>4. rolled = 0 /\ ~shared => LinesTold(r, rows, written, lines, offset, whole)
  <2>1. Behind(r, written) = Behind(o, written) /\ (Queued(r, rows, written) <=> Queued(o, rows, written))
    BY DEF Behind, Queued
  <2>2. Waits(o, rows, written, lines) => Waits(r, rows, written, lines)
    BY <2>1 DEF Waits
  <2> QED
    BY <1>1, <2>1, <2>2 DEF LinesTold
<1>5. /\ rows' = rows /\ lines' = lines /\ offset' = offset /\ written' = written /\ faults' = faults
      /\ rolled' = rolled /\ whole' = whole /\ shared' = shared /\ torn' = torn
  OBVIOUS
<1>6. /\ rows' \in Seq(LogEvents) /\ Ordered(rows') /\ written' \in Nat /\ lines' \in Seq(Int)
      /\ offset' \in Int /\ faults' \in Nat /\ whole' \in BOOLEAN
      /\ rolled' \in Nat /\ shared' \in BOOLEAN /\ torn' \in BOOLEAN
      /\ ~shared' => ~shared /\ procs[p].at # "down"
      /\ rolled' = 0 => rolled = 0 /\ r.cut = {} /\ Numbered(rows') /\ written' = Len(rows')
      /\ ~torn' /\ ~shared' => ColumnsTold(r, row', rows')
      /\ ~torn' /\ rolled' = 0 => CountsAgree(row', rows')
      /\ rolled' = 0 /\ ~shared' => LinesTold(r, rows', written', lines', offset', whole')
  BY <1>1, <1>2, <1>3, <1>4, <1>5
<1> QED
  BY <1>6, Kept

LEMMA GoalColumnKeeps ==
  ASSUME SLInv, NEW p \in Processes, WriteGoalColumn(p)
  PROVE  SLInv'
<1> DEFINE o == procs[p]
<1>1. PICK k \in EventKinds \cap {"set", "clear", "met"} :
        /\ AtRest(p)
        /\ k = "met" => row.goal
        /\ row' = IF k = "met" THEN [row EXCEPT !.met = TRUE]
                  ELSE [row EXCEPT !.goal = (k = "set"), !.met = FALSE]
        /\ Set(p, [o EXCEPT !.due = {k}])
        /\ UNCHANGED <<rows, lines, offset, written, faults, rolled, whole, shared, torn>>
  BY DEF WriteGoalColumn
<1> DEFINE r == [o EXCEPT !.due = {k}]
<1>2. o \in LogProcs /\ row \in LogRows /\ o.at = "up" /\ o.due = {} /\ o.cut = {}
  BY <1>1, Here DEF AtRest
<1>3. /\ r \in LogProcs /\ r.queue = o.queue /\ r.todo = o.todo /\ r.at = o.at /\ r.due = {k}
      /\ r.cut = {} /\ r.done = o.done /\ r.through = o.through /\ r.found = o.found
  BY <1>2 DEF LogProcs
<1>4. Started(r)
  BY <1>2, <1>3 DEF Started
<1>5. /\ row' \in LogRows /\ row'.users = row.users /\ row'.calls = row.calls
      /\ row'.goal <=> k # "clear"
      /\ row'.met <=> k = "met"
  <2>1. CASE k = "met"
    BY <1>1, <1>2, <2>1 DEF LogRows
  <2>2. CASE k \in {"set", "clear"}
    BY <1>1, <1>2, <2>2 DEF LogRows
  <2> QED
    BY <2>1, <2>2
<1> HIDE DEF r
<1>6. ASSUME ColumnsTold(o, row, rows)
      PROVE  ColumnsTold(r, row', rows)
  <2>1. GoalAgrees(row, rows) /\ CountsAgree(row, rows)
    BY <1>2, <1>6 DEF ColumnsTold
  <2>2. GoalDue(k, row', rows)
    BY <1>1, <1>5, <2>1 DEF GoalDue, GoalAgrees
  <2>3. CountsAgree(row', rows)
    BY <1>5, <2>1 DEF CountsAgree
  <2>4. \A c : {<<c>>} # {}
    OBVIOUS
  <2> QED
    BY <1>3, <2>2, <2>3, <2>4 DEF ColumnsTold
<1>7. Set(p, r) /\ UNCHANGED <<rows, lines, offset, written, faults, rolled, whole, shared, torn>>
  BY <1>1 DEF r
<1> QED
  BY <1>2, <1>3, <1>4, <1>5, <1>6, <1>7, OnlyTheColumns

LEMMA CountingKeeps ==
  ASSUME SLInv, NEW p \in Processes, TruncateCount(p)
  PROVE  SLInv'
<1> DEFINE o == procs[p]
           c == Recounted(rows)
           r == [o EXCEPT !.cut = {<<c>>}]
<1>1. /\ o \in LogProcs /\ Started(o) /\ row \in LogRows /\ rows \in Seq(LogEvents) /\ Ordered(rows)
      /\ rolled = 0 => o.cut = {}
  BY Here
<1>2. /\ o.cut = {<<>>} /\ Set(p, r) /\ row' = row
      /\ UNCHANGED <<rows, lines, offset, written, faults, rolled, whole, shared, torn>>
  BY DEF TruncateCount
<1>3. o.at = "up" /\ o.due = {} /\ rolled # 0
  BY <1>1, <1>2 DEF Started
<1>4. c \in LogRows /\ CountsAgree(c, rows) /\ GoalAgrees(c, rows)
  BY <1>1, RecountedAgrees
<1> HIDE DEF c
<1>5. /\ r \in LogProcs /\ r.queue = o.queue /\ r.todo = o.todo /\ r.at = o.at /\ r.due = o.due
      /\ r.cut = {<<c>>} /\ r.done = o.done /\ r.through = o.through /\ r.found = o.found
  <2>1. {<<c>>} \in Cuts
    BY <1>4 DEF Cuts
  <2> QED
    BY <1>1, <2>1 DEF LogProcs
<1>6. Started(r)
  BY <1>3, <1>5 DEF Started
<1> HIDE DEF r
<1>7. ColumnsTold(r, row', rows)
  <2>1. r.due = {} /\ r.cut # {}
    BY <1>3, <1>5
  <2>2. \A b : {<<c>>} = {<<b>>} => b = c
    <3> SUFFICES ASSUME NEW b, {<<c>>} = {<<b>>}
                 PROVE  b = c
      OBVIOUS
    <3>1. <<b>> = <<c>>
      OBVIOUS
    <3> QED
      BY <3>1
  <2> QED
    BY <1>4, <1>5, <2>1, <2>2 DEF ColumnsTold
<1>8. row' \in LogRows /\ o.at # "down"
  BY <1>1, <1>2, <1>3
<1> QED
  BY <1>2, <1>3, <1>5, <1>6, <1>7, <1>8, OnlyTheColumns

LEMMA UpdateKeeps ==
  ASSUME SLInv, NEW p \in Processes, TruncateUpdate(p)
  PROVE  SLInv'
<1> DEFINE o == procs[p]
           r == [o EXCEPT !.cut = {}]
<1>1. /\ o \in LogProcs /\ Started(o) /\ o.cut \in Cuts
      /\ rolled = 0 => o.cut = {}
  BY Here, ProcTyped
<1>2. /\ o.cut \notin {{}, {<<>>}} /\ Set(p, r) /\ row' = (CHOOSE c \in o.cut : TRUE)[1]
      /\ UNCHANGED <<rows, lines, offset, written, faults, rolled, whole, shared, torn>>
  BY DEF TruncateUpdate
<1>3. PICK c \in LogRows : o.cut = {<<c>>}
  BY <1>1, <1>2 DEF Cuts
<1>4. row' = c
  <2>1. (CHOOSE x \in {<<c>>} : TRUE) = <<c>>
    OBVIOUS
  <2> QED
    BY <1>2, <1>3, <2>1
<1>5. o.at = "up" /\ o.due = {} /\ rolled # 0
  BY <1>1, <1>2 DEF Started
<1>6. /\ r \in LogProcs /\ r.queue = o.queue /\ r.todo = o.todo /\ r.at = o.at /\ r.due = o.due
      /\ r.cut = {} /\ r.done = o.done /\ r.through = o.through /\ r.found = o.found
  <2>1. {} \in Cuts
    BY DEF Cuts
  <2> QED
    BY <1>1, <2>1 DEF LogProcs
<1>7. Started(r)
  BY <1>5, <1>6 DEF Started
<1> HIDE DEF r
<1>8. ASSUME ColumnsTold(o, row, rows)
      PROVE  ColumnsTold(r, row', rows)
  <2>1. GoalAgrees(c, rows) /\ CountsAgree(c, rows)
    BY <1>3, <1>8 DEF ColumnsTold
  <2>2. \A b : {<<b>>} # {}
    OBVIOUS
  <2> QED
    BY <1>4, <1>5, <1>6, <2>1, <2>2 DEF ColumnsTold
<1>9. row' \in LogRows /\ o.at # "down"
  BY <1>4, <1>5
<1> QED
  BY <1>2, <1>5, <1>6, <1>7, <1>8, <1>9, OnlyTheColumns

LEMMA DeletingKeeps ==
  ASSUME SLInv, NEW p \in Processes, TruncateDelete(p)
  PROVE  SLInv'
<1> DEFINE o == procs[p]
           r == [o EXCEPT !.cut = {<<>>}]
<1>1. /\ o \in LogProcs /\ Started(o) /\ rows \in Seq(LogEvents) /\ Ordered(rows) /\ row \in LogRows
      /\ lines \in Seq(Int) /\ offset \in Int /\ written \in Nat /\ faults \in Nat /\ rolled \in Nat
      /\ shared \in BOOLEAN /\ torn \in BOOLEAN
  BY Here
<1>2. /\ AtRest(p) /\ Set(p, r) /\ rolled' = rolled + 1 /\ whole' = FALSE
      /\ UNCHANGED <<row, lines, offset, written, faults, shared, torn>>
  BY DEF TruncateDelete
<1>3. PICK j \in 1 .. (Len(rows) - 1) : rows' = SubSeq(rows, 1, j)
  BY DEF TruncateDelete
<1>4. rows' \in Seq(LogEvents) /\ Ordered(rows')
  <2>1. j \in 0 .. Len(rows)
    BY <1>1
  <2> QED
    BY <1>1, <1>3, <2>1, OrderedBeginning
<1>5. o.at = "up" /\ o.due = {}
  BY <1>2 DEF AtRest
<1>6. /\ r \in LogProcs /\ r.at = "up" /\ r.due = {} /\ r.cut = {<<>>}
  <2>1. {<<>>} \in Cuts
    BY DEF Cuts
  <2> QED
    BY <1>1, <1>5, <2>1 DEF LogProcs
<1>7. Started(r)
  BY <1>6 DEF Started
<1> HIDE DEF r
<1>8. ColumnsTold(r, row', rows')
  <2>1. \A c : {<<>>} # {<<c>>}
    <3> SUFFICES ASSUME NEW c, {<<>>} = {<<c>>}
                 PROVE  FALSE
      OBVIOUS
    <3>1. <<>> = <<c>>
      OBVIOUS
    <3>2. Len(<<>>) = 0 /\ Len(<<c>>) = 1
      OBVIOUS
    <3> QED
      BY <3>1, <3>2
  <2>2. r.cut # {}
    BY <1>6
  <2> QED
    BY <1>6, <2>1, <2>2 DEF ColumnsTold
<1>9. rolled' \in Nat /\ rolled' # 0 /\ whole' \in BOOLEAN
  <2>1. rolled \in Nat /\ rolled' = rolled + 1
    BY <1>1, <1>2
  <2>2. whole' \in BOOLEAN
    BY <1>2, Zenon
  <2> QED
    BY <2>1, <2>2
<1>10. /\ row' \in LogRows /\ lines' \in Seq(Int) /\ offset' \in Int /\ written' \in Nat
       /\ faults' \in Nat /\ shared' \in BOOLEAN /\ torn' \in BOOLEAN
       /\ ~shared' => ~shared /\ procs[p].at # "down"
  BY <1>1, <1>2, <1>5
<1> QED
  BY <1>2, <1>4, <1>5, <1>6, <1>7, <1>8, <1>9, <1>10, Kept

LEMMA ForkKeeps ==
  ASSUME SLInv, NEW p \in Processes, Fork(p)
  PROVE  SLInv'
<1> DEFINE o == procs[p]
           r == [o EXCEPT !.through = -1]
<1>1. /\ o \in LogProcs /\ Started(o) /\ rows \in Seq(LogEvents) /\ Ordered(rows)
      /\ written \in Nat /\ faults \in Nat /\ rolled \in Nat /\ shared \in BOOLEAN /\ torn \in BOOLEAN
  BY Here
<1>2. /\ AtRest(p) /\ Set(p, r) /\ rolled' = rolled + 1 /\ whole' = FALSE /\ written' = written + 1
      /\ lines' = <<>> /\ offset' = -1 /\ UNCHANGED <<faults, shared>>
  BY DEF Fork
<1>3. PICK j \in 0 .. Len(rows) :
        LET copied == RemoveFirstMatch(SubSeq(rows, 1, j), LAMBDA e : e.k = "meta") IN
        /\ rows' = Append(copied, [New("meta") EXCEPT !.i = MaxIndex(copied) + 1])
        /\ row' = [Recounted(copied) EXCEPT !.goal = FALSE, !.met = FALSE]
        /\ torn' = (torn \/ Recounted(copied).goal)
  BY DEF Fork
<1> DEFINE copied == RemoveFirstMatch(SubSeq(rows, 1, j), LAMBDA e : e.k = "meta")
           e == [New("meta") EXCEPT !.i = MaxIndex(copied) + 1]
           c == Recounted(copied)
<1>4. copied \in Seq(LogEvents) /\ Ordered(copied) /\ \A g \in DOMAIN copied : copied[g].k # "meta"
  <2> DEFINE part == SubSeq(rows, 1, j)
  <2>1. part \in Seq(LogEvents) /\ Ordered(part)
    BY <1>1, OrderedBeginning
  <2> HIDE DEF part
  <2>2. ASSUME NEW s, s = RemoveFirstMatch(part, LAMBDA x : x.k = "meta")
        PROVE  s \in Seq(LogEvents) /\ Ordered(s) /\ \A g \in DOMAIN s : s[g].k # "meta"
    BY <2>1, <2>2, OrderedCopy
  <2> QED
    BY <2>2 DEF part
<1>5. rows' = Append(copied, e) /\ row' = [c EXCEPT !.goal = FALSE, !.met = FALSE] /\ torn' = (torn \/ c.goal)
  BY <1>3
<1> HIDE DEF copied
<1>6. e \in LogEvents /\ e.k = "meta" /\ e.i = MaxIndex(copied) + 1
  <2>1. MaxIndex(copied) + 1 \in Nat
    <3>1. ASSUME copied # <<>>
          PROVE  Last(copied).i \in Nat
      <4>1. Len(copied) \in DOMAIN copied /\ Last(copied) = copied[Len(copied)]
        BY <1>4, <3>1 DEF Last
      <4> QED
        BY <1>4, <4>1, EventsTyped
    <3> QED
      BY <3>1 DEF MaxIndex
  <2>2. e = [i |-> MaxIndex(copied) + 1, k |-> "meta", n |-> written + 1]
    BY DEF New
  <2>3. "meta" \in LogKinds /\ written + 1 \in Nat \ {0}
    BY <1>1 DEF LogKinds
  <2> QED
    BY <2>1, <2>2, <2>3 DEF LogEvents
<1> HIDE DEF e
<1>7. rows' \in Seq(LogEvents) /\ Ordered(rows')
  BY <1>4, <1>5, <1>6, OrderedAppend
<1>8. /\ c \in LogRows /\ CountsAgree(c, copied) /\ GoalAgrees(c, copied) /\ (c.met => c.goal)
  BY <1>4, RecountedAgrees
<1> HIDE DEF c
<1>9. /\ row' \in LogRows /\ row'.users = c.users /\ row'.calls = c.calls
      /\ row'.goal = FALSE /\ row'.met = FALSE /\ c.goal \in BOOLEAN
  BY <1>5, <1>8 DEF LogRows
<1>10. o.at = "up" /\ o.due = {} /\ o.cut = {}
  BY <1>2 DEF AtRest
<1>11. r \in LogProcs /\ r.at = "up" /\ r.due = {} /\ r.cut = {}
  <2>1. -1 \in Int
    OBVIOUS
  <2> QED
    BY <1>1, <1>10, <2>1 DEF LogProcs
<1>12. Started(r)
  BY <1>11 DEF Started
<1> HIDE DEF r
<1>13. ~torn' => ColumnsTold(r, row', rows')
  <2> SUFFICES ASSUME ~torn'
               PROVE  ColumnsTold(r, row', rows')
    OBVIOUS
  <2>1. ~GoalStands(copied) /\ ~GoalMet(copied)
    BY <1>5, <1>8 DEF GoalAgrees
  <2>2. ~GoalStands(rows') /\ ~GoalMet(rows')
    BY <1>4, <1>5, <1>6, <2>1, GoalAppended
  <2>3. GoalAgrees(row', rows')
    BY <1>9, <2>2 DEF GoalAgrees
  <2>4. CountOf(rows', "user") = CountOf(copied, "user") + 0 /\ CountOf(rows', "call") = CountOf(copied, "call") + 0
    BY <1>4, <1>5, <1>6, CountOfMore
  <2>5. CountOf(copied, "user") \in Nat /\ CountOf(copied, "call") \in Nat
    BY <1>4, PlacesFinite
  <2>6. CountsAgree(row', rows')
    BY <1>8, <1>9, <2>4, <2>5 DEF CountsAgree
  <2>7. \A b : {<<b>>} # {}
    OBVIOUS
  <2> QED
    BY <1>11, <2>3, <2>6, <2>7 DEF ColumnsTold
<1>14. rolled' \in Nat /\ rolled' # 0 /\ whole' \in BOOLEAN /\ written' \in Nat /\ offset' \in Int
  <2>1. rolled \in Nat /\ rolled' = rolled + 1 /\ written \in Nat /\ written' = written + 1 /\ offset' = -1
    BY <1>1, <1>2
  <2>2. whole' \in BOOLEAN
    BY <1>2, Zenon
  <2> QED
    BY <2>1, <2>2
<1>15. lines' \in Seq(Int)
  BY <1>2
<1>16. torn' \in BOOLEAN
  BY <1>5
<1>17. /\ faults' \in Nat /\ shared' \in BOOLEAN /\ (~shared' => ~shared /\ procs[p].at # "down")
  BY <1>1, <1>2, <1>10
<1> QED
  BY <1>2, <1>7, <1>9, <1>10, <1>11, <1>12, <1>13, <1>14, <1>15, <1>16, <1>17, Kept

LEMMA CrashKeeps ==
  ASSUME SLInv, NEW p \in Processes, Crash(p)
  PROVE  SLInv'
<1> DEFINE o == procs[p]
<1>1. /\ o \in LogProcs /\ Started(o)
      /\ rows \in Seq(LogEvents) /\ Ordered(rows) /\ row \in LogRows /\ lines \in Seq(Int)
      /\ offset \in Int /\ written \in Nat /\ faults \in Nat /\ rolled \in Nat
      /\ shared \in BOOLEAN /\ torn \in BOOLEAN
      /\ rolled = 0 => Numbered(rows) /\ written = Len(rows)
      /\ ~torn /\ ~shared /\ o.at # "down" => ColumnsTold(o, row, rows)
      /\ ~torn /\ rolled = 0 => CountsAgree(row, rows)
      /\ rolled = 0 /\ ~shared => LinesTold(o, rows, written, lines, offset, whole)
  BY Here
<1>2. /\ o.at # "down" /\ Set(p, Down) /\ faults' = faults + 1 /\ whole' = FALSE
      /\ torn' = (torn \/ o.due # {} \/ o.cut # {})
      /\ UNCHANGED <<rows, row, lines, offset, written, rolled, shared>>
  BY DEF Crash
<1>3. /\ Down \in LogProcs /\ Down.at = "down" /\ Started(Down) /\ Down.due = {} /\ Down.cut = {}
  <2>1. <<>> \in Seq(LogEvents) /\ {} \in Cuts
    BY DEF Cuts
  <2>2. Down \in LogProcs
    BY <2>1 DEF Down, LogProcs
  <2> QED
    BY <2>2 DEF Down, Started
<1>4. /\ rows' = rows /\ row' = row /\ lines' = lines /\ offset' = offset /\ written' = written
      /\ rolled' = rolled /\ shared' = shared
  BY <1>2
<1>5. ~torn' /\ ~shared => ColumnsTold(Down, row, rows)
  <2> SUFFICES ASSUME ~torn', ~shared
               PROVE  ColumnsTold(Down, row, rows)
    OBVIOUS
  <2>1. ~torn /\ o.due = {} /\ o.cut = {}
    BY <1>2
  <2>2. GoalAgrees(row, rows) /\ CountsAgree(row, rows)
    BY <1>1, <1>2, <2>1 DEF ColumnsTold
  <2>3. \A b : {<<b>>} # {}
    OBVIOUS
  <2> QED
    BY <1>3, <2>2, <2>3 DEF ColumnsTold
<1>6. rolled = 0 /\ ~shared => LinesTold(Down, rows, written, lines, offset, whole')
  BY <1>1, <1>3, DownIsTold
<1>7. torn' \in BOOLEAN /\ faults' \in Nat /\ whole' \in BOOLEAN /\ (~torn' => ~torn)
  <2>1. faults \in Nat /\ faults' = faults + 1
    BY <1>1, <1>2
  <2>2. whole' \in BOOLEAN /\ torn' \in BOOLEAN /\ (~torn' => ~torn)
    BY <1>2
  <2> QED
    BY <2>1, <2>2
<1>8. /\ rows' \in Seq(LogEvents) /\ Ordered(rows') /\ row' \in LogRows /\ lines' \in Seq(Int)
      /\ offset' \in Int /\ written' \in Nat /\ rolled' \in Nat /\ shared' \in BOOLEAN
      /\ ~shared' => ~shared /\ procs[p].at # "down"
      /\ rolled' = 0 => rolled = 0 /\ Numbered(rows') /\ written' = Len(rows')
      /\ ~torn' /\ ~shared' => ColumnsTold(Down, row', rows')
      /\ ~torn' /\ rolled' = 0 => CountsAgree(row', rows')
      /\ rolled' = 0 /\ ~shared' => LinesTold(Down, rows', written', lines', offset', whole')
  BY <1>1, <1>2, <1>4, <1>5, <1>6, <1>7
<1> QED
  BY <1>2, <1>3, <1>7, <1>8, Kept

LEMMA AppendsKeep ==
  ASSUME SLInv, NEW p \in Processes, CreateSession(p) \/ AppendEvent(p) \/ AppendGoalEvent(p)
  PROVE  SLInv'
<1>1. CASE CreateSession(p)
  <2>1. /\ procs[p].at = "up" /\ procs[p].todo = <<>> /\ procs[p].cut = {} /\ rows = <<>>
        /\ procs[p].due = {} /\ Committed(p, <<New("meta")>>) /\ "meta" \in LogKinds
        /\ UNCHANGED <<lines, offset, faults, rolled, whole, shared, torn>>
    BY <1>1 DEF CreateSession, AtRest, LogKinds
  <2> QED
    BY <2>1, CommitKeeps
<1>2. CASE AppendEvent(p)
  <2>1. PICK k \in EventKinds \ {"set", "clear", "met"} : Committed(p, <<New(k)>>)
    BY <1>2 DEF AppendEvent
  <2>2. /\ procs[p].at = "up" /\ procs[p].todo = <<>> /\ procs[p].cut = {}
        /\ procs[p].due = {} /\ k \in LogKinds /\ k # "meta"
        /\ UNCHANGED <<lines, offset, faults, rolled, whole, shared, torn>>
    BY <1>2, SessionLogAssumption DEF AppendEvent, AtRest, LogKinds
  <2> QED
    BY <2>1, <2>2, CommitKeeps
<1>3. CASE AppendGoalEvent(p)
  <2>1. PICK k \in procs[p].due : Committed(p, <<New(k)>>)
    BY <1>3 DEF AppendGoalEvent
  <2>2. /\ procs[p].at = "up" /\ procs[p].todo = <<>>
        /\ UNCHANGED <<lines, offset, faults, rolled, whole, shared, torn>>
    BY <1>3 DEF AppendGoalEvent
  <2>3. procs[p].due \in {{}} \cup {{x} : x \in EventKinds \cap {"set", "clear", "met"}}
    BY Here, ProcTyped
  <2>4. procs[p].due = {k} /\ k \in {"set", "clear", "met"} /\ k \in LogKinds
    BY <2>1, <2>3 DEF LogKinds
  <2>5. procs[p].cut = {}
    BY <2>4, Here DEF Started
  <2> QED
    BY <2>1, <2>2, <2>4, <2>5, CommitKeeps
<1> QED
  BY <1>1, <1>2, <1>3

LEMMA SLInvInit ==
  ASSUME SLInit
  PROVE  SLInv
<1>1. /\ <<>> \in Seq(LogEvents) /\ <<>> \in Seq(Int) /\ {} \in Cuts /\ DOMAIN <<>> = {} /\ Len(<<>>) = 0
      /\ \A b : {<<b>>} # {}
  BY DEF Cuts
<1>2. Down \in LogProcs /\ Started(Down) /\ Down.due = {} /\ Down.cut = {} /\ Down.at = "down"
      /\ Down.queue = <<>> /\ Down.todo = <<>> /\ Down.through = -1 /\ Down.done = NoEvent
  <2>1. Down \in LogProcs
    BY <1>1 DEF Down, LogProcs
  <2> QED
    BY <2>1 DEF Down, Started
<1>3. Ordered(<<>>) /\ Numbered(<<>>)
  BY <1>1 DEF Ordered, Numbered
<1>4. row \in LogRows /\ CountsAgree(row, rows) /\ GoalAgrees(row, rows)
  BY <1>1, <1>3, RecountedAgrees DEF SLInit
<1>5. /\ rows = <<>> /\ lines = <<>> /\ offset = -1 /\ procs = [p \in Processes |-> Down]
      /\ written = 0 /\ faults = 0 /\ rolled = 0
      /\ whole = FALSE /\ shared = FALSE /\ torn = FALSE
  BY DEF SLInit
<1>6. \A p \in Processes : procs[p] = Down
  BY <1>5
<1>7. LogShape
  <2>1. LogTypes
    <3>1. rows \in Seq(LogEvents) /\ lines \in Seq(Int)
      BY <1>1, <1>5
    <3>2. procs \in [Processes -> LogProcs]
      BY <1>2, <1>5
    <3>3. offset \in Int /\ written \in Nat /\ faults \in Nat /\ rolled \in Nat
      BY <1>5
    <3>4. whole \in BOOLEAN /\ shared \in BOOLEAN /\ torn \in BOOLEAN
      BY <1>5, Zenon
    <3> QED
      BY <1>4, <3>1, <3>2, <3>3, <3>4 DEF LogTypes
  <2> QED
    BY <1>2, <1>3, <1>5, <1>6, <2>1 DEF LogShape
<1>8. ColumnsInv
  <2>1. ColumnsTold(Down, row, rows)
    BY <1>1, <1>2, <1>4 DEF ColumnsTold
  <2> QED
    BY <1>4, <1>6, <2>1 DEF ColumnsInv
<1>9. TranscriptInv
  <2>1. Behind(Down, 0) = 0 /\ Queued(Down, <<>>, 0)
    <3>1. Len(Down.queue) = 0 /\ Len(Down.todo) = 0 /\ DOMAIN Down.queue = {} /\ DOMAIN Down.todo = {}
      BY <1>1, <1>2
    <3>2. Behind(Down, 0) = 0
      BY <3>1 DEF Behind
    <3> QED
      BY <3>1, <3>2 DEF Queued
  <2>2. Waits(Down, <<>>, 0, <<>>)
    BY <1>2, <2>1 DEF Waits
  <2>3. LinesAccount(<<>>, 0) /\ ~EndsCut(<<>>)
    BY <1>1 DEF LinesAccount, EndsCut
  <2>4. LinesTold(Down, <<>>, 0, <<>>, -1, FALSE)
    BY <1>2, <2>1, <2>2, <2>3 DEF LinesTold
  <2> QED
    BY <1>1, <1>3, <1>5, <1>6, <2>4 DEF TranscriptInv
<1> QED
  BY <1>7, <1>8, <1>9 DEF SLInv

LEMMA SLInvStep ==
  ASSUME SLInv, [SLNext]_slVars
  PROVE  SLInv'
<1>1. CASE SLNext
  <2>1. PICK p \in Processes :
          \/ CreateSession(p) \/ AppendEvent(p) \/ WriteGoalColumn(p) \/ AppendGoalEvent(p)
          \/ Project(p) \/ SkipCovered(p) \/ AppendLine(p) \/ AppendLineFails(p) \/ PersistOffset(p)
          \/ OpenScan(p) \/ OpenReconcile(p) \/ RebuildRead(p) \/ RebuildWrite(p)
          \/ TruncateDelete(p) \/ TruncateCount(p) \/ TruncateUpdate(p) \/ Fork(p) \/ Crash(p)
    BY <1>1 DEF SLNext
  <2> QED
    BY <2>1, AppendsKeep, GoalColumnKeeps, ProjectKeeps, WorkKeeps, OffsetKeeps, ScanKeeps,
       ReconcileKeeps, RebuildKeeps, DeletingKeeps, CountingKeeps, UpdateKeeps, ForkKeeps, CrashKeeps
<1>2. CASE UNCHANGED slVars
  <2>1. /\ rows' = rows /\ row' = row /\ lines' = lines /\ offset' = offset /\ procs' = procs
        /\ written' = written /\ faults' = faults /\ rolled' = rolled /\ whole' = whole
        /\ shared' = shared /\ torn' = torn
    BY <1>2 DEF slVars
  <2>2. LogShape'
    BY <2>1 DEF SLInv, LogShape, LogTypes
  <2>3. ColumnsInv' /\ TranscriptInv'
    BY <2>1 DEF SLInv, ColumnsInv, Sole, TranscriptInv
  <2> QED
    BY <2>2, <2>3 DEF SLInv
<1> QED
  BY <1>1, <1>2

LEMMA SLInvShows ==
  ASSUME SLInv
  PROVE  ProjectionsFollow
<1>1. TranscriptHeals
  <2> SUFFICES ASSUME NEW p \in Processes, Drained(p), whole, rolled = 0, ~shared
               PROVE  lines = Numbers(rows)
    BY DEF TranscriptHeals
  <2>1. /\ LinesTold(procs[p], rows, written, lines, offset, whole) /\ Numbered(rows)
        /\ written = Len(rows) /\ rows \in Seq(LogEvents) /\ lines \in Seq(Int)
    BY Here
  <2>2. procs[p].at = "up" /\ procs[p].todo = <<>> /\ procs[p].queue = <<>>
    BY DEF Drained, AtRest
  <2>3. Behind(procs[p], written) = Len(rows)
    BY <2>1, <2>2 DEF Behind
  <2>4. Len(lines) = Len(rows) /\ \A j \in DOMAIN lines : lines[j] = j
    BY <2>1, <2>2, <2>3 DEF LinesTold
  <2>5. DOMAIN lines = DOMAIN rows /\ \A j \in DOMAIN rows : rows[j].n = j
    BY <2>1, <2>4 DEF Numbered
  <2> QED
    BY <2>1, <2>4, <2>5 DEF Numbers
<1>2. RowAgrees
  <2> SUFFICES ASSUME NEW p \in Processes, AtRest(p), ~torn
               PROVE  /\ ~shared => row.goal = GoalStands(rows) /\ row.met = GoalMet(rows)
                      /\ ~shared \/ rolled = 0 =>
                           row.users = CountOf(rows, "user") /\ row.calls = CountOf(rows, "call")
    BY DEF RowAgrees
  <2>1. procs[p].at = "up" /\ procs[p].due = {} /\ procs[p].cut = {}
    BY DEF AtRest
  <2>2. /\ ~shared => ColumnsTold(procs[p], row, rows)
        /\ rolled = 0 => CountsAgree(row, rows)
        /\ row \in LogRows
    BY <2>1, Here
  <2>3. ~shared => GoalAgrees(row, rows) /\ CountsAgree(row, rows)
    BY <2>1, <2>2 DEF ColumnsTold
  <2>4. row.goal \in BOOLEAN /\ row.met \in BOOLEAN
    BY <2>2 DEF LogRows
  <2>5. GoalStands(rows) \in BOOLEAN /\ GoalMet(rows) \in BOOLEAN
    BY DEF GoalStands, GoalMet
  <2>6. ~shared => row.goal = GoalStands(rows) /\ row.met = GoalMet(rows)
    BY <2>3, <2>4, <2>5 DEF GoalAgrees
  <2>7. ~shared \/ rolled = 0 =>
          row.users = CountOf(rows, "user") /\ row.calls = CountOf(rows, "call")
    BY <2>2, <2>3 DEF CountsAgree
  <2> QED
    BY <2>6, <2>7
<1> QED
  BY <1>1, <1>2 DEF ProjectionsFollow

\* What is derived from a session's events follows them, whatever the number
\* of processes, the length of the log and the faults: the transcript once
\* what was queued is written, the sessions row whenever a process is at rest
\* (reconcile_projections, run_worker, append_event, truncate_events_after).
THEOREM ProjectionsAlwaysFollow == SLSpec => []ProjectionsFollow
<1>1. SLInit => SLInv
  BY SLInvInit
<1>2. SLInv /\ [SLNext]_slVars => SLInv'
  BY SLInvStep
<1>3. SLInv => ProjectionsFollow
  BY SLInvShows
<1> QED
  BY <1>1, <1>2, <1>3, PTL DEF SLSpec
=============================================================================
