---------------------------- MODULE ActingProofs ----------------------------
(***************************************************************************)
(* Batches of tool calls, for any agents, scenarios, batches and budgets; who *)
(* a call is for, on its two ways out of the process: the operator's approval *)
(* cards and the pipes of MCP servers, for any calls; and where the lines are that *)
(* the operator types, for any number of lines.                            *)
(*                                                                         *)
(* Every action of ToolCalls moves one agent by one of a few kinds of step *)
(* (Steps): a gate passed, a call turned away, a slot moved, a call finalized, *)
(* and so on.  The invariants are about one agent's record, so each kind of *)
(* step is looked at once; ToolSteps shows that there are no others.  What *)
(* agents share, the file, its lock and the checkpoints, is UndoInv's.     *)
(***************************************************************************)
EXTENDS OperatorShell, ApprovalCards, ToolCalls, McpServers,
        FiniteSetTheorems, TLAPS

SlotStates == {"new", "blocked", "run", "running", "checked", "ok", "failed"}

Execs == [cancelled : BOOLEAN, expired : BOOLEAN, used : Nat]

Events == [call : Nat, what : {"call", "outcome"}]

BatchRecs ==
  [calls : Seq(ToolNames), at : Nat \ {0}, stage : 1 .. 4, slots : Seq(SlotStates),
   log : Seq(Events), told : Seq(Nat), approved : SUBSET Nat,
   slotted : SUBSET Nat, pending : BOOLEAN]

Places == {"idle", "before", "gate", "run", "returned"}

AgentRecs ==
  [pc : Places, exec : Execs, window : Nat, seen : Nat, read : Nat, batch : BatchRecs]

ToolsShape ==
  /\ settings \in Scenarios
  /\ agent \in [Agents -> AgentRecs]
  /\ file \in [version : Nat, mtime : Nat]
  /\ saved \in [Agents -> Seq([pre : Nat, post : Nat])]
  /\ clock \in Nat /\ fresh \in Nat

-----------------------------------------------------------------------------
\* The policy allows call i of the batch, and the operator, where he is asked.
MayRun(b, i) ==
  /\ Allows(settings.mode, b.calls[i])
  /\ NeedsApproval(b.calls[i]) => i \in b.approved

\* What the gates behind a call have established, on the way to its run.
Gated(r) ==
  LET b == r.batch IN
  /\ r.pc = "before" => b.stage = 1
  /\ (r.pc = "gate" /\ b.at \in DOMAIN b.calls) =>
       /\ b.stage > 1 => Allows(settings.mode, b.calls[b.at])
       /\ (b.stage > 2 /\ ~Parallel(b.calls)) =>
            (NeedsApproval(b.calls[b.at]) => b.at \in b.approved)
  /\ \A i \in DOMAIN b.calls : b.slots[i] \in {"run", "running", "checked"} => MayRun(b, i)

-----------------------------------------------------------------------------
\* The calls whose message is in the conversation.
Told(r) ==
  IF \/ r.pc \in {"run", "returned"}
     \/ r.pc = "gate" /\ ~Parallel(r.batch.calls)
  THEN r.batch.at - 1 ELSE 0

\* The calls whose event is on record.
OnRecord(r, i) ==
  LET b == r.batch IN
  \/ r.pc = "returned"
  \/ r.pc = "run" /\ (Parallel(b.calls) \/ i <= b.at)
  \/ r.pc = "gate" /\ (i < b.at \/ (i = b.at /\ b.stage = 4 /\ Parallel(b.calls)))

\* Where the batch is: the calls it has still to gate are new.
Seated(r) ==
  LET b == r.batch IN
  /\ Len(b.slots) = Len(b.calls)
  /\ r.pc \in {"gate", "run"} => b.at <= Len(b.calls)
  /\ r.pc = "returned" => b.at = Len(b.calls) + 1
  /\ \A i \in DOMAIN b.calls :
       (r.pc \in {"before", "idle"} \/ (r.pc = "gate" /\ i >= b.at)
        \/ (r.pc = "run" /\ ~Parallel(b.calls) /\ i > b.at)) => b.slots[i] = "new"

\* What a log says: which events are in it, each once, of which calls, and a
\* call's own event before its outcome.
In(log, e) == \E k \in DOMAIN log : log[k] = e
Sole(log) == \A j, k \in DOMAIN log : log[j] = log[k] => j = k
OfCalls(log, S) == \A k \in DOMAIN log : log[k].call \in S
InOrder(log, i) ==
  \A k \in DOMAIN log : log[k] = OutcomeEvent(i) =>
    \E j \in DOMAIN log : j < k /\ log[j] = CallEvent(i)

\* A call's event is on record once it has been gated, its outcome once it has
\* been turned away or its message is in the conversation.
Recording(r) ==
  LET b == r.batch IN
  /\ b.told = [i \in 1 .. Told(r) |-> i]
  /\ Sole(b.log) /\ OfCalls(b.log, DOMAIN b.calls)
  /\ \A i \in DOMAIN b.calls :
       /\ In(b.log, CallEvent(i)) <=> OnRecord(r, i)
       /\ In(b.log, OutcomeEvent(i)) <=> (i <= Told(r) \/ b.slots[i] = "blocked")
       /\ InOrder(b.log, i)

-----------------------------------------------------------------------------
\* Versions are drawn once.
VersionsDrawn ==
  /\ file.version < fresh
  /\ \A a \in Agents : /\ agent[a].read < fresh
                       /\ \A k \in DOMAIN saved[a] : saved[a][k].pre < fresh

\* A call that writes has its checkpoint pending from the hook on.
HookRan(r) ==
  LET b == r.batch IN
  /\ b.pending => /\ r.pc \in {"gate", "run"}
                  /\ b.at \in DOMAIN b.calls /\ Writes(b.calls[b.at])
  /\ (r.pc = "gate" /\ b.stage = 4 /\ ~Parallel(b.calls) /\ b.at \in DOMAIN b.calls
        /\ Writes(b.calls[b.at])) => b.pending
  /\ \A i \in DOMAIN b.calls :
       (b.slots[i] \in {"run", "running", "checked"} /\ Writes(b.calls[i])) =>
          b.pending /\ i = b.at
  /\ \A i \in DOMAIN b.calls : b.slots[i] = "checked" => Writes(b.calls[i])

\* While it is, its session's newest checkpoint is of the version in the file
\* unless another agent has written one the call has not read; and the one that
\* holds the lock has checked the version in the file.
CanUndo(a, r, checkpoints, version, holder, edited) ==
  LET b == r.batch IN
  /\ (b.pending /\ ~edited) =>
       /\ checkpoints # <<>>
       /\ Last(checkpoints).pre = version \/ r.read < version
  /\ \A i \in DOMAIN b.calls : b.slots[i] = "checked" =>
       /\ holder = a
       /\ (b.calls[i] = "safe" /\ ~edited) => version = r.read

Undoable(a) == CanUndo(a, agent[a], saved[a], file.version, lock, outside)

ToolsInv ==
  /\ ToolsShape
  /\ \A a \in Agents : Seated(agent[a]) /\ Gated(agent[a])

RecordInv == \A a \in Agents : Recording(agent[a])

UndoInv ==
  /\ VersionsDrawn
  /\ \A a \in Agents : HookRan(agent[a]) /\ Undoable(a)

-----------------------------------------------------------------------------
(***************************************************************************)
(* What one step does to the agent that takes it, from r to q.             *)
(***************************************************************************)
\* Two batches of the same calls that differ in their place at most.
SameRest(b, c) ==
  /\ c.calls = b.calls /\ c.slots = b.slots /\ c.log = b.log /\ c.told = b.told
  /\ c.approved = b.approved /\ c.pending = b.pending

\* From the last gate of a call (AfterGates).
Onward(r, q) ==
  LET b == r.batch IN
  \/ ~Parallel(b.calls) /\ q.pc = "run" /\ q.batch.at = b.at
  \/ /\ Parallel(b.calls) /\ b.at < Len(b.calls)
     /\ q.pc = "gate" /\ q.batch.at = b.at + 1 /\ q.batch.stage = 1
  \/ /\ Parallel(b.calls) /\ b.at >= Len(b.calls)
     /\ q.pc = "run" /\ q.batch.at = 1

LogCall(log, i) ==
  IF Contains(log, CallEvent(i)) THEN log ELSE Append(log, CallEvent(i))

Idem(r, q) == q.pc = r.pc /\ q.batch = r.batch

Dropped(q) == q.pc = "idle" /\ q.batch = NoBatch

Decided(q) ==
  /\ q.pc = "before"
  /\ q.batch.at = 1 /\ q.batch.stage = 1
  /\ q.batch.slots = [i \in DOMAIN q.batch.calls |-> "new"]
  /\ q.batch.log = <<>> /\ q.batch.told = <<>> /\ q.batch.approved = {}
  /\ ~q.batch.pending

Cleared(r, q) ==
  LET b == r.batch IN
  /\ r.pc = "before" /\ b.at <= Len(b.calls)
  /\ SameRest(b, q.batch) /\ q.batch.stage = b.stage
  /\ \/ b.at = Len(b.calls) /\ q.pc = "gate" /\ q.batch.at = 1
     \/ b.at # Len(b.calls) /\ q.pc = "before" /\ q.batch.at = b.at + 1

TurnedAway(r, q) ==
  LET b == r.batch IN
  /\ r.pc = "gate" /\ b.at <= Len(b.calls)
  /\ Onward(r, q)
  /\ q.batch.calls = b.calls /\ q.batch.told = b.told
  /\ q.batch.approved = b.approved /\ q.batch.pending = b.pending
  /\ q.batch.slots = [b.slots EXCEPT ![b.at] = "blocked"]
  /\ q.batch.log = Append(LogCall(b.log, b.at), OutcomeEvent(b.at))

StagesOf(calls) ==
  IF Parallel(calls) THEN <<"policy", "hook", "guard", "approval">>
  ELSE <<"policy", "approval", "hook", "guard">>

PassedGate(r, q, s) ==
  LET b == r.batch
      c == b.calls[b.at]
  IN
  /\ r.pc = "gate" /\ b.at <= Len(b.calls) /\ s = StagesOf(b.calls)[b.stage]
  /\ q.batch.calls = b.calls /\ q.batch.told = b.told
  /\ \/ /\ b.stage < 4 /\ q.pc = "gate" /\ q.batch.at = b.at /\ q.batch.stage = b.stage + 1
        /\ q.batch.slots = b.slots
     \/ /\ b.stage = 4 /\ Onward(r, q) /\ q.batch.slots = [b.slots EXCEPT ![b.at] = "run"]
  /\ s = "policy" => Allows(settings.mode, c)
  /\ s = "approval" => (NeedsApproval(c) => b.at \in q.batch.approved)
  /\ b.approved \subseteq q.batch.approved
  /\ q.batch.pending = IF s = "hook" THEN Writes(c) ELSE b.pending
  /\ q.batch.log = IF s = "guard" THEN LogCall(b.log, b.at) ELSE b.log

\* A call that is running goes on or ends.
SlotMoves(r, q, i, s) ==
  LET b == r.batch IN
  /\ r.pc = "run" /\ q.pc = "run" /\ i \in DOMAIN b.calls
  /\ Parallel(b.calls) \/ i = b.at
  /\ b.slots[i] \in {"run", "running", "checked"} /\ s \in {"running", "checked", "ok", "failed"}
  /\ q.batch.at = b.at /\ q.batch.stage = b.stage
  /\ q.batch.calls = b.calls /\ q.batch.told = b.told /\ q.batch.log = b.log
  /\ q.batch.approved = b.approved /\ q.batch.pending = b.pending
  /\ q.batch.slots = [b.slots EXCEPT ![i] = s]

Finalized(r, q) ==
  LET b == r.batch IN
  /\ r.pc = "run" /\ b.at <= Len(b.calls)
  /\ q.pc = IF b.at = Len(b.calls) THEN "returned"
            ELSE IF Parallel(b.calls) THEN "run" ELSE "gate"
  /\ b.slots[b.at] \in {"blocked", "ok", "failed"}
  /\ q.batch.at = b.at + 1 /\ q.batch.stage = 1
  /\ q.batch.calls = b.calls /\ q.batch.slots = b.slots /\ q.batch.approved = b.approved
  /\ q.batch.told = Append(b.told, b.at) /\ ~q.batch.pending
  /\ q.batch.log = IF b.slots[b.at] = "blocked" THEN b.log ELSE Append(b.log, OutcomeEvent(b.at))

Steps(r, q) ==
  \/ Idem(r, q) \/ Dropped(q) \/ Decided(q) \/ Cleared(r, q) \/ TurnedAway(r, q)
  \/ \E s : PassedGate(r, q, s)
  \/ \E i, s : SlotMoves(r, q, i, s)
  \/ Finalized(r, q)

\* Only agent a moves, to another agent record.
Alone(a) ==
  /\ agent' \in [Agents -> AgentRecs]
  /\ \A b \in Agents \ {a} : agent'[b] = agent[b]

\* A batch that moves takes nothing else of the agent with it.
LEMMA MovesTo ==
  ASSUME ToolsShape, NEW a \in Agents, NEW pc \in Places, NEW batch \in BatchRecs,
         Moves(a, pc, batch)
  PROVE  /\ Alone(a) /\ agent'[a].pc = pc /\ agent'[a].batch = batch
         /\ agent'[a].read = agent[a].read
<1>1. agent[a] \in AgentRecs
  BY DEF ToolsShape
<1> DEFINE q == [agent[a] EXCEPT !.pc = pc, !.batch = batch]
<1>2. q \in AgentRecs /\ q.pc = pc /\ q.batch = batch /\ q.read = agent[a].read
  BY <1>1 DEF AgentRecs
<1>3. agent' = [agent EXCEPT ![a] = q]
  BY DEF Moves
<1> HIDE DEF q
<1> QED
  BY <1>2, <1>3 DEF ToolsShape, Alone

\* A batch at another place is a batch.
LEMMA PlaceSet ==
  ASSUME NEW b \in BatchRecs, NEW nr \in Nat \ {0}, NEW stage \in 1 .. 4
  PROVE  /\ [b EXCEPT !.at = nr] \in BatchRecs
         /\ [b EXCEPT !.stage = stage] \in BatchRecs
         /\ [b EXCEPT !.at = nr, !.stage = stage] \in BatchRecs
  BY DEF BatchRecs

\* The gates of a call end where its run, or the next call's gates, begin.
LEMMA PastGatesPlace ==
  ASSUME NEW r \in AgentRecs, NEW m \in BatchRecs, NEW q,
         m.calls = r.batch.calls, m.at = r.batch.at,
         q.pc = PastGates(m).pc, q.batch = PastGates(m).batch
  PROVE  /\ PastGates(m).pc \in Places /\ PastGates(m).batch \in BatchRecs
         /\ Onward(r, q) /\ SameRest(m, q.batch)
<1>1. m.at \in Nat \ {0} /\ Len(m.calls) \in Nat
  BY DEF BatchRecs
<1>2. CASE ~Parallel(m.calls)
  <2>1. PastGates(m).pc = "run" /\ PastGates(m).batch = m
    BY <1>2 DEF PastGates
  <2> QED
    BY <1>2, <2>1 DEF Places, Onward, SameRest
<1>3. CASE Parallel(m.calls) /\ m.at < Len(m.calls)
  <2> DEFINE n == [m EXCEPT !.at = @ + 1, !.stage = 1]
  <2>1. n \in BatchRecs
    <3>1. m.at + 1 \in Nat \ {0} /\ 1 \in 1 .. 4
      BY <1>1
    <3> QED
      BY <3>1, PlaceSet
  <2>2. n.at = m.at + 1 /\ n.stage = 1
    BY DEF BatchRecs
  <2>3. SameRest(m, n)
    BY DEF BatchRecs, SameRest
  <2> HIDE DEF n
  <2>4. PastGates(m).pc = "gate" /\ PastGates(m).batch = n
    BY <1>3 DEF PastGates, n
  <2> QED
    BY <1>3, <2>1, <2>2, <2>3, <2>4 DEF Places, Onward
<1>4. CASE Parallel(m.calls) /\ ~(m.at < Len(m.calls))
  <2> DEFINE n == [m EXCEPT !.at = 1]
  <2>1. n \in BatchRecs
    <3>1. 1 \in Nat \ {0} /\ 1 \in 1 .. 4
      OBVIOUS
    <3> QED
      BY <3>1, PlaceSet
  <2>2. n.at = 1
    BY DEF BatchRecs
  <2>3. SameRest(m, n)
    BY DEF BatchRecs, SameRest
  <2> HIDE DEF n
  <2>4. PastGates(m).pc = "run" /\ PastGates(m).batch = n
    BY <1>4 DEF PastGates, n
  <2> QED
    BY <1>1, <1>4, <2>1, <2>2, <2>3, <2>4 DEF Places, Onward
<1> QED
  BY <1>2, <1>3, <1>4

\* The same as a step of the agent.
LEMMA AfterGatesMoves ==
  ASSUME ToolsShape, NEW a \in Agents, NEW m \in BatchRecs,
         m.calls = agent[a].batch.calls, m.at = agent[a].batch.at,
         AfterGates(a, m)
  PROVE  /\ Alone(a) /\ agent'[a].read = agent[a].read
         /\ Onward(agent[a], agent'[a]) /\ SameRest(m, agent'[a].batch)
<1> DEFINE p == [pc |-> PastGates(m).pc, batch |-> PastGates(m).batch]
<1>1. agent[a] \in AgentRecs
  BY DEF ToolsShape
<1>2. PastGates(m).pc \in Places /\ PastGates(m).batch \in BatchRecs
  <2>1. p.pc = PastGates(m).pc /\ p.batch = PastGates(m).batch
    OBVIOUS
  <2> HIDE DEF p
  <2> QED
    BY <1>1, <2>1, PastGatesPlace
<1>3. /\ Alone(a) /\ agent'[a].read = agent[a].read
      /\ agent'[a].pc = PastGates(m).pc /\ agent'[a].batch = PastGates(m).batch
  BY <1>2, MovesTo DEF AfterGates
<1> QED
  BY <1>1, <1>3, PastGatesPlace

\* The events a gate writes are events.
LEMMA LogsEvents ==
  ASSUME NEW b \in BatchRecs, NEW i \in Nat
  PROVE  /\ CallEvent(i) \in Events /\ OutcomeEvent(i) \in Events
         /\ LogCall(b.log, i) \in Seq(Events)
         /\ WithCall(b, i) = [b EXCEPT !.log = LogCall(b.log, i)]
         /\ WithCall(b, i) \in BatchRecs /\ WithOutcome(b, i) \in BatchRecs
         /\ WithCall(b, i).log = LogCall(b.log, i)
         /\ WithOutcome(b, i).log = Append(b.log, OutcomeEvent(i))
<1>1. CallEvent(i) \in Events /\ OutcomeEvent(i) \in Events /\ b.log \in Seq(Events)
  BY DEF CallEvent, OutcomeEvent, Events, BatchRecs
<1>2. LogCall(b.log, i) \in Seq(Events) /\ Append(b.log, OutcomeEvent(i)) \in Seq(Events)
  BY <1>1 DEF LogCall
<1>3. WithCall(b, i) = [b EXCEPT !.log = LogCall(b.log, i)]
  BY DEF WithCall, LogCall
<1>4. WithOutcome(b, i) = [b EXCEPT !.log = Append(b.log, OutcomeEvent(i))]
  BY DEF WithOutcome
<1> DEFINE x == LogCall(b.log, i)
           y == Append(b.log, OutcomeEvent(i))
<1> HIDE DEF x, y
<1>5. [b EXCEPT !.log = x] \in BatchRecs /\ [b EXCEPT !.log = x].log = x
  BY <1>2 DEF BatchRecs, x
<1>6. [b EXCEPT !.log = y] \in BatchRecs /\ [b EXCEPT !.log = y].log = y
  BY <1>2 DEF BatchRecs, y
<1> QED
  BY <1>1, <1>2, <1>3, <1>4, <1>5, <1>6 DEF x, y

\* A slot of the batch takes another state.
LEMMA SlotSet ==
  ASSUME NEW b \in BatchRecs, NEW i \in DOMAIN b.slots, NEW s \in SlotStates
  PROVE  /\ [b EXCEPT !.slots[i] = s] \in BatchRecs
         /\ [b EXCEPT !.slots[i] = s] = [b EXCEPT !.slots = [b.slots EXCEPT ![i] = s]]
         /\ [b EXCEPT !.slots[i] = s].slots = [b.slots EXCEPT ![i] = s]
<1> DEFINE t == [b.slots EXCEPT ![i] = s]
<1>1. t \in Seq(SlotStates)
  BY DEF BatchRecs
<1>2. [b EXCEPT !.slots[i] = s] = [b EXCEPT !.slots = t]
  BY DEF BatchRecs
<1> HIDE DEF t
<1>3. [b EXCEPT !.slots = t] \in BatchRecs /\ [b EXCEPT !.slots = t].slots = t
  BY <1>1 DEF BatchRecs
<1> QED
  BY <1>2, <1>3 DEF t

\* The batch in which call k has been turned away.
Refused(b, m) ==
  /\ m \in BatchRecs
  /\ m.calls = b.calls /\ m.at = b.at /\ m.stage = b.stage /\ m.told = b.told
  /\ m.approved = b.approved /\ m.pending = b.pending
  /\ m.slots = [b.slots EXCEPT ![b.at] = "blocked"]
  /\ m.log = Append(LogCall(b.log, b.at), OutcomeEvent(b.at))

\* A call that is turned away is answered at once, whichever gate did it.
LEMMA BlockedBatch ==
  ASSUME NEW b \in BatchRecs, b.at \in DOMAIN b.slots
  PROVE  /\ Refused(b, Rejected(b))
         /\ Rejected(b) = WithOutcome([WithCall(b, b.at) EXCEPT !.slots[b.at] = "blocked"], b.at)
<1> DEFINE i == b.at
           t == [b.slots EXCEPT ![i] = "blocked"]
           l == LogCall(b.log, i)
           o == Append(l, OutcomeEvent(i))
           m == [b EXCEPT !.slots = t, !.log = o]
<1>1. i \in Nat /\ t \in Seq(SlotStates) /\ l \in Seq(Events) /\ o \in Seq(Events)
  <2>1. i \in Nat
    BY DEF BatchRecs
  <2>2. t \in Seq(SlotStates)
    BY DEF BatchRecs, SlotStates
  <2>3. l \in Seq(Events) /\ OutcomeEvent(i) \in Events
    BY <2>1, LogsEvents
  <2> QED
    BY <2>1, <2>2, <2>3
<1>2. [b EXCEPT !.slots[i] = "blocked"] = [b EXCEPT !.slots = t]
  BY SlotSet DEF SlotStates
<1>3. WithCall([b EXCEPT !.slots = t], i) = [b EXCEPT !.slots = t, !.log = l]
  <2> HIDE DEF t
  <2> QED
    BY DEF BatchRecs, WithCall, LogCall
<1>4. WithOutcome([b EXCEPT !.slots = t, !.log = l], i) = m
  <2> HIDE DEF t, l
  <2> QED
    BY DEF BatchRecs, WithOutcome
<1>5. WithCall(b, i) = [b EXCEPT !.log = l]
  BY DEF WithCall, LogCall
<1>6. [[b EXCEPT !.log = l] EXCEPT !.slots[i] = "blocked"] = [b EXCEPT !.slots = t, !.log = l]
  <2> HIDE DEF l
  <2> QED
    BY DEF BatchRecs
<1>7. /\ m \in BatchRecs
      /\ m.calls = b.calls /\ m.at = b.at /\ m.stage = b.stage /\ m.told = b.told
      /\ m.approved = b.approved /\ m.pending = b.pending /\ m.slots = t /\ m.log = o
  <2> HIDE DEF t, o
  <2> QED
    BY <1>1 DEF BatchRecs
<1>8. Rejected(b) = m /\ m = WithOutcome([WithCall(b, i) EXCEPT !.slots[i] = "blocked"], i)
  BY <1>2, <1>3, <1>4, <1>5, <1>6 DEF Rejected
<1> HIDE DEF m
<1> QED
  BY <1>7, <1>8 DEF Refused

\* The stages, by the calls.
LEMMA FourStages ==
  ASSUME NEW a
  PROVE  Stages(a) = StagesOf(Calls(a)) /\ Len(Stages(a)) = 4
<1>1. Stages(a) = StagesOf(Calls(a))
  BY DEF Stages, StagesOf
<1>2. Len(<<"policy", "hook", "guard", "approval">>) = 4
  OBVIOUS
<1>3. Len(<<"policy", "approval", "hook", "guard">>) = 4
  OBVIOUS
<1> QED
  BY <1>1, <1>2, <1>3 DEF StagesOf

\* A gate that lets the call pass moves it to the next gate, or to its run.
LEMMA PassesMoves ==
  ASSUME ToolsShape, NEW a \in Agents, Seated(agent[a]), agent[a].pc = "gate",
         NEW m \in BatchRecs,
         m.calls = agent[a].batch.calls, m.at = agent[a].batch.at,
         m.stage = agent[a].batch.stage, m.slots = agent[a].batch.slots,
         Passes(a, m)
  PROVE  /\ Alone(a) /\ agent'[a].read = agent[a].read
         /\ agent'[a].batch.calls = m.calls /\ agent'[a].batch.told = m.told
         /\ agent'[a].batch.log = m.log /\ agent'[a].batch.approved = m.approved
         /\ agent'[a].batch.pending = m.pending
         /\ \/ /\ m.stage < 4 /\ agent'[a].pc = "gate" /\ agent'[a].batch.at = m.at
               /\ agent'[a].batch.stage = m.stage + 1 /\ agent'[a].batch.slots = m.slots
            \/ /\ m.stage = 4 /\ Onward(agent[a], agent'[a])
               /\ agent'[a].batch.slots = [m.slots EXCEPT ![m.at] = "run"]
<1>1. m.stage \in 1 .. 4
  BY DEF BatchRecs
<1>2. CASE m.stage < 4
  <2> DEFINE n == [m EXCEPT !.stage = @ + 1]
  <2>1. m.stage + 1 \in 1 .. 4 /\ m.at \in Nat \ {0}
    BY <1>1, <1>2 DEF BatchRecs
  <2>2. n \in BatchRecs
    BY <2>1, PlaceSet
  <2>3. n.at = m.at /\ n.stage = m.stage + 1 /\ SameRest(m, n)
    BY DEF BatchRecs, SameRest
  <2>4. Moves(a, "gate", n)
    BY <1>2, FourStages DEF Passes
  <2> HIDE DEF n
  <2>5. Alone(a) /\ agent'[a].read = agent[a].read /\ agent'[a].pc = "gate" /\ agent'[a].batch = n
    BY <2>2, <2>4, MovesTo DEF Places
  <2> QED
    BY <1>2, <2>3, <2>5 DEF SameRest
<1>3. CASE m.stage = 4
  <2> DEFINE n == [m EXCEPT !.slots[m.at] = "run"]
  <2>1. m.at \in DOMAIN m.slots
    BY DEF Seated, BatchRecs
  <2>2. n \in BatchRecs /\ n.slots = [m.slots EXCEPT ![m.at] = "run"]
    BY <2>1, SlotSet DEF SlotStates
  <2>3. /\ n.at = m.at /\ n.stage = m.stage /\ n.calls = m.calls /\ n.log = m.log
        /\ n.told = m.told /\ n.approved = m.approved /\ n.pending = m.pending
    BY DEF BatchRecs
  <2>4. AfterGates(a, n)
    <3>0. Len(Stages(a)) = 4
      BY FourStages
    <3>1. ~(m.stage < Len(Stages(a)))
      BY <1>3, <3>0
    <3> QED
      BY <3>1, Zenon DEF Passes
  <2> HIDE DEF n
  <2>5. /\ Alone(a) /\ agent'[a].read = agent[a].read
        /\ Onward(agent[a], agent'[a]) /\ SameRest(n, agent'[a].batch)
    BY <2>2, <2>3, <2>4, AfterGatesMoves
  <2> QED
    BY <1>3, <2>2, <2>3, <2>5 DEF SameRest
<1> QED
  BY <1>1, <1>2, <1>3

\* The agent at a gate: the call's place is one of its batch.
LEMMA AtGate ==
  ASSUME ToolsShape, NEW a \in Agents, Seated(agent[a]), NEW s, AtStage(a, s)
  PROVE  /\ agent[a] \in AgentRecs /\ agent[a].batch \in BatchRecs /\ agent[a].pc = "gate"
         /\ agent[a].batch.at <= Len(agent[a].batch.calls)
         /\ agent[a].batch.at \in DOMAIN agent[a].batch.slots
         /\ agent[a].batch.at \in Nat \ {0} /\ agent[a].batch.stage \in 1 .. 4
         /\ s = StagesOf(agent[a].batch.calls)[agent[a].batch.stage]
         /\ Call(a) = agent[a].batch.calls[agent[a].batch.at]
<1>1. agent[a] \in AgentRecs /\ agent[a].batch \in BatchRecs
  BY DEF ToolsShape, AgentRecs
<1>2. agent[a].pc = "gate" /\ agent[a].batch.at <= Len(agent[a].batch.calls)
  BY DEF AtStage, InBatch, At, Calls
<1>3. agent[a].batch.at \in DOMAIN agent[a].batch.slots
  BY <1>1, <1>2 DEF Seated, BatchRecs
<1>4. s = StagesOf(agent[a].batch.calls)[agent[a].batch.stage]
  BY FourStages DEF AtStage, Stage, Calls
<1> QED
  BY <1>1, <1>2, <1>3, <1>4 DEF BatchRecs, Call, At, Calls

\* Each stage has its number.
LEMMA StageNumbers ==
  ASSUME NEW calls, NEW k \in 1 .. 4
  PROVE  /\ StagesOf(calls)[k] = "policy" <=> k = 1
         /\ StagesOf(calls)[k] = "approval" <=> k = (IF Parallel(calls) THEN 4 ELSE 2)
         /\ StagesOf(calls)[k] = "hook" <=> k = (IF Parallel(calls) THEN 2 ELSE 3)
         /\ StagesOf(calls)[k] = "guard" <=> k = (IF Parallel(calls) THEN 3 ELSE 4)
  BY DEF StagesOf

\* A gate that says no.
LEMMA BlocksTurnsAway ==
  ASSUME ToolsShape, NEW a \in Agents, Seated(agent[a]), NEW s, AtStage(a, s), Blocks(a)
  PROVE  Alone(a) /\ agent'[a].read = agent[a].read /\ TurnedAway(agent[a], agent'[a])
<1> DEFINE b == agent[a].batch
           m == Rejected(b)
<1>1. /\ b \in BatchRecs /\ agent[a].pc = "gate" /\ b.at <= Len(b.calls)
      /\ b.at \in DOMAIN b.slots
  BY AtGate
<1>2. Refused(b, m)
  BY <1>1, BlockedBatch
<1>3. AfterGates(a, m)
  BY DEF Blocks
<1> HIDE DEF m
<1>4. /\ Alone(a) /\ agent'[a].read = agent[a].read
      /\ Onward(agent[a], agent'[a]) /\ SameRest(m, agent'[a].batch)
  BY <1>2, <1>3, AfterGatesMoves DEF Refused
<1> QED
  BY <1>1, <1>2, <1>4 DEF TurnedAway, SameRest, Refused

\* Cancellation, budget and policy.
LEMMA PolicyStep ==
  ASSUME ToolsShape, NEW a \in Agents, Seated(agent[a]), PolicyGate(a)
  PROVE  /\ Alone(a) /\ agent'[a].read = agent[a].read
         /\ \/ TurnedAway(agent[a], agent'[a])
            \/ PassedGate(agent[a], agent'[a], "policy")
<1> DEFINE b == agent[a].batch
           m == Rejected(b)
           n == [b EXCEPT !.stage = @ + 1]
           next == IF InPolicy(a) THEN [pc |-> "gate", batch |-> n] ELSE PastGates(m)
           e == Charged(agent[a].exec)
           q == [agent[a] EXCEPT !.exec = e, !.pc = next.pc, !.batch = next.batch]
<1>1. /\ agent[a] \in AgentRecs /\ b \in BatchRecs /\ agent[a].pc = "gate"
      /\ b.at <= Len(b.calls) /\ b.at \in DOMAIN b.slots /\ b.at \in Nat \ {0}
      /\ b.stage \in 1 .. 4 /\ "policy" = StagesOf(b.calls)[b.stage]
      /\ Call(a) = b.calls[b.at]
  BY AtGate DEF PolicyGate
<1>2. b.stage = 1
  BY <1>1, StageNumbers
<1>3. Refused(b, m)
  BY <1>1, BlockedBatch
<1>4. n \in BatchRecs
  <2>1. b.stage + 1 \in 1 .. 4
    BY <1>2
  <2> QED
    BY <1>1, <2>1, PlaceSet
<1>5. /\ n.calls = b.calls /\ n.told = b.told /\ n.at = b.at /\ n.stage = b.stage + 1
      /\ n.slots = b.slots /\ n.approved = b.approved /\ n.log = b.log
  BY <1>1 DEF BatchRecs
<1>6. n.pending = b.pending
  BY <1>1 DEF BatchRecs
<1>7. agent' = [agent EXCEPT ![a] = q]
  BY DEF PolicyGate
<1> HIDE DEF m, n
<1>8. e \in Execs
  <2> DEFINE x == agent[a].exec
             u == IF x.cancelled THEN x.used ELSE x.used + 1
  <2>1. x \in Execs
    BY <1>1 DEF AgentRecs
  <2>2. u \in Nat
    BY <2>1 DEF Execs
  <2>3. e = [x EXCEPT !.used = u]
    BY DEF Charged
  <2> HIDE DEF x, u, e
  <2> QED
    BY <2>1, <2>2, <2>3 DEF Execs
<1> HIDE DEF e
<1>9. CASE InPolicy(a)
  <2>1. q = [agent[a] EXCEPT !.exec = e, !.pc = "gate", !.batch = n]
    BY <1>9
  <2> HIDE DEF q
  <2>2. q \in AgentRecs /\ q.pc = "gate" /\ q.batch = n /\ q.read = agent[a].read
    BY <1>1, <1>4, <1>8, <2>1 DEF AgentRecs, Places
  <2>3. Allows(settings.mode, b.calls[b.at])
    BY <1>1, <1>9 DEF InPolicy
  <2>4. PassedGate(agent[a], q, "policy")
    BY <1>1, <1>2, <1>5, <1>6, <2>2, <2>3 DEF PassedGate
  <2>5. Alone(a) /\ agent'[a] = q
    BY <1>7, <2>2 DEF Alone, ToolsShape
  <2> QED
    BY <2>2, <2>4, <2>5
<1>10. CASE ~InPolicy(a)
  <2> DEFINE p == PastGates(m)
  <2>1. q = [agent[a] EXCEPT !.exec = e, !.pc = p.pc, !.batch = p.batch]
    BY <1>10
  <2> HIDE DEF q, p
  <2>2. q.pc = p.pc /\ q.batch = p.batch /\ q.read = agent[a].read
    BY <1>1, <2>1 DEF AgentRecs
  <2>3. /\ p.pc \in Places /\ p.batch \in BatchRecs
        /\ Onward(agent[a], q) /\ SameRest(m, q.batch)
    BY <1>1, <1>3, <2>2, PastGatesPlace DEF p, Refused
  <2>4. q \in AgentRecs
    BY <1>1, <1>8, <2>1, <2>3 DEF AgentRecs
  <2>5. TurnedAway(agent[a], q)
    BY <1>1, <1>3, <2>3 DEF TurnedAway, SameRest, Refused
  <2>6. Alone(a) /\ agent'[a] = q
    BY <1>7, <2>4 DEF Alone, ToolsShape
  <2> QED
    BY <2>2, <2>5, <2>6
<1> QED
  BY <1>9, <1>10

\* The operator's answer, or none needed.
LEMMA ApprovalStep ==
  ASSUME ToolsShape, NEW a \in Agents, Seated(agent[a]), NotAsked(a) \/ Approves(a)
  PROVE  /\ Alone(a) /\ agent'[a].read = agent[a].read
         /\ PassedGate(agent[a], agent'[a], "approval")
<1> DEFINE b == agent[a].batch
           given == b.approved \cup {b.at}
           m == [b EXCEPT !.approved = given]
<1>1. /\ b \in BatchRecs /\ agent[a].pc = "gate"
      /\ b.at <= Len(b.calls) /\ b.at \in DOMAIN b.slots /\ b.at \in Nat \ {0}
      /\ b.stage \in 1 .. 4 /\ "approval" = StagesOf(b.calls)[b.stage]
      /\ Call(a) = b.calls[b.at]
  BY AtGate DEF NotAsked, Approves
<1>2. CASE NotAsked(a)
  <2>1. Passes(a, b) /\ ~NeedsApproval(b.calls[b.at])
    BY <1>1, <1>2 DEF NotAsked, MustAsk
  <2> QED
    BY <1>1, <2>1, PassesMoves DEF PassedGate
<1>3. CASE Approves(a)
  <2>1. Passes(a, m)
    BY <1>3 DEF Approves, At
  <2>2. given \in SUBSET Nat
    BY <1>1 DEF BatchRecs
  <2>3. b.at \in given /\ b.approved \subseteq given
    OBVIOUS
  <2> HIDE DEF given
  <2>4. /\ m \in BatchRecs /\ m.calls = b.calls /\ m.at = b.at /\ m.stage = b.stage
        /\ m.told = b.told /\ m.approved = given /\ m.slots = b.slots
        /\ m.log = b.log
    BY <1>1, <2>2 DEF BatchRecs
  <2>5. m.pending = b.pending
    BY <1>1 DEF BatchRecs
  <2> HIDE DEF m
  <2> QED
    BY <1>1, <2>1, <2>3, <2>4, <2>5, PassesMoves DEF PassedGate
<1> QED
  BY <1>2, <1>3

\* The hook lets the call pass with its checkpoint pending, or turns it away.
LEMMA HookStep ==
  ASSUME ToolsShape, NEW a \in Agents, Seated(agent[a]), PreHooks(a)
  PROVE  /\ Alone(a) /\ agent'[a].read = agent[a].read
         /\ \/ TurnedAway(agent[a], agent'[a]) /\ saved' = saved
            \/ /\ PassedGate(agent[a], agent'[a], "hook")
               /\ saved' = IF Writes(Call(a)) THEN Checkpointed(a) ELSE saved
<1> DEFINE b == agent[a].batch
           w == Writes(b.calls[b.at])
           m == [b EXCEPT !.pending = w]
<1>1. /\ b \in BatchRecs /\ agent[a].pc = "gate"
      /\ b.at <= Len(b.calls) /\ b.at \in DOMAIN b.slots /\ b.at \in Nat \ {0}
      /\ b.stage \in 1 .. 4 /\ "hook" = StagesOf(b.calls)[b.stage]
      /\ Call(a) = b.calls[b.at]
  BY AtGate DEF PreHooks
<1>2. CASE saved' = saved /\ Blocks(a)
  BY <1>2, BlocksTurnsAway DEF PreHooks
<1>3. CASE /\ saved' = IF Writes(Call(a)) THEN Checkpointed(a) ELSE saved
           /\ Passes(a, [agent[a].batch EXCEPT !.pending = Writes(Call(a))])
  <2>1. Passes(a, m)
    BY <1>1, <1>3
  <2>2. w \in BOOLEAN
    BY DEF Writes
  <2> HIDE DEF w
  <2>4. /\ m \in BatchRecs /\ m.calls = b.calls /\ m.at = b.at /\ m.stage = b.stage
        /\ m.told = b.told /\ m.approved = b.approved /\ m.slots = b.slots
        /\ m.log = b.log
    BY <1>1, <2>2 DEF BatchRecs
  <2>5. m.pending = w
    BY <1>1 DEF BatchRecs
  <2> HIDE DEF m
  <2>6. PassedGate(agent[a], agent'[a], "hook")
    BY <1>1, <2>1, <2>4, <2>5, PassesMoves DEF PassedGate, w
  <2> QED
    BY <1>1, <1>3, <2>1, <2>4, <2>6, PassesMoves
<1> QED
  BY <1>2, <1>3 DEF PreHooks

\* The guards, with the call's event on record before their verdict.
LEMMA GuardStep ==
  ASSUME ToolsShape, NEW a \in Agents, Seated(agent[a]), PreGuards(a)
  PROVE  /\ Alone(a) /\ agent'[a].read = agent[a].read
         /\ \/ TurnedAway(agent[a], agent'[a])
            \/ PassedGate(agent[a], agent'[a], "guard")
<1> DEFINE b == agent[a].batch
           m == WithCall(b, b.at)
           n == WithOutcome([m EXCEPT !.slots[b.at] = "blocked"], b.at)
<1>1. /\ b \in BatchRecs /\ agent[a].pc = "gate"
      /\ b.at <= Len(b.calls) /\ b.at \in DOMAIN b.slots /\ b.at \in Nat \ {0}
      /\ b.stage \in 1 .. 4 /\ "guard" = StagesOf(b.calls)[b.stage]
      /\ Call(a) = b.calls[b.at]
  BY AtGate DEF PreGuards
<1>2. /\ m \in BatchRecs /\ m = [b EXCEPT !.log = LogCall(b.log, b.at)]
      /\ m.log = LogCall(b.log, b.at)
  BY <1>1, LogsEvents
<1>3. /\ m.calls = b.calls /\ m.at = b.at /\ m.stage = b.stage
      /\ m.told = b.told /\ m.approved = b.approved /\ m.slots = b.slots
  BY <1>1, <1>2 DEF BatchRecs
<1>4. m.pending = b.pending
  BY <1>1, <1>2 DEF BatchRecs
<1>5. /\ n \in BatchRecs
      /\ n.calls = b.calls /\ n.at = b.at /\ n.stage = b.stage /\ n.told = b.told
      /\ n.approved = b.approved /\ n.pending = b.pending
      /\ n.slots = [b.slots EXCEPT ![b.at] = "blocked"]
      /\ n.log = Append(LogCall(b.log, b.at), OutcomeEvent(b.at))
  <2>1. Refused(b, n)
    BY <1>1, BlockedBatch
  <2> HIDE DEF n
  <2> QED
    BY <2>1 DEF Refused
<1>6. Passes(a, m) \/ AfterGates(a, n)
  BY DEF PreGuards, At
<1> HIDE DEF m, n
<1>7. CASE Passes(a, m)
  <2> DEFINE r == agent[a]
             q == agent'[a]
  <2>1. /\ Alone(a) /\ q.read = r.read
        /\ q.batch.calls = b.calls /\ q.batch.told = b.told
        /\ q.batch.log = LogCall(b.log, b.at) /\ q.batch.approved = b.approved
        /\ q.batch.pending = b.pending
        /\ \/ /\ b.stage < 4 /\ q.pc = "gate" /\ q.batch.at = b.at
              /\ q.batch.stage = b.stage + 1 /\ q.batch.slots = b.slots
           \/ /\ b.stage = 4 /\ Onward(r, q)
              /\ q.batch.slots = [b.slots EXCEPT ![b.at] = "run"]
    <3>1. /\ Alone(a) /\ q.read = r.read
          /\ q.batch.calls = m.calls /\ q.batch.told = m.told
          /\ q.batch.log = m.log /\ q.batch.approved = m.approved
          /\ q.batch.pending = m.pending
          /\ \/ /\ m.stage < 4 /\ q.pc = "gate" /\ q.batch.at = m.at
                /\ q.batch.stage = m.stage + 1 /\ q.batch.slots = m.slots
             \/ /\ m.stage = 4 /\ Onward(r, q)
                /\ q.batch.slots = [m.slots EXCEPT ![m.at] = "run"]
      BY <1>1, <1>2, <1>3, <1>7, PassesMoves
    <3> QED
      BY <1>2, <1>3, <1>4, <3>1
  <2> QED
    BY <1>1, <2>1 DEF PassedGate
<1>8. CASE AfterGates(a, n)
  BY <1>1, <1>5, <1>8, AfterGatesMoves DEF TurnedAway, SameRest
<1> QED
  BY <1>6, <1>7, <1>8

\* The batch of an agent that has none.
LEMMA NoBatchShape ==
  /\ NoBatch \in BatchRecs
  /\ NoBatch.calls = <<>> /\ NoBatch.slots = <<>> /\ NoBatch.log = <<>>
  /\ NoBatch.told = <<>> /\ NoBatch.at = 1 /\ NoBatch.stage = 1 /\ NoBatch.approved = {}
  /\ ~NoBatch.pending
<1>1. 1 \in 1 .. 4 /\ 1 \in Nat \ {0} /\ {} \in SUBSET Nat
  OBVIOUS
<1>2. \A S : <<>> \in Seq(S)
  OBVIOUS
<1> QED
  BY <1>1, <1>2 DEF NoBatch, BatchRecs

\* A turn that ends leaves no batch behind.
LEMMA DropStep ==
  ASSUME ToolsShape, NEW a \in Agents, Moves(a, "idle", NoBatch)
  PROVE  Alone(a) /\ agent'[a].read = agent[a].read /\ Dropped(agent'[a])
  BY NoBatchShape, MovesTo DEF Places, Dropped

\* The model's batch, all of it still to be gated.
LEMMA DecideStep ==
  ASSUME ToolsShape, NEW a \in Agents, NEW b \in settings.batches, Decide(a, b)
  PROVE  Alone(a) /\ agent'[a].read = agent[a].read /\ Decided(agent'[a])
<1> DEFINE slots == [i \in DOMAIN b |-> "new"]
           n == [NoBatch EXCEPT !.calls = b, !.slots = slots]
<1>1. b \in Seq(ToolNames)
  BY ToolCallsAssumption DEF ToolsShape
<1>2. slots \in Seq(SlotStates)
  BY <1>1 DEF SlotStates
<1> HIDE DEF slots
<1>3. n \in BatchRecs /\ n.calls = b /\ n.slots = slots
  BY <1>1, <1>2, NoBatchShape DEF BatchRecs
<1>4. /\ n.at = 1 /\ n.stage = 1 /\ n.log = <<>> /\ n.told = <<>> /\ n.approved = {}
      /\ n.pending = NoBatch.pending
  BY NoBatchShape DEF BatchRecs
<1>5. PICK e \in {agent[a].exec, FreshExec} :
        agent' = [agent EXCEPT ![a] = [@ EXCEPT !.pc = "before", !.exec = e, !.batch = n]]
  BY DEF Decide, slots
<1> HIDE DEF n
<1>6. agent[a] \in AgentRecs
  BY DEF ToolsShape
<1>7. e \in Execs
  <2>1. agent[a].exec \in Execs
    BY <1>6 DEF AgentRecs
  <2>2. FreshExec \in Execs
    BY DEF FreshExec, Execs
  <2> QED
    BY <2>1, <2>2
<1> DEFINE q == [agent[a] EXCEPT !.pc = "before", !.exec = e, !.batch = n]
<1>8. q \in AgentRecs /\ q.pc = "before" /\ q.batch = n /\ q.read = agent[a].read
  BY <1>3, <1>6, <1>7 DEF AgentRecs, Places
<1> HIDE DEF q
<1>9. Alone(a) /\ agent'[a] = q
  BY <1>5, <1>8 DEF Alone, ToolsShape, q
<1> QED
  BY <1>3, <1>4, <1>8, <1>9, NoBatchShape DEF Decided, slots

\* The middlewares let one more call pass.
LEMMA BeforeStep ==
  ASSUME ToolsShape, NEW a \in Agents, BeforeCall(a)
  PROVE  Alone(a) /\ agent'[a].read = agent[a].read /\ Cleared(agent[a], agent'[a])
<1> DEFINE b == agent[a].batch
           nr == IF b.at = Len(b.calls) THEN 1 ELSE b.at + 1
           n == [b EXCEPT !.at = nr]
           k == [n EXCEPT !.slotted = @ \cup {b.at}]
<1>1. agent[a] \in AgentRecs /\ b \in BatchRecs /\ agent[a].pc = "before" /\ b.at <= Len(b.calls)
  BY DEF ToolsShape, AgentRecs, BeforeCall, InBatch, At, Calls
<1>2. b.at \in Nat \ {0} /\ nr \in Nat \ {0} /\ Len(b.calls) \in Nat
  BY <1>1 DEF BatchRecs
<1>3. NextBefore(a) = n
  BY DEF NextBefore, At, Calls
<1> HIDE DEF nr
<1>4. n \in BatchRecs /\ n.at = nr /\ n.stage = b.stage
  BY <1>1, <1>2 DEF BatchRecs
<1>5. SameRest(b, n)
  BY <1>1 DEF BatchRecs, SameRest
<1>6. k \in BatchRecs /\ k.at = n.at /\ k.stage = n.stage
  <2> HIDE DEF n
  <2>1. n.slotted \cup {b.at} \in SUBSET Nat
    BY <1>2, <1>4 DEF BatchRecs
  <2> QED
    BY <1>4, <2>1 DEF BatchRecs
<1>7. SameRest(n, k)
  <2> HIDE DEF n
  <2> QED
    BY <1>4 DEF BatchRecs, SameRest
<1>8. CASE Moves(a, PastBefore(a), NextBefore(a))
  <2>1. PastBefore(a) \in Places
    BY DEF PastBefore, Places
  <2>2. /\ Alone(a) /\ agent'[a].read = agent[a].read
        /\ agent'[a].pc = PastBefore(a) /\ agent'[a].batch = n
    <3> HIDE DEF n
    <3> QED
      BY <1>3, <1>4, <1>8, <2>1, MovesTo
  <2> HIDE DEF n
  <2> QED
    BY <1>1, <1>2, <1>4, <1>5, <2>2 DEF Cleared, PastBefore, At, Calls, nr
<1>9. CASE agent' = [agent EXCEPT ![a] =
             [@ EXCEPT !.window = agent[a].window + 1, !.pc = PastBefore(a),
                       !.batch = [NextBefore(a) EXCEPT !.slotted = @ \cup {At(a)}]]]
  <2> DEFINE w == agent[a].window + 1
             pc == PastBefore(a)
             q == [agent[a] EXCEPT !.window = w, !.pc = pc, !.batch = k]
  <2>1. agent' = [agent EXCEPT ![a] = q]
    BY <1>3, <1>9 DEF At
  <2>2. pc \in Places
    BY DEF PastBefore, Places
  <2>3. w \in Nat
    BY <1>1 DEF AgentRecs
  <2> HIDE DEF n, k, w, pc
  <2>4. q \in AgentRecs /\ q.pc = pc /\ q.batch = k /\ q.read = agent[a].read
    BY <1>1, <1>6, <2>2, <2>3 DEF AgentRecs
  <2> HIDE DEF q
  <2>5. Alone(a) /\ agent'[a] = q
    BY <2>1, <2>4 DEF Alone, ToolsShape
  <2>6. SameRest(b, k)
    BY <1>5, <1>7 DEF SameRest
  <2> QED
    BY <1>1, <1>2, <1>4, <1>6, <2>4, <2>5, <2>6 DEF Cleared, PastBefore, At, Calls, nr, pc
<1> QED
  BY <1>8, <1>9 DEF BeforeCall

\* A running call goes on or ends.
LEMMA BecomesStep ==
  ASSUME ToolsShape, NEW a \in Agents, Seated(agent[a]), NEW i, Turn(a, i),
         Slot(a, i) \in {"run", "running", "checked"},
         NEW s \in {"running", "checked", "ok", "failed"}, Becomes(a, i, s)
  PROVE  /\ Alone(a) /\ agent'[a].read = agent[a].read
         /\ SlotMoves(agent[a], agent'[a], i, s)
<1> DEFINE b == agent[a].batch
           n == [b EXCEPT !.slots[i] = s]
<1>1. /\ b \in BatchRecs /\ agent[a].pc = "run" /\ i \in DOMAIN b.calls
      /\ Parallel(b.calls) \/ i = b.at
      /\ b.slots[i] \in {"run", "running", "checked"}
  BY DEF ToolsShape, AgentRecs, Turn, Calls, At, Slot
<1>2. i \in DOMAIN b.slots
  BY <1>1 DEF Seated, BatchRecs
<1>3. n \in BatchRecs /\ n.slots = [b.slots EXCEPT ![i] = s]
  <2>1. s \in SlotStates
    BY DEF SlotStates
  <2> QED
    BY <1>1, <1>2, <2>1, SlotSet
<1>4. /\ n.at = b.at /\ n.stage = b.stage /\ n.calls = b.calls /\ n.log = b.log
      /\ n.told = b.told /\ n.approved = b.approved /\ n.pending = b.pending
  BY <1>1 DEF BatchRecs
<1>5. Moves(a, "run", n)
  BY DEF Becomes
<1> HIDE DEF n
<1>6. Alone(a) /\ agent'[a].read = agent[a].read /\ agent'[a].pc = "run" /\ agent'[a].batch = n
  BY <1>3, <1>5, MovesTo DEF Places
<1> QED
  BY <1>1, <1>3, <1>4, <1>6 DEF SlotMoves

\* What an agent learns from reading the file.
LEMMA ReadStep ==
  ASSUME ToolsShape, NEW a \in Agents, Seated(agent[a]), NEW i, Reads(a, i)
  PROVE  /\ Alone(a) /\ agent'[a].read = file.version
         /\ SlotMoves(agent[a], agent'[a], i, "ok")
<1> DEFINE b == agent[a].batch
           n == [b EXCEPT !.slots[i] = "ok"]
           q == [agent[a] EXCEPT !.read = file.version, !.batch = n]
<1>1. /\ agent[a] \in AgentRecs /\ b \in BatchRecs /\ agent[a].pc = "run" /\ i \in DOMAIN b.calls
      /\ Parallel(b.calls) \/ i = b.at
      /\ b.slots[i] \in {"run", "running", "checked"} /\ file.version \in Nat
  BY DEF ToolsShape, AgentRecs, Turn, Calls, At, Slot, Reads
<1>2. i \in DOMAIN b.slots
  BY <1>1 DEF Seated, BatchRecs
<1>3. n \in BatchRecs /\ n.slots = [b.slots EXCEPT ![i] = "ok"]
  BY <1>1, <1>2, SlotSet DEF SlotStates
<1>4. /\ n.at = b.at /\ n.stage = b.stage /\ n.calls = b.calls /\ n.log = b.log
      /\ n.told = b.told /\ n.approved = b.approved /\ n.pending = b.pending
  BY <1>1 DEF BatchRecs
<1>5. agent' = [agent EXCEPT ![a] = q]
  BY DEF Reads
<1> HIDE DEF n
<1>6. q \in AgentRecs /\ q.pc = "run" /\ q.batch = n /\ q.read = file.version
  BY <1>1, <1>3 DEF AgentRecs
<1> HIDE DEF q
<1>7. Alone(a) /\ agent'[a] = q
  BY <1>5, <1>6 DEF Alone, ToolsShape
<1> QED
  BY <1>1, <1>3, <1>4, <1>6, <1>7 DEF SlotMoves

\* A call's result is recorded and told.
LEMMA FinalizeStep ==
  ASSUME ToolsShape, NEW a \in Agents, Seated(agent[a]), Finalize(a)
  PROVE  /\ Alone(a) /\ agent'[a].read = agent[a].read
         /\ Finalized(agent[a], agent'[a])
<1> DEFINE r == agent[a]
           b == r.batch
           m == Recorded(a)
           n == [m EXCEPT !.told = Append(@, b.at), !.at = @ + 1,
                          !.stage = 1, !.pending = FALSE]
           pc == IF n.at > Len(n.calls) THEN "returned"
                 ELSE IF Parallel(n.calls) THEN "run" ELSE "gate"
           q == [r EXCEPT !.seen = Tracked(a), !.pc = pc, !.batch = n]
<1>1. r \in AgentRecs /\ b \in BatchRecs /\ r.pc = "run" /\ b.at <= Len(b.calls)
  BY DEF ToolsShape, AgentRecs, Finalize, InBatch, At, Calls
<1>2. b.at \in Nat \ {0} /\ b.at \in DOMAIN b.calls /\ b.at \in DOMAIN b.slots
      /\ Len(b.calls) \in Nat
  BY <1>1 DEF Seated, BatchRecs
<1>3. b.slots[b.at] \in {"blocked", "ok", "failed"}
  BY <1>2 DEF Finalize, Settled, Slot, Calls, At
<1>4. /\ m \in BatchRecs
      /\ m.log = IF b.slots[b.at] = "blocked" THEN b.log
                 ELSE Append(b.log, OutcomeEvent(b.at))
  BY <1>1, <1>2, LogsEvents DEF Recorded, Slot, At
<1>5. /\ m.calls = b.calls /\ m.at = b.at /\ m.slots = b.slots /\ m.told = b.told
      /\ m.approved = b.approved
  BY <1>1 DEF Recorded, WithOutcome, BatchRecs
<1>6. agent' = [agent EXCEPT ![a] = q]
  BY DEF Finalize, At
<1> HIDE DEF m
<1>7. n \in BatchRecs
  <2> DEFINE t == Append(m.told, b.at)
             k == [m EXCEPT !.told = t, !.pending = FALSE]
  <2>1. t \in Seq(Nat)
    BY <1>2, <1>4 DEF BatchRecs
  <2> HIDE DEF t
  <2>2. k \in BatchRecs /\ k.at = m.at
    BY <1>4, <2>1 DEF BatchRecs
  <2>3. n = [k EXCEPT !.at = m.at + 1, !.stage = 1]
    BY <1>4 DEF BatchRecs, t
  <2>4. m.at + 1 \in Nat \ {0} /\ 1 \in 1 .. 4
    BY <1>2, <1>5
  <2> HIDE DEF k
  <2> QED
    BY <2>2, <2>3, <2>4, PlaceSet
<1>8. /\ n.at = b.at + 1 /\ n.stage = 1 /\ n.calls = b.calls /\ n.slots = b.slots
      /\ n.approved = b.approved /\ n.told = Append(b.told, b.at) /\ n.log = m.log
      /\ ~n.pending
  BY <1>4, <1>5 DEF BatchRecs
<1> HIDE DEF n
<1>9. pc = IF b.at = Len(b.calls) THEN "returned"
           ELSE IF Parallel(b.calls) THEN "run" ELSE "gate"
  BY <1>1, <1>2, <1>8
<1>10. pc \in Places
  BY DEF Places
<1>11. Tracked(a) \in Nat
  BY <1>1 DEF Tracked, ToolsShape, AgentRecs
<1> HIDE DEF pc
<1>12. q \in AgentRecs /\ q.pc = pc /\ q.batch = n /\ q.read = r.read
  BY <1>1, <1>7, <1>10, <1>11 DEF AgentRecs
<1> HIDE DEF q
<1>13. Alone(a) /\ agent'[a] = q
  BY <1>6, <1>12 DEF Alone, ToolsShape
<1> QED
  BY <1>1, <1>3, <1>4, <1>8, <1>9, <1>12, <1>13 DEF Finalized

\* Esc, the deadline and the egress window leave the batch alone.
LEMMA ExecStep ==
  ASSUME ToolsShape, NEW a \in Agents, Cancel(a) \/ TurnExpires(a) \/ WindowSlides(a)
  PROVE  /\ Alone(a) /\ agent'[a].read = agent[a].read /\ Idem(agent[a], agent'[a])
<1>1. agent[a] \in AgentRecs /\ agent[a].exec \in Execs
  BY DEF ToolsShape, AgentRecs
<1>2. ASSUME NEW e \in Execs, Exec(a, e)
      PROVE  Alone(a) /\ agent'[a].read = agent[a].read /\ Idem(agent[a], agent'[a])
  <2> DEFINE q == [agent[a] EXCEPT !.exec = e]
  <2>1. q \in AgentRecs /\ q.pc = agent[a].pc /\ q.batch = agent[a].batch /\ q.read = agent[a].read
    BY <1>1 DEF AgentRecs
  <2>2. agent' = [agent EXCEPT ![a] = q]
    BY <1>2 DEF Exec
  <2> HIDE DEF q
  <2> QED
    BY <2>1, <2>2 DEF Alone, ToolsShape, Idem
<1>3. CASE Cancel(a)
  <2>1. [agent[a].exec EXCEPT !.cancelled = TRUE] \in Execs
    BY <1>1 DEF Execs
  <2> QED
    BY <1>2, <1>3, <2>1 DEF Cancel
<1>4. CASE TurnExpires(a)
  <2>1. [agent[a].exec EXCEPT !.expired = TRUE] \in Execs
    BY <1>1 DEF Execs
  <2> QED
    BY <1>2, <1>4, <2>1 DEF TurnExpires
<1>5. CASE WindowSlides(a)
  <2> DEFINE q == [agent[a] EXCEPT !.window = 0]
  <2>1. q \in AgentRecs /\ q.pc = agent[a].pc /\ q.batch = agent[a].batch /\ q.read = agent[a].read
    BY <1>1 DEF AgentRecs
  <2>2. agent' = [agent EXCEPT ![a] = q]
    BY <1>5 DEF WindowSlides
  <2> HIDE DEF q
  <2> QED
    BY <2>1, <2>2 DEF Alone, ToolsShape, Idem
<1> QED
  BY <1>3, <1>4, <1>5

\* prune_checkpoints keeps the newest.
LEMMA PrunedKeepsLast ==
  ASSUME NEW S, NEW cks \in Seq(S), cks # <<>>
  PROVE  /\ Pruned(cks) \in Seq(S) /\ Pruned(cks) # <<>> /\ Last(Pruned(cks)) = Last(cks)
         /\ \A k \in DOMAIN Pruned(cks) : \E j \in DOMAIN cks : Pruned(cks)[k] = cks[j]
<1>1. KeptPerPath \in Nat \ {0} /\ Len(cks) \in Nat \ {0}
  BY ToolCallsAssumption
<1>2. CASE Len(cks) <= KeptPerPath
  BY <1>2 DEF Pruned
<1>3. CASE ~(Len(cks) <= KeptPerPath)
  <2> DEFINE m == Len(cks) - KeptPerPath + 1
             p == SubSeq(cks, m, Len(cks))
  <2>1. m \in 1 .. Len(cks) /\ m \in Nat /\ Len(cks) - m + 1 = KeptPerPath
    BY <1>1, <1>3
  <2>2. Pruned(cks) = p
    BY <1>3 DEF Pruned
  <2> HIDE DEF m
  <2>3. /\ p \in Seq(S) /\ Len(p) = KeptPerPath
        /\ \A k \in 1 .. KeptPerPath : p[k] = cks[m + k - 1] /\ m + k - 1 \in 1 .. Len(cks)
    BY <1>1, <2>1
  <2> HIDE DEF p
  <2>4. p # <<>> /\ DOMAIN p = 1 .. KeptPerPath /\ DOMAIN cks = 1 .. Len(cks)
    BY <1>1, <2>3
  <2>5. Last(p) = p[KeptPerPath] /\ Last(cks) = cks[Len(cks)] /\ m + KeptPerPath - 1 = Len(cks)
    BY <1>1, <2>1, <2>3 DEF Last
  <2>6. Last(p) = Last(cks)
    BY <1>1, <2>3, <2>5
  <2> QED
    BY <2>2, <2>3, <2>4, <2>6
<1> QED
  BY <1>2, <1>3

Checkpoints == [pre : Nat, post : Nat]

\* The checkpoint the hook writes is the newest of the session.
LEMMA CheckpointIsLast ==
  ASSUME ToolsShape, NEW a \in Agents
  PROVE  LET c == Checkpointed(a) IN
         /\ c \in [Agents -> Seq(Checkpoints)]
         /\ c[a] # <<>> /\ Last(c[a]).pre = file.version
         /\ \A b \in Agents \ {a} : c[b] = saved[b]
         /\ \A k \in DOMAIN c[a] : \/ c[a][k].pre = file.version
                                   \/ \E j \in DOMAIN saved[a] : c[a][k] = saved[a][j]
<1> DEFINE new == [pre |-> file.version, post |-> 0]
           cks == Append(saved[a], new)
           p == Pruned(cks)
<1>1. /\ saved[a] \in Seq(Checkpoints) /\ new \in Checkpoints /\ new.pre = file.version
      /\ saved \in [Agents -> Seq(Checkpoints)]
  BY DEF ToolsShape, Checkpoints
<1> HIDE DEF new
<1>2. /\ cks \in Seq(Checkpoints) /\ cks # <<>> /\ Len(cks) = Len(saved[a]) + 1
      /\ cks[Len(saved[a]) + 1] = new
      /\ \A j \in 1 .. Len(saved[a]) : cks[j] = saved[a][j]
      /\ DOMAIN cks = 1 .. Len(saved[a]) + 1 /\ DOMAIN saved[a] = 1 .. Len(saved[a])
      /\ Len(saved[a]) \in Nat
  BY <1>1
<1>3. Last(cks) = new
  BY <1>2 DEF Last
<1> HIDE DEF cks
<1>4. /\ p \in Seq(Checkpoints) /\ p # <<>> /\ Last(p) = new
      /\ \A k \in DOMAIN p : \E j \in DOMAIN cks : p[k] = cks[j]
  BY <1>2, <1>3, PrunedKeepsLast
<1>5. Checkpointed(a) = [saved EXCEPT ![a] = p]
  BY DEF Checkpointed, cks, new
<1> HIDE DEF p
<1>6. \A k \in DOMAIN p : p[k].pre = file.version \/ \E j \in DOMAIN saved[a] : p[k] = saved[a][j]
  <2> SUFFICES ASSUME NEW k \in DOMAIN p
               PROVE  p[k].pre = file.version \/ \E j \in DOMAIN saved[a] : p[k] = saved[a][j]
    OBVIOUS
  <2>1. PICK j \in DOMAIN cks : p[k] = cks[j]
    BY <1>4
  <2>2. CASE j = Len(saved[a]) + 1
    BY <1>1, <1>2, <2>1, <2>2
  <2>3. CASE j \in 1 .. Len(saved[a])
    BY <1>2, <2>1, <2>3
  <2> QED
    BY <1>2, <2>2, <2>3
<1> QED
  BY <1>1, <1>4, <1>5, <1>6

\* The post hook completes the newest checkpoint.
LEMMA PostHookKeeps ==
  ASSUME ToolsShape, NEW a \in Agents
  PROVE  LET c == PostHooked(a) IN
         /\ c \in [Agents -> Seq(Checkpoints)]
         /\ \A b \in Agents : /\ DOMAIN c[b] = DOMAIN saved[b]
                              /\ \A k \in DOMAIN c[b] : c[b][k].pre = saved[b][k].pre
         /\ \A b \in Agents \ {a} : c[b] = saved[b]
<1>1. saved \in [Agents -> Seq(Checkpoints)] /\ file.version \in Nat
  BY DEF ToolsShape, Checkpoints
<1>2. CASE PostHooked(a) = saved
  BY <1>1, <1>2
<1>3. CASE saved[a] # <<>> /\ PostHooked(a) = [saved EXCEPT ![a][Len(saved[a])].post = file.version]
  <2> DEFINE l == Len(saved[a])
             x == [saved[a][l] EXCEPT !.post = file.version]
             s == [saved[a] EXCEPT ![l] = x]
  <2>1. saved[a] \in Seq(Checkpoints) /\ l \in DOMAIN saved[a] /\ saved[a][l] \in Checkpoints
    BY <1>1, <1>3
  <2>2. x \in Checkpoints /\ x.pre = saved[a][l].pre
    BY <1>1, <2>1 DEF Checkpoints
  <2>3. PostHooked(a) = [saved EXCEPT ![a] = s]
    BY <1>1, <1>3, <2>1 DEF Checkpoints
  <2> HIDE DEF x, l
  <2>4. /\ s \in Seq(Checkpoints) /\ DOMAIN s = DOMAIN saved[a]
        /\ \A k \in DOMAIN s : s[k].pre = saved[a][k].pre
    BY <2>1, <2>2
  <2> HIDE DEF s
  <2> QED
    BY <1>1, <2>3, <2>4
<1> QED
  BY <1>2, <1>3 DEF PostHooked

\* The fields of a batch.
LEMMA BatchFields ==
  ASSUME NEW b \in BatchRecs
  PROVE  /\ b.calls \in Seq(ToolNames) /\ b.slots \in Seq(SlotStates) /\ b.at \in Nat \ {0}
         /\ b.log \in Seq(Events) /\ b.stage \in 1 .. 4
         /\ Len(b.calls) \in Nat /\ DOMAIN b.calls = 1 .. Len(b.calls)
         /\ Len(b.log) \in Nat /\ DOMAIN b.log = 1 .. Len(b.log)
<1>1. /\ b.calls \in Seq(ToolNames) /\ b.slots \in Seq(SlotStates) /\ b.at \in Nat \ {0}
      /\ b.log \in Seq(Events) /\ b.stage \in 1 .. 4
  BY DEF BatchRecs
<1> QED
  BY <1>1

\* What a batch's place says is kept by every kind of step.
LEMMA PlacedStep ==
  ASSUME NEW r \in AgentRecs, NEW q \in AgentRecs, Seated(r), Steps(r, q)
  PROVE  Seated(q)
<1> DEFINE b == r.batch
           d == q.batch
<1>1. /\ b \in BatchRecs /\ d \in BatchRecs /\ r.pc \in Places /\ q.pc \in Places
  BY DEF AgentRecs
<1>2. /\ b.calls \in Seq(ToolNames) /\ b.slots \in Seq(SlotStates) /\ b.at \in Nat \ {0}
      /\ Len(b.calls) \in Nat /\ DOMAIN b.calls = 1 .. Len(b.calls)
      /\ d.calls \in Seq(ToolNames) /\ d.slots \in Seq(SlotStates) /\ d.at \in Nat \ {0}
      /\ Len(d.calls) \in Nat /\ DOMAIN d.calls = 1 .. Len(d.calls)
  BY <1>1, BatchFields
<1>3. Len(b.slots) = Len(b.calls) /\ DOMAIN b.slots = 1 .. Len(b.calls)
  BY <1>2 DEF Seated
<1>4. CASE Idem(r, q)
  BY <1>4 DEF Idem, Seated
<1>5. CASE Dropped(q)
  BY <1>5, NoBatchShape DEF Dropped, Seated
<1>6. CASE Decided(q)
  <2>1. Len(d.slots) = Len(d.calls)
    BY <1>2, <1>6 DEF Decided
  <2> QED
    BY <1>6, <2>1 DEF Decided, Seated
<1>7. CASE Cleared(r, q)
  BY <1>2, <1>3, <1>7 DEF Cleared, Seated, SameRest
<1>8. ASSUME r.pc = "gate", b.at \in 1 .. Len(b.calls), Onward(r, q),
              d.calls = b.calls, Len(d.slots) = Len(d.calls),
              \A i \in 1 .. Len(b.calls) : i # b.at => d.slots[i] = b.slots[i]
       PROVE  Seated(q)
  <2>1. \A i \in 1 .. Len(b.calls) : i > b.at => d.slots[i] = "new"
    BY <1>2, <1>8, SMTT(40) DEF Seated
  <2>2. CASE ~Parallel(b.calls) /\ q.pc = "run" /\ d.at = b.at
    BY <1>2, <1>8, <2>1, <2>2 DEF Seated
  <2>3. CASE /\ Parallel(b.calls) /\ b.at < Len(b.calls)
             /\ q.pc = "gate" /\ d.at = b.at + 1
    BY <1>2, <1>8, <2>1, <2>3 DEF Seated
  <2>4. CASE Parallel(b.calls) /\ q.pc = "run" /\ d.at = 1
    BY <1>2, <1>8, <2>4 DEF Seated
  <2> QED
    BY <1>8, <2>2, <2>3, <2>4 DEF Onward
<1>9. CASE TurnedAway(r, q)
  <2>1. b.at \in 1 .. Len(b.calls)
    BY <1>2, <1>9 DEF TurnedAway
  <2>2. /\ d.calls = b.calls /\ Len(d.slots) = Len(d.calls)
        /\ \A i \in 1 .. Len(b.calls) : i # b.at => d.slots[i] = b.slots[i]
    BY <1>2, <1>3, <1>9 DEF TurnedAway
  <2> QED
    BY <1>9, <1>8, <2>1, <2>2 DEF TurnedAway
<1>10. ASSUME NEW s, PassedGate(r, q, s)
      PROVE  Seated(q)
  <2>1. b.at \in 1 .. Len(b.calls)
    BY <1>2, <1>10 DEF PassedGate
  <2>2. /\ d.calls = b.calls /\ Len(d.slots) = Len(d.calls)
        /\ \A i \in 1 .. Len(b.calls) : i # b.at => d.slots[i] = b.slots[i]
    BY <1>2, <1>3, <1>10 DEF PassedGate
  <2>3. CASE d.slots = b.slots /\ q.pc = "gate" /\ d.at = b.at
    BY <1>2, <1>3, <1>10, <2>1, <2>2, <2>3 DEF PassedGate, Seated
  <2>4. CASE Onward(r, q)
    BY <1>10, <1>8, <2>1, <2>2, <2>4 DEF PassedGate
  <2> QED
    BY <1>10, <2>3, <2>4 DEF PassedGate
<1>11. ASSUME NEW i, NEW s, SlotMoves(r, q, i, s)
       PROVE  Seated(q)
  <2>1. /\ d.calls = b.calls /\ Len(d.slots) = Len(d.calls)
        /\ \A k \in 1 .. Len(b.calls) : k # i => d.slots[k] = b.slots[k]
    BY <1>2, <1>3, <1>11 DEF SlotMoves
  <2> QED
    BY <1>2, <1>3, <1>11, <2>1 DEF SlotMoves, Seated
<1>12. CASE Finalized(r, q)
  BY <1>2, <1>3, <1>12 DEF Finalized, Seated
<1> QED
  BY <1>4, <1>5, <1>6, <1>7, <1>9, <1>10, <1>11, <1>12 DEF Steps

\* What the gates have established is carried on to the call's run.
LEMMA GatedStep ==
  ASSUME NEW r \in AgentRecs, NEW q \in AgentRecs, Seated(r), Gated(r), Steps(r, q)
  PROVE  Gated(q)
<1> DEFINE b == r.batch
           d == q.batch
           Goes == {"run", "running", "checked"}
<1>1. /\ b \in BatchRecs /\ d \in BatchRecs /\ r.pc \in Places /\ q.pc \in Places
  BY DEF AgentRecs
<1>2. /\ b.calls \in Seq(ToolNames) /\ b.slots \in Seq(SlotStates) /\ b.at \in Nat \ {0}
      /\ Len(b.calls) \in Nat /\ DOMAIN b.calls = 1 .. Len(b.calls)
      /\ b.stage \in 1 .. 4 /\ d.stage \in 1 .. 4 /\ d.at \in Nat \ {0}
  BY <1>1, BatchFields
<1>3. Len(b.slots) = Len(b.calls) /\ DOMAIN b.slots = 1 .. Len(b.calls)
  BY <1>2 DEF Seated
<1>4. CASE Idem(r, q)
  BY <1>4 DEF Idem, Gated
<1>5. CASE Dropped(q)
  BY <1>5, NoBatchShape DEF Dropped, Gated
<1>6. CASE Decided(q)
  BY <1>6 DEF Decided, Gated
<1>7. CASE Cleared(r, q)
  <2>1. d.stage = 1
    BY <1>7 DEF Cleared, Gated
  <2> QED
    BY <1>7, <2>1 DEF Cleared, Gated, MayRun, SameRest
<1>8. CASE TurnedAway(r, q)
  <2>1. b.at \in 1 .. Len(b.calls) /\ d.calls = b.calls /\ d.approved = b.approved
    BY <1>2, <1>8 DEF TurnedAway
  <2>2. /\ d.slots[b.at] = "blocked"
        /\ \A i \in 1 .. Len(b.calls) : i # b.at => d.slots[i] = b.slots[i]
    BY <1>2, <1>3, <1>8, <2>1 DEF TurnedAway
  <2>3. q.pc = "run" \/ (q.pc = "gate" /\ d.stage = 1)
    BY <1>8 DEF TurnedAway, Onward
  <2> QED
    <3>1. \A i \in DOMAIN b.calls : d.slots[i] \in Goes => b.slots[i] \in Goes
      BY <1>2, <2>2
    <3> QED
      BY <2>1, <2>3, <3>1 DEF Gated, MayRun
<1>9. ASSUME NEW s, PassedGate(r, q, s)
      PROVE  Gated(q)
  <2>1. /\ b.at \in 1 .. Len(b.calls) /\ d.calls = b.calls /\ b.approved \subseteq d.approved
        /\ s = StagesOf(b.calls)[b.stage]
    BY <1>2, <1>9 DEF PassedGate
  <2>2. /\ b.stage = 1 => s = "policy"
        /\ b.stage = 2 /\ ~Parallel(b.calls) => s = "approval"
        /\ b.stage = 4 /\ Parallel(b.calls) => s = "approval"
    BY <1>2, <2>1, StageNumbers
  <2>3. Allows(settings.mode, b.calls[b.at])
    BY <1>2, <1>9, <2>1, <2>2 DEF PassedGate, Gated
  <2>4. CASE b.stage < 4 /\ q.pc = "gate" /\ d.at = b.at /\ d.stage = b.stage + 1
             /\ d.slots = b.slots
    <3>1. (d.stage > 2 /\ ~Parallel(b.calls)) =>
            (NeedsApproval(b.calls[b.at]) => b.at \in d.approved)
      BY <1>2, <1>9, <2>1, <2>2, <2>4 DEF PassedGate, Gated
    <3> QED
      BY <1>2, <2>1, <2>3, <2>4, <3>1 DEF Gated, MayRun
  <2>5. CASE b.stage = 4 /\ Onward(r, q) /\ d.slots = [b.slots EXCEPT ![b.at] = "run"]
    <3>1. NeedsApproval(b.calls[b.at]) => b.at \in d.approved
      BY <1>2, <1>9, <2>1, <2>2, <2>5 DEF PassedGate, Gated
    <3>2. \A i \in 1 .. Len(b.calls) : i # b.at => d.slots[i] = b.slots[i]
      BY <1>2, <1>3, <2>1, <2>5
    <3>3. q.pc = "run" \/ (q.pc = "gate" /\ d.stage = 1)
      BY <2>5 DEF Onward
    <3> QED
      <4>1. \A i \in DOMAIN b.calls : d.slots[i] \in Goes => MayRun(d, i)
        <5>1. ASSUME NEW i \in 1 .. Len(b.calls), i # b.at, d.slots[i] \in Goes
              PROVE  MayRun(d, i)
          BY <1>2, <2>1, <3>2, <5>1 DEF Gated, MayRun
        <5>2. MayRun(d, b.at)
          BY <2>1, <2>3, <3>1 DEF MayRun
        <5> QED
          BY <1>2, <5>1, <5>2
      <4> QED
        BY <2>1, <3>3, <4>1 DEF Gated
  <2> QED
    BY <1>9, <2>4, <2>5 DEF PassedGate
<1>10. ASSUME NEW i, NEW s, SlotMoves(r, q, i, s)
       PROVE  Gated(q)
  <2>1. /\ d.calls = b.calls /\ d.approved = b.approved /\ q.pc = "run"
        /\ \A k \in 1 .. Len(b.calls) : k # i => d.slots[k] = b.slots[k]
        /\ b.slots[i] \in Goes /\ i \in 1 .. Len(b.calls)
    BY <1>2, <1>3, <1>10 DEF SlotMoves
  <2> QED
    BY <1>2, <2>1 DEF Gated, MayRun
<1>11. CASE Finalized(r, q)
  <2>1. /\ d.calls = b.calls /\ d.slots = b.slots /\ d.approved = b.approved
        /\ d.stage = 1 /\ q.pc \in {"returned", "run", "gate"}
    BY <1>11 DEF Finalized
  <2>2. \A i \in DOMAIN b.calls : b.slots[i] \in Goes => MayRun(d, i)
    BY <2>1 DEF Gated, MayRun
  <2> QED
    BY <2>1, <2>2 DEF Gated
<1> QED
  BY <1>4, <1>5, <1>6, <1>7, <1>8, <1>9, <1>10, <1>11 DEF Steps

Moved(a) == Alone(a) /\ Steps(agent[a], agent'[a])

\* A tool that runs: one slot moves, and only a read changes what its agent
\* has read.
LEMMA ToolRunStep ==
  ASSUME ToolsShape, NEW a \in Agents, Seated(agent[a]), NEW i \in DOMAIN Calls(a),
         \/ Refuses(a, i) \/ Starts(a, i) \/ Interrupted(a, i) \/ Returns(a, i)
         \/ Reads(a, i) \/ LocksAndChecks(a, i) \/ Replaces(a, i)
  PROVE  /\ Alone(a)
         /\ \E s : SlotMoves(agent[a], agent'[a], i, s)
         /\ ~Reads(a, i) => agent'[a].read = agent[a].read
<1> DEFINE Outs == {"running", "checked", "ok", "failed"}
<1>1. CASE Reads(a, i)
  BY <1>1, ReadStep
<1>2. ASSUME NEW s \in Outs, Turn(a, i), Slot(a, i) \in {"run", "running", "checked"},
             Becomes(a, i, s)
      PROVE  /\ Alone(a) /\ agent'[a].read = agent[a].read
             /\ SlotMoves(agent[a], agent'[a], i, s)
  BY <1>2, BecomesStep
<1>3. CASE Refuses(a, i)
  BY <1>2, <1>3 DEF Refuses
<1>4. CASE Starts(a, i)
  BY <1>2, <1>4 DEF Starts
<1>5. CASE Interrupted(a, i)
  BY <1>2, <1>5 DEF Interrupted
<1>6. CASE Returns(a, i)
  BY <1>2, <1>6 DEF Returns
<1>7. CASE LocksAndChecks(a, i)
  BY <1>2, <1>7 DEF LocksAndChecks
<1>8. CASE Replaces(a, i)
  BY <1>2, <1>8 DEF Replaces
<1> QED
  BY <1>1, <1>3, <1>4, <1>5, <1>6, <1>7, <1>8

\* The agent's part of every step is of one of the kinds, and the types hold.
LEMMA ToolSteps ==
  ASSUME ToolsShape, \A a \in Agents : Seated(agent[a]), TCNext
  PROVE  /\ settings' = settings /\ ToolsShape'
         /\ agent' = agent \/ \E a \in Agents : Moved(a)
<1> DEFINE Rest == settings' = settings /\ clock' \in Nat
           Files == /\ file' \in [version : Nat, mtime : Nat] /\ fresh' \in Nat
                    /\ saved' \in [Agents -> Seq([pre : Nat, post : Nat])]
           Goal == /\ settings' = settings /\ ToolsShape'
                   /\ agent' = agent \/ \E a \in Agents : Moved(a)
<1>1. ASSUME NEW a \in Agents, Moved(a), Rest, Files
      PROVE  Goal
  BY <1>1 DEF Moved, Alone, ToolsShape
<1>2. ASSUME agent' = agent, Rest, Files
      PROVE  Goal
  BY <1>2 DEF ToolsShape
<1>3. ASSUME Elsewhere
      PROVE  Rest /\ Files
  BY <1>3 DEF Elsewhere, ToolsShape
<1>4. ASSUME UNCHANGED <<settings, file, saved, clock, fresh>>
      PROVE  Rest /\ Files
  BY <1>4 DEF ToolsShape
<1> HIDE DEF Rest, Files, Goal
<1>5. ASSUME NEW a \in Agents, NEW b \in settings.batches, Decide(a, b)
      PROVE  Goal
  <2>1. Moved(a)
    BY <1>5, DecideStep DEF Moved, Steps
  <2>2. Rest /\ Files
    BY <1>4, <1>5 DEF Decide
  <2> QED
    BY <1>1, <2>1, <2>2
<1>6. ASSUME NEW a \in Agents, BeforeCall(a)
      PROVE  Goal
  BY <1>1, <1>3, <1>6, BeforeStep DEF BeforeCall, Moved, Steps
<1>7. ASSUME NEW a \in Agents, PolicyGate(a)
      PROVE  Goal
  BY <1>1, <1>3, <1>7, PolicyStep DEF PolicyGate, Moved, Steps
<1>8. ASSUME NEW a \in Agents, NotAsked(a) \/ Approves(a)
      PROVE  Goal
  BY <1>1, <1>3, <1>8, ApprovalStep DEF NotAsked, Approves, Moved, Steps
<1>9. ASSUME NEW a \in Agents, Denies(a)
      PROVE  Goal
  BY <1>1, <1>3, <1>9, BlocksTurnsAway DEF Denies, Moved, Steps
<1>10. ASSUME NEW a \in Agents, PreHooks(a)
       PROVE  Goal
  <2>1. Moved(a) /\ (saved' = saved \/ saved' = Checkpointed(a))
    BY <1>10, HookStep DEF Moved, Steps
  <2>2. Files
    BY <1>10, <2>1, CheckpointIsLast DEF Files, PreHooks, ToolsShape, Checkpoints
  <2>3. Rest
    BY <1>10 DEF Rest, PreHooks, ToolsShape
  <2> QED
    BY <1>1, <2>1, <2>2, <2>3
<1>11. ASSUME NEW a \in Agents, PreGuards(a)
       PROVE  Goal
  BY <1>1, <1>3, <1>11, GuardStep DEF PreGuards, Moved, Steps
<1>12. ASSUME NEW a \in Agents, NEW i \in DOMAIN Calls(a),
              \/ Refuses(a, i) \/ Starts(a, i) \/ Interrupted(a, i) \/ Returns(a, i)
              \/ Reads(a, i) \/ LocksAndChecks(a, i) \/ Replaces(a, i)
       PROVE  Goal
  <2>1. Moved(a)
    BY <1>12, ToolRunStep DEF Moved, Steps
  <2>2. CASE Replaces(a, i)
    <3>1. Rest /\ Files
      BY <2>2 DEF Replaces, Renamed, Rest, Files, ToolsShape
    <3> QED
      BY <1>1, <2>1, <3>1
  <2>3. CASE ~Replaces(a, i)
    <3>1. UNCHANGED <<settings, file, saved, clock, fresh>>
      BY <1>12, <2>3 DEF Refuses, Starts, Interrupted, Returns, Reads, LocksAndChecks, Elsewhere
    <3> QED
      BY <1>1, <1>4, <2>1, <3>1
  <2> QED
    BY <2>2, <2>3
<1>13. ASSUME NEW a \in Agents, Finalize(a)
       PROVE  Goal
  <2>1. Moved(a)
    BY <1>13, FinalizeStep DEF Moved, Steps
  <2>2. Files
    BY <1>13, PostHookKeeps DEF Files, Finalize, ToolsShape, Checkpoints
  <2>3. Rest
    BY <1>13 DEF Rest, Finalize, ToolsShape
  <2> QED
    BY <1>1, <2>1, <2>2, <2>3
<1>14. ASSUME NEW a \in Agents, BatchReturns(a) \/ Vetoed(a) \/ AppendFails(a)
       PROVE  Goal
  BY <1>1, <1>3, <1>14, DropStep DEF BatchReturns, Vetoed, AppendFails, Moved, Steps
<1>15. ASSUME NEW a \in Agents, Cancel(a) \/ TurnExpires(a) \/ WindowSlides(a)
       PROVE  Goal
  BY <1>1, <1>3, <1>15, ExecStep DEF Cancel, TurnExpires, WindowSlides, Moved, Steps
<1>16. ASSUME NEW a \in Agents, Restore(a)
       PROVE  Goal
  <2>1. saved[a] \in Seq(Checkpoints) /\ saved[a] # <<>>
    BY <1>16 DEF Restore, ToolsShape, Checkpoints
  <2>2. Last(saved[a]) \in Checkpoints
    BY <2>1 DEF Last
  <2>3. Last(saved[a]).pre \in Nat
    BY <2>2 DEF Checkpoints
  <2>4. Rest /\ Files
    BY <1>16, <2>3 DEF Restore, Rest, Files, ToolsShape
  <2> QED
    BY <1>2, <1>16, <2>4 DEF Restore
<1>17. ASSUME Tick
       PROVE  Goal
  <2>1. Rest /\ Files
    BY <1>17 DEF Tick, Rest, Files, ToolsShape
  <2> QED
    BY <1>2, <1>17, <2>1 DEF Tick
<1>18. ASSUME Edited
       PROVE  Goal
  <2>1. Rest /\ Files
    BY <1>18 DEF Edited, Rest, Files, ToolsShape
  <2> QED
    BY <1>2, <1>18, <2>1 DEF Edited
<1>19. Goal
  BY <1>5, <1>6, <1>7, <1>8, <1>9, <1>10, <1>11, <1>12, <1>13, <1>14, <1>15, <1>16, <1>17,
     <1>18 DEF TCNext, Engine, ToolRuns
<1> QED
  BY <1>19 DEF Goal

\* Every step keeps what the gates have established.
LEMMA ToolsInvStep == ToolsInv /\ [TCNext]_tcVars => ToolsInv'
<1> SUFFICES ASSUME ToolsInv, [TCNext]_tcVars
             PROVE  ToolsInv'
  OBVIOUS
<1>1. CASE UNCHANGED tcVars
  BY <1>1 DEF tcVars, ToolsInv, ToolsShape, Seated, Gated, MayRun, NeedsApproval
<1>2. CASE TCNext
  <2>1. /\ settings' = settings /\ ToolsShape'
        /\ agent' = agent \/ \E a \in Agents : Moved(a)
    BY <1>2, ToolSteps DEF ToolsInv
  <2>2. ASSUME NEW a \in Agents
        PROVE  Seated(agent'[a]) /\ Gated(agent'[a])
    <3>1. agent[a] \in AgentRecs /\ agent'[a] \in AgentRecs
      BY <2>1 DEF ToolsInv, ToolsShape
    <3>2. agent'[a] = agent[a] \/ Steps(agent[a], agent'[a])
      BY <2>1 DEF Moved, Alone
    <3> QED
      BY <3>1, <3>2, PlacedStep, GatedStep DEF ToolsInv
  <2>3. ASSUME NEW a \in Agents
        PROVE  (Seated(agent[a]) /\ Gated(agent[a]))'
    BY <2>1, <2>2 DEF Seated, Gated, MayRun, NeedsApproval
  <2> QED
    BY <2>1, <2>3 DEF ToolsInv
<1> QED
  BY <1>1, <1>2

\* A turn begins with no batch.
LEMMA ToolsInitially == TCInit => ToolsInv
<1> SUFFICES ASSUME TCInit
             PROVE  ToolsInv
  OBVIOUS
<1> DEFINE read == IF settings.known THEN 1 ELSE Unread
           r == [pc |-> "idle", exec |-> FreshExec, window |-> 0,
                 seen |-> read, read |-> read, batch |-> NoBatch]
<1>1. read \in Nat /\ FreshExec \in Execs
  BY DEF Unread, FreshExec, Execs
<1>2. \A a \in Agents : agent[a] = r
  BY DEF TCInit
<1>3. agent = [a \in Agents |-> r]
  BY DEF TCInit
<1> HIDE DEF read
<1>4. r \in AgentRecs /\ r.pc = "idle" /\ r.batch = NoBatch
  BY <1>1, NoBatchShape DEF AgentRecs, Places
<1> HIDE DEF r
<1>5. ToolsShape
  BY <1>3, <1>4 DEF TCInit, ToolsShape
<1>6. Seated(r) /\ Gated(r)
  BY <1>4, NoBatchShape DEF Seated, Gated
<1> QED
  BY <1>2, <1>5, <1>6 DEF ToolsInv

\* Whatever runs has passed the policy, and where the mode asks the operator,
\* his yes to this very call, on both paths of execute_batch, for any batches
\* and agents.
THEOREM OnlyPermitted == TCSpec => []OnlyPermittedRuns
<1>1. ToolsInv => OnlyPermittedRuns
  BY DEF ToolsInv, Gated, MayRun, OnlyPermittedRuns, Effective, Calls, Slot
<1> QED
  BY <1>1, ToolsInitially, ToolsInvStep, PTL DEF TCSpec

-----------------------------------------------------------------------------
\* The events of different calls, and of two kinds, differ.
LEMMA EventsDiffer ==
  \A i, j : /\ CallEvent(i) = CallEvent(j) => i = j
            /\ OutcomeEvent(i) = OutcomeEvent(j) => i = j
            /\ CallEvent(i) # OutcomeEvent(j)
            /\ CallEvent(i).call = i /\ OutcomeEvent(i).call = i
            /\ CallEvent(i).what = "call" /\ OutcomeEvent(i).what = "outcome"
  BY DEF CallEvent, OutcomeEvent

\* A new event at the end of a log.
LEMMA LogAppends ==
  ASSUME NEW log \in Seq(Events), NEW e \in Events, Sole(log), ~In(log, e)
  PROVE  LET new == Append(log, e) IN
         /\ new \in Seq(Events) /\ Sole(new)
         /\ \A x : In(new, x) <=> In(log, x) \/ x = e
         /\ \A S : OfCalls(log, S) /\ e.call \in S => OfCalls(new, S)
         /\ \A i : (InOrder(log, i) /\ (e = OutcomeEvent(i) => In(log, CallEvent(i))))
                     => InOrder(new, i)
<1> DEFINE new == Append(log, e)
           n == Len(log)
<1>1. /\ new \in Seq(Events) /\ n \in Nat /\ DOMAIN log = 1 .. n /\ DOMAIN new = 1 .. n + 1
      /\ new[n + 1] = e /\ \A k \in 1 .. n : new[k] = log[k]
  OBVIOUS
<1> HIDE DEF new, n
<1>2. Sole(new)
  BY <1>1 DEF Sole, In
<1>3. ASSUME NEW x PROVE In(new, x) <=> In(log, x) \/ x = e
  <2>1. In(log, x) => In(new, x)
    BY <1>1 DEF In
  <2>2. x = e => In(new, x)
    BY <1>1 DEF In
  <2>3. In(new, x) => In(log, x) \/ x = e
    BY <1>1 DEF In
  <2> QED
    BY <2>1, <2>2, <2>3
<1>4. ASSUME NEW S, OfCalls(log, S), e.call \in S PROVE OfCalls(new, S)
  BY <1>1, <1>4 DEF OfCalls
<1>5. ASSUME NEW i, InOrder(log, i), e = OutcomeEvent(i) => In(log, CallEvent(i))
      PROVE  InOrder(new, i)
  <2> SUFFICES ASSUME NEW k \in DOMAIN new, new[k] = OutcomeEvent(i)
               PROVE  \E j \in DOMAIN new : j < k /\ new[j] = CallEvent(i)
    BY DEF InOrder
  <2>1. CASE k = n + 1
    <3>1. PICK j \in DOMAIN log : log[j] = CallEvent(i)
      BY <1>1, <1>5, <2>1 DEF In
    <3> QED
      BY <1>1, <2>1, <3>1
  <2>2. CASE k \in 1 .. n
    <3>1. PICK j \in DOMAIN log : j < k /\ log[j] = CallEvent(i)
      BY <1>1, <1>5, <2>2 DEF InOrder
    <3> QED
      BY <1>1, <3>1
  <2> QED
    BY <1>1, <2>1, <2>2
<1> QED
  BY <1>1, <1>2, <1>3, <1>4, <1>5 DEF new

\* record_tool_call writes a call's event, once.
LEMMA LogCallAdds ==
  ASSUME NEW log \in Seq(Events), NEW i \in Nat, Sole(log)
  PROVE  LET new == LogCall(log, i) IN
         /\ new \in Seq(Events) /\ Sole(new)
         /\ \A x : In(new, x) <=> In(log, x) \/ x = CallEvent(i)
         /\ \A S : OfCalls(log, S) /\ i \in S => OfCalls(new, S)
         /\ \A k : InOrder(log, k) => InOrder(new, k)
<1>1. Contains(log, CallEvent(i)) <=> In(log, CallEvent(i))
  BY DEF Contains, In
<1>2. CASE In(log, CallEvent(i))
  BY <1>1, <1>2 DEF LogCall
<1>3. CASE ~In(log, CallEvent(i))
  <2> DEFINE e == CallEvent(i)
             new == Append(log, e)
  <2>1. e \in Events /\ e.call = i /\ \A k : e # OutcomeEvent(k)
    BY EventsDiffer DEF CallEvent, Events
  <2>2. LogCall(log, i) = new
    BY <1>1, <1>3 DEF LogCall
  <2> HIDE DEF e
  <2>3. /\ new \in Seq(Events) /\ Sole(new)
        /\ \A x : In(new, x) <=> In(log, x) \/ x = e
        /\ \A S : OfCalls(log, S) /\ e.call \in S => OfCalls(new, S)
        /\ \A k : (InOrder(log, k) /\ (e = OutcomeEvent(k) => In(log, CallEvent(k))))
                    => InOrder(new, k)
    BY <1>3, <2>1, LogAppends DEF e
  <2> HIDE DEF new
  <2> QED
    BY <2>1, <2>2, <2>3 DEF e
<1> QED
  BY <1>2, <1>3

\* A batch with one call more told.
LEMMA ToldAppends ==
  ASSUME NEW n \in Nat
  PROVE  Append([i \in 1 .. n |-> i], n + 1) = [i \in 1 .. n + 1 |-> i]
<1> DEFINE f == [i \in 1 .. n |-> i]
           g == [i \in 1 .. n + 1 |-> i]
           h == Append(f, n + 1)
<1>1. f \in Seq(Nat) /\ Len(f) = n /\ \A i \in 1 .. n : f[i] = i
  OBVIOUS
<1>2. g \in Seq(Nat) /\ Len(g) = n + 1 /\ \A i \in 1 .. n + 1 : g[i] = i
  OBVIOUS
<1> HIDE DEF f, g
<1>3. /\ h \in Seq(Nat) /\ Len(h) = n + 1 /\ h[n + 1] = n + 1
      /\ \A i \in 1 .. n : h[i] = f[i]
  BY <1>1
<1> HIDE DEF h
<1>4. \A i \in 1 .. n + 1 : h[i] = g[i]
  BY <1>1, <1>2, <1>3
<1>5. h = g
  BY <1>2, <1>3, <1>4
<1> QED
  BY <1>5 DEF f, g, h

\* Every kind of step keeps the log in step with the batch.
LEMMA RecordingStep ==
  ASSUME NEW r \in AgentRecs, NEW q \in AgentRecs, Seated(r), Gated(r), Recording(r), Steps(r, q)
  PROVE  Recording(q)
<1> DEFINE b == r.batch
           d == q.batch
           n == Len(b.calls)
<1>1. /\ b \in BatchRecs /\ d \in BatchRecs /\ r.pc \in Places /\ q.pc \in Places
  BY DEF AgentRecs
<1>2. /\ b.at \in Nat \ {0} /\ d.at \in Nat \ {0} /\ n \in Nat /\ DOMAIN b.calls = 1 .. n
      /\ b.stage \in 1 .. 4 /\ d.stage \in 1 .. 4 /\ b.log \in Seq(Events)
      /\ b.slots \in Seq(SlotStates)
  BY <1>1, BatchFields
<1>3. DOMAIN b.slots = 1 .. n
  BY <1>2 DEF Seated
<1>4. /\ b.told = [i \in 1 .. Told(r) |-> i] /\ Sole(b.log) /\ OfCalls(b.log, 1 .. n)
      /\ \A i \in 1 .. n :
           /\ In(b.log, CallEvent(i)) <=> OnRecord(r, i)
           /\ In(b.log, OutcomeEvent(i)) <=> (i <= Told(r) \/ b.slots[i] = "blocked")
           /\ InOrder(b.log, i)
  BY <1>2 DEF Recording
<1>5. ASSUME d.calls = b.calls, d.told = [i \in 1 .. Told(q) |-> i],
             Sole(d.log), OfCalls(d.log, 1 .. n),
             \A i \in 1 .. n :
               /\ In(d.log, CallEvent(i)) <=> OnRecord(q, i)
               /\ In(d.log, OutcomeEvent(i)) <=> (i <= Told(q) \/ d.slots[i] = "blocked")
               /\ InOrder(d.log, i)
      PROVE  Recording(q)
  BY <1>2, <1>5 DEF Recording
<1>6. CASE Idem(r, q)
  <2>1. Told(q) = Told(r) /\ \A i \in 1 .. n : OnRecord(q, i) <=> OnRecord(r, i)
    BY <1>6 DEF Idem, Told, OnRecord
  <2> QED
    BY <1>4, <1>5, <1>6, <2>1 DEF Idem
<1>7. CASE Dropped(q) \/ Decided(q)
  <2>1. Told(q) = 0 /\ d.told = <<>> /\ d.log = <<>>
    BY <1>7, NoBatchShape DEF Dropped, Decided, Told
  <2>2. \A i \in DOMAIN d.calls : ~OnRecord(q, i) /\ d.slots[i] # "blocked" /\ i \in Nat \ {0}
    <3>1. DOMAIN d.calls = 1 .. Len(d.calls) /\ Len(d.calls) \in Nat
      BY <1>1, BatchFields
    <3> QED
      BY <1>7, <3>1, NoBatchShape DEF Dropped, Decided, OnRecord
  <2>3. <<>> = [i \in 1 .. 0 |-> i]
    OBVIOUS
  <2> QED
    BY <2>1, <2>2, <2>3 DEF Recording, Sole, OfCalls, In, InOrder
<1>8. CASE Cleared(r, q)
  <2>1. d.stage = 1
    BY <1>8 DEF Cleared, Gated
  <2>2. Told(q) = Told(r)
    BY <1>2, <1>8 DEF Cleared, Told, SameRest
  <2>3. \A i \in 1 .. n : OnRecord(q, i) <=> OnRecord(r, i)
    BY <1>2, <1>8, <2>1 DEF Cleared, OnRecord, SameRest
  <2> QED
    BY <1>4, <1>5, <1>8, <2>2, <2>3 DEF Cleared, SameRest
<1>9. CASE TurnedAway(r, q)
  <2> DEFINE l == LogCall(b.log, b.at)
             e == OutcomeEvent(b.at)
  <2>1. /\ b.at \in 1 .. n /\ r.pc = "gate" /\ d.calls = b.calls /\ d.told = b.told
        /\ Onward(r, q) /\ d.log = Append(l, e)
        /\ d.slots = [b.slots EXCEPT ![b.at] = "blocked"]
    BY <1>2, <1>9 DEF TurnedAway
  <2>2. b.slots[b.at] = "new"
    BY <1>2, <2>1 DEF Seated
  <2>3. Told(q) = Told(r) /\ ~(b.at <= Told(r))
    BY <1>2, <2>1 DEF Told, Onward
  <2>4. \A i \in 1 .. n : OnRecord(q, i) <=> OnRecord(r, i) \/ i = b.at
    BY <1>2, <2>1 DEF OnRecord, Onward
  <2>5. /\ l \in Seq(Events) /\ Sole(l)
        /\ \A x : In(l, x) <=> In(b.log, x) \/ x = CallEvent(b.at)
        /\ \A S : OfCalls(b.log, S) /\ b.at \in S => OfCalls(l, S)
        /\ \A k : InOrder(b.log, k) => InOrder(l, k)
    BY <1>2, <1>4, LogCallAdds
  <2> HIDE DEF l
  <2>6. e \in Events /\ e.call = b.at /\ \A k : e # CallEvent(k)
    BY <1>2, EventsDiffer DEF OutcomeEvent, Events
  <2>7. ~In(l, e)
    <3>1. ~In(b.log, e)
      BY <1>4, <2>1, <2>2, <2>3
    <3> QED
      BY <2>5, <2>6, <3>1
  <2>8. /\ Sole(d.log)
        /\ \A x : In(d.log, x) <=> In(l, x) \/ x = e
        /\ \A S : OfCalls(l, S) /\ e.call \in S => OfCalls(d.log, S)
        /\ \A i : (InOrder(l, i) /\ (e = OutcomeEvent(i) => In(l, CallEvent(i))))
                    => InOrder(d.log, i)
    BY <2>1, <2>5, <2>6, <2>7, LogAppends
  <2>9. ASSUME NEW i \in 1 .. n
        PROVE  /\ In(d.log, CallEvent(i)) <=> OnRecord(q, i)
               /\ In(d.log, OutcomeEvent(i)) <=> (i <= Told(q) \/ d.slots[i] = "blocked")
               /\ InOrder(d.log, i)
    <3>1. In(d.log, CallEvent(i)) <=> OnRecord(q, i)
      BY <1>4, <2>4, <2>5, <2>6, <2>8, EventsDiffer
    <3>2. In(d.log, OutcomeEvent(i)) <=> (In(b.log, OutcomeEvent(i)) \/ i = b.at)
      BY <2>5, <2>8, EventsDiffer
    <3>3. d.slots[i] = "blocked" <=> (b.slots[i] = "blocked" \/ i = b.at)
      BY <1>2, <1>3, <2>1
    <3>4. In(d.log, OutcomeEvent(i)) <=> (i <= Told(q) \/ d.slots[i] = "blocked")
      BY <1>4, <2>3, <3>2, <3>3
    <3>5. InOrder(d.log, i)
      BY <1>4, <2>5, <2>8, EventsDiffer
    <3> QED
      BY <3>1, <3>4, <3>5
  <2>10. OfCalls(d.log, 1 .. n)
    BY <1>4, <2>1, <2>5, <2>6, <2>8
  <2> QED
    BY <1>4, <1>5, <2>1, <2>3, <2>8, <2>9, <2>10
<1>10. ASSUME NEW s, PassedGate(r, q, s)
       PROVE  Recording(q)
  <2>1. /\ b.at \in 1 .. n /\ r.pc = "gate" /\ d.calls = b.calls /\ d.told = b.told
        /\ d.log = (IF s = "guard" THEN LogCall(b.log, b.at) ELSE b.log)
        /\ s = StagesOf(b.calls)[b.stage]
    BY <1>2, <1>10 DEF PassedGate
  <2>2. s = "guard" <=> b.stage = (IF Parallel(b.calls) THEN 3 ELSE 4)
    BY <1>2, <2>1, StageNumbers
  <2>3. b.slots[b.at] = "new"
    BY <1>2, <2>1 DEF Seated
  <2>4. \A i \in 1 .. n : d.slots[i] = "blocked" <=> b.slots[i] = "blocked"
    BY <1>2, <1>3, <1>10, <2>1, <2>3 DEF PassedGate
  <2>5. Told(q) = Told(r)
    BY <1>2, <1>10, <2>1 DEF PassedGate, Told, Onward
  <2>6. \A i \in 1 .. n : OnRecord(q, i) <=> OnRecord(r, i) \/ (s = "guard" /\ i = b.at)
    <3>1. CASE b.stage < 4 /\ q.pc = "gate" /\ d.at = b.at /\ d.stage = b.stage + 1
      BY <1>2, <2>1, <2>2, <3>1 DEF OnRecord
    <3>2. CASE b.stage = 4 /\ Onward(r, q)
      BY <1>2, <2>1, <2>2, <3>2 DEF OnRecord, Onward
    <3> QED
      BY <1>10, <3>1, <3>2 DEF PassedGate
  <2>7. /\ Sole(d.log) /\ OfCalls(d.log, 1 .. n)
        /\ \A x : In(d.log, x) <=> In(b.log, x) \/ (s = "guard" /\ x = CallEvent(b.at))
        /\ \A k : InOrder(b.log, k) => InOrder(d.log, k)
    <3>1. CASE s = "guard"
      <4> DEFINE l == LogCall(b.log, b.at)
      <4>1. /\ Sole(l)
            /\ \A x : In(l, x) <=> In(b.log, x) \/ x = CallEvent(b.at)
            /\ \A S : OfCalls(b.log, S) /\ b.at \in S => OfCalls(l, S)
            /\ \A k : InOrder(b.log, k) => InOrder(l, k)
        BY <1>2, <1>4, LogCallAdds
      <4>2. d.log = l
        BY <2>1, <3>1
      <4> HIDE DEF l
      <4> QED
        BY <1>4, <2>1, <3>1, <4>1, <4>2
    <3>2. CASE s # "guard"
      BY <1>4, <2>1, <3>2
    <3> QED
      BY <3>1, <3>2
  <2>8. ASSUME NEW i \in 1 .. n
        PROVE  /\ In(d.log, CallEvent(i)) <=> OnRecord(q, i)
               /\ In(d.log, OutcomeEvent(i)) <=> (i <= Told(q) \/ d.slots[i] = "blocked")
               /\ InOrder(d.log, i)
    <3>1. In(d.log, CallEvent(i)) <=> OnRecord(q, i)
      BY <1>4, <2>6, <2>7, EventsDiffer
    <3>2. In(d.log, OutcomeEvent(i)) <=> In(b.log, OutcomeEvent(i))
      BY <2>7, EventsDiffer
    <3> QED
      BY <1>4, <2>4, <2>5, <2>7, <3>1, <3>2
  <2> QED
    BY <1>4, <1>5, <2>1, <2>5, <2>7, <2>8
<1>11. ASSUME NEW i, NEW s, SlotMoves(r, q, i, s)
       PROVE  Recording(q)
  <2>1. Told(q) = Told(r) /\ \A k \in 1 .. n : OnRecord(q, k) <=> OnRecord(r, k)
    BY <1>11 DEF SlotMoves, Told, OnRecord
  <2>2. \A k \in 1 .. n : d.slots[k] = "blocked" <=> b.slots[k] = "blocked"
    BY <1>2, <1>3, <1>11 DEF SlotMoves
  <2> QED
    BY <1>4, <1>5, <1>11, <2>1, <2>2 DEF SlotMoves
<1>12. CASE Finalized(r, q)
  <2> DEFINE e == OutcomeEvent(b.at)
             shut == b.slots[b.at] = "blocked"
  <2>1. /\ b.at \in 1 .. n /\ r.pc = "run" /\ d.calls = b.calls /\ d.at = b.at + 1
        /\ d.told = Append(b.told, b.at) /\ d.slots = b.slots
        /\ d.log = (IF shut THEN b.log ELSE Append(b.log, e))
        /\ q.pc = (IF b.at = n THEN "returned" ELSE IF Parallel(b.calls) THEN "run" ELSE "gate")
    BY <1>2, <1>12 DEF Finalized
  <2>2. Told(r) = b.at - 1 /\ Told(q) = b.at
    BY <1>2, <2>1 DEF Told
  <2>3. d.told = [i \in 1 .. Told(q) |-> i]
    <3>1. b.at - 1 \in Nat /\ (b.at - 1) + 1 = b.at
      BY <1>2
    <3>2. Append([i \in 1 .. b.at - 1 |-> i], b.at) = [i \in 1 .. b.at |-> i]
      BY <3>1, ToldAppends
    <3> QED
      BY <1>4, <2>1, <2>2, <3>2
  <2>4. \A i \in 1 .. n : OnRecord(q, i) <=> OnRecord(r, i)
    BY <1>2, <2>1 DEF OnRecord
  <2>5. OnRecord(r, b.at)
    BY <1>2, <2>1 DEF OnRecord
  <2>6. e \in Events /\ e.call = b.at /\ \A k : e # CallEvent(k)
    BY <1>2, EventsDiffer DEF OutcomeEvent, Events
  <2>7. ~shut => ~In(b.log, e)
    BY <1>2, <1>4, <2>1, <2>2, SMTT(40)
  <2>8. /\ Sole(d.log) /\ OfCalls(d.log, 1 .. n)
        /\ \A x : In(d.log, x) <=> In(b.log, x) \/ (~shut /\ x = e)
        /\ \A i \in 1 .. n : InOrder(d.log, i)
    <3>1. CASE shut
      BY <1>4, <2>1, <3>1
    <3>2. CASE ~shut
      <4>1. d.log = Append(b.log, e)
        BY <2>1, <3>2
      <4>2. /\ Sole(d.log)
            /\ \A x : In(d.log, x) <=> In(b.log, x) \/ x = e
            /\ \A S : OfCalls(b.log, S) /\ e.call \in S => OfCalls(d.log, S)
            /\ \A i : (InOrder(b.log, i) /\ (e = OutcomeEvent(i) => In(b.log, CallEvent(i))))
                        => InOrder(d.log, i)
        BY <1>2, <1>4, <2>6, <2>7, <3>2, <4>1, LogAppends
      <4>3. \A i \in 1 .. n : e = OutcomeEvent(i) => In(b.log, CallEvent(i))
        BY <1>4, <2>1, <2>5, EventsDiffer
      <4> QED
        BY <1>4, <2>1, <2>6, <3>2, <4>2, <4>3
    <3> QED
      BY <3>1, <3>2
  <2>9. ASSUME NEW i \in 1 .. n
        PROVE  /\ In(d.log, CallEvent(i)) <=> OnRecord(q, i)
               /\ In(d.log, OutcomeEvent(i)) <=> (i <= Told(q) \/ d.slots[i] = "blocked")
    <3>1. In(d.log, CallEvent(i)) <=> OnRecord(q, i)
      BY <1>4, <2>4, <2>6, <2>8
    <3>2. In(d.log, OutcomeEvent(i)) <=> (In(b.log, OutcomeEvent(i)) \/ (~shut /\ i = b.at))
      BY <2>8, EventsDiffer
    <3>3. i <= Told(q) <=> i <= Told(r) \/ i = b.at
      BY <1>2, <2>1, <2>2
    <3> QED
      BY <1>4, <2>1, <3>1, <3>2, <3>3
  <2> QED
    BY <1>5, <2>1, <2>3, <2>8, <2>9
<1> QED
  BY <1>6, <1>7, <1>8, <1>9, <1>10, <1>11, <1>12 DEF Steps

\* Every step keeps the logs in step with their batches.
LEMMA RecordInvStep == ToolsInv /\ RecordInv /\ [TCNext]_tcVars => RecordInv'
<1> SUFFICES ASSUME ToolsInv, RecordInv, [TCNext]_tcVars
             PROVE  RecordInv'
  OBVIOUS
<1>1. CASE UNCHANGED tcVars
  BY <1>1 DEF tcVars, RecordInv
<1>2. CASE TCNext
  <2>1. /\ settings' = settings /\ ToolsShape'
        /\ agent' = agent \/ \E a \in Agents : Moved(a)
    BY <1>2, ToolSteps DEF ToolsInv
  <2>2. ASSUME NEW a \in Agents
        PROVE  Recording(agent'[a])
    <3>1. agent[a] \in AgentRecs /\ agent'[a] \in AgentRecs
      BY <2>1 DEF ToolsInv, ToolsShape
    <3>2. agent'[a] = agent[a] \/ Steps(agent[a], agent'[a])
      BY <2>1 DEF Moved, Alone
    <3> QED
      BY <3>1, <3>2, RecordingStep DEF ToolsInv, RecordInv
  <2> QED
    BY <2>2 DEF RecordInv
<1> QED
  BY <1>1, <1>2

\* A turn begins with nothing on record.
LEMMA RecordInitially == TCInit => RecordInv
<1> SUFFICES ASSUME TCInit, NEW a \in Agents
             PROVE  Recording(agent[a])
  BY DEF RecordInv
<1>1. agent[a].pc = "idle" /\ agent[a].batch = NoBatch
  BY DEF TCInit
<1>2. Told(agent[a]) = 0
  BY <1>1 DEF Told
<1>3. <<>> = [i \in 1 .. 0 |-> i]
  OBVIOUS
<1> QED
  BY <1>1, <1>2, <1>3, NoBatchShape DEF Recording, Sole, OfCalls, In

\* Every place among two n is the second or the first of a pair.
LEMMA EvenOrOdd ==
  ASSUME NEW n \in Nat, NEW v \in 1 .. 2 * n
  PROVE  (\E i \in 1 .. n : v = 2 * i) \/ (\E i \in 1 .. n : v = 2 * i - 1)
<1> DEFINE i == v \div 2
<1>1. v \in Nat /\ 1 <= v /\ v <= 2 * n
  OBVIOUS
<1>2. i \in Nat /\ (v = 2 * i \/ v = 2 * i + 1)
  BY <1>1
<1> HIDE DEF i
<1>3. CASE v = 2 * i
  <2>1. i \in 1 .. n
    BY <1>1, <1>2, <1>3
  <2> QED
    BY <1>3, <2>1
<1>4. CASE v = 2 * i + 1
  <2>1. i + 1 \in 1 .. n /\ v = 2 * (i + 1) - 1
    BY <1>1, <1>2, <1>4
  <2> QED
    BY <2>1
<1> QED
  BY <1>2, <1>3, <1>4

\* A log that has each event of n calls once has two events a call.
LEMMA TwoEventsACall ==
  ASSUME NEW log \in Seq(Events), NEW n \in Nat, Sole(log), OfCalls(log, 1 .. n),
         \A i \in 1 .. n : In(log, CallEvent(i)) /\ In(log, OutcomeEvent(i))
  PROVE  Len(log) = 2 * n
<1> DEFINE m == Len(log)
           D == 1 .. m
           R == 1 .. 2 * n
           rank(e) == IF e.what = "call" THEN 2 * e.call - 1 ELSE 2 * e.call
           f == [k \in D |-> rank(log[k])]
<1>1. m \in Nat /\ DOMAIN log = D /\ 2 * n \in Nat
  OBVIOUS
<1>2. \A k \in D : /\ log[k] \in Events /\ log[k].call \in 1 .. n
                   /\ log[k].what \in {"call", "outcome"}
  <2> SUFFICES ASSUME NEW k \in D
               PROVE  /\ log[k] \in Events /\ log[k].call \in 1 .. n
                      /\ log[k].what \in {"call", "outcome"}
    OBVIOUS
  <2>1. log[k] \in Events
    BY <1>1
  <2>2. log[k].call \in 1 .. n
    BY <1>1 DEF OfCalls
  <2> QED
    BY <2>1, <2>2 DEF Events
<1>3. \A k \in D : log[k] = [call |-> log[k].call, what |-> log[k].what]
  BY <1>2 DEF Events
<1>4. \A k \in D : f[k] \in R
  BY <1>2
<1>5. ASSUME NEW j \in D, NEW k \in D, f[j] = f[k]
      PROVE  j = k
  <2> DEFINE x == log[j].call
             y == log[k].call
  <2>1. x \in Nat /\ y \in Nat
    BY <1>2
  <2>2. /\ f[j] = IF log[j].what = "call" THEN 2 * x - 1 ELSE 2 * x
        /\ f[k] = IF log[k].what = "call" THEN 2 * y - 1 ELSE 2 * y
    OBVIOUS
  <2>3. log[j].what = log[k].what /\ x = y
    <3> DEFINE v == log[j].what
               w == log[k].what
    <3>1. v \in {"call", "outcome"} /\ w \in {"call", "outcome"}
      BY <1>2
    <3>2. (IF v = "call" THEN 2 * x - 1 ELSE 2 * x) = (IF w = "call" THEN 2 * y - 1 ELSE 2 * y)
      BY <1>5, <2>2
    <3>3. \A i, l \in Nat : 2 * i - 1 # 2 * l
      OBVIOUS
    <3> HIDE DEF x, y, f, v, w
    <3>4. v = w
      BY <2>1, <3>1, <3>2, <3>3
    <3>5. x = y
      BY <2>1, <3>2, <3>4
    <3> QED
      BY <3>4, <3>5 DEF v, w
  <2>4. log[j] = log[k]
    BY <1>3, <2>3
  <2> QED
    BY <1>1, <2>4 DEF Sole
<1>6. ASSUME NEW v \in R
      PROVE  \E k \in D : f[k] = v
  <2>1. (\E i \in 1 .. n : v = 2 * i) \/ (\E i \in 1 .. n : v = 2 * i - 1)
    BY EvenOrOdd
  <2>2. ASSUME NEW i \in 1 .. n, v = 2 * i
        PROVE  \E k \in D : f[k] = v
    <3>1. PICK k \in D : log[k] = OutcomeEvent(i)
      BY <1>1 DEF In
    <3>2. log[k].call = i /\ log[k].what = "outcome"
      BY <3>1, EventsDiffer
    <3>3. f[k] = v
      BY <2>2, <3>2
    <3> QED
      BY <3>3
  <2>3. ASSUME NEW i \in 1 .. n, v = 2 * i - 1
        PROVE  \E k \in D : f[k] = v
    <3>1. PICK k \in D : log[k] = CallEvent(i)
      BY <1>1 DEF In
    <3>2. log[k].call = i /\ log[k].what = "call"
      BY <3>1, EventsDiffer
    <3>3. f[k] = v
      BY <2>3, <3>2
    <3> QED
      BY <3>3
  <2> QED
    BY <2>1, <2>2, <2>3
<1>7. f \in [D -> R]
  BY <1>4
<1> HIDE DEF f
<1>8. ExistsBijection(D, R)
  <2>1. f \in Injection(D, R)
    BY <1>5, <1>7 DEF Injection, IsInjective
  <2>2. f \in Surjection(D, R)
    BY <1>6, <1>7 DEF Surjection
  <2> QED
    BY <2>1, <2>2 DEF ExistsBijection, Bijection
<1>9. ASSUME NEW l \in Nat PROVE IsFiniteSet(1 .. l) /\ Cardinality(1 .. l) = l
  <2>1. 1 \in Int /\ l \in Int
    OBVIOUS
  <2>2. IsFiniteSet(1 .. l) /\ Cardinality(1 .. l) = IF 1 > l THEN 0 ELSE l - 1 + 1
    BY <2>1, FS_Interval
  <2>3. (IF 1 > l THEN 0 ELSE l - 1 + 1) = l
    OBVIOUS
  <2> QED
    BY <2>2, <2>3
<1> QED
  BY <1>1, <1>8, <1>9, FS_Bijection

PlaceOf(log, e) == SelectInSeq(log, LAMBDA x : x = e)

\* The place of an event that is in a log once.
LEMMA PlaceOfEvent ==
  ASSUME NEW log \in Seq(Events), Sole(log), NEW k \in DOMAIN log, NEW e, log[k] = e
  PROVE  PlaceOf(log, e) = k
<1>1. k \in 1 .. Len(log)
  OBVIOUS
<1>2. {i \in 1 .. Len(log) : log[i] = e} = {k}
  BY DEF Sole
<1>3. \A S : S = {k} => Min(S) = k
  BY <1>1 DEF Min
<1> QED
  BY <1>2, <1>3 DEF SelectInSeq, PlaceOf

\* A batch that returns has answered each of its calls once, in their order,
\* and recorded each one's call and outcome once, in that order, however many
\* calls there are and whatever became of them.
THEOREM EveryAnswered == TCSpec => []EveryCallIsAnswered
<1>1. ToolsInv /\ RecordInv => EveryCallIsAnswered
  <2> SUFFICES ASSUME ToolsInv, RecordInv, NEW a \in Agents, agent[a].pc = "returned"
               PROVE  LET b == agent[a].batch
                          n == Len(b.calls)
                          nr(e) == SelectInSeq(b.log, LAMBDA x : x = e)
                      IN /\ b.told = [i \in 1 .. n |-> i]
                         /\ Len(b.log) = 2 * n
                         /\ \A i \in 1 .. n : /\ nr(CallEvent(i)) # 0
                                              /\ nr(CallEvent(i)) < nr(OutcomeEvent(i))
    BY DEF EveryCallIsAnswered
  <2> DEFINE r == agent[a]
             b == r.batch
             n == Len(b.calls)
             nr(e) == PlaceOf(b.log, e)
  <2>1. r \in AgentRecs /\ b \in BatchRecs /\ Seated(r) /\ Recording(r)
    BY DEF ToolsInv, ToolsShape, RecordInv, AgentRecs
  <2>2. /\ n \in Nat /\ DOMAIN b.calls = 1 .. n /\ b.log \in Seq(Events)
        /\ b.at = n + 1
    BY <2>1, BatchFields DEF Seated
  <2>3. Told(r) = n /\ \A i \in 1 .. n : OnRecord(r, i)
    BY <2>2 DEF Told, OnRecord
  <2>4. /\ b.told = [i \in 1 .. n |-> i] /\ Sole(b.log) /\ OfCalls(b.log, 1 .. n)
        /\ \A i \in 1 .. n : /\ In(b.log, CallEvent(i)) /\ In(b.log, OutcomeEvent(i))
                             /\ InOrder(b.log, i)
    BY <2>1, <2>2, <2>3 DEF Recording
  <2>5. Len(b.log) = 2 * n
    BY <2>2, <2>4, TwoEventsACall
  <2>6. ASSUME NEW i \in 1 .. n
        PROVE  nr(CallEvent(i)) # 0 /\ nr(CallEvent(i)) < nr(OutcomeEvent(i))
    <3>1. PICK k \in DOMAIN b.log : b.log[k] = OutcomeEvent(i)
      BY <2>4 DEF In
    <3>2. PICK j \in DOMAIN b.log : j < k /\ b.log[j] = CallEvent(i)
      BY <2>4, <3>1 DEF InOrder
    <3>3. nr(OutcomeEvent(i)) = k
      BY <2>2, <2>4, <3>1, PlaceOfEvent
    <3>4. nr(CallEvent(i)) = j
      BY <2>2, <2>4, <3>2, PlaceOfEvent
    <3>5. j \in Nat \ {0}
      BY <2>2
    <3> HIDE DEF nr
    <3> QED
      BY <3>2, <3>3, <3>4, <3>5
  <2> QED
    BY <2>4, <2>5, <2>6 DEF PlaceOf
<1> QED
  BY <1>1, ToolsInitially, ToolsInvStep, RecordInitially, RecordInvStep, PTL DEF TCSpec

-----------------------------------------------------------------------------
\* The steps that make no checkpoint and check no hash.
Eases(r, q) ==
  \/ Idem(r, q) \/ Dropped(q) \/ Decided(q) \/ Cleared(r, q) \/ TurnedAway(r, q)
  \/ \E s : s # "hook" /\ PassedGate(r, q, s)
  \/ \E i, s : s # "checked" /\ SlotMoves(r, q, i, s)
  \/ Finalized(r, q)

\* No checkpoint becomes pending and no call checked.
Calm(r, q) ==
  /\ q.batch.pending => r.batch.pending
  /\ \A i \in DOMAIN q.batch.calls : q.batch.slots[i] = "checked" =>
       /\ i \in DOMAIN r.batch.calls /\ r.batch.slots[i] = "checked"
       /\ q.batch.calls[i] = r.batch.calls[i]

\* A batch that runs in parallel writes nothing.
LEMMA ParallelWritesNot ==
  ASSUME NEW calls, Parallel(calls), NEW i \in DOMAIN calls
  PROVE  ~Writes(calls[i])
  BY DEF Parallel, Writes, Mutating

\* They leave the checkpoint of a call that writes pending until it has run.
LEMMA EasesStep ==
  ASSUME NEW r \in AgentRecs, NEW q \in AgentRecs, Seated(r), Gated(r), HookRan(r), Eases(r, q)
  PROVE  HookRan(q) /\ Calm(r, q)
<1> DEFINE b == r.batch
           d == q.batch
           n == Len(b.calls)
           Goal == HookRan(q) /\ Calm(r, q)
<1>1. /\ b \in BatchRecs /\ d \in BatchRecs /\ r.pc \in Places /\ q.pc \in Places
  BY DEF AgentRecs
<1>2. /\ b.at \in Nat \ {0} /\ d.at \in Nat \ {0} /\ n \in Nat /\ DOMAIN b.calls = 1 .. n
      /\ b.stage \in 1 .. 4 /\ d.stage \in 1 .. 4 /\ b.slots \in Seq(SlotStates)
  BY <1>1, BatchFields
<1>3. DOMAIN b.slots = 1 .. n
  BY <1>2 DEF Seated
<1>4. Parallel(b.calls) => \A i \in 1 .. n : ~Writes(b.calls[i])
  BY <1>2, ParallelWritesNot
<1>5. Parallel(b.calls) => ~b.pending
  BY <1>2, <1>4 DEF HookRan
<1>6. \A i \in 1 .. n : b.slots[i] = "checked" => b.pending /\ i = b.at
  BY <1>2 DEF HookRan
<1>7. CASE Idem(r, q)
  BY <1>7 DEF Idem, HookRan, Calm
<1>8. CASE Dropped(q) \/ Decided(q)
  <2>1. ~d.pending /\ q.pc \notin {"gate", "run"}
    BY <1>8, NoBatchShape DEF Dropped, Decided
  <2>2. \A i \in DOMAIN d.calls : d.slots[i] \notin {"run", "running", "checked"}
    BY <1>8, NoBatchShape DEF Dropped, Decided
  <2> QED
    BY <2>1, <2>2 DEF HookRan, Calm
<1>9. CASE Cleared(r, q)
  <2>1. /\ r.pc = "before" /\ b.stage = 1 /\ d.stage = 1 /\ d.calls = b.calls
        /\ d.slots = b.slots /\ d.pending = b.pending
    BY <1>9 DEF Cleared, Gated, SameRest
  <2>2. ~b.pending
    BY <2>1 DEF HookRan
  <2> QED
    BY <2>1, <2>2 DEF HookRan, Calm
<1>10. CASE TurnedAway(r, q)
  <2>1. /\ b.at \in 1 .. n /\ r.pc = "gate" /\ d.calls = b.calls /\ d.pending = b.pending
        /\ d.slots = [b.slots EXCEPT ![b.at] = "blocked"] /\ Onward(r, q)
    BY <1>2, <1>10 DEF TurnedAway
  <2>2. \A i \in 1 .. n : i # b.at => d.slots[i] = b.slots[i]
    BY <1>2, <1>3, <2>1
  <2>3. d.slots[b.at] = "blocked"
    BY <1>3, <2>1
  <2>4. \A i \in 1 .. n : d.slots[i] = "checked" => b.slots[i] = "checked" /\ i # b.at
    BY <2>2, <2>3
  <2>5. CASE Parallel(b.calls)
    BY <1>2, <1>4, <1>5, <1>6, <2>1, <2>4, <2>5 DEF HookRan, Calm
  <2>6. CASE ~Parallel(b.calls)
    <3>1. q.pc = "run" /\ d.at = b.at
      BY <2>1, <2>6 DEF Onward
    <3>2. HookRan(q)
      BY <1>2, <2>1, <2>2, <2>3, <3>1 DEF HookRan
    <3> QED
      BY <1>2, <2>1, <2>4, <3>2 DEF Calm
  <2> QED
    BY <2>5, <2>6
<1>11. ASSUME NEW s, s # "hook", PassedGate(r, q, s)
       PROVE  Goal
  <2>1. /\ b.at \in 1 .. n /\ r.pc = "gate" /\ d.calls = b.calls /\ d.pending = b.pending
        /\ s = StagesOf(b.calls)[b.stage]
    BY <1>2, <1>11 DEF PassedGate
  <2>2. b.slots[b.at] = "new"
    BY <1>2, <2>1 DEF Seated
  <2>3. CASE b.stage < 4 /\ q.pc = "gate" /\ d.at = b.at /\ d.stage = b.stage + 1 /\ d.slots = b.slots
    <3>1. d.stage = 4 => Parallel(b.calls)
      BY <1>2, <1>11, <2>1, <2>3, StageNumbers
    <3>2. HookRan(q)
      BY <1>2, <2>1, <2>3, <3>1 DEF HookRan
    <3> QED
      BY <2>1, <2>3, <3>2 DEF Calm
  <2>4. CASE b.stage = 4 /\ Onward(r, q) /\ d.slots = [b.slots EXCEPT ![b.at] = "run"]
    <3>1. \A i \in 1 .. n : i # b.at => d.slots[i] = b.slots[i]
      BY <1>2, <1>3, <2>1, <2>4
    <3>2. d.slots[b.at] = "run"
      BY <1>3, <2>1, <2>4
    <3>3. Calm(r, q)
      BY <1>2, <2>1, <3>1, <3>2 DEF Calm
    <3>4. CASE Parallel(b.calls)
      BY <1>2, <1>4, <1>5, <1>6, <2>1, <3>1, <3>2, <3>3, <3>4 DEF HookRan
    <3>5. CASE ~Parallel(b.calls)
      <4>1. q.pc = "run" /\ d.at = b.at
        BY <2>4, <3>5 DEF Onward
      <4>2. Writes(b.calls[b.at]) => b.pending
        BY <1>2, <2>1, <2>4, <3>5 DEF HookRan
      <4>3. HookRan(q)
        BY <1>2, <2>1, <3>1, <3>2, <4>1, <4>2 DEF HookRan
      <4> QED
        BY <3>3, <4>3
    <3> QED
      BY <3>4, <3>5
  <2> QED
    BY <1>11, <2>3, <2>4 DEF PassedGate
<1>12. ASSUME NEW i, NEW s, s # "checked", SlotMoves(r, q, i, s)
       PROVE  Goal
  <2>1. /\ i \in 1 .. n /\ r.pc = "run" /\ q.pc = "run" /\ d.calls = b.calls
        /\ d.pending = b.pending /\ d.at = b.at
        /\ b.slots[i] \in {"run", "running", "checked"}
        /\ d.slots = [b.slots EXCEPT ![i] = s]
    BY <1>2, <1>12 DEF SlotMoves
  <2>2. d.slots[i] = s /\ \A k \in 1 .. n : k # i => d.slots[k] = b.slots[k]
    BY <1>3, <2>1
  <2>3. HookRan(q)
    BY <1>2, <1>12, <2>1, <2>2 DEF HookRan
  <2> QED
    BY <1>2, <1>12, <2>1, <2>2, <2>3 DEF Calm
<1>13. CASE Finalized(r, q)
  <2>1. /\ b.at \in 1 .. n /\ d.calls = b.calls /\ ~d.pending /\ d.stage = 1 /\ d.slots = b.slots
        /\ b.slots[b.at] \in {"blocked", "ok", "failed"}
    BY <1>2, <1>13 DEF Finalized
  <2>2. \A i \in 1 .. n : b.slots[i] \in {"run", "running", "checked"} => ~Writes(b.calls[i])
    BY <1>2, <2>1 DEF HookRan
  <2>3. HookRan(q)
    <3>1. \A i \in 1 .. n : d.slots[i] \in {"run", "running", "checked"} => ~Writes(d.calls[i])
      BY <2>1, <2>2
    <3>2. DOMAIN d.calls = 1 .. n /\ ~d.pending /\ d.stage = 1
      BY <1>2, <2>1
    <3>3. \A i \in 1 .. n : d.slots[i] = "checked" => Writes(d.calls[i])
      BY <1>2, <2>1 DEF HookRan
    <3> QED
      BY <3>1, <3>2, <3>3 DEF HookRan
  <2> QED
    BY <2>1, <2>3 DEF Calm
<1> QED
  BY <1>7, <1>8, <1>9, <1>10, <1>11, <1>12, <1>13 DEF Eases

\* The hook before a call: its checkpoint is pending if it writes, and no call
\* is checked.
LEMMA HooksStep ==
  ASSUME NEW r \in AgentRecs, NEW q \in AgentRecs, Seated(r), HookRan(r),
         PassedGate(r, q, "hook")
  PROVE  /\ HookRan(q)
         /\ q.batch.pending => Writes(r.batch.calls[r.batch.at])
         /\ \A i \in DOMAIN q.batch.calls : q.batch.slots[i] # "checked"
<1> DEFINE b == r.batch
           d == q.batch
           n == Len(b.calls)
           c == b.calls[b.at]
<1>1. b \in BatchRecs /\ d \in BatchRecs
  BY DEF AgentRecs
<1>2. /\ b.at \in Nat \ {0} /\ n \in Nat /\ DOMAIN b.calls = 1 .. n /\ b.stage \in 1 .. 4
  BY <1>1, BatchFields
<1>3. /\ b.at \in 1 .. n /\ r.pc = "gate" /\ d.calls = b.calls /\ d.pending = Writes(c)
      /\ "hook" = StagesOf(b.calls)[b.stage]
  BY <1>2 DEF PassedGate
<1>4. b.stage = IF Parallel(b.calls) THEN 2 ELSE 3
  BY <1>2, <1>3, StageNumbers
<1>5. b.stage # 4
  BY <1>4
<1>6. q.pc = "gate" /\ d.at = b.at /\ d.stage = b.stage + 1 /\ d.slots = b.slots
  BY <1>5 DEF PassedGate
<1>7. b.slots[b.at] = "new"
  BY <1>2, <1>3 DEF Seated
<1>8. \A i \in 1 .. n : b.slots[i] \in {"run", "running", "checked"} => ~Writes(b.calls[i])
  BY <1>2, <1>7 DEF HookRan
<1>9. \A i \in 1 .. n : b.slots[i] # "checked"
  BY <1>2, <1>8 DEF HookRan
<1> QED
  BY <1>2, <1>3, <1>6, <1>8, <1>9 DEF HookRan

\* A call that has its lock and its check: the only one of its batch.
LEMMA ChecksStep ==
  ASSUME NEW r \in AgentRecs, NEW q \in AgentRecs, Seated(r), HookRan(r),
         NEW i, SlotMoves(r, q, i, "checked"), Writes(r.batch.calls[i])
  PROVE  /\ HookRan(q) /\ q.batch.pending = r.batch.pending /\ q.batch.calls = r.batch.calls
         /\ \A k \in DOMAIN q.batch.calls : q.batch.slots[k] = "checked" => k = i
<1> DEFINE b == r.batch
           d == q.batch
           n == Len(b.calls)
<1>1. b \in BatchRecs /\ d \in BatchRecs
  BY DEF AgentRecs
<1>2. n \in Nat /\ DOMAIN b.calls = 1 .. n /\ b.slots \in Seq(SlotStates)
  BY <1>1, BatchFields
<1>3. DOMAIN b.slots = 1 .. n
  BY <1>2 DEF Seated
<1>4. /\ i \in 1 .. n /\ r.pc = "run" /\ q.pc = "run" /\ d.calls = b.calls
      /\ d.pending = b.pending /\ d.at = b.at
      /\ b.slots[i] \in {"run", "running", "checked"}
      /\ d.slots = [b.slots EXCEPT ![i] = "checked"]
  BY <1>2 DEF SlotMoves
<1>5. d.slots[i] = "checked" /\ \A k \in 1 .. n : k # i => d.slots[k] = b.slots[k]
  BY <1>3, <1>4
<1>6. i = b.at /\ b.pending
  BY <1>2, <1>4 DEF HookRan
<1>7. \A k \in 1 .. n : d.slots[k] = "checked" => k = i
  BY <1>2, <1>5, <1>6 DEF HookRan
<1>8. HookRan(q)
  BY <1>2, <1>4, <1>5, <1>6 DEF HookRan
<1> QED
  BY <1>2, <1>4, <1>7, <1>8

\* When one of its running calls ends, an agent has none left that is checked;
\* and while a call that does not write runs, no checkpoint is pending.
LEMMA EndsUnchecked ==
  ASSUME NEW r \in AgentRecs, NEW q \in AgentRecs, Seated(r), HookRan(r),
         NEW i, NEW s, s # "checked", SlotMoves(r, q, i, s)
  PROVE  /\ \A k \in DOMAIN q.batch.calls : q.batch.slots[k] # "checked"
         /\ q.batch.pending => Writes(r.batch.calls[i])
<1> DEFINE b == r.batch
           d == q.batch
           n == Len(b.calls)
<1>1. b \in BatchRecs /\ d \in BatchRecs
  BY DEF AgentRecs
<1>2. n \in Nat /\ DOMAIN b.calls = 1 .. n /\ b.slots \in Seq(SlotStates)
  BY <1>1, BatchFields
<1>3. DOMAIN b.slots = 1 .. n
  BY <1>2 DEF Seated
<1>4. /\ i \in 1 .. n /\ d.calls = b.calls /\ d.pending = b.pending
      /\ d.slots = [b.slots EXCEPT ![i] = s] /\ (Parallel(b.calls) \/ i = b.at)
  BY <1>2 DEF SlotMoves
<1>5. d.slots[i] = s /\ \A k \in 1 .. n : k # i => d.slots[k] = b.slots[k]
  BY <1>3, <1>4
<1>6. \A k \in 1 .. n : b.slots[k] = "checked" => Writes(b.calls[k]) /\ k = b.at
  BY <1>2 DEF HookRan
<1>7. b.pending => b.at \in 1 .. n /\ Writes(b.calls[b.at])
  BY <1>2 DEF HookRan
<1>8. CASE Parallel(b.calls)
  <2>1. \A k \in 1 .. n : ~Writes(b.calls[k])
    BY <1>2, <1>8, ParallelWritesNot
  <2> QED
    BY <1>2, <1>4, <1>5, <1>6, <1>7, <2>1
<1>9. CASE i = b.at
  BY <1>2, <1>4, <1>5, <1>6, <1>7, <1>9
<1> QED
  BY <1>4, <1>8, <1>9

\* What undoes a call is kept by a step that is calm, of this or another agent.
LEMMA CalmKeeps ==
  ASSUME NEW a, NEW r, NEW q, NEW cks, NEW v, NEW l, NEW o,
         CanUndo(a, r, cks, v, l, o), Calm(r, q), q.read = r.read
  PROVE  CanUndo(a, q, cks, v, l, o)
  BY DEF CanUndo, Calm

\* Every step keeps what it takes to undo a checked write.
LEMMA UndoStep == ToolsInv /\ UndoInv /\ [TCNext]_tcVars => UndoInv'
<1> SUFFICES ASSUME ToolsInv, UndoInv, [TCNext]_tcVars
             PROVE  UndoInv'
  OBVIOUS
<1> DEFINE Good(b) == /\ HookRan(agent'[b])
                      /\ CanUndo(b, agent'[b], saved'[b], file'.version, lock', outside')
           Old(b) == \A k \in DOMAIN saved'[b] : saved'[b][k].pre < fresh'
           Held == /\ file' = file /\ lock' = lock /\ saved' = saved
                   /\ fresh' = fresh /\ outside' = outside
           Goal == UndoInv'
<1>1. ASSUME file'.version < fresh',
             \A b \in Agents : agent'[b].read < fresh' /\ Old(b) /\ Good(b)
      PROVE  Goal
  <2>1. VersionsDrawn'
    BY <1>1 DEF VersionsDrawn
  <2>2. \A b \in Agents : HookRan(agent[b])' /\ Undoable(b)'
    BY <1>1 DEF HookRan, Undoable, CanUndo
  <2> QED
    BY <2>1, <2>2 DEF UndoInv
<1>2. ToolsShape /\ \A b \in Agents : Seated(agent[b]) /\ Gated(agent[b])
  BY DEF ToolsInv
<1>3. /\ fresh \in Nat /\ file.version \in Nat /\ file.version < fresh
      /\ \A b \in Agents : /\ agent[b] \in AgentRecs /\ agent[b].read \in Nat
                           /\ agent[b].read < fresh /\ HookRan(agent[b])
                           /\ CanUndo(b, agent[b], saved[b], file.version, lock, outside)
                           /\ \A k \in DOMAIN saved[b] : saved[b][k].pre < fresh
  BY <1>2 DEF ToolsShape, AgentRecs, UndoInv, VersionsDrawn, Undoable
<1>4. ToolsShape'
  BY ToolsInvStep DEF ToolsInv
<1>5. \A b \in Agents : agent'[b] \in AgentRecs
  BY <1>4 DEF ToolsShape
<1>6. Held /\ agent' = agent => Goal
  BY <1>1, <1>3
<1>7. ASSUME NEW a \in Agents, Alone(a), Eases(agent[a], agent'[a]),
             agent'[a].read = agent[a].read, Held
      PROVE  Goal
  <2>1. HookRan(agent'[a]) /\ Calm(agent[a], agent'[a])
    BY <1>2, <1>3, <1>5, <1>7, EasesStep
  <2>2. Good(a)
    BY <1>3, <1>7, <2>1, CalmKeeps
  <2>3. \A b \in Agents \ {a} : agent'[b] = agent[b]
    BY <1>7 DEF Alone
  <2> QED
    BY <1>1, <1>3, <1>7, <2>2, <2>3
<1> HIDE DEF Goal
<1>8. ASSUME NEW a \in Agents, NEW b \in settings.batches, Decide(a, b)
      PROVE  Goal
  <2>1. Alone(a) /\ agent'[a].read = agent[a].read /\ Eases(agent[a], agent'[a])
    BY <1>2, <1>8, DecideStep DEF Eases
  <2>2. Held
    BY <1>8 DEF Decide
  <2> QED
    BY <1>7, <2>1, <2>2
<1>9. ASSUME Elsewhere
      PROVE  Held
  BY <1>9 DEF Elsewhere
<1>10. ASSUME NEW a \in Agents,
              \/ BeforeCall(a) \/ PolicyGate(a) \/ NotAsked(a) \/ Approves(a) \/ Denies(a)
              \/ PreGuards(a) \/ BatchReturns(a) \/ Vetoed(a) \/ AppendFails(a)
              \/ Cancel(a) \/ TurnExpires(a) \/ WindowSlides(a)
       PROVE  Goal
  <2>1. Elsewhere
    BY <1>10 DEF BeforeCall, PolicyGate, NotAsked, Approves, Denies, PreGuards, BatchReturns,
                 Vetoed, AppendFails, Cancel, TurnExpires, WindowSlides
  <2> DEFINE Eased == Alone(a) /\ agent'[a].read = agent[a].read /\ Eases(agent[a], agent'[a])
  <2>2. ASSUME BeforeCall(a)
        PROVE  Eased
    BY <1>2, <2>2, BeforeStep DEF Eases
  <2>3. ASSUME PolicyGate(a)
        PROVE  Eased
    BY <1>2, <2>3, PolicyStep DEF Eases
  <2>4. ASSUME NotAsked(a) \/ Approves(a)
        PROVE  Eased
    BY <1>2, <2>4, ApprovalStep DEF Eases
  <2>5. ASSUME Denies(a)
        PROVE  Eased
    BY <1>2, <2>5, BlocksTurnsAway DEF Eases, Denies
  <2>6. ASSUME PreGuards(a)
        PROVE  Eased
    BY <1>2, <2>6, GuardStep DEF Eases
  <2>7. ASSUME BatchReturns(a) \/ Vetoed(a) \/ AppendFails(a)
        PROVE  Eased
    BY <1>2, <2>7, DropStep DEF Eases, BatchReturns, Vetoed, AppendFails
  <2>8. ASSUME Cancel(a) \/ TurnExpires(a) \/ WindowSlides(a)
        PROVE  Eased
    BY <1>2, <2>8, ExecStep DEF Eases
  <2> QED
    BY <1>7, <1>9, <1>10, <2>1, <2>2, <2>3, <2>4, <2>5, <2>6, <2>7, <2>8
<1>11. ASSUME NEW a \in Agents, PreHooks(a)
       PROVE  Goal
  <2> DEFINE r == agent[a]
             q == agent'[a]
  <2>1. /\ Alone(a) /\ q.read = r.read
        /\ \/ TurnedAway(r, q) /\ saved' = saved
           \/ /\ PassedGate(r, q, "hook")
              /\ saved' = IF Writes(Call(a)) THEN Checkpointed(a) ELSE saved
    BY <1>2, <1>11, HookStep
  <2>2. UNCHANGED <<file, lock, fresh, outside>>
    BY <1>11 DEF PreHooks
  <2>3. CASE TurnedAway(r, q) /\ saved' = saved
    BY <1>7, <2>1, <2>2, <2>3 DEF Eases
  <2>4. CASE PassedGate(r, q, "hook") /\ saved' = IF Writes(Call(a)) THEN Checkpointed(a) ELSE saved
    <3>1. /\ HookRan(q) /\ (q.batch.pending => Writes(Call(a)))
          /\ \A i \in DOMAIN q.batch.calls : q.batch.slots[i] # "checked"
      BY <1>2, <1>3, <1>5, <2>4, HooksStep DEF Call, Calls, At
    <3>2. Writes(Call(a)) => saved'[a] # <<>> /\ Last(saved'[a]).pre = file.version
      BY <1>2, <2>4, CheckpointIsLast
    <3>3. \A b \in Agents \ {a} : saved'[b] = saved[b] /\ agent'[b] = agent[b]
      BY <1>2, <2>1, <2>4, CheckpointIsLast DEF Alone
    <3>4. \A k \in DOMAIN saved'[a] : saved'[a][k].pre < fresh
      BY <1>2, <1>3, <2>4, CheckpointIsLast
    <3>5. Good(a)
      BY <2>2, <3>1, <3>2 DEF CanUndo
    <3> QED
      BY <1>1, <1>3, <2>1, <2>2, <3>3, <3>4, <3>5
  <2> QED
    BY <2>1, <2>3, <2>4
<1>12. ASSUME NEW a \in Agents, NEW i, Refuses(a, i) \/ Starts(a, i) \/ Returns(a, i)
       PROVE  Goal
  <2>1. PICK s \in {"failed", "running", "ok"} : Becomes(a, i, s)
    BY <1>12 DEF Refuses, Starts, Returns
  <2>2. Turn(a, i) /\ Slot(a, i) \in {"run", "running", "checked"} /\ Elsewhere
    BY <1>12 DEF Refuses, Starts, Returns
  <2>3. /\ Alone(a) /\ agent'[a].read = agent[a].read
        /\ s # "checked" /\ SlotMoves(agent[a], agent'[a], i, s)
    BY <1>2, <2>1, <2>2, BecomesStep
  <2> QED
    BY <1>7, <1>9, <2>2, <2>3 DEF Eases
<1>13. ASSUME NEW a \in Agents, NEW i, Interrupted(a, i)
       PROVE  Goal
  <2> DEFINE r == agent[a]
             q == agent'[a]
  <2>1. /\ Alone(a) /\ q.read = r.read /\ SlotMoves(r, q, i, "failed")
    BY <1>2, <1>13, BecomesStep DEF Interrupted
  <2>2. UNCHANGED <<file, saved, fresh, outside>> /\ lock' = IF lock = a THEN Nobody ELSE lock
    BY <1>13 DEF Interrupted
  <2>3. HookRan(q) /\ Calm(r, q)
    BY <1>2, <1>3, <1>5, <2>1, EasesStep DEF Eases
  <2>4. \A k \in DOMAIN q.batch.calls : q.batch.slots[k] # "checked"
    BY <1>2, <1>3, <1>5, <2>1, EndsUnchecked
  <2>5. Good(a)
    BY <1>3, <2>1, <2>2, <2>3, <2>4 DEF CanUndo, Calm
  <2>6. ASSUME NEW b \in Agents \ {a} PROVE agent'[b] = agent[b] /\ Good(b)
    BY <1>3, <2>1, <2>2 DEF CanUndo, Alone
  <2> QED
    BY <1>1, <1>3, <2>1, <2>2, <2>5, <2>6
<1>14. ASSUME NEW a \in Agents, NEW i, Reads(a, i)
       PROVE  Goal
  <2> DEFINE r == agent[a]
             q == agent'[a]
  <2>1. /\ Alone(a) /\ q.read = file.version /\ SlotMoves(r, q, i, "ok")
    BY <1>2, <1>14, ReadStep
  <2>2. Held /\ r.batch.calls[i] = "read"
    BY <1>9, <1>14 DEF Reads, Calls
  <2>3. HookRan(q)
    BY <1>2, <1>3, <1>5, <2>1, EasesStep DEF Eases
  <2>4. /\ \A k \in DOMAIN q.batch.calls : q.batch.slots[k] # "checked"
        /\ ~q.batch.pending
    BY <1>2, <1>3, <1>5, <2>1, <2>2, EndsUnchecked DEF Writes
  <2>5. Good(a)
    BY <2>3, <2>4 DEF CanUndo
  <2>6. \A b \in Agents \ {a} : agent'[b] = agent[b]
    BY <2>1 DEF Alone
  <2> QED
    BY <1>1, <1>3, <2>1, <2>2, <2>5, <2>6
<1>15. ASSUME NEW a \in Agents, NEW i, LocksAndChecks(a, i)
       PROVE  Goal
  <2> DEFINE r == agent[a]
             q == agent'[a]
  <2>1. /\ Turn(a, i) /\ Slot(a, i) \in {"run", "running", "checked"} /\ lock = Nobody
        /\ Writes(r.batch.calls[i]) /\ UNCHANGED <<file, saved, fresh, outside>>
    BY <1>15 DEF LocksAndChecks, LockIsFree, Calls
  <2>2. CASE HashAgrees(a, i)
    <3>1. lock' = a /\ Becomes(a, i, "checked")
      BY <1>15, <2>2 DEF LocksAndChecks
    <3>2. Alone(a) /\ q.read = r.read /\ SlotMoves(r, q, i, "checked")
      BY <1>2, <2>1, <3>1, BecomesStep
    <3>3. /\ HookRan(q) /\ q.batch.pending = r.batch.pending /\ q.batch.calls = r.batch.calls
          /\ \A k \in DOMAIN q.batch.calls : q.batch.slots[k] = "checked" => k = i
      BY <1>2, <1>3, <1>5, <2>1, <3>2, ChecksStep
    <3>4. r.batch.calls[i] = "safe" => file.version = r.read
      BY <2>2 DEF HashAgrees, Calls
    <3>5. Good(a)
      BY <1>3, <2>1, <3>1, <3>2, <3>3, <3>4 DEF CanUndo
    <3>6. ASSUME NEW b \in Agents \ {a} PROVE agent'[b] = agent[b] /\ Good(b)
      <4>1. agent'[b] = agent[b] /\ lock # b
        BY <2>1, <3>2, ToolCallsAssumption DEF Alone
      <4> QED
        BY <1>3, <2>1, <4>1 DEF CanUndo
    <3> QED
      BY <1>1, <1>3, <2>1, <3>2, <3>5, <3>6
  <2>3. CASE ~HashAgrees(a, i)
    <3>1. lock' = Nobody /\ Becomes(a, i, "failed")
      BY <1>15, <2>3 DEF LocksAndChecks
    <3>2. Alone(a) /\ q.read = r.read /\ SlotMoves(r, q, i, "failed")
      BY <1>2, <2>1, <3>1, BecomesStep
    <3> QED
      BY <1>7, <2>1, <3>1, <3>2 DEF Eases
  <2> QED
    BY <2>2, <2>3
<1>16. ASSUME NEW a \in Agents, NEW i, Replaces(a, i)
       PROVE  Goal
  <2> DEFINE r == agent[a]
             q == agent'[a]
  <2>1. /\ Turn(a, i) /\ Slot(a, i) = "checked" /\ file'.version = fresh /\ fresh' = fresh + 1
        /\ lock' = Nobody /\ saved' = saved /\ outside' = outside
        /\ \E s \in {"ok", "failed"} : Becomes(a, i, s)
    BY <1>16 DEF Replaces, Renamed
  <2>2. PICK s \in {"ok", "failed"} : Becomes(a, i, s)
    BY <2>1
  <2>3. Alone(a) /\ q.read = r.read /\ SlotMoves(r, q, i, s) /\ s # "checked"
    BY <1>2, <2>1, <2>2, BecomesStep
  <2>4. HookRan(q) /\ Calm(r, q)
    BY <1>2, <1>3, <1>5, <2>3, EasesStep DEF Eases
  <2>5. \A k \in DOMAIN q.batch.calls : q.batch.slots[k] # "checked"
    BY <1>2, <1>3, <1>5, <2>3, EndsUnchecked
  <2>6. Good(a)
    BY <1>3, <2>1, <2>3, <2>4, <2>5 DEF CanUndo, Calm
  <2>7. lock = a
    <3>1. i \in DOMAIN r.batch.calls /\ r.batch.slots[i] = "checked"
      BY <2>1 DEF Turn, Calls, Slot
    <3> QED
      BY <1>3, <3>1 DEF CanUndo
  <2>8. ASSUME NEW b \in Agents \ {a} PROVE agent'[b] = agent[b] /\ Good(b)
    <3>1. agent'[b] = agent[b] /\ lock # b
      BY <2>3, <2>7 DEF Alone
    <3> QED
      BY <1>3, <2>1, <3>1 DEF CanUndo
  <2>9. \A b \in Agents : agent'[b].read < fresh' /\ Old(b)
    <3>1. \A b \in Agents : agent'[b].read = agent[b].read
      BY <2>3 DEF Alone
    <3>2. \A b \in Agents : agent'[b].read < fresh'
      BY <1>3, <2>1, <3>1
    <3>3. ASSUME NEW b \in Agents, NEW k \in DOMAIN saved[b] PROVE saved[b][k].pre < fresh + 1
      <4>1. saved[b] \in Seq(Checkpoints)
        BY <1>2 DEF ToolsShape, Checkpoints
      <4>2. saved[b][k] \in Checkpoints
        BY <4>1
      <4>3. saved[b][k].pre \in Nat
        BY <4>2 DEF Checkpoints
      <4> QED
        BY <1>3, <4>3
    <3> QED
      BY <2>1, <3>2, <3>3
  <2>10. file'.version < fresh'
    BY <1>3, <2>1
  <2> QED
    BY <1>1, <2>6, <2>8, <2>9, <2>10
<1>17. ASSUME NEW a \in Agents, Finalize(a)
       PROVE  Goal
  <2> DEFINE r == agent[a]
             q == agent'[a]
  <2>1. Alone(a) /\ q.read = r.read /\ Finalized(r, q)
    BY <1>2, <1>17, FinalizeStep
  <2>2. UNCHANGED <<file, lock, fresh, outside>> /\ saved' = PostHooked(a)
    BY <1>17 DEF Finalize
  <2>3. HookRan(q) /\ Calm(r, q) /\ ~q.batch.pending
    BY <1>2, <1>3, <1>5, <2>1, EasesStep DEF Eases, Finalized
  <2>4. Good(a)
    BY <1>3, <2>1, <2>2, <2>3 DEF CanUndo, Calm
  <2>5. \A b \in Agents \ {a} : agent'[b] = agent[b] /\ saved'[b] = saved[b]
    BY <1>2, <2>1, <2>2, PostHookKeeps DEF Alone
  <2>6. \A b \in Agents : Old(b)
    BY <1>2, <1>3, <2>2, PostHookKeeps
  <2> QED
    BY <1>1, <1>3, <2>1, <2>2, <2>4, <2>5, <2>6
<1>18. ASSUME agent' = agent, saved' = saved, lock' = lock, NoticedBy, file'.version < fresh',
              fresh' \in Nat, fresh <= fresh'
       PROVE  Goal
  <2>1. ASSUME NEW b \in Agents PROVE Good(b)
    <3>1. agent[b].batch.pending => outside'
      BY <1>18 DEF NoticedBy
    <3>2. \A i \in DOMAIN agent[b].batch.calls :
            agent[b].batch.slots[i] = "checked" => agent[b].batch.pending /\ lock = b
      BY <1>3 DEF HookRan, CanUndo
    <3> QED
      BY <1>3, <1>18, <3>1, <3>2 DEF CanUndo
  <2>2. ASSUME NEW b \in Agents PROVE agent'[b].read < fresh' /\ Old(b)
    <3>1. agent[b].read < fresh'
      BY <1>3, <1>18
    <3>2. ASSUME NEW k \in DOMAIN saved[b] PROVE saved[b][k].pre < fresh'
      <4>1. saved[b] \in Seq(Checkpoints)
        BY <1>2 DEF ToolsShape, Checkpoints
      <4>2. saved[b][k] \in Checkpoints
        BY <4>1
      <4>3. saved[b][k].pre \in Nat
        BY <4>2 DEF Checkpoints
      <4> QED
        BY <1>3, <1>18, <4>3
    <3> QED
      BY <1>18, <3>1, <3>2
  <2> QED
    BY <1>1, <1>18, <2>1, <2>2
<1>19. ASSUME Edited
       PROVE  Goal
  <2>1. file'.version < fresh' /\ fresh' \in Nat /\ fresh <= fresh'
    BY <1>3, <1>19 DEF Edited
  <2> QED
    BY <1>18, <1>19, <2>1 DEF Edited
<1>20. ASSUME NEW a \in Agents, Restore(a)
       PROVE  Goal
  <2>1. saved[a] \in Seq(Checkpoints) /\ saved[a] # <<>>
    BY <1>2, <1>20 DEF Restore, ToolsShape, Checkpoints
  <2>2. Len(saved[a]) \in DOMAIN saved[a] /\ Last(saved[a]) = saved[a][Len(saved[a])]
    BY <2>1 DEF Last
  <2>3. Last(saved[a]).pre < fresh
    BY <1>3, <2>2
  <2>4. file'.version < fresh' /\ fresh' \in Nat /\ fresh <= fresh'
    BY <1>3, <1>20, <2>3 DEF Restore
  <2> QED
    BY <1>18, <1>20, <2>4 DEF Restore
<1>21. ASSUME Tick
       PROVE  Goal
  BY <1>6, <1>21 DEF Tick
<1>22. ASSUME TCNext
       PROVE  Goal
  BY <1>8, <1>10, <1>11, <1>12, <1>13, <1>14, <1>15, <1>16, <1>17, <1>19, <1>20, <1>21, <1>22
     DEF TCNext, Engine, ToolRuns
<1>23. ASSUME UNCHANGED tcVars
       PROVE  Goal
  BY <1>6, <1>23 DEF tcVars
<1> QED
  BY <1>22, <1>23 DEF Goal

\* At the start nothing is pending.
LEMMA UndoInitially == TCInit => UndoInv
<1> SUFFICES ASSUME TCInit
             PROVE  UndoInv
  OBVIOUS
<1>1. VersionsDrawn
  BY DEF TCInit, VersionsDrawn, Unread
<1>2. ASSUME NEW a \in Agents PROVE HookRan(agent[a]) /\ Undoable(a)
  <2>1. agent[a].pc = "idle" /\ agent[a].batch = NoBatch
    BY DEF TCInit
  <2> QED
    BY <2>1, NoBatchShape DEF HookRan, Undoable, CanUndo
<1> QED
  BY <1>1, <1>2 DEF UndoInv

\* A write that names the hash of what it read replaces that version and no
\* other agent's, and the newest checkpoint of its session is of the version it
\* replaces, for any number of agents, calls and checkpoints kept.
THEOREM CheckedUndoable == TCSpec => CheckedCanBeUndone
<1>1. ASSUME ToolsInv, UndoInv, NEW a \in Agents, NEW i \in DOMAIN Calls(a),
             Calls(a)[i] = "safe", Replacing(a, i), ~outside
      PROVE  /\ file.version = agent[a].read
             /\ saved[a] # <<>> /\ Last(saved[a]).pre = file.version
  <2> DEFINE r == agent[a]
             b == r.batch
  <2>1. i \in DOMAIN b.calls /\ b.slots[i] = "checked" /\ b.calls[i] = "safe"
    BY <1>1 DEF Replacing, Replaces, Calls, Slot
  <2>2. HookRan(r) /\ CanUndo(a, r, saved[a], file.version, lock, outside)
    BY <1>1 DEF UndoInv, Undoable
  <2>3. b.pending /\ file.version = r.read
    BY <1>1, <2>1, <2>2 DEF HookRan, CanUndo, Writes
  <2>4. file.version \in Nat
    BY <1>1 DEF ToolsInv, ToolsShape
  <2> QED
    BY <1>1, <2>2, <2>3, <2>4 DEF CanUndo
<1>2. ToolsInv /\ UndoInv /\ [TCNext]_tcVars =>
        [\A a \in Agents : \A i \in DOMAIN Calls(a) :
           (Calls(a)[i] = "safe" /\ Replacing(a, i) /\ ~outside)
             => /\ file.version = agent[a].read
                /\ saved[a] # <<>> /\ Last(saved[a]).pre = file.version]_tcVars
  BY <1>1
<1> QED
  BY <1>2, ToolsInitially, ToolsInvStep, UndoInitially, UndoStep, PTL
     DEF TCSpec, CheckedCanBeUndone

-----------------------------------------------------------------------------
(***************************************************************************)
(* Approval cards.                                                         *)
(***************************************************************************)
Requests == [call : ToolCallsAsked, verdict : Verdicts, yes : BOOLEAN,
             marks : Seq(BOOLEAN)]

CardsShape ==
    /\ asked \in Seq(Requests)
    /\ waiting \in 0 .. Len(asked)
    /\ channel \in Seq(Nat \ {0})
    /\ cards \in Seq(Nat \ {0})

\* Whatever the approver's caches hold, the operator agreed to: the tools
\* without a command, the prefixes to these very words, of which there is at
\* least one.
CachesConsented ==
    /\ always = [tools |-> always.tools, prefixes |-> always.prefixes]
    /\ \A t \in always.tools : [tool |-> t, scope |-> <<>>] \in consents
    /\ \A p \in always.prefixes : p # <<>> /\ \E c \in consents : c.scope = p

CardsInv == CardsShape /\ CachesConsented /\ OnlyConsentedRuns

\* A function on 1 .. n is a sequence.
LEMMA IsSequence ==
    ASSUME NEW S, NEW n \in Nat, NEW f \in [1 .. n -> S]
    PROVE  f \in Seq(S)
  OBVIOUS

\* A verdict leaves the calls and the other verdicts as they are.
LEMMA VerdictKeeps ==
    ASSUME CardsShape, NEW n \in 1 .. Len(asked), NEW v \in Verdicts
    PROVE  /\ Verdict(n, v) \in Seq(Requests)
           /\ Len(Verdict(n, v)) = Len(asked)
           /\ \A k \in 1 .. Len(asked) \ {n} : Verdict(n, v)[k] = asked[k]
           /\ Verdict(n, v)[n].verdict = v
           /\ Verdict(n, v)[n].yes = (v = "allowed")
<1> DEFINE r == [asked[n] EXCEPT !.verdict = v, !.yes = (v = "allowed")]
<1>1. asked[n] \in Requests
  BY DEF CardsShape
<1>2. r \in Requests /\ r.verdict = v /\ r.yes = (v = "allowed")
  BY <1>1 DEF Requests
<1>3. Verdict(n, v) = [asked EXCEPT ![n] = r]
  BY <1>1 DEF Verdict, CardsShape, Requests
<1> HIDE DEF r
<1> QED
  BY <1>2, <1>3 DEF CardsShape

\* Consents only grow, so what was consented to stays so; a new verdict that
\* allows is the operator's own yes.
LEMMA RunsStayConsented ==
    ASSUME CardsShape, OnlyConsentedRuns, consents \subseteq consents',
           \/ asked' = asked
           \/ \E n \in 1 .. Len(asked), v \in Verdicts : asked' = Verdict(n, v)
    PROVE  OnlyConsentedRuns'
<1>1. DOMAIN asked = 1 .. Len(asked)
  BY DEF CardsShape
<1>2. CASE asked' = asked
  BY <1>2 DEF OnlyConsentedRuns
<1>3. ASSUME NEW n \in 1 .. Len(asked), NEW v \in Verdicts, asked' = Verdict(n, v)
      PROVE  OnlyConsentedRuns'
  <2>1. /\ DOMAIN asked' = 1 .. Len(asked)
        /\ \A k \in 1 .. Len(asked) \ {n} : asked'[k] = asked[k]
        /\ asked'[n].verdict = "allowed" => asked'[n].yes
    <3>1. /\ asked' \in Seq(Requests) /\ Len(asked') = Len(asked)
          /\ \A k \in 1 .. Len(asked) \ {n} : asked'[k] = asked[k]
          /\ asked'[n].verdict = v /\ asked'[n].yes = (v = "allowed")
      BY <1>3, VerdictKeeps
    <3>2. DOMAIN asked' = 1 .. Len(asked')
      BY <3>1
    <3> QED
      BY <3>1, <3>2
  <2> QED
    BY <1>1, <2>1 DEF OnlyConsentedRuns
<1> QED
  BY <1>2, <1>3

\* An answer moves the queue of cards and gives one verdict at most.
LEMMA AnswerMoves ==
    ASSUME CardsShape, cards # <<>>, NEW v \in Verdicts, Answers(Head(cards), v)
    PROVE  /\ CardsShape'
           /\ \/ asked' = asked
              \/ \E n \in 1 .. Len(asked) : asked' = Verdict(n, v)
<1>1. Head(cards) \in Nat \ {0} /\ Tail(cards) \in Seq(Nat \ {0})
  BY DEF CardsShape
<1>2. CASE waiting = Head(cards)
  <2>1. waiting \in 1 .. Len(asked)
    BY <1>1, <1>2 DEF CardsShape
  <2>2. asked' = Verdict(waiting, v) /\ waiting' = 0
    BY <1>2 DEF Answers
  <2>3. asked' \in Seq(Requests) /\ Len(asked') = Len(asked)
    BY <2>1, <2>2, VerdictKeeps
  <2> QED
    BY <1>1, <2>1, <2>2, <2>3 DEF Answers, CardsShape
<1>3. CASE waiting # Head(cards)
  BY <1>1, <1>3 DEF Answers, CardsShape
<1> QED
  BY <1>2, <1>3

\* The segment an "always" is about is one of the call's.
LEMMA ScopeIsSegment ==
    ASSUME NEW a \in Requests, a.call.segs # <<>>
    PROVE  ScopeOf(a) \in Seq(STRING)
<1> DEFINE first == {n \in Unmarked(a) : \A k \in Unmarked(a) : n <= k}
           spot == IF first = {} THEN Len(a.call.segs) ELSE CHOOSE n \in first : TRUE
<1>1. a.call.segs \in Seq(Seq(STRING))
  BY CardsAssumption DEF Requests
<1>2. first \subseteq DOMAIN a.call.segs
  BY DEF Unmarked
<1>3. spot \in DOMAIN a.call.segs
  BY <1>1, <1>2
<1>4. ScopeOf(a) = a.call.segs[spot]
  BY DEF ScopeOf
<1> HIDE DEF spot
<1> QED
  BY <1>1, <1>3, <1>4

\* A prefix of w >= 1 of its words holds a word.
LEMMA ScopeNotEmpty ==
    ASSUME NEW s \in Seq(STRING), NEW w \in 1 .. Len(s)
    PROVE  SubSeq(s, 1, w) # <<>>
<1>1. Len(SubSeq(s, 1, w)) = w
  OBVIOUS
<1> QED
  BY <1>1

\* A call without a card is covered by what the caches hold.
LEMMA RequestKeeps ==
    ASSUME CardsInv, NEW c \in ToolCallsAsked, RequestApproval(c)
    PROVE  CardsInv'
<1> DEFINE marks(shown) == [n \in DOMAIN c.segs |-> shown /\ Authorized(c.segs[n])]
           new(v, shown) == [call |-> c, verdict |-> v, yes |-> FALSE, marks |-> marks(shown)]
<1>1. c.segs \in Seq(Seq(STRING))
  BY CardsAssumption
<1>2. ASSUME NEW v \in Verdicts, NEW shown \in BOOLEAN
      PROVE  new(v, shown) \in Requests
  <2>1. marks(shown) \in [DOMAIN c.segs -> BOOLEAN]
    BY Zenon
  <2>2. DOMAIN c.segs = 1 .. Len(c.segs) /\ Len(c.segs) \in Nat
    BY <1>1
  <2> HIDE DEF marks
  <2>3. marks(shown) \in Seq(BOOLEAN)
    BY <2>1, <2>2, IsSequence
  <2> QED
    BY <2>3 DEF Requests
<1>3. CASE Skips(c) /\ asked' = Asked(c, "allowed", FALSE) /\ UNCHANGED <<waiting, channel>>
  <2> DEFINE r == new("allowed", FALSE)
  <2>1. r \in Requests /\ r.call = c
    BY <1>2 DEF Verdicts
  <2>2. asked' = Append(asked, r)
    BY <1>3 DEF Asked
  <2>3. \/ [tool |-> c.tool, scope |-> <<>>] \in consents
        \/ /\ c.segs # <<>>
           /\ \A k \in DOMAIN c.segs :
                \E g \in consents : g.scope # <<>> /\ Covers(g.scope, c.segs[k])
    BY <1>3 DEF Skips, Authorized, CardsInv, CachesConsented
  <2> HIDE DEF r
  <2>4. asked' \in Seq(Requests) /\ Len(asked') = Len(asked) + 1
    BY <2>1, <2>2 DEF CardsInv, CardsShape
  <2>5. /\ DOMAIN asked = 1 .. Len(asked) /\ DOMAIN asked' = 1 .. Len(asked) + 1
        /\ \A k \in 1 .. Len(asked) : asked'[k] = asked[k]
        /\ asked'[Len(asked) + 1] = r /\ Len(asked) \in Nat
    BY <2>1, <2>2, <2>4 DEF CardsInv, CardsShape
  <2>6. consents' = consents /\ always' = always /\ cards' = cards
    BY DEF RequestApproval
  <2>7. OnlyConsentedRuns'
    <3> SUFFICES ASSUME NEW n \in DOMAIN asked',
                        asked'[n].verdict = "allowed", ~asked'[n].yes
                 PROVE  \/ [tool |-> asked'[n].call.tool, scope |-> <<>>] \in consents
                        \/ /\ asked'[n].call.segs # <<>>
                           /\ \A k \in DOMAIN asked'[n].call.segs :
                                \E g \in consents : g.scope # <<>>
                                   /\ Covers(g.scope, asked'[n].call.segs[k])
      BY <2>6 DEF OnlyConsentedRuns
    <3>1. CASE n = Len(asked) + 1
      BY <2>1, <2>3, <2>5, <3>1
    <3>2. CASE n \in 1 .. Len(asked)
      BY <2>5, <3>2 DEF CardsInv, OnlyConsentedRuns
    <3> QED
      BY <2>5, <3>1, <3>2
  <2>8. CardsShape'
    <3>1. waiting' = waiting /\ channel' = channel
      BY <1>3
    <3>2. waiting \in 0 .. Len(asked')
      BY <2>4, <2>5 DEF CardsInv, CardsShape
    <3> QED
      BY <2>4, <2>6, <3>1, <3>2 DEF CardsInv, CardsShape
  <2> QED
    BY <2>6, <2>7, <2>8 DEF CardsInv, CachesConsented
<1>4. CASE /\ asked' = Asked(c, "waiting", TRUE)
           /\ waiting' = Len(asked')
           /\ channel' = Append(channel, Len(asked'))
  <2> DEFINE r == new("waiting", TRUE)
  <2>1. r \in Requests /\ r.verdict = "waiting"
    BY <1>2 DEF Verdicts
  <2>2. asked' = Append(asked, r)
    BY <1>4 DEF Asked
  <2> HIDE DEF r
  <2>4. asked' \in Seq(Requests) /\ Len(asked') = Len(asked) + 1 /\ Len(asked) \in Nat
    BY <2>1, <2>2 DEF CardsInv, CardsShape
  <2>5. /\ DOMAIN asked = 1 .. Len(asked) /\ DOMAIN asked' = 1 .. Len(asked) + 1
        /\ \A k \in 1 .. Len(asked) : asked'[k] = asked[k]
        /\ asked'[Len(asked) + 1] = r
    BY <2>1, <2>2, <2>4 DEF CardsInv, CardsShape
  <2>6. consents' = consents /\ always' = always /\ cards' = cards
    BY DEF RequestApproval
  <2>7. OnlyConsentedRuns'
    BY <2>1, <2>5, <2>6 DEF CardsInv, OnlyConsentedRuns
  <2>8. CardsShape'
    <3> DEFINE k == Len(asked')
    <3>1. waiting' = k /\ channel' = Append(channel, k)
      BY <1>4
    <3>2. k \in Nat \ {0}
      BY <2>4
    <3> HIDE DEF k
    <3>3. channel' \in Seq(Nat \ {0}) /\ waiting' \in 0 .. k
      BY <3>1, <3>2 DEF CardsInv, CardsShape
    <3> QED
      BY <2>4, <2>6, <3>3 DEF CardsInv, CardsShape, k
  <2> QED
    BY <2>6, <2>7, <2>8 DEF CardsInv, CachesConsented
<1> QED
  BY <1>3, <1>4 DEF RequestApproval

\* An "always" enters the cache and the operator's consents together, and only
\* while the call of its card is waiting.
LEMMA AlwaysKeeps ==
    ASSUME CardsInv, AllowAlways
    PROVE  CardsInv'
<1> DEFINE n == Head(cards)
           c == asked[n].call
<1>1. cards # <<>> /\ Answers(n, "allowed")
  BY DEF AllowAlways
<1>2. /\ CardsShape'
      /\ \/ asked' = asked
         \/ \E k \in 1 .. Len(asked) : asked' = Verdict(k, "allowed")
  BY <1>1, AnswerMoves DEF CardsInv, Verdicts
<1>3. CachesConsented' /\ consents \subseteq consents'
  <2>1. CASE waiting # n
    BY <2>1 DEF AllowAlways, Grants, CardsInv, CachesConsented
  <2>2. CASE waiting = n /\ c.segs = <<>>
    <3>1. /\ always' = [always EXCEPT !.tools = @ \cup {c.tool}]
          /\ consents' = consents \cup {[tool |-> c.tool, scope |-> <<>>]}
      BY <2>2 DEF AllowAlways, Grants
    <3> QED
      BY <3>1 DEF CardsInv, CachesConsented
  <2>3. CASE waiting = n /\ c.segs # <<>>
    <3> DEFINE s == ScopeOf(asked[n])
    <3>1. PICK w \in 1 .. Len(s) :
             /\ always' = [always EXCEPT !.prefixes = @ \cup {SubSeq(s, 1, w)}]
             /\ consents' = consents \cup {[tool |-> c.tool, scope |-> SubSeq(s, 1, w)]}
      BY <2>3 DEF AllowAlways, Grants
    <3>2. n \in 1 .. Len(asked)
      BY <1>1, <2>3 DEF CardsInv, CardsShape
    <3>3. asked[n] \in Requests
      BY <3>2 DEF CardsInv, CardsShape
    <3>4. SubSeq(s, 1, w) # <<>>
      BY <2>3, <3>3, ScopeIsSegment, ScopeNotEmpty
    <3> DEFINE g == [tool |-> c.tool, scope |-> SubSeq(s, 1, w)]
    <3>5. g \in consents' /\ g.scope = SubSeq(s, 1, w)
      BY <3>1
    <3>6. /\ always'.tools = always.tools
          /\ always'.prefixes = always.prefixes \cup {SubSeq(s, 1, w)}
          /\ always' = [tools |-> always'.tools, prefixes |-> always'.prefixes]
      BY <3>1 DEF CardsInv, CachesConsented
    <3> HIDE DEF g
    <3>7. consents \subseteq consents'
      BY <3>1
    <3> HIDE DEF s
    <3> QED
      BY <3>4, <3>5, <3>6, <3>7 DEF CardsInv, CachesConsented
  <2> QED
    BY <2>1, <2>2, <2>3
<1>4. OnlyConsentedRuns'
  BY <1>2, <1>3, RunsStayConsented DEF CardsInv, Verdicts
<1> QED
  BY <1>2, <1>3, <1>4 DEF CardsInv

\* Every step of the approver and of the interface keeps the invariant.
LEMMA CardsStep == CardsInv /\ [CardsNext]_cardVars => CardsInv'
<1> SUFFICES ASSUME CardsInv, [CardsNext]_cardVars
             PROVE  CardsInv'
  OBVIOUS
<1>1. ASSUME NEW c \in ToolCallsAsked, RequestApproval(c)
      PROVE  CardsInv'
  BY <1>1, RequestKeeps
<1>2. CASE ShowCard
  <2>1. Head(channel) \in Nat \ {0} /\ Tail(channel) \in Seq(Nat \ {0})
    BY <1>2 DEF ShowCard, CardsInv, CardsShape
  <2> QED
    BY <1>2, <2>1 DEF ShowCard, CardsInv, CardsShape, CachesConsented, OnlyConsentedRuns
<1>3. ASSUME NEW v \in Verdicts, cards # <<>>, Answers(Head(cards), v),
             UNCHANGED <<always, consents>>
      PROVE  CardsInv'
  <2>1. OnlyConsentedRuns'
    BY <1>3, AnswerMoves, RunsStayConsented DEF CardsInv
  <2> QED
    BY <1>3, <2>1, AnswerMoves DEF CardsInv, CachesConsented
<1>4. CASE AllowOnce \/ RejectCard
  BY <1>3, <1>4 DEF AllowOnce, RejectCard, Verdicts
<1>5. CASE AllowAlways
  BY <1>5, AlwaysKeeps
<1>6. CASE TimeOut
  <2>1. waiting \in 1 .. Len(asked) /\ asked' = Verdict(waiting, "denied") /\ waiting' = 0
    BY <1>6 DEF TimeOut, CardsInv, CardsShape
  <2>2. asked' \in Seq(Requests) /\ Len(asked') = Len(asked)
    BY <2>1, VerdictKeeps DEF CardsInv, Verdicts
  <2>3. OnlyConsentedRuns'
    BY <1>6, <2>1, RunsStayConsented DEF TimeOut, CardsInv, Verdicts
  <2> QED
    BY <1>6, <2>1, <2>2, <2>3 DEF TimeOut, CardsInv, CardsShape, CachesConsented
<1>7. CASE DenyUnanswered
  BY <1>7 DEF DenyUnanswered, CardsInv, CardsShape, CachesConsented, OnlyConsentedRuns
<1>8. CASE UNCHANGED cardVars
  BY <1>8 DEF cardVars, CardsInv, CardsShape, CachesConsented, OnlyConsentedRuns
<1> QED
  BY <1>1, <1>2, <1>4, <1>5, <1>6, <1>7, <1>8 DEF CardsNext

\* No call runs but on the operator's word, whatever commands are asked for and
\* however late the answers come (request_approval, command_gate, record).
THEOREM OnlyConsented == CardsSpec => []OnlyConsentedRuns
<1>1. CardsInit => CardsInv
  BY DEF CardsInit, CardsInv, CardsShape, CachesConsented, OnlyConsentedRuns
<1>2. CardsInv => OnlyConsentedRuns
  BY DEF CardsInv
<1> QED
  BY <1>1, <1>2, CardsStep, PTL DEF CardsSpec

-----------------------------------------------------------------------------
(***************************************************************************)
(* MCP servers.  That the line a call reads is its own follows from what   *)
(* the pipe may hold.  The provider's mutex lets one call at a time use    *)
(* the transport, a transport at rest is empty because every call that     *)
(* breaks off terminates it, and a call has one request outstanding.       *)
(***************************************************************************)
Phases == {"initialize", "tools_list", "call"}

Pipe(alive, todo, out) == [alive |-> alive, todo |-> todo, lines |-> out]

CallsShape ==
    /\ mcall \in [McpCalls -> Phases \cup {"new", "done"}]
    /\ answer \in [McpCalls -> McpCalls \cup {"none"}]

\* Nothing is left in the pipe behind a call.
Drained == \E alive : pipe = Pipe(alive, <<>>, <<>>)

\* The pipe holds the exchange of call c: its request, or the line that
\* answers it.
Exchange(c) ==
    \E alive, m : /\ m.for = c /\ m.id \in Nat
                  /\ pipe \in {Pipe(alive, <<m>>, <<>>), Pipe(alive, <<>>, <<m>>)}

\* The mutex of McpToolProvider, and what is in the pipe with and without it.
InStep ==
    /\ \A c, d \in McpCalls : InCall(c) /\ InCall(d) => c = d
    /\ LockFree => Drained
    /\ \A c \in McpCalls : InCall(c) => Exchange(c)

McpInv == CallsShape /\ InStep /\ AnswerIsToThisCall

\* A request written to an empty pipe is an exchange (StdioTransport::send).
LEMMA SentAlone ==
    ASSUME NEW c \in McpCalls, NEW step \in Phases, NEW alive,
           pipe' = Sends(Pipe(alive, <<>>, <<>>), c, step)
    PROVE  Exchange(c)'
<1> DEFINE m == Line(RequestId(step), c, TRUE)
<1>1. m.for = c /\ m.id \in Nat
  BY DEF Line, RequestId, Phases
<1>2. Sends(Pipe(alive, <<>>, <<>>), c, step)
        = [Pipe(alive, <<>>, <<>>) EXCEPT !.todo = Append(Pipe(alive, <<>>, <<>>).todo, m)]
  BY DEF Sends
<1> HIDE DEF m
<1>3. [Pipe(alive, <<>>, <<>>) EXCEPT !.todo = Append(Pipe(alive, <<>>, <<>>).todo, m)]
        = Pipe(alive, <<m>>, <<>>)
  BY DEF Pipe
<1>4. pipe' = Pipe(alive, <<m>>, <<>>)
  BY <1>2, <1>3
<1>5. QED BY <1>1, <1>4 DEF Exchange

\* The call that holds the mutex, when one has just taken or kept it.
LEMMA HeldBy ==
    ASSUME CallsShape, NEW c \in McpCalls, NEW step \in Phases,
           mcall' = [mcall EXCEPT ![c] = step],
           \A d \in McpCalls : InCall(d) => d = c
    PROVE  \A d \in McpCalls : InCall(d)' <=> d = c
BY DEF CallsShape, InCall, Phases

\* While one call holds it, the pipe holds that call's exchange.
LEMMA HeldStep ==
    ASSUME NEW c \in McpCalls, \A d \in McpCalls : InCall(d)' <=> d = c, Exchange(c)'
    PROVE  InStep'
BY DEF InStep, LockFree

\* The provider starts with an empty pipe and no call.
LEMMA McpInitially == McpInit => McpInv
<1> SUFFICES ASSUME McpInit PROVE McpInv
  OBVIOUS
<1>1. CallsShape
  BY DEF McpInit, CallsShape
<1>2. \A c \in McpCalls : ~InCall(c)
  BY DEF McpInit, InCall
<1>3. pipe = Pipe(TRUE, <<>>, <<>>)
  BY DEF McpInit, NewPipe, Pipe
<1>4. Drained
  BY <1>3 DEF Drained
<1>5. QED BY <1>1, <1>2, <1>4 DEF McpInit, McpInv, InStep, AnswerIsToThisCall

\* A call that breaks off leaves an empty, terminated transport.
LEMMA BreaksOff ==
    ASSUME McpInv, NEW c \in McpCalls, InCall(c), CallFails(c)
    PROVE  McpInv'
<1>1. /\ pipe' = Pipe(FALSE, <<>>, <<>>)
      /\ mcall' = [mcall EXCEPT ![c] = "done"] /\ answer' = answer
  BY DEF CallFails, Terminated, DeadPipe, Pipe
<1>2. CallsShape'
  BY <1>1 DEF McpInv, CallsShape
<1>3. \A d \in McpCalls : ~InCall(d)'
  BY <1>1 DEF McpInv, CallsShape, InStep, InCall
<1>4. Drained'
  BY <1>1 DEF Drained
<1>5. QED BY <1>1, <1>2, <1>3, <1>4 DEF McpInv, InStep, AnswerIsToThisCall

\* A call starts on an empty pipe, of a new process or the old.
LEMMA StartKeeps ==
    ASSUME McpInv, NEW c \in McpCalls, StartCall(c)
    PROVE  McpInv'
<1>1. answer' = answer /\ LockFree
  BY DEF StartCall
<1>2. PICK alive : pipe = Pipe(alive, <<>>, <<>>)
  BY <1>1 DEF McpInv, InStep, Drained
<1>3. NewPipe = Pipe(TRUE, <<>>, <<>>)
  BY DEF NewPipe, Pipe
<1>4. PICK step, up : /\ step \in Phases /\ mcall' = [mcall EXCEPT ![c] = step]
                      /\ pipe' = Sends(Pipe(up, <<>>, <<>>), c, step)
  <2>1. CASE pipe.alive
    BY <2>1, <1>2 DEF StartCall, Phases
  <2>2. CASE ~pipe.alive
    BY <2>2, <1>3 DEF StartCall, Phases
  <2>3. QED BY <2>1, <2>2
<1>5. \A d \in McpCalls : InCall(d)' <=> d = c
  BY <1>1, <1>4, HeldBy DEF McpInv, LockFree
<1>6. InStep'
  BY <1>4, <1>5, SentAlone, HeldStep
<1>7. CallsShape'
  BY <1>1, <1>4 DEF McpInv, CallsShape
<1>8. QED BY <1>1, <1>6, <1>7 DEF McpInv, AnswerIsToThisCall

\* The line a call reads is its own; it ends, or sends its next request.
LEMMA ReadKeeps ==
    ASSUME McpInv, NEW c \in McpCalls, ReadAnswer(c)
    PROVE  McpInv'
<1>1. InCall(c) /\ pipe.lines # <<>> /\ \A d \in McpCalls : InCall(d) => d = c
  BY DEF ReadAnswer, McpInv, InStep
<1>2. PICK alive, m : m.for = c /\ pipe \in {Pipe(alive, <<m>>, <<>>), Pipe(alive, <<>>, <<m>>)}
  BY <1>1 DEF McpInv, InStep, Exchange
<1>3. pipe = Pipe(alive, <<>>, <<m>>)
  BY <1>1, <1>2 DEF Pipe
<1> DEFINE rest == [pipe EXCEPT !.lines = Tail(@)]
<1>4. pipe.lines = <<m>>
  BY <1>3 DEF Pipe
<1>5. Head(pipe.lines).for = c
  BY <1>2, <1>4
<1>6. rest = Pipe(alive, <<>>, <<>>)
  BY <1>3 DEF Pipe
<1>7. CASE mcall[c] = "call"
  <2>1. /\ pipe' = rest /\ answer' = [answer EXCEPT ![c] = Head(pipe.lines).for]
        /\ mcall' = [mcall EXCEPT ![c] = "done"]
    BY <1>7 DEF ReadAnswer
  <2> HIDE DEF rest
  <2>2. answer' = [answer EXCEPT ![c] = c]
    BY <1>5, <2>1
  <2>3. \A d \in McpCalls : ~InCall(d)'
    BY <1>1, <2>1 DEF McpInv, CallsShape, InCall
  <2>4. Drained'
    BY <1>6, <2>1 DEF Drained
  <2>5. CallsShape' /\ AnswerIsToThisCall'
    BY <2>1, <2>2 DEF McpInv, CallsShape, AnswerIsToThisCall
  <2>6. QED BY <2>3, <2>4, <2>5 DEF McpInv, InStep
<1>8. CASE mcall[c] # "call"
  <2>1. mcall[c] \in {"initialize", "tools_list"}
    BY <1>1, <1>8 DEF InCall
  <2>2. NextStep(mcall[c]) \in Phases
    BY <2>1 DEF NextStep, Phases
  <2>3. /\ pipe' = Sends(rest, c, NextStep(mcall[c])) /\ answer' = answer
        /\ mcall' = [mcall EXCEPT ![c] = NextStep(mcall[c])]
    BY <1>8 DEF ReadAnswer
  <2> HIDE DEF rest
  <2>4. \A d \in McpCalls : InCall(d)' <=> d = c
    BY <1>1, <2>2, <2>3, HeldBy DEF McpInv
  <2>5. InStep'
    BY <1>6, <2>2, <2>3, <2>4, SentAlone, HeldStep
  <2>6. CallsShape'
    BY <2>2, <2>3 DEF McpInv, CallsShape
  <2>7. QED BY <2>3, <2>5, <2>6 DEF McpInv, AnswerIsToThisCall
<1>9. QED BY <1>7, <1>8

\* The server answers the one request there is.
LEMMA WriteKeeps ==
    ASSUME McpInv, ServerWrites
    PROVE  McpInv'
<1>1. pipe.todo # <<>> /\ mcall' = mcall /\ answer' = answer
  BY DEF ServerWrites
<1>2. PICK c \in McpCalls : InCall(c)
  <2>1. Drained => pipe.todo = <<>>
    BY DEF Drained, Pipe
  <2>2. QED BY <1>1, <2>1 DEF McpInv, InStep, LockFree
<1>3. PICK alive, m : /\ m.for = c /\ m.id \in Nat
                      /\ pipe \in {Pipe(alive, <<m>>, <<>>), Pipe(alive, <<>>, <<m>>)}
  BY <1>2 DEF McpInv, InStep, Exchange
<1>4. pipe = Pipe(alive, <<m>>, <<>>)
  BY <1>1, <1>3 DEF Pipe
<1>5. Head(pipe.todo) = m
  BY <1>4 DEF Pipe
<1>6. PICK id \in {0, m.id}, ok \in BOOLEAN :
        pipe' = [pipe EXCEPT !.todo = Tail(@), !.lines = Append(@, Line(id, m.for, ok))]
  BY <1>5 DEF ServerWrites
<1> DEFINE new == Line(id, m.for, ok)
<1>7. new.for = c /\ new.id \in Nat
  BY <1>3 DEF Line
<1> HIDE DEF new
<1>8. pipe' = [pipe EXCEPT !.todo = Tail(@), !.lines = Append(@, new)]
  BY <1>6 DEF new
<1>9. pipe' = Pipe(alive, <<>>, <<new>>)
  <2>1. pipe' = Pipe(alive, Tail(<<m>>), Append(<<>>, new))
    BY <1>4, <1>8 DEF Pipe
  <2>2. Tail(<<m>>) = <<>> /\ Append(<<>>, new) = <<new>>
    OBVIOUS
  <2>3. QED BY <2>1, <2>2
<1>10. Exchange(c)'
  BY <1>7, <1>9 DEF Exchange
<1>11. \A d \in McpCalls : InCall(d)' <=> d = c
  BY <1>1, <1>2 DEF McpInv, InStep, InCall
<1>12. InStep'
  BY <1>10, <1>11, HeldStep
<1>13. QED BY <1>1, <1>12 DEF McpInv, CallsShape, AnswerIsToThisCall

\* The call fails before anything is sent.
LEMMA NotRestarted ==
    ASSUME McpInv, NEW c \in McpCalls, RestartFails(c)
    PROVE  McpInv'
<1>1. /\ mcall' = [mcall EXCEPT ![c] = "done"] /\ LockFree
      /\ pipe' = pipe /\ answer' = answer
  BY DEF RestartFails
<1>2. \A d \in McpCalls : ~InCall(d)'
  BY <1>1 DEF McpInv, CallsShape, LockFree, InCall
<1>3. Drained'
  BY <1>1 DEF McpInv, InStep, Drained
<1>4. QED
  BY <1>1, <1>2, <1>3 DEF McpInv, CallsShape, InStep, AnswerIsToThisCall

\* Every step keeps the exchange in step.
LEMMA McpStep == McpInv /\ [McpNext]_mcpVars => McpInv'
<1> SUFFICES ASSUME McpInv, [McpNext]_mcpVars PROVE McpInv'
  OBVIOUS
<1>1. ASSUME NEW c \in McpCalls, StartCall(c) PROVE McpInv'
  BY <1>1, StartKeeps
<1>2. ASSUME NEW c \in McpCalls, RestartFails(c) PROVE McpInv'
  BY <1>2, NotRestarted
<1>3. ASSUME NEW c \in McpCalls, ReadAnswer(c) PROVE McpInv'
  BY <1>3, ReadKeeps
<1>4. ASSUME NEW c \in McpCalls, ReadBroken(c) \/ CallStops(c) PROVE McpInv'
  BY <1>4, BreaksOff DEF ReadBroken, CallStops
<1>5. CASE ServerWrites
  BY <1>5, WriteKeeps
<1>6. CASE UNCHANGED mcpVars
  BY <1>6 DEF mcpVars, McpInv, CallsShape, InStep, Drained, Exchange, AnswerIsToThisCall, InCall,
      LockFree
<1>7. QED BY <1>1, <1>2, <1>3, <1>4, <1>5, <1>6 DEF McpNext

\* A call of an MCP tool never returns what the server answered to another
\* call, however many calls timed out, were dropped or broke off before it.
THEOREM AnswersAreOwn == McpSpec => []AnswerIsToThisCall
<1>1. McpInv => AnswerIsToThisCall
  BY DEF McpInv
<1>2. QED BY <1>1, McpInitially, McpStep, PTL DEF McpSpec

(***************************************************************************)
(* The operator's lines.  The lines typed so far are shared out between    *)
(* the places that keep lines and those given up (Parted), and no place    *)
(* has one twice (Distinct).  That is kept by the few things a step does   *)
(* with lines: add one, move the first of a queue, join a queue to another *)
(* or give queues up; and by every step that overwrites or forgets a queue *)
(* because that queue is empty then (NothingUnderway).                     *)
(***************************************************************************)
Spots == Queues \cup {"input", "told"}

KeptOf(i, t, q) ==
    [p \in Spots |-> CASE p = "input" -> i [] p = "told" -> t [] p \in Queues -> q[p]]

\* The queues a turn takes lines through are empty where it may overwrite or
\* forget them.
NothingUnderway ==
    /\ input # <<>> => at \in {"notes", "begun"}
    /\ queue["pending"] # <<>> => at = "draining"
    /\ queue["batch"] # <<>> => drain

LinesShape ==
    /\ input \in Seq(Nat) /\ told \in Seq(Nat) /\ queue \in [Queues -> Seq(Nat)]
    /\ lines \in Nat

ShellInv == LinesShape /\ NothingUnderway /\ EveryLineOnce

LEMMA KeptAt ==
    ASSUME NEW i \in Seq(Nat), NEW t \in Seq(Nat), NEW q \in [Queues -> Seq(Nat)]
    PROVE  /\ KeptOf(i, t, q) \in [Spots -> Seq(Nat)]
           /\ KeptOf(i, t, q)["input"] = i /\ KeptOf(i, t, q)["told"] = t
           /\ \A p \in Queues : KeptOf(i, t, q)[p] = q[p]
<1>1. "input" \notin Queues /\ "told" \notin Queues
  BY DEF Queues
<1>2. \A p \in Spots : KeptOf(i, t, q)[p] \in Seq(Nat)
  BY <1>1 DEF KeptOf, Spots
<1> QED
  BY <1>1, <1>2 DEF KeptOf, Spots

\* Two positions of a sequence never hold the same line.
Distinct(s) == \A i, j \in DOMAIN s : s[i] = s[j] => i = j

LinesOf(K) == [p \in Spots |-> ToSet(K[p])]

\* The sets R, one for each place, and L share out the lines 1 .. n.
Parted(R, L, n) ==
    /\ L \subseteq 1 .. n
    /\ \A p \in Spots : R[p] \subseteq (1 .. n) \ L
    /\ \A l \in (1 .. n) \ L : \E p \in Spots : l \in R[p]
    /\ \A p, q \in Spots : \A l \in R[p] \cap R[q] : p = q

\* Lines are kept once if each place has no line twice and the places share
\* them out.
LEMMA OnceIsParted ==
    ASSUME NEW K \in [Spots -> Seq(Nat)], NEW L, NEW n
    PROVE  Once(K, L, n) <=> Parted(LinesOf(K), L, n) /\ \A p \in Spots : Distinct(K[p])
<1>1. DOMAIN K = Spots /\ \A p \in Spots : LinesOf(K)[p] = {K[p][i] : i \in DOMAIN K[p]}
  BY DEF LinesOf, ToSet
<1>2. ASSUME Once(K, L, n)
      PROVE  Parted(LinesOf(K), L, n) /\ \A p \in Spots : Distinct(K[p])
  <2>1. \A p \in Spots : Distinct(K[p])
    BY <1>1, <1>2 DEF Once, Distinct
  <2>2. \A p \in Spots : \A l \in LinesOf(K)[p] : \E i \in DOMAIN K[p] : K[p][i] = l
    BY <1>1
  <2>3. \A p \in Spots : LinesOf(K)[p] \subseteq (1 .. n) \ L
    BY <1>1, <1>2, <2>2 DEF Once
  <2>4. \A l \in (1 .. n) \ L : \E p \in Spots : l \in LinesOf(K)[p]
    BY <1>1, <1>2 DEF Once
  <2>5. \A p, q \in Spots : \A l \in LinesOf(K)[p] \cap LinesOf(K)[q] : p = q
    BY <1>1, <1>2, <2>2 DEF Once
  <2> QED
    BY <1>2, <2>1, <2>3, <2>4, <2>5 DEF Parted, Once
<1>3. ASSUME Parted(LinesOf(K), L, n), \A p \in Spots : Distinct(K[p])
      PROVE  Once(K, L, n)
  <2>1. \A p \in Spots : \A i \in DOMAIN K[p] : K[p][i] \in LinesOf(K)[p]
    BY <1>1
  <2>2. \A p \in Spots : \A l \in LinesOf(K)[p] : \E i \in DOMAIN K[p] : K[p][i] = l
    BY <1>1
  <2>3. \A p \in Spots : \A i \in DOMAIN K[p] : K[p][i] \in (1 .. n) \ L
    BY <1>3, <2>1 DEF Parted
  <2>4. \A l \in (1 .. n) \ L : \E p \in Spots : \E i \in DOMAIN K[p] : K[p][i] = l
    BY <1>3, <2>2 DEF Parted
  <2>5. ASSUME NEW p \in Spots, NEW q \in Spots, NEW i \in DOMAIN K[p], NEW j \in DOMAIN K[q],
               K[p][i] = K[q][j]
        PROVE  p = q /\ i = j
    <3>1. K[p][i] \in LinesOf(K)[p] \cap LinesOf(K)[q]
      BY <2>1, <2>5
    <3>2. p = q
      BY <1>3, <3>1 DEF Parted
    <3> QED
      BY <1>3, <2>5, <3>2 DEF Distinct
  <2> QED
    BY <1>1, <1>3, <2>3, <2>4, <2>5 DEF Once, Parted
<1> QED
  BY <1>2, <1>3

\* What the operations on queues do to the lines of a sequence.
LEMMA EmptyLines == ToSet(<<>>) = {} /\ Distinct(<<>>) /\ <<>> \in Seq(Nat)
BY DEF ToSet, Distinct

LEMMA AppendLines ==
    ASSUME NEW s \in Seq(Nat), NEW l \in Nat
    PROVE  /\ Append(s, l) \in Seq(Nat) /\ ToSet(Append(s, l)) = ToSet(s) \cup {l}
           /\ Distinct(s) /\ l \notin ToSet(s) => Distinct(Append(s, l))
<1> DEFINE m == Len(s) + 1
           u == Append(s, l)
<1>1. /\ u \in Seq(Nat) /\ DOMAIN u = 1 .. m /\ DOMAIN s = 1 .. Len(s) /\ m \in Nat
      /\ u[m] = l /\ \A i \in 1 .. Len(s) : u[i] = s[i]
  OBVIOUS
<1>2. \A i \in DOMAIN u : (i \in DOMAIN s /\ u[i] = s[i]) \/ (i = m /\ u[i] = l)
  BY <1>1
<1>3. /\ m \in DOMAIN u /\ \A i \in DOMAIN s : i \in DOMAIN u
  BY <1>1
<1> HIDE DEF u
<1>4. ToSet(u) = ToSet(s) \cup {l}
  BY <1>1, <1>2, <1>3 DEF ToSet
<1>5. ASSUME Distinct(s), l \notin ToSet(s)
      PROVE  Distinct(u)
  BY <1>2, <1>5 DEF Distinct, ToSet
<1> QED
  BY <1>1, <1>4, <1>5 DEF u

LEMMA TailLines ==
    ASSUME NEW s \in Seq(Nat), s # <<>>, Distinct(s)
    PROVE  /\ Head(s) \in Nat /\ Tail(s) \in Seq(Nat) /\ Distinct(Tail(s))
           /\ Head(s) \in ToSet(s) /\ ToSet(Tail(s)) = ToSet(s) \ {Head(s)}
<1> DEFINE u == Tail(s)
           h == Head(s)
<1>1. /\ u \in Seq(Nat) /\ DOMAIN u = 1 .. Len(s) - 1 /\ DOMAIN s = 1 .. Len(s)
      /\ Len(s) \in Nat /\ 1 \in DOMAIN s /\ s[1] = h /\ h \in Nat
      /\ \A i \in 1 .. Len(s) - 1 : u[i] = s[i + 1]
  OBVIOUS
<1>2. \A i \in DOMAIN u : i + 1 \in DOMAIN s /\ u[i] = s[i + 1] /\ i + 1 # 1 /\ i \in Nat
  BY <1>1
<1>3. \A i \in DOMAIN s : i = 1 \/ (i - 1 \in DOMAIN u /\ u[i - 1] = s[i])
  BY <1>1
<1> HIDE DEF u, h
<1>4. Distinct(u)
  <2> SUFFICES ASSUME NEW i \in DOMAIN u, NEW j \in DOMAIN u, u[i] = u[j] PROVE i = j
    BY DEF Distinct
  <2>1. i + 1 = j + 1
    BY <1>2 DEF Distinct
  <2> QED
    BY <1>2, <2>1
<1>5. h \in ToSet(s)
  BY <1>1 DEF ToSet
<1>6. ToSet(u) \subseteq ToSet(s) \ {h}
  <2> SUFFICES ASSUME NEW i \in DOMAIN u PROVE u[i] \in ToSet(s) \ {h}
    BY DEF ToSet
  <2>1. i + 1 \in DOMAIN s /\ u[i] = s[i + 1] /\ i + 1 # 1
    BY <1>2
  <2>2. s[i + 1] # s[1]
    BY <1>1, <2>1 DEF Distinct
  <2> QED
    BY <1>1, <2>1, <2>2 DEF ToSet
<1>7. ToSet(s) \ {h} \subseteq ToSet(u)
  <2> SUFFICES ASSUME NEW i \in DOMAIN s, s[i] # h PROVE s[i] \in ToSet(u)
    BY DEF ToSet
  <2>1. i - 1 \in DOMAIN u /\ u[i - 1] = s[i]
    BY <1>1, <1>3
  <2> QED
    BY <2>1 DEF ToSet
<1> QED
  BY <1>1, <1>4, <1>5, <1>6, <1>7 DEF u, h

LEMMA JoinedLines ==
    ASSUME NEW s \in Seq(Nat), NEW t \in Seq(Nat)
    PROVE  /\ s \o t \in Seq(Nat) /\ ToSet(s \o t) = ToSet(s) \cup ToSet(t)
           /\ Distinct(s) /\ Distinct(t) /\ ToSet(s) \cap ToSet(t) = {} => Distinct(s \o t)
<1> DEFINE u == s \o t
           m == Len(s)
<1>1. /\ u \in Seq(Nat) /\ DOMAIN u = 1 .. m + Len(t) /\ DOMAIN s = 1 .. m
      /\ DOMAIN t = 1 .. Len(t) /\ m \in Nat /\ Len(t) \in Nat
      /\ \A i \in 1 .. m : u[i] = s[i]
      /\ \A i \in m + 1 .. m + Len(t) : u[i] = t[i - m]
  OBVIOUS
<1>2. \A i \in DOMAIN u : \/ i \in DOMAIN s /\ u[i] = s[i]
                          \/ i - m \in DOMAIN t /\ u[i] = t[i - m]
  BY <1>1
<1>3. /\ \A i \in DOMAIN s : i \in DOMAIN u /\ u[i] = s[i]
      /\ \A j \in DOMAIN t : m + j \in DOMAIN u /\ u[m + j] = t[j]
  <2>1. \A j \in DOMAIN t : m + j \in m + 1 .. m + Len(t) /\ (m + j) - m = j
    BY <1>1
  <2>2. \A j \in m + 1 .. m + Len(t) : j \in 1 .. m + Len(t)
    BY <1>1
  <2> QED
    BY <1>1, <2>1, <2>2
<1>4. \A i \in DOMAIN u : i \in Nat
  BY <1>1
<1> HIDE DEF u, m
<1>5. ToSet(u) = ToSet(s) \cup ToSet(t)
  <2>1. ToSet(u) \subseteq ToSet(s) \cup ToSet(t)
    BY <1>2 DEF ToSet
  <2>2. ToSet(s) \subseteq ToSet(u)
    BY <1>3 DEF ToSet
  <2>3. ToSet(t) \subseteq ToSet(u)
    BY <1>3 DEF ToSet
  <2> QED
    BY <2>1, <2>2, <2>3
<1>6. ASSUME Distinct(s), Distinct(t), ToSet(s) \cap ToSet(t) = {}
      PROVE  Distinct(u)
  <2> SUFFICES ASSUME NEW i \in DOMAIN u, NEW j \in DOMAIN u, u[i] = u[j] PROVE i = j
    BY DEF Distinct
  <2>1. \A k, l : k \in DOMAIN s /\ l \in DOMAIN t => s[k] # t[l]
    BY <1>6 DEF ToSet
  <2>2. CASE i \in DOMAIN s /\ u[i] = s[i]
    <3>1. j \in DOMAIN s /\ u[j] = s[j]
      BY <1>2, <2>1, <2>2
    <3> QED
      BY <1>6, <2>2, <3>1 DEF Distinct
  <2>3. CASE i - m \in DOMAIN t /\ u[i] = t[i - m]
    <3>1. j - m \in DOMAIN t /\ u[j] = t[j - m]
      BY <1>2, <2>1, <2>3
    <3>2. i - m = j - m
      BY <1>6, <2>3, <3>1 DEF Distinct
    <3> QED
      BY <1>1, <1>4, <3>2
  <2> QED
    BY <1>2, <2>2, <2>3
<1> QED
  BY <1>1, <1>5, <1>6 DEF u

\* One line more, one line or one queue moved, some places given up: what the
\* lines of a step may do between the places, and each line is kept once.
LEMMA TypedOnce ==
    ASSUME NEW K \in [Spots -> Seq(Nat)], NEW J \in [Spots -> Seq(Nat)], NEW L, NEW n \in Nat,
           NEW p \in Spots, Once(K, L, n), J[p] = Append(K[p], n + 1),
           \A r \in Spots \ {p} : J[r] = K[r]
    PROVE  Once(J, L, n + 1)
<1> DEFINE R == LinesOf(K)
           S == LinesOf(J)
<1>1. Parted(R, L, n) /\ \A r \in Spots : Distinct(K[r])
  BY OnceIsParted
<1>2. \A r \in Spots : R[r] = ToSet(K[r]) /\ S[r] = ToSet(J[r])
  BY DEF LinesOf
<1>3. n + 1 \in Nat /\ n + 1 \notin 1 .. n /\ 1 .. n + 1 = (1 .. n) \cup {n + 1}
  OBVIOUS
<1>4. \A r \in Spots : n + 1 \notin R[r]
  BY <1>1, <1>3 DEF Parted
<1>5. S[p] = R[p] \cup {n + 1} /\ Distinct(J[p])
  <2>1. K[p] \in Seq(Nat) /\ Distinct(K[p]) /\ n + 1 \notin ToSet(K[p])
    BY <1>1, <1>2, <1>4
  <2>2. ToSet(Append(K[p], n + 1)) = ToSet(K[p]) \cup {n + 1} /\ Distinct(Append(K[p], n + 1))
    BY <1>3, <2>1, AppendLines
  <2> QED
    BY <1>2, <2>2
<1>6. \A r \in Spots \ {p} : S[r] = R[r] /\ Distinct(J[r])
  BY <1>1, <1>2
<1> HIDE DEF R, S
<1> DEFINE N == 1 .. n + 1
<1>7. N = (1 .. n) \cup {n + 1}
  BY <1>3
<1>8. n + 1 \notin L
  BY <1>1, <1>3 DEF Parted
<1> HIDE DEF N
<1>9. \A r \in Spots : S[r] \subseteq N \ L
  <2> SUFFICES ASSUME NEW r \in Spots, NEW l \in S[r] PROVE l \in N \ L
    OBVIOUS
  <2>1. l \in R[r] \/ l = n + 1
    BY <1>5, <1>6
  <2>2. R[r] \subseteq (1 .. n) \ L
    BY <1>1 DEF Parted
  <2> QED
    BY <1>7, <1>8, <2>1, <2>2
<1>10. \A l \in N \ L : \E r \in Spots : l \in S[r]
  <2> SUFFICES ASSUME NEW l \in N \ L PROVE \E r \in Spots : l \in S[r]
    OBVIOUS
  <2>1. CASE l = n + 1
    BY <1>5, <2>1
  <2>2. CASE l # n + 1
    <3>1. PICK r \in Spots : l \in R[r]
      BY <1>1, <1>7, <2>2 DEF Parted
    <3> QED
      BY <1>5, <1>6, <3>1
  <2> QED
    BY <2>1, <2>2
<1>11. \A r, u \in Spots : \A l \in S[r] \cap S[u] : r = u
  <2> SUFFICES ASSUME NEW r \in Spots, NEW u \in Spots, NEW l \in S[r] \cap S[u] PROVE r = u
    OBVIOUS
  <2>1. CASE l = n + 1
    <3>1. \A v \in Spots \ {p} : n + 1 \notin S[v]
      BY <1>4, <1>6
    <3> QED
      BY <2>1, <3>1
  <2>2. CASE l # n + 1
    <3>1. l \in R[r]
      BY <1>5, <1>6, <2>2
    <3>2. l \in R[u]
      BY <1>5, <1>6, <2>2
    <3> QED
      BY <1>1, <3>1, <3>2 DEF Parted
  <2> QED
    BY <2>1, <2>2
<1>12. Parted(S, L, n + 1)
  BY <1>1, <1>7, <1>9, <1>10, <1>11 DEF Parted, N
<1> QED
  BY <1>5, <1>6, <1>12, OnceIsParted DEF S

LEMMA MovedOnce ==
    ASSUME NEW K \in [Spots -> Seq(Nat)], NEW J \in [Spots -> Seq(Nat)], NEW L, NEW n,
           NEW p \in Spots, NEW q \in Spots, NEW X, p # q, Once(K, L, n),
           X \subseteq ToSet(K[p]), ToSet(J[p]) = ToSet(K[p]) \ X,
           ToSet(J[q]) = ToSet(K[q]) \cup X, Distinct(J[p]), Distinct(J[q]),
           \A r \in Spots \ {p, q} : J[r] = K[r]
    PROVE  Once(J, L, n)
<1> DEFINE R == LinesOf(K)
           S == LinesOf(J)
<1>1. Parted(R, L, n) /\ \A r \in Spots : Distinct(K[r])
  BY OnceIsParted
<1>2. \A r \in Spots : R[r] = ToSet(K[r]) /\ S[r] = ToSet(J[r])
  BY DEF LinesOf
<1>3. X \subseteq R[p] /\ S[p] = R[p] \ X /\ S[q] = R[q] \cup X
  BY <1>2
<1>4. \A r \in Spots \ {p, q} : S[r] = R[r]
  BY <1>2
<1>5. \A r \in Spots : Distinct(J[r])
  BY <1>1
<1> HIDE DEF R, S
<1>6. \A r \in Spots : S[r] \subseteq (1 .. n) \ L
  BY <1>1, <1>3, <1>4 DEF Parted
<1>7. \A l \in (1 .. n) \ L : \E r \in Spots : l \in S[r]
  BY <1>1, <1>3, <1>4 DEF Parted
<1>8. \A r, u \in Spots : \A l \in S[r] \cap S[u] : r = u
  <2>1. \A r \in Spots : \A l \in S[r] : IF r = q /\ l \in X THEN l \in R[p] ELSE l \in R[r]
    BY <1>3, <1>4
  <2>2. ASSUME NEW r \in Spots \ {q}
        PROVE  S[r] \cap X = {}
    <3>1. CASE r = p
      BY <1>3, <3>1
    <3>2. CASE r # p
      <4>1. S[r] = R[r] /\ R[r] \cap R[p] = {}
        BY <1>1, <1>4, <3>2 DEF Parted
      <4> QED
        BY <1>3, <4>1
    <3> QED
      BY <3>1, <3>2
  <2> SUFFICES ASSUME NEW r \in Spots, NEW u \in Spots, NEW l \in S[r] \cap S[u] PROVE r = u
    OBVIOUS
  <2>3. CASE l \in X
    BY <2>2, <2>3
  <2>4. CASE l \notin X
    <3>1. l \in R[r] /\ l \in R[u]
      BY <2>1, <2>4
    <3> QED
      BY <1>1, <3>1 DEF Parted
  <2> QED
    BY <2>3, <2>4
<1>9. Parted(S, L, n)
  BY <1>1, <1>6, <1>7, <1>8 DEF Parted
<1> QED
  BY <1>5, <1>9, OnceIsParted DEF S

LEMMA HeadOnce ==
    ASSUME NEW K \in [Spots -> Seq(Nat)], NEW J \in [Spots -> Seq(Nat)], NEW L, NEW n,
           NEW p \in Spots, NEW q \in Spots, p # q, Once(K, L, n), K[p] # <<>>,
           J[p] = Tail(K[p]), J[q] = Append(K[q], Head(K[p])),
           \A r \in Spots \ {p, q} : J[r] = K[r]
    PROVE  Once(J, L, n)
<1>1. Parted(LinesOf(K), L, n) /\ \A r \in Spots : Distinct(K[r])
  BY OnceIsParted
<1>2. /\ Head(K[p]) \in Nat /\ Head(K[p]) \in ToSet(K[p]) /\ Distinct(J[p])
      /\ ToSet(J[p]) = ToSet(K[p]) \ {Head(K[p])}
  BY <1>1, TailLines
<1>3. Head(K[p]) \notin ToSet(K[q])
  BY <1>1, <1>2 DEF Parted, LinesOf
<1>4. Distinct(J[q]) /\ ToSet(J[q]) = ToSet(K[q]) \cup {Head(K[p])}
  BY <1>1, <1>2, <1>3, AppendLines
<1> DEFINE X == {Head(K[p])}
<1>5. X \subseteq ToSet(K[p])
  BY <1>2
<1> HIDE DEF X
<1>6. /\ ToSet(J[p]) = ToSet(K[p]) \ X /\ ToSet(J[q]) = ToSet(K[q]) \cup X
      /\ Distinct(J[p]) /\ Distinct(J[q])
  BY <1>2, <1>4 DEF X
<1> QED
  BY <1>5, <1>6, MovedOnce, ZenonT(40)

LEMMA JoinedOnce ==
    ASSUME NEW K \in [Spots -> Seq(Nat)], NEW J \in [Spots -> Seq(Nat)], NEW L, NEW n,
           NEW p \in Spots, NEW q \in Spots, p # q, Once(K, L, n),
           J[p] = <<>>, J[q] = K[q] \o K[p],
           \A r \in Spots \ {p, q} : J[r] = K[r]
    PROVE  Once(J, L, n)
<1>1. Parted(LinesOf(K), L, n) /\ \A r \in Spots : Distinct(K[r])
  BY OnceIsParted
<1>2. ToSet(K[q]) \cap ToSet(K[p]) = {}
  BY <1>1 DEF Parted, LinesOf
<1>3. Distinct(J[q]) /\ ToSet(J[q]) = ToSet(K[q]) \cup ToSet(K[p])
  BY <1>1, <1>2, JoinedLines
<1>4. Distinct(J[p]) /\ ToSet(J[p]) = ToSet(K[p]) \ ToSet(K[p])
  BY EmptyLines
<1> QED
  BY <1>3, <1>4, MovedOnce

LEMMA GivenUpOnce ==
    ASSUME NEW K \in [Spots -> Seq(Nat)], NEW J \in [Spots -> Seq(Nat)], NEW L, NEW M, NEW n,
           NEW S \in SUBSET Spots, Once(K, L, n),
           \A r \in S : J[r] = <<>>, \A r \in Spots \ S : J[r] = K[r],
           M = L \cup UNION {ToSet(K[r]) : r \in S}
    PROVE  Once(J, M, n)
<1> DEFINE R == LinesOf(K)
           T == LinesOf(J)
<1>1. Parted(R, L, n) /\ \A r \in Spots : Distinct(K[r])
  BY OnceIsParted
<1>2. \A r \in Spots : R[r] = ToSet(K[r]) /\ T[r] = ToSet(J[r])
  BY DEF LinesOf
<1>3. \A r \in S : T[r] = {}
  BY <1>2, EmptyLines
<1>4. \A r \in Spots \ S : T[r] = R[r]
  BY <1>2
<1>5. \A r \in Spots : Distinct(J[r])
  BY <1>1, EmptyLines
<1>6. \A l : l \in M <=> l \in L \/ \E r \in S : l \in R[r]
  BY <1>2
<1> HIDE DEF R, T
<1>7. M \subseteq 1 .. n
  BY <1>1, <1>6 DEF Parted
<1>8. \A r \in Spots : T[r] \subseteq (1 .. n) \ M
  BY <1>1, <1>3, <1>4, <1>6 DEF Parted
<1>9. \A l \in (1 .. n) \ M : \E r \in Spots : l \in T[r]
  BY <1>1, <1>4, <1>6 DEF Parted
<1>10. \A r, u \in Spots : \A l \in T[r] \cap T[u] : r = u
  BY <1>1, <1>3, <1>4 DEF Parted
<1>11. Parted(T, M, n)
  BY <1>7, <1>8, <1>9, <1>10 DEF Parted
<1> QED
  BY <1>5, <1>11, OnceIsParted DEF T

\* The places of a state, one by one.
Placed ==
    /\ Kept \in [Spots -> Seq(Nat)]
    /\ Kept["input"] = input /\ Kept["told"] = told
    /\ \A q \in Queues : Kept[q] = queue[q]

LEMMA PlacedNow == LinesShape => Placed
<1>1. Kept = KeptOf(input, told, queue)
  BY DEF Kept, KeptOf, Spots
<1> QED
  BY <1>1, KeptAt DEF LinesShape, Placed

LEMMA PlacedNext == LinesShape' => Placed'
BY PlacedNow, PTL

LEMMA NamedSpots ==
    /\ Queues \subseteq Spots /\ "input" \in Spots /\ "told" \in Spots
    /\ "input" \notin Queues /\ "told" \notin Queues /\ "input" # "told"
    /\ \A p \in Spots : p \in Queues \/ p = "input" \/ p = "told"
    /\ \A p \in {"notes", "pending", "steering", "typed", "queued", "batch"} : p \in Queues
BY DEF Spots, Queues

\* The steps, by what they do to the lines.
LEMMA StayKeeps ==
    ASSUME ShellInv, UNCHANGED <<input, told, queue, left, lines>>
    PROVE  LinesShape' /\ EveryLineOnce'
<1>1. Kept' = Kept
  BY DEF Kept
<1> QED
  BY <1>1 DEF ShellInv, LinesShape, EveryLineOnce

LEMMA RunKeeps ==
    ASSUME ShellInv, input = <<>>, input' = <<Typed>>, lines' = Typed, UNCHANGED <<told, queue, left>>
    PROVE  LinesShape' /\ EveryLineOnce'
<1>1. LinesShape'
  BY DEF ShellInv, LinesShape, Typed
<1>2. Placed /\ Placed'
  BY <1>1, PlacedNow, PlacedNext DEF ShellInv
<1>3. input' = Append(input, lines + 1)
  BY DEF Typed, ShellInv, LinesShape
<1>4. \A r \in Spots \ {"input"} : Kept'[r] = Kept[r]
  BY <1>2, NamedSpots DEF Placed
<1>5. Once(Kept', left, lines + 1)
  BY <1>2, <1>3, <1>4, NamedSpots, TypedOnce DEF Placed, ShellInv, LinesShape, EveryLineOnce
<1> QED
  BY <1>1, <1>5 DEF EveryLineOnce, Typed

LEMMA PushKeeps ==
    ASSUME ShellInv, NEW q \in Queues, queue' = Pushed(q, Typed), lines' = Typed,
           UNCHANGED <<input, told, left>>
    PROVE  LinesShape' /\ EveryLineOnce'
<1>1. /\ LinesShape' /\ queue'[q] = Append(queue[q], lines + 1)
      /\ \A r \in Queues \ {q} : queue'[r] = queue[r]
  BY DEF ShellInv, LinesShape, Typed, Pushed, Put
<1>2. Placed /\ Placed'
  BY <1>1, PlacedNow, PlacedNext DEF ShellInv
<1>3. Kept'[q] = Append(Kept[q], lines + 1) /\ \A r \in Spots \ {q} : Kept'[r] = Kept[r]
  BY <1>1, <1>2, NamedSpots DEF Placed
<1>4. Once(Kept', left, lines + 1)
  BY <1>2, <1>3, NamedSpots, TypedOnce DEF Placed, ShellInv, LinesShape, EveryLineOnce
<1> QED
  BY <1>1, <1>4 DEF EveryLineOnce, Typed

\* The first line of a queue goes on record, or to a turn.
LEMMA TellKeeps ==
    ASSUME ShellInv, NEW q \in Queues, queue[q] # <<>>, told' = Append(told, Head(queue[q])),
           queue' = Put(q, Tail(queue[q])), UNCHANGED <<input, left, lines>>
    PROVE  LinesShape' /\ EveryLineOnce'
<1>1. LinesShape' /\ queue'[q] = Tail(queue[q]) /\ \A r \in Queues \ {q} : queue'[r] = queue[r]
  BY DEF ShellInv, LinesShape, Put
<1>2. Placed /\ Placed'
  BY <1>1, PlacedNow, PlacedNext DEF ShellInv
<1>3. /\ Kept'[q] = Tail(Kept[q]) /\ Kept'["told"] = Append(Kept["told"], Head(Kept[q]))
      /\ \A r \in Spots \ {q, "told"} : Kept'[r] = Kept[r]
  BY <1>1, <1>2, NamedSpots DEF Placed
<1>4. /\ q \in Spots /\ "told" \in Spots /\ q # "told" /\ Kept[q] # <<>>
      /\ Kept \in [Spots -> Seq(Nat)] /\ Kept' \in [Spots -> Seq(Nat)] /\ Once(Kept, left, lines)
  BY <1>2, NamedSpots DEF Placed, ShellInv, EveryLineOnce
<1>5. Once(Kept', left, lines)
  BY <1>3, <1>4, HeadOnce, Zenon
<1> QED
  BY <1>1, <1>5 DEF EveryLineOnce

LEMMA TakeKeeps ==
    ASSUME ShellInv, NEW q \in Queues, queue[q] # <<>>, input = <<>>, input' = <<Head(queue[q])>>,
           queue' = Put(q, Tail(queue[q])), UNCHANGED <<told, left, lines>>
    PROVE  LinesShape' /\ EveryLineOnce'
<1>1. LinesShape' /\ queue'[q] = Tail(queue[q]) /\ \A r \in Queues \ {q} : queue'[r] = queue[r]
  BY DEF ShellInv, LinesShape, Put
<1>2. Placed /\ Placed'
  BY <1>1, PlacedNow, PlacedNext DEF ShellInv
<1>3. input' = Append(input, Head(queue[q]))
  BY DEF ShellInv, LinesShape
<1>4. /\ Kept'[q] = Tail(Kept[q]) /\ Kept'["input"] = Append(Kept["input"], Head(Kept[q]))
      /\ \A r \in Spots \ {q, "input"} : Kept'[r] = Kept[r]
  BY <1>1, <1>2, <1>3, NamedSpots DEF Placed
<1>5. /\ q \in Spots /\ "input" \in Spots /\ q # "input" /\ Kept[q] # <<>>
      /\ Kept \in [Spots -> Seq(Nat)] /\ Kept' \in [Spots -> Seq(Nat)] /\ Once(Kept, left, lines)
  BY <1>2, NamedSpots DEF Placed, ShellInv, EveryLineOnce
<1>6. Once(Kept', left, lines)
  BY <1>4, <1>5, HeadOnce, Zenon
<1> QED
  BY <1>1, <1>6 DEF EveryLineOnce

\* A queue is joined to another, or the line of the turn to the record.
LEMMA JoinKeeps ==
    ASSUME ShellInv, NEW q \in Queues, NEW r \in Queues, q # r,
           queue' = [queue EXCEPT ![r] = queue[r] \o queue[q], ![q] = <<>>],
           UNCHANGED <<input, told, left, lines>>
    PROVE  LinesShape' /\ EveryLineOnce'
<1>1. /\ LinesShape' /\ queue'[q] = <<>> /\ queue'[r] = queue[r] \o queue[q]
      /\ \A u \in Queues \ {q, r} : queue'[u] = queue[u]
  <2>1. queue \in [Queues -> Seq(Nat)] /\ queue[r] \o queue[q] \in Seq(Nat) /\ <<>> \in Seq(Nat)
    BY JoinedLines, EmptyLines DEF ShellInv, LinesShape
  <2> QED
    BY <2>1 DEF ShellInv, LinesShape
<1>2. Placed /\ Placed'
  BY <1>1, PlacedNow, PlacedNext DEF ShellInv
<1>3. /\ Kept'[q] = <<>> /\ Kept'[r] = Kept[r] \o Kept[q]
      /\ \A u \in Spots \ {q, r} : Kept'[u] = Kept[u]
  BY <1>1, <1>2, NamedSpots DEF Placed
<1>4. Once(Kept', left, lines)
  BY <1>2, <1>3, NamedSpots, JoinedOnce DEF Placed, ShellInv, EveryLineOnce
<1> QED
  BY <1>1, <1>4 DEF EveryLineOnce

LEMMA RecordKeeps ==
    ASSUME ShellInv, told' = told \o input, input' = <<>>, UNCHANGED <<queue, left, lines>>
    PROVE  LinesShape' /\ EveryLineOnce'
<1>1. LinesShape'
  BY DEF ShellInv, LinesShape
<1>2. Placed /\ Placed'
  BY <1>1, PlacedNow, PlacedNext DEF ShellInv
<1>3. /\ Kept'["input"] = <<>> /\ Kept'["told"] = Kept["told"] \o Kept["input"]
      /\ \A u \in Spots \ {"input", "told"} : Kept'[u] = Kept[u]
  BY <1>2, NamedSpots DEF Placed
<1>4. Once(Kept', left, lines)
  BY <1>2, <1>3, NamedSpots, JoinedOnce DEF Placed, ShellInv, EveryLineOnce
<1> QED
  BY <1>1, <1>4 DEF EveryLineOnce

\* Some queues are given up, and perhaps the line of the turn.
LEMMA GiveUpKeeps ==
    ASSUME ShellInv, NEW S \in SUBSET Queues,
           queue' = [q \in Queues |-> IF q \in S THEN <<>> ELSE queue[q]],
           \/ UNCHANGED input /\ left' = left \cup Waiting(S)
           \/ input' = <<>> /\ left' = left \cup Waiting(S) \cup ToSet(input),
           UNCHANGED <<told, lines>>
    PROVE  LinesShape' /\ EveryLineOnce'
<1>1. LinesShape'
  <2>1. queue' \in [Queues -> Seq(Nat)] /\ input' \in Seq(Nat)
    BY EmptyLines DEF ShellInv, LinesShape
  <2> QED
    BY <2>1 DEF ShellInv, LinesShape
<1>2. Placed /\ Placed'
  BY <1>1, PlacedNow, PlacedNext DEF ShellInv
<1>3. \A q \in Queues : queue'[q] = IF q \in S THEN <<>> ELSE queue[q]
  OBVIOUS
<1>4. \A T : T = S \/ T = S \cup {"input"} => T \in SUBSET Spots
  BY NamedSpots
<1>5. CASE UNCHANGED input /\ left' = left \cup Waiting(S)
  <2>1. left' = left \cup UNION {ToSet(Kept[q]) : q \in S}
    BY <1>2, <1>5 DEF Placed, Waiting
  <2>2. (\A q \in S : Kept'[q] = <<>>) /\ \A q \in Spots \ S : Kept'[q] = Kept[q]
    BY <1>2, <1>3, <1>5, NamedSpots DEF Placed
  <2>3. Once(Kept', left', lines)
    BY <1>2, <1>4, <2>1, <2>2, GivenUpOnce DEF Placed, ShellInv, EveryLineOnce
  <2> QED
    BY <1>1, <2>3 DEF EveryLineOnce
<1>6. CASE input' = <<>> /\ left' = left \cup Waiting(S) \cup ToSet(input)
  <2> DEFINE T == S \cup {"input"}
  <2>1. left' = left \cup UNION {ToSet(Kept[q]) : q \in T}
    BY <1>2, <1>6 DEF Placed, Waiting
  <2>2. (\A q \in T : Kept'[q] = <<>>) /\ \A q \in Spots \ T : Kept'[q] = Kept[q]
    BY <1>2, <1>3, <1>6, NamedSpots DEF Placed
  <2>3. T \in SUBSET Spots
    BY <1>4
  <2> HIDE DEF T
  <2>4. Once(Kept', left', lines)
    BY <1>2, <2>1, <2>2, <2>3, GivenUpOnce DEF Placed, ShellInv, EveryLineOnce
  <2> QED
    BY <1>1, <2>4 DEF EveryLineOnce
<1> QED
  BY <1>5, <1>6

\* A turn's end: what it had taken is given up, and the steering left over is
\* queued.
LEMMA EndKeeps ==
    ASSUME ShellInv, Ends, left' = left \cup ToSet(input) \cup ToSet(queue["pending"])
    PROVE  LinesShape' /\ EveryLineOnce'
<1> DEFINE mid == [queue EXCEPT !["pending"] = <<>>]
           J == KeptOf(<<>>, told, mid)
<1>1. LinesShape' /\ mid \in [Queues -> Seq(Nat)] /\ UNCHANGED <<told, lines>> /\ input' = <<>>
  <2>1. /\ queue \in [Queues -> Seq(Nat)] /\ queue["queued"] \o queue["steering"] \in Seq(Nat)
        /\ <<>> \in Seq(Nat)
    BY NamedSpots, JoinedLines, EmptyLines DEF ShellInv, LinesShape
  <2>2. queue' \in [Queues -> Seq(Nat)] /\ mid \in [Queues -> Seq(Nat)]
    BY <2>1 DEF Ends, Leftovers
  <2> QED
    BY <2>1, <2>2 DEF ShellInv, LinesShape, Ends
<1>2. Placed /\ Placed'
  BY <1>1, PlacedNow, PlacedNext DEF ShellInv
<1>3. /\ J \in [Spots -> Seq(Nat)] /\ J["input"] = <<>> /\ J["told"] = told
      /\ \A q \in Queues : J[q] = mid[q]
  <2> DEFINE none == <<>>
  <2>1. told \in Seq(Nat) /\ none \in Seq(Nat)
    BY EmptyLines DEF ShellInv, LinesShape
  <2> HIDE DEF mid, none
  <2>2. /\ KeptOf(none, told, mid) \in [Spots -> Seq(Nat)]
        /\ KeptOf(none, told, mid)["input"] = none /\ KeptOf(none, told, mid)["told"] = told
        /\ \A q \in Queues : KeptOf(none, told, mid)[q] = mid[q]
    BY <1>1, <2>1, KeptAt
  <2> QED
    BY <2>2, Zenon DEF none
<1>4. /\ mid["pending"] = <<>> /\ \A q \in Queues \ {"pending"} : mid[q] = queue[q]
      /\ queue'["steering"] = <<>> /\ queue'["queued"] = mid["queued"] \o mid["steering"]
      /\ \A q \in Queues \ {"queued", "steering"} : queue'[q] = mid[q]
  BY NamedSpots DEF ShellInv, LinesShape, Ends, Leftovers
<1> HIDE DEF mid, J
<1> DEFINE S == {"input", "pending"}
<1>5. left' = left \cup UNION {ToSet(Kept[q]) : q \in S}
  BY <1>2, NamedSpots DEF Placed
<1>6. (\A q \in S : J[q] = <<>>) /\ (\A q \in Spots \ S : J[q] = Kept[q]) /\ S \in SUBSET Spots
  BY <1>2, <1>3, <1>4, NamedSpots DEF Placed
<1> HIDE DEF S
<1>7. Once(J, left', lines)
  <2>1. Kept \in [Spots -> Seq(Nat)] /\ Once(Kept, left, lines)
    BY <1>2 DEF Placed, ShellInv, EveryLineOnce
  <2> QED
    BY <1>3, <1>5, <1>6, <2>1, GivenUpOnce
<1>8. /\ Kept'["steering"] = <<>> /\ Kept'["queued"] = J["queued"] \o J["steering"]
      /\ \A q \in Spots \ {"steering", "queued"} : Kept'[q] = J[q]
  BY <1>1, <1>2, <1>3, <1>4, NamedSpots DEF Placed
<1>9. "steering" \in Spots /\ "queued" \in Spots /\ Kept' \in [Spots -> Seq(Nat)]
  BY <1>2, NamedSpots DEF Placed
<1>10. Once(Kept', left', lines)
  BY <1>3, <1>7, <1>8, <1>9, JoinedOnce
<1> QED
  BY <1>1, <1>10 DEF EveryLineOnce

LEMMA LinesStep == ShellInv /\ [ShellNext]_shellVars => LinesShape' /\ EveryLineOnce'
<1> SUFFICES ASSUME ShellInv, [ShellNext]_shellVars PROVE LinesShape' /\ EveryLineOnce'
  OBVIOUS
<1>1. at \notin {"notes", "begun"} => input = <<>>
  BY DEF ShellInv, NothingUnderway
<1>2. queue \in [Queues -> Seq(Nat)]
  BY DEF ShellInv, LinesShape
<1>3. ASSUME NEW u, Submits(u) PROVE LinesShape' /\ EveryLineOnce'
  BY <1>1, <1>3, RunKeeps DEF Submits, Runs, Types, Prompt
<1>4. ASSUME NEW u, SwitchTo(u) PROVE LinesShape' /\ EveryLineOnce'
  <2>1. CASE UNCHANGED <<left, queue>>
    BY <1>4, <2>1, StayKeeps DEF SwitchTo
  <2>2. CASE /\ left' = left \cup Waiting({"notes", "steering", "queued"})
             /\ queue' = [queue EXCEPT !["notes"] = <<>>, !["steering"] = <<>>, !["queued"] = <<>>]
    <3> DEFINE S == {"notes", "steering", "queued"}
    <3>1. queue' = [q \in Queues |-> IF q \in S THEN <<>> ELSE queue[q]] /\ S \in SUBSET Queues
      BY <1>2, <2>2, NamedSpots
    <3> HIDE DEF S
    <3>2. left' = left \cup Waiting(S) /\ UNCHANGED <<input, told, lines>>
      BY <1>4, <2>2 DEF SwitchTo, S
    <3> QED
      BY <3>1, <3>2, GiveUpKeeps
  <2> QED
    BY <1>4, <2>1, <2>2 DEF SwitchTo
<1>5. CASE \/ ReplSubmit \/ InlineSubmit \/ TuiSubmit
  BY <1>3, <1>5 DEF ReplSubmit, InlineSubmit, TuiSubmit
<1>6. CASE \/ NewSession \/ ResumeSession \/ ForkSession \/ Rollback \/ TuiSwitch
  BY <1>4, <1>6 DEF NewSession, ResumeSession, ForkSession, Rollback, TuiSwitch
<1>7. CASE \/ SetMode \/ SetOther \/ TuiSetMode \/ BeginTurn \/ Think \/ NextIteration \/ PressEsc
           \/ OpenCard \/ BackToPrompt \/ BatchDone \/ UNCHANGED shellVars
  <2>1. UNCHANGED <<input, told, queue, left, lines>>
    BY <1>7 DEF SetMode, SetOther, TuiSetMode, BeginTurn, Think, NextIteration, PressEsc, OpenCard,
                BackToPrompt, BatchDone, shellVars
  <2> QED
    BY <2>1, StayKeeps
<1>8. CASE QueueTurn
  BY <1>8, NamedSpots, PushKeeps DEF QueueTurn, Types
<1>9. CASE Steer
  BY <1>9, NamedSpots, PushKeeps DEF Steer, Types
<1>10. CASE Restart
  <2>1. queue' = [q \in Queues |-> IF q \in Queues THEN <<>> ELSE queue[q]]
    BY <1>10 DEF Restart, Empty
  <2>2. Queues \in SUBSET Queues /\ left' = left \cup Waiting(Queues) /\ UNCHANGED <<input, told, lines>>
    BY <1>10 DEF Restart
  <2> QED
    BY <2>1, <2>2, GiveUpKeeps
<1>11. CASE Plan
  <2>1. CASE Runs
    BY <1>11, <1>1, <2>1, RunKeeps DEF Plan, Runs, Types, Prompt
  <2>2. CASE UNCHANGED <<input, lines>>
    BY <1>11, <2>2, StayKeeps DEF Plan
  <2> QED
    BY <1>11, <2>1, <2>2 DEF Plan
<1>12. CASE Approve
  BY <1>12, <1>1, RunKeeps DEF Approve, Runs, Types, Prompt
<1>13. CASE Reject
  BY <1>13, <1>1, RunKeeps DEF Reject, Runs, Types, Prompt
<1>14. CASE NoteFails
  <2> DEFINE S == {"notes"}
  <2>1. queue' = [q \in Queues |-> IF q \in S THEN <<>> ELSE queue[q]] /\ S \in SUBSET Queues
    BY <1>14, <1>2, NamedSpots DEF NoteFails, Put
  <2>2. Waiting(S) = ToSet(queue["notes"])
    BY DEF Waiting
  <2> HIDE DEF S
  <2>3. left' = left \cup Waiting(S) \cup ToSet(input) /\ input' = <<>> /\ UNCHANGED <<told, lines>>
    BY <1>14, <2>2 DEF NoteFails
  <2> QED
    BY <2>1, <2>3, GiveUpKeeps
<1>15. CASE ApplyNote
  BY <1>15, NamedSpots, TellKeeps DEF ApplyNote
<1>16. CASE RecordInput
  BY <1>16, RecordKeeps DEF RecordInput
<1>17. CASE TakeSteering
  <2>1. queue["pending"] = <<>>
    BY <1>17 DEF TakeSteering, ShellInv, NothingUnderway
  <2>2. queue["pending"] \o queue["steering"] = queue["steering"]
    BY <1>2, <2>1, NamedSpots
  <2>3. queue' = [queue EXCEPT !["pending"] = queue["pending"] \o queue["steering"], !["steering"] = <<>>]
    BY <1>17, <2>2 DEF TakeSteering
  <2> QED
    BY <1>17, <2>3, NamedSpots, JoinKeeps DEF TakeSteering
<1>18. CASE RecordPending
  BY <1>18, NamedSpots, TellKeeps DEF RecordPending
<1>19. CASE TurnEnds
  <2>1. input = <<>> /\ queue["pending"] = <<>>
    BY <1>19 DEF TurnEnds, ShellInv, NothingUnderway
  <2>2. left' = left \cup ToSet(input) \cup ToSet(queue["pending"])
    BY <1>19, <2>1, EmptyLines DEF TurnEnds
  <2> QED
    BY <1>19, <2>2, EndKeeps DEF TurnEnds
<1>20. CASE TurnFails
  BY <1>20, EndKeeps DEF TurnFails
<1>21. CASE TypeAhead
  BY <1>21, NamedSpots, PushKeeps DEF TypeAhead, Types
<1>22. CASE WatcherTypes
  BY <1>22, NamedSpots, PushKeeps DEF WatcherTypes, Types
<1>23. CASE AnswerCard
  <2>1. CASE UNCHANGED <<queue, lines>>
    BY <1>23, <2>1, StayKeeps DEF AnswerCard
  <2>2. CASE Types /\ queue' = Pushed("steering", Typed)
    BY <1>23, <2>2, NamedSpots, PushKeeps DEF AnswerCard, Types
  <2> QED
    BY <1>23, <2>1, <2>2 DEF AnswerCard
<1>24. CASE StopWatcher
  <2>1. queue' = [queue EXCEPT !["queued"] = queue["queued"] \o queue["typed"], !["typed"] = <<>>]
    BY <1>24 DEF StopWatcher
  <2> QED
    BY <1>24, <2>1, NamedSpots, JoinKeeps DEF StopWatcher
<1>25. CASE RunQueued
  BY <1>25, <1>1, NamedSpots, TakeKeeps DEF RunQueued
<1>26. CASE Swap
  <2>1. queue["batch"] = <<>>
    BY <1>26 DEF Swap, ShellInv, NothingUnderway
  <2>2. queue["batch"] \o queue["queued"] = queue["queued"]
    BY <1>2, <2>1, NamedSpots
  <2>3. queue' = [queue EXCEPT !["batch"] = queue["batch"] \o queue["queued"], !["queued"] = <<>>]
    BY <1>26, <2>2 DEF Swap
  <2> QED
    BY <1>26, <2>3, NamedSpots, JoinKeeps DEF Swap
<1>27. CASE RunBatch
  BY <1>27, <1>1, NamedSpots, TakeKeeps DEF RunBatch
<1> QED
  BY <1>5, <1>6, <1>7, <1>8, <1>9, <1>10, <1>11, <1>12, <1>13, <1>14, <1>15, <1>16, <1>17, <1>18,
      <1>19, <1>20, <1>21, <1>22, <1>23, <1>24, <1>25, <1>26, <1>27 DEF ShellNext

LEMMA UnderwayStep == ShellInv /\ [ShellNext]_shellVars => NothingUnderway'
<1> SUFFICES ASSUME ShellInv, [ShellNext]_shellVars PROVE NothingUnderway'
  OBVIOUS
<1>1. NothingUnderway /\ queue \in [Queues -> Seq(Nat)]
  BY DEF ShellInv, LinesShape
<1>2. CASE UNCHANGED shellVars
  BY <1>1, <1>2 DEF NothingUnderway, shellVars
<1>3. CASE ReplSubmit \/ InlineSubmit \/ TuiSubmit
  BY <1>1, <1>3 DEF NothingUnderway, ReplSubmit, InlineSubmit, TuiSubmit, Submits, Runs, Prompt
<1>4. CASE QueueTurn \/ Steer
  BY <1>1, NamedSpots, <1>4 DEF NothingUnderway, QueueTurn, Steer, Prompt, Pushed, Put
<1>5. CASE NewSession \/ ResumeSession \/ ForkSession \/ Rollback \/ TuiSwitch
  BY <1>1, NamedSpots, <1>5 DEF NothingUnderway, NewSession, ResumeSession, ForkSession, Rollback,
      TuiSwitch, SwitchTo, Prompt
<1>6. CASE Restart
  BY <1>1, NamedSpots, <1>6 DEF NothingUnderway, Restart, Empty, Prompt
<1>7. CASE SetMode \/ SetOther \/ TuiSetMode
  BY <1>1, <1>7 DEF NothingUnderway, SetMode, SetOther, TuiSetMode, Prompt
<1>8. CASE Plan \/ Approve \/ Reject
  BY <1>1, <1>8 DEF NothingUnderway, Plan, Approve, Reject, Runs, Prompt
<1>9. CASE NoteFails \/ ApplyNote
  BY <1>1, NamedSpots, <1>9 DEF NothingUnderway, NoteFails, ApplyNote, Pushed, Put
<1>10. CASE BeginTurn \/ RecordInput
  BY <1>1, <1>10 DEF NothingUnderway, BeginTurn, RecordInput
<1>11. CASE TakeSteering
  BY <1>1, NamedSpots, <1>11 DEF NothingUnderway, TakeSteering
<1>12. CASE RecordPending
  BY <1>1, NamedSpots, <1>12 DEF NothingUnderway, RecordPending, Pushed, Put
<1>13. CASE Think \/ NextIteration
  BY <1>1, <1>13 DEF NothingUnderway, Think, NextIteration
<1>14. CASE TurnEnds \/ TurnFails
  BY <1>1, NamedSpots, <1>14 DEF NothingUnderway, TurnEnds, TurnFails, Ends, Leftovers
<1>15. CASE TypeAhead \/ WatcherTypes
  BY <1>1, NamedSpots, <1>15 DEF NothingUnderway, TypeAhead, WatcherTypes, Pushed, Put
<1>16. CASE PressEsc \/ OpenCard
  BY <1>1, <1>16 DEF NothingUnderway, PressEsc, OpenCard
<1>17. CASE AnswerCard
  BY <1>1, NamedSpots, <1>17 DEF NothingUnderway, AnswerCard, Pushed, Put
<1>18. CASE StopWatcher
  BY <1>1, NamedSpots, <1>18 DEF NothingUnderway, StopWatcher
<1>19. CASE RunQueued \/ RunBatch
  BY <1>1, NamedSpots, <1>19 DEF NothingUnderway, RunQueued, RunBatch, Pushed, Put
<1>20. CASE BackToPrompt \/ BatchDone
  BY <1>1, <1>20 DEF NothingUnderway, BackToPrompt, BatchDone
<1>21. CASE Swap
  BY <1>1, NamedSpots, <1>21 DEF NothingUnderway, Swap
<1> QED
  BY <1>2, <1>3, <1>4, <1>5, <1>6, <1>7, <1>8, <1>9, <1>10, <1>11, <1>12, <1>13, <1>14, <1>15,
      <1>16, <1>17, <1>18, <1>19, <1>20, <1>21 DEF ShellNext

LEMMA ShellInitially == ShellInit => ShellInv
<1> SUFFICES ASSUME ShellInit PROVE ShellInv
  OBVIOUS
<1>1. LinesShape /\ NothingUnderway
  BY EmptyLines, NamedSpots DEF ShellInit, LinesShape, NothingUnderway, Empty
<1>2. Placed
  BY <1>1, PlacedNow
<1>3. \A p \in Spots : Kept[p] = <<>>
  BY <1>2, NamedSpots DEF ShellInit, Empty, Placed
<1>4. \A p \in Spots : LinesOf(Kept)[p] = {} /\ Distinct(Kept[p])
  BY <1>3, EmptyLines DEF LinesOf
<1>5. Parted(LinesOf(Kept), left, lines)
  BY <1>4 DEF Parted, ShellInit
<1> QED
  BY <1>1, <1>2, <1>4, <1>5, OnceIsParted DEF Placed, ShellInv, EveryLineOnce

LEMMA ShellStep == ShellInv /\ [ShellNext]_shellVars => ShellInv'
BY LinesStep, UnderwayStep DEF ShellInv

\* Whatever is typed at the prompt, ahead of a turn, into a card or a queue is
\* on record once, waits in one queue, or was given up with the session or with
\* an error shown: no order of turns, interrupts and switches loses a line or
\* runs it twice.
THEOREM LinesAreKeptOnce == ShellSpec => []EveryLineOnce
<1>1. ShellInv => EveryLineOnce
  BY DEF ShellInv
<1>2. QED BY <1>1, ShellInitially, ShellStep, PTL DEF ShellSpec
=============================================================================
