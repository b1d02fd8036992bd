----------------------------- MODULE ToolCalls ------------------------------
(***************************************************************************)
(* A batch of tool calls on its way through the runtime: the middlewares'  *)
(* before_tool_call, then ActionEngine::execute_batch with its gates       *)
(* (cancellation, budget, permission policy, operator approval, pre hooks, *)
(* pre guards), the bounded execution, and the recording of what came of   *)
(* it.  A batch of several calls that are all read-only or spawn_subagent  *)
(* takes the parallel path: all calls are gated, then all run at once,     *)
(* then all are finalized in order.  Any other batch goes call by call.    *)
(*                                                                         *)
(* Several agents (a runtime and the in-process subagents it spawned) run  *)
(* batches at once.  They share the file system, here one file, known by   *)
(* the version it holds (0: it does not exist) and its mtime; people edit  *)
(* it too.  Each agent has its own ExecutionContext, its own attack state  *)
(* with the file tracker, and its own session's checkpoint directory.      *)
(*                                                                         *)
(* The calls: "read" (read_file), "write" (write_file), "safe" (write_file *)
(* or edit_file with expected_hash), "spawn" (spawn_subagent), "fetch" (a  *)
(* read-only request that counts against the egress rate), "command"       *)
(* (execute_command), "click" (a browser action that writes) and "ghost"   *)
(* (a name the registry does not know).                                    *)
(***************************************************************************)
EXTENDS Integers, Sequences, SequencesExt, FiniteSets

CONSTANTS
  Agents,
  Scenarios,     \* [mode, approver, hooks, crew, batches, known]: the permission
                 \* mode, whether a card can be shown, whether there are user hooks,
                 \* who is at work, what may be asked for, and whether the file has
                 \* been read already
  MaxToolCalls,  \* ResourceBudget::max_tool_calls
  Rpm,           \* egress calls per window
  KeptPerPath,   \* MAX_CHECKPOINTS_PER_PATH
  MaxBatches,    \* bound: batches asked for in a behaviour
  MaxEdits,      \* bound: edits and restores by people
  MaxClock       \* bound: seconds that pass

Nobody == "nobody"
Unread == 0

ToolNames == {"read", "write", "safe", "spawn", "fetch", "command", "click", "ghost"}

ASSUME ToolCallsAssumption ==
  /\ Rpm \in Nat /\ MaxToolCalls \in Nat
  /\ KeptPerPath \in Nat \ {0}
  /\ MaxBatches \in Nat /\ MaxEdits \in Nat /\ MaxClock \in Nat
  /\ Nobody \notin Agents
  /\ \A s \in Scenarios : s.batches \subseteq Seq(ToolNames)

VARIABLES
  settings,  \* the scenario of this behaviour
  agent,     \* per agent: its turn, and the batch it is in
  file,      \* [version, mtime]
  lock,      \* who holds the file's write lock
  saved,     \* per agent: its checkpoints of the file, oldest first
  clock,
  fresh,     \* the next version to be written
  batches,
  edits,
  outside    \* somebody else changed the file between a write's hook and its rename

tcVars == <<settings, agent, file, lock, saved, clock, fresh, batches, edits, outside>>

\* Registry: what a concrete call does; an unknown tool counts as mutating.
Mutating(c) == c \notin {"read", "fetch"}
Known(c) == c # "ghost"
Egress(c) == c \in {"fetch", "command", "click"}
Writes(c) == c \in {"write", "safe"}

\* can_parallelize.
Parallel(b) == Len(b) > 1 /\ \A i \in DOMAIN b : b[i] = "spawn" \/ ~Mutating(b[i])

\* A turn's ExecutionContext, renewed at its start.
FreshExec == [cancelled |-> FALSE, expired |-> FALSE, used |-> 0]

NoBatch == [calls |-> <<>>, at |-> 1, stage |-> 1, slots |-> <<>>,
            log |-> <<>>, told |-> <<>>, approved |-> {}, slotted |-> {},
            pending |-> FALSE]

TCInit ==
  /\ settings \in Scenarios
  /\ agent = [a \in Agents |->
       [pc |-> "idle", exec |-> FreshExec, window |-> 0,
        seen |-> IF settings.known THEN 1 ELSE Unread,
        read |-> IF settings.known THEN 1 ELSE Unread, batch |-> NoBatch]]
  /\ file = [version |-> 1, mtime |-> 1]
  /\ lock = Nobody
  /\ saved = [a \in Agents |-> <<>>]
  /\ clock = 1
  /\ fresh = 2
  /\ batches = 0
  /\ edits = 0
  /\ outside = FALSE

Calls(a) == agent[a].batch.calls
At(a) == agent[a].batch.at
Call(a) == Calls(a)[At(a)]
Slot(a, i) == agent[a].batch.slots[i]

InBatch(a, pc) == agent[a].pc = pc /\ At(a) <= Len(Calls(a))

\* The parts of an agent's record that a step replaces.
Moves(a, pc, batch) ==
  agent' = [agent EXCEPT ![a] = [@ EXCEPT !.pc = pc, !.batch = batch]]

Elsewhere == UNCHANGED <<settings, file, lock, saved, clock, fresh, batches, edits, outside>>

-----------------------------------------------------------------------------
(***************************************************************************)
(* Before the batch.                                                       *)
(***************************************************************************)
\* The model asks for tools, in the turn under way or, once that has been
\* interrupted at the iteration boundary, in the next one.
Decide(a, b) ==
  /\ agent[a].pc = "idle" /\ a \in settings.crew
  /\ batches < MaxBatches
  /\ batches' = batches + 1
  /\ \E e \in {agent[a].exec, FreshExec} :
       /\ ~e.cancelled /\ ~e.expired
       /\ agent' = [agent EXCEPT ![a] =
            [@ EXCEPT !.pc = "before", !.exec = e,
                      !.batch = [NoBatch EXCEPT
                         !.calls = b,
                         !.slots = [i \in DOMAIN b |-> "new"]]]]
  /\ UNCHANGED <<settings, file, lock, saved, clock, fresh, edits, outside>>

\* GuardMiddleware: a pattern of a command line.
StaticVeto(c) == c = "command"

\* BrowserReadOnlyMiddleware.
BrowserVeto(c) == c = "click" /\ settings.mode = "read_only"

\* UserHookMiddleware: a blocking before_tool hook says no, or one fails under
\* on_failure=deny, whatever the call.
HookVeto(c) == settings.hooks

\* The next call's turn with the middlewares, or the gates of the first.
PastBefore(a) == IF At(a) = Len(Calls(a)) THEN "gate" ELSE "before"
NextBefore(a) ==
  [agent[a].batch EXCEPT !.at = IF At(a) = Len(Calls(a)) THEN 1 ELSE @ + 1]

\* before_tool_call of every middleware, for one call after the other.  An
\* egress call waits for a slot of the sliding window; the wait also ends,
\* without a slot, when the turn is cancelled or its time is over.
BeforeCall(a) ==
  /\ InBatch(a, "before")
  /\ ~BrowserVeto(Call(a))
  /\ \/ /\ Egress(Call(a)) /\ agent[a].window < Rpm
        /\ agent' = [agent EXCEPT ![a] =
             [@ EXCEPT !.window = agent[a].window + 1, !.pc = PastBefore(a),
                       !.batch = [NextBefore(a) EXCEPT !.slotted = @ \cup {At(a)}]]]
     \/ /\ Egress(Call(a)) => /\ agent[a].window >= Rpm
                              /\ agent[a].exec.cancelled \/ agent[a].exec.expired
        /\ Moves(a, PastBefore(a), NextBefore(a))
  /\ Elsewhere

\* The error of a veto leaves run_turn_inner and ends the turn, with none of
\* the batch's calls recorded.
Vetoed(a) ==
  /\ InBatch(a, "before")
  /\ StaticVeto(Call(a)) \/ BrowserVeto(Call(a)) \/ HookVeto(Call(a))
  /\ Moves(a, "idle", NoBatch)
  /\ Elsewhere

-----------------------------------------------------------------------------
(***************************************************************************)
(* The gates.  The two paths have them in a different order.               *)
(***************************************************************************)
Stages(a) ==
  IF Parallel(Calls(a)) THEN <<"policy", "hook", "guard", "approval">>
  ELSE <<"policy", "approval", "hook", "guard">>

Stage(a) == Stages(a)[agent[a].batch.stage]

AtStage(a, s) == InBatch(a, "gate") /\ Stage(a) = s

\* The event log of the batch: each call's own event, then its outcome.
CallEvent(i) == [call |-> i, what |-> "call"]
OutcomeEvent(i) == [call |-> i, what |-> "outcome"]
WithCall(batch, i) ==
  [batch EXCEPT !.log = IF Contains(@, CallEvent(i)) THEN @
                        ELSE Append(@, CallEvent(i))]
WithOutcome(batch, i) == [batch EXCEPT !.log = Append(@, OutcomeEvent(i))]

\* The next call's gates, or in the parallel path the next pass.
PastGates(batch) ==
  IF ~Parallel(batch.calls) THEN [pc |-> "run", batch |-> batch]
  ELSE IF batch.at < Len(batch.calls)
  THEN [pc |-> "gate", batch |-> [batch EXCEPT !.at = @ + 1, !.stage = 1]]
  ELSE [pc |-> "run", batch |-> [batch EXCEPT !.at = 1]]

AfterGates(a, batch) == Moves(a, PastGates(batch).pc, PastGates(batch).batch)

\* The call is answered with a blocked result: its events are written now,
\* the rest when it is finalized.
Rejected(b) ==
  WithOutcome(WithCall([b EXCEPT !.slots[b.at] = "blocked"], b.at), b.at)

Blocks(a) == AfterGates(a, Rejected(agent[a].batch))

\* On to the next gate; past the last one the call may run.
Passes(a, batch) ==
  IF batch.stage < Len(Stages(a))
  THEN Moves(a, "gate", [batch EXCEPT !.stage = @ + 1])
  ELSE AfterGates(a, [batch EXCEPT !.slots[batch.at] = "run"])

\* PermissionPolicy::evaluate (the tool lists are a veto that any call may meet).
Allows(mode, c) ==
  /\ mode # "plan"
  /\ mode = "read_only" => ~Mutating(c)

InPolicy(a) ==
  /\ ~agent[a].exec.cancelled /\ agent[a].exec.used < MaxToolCalls
  /\ Allows(settings.mode, Call(a))

\* try_consume_tool_call, which a cancelled turn does not reach.
Charged(e) == [e EXCEPT !.used = IF e.cancelled THEN @ ELSE @ + 1]

\* Cancellation, budget and policy, with no await between them but the
\* events of a call that is turned away.
PolicyGate(a) ==
  /\ AtStage(a, "policy")
  /\ LET b == agent[a].batch
         next == IF InPolicy(a) THEN [pc |-> "gate", batch |-> [b EXCEPT !.stage = @ + 1]]
                 ELSE PastGates(Rejected(b))
     IN agent' = [agent EXCEPT ![a] =
          [@ EXCEPT !.exec = Charged(agent[a].exec), !.pc = next.pc, !.batch = next.batch]]
  /\ Elsewhere

NeedsApproval(c) == settings.mode = "ask" /\ Mutating(c)

\* Fault: a call of a parallel batch is taken for read-only.
NeedsApprovalAlone(a) ==
  settings.mode = "ask" /\ Mutating(Call(a)) /\ ~Parallel(Calls(a))

MustAsk(a) == NeedsApproval(Call(a))

NotAsked(a) ==
  /\ AtStage(a, "approval")
  /\ ~MustAsk(a)
  /\ Passes(a, agent[a].batch)
  /\ Elsewhere

\* request_approval: the operator's answer, whenever it comes.
Approves(a) ==
  /\ AtStage(a, "approval") /\ MustAsk(a)
  /\ settings.approver
  /\ Passes(a, [agent[a].batch EXCEPT !.approved = @ \cup {At(a)}])
  /\ Elsewhere

\* The operator's no, or nobody to ask: fail closed.
Denies(a) ==
  /\ AtStage(a, "approval") /\ MustAsk(a)
  /\ Blocks(a)
  /\ Elsewhere

\* prune_checkpoints: the newest are kept.
Pruned(cks) ==
  IF Len(cks) <= KeptPerPath THEN cks
  ELSE SubSeq(cks, Len(cks) - KeptPerPath + 1, Len(cks))

\* CheckpointHook::checkpoint: the file as it is now, or a tombstone.
Checkpointed(a) ==
  [saved EXCEPT ![a] = Pruned(Append(@, [pre |-> file.version, post |-> 0]))]

\* CheckpointHook::pre_tool_use before a write; a checkpoint that cannot be
\* written blocks the call.
PreHooks(a) ==
  /\ AtStage(a, "hook")
  /\ \/ /\ saved' = IF Writes(Call(a)) THEN Checkpointed(a) ELSE saved
        /\ Passes(a, [agent[a].batch EXCEPT !.pending = Writes(Call(a))])
     \/ /\ Writes(Call(a))
        /\ saved' = saved
        /\ Blocks(a)
  /\ UNCHANGED <<settings, file, lock, clock, fresh, batches, edits, outside>>

\* FileTrackerPreGuard: an existing file must have been read since its mtime.
TrackerAllows(a) ==
  (Writes(Call(a)) /\ file.version # 0) =>
    agent[a].seen # Unread /\ agent[a].seen >= file.mtime

\* The pattern guards, by the calls they look at: ScopeGuard, the
\* DangerousCommandGuard and the ImmutableFieldGuard.
ScopeBlocks(c) == c \in {"fetch", "command"}
DangerousBlocks(c) == c \in {"command", "click"}
ImmutableBlocks(c) == c \in {"fetch", "command"}
PatternBlocks(c) == ScopeBlocks(c) \/ DangerousBlocks(c) \/ ImmutableBlocks(c)

\* GuardChain::run_pre.
\* The call event is on record before the verdict is acted on.  The
\* sequential path asks the guards of known tools only.
PreGuards(a) ==
  /\ AtStage(a, "guard")
  /\ LET b == WithCall(agent[a].batch, At(a))
     IN \/ TrackerAllows(a) /\ Passes(a, b)
        \/ /\ PatternBlocks(Call(a)) \/ ~TrackerAllows(a)
           /\ AfterGates(a, WithOutcome([b EXCEPT !.slots[At(a)] = "blocked"], At(a)))
  /\ Elsewhere

-----------------------------------------------------------------------------
(***************************************************************************)
(* Execution.                                                              *)
(***************************************************************************)
\* The calls that may run now: one, or in the parallel path all of them.
Turn(a, i) ==
  /\ agent[a].pc = "run"
  /\ i \in DOMAIN Calls(a)
  /\ Parallel(Calls(a)) \/ i = At(a)

Becomes(a, i, s) == Moves(a, "run", [agent[a].batch EXCEPT !.slots[i] = s])

\* execute_bounded: a cancelled context refuses; an unknown tool is an error.
Refuses(a, i) ==
  /\ Turn(a, i) /\ Slot(a, i) = "run"
  /\ agent[a].exec.cancelled \/ ~Known(Calls(a)[i])
  /\ Becomes(a, i, "failed")
  /\ Elsewhere

\* An expired turn does not refuse: the deadline of 0 loses the race, but
\* the future is polled for CLEANUP_GRACE all the same.
Starts(a, i) ==
  /\ Turn(a, i) /\ Slot(a, i) = "run"
  /\ ~agent[a].exec.cancelled /\ Known(Calls(a)[i])
  /\ Becomes(a, i, "running")
  /\ Elsewhere

\* run_bounded: when the deadline or the cancellation wins, the future is
\* dropped after its grace, and with it the lock it holds.
Interrupted(a, i) ==
  /\ Turn(a, i) /\ Slot(a, i) \in {"running", "checked"}
  /\ Becomes(a, i, "failed")
  /\ lock' = IF lock = a THEN Nobody ELSE lock
  /\ UNCHANGED <<settings, file, saved, clock, fresh, batches, edits, outside>>

\* A tool that touches no file, or fails by itself.
Returns(a, i) ==
  /\ Turn(a, i) /\ Slot(a, i) = "running"
  /\ \/ Calls(a)[i] \notin {"read", "write", "safe"} /\ Becomes(a, i, "ok")
     \/ Becomes(a, i, "failed")
  /\ Elsewhere

\* read_file.
Reads(a, i) ==
  /\ Turn(a, i) /\ Slot(a, i) = "running" /\ Calls(a)[i] = "read"
  /\ file.version # 0
  /\ agent' = [agent EXCEPT ![a] =
       [@ EXCEPT !.read = file.version,
                 !.batch = [agent[a].batch EXCEPT !.slots[i] = "ok"]]]
  /\ Elsewhere

\* file_lock, of this process.
LockIsFree == lock = Nobody

\* check_expected_hash: the file is what the agent last read.
HashAgrees(a, i) == Calls(a)[i] = "safe" => file.version = agent[a].read

\* Fault: the hash is compared before the lock is waited for.
ChecksUnlocked(a, i) ==
  /\ Turn(a, i) /\ Slot(a, i) = "running" /\ Writes(Calls(a)[i])
  /\ Becomes(a, i, IF HashAgrees(a, i) THEN "checked" ELSE "failed")
  /\ Elsewhere

\* file_lock, then the precondition; the lock is kept for the write only.
LocksAndChecks(a, i) ==
  /\ Turn(a, i) /\ Slot(a, i) = "running" /\ Writes(Calls(a)[i])
  /\ LockIsFree
  /\ IF HashAgrees(a, i)
     THEN Becomes(a, i, "checked") /\ lock' = a
     ELSE Becomes(a, i, "failed") /\ lock' = Nobody
  /\ UNCHANGED <<settings, file, saved, clock, fresh, batches, edits, outside>>

\* atomic_write.
Renamed == [version |-> fresh, mtime |-> clock]

\* The write, and the lock is released.  Interrupted after the rename, it
\* stands and is reported as a failure.
Replaces(a, i) ==
  /\ Turn(a, i) /\ Slot(a, i) = "checked"
  /\ file' = Renamed
  /\ fresh' = fresh + 1
  /\ lock' = Nobody
  /\ \E s \in {"ok", "failed"} : Becomes(a, i, s)
  /\ UNCHANGED <<settings, saved, clock, batches, edits, outside>>

-----------------------------------------------------------------------------
(***************************************************************************)
(* Finalization, in the order of the calls.                                *)
(***************************************************************************)
Settled(a) ==
  LET ended(i) == Slot(a, i) \in {"blocked", "ok", "failed"}
  IN IF Parallel(Calls(a)) THEN \A i \in DOMAIN Calls(a) : ended(i) ELSE ended(At(a))

\* FileTrackerPostGuard: the mtime is that of the file now, not of the
\* content that was read.
Tracked(a) ==
  IF Call(a) = "read" /\ Slot(a, At(a)) = "ok" /\ file.version # 0 THEN file.mtime ELSE agent[a].seen

\* CheckpointHook::post_tool_use.
PostHooked(a) ==
  IF agent[a].batch.pending /\ Slot(a, At(a)) = "ok" /\ saved[a] # <<>>
  THEN [saved EXCEPT ![a][Len(saved[a])].post = file.version]
  ELSE saved

\* Fault: a result that was never started is left unrecorded.
RecordedUnlessSkipped(a) ==
  LET b == agent[a].batch
  IN IF Slot(a, At(a)) = "blocked" \/ agent[a].exec.cancelled THEN b
     ELSE WithOutcome(b, At(a))

\* record_tool_result; a blocked call is on record already.
Recorded(a) ==
  LET b == agent[a].batch
  IN IF Slot(a, At(a)) = "blocked" THEN b ELSE WithOutcome(b, At(a))

\* Outcome event, post guards, post hooks, message; then the next call.
Finalize(a) ==
  /\ InBatch(a, "run") /\ Settled(a)
  /\ LET b == [Recorded(a) EXCEPT !.told = Append(@, At(a)), !.at = @ + 1,
                                  !.stage = 1, !.pending = FALSE]
     IN agent' = [agent EXCEPT ![a] =
          [@ EXCEPT !.seen = Tracked(a),
                    !.pc = IF b.at > Len(b.calls) THEN "returned"
                           ELSE IF Parallel(b.calls) THEN "run" ELSE "gate",
                    !.batch = b]]
  /\ saved' = PostHooked(a)
  /\ UNCHANGED <<settings, file, lock, clock, fresh, batches, edits, outside>>

\* The turn goes on to its next iteration.
BatchReturns(a) ==
  /\ agent[a].pc = "returned"
  /\ Moves(a, "idle", NoBatch)
  /\ Elsewhere

\* An event cannot be stored: the error ends the turn in mid-batch.  The
\* futures of running tools are dropped only by their own bounds, so this
\* happens between them.
AppendFails(a) ==
  /\ InBatch(a, "gate") \/ (InBatch(a, "run") /\ Settled(a))
  /\ Moves(a, "idle", NoBatch)
  /\ Elsewhere

-----------------------------------------------------------------------------
(***************************************************************************)
(* The operator, the clock and other people.                               *)
(***************************************************************************)
Exec(a, e) == agent' = [agent EXCEPT ![a] = [@ EXCEPT !.exec = e]]

Cancel(a) ==
  /\ agent[a].pc \notin {"idle", "returned"} /\ ~agent[a].exec.cancelled
  /\ Exec(a, [agent[a].exec EXCEPT !.cancelled = TRUE])
  /\ Elsewhere

\* Seen while an egress call waits; for a tool that runs it is Interrupted.
TurnExpires(a) ==
  /\ agent[a].pc = "before" /\ ~agent[a].exec.expired
  /\ Exec(a, [agent[a].exec EXCEPT !.expired = TRUE])
  /\ Elsewhere

WindowSlides(a) ==
  /\ agent[a].window > 0 /\ agent[a].pc = "before"
  /\ agent' = [agent EXCEPT ![a] = [@ EXCEPT !.window = 0]]
  /\ Elsewhere

Tick ==
  /\ clock < MaxClock
  /\ clock' = clock + 1
  /\ UNCHANGED <<settings, agent, file, lock, saved, fresh, batches, edits, outside>>

NoticedBy == outside' = (outside \/ \E a \in Agents : agent[a].batch.pending)

\* Somebody else saves the file, or removes it.
Edited ==
  /\ edits < MaxEdits
  /\ edits' = edits + 1
  /\ \/ file' = [version |-> fresh, mtime |-> clock] /\ fresh' = fresh + 1
     \/ file.version # 0 /\ file' = [version |-> 0, mtime |-> 0] /\ fresh' = fresh
  /\ NoticedBy
  /\ UNCHANGED <<settings, agent, lock, saved, clock, batches>>

\* restore_latest_checkpoint, by the operator.
Restore(a) ==
  /\ edits < MaxEdits /\ saved[a] # <<>>
  /\ edits' = edits + 1
  /\ LET v == Last(saved[a]).pre
     IN file' = [version |-> v, mtime |-> IF v = 0 THEN 0 ELSE clock]
  /\ NoticedBy
  /\ UNCHANGED <<settings, agent, lock, saved, clock, fresh, batches>>

ToolRuns(a) ==
  \E i \in DOMAIN Calls(a) :
    \/ Refuses(a, i) \/ Starts(a, i) \/ Interrupted(a, i) \/ Returns(a, i)
    \/ Reads(a, i) \/ LocksAndChecks(a, i) \/ Replaces(a, i)

Engine(a) ==
  \/ BeforeCall(a) \/ PolicyGate(a) \/ NotAsked(a) \/ PreHooks(a)
  \/ PreGuards(a) \/ ToolRuns(a)
  \/ Finalize(a) \/ BatchReturns(a)

TCNext ==
  \/ \E a \in Agents :
       \/ \E b \in settings.batches : Decide(a, b)
       \/ Engine(a) \/ Vetoed(a) \/ AppendFails(a)
       \/ Approves(a) \/ Denies(a)
       \/ Cancel(a) \/ TurnExpires(a) \/ WindowSlides(a) \/ Restore(a)
  \/ Tick \/ Edited

TCSpec == TCInit /\ [][TCNext]_tcVars

-----------------------------------------------------------------------------
(***************************************************************************)
(* Properties.                                                             *)
(***************************************************************************)
Effective == {"running", "checked"}

\* What runs was allowed to: nothing in plan mode, nothing that mutates in
\* read_only mode, and in ask mode nothing that mutates without the
\* operator's yes to this very call, whichever path the batch took and
\* however the operator's answer, Esc and the other calls fell out.
OnlyPermittedRuns ==
  \A a \in Agents : \A i \in DOMAIN Calls(a) :
    Slot(a, i) \in Effective =>
      /\ Allows(settings.mode, Calls(a)[i])
      /\ NeedsApproval(Calls(a)[i]) => i \in agent[a].batch.approved

\* When the batch returns to the conversation every call has one call event,
\* one outcome event after it, and one message, the messages in the calls'
\* order: whatever was blocked, cancelled half way or skipped.
EveryCallIsAnswered ==
  \A a \in Agents : agent[a].pc = "returned" =>
    LET b == agent[a].batch
        n == Len(b.calls)
        at(e) == SelectInSeq(b.log, LAMBDA x : x = e)
    IN /\ b.told = [i \in 1..n |-> i]
       /\ Len(b.log) = 2 * n
       /\ \A i \in 1..n : /\ at(CallEvent(i)) # 0
                          /\ at(CallEvent(i)) < at(OutcomeEvent(i))

Replacing(a, i) == Replaces(a, i) /\ file' # file

\* A write that names the hash of what it read replaces, of the versions
\* agents wrote, no other: the check and the rename are one step to every
\* other agent of the process.  (It is not to an editor outside it.)  And it
\* can be undone: the newest checkpoint of its session is of the very version
\* it replaces, although it was saved before the lock was taken and before the
\* operator and the guards had their say.
CheckedCanBeUndone ==
  [][\A a \in Agents : \A i \in DOMAIN Calls(a) :
       (Calls(a)[i] = "safe" /\ Replacing(a, i) /\ ~outside)
         => /\ file.version = agent[a].read
            /\ saved[a] # <<>> /\ Last(saved[a]).pre = file.version]_tcVars
=============================================================================
