------------------------------ MODULE TurnLoop ------------------------------
(***************************************************************************)
(* One agent runtime taking operator turns (holmes-runtime, runtime.rs).   *)
(* A turn iterates perceive, decide, act, verify and supervise until a     *)
(* final answer, a question, a budget, the deadline or an interrupt ends   *)
(* it.  The control state (task_control.rs) lives in memory; the session's *)
(* event log is what a later runtime rebuilds it from.  rebuild_inner      *)
(* folds over the events, so "log" is kept as the control state that the   *)
(* rebuild of the events written so far returns.                           *)
(*                                                                         *)
(* What a reply of the model says, whether a tool succeeds, when the       *)
(* operator presses Esc, when the deadline passes and which store call     *)
(* fails are the environment's choices.                                    *)
(***************************************************************************)
EXTENDS Integers, Sequences

CONSTANTS
    Sigs,           \* call signatures (tool and normalised arguments)
    MaxIterations,  \* agent.max_iterations
    MaxRepeat,      \* supervisor.max_repeat
    StagnationLimit,\* supervisor.stagnation_limit
    MaxVerify,      \* supervisor.max_verification_retries
    MaxTurnRebases, \* cognition.max_rebases
    MaxOverflow,    \* MAX_OVERFLOW_COMPACTIONS
    MaxActions,     \* MAX_RECENT_ACTIONS
    MaxTurnEvidence,\* MAX_EVIDENCE_REFS
    ModelCheck,     \* completion.model_check
    MaxTurns        \* bound on the number of turns explored

ASSUME TurnAssumption ==
    /\ MaxIterations \in Nat /\ MaxOverflow \in Nat
    /\ MaxRepeat \in Nat /\ StagnationLimit \in Nat /\ MaxVerify \in Nat
    /\ MaxTurnRebases \in Nat /\ MaxActions \in Nat /\ MaxTurnEvidence \in Nat
    /\ ModelCheck \in BOOLEAN /\ MaxTurns \in Nat

VARIABLES
    pc,       \* where the turn is
    turns,    \* turns begun
    t,        \* the locals of run_turn_inner and the turn's execution context
    cancel,   \* the interrupt flag shared with the terminal
    ctl,      \* TaskControlState of the runtime
    log,      \* the control state a rebuild of the event log returns
    sup,      \* the supervisor's memory
    synced,   \* the log and the control state have told the same story
    outcome   \* how the last turn ended

turnVars == <<pc, turns, t, cancel, ctl, log, sup, synced, outcome>>

----------------------------------------------------------------------------
(* The control state.                                                      *)

Actions == [sig : Sigs, ok : BOOLEAN]

\* An evidence record is the number of the contract whose target it shows,
\* 0 when it is bookkeeping, an observation or misses the target.
Controls ==
    [goal : BOOLEAN, sat : BOOLEAN, con : 0..MaxTurns, verified : BOOLEAN,
     ev : Seq(0..MaxTurns), acts : Seq(Actions), active : BOOLEAN,
     stalled : Nat]

FreshControl ==
    [goal |-> FALSE, sat |-> FALSE, con |-> 0, verified |-> FALSE,
     ev |-> <<>>, acts |-> <<>>, active |-> FALSE, stalled |-> 0]

\* The newest n entries of s.
Newest(s, n) == IF Len(s) > n THEN SubSeq(s, Len(s) - n + 1, Len(s)) ELSE s

FreshSupervisor == [sig |-> {}, count |-> 0, warned |-> FALSE]

\* Whether an operator's message derives a contract: it names a target (a
\* URL, an address, a domain or a path) and asks for an action on it.
Derives == BOOLEAN

\* A message that derives no contract leaves the one in force.
WithInput(c, derives) ==
    IF derives THEN [c EXCEPT !.con = @ + 1, !.verified = FALSE] ELSE c

WithGoal(c) == [c EXCEPT !.goal = TRUE, !.sat = FALSE]

\* A record is bound to the contract in force; it counts for its action
\* requirement only when it is an action that references its target.
EvidenceOf(c, hit) == IF hit THEN c.con ELSE 0

\* One call's outcome: an action record and, on success, evidence that
\* carries the contract's number when it references its target.
WithResult(c, sig, ok, hit) ==
    [c EXCEPT !.acts = Newest(Append(@, [sig |-> sig, ok |-> ok]), MaxActions),
              !.active = TRUE,
              !.ev = IF ok THEN Newest(Append(@, EvidenceOf(c, hit)), MaxTurnEvidence)
                     ELSE @]

\* Observations projected from the attack state are evidence of the runtime
\* alone: no event carries them.
WithUpdates(c, observed) ==
    IF observed THEN [c EXCEPT !.ev = Newest(Append(@, 0), MaxTurnEvidence)] ELSE c

WithEvaluatedAlways(c, satisfied) == [c EXCEPT !.sat = TRUE]

\* A GoalEvaluated event folded in by the rebuild, which knows nothing of
\* the contract's objective.
WithEvaluated(c, satisfied) == [c EXCEPT !.sat = satisfied]

Novel(c, sig) == \A i \in DOMAIN c.acts : c.acts[i].sig # sig

Unresolved(c) ==
    {s \in Sigs : \E i \in DOMAIN c.acts :
        /\ c.acts[i] = [sig |-> s, ok |-> FALSE]
        /\ \A j \in DOMAIN c.acts : j > i => c.acts[j] # [sig |-> s, ok |-> TRUE]}

\* How many of the newest actions share the newest one's signature.
TrailingRepeat(c) ==
    LET n == Len(c.acts) IN
    CHOOSE k \in 0..n :
        /\ \A i \in n - k + 1 .. n : c.acts[i].sig = c.acts[n].sig
        /\ k < n => c.acts[n - k].sig # c.acts[n].sig

GateRequiredByGoal(c) == c.goal \/ c.active

GateRequired(c) == c.goal \/ c.con > 0 \/ c.active

\* What verify_deterministic reports missing.
Gaps(c) ==
    \/ Unresolved(c) # {}
    \/ (c.goal /\ ~c.sat /\ c.ev = <<>>)
    \/ (c.con > 0 /\ \A i \in DOMAIN c.ev : c.ev[i] # c.con)

\* Something is left for the independent reviewer to judge.
NeedsGoalReview(c) == ModelCheck /\ ((c.goal /\ ~c.sat) \/ (c.con > 0 /\ ~c.verified))

\* The reviewer's verdict passes only when it cites evidence it was given,
\* which is evidence of the contract in force.
ReviewCanPass(c) == \E i \in DOMAIN c.ev : c.con > 0 => c.ev[i] = c.con

----------------------------------------------------------------------------
(* The turn.                                                               *)

\* iters: iterations so far; rejected: verification_failures; rebases:
\* cognitive_rebases; retry: recovery attempts of the decision in flight;
\* token, expired: the token is cancelled, the deadline has passed; late:
\* tool batches started after Esc.
Locals ==
    [iters : 0..MaxIterations, rejected : 0..(MaxVerify + 1),
     rebases : 0..(MaxTurnRebases + 1), retry : 0..(MaxOverflow + 1),
     token : BOOLEAN, expired : BOOLEAN, late : Nat]

NoLocals ==
    [iters |-> 0, rejected |-> 0, rebases |-> 0, retry |-> 0,
     token |-> FALSE, expired |-> FALSE, late |-> 0]

TurnInit ==
    /\ pc = "idle" /\ turns = 0 /\ t = NoLocals /\ cancel = FALSE
    /\ ctl = FreshControl /\ log = FreshControl /\ sup = FreshSupervisor
    /\ synced = TRUE /\ outcome = "none"

\* The turn returns how to its caller.
Ends(how) == pc' = "idle" /\ outcome' = how /\ t' = NoLocals

\* The turn goes on at next with the locals l.
Goes(next, l) == pc' = next /\ t' = l /\ UNCHANGED outcome

\* A new runtime rebuilds its control state from the log, if it can read it.
Seeded(fresh, reads) == IF fresh /\ reads THEN log ELSE ctl

\* run_turn with an input that derives a contract or not.  The terminal
\* clears the flag; the token is new; the control state is seeded.
StartTurn ==
    \E derives \in Derives, seeds, fresh \in BOOLEAN :
        /\ pc = "idle" /\ turns < MaxTurns
        /\ turns' = turns + 1
        /\ cancel' = FALSE
        /\ sup' = IF fresh THEN FreshSupervisor ELSE sup
        /\ log' = WithInput(log, derives)
        /\ ctl' = WithInput(Seeded(fresh, seeds), derives)
        /\ synced' = ((fresh /\ seeds) \/ synced)
        /\ pc' = "boundary" /\ t' = NoLocals /\ outcome' = "none"

\* The operator sets or clears the goal between two turns: the event is
\* written, the control state in memory is not told.
OperatorGoal ==
    /\ pc = "idle"
    /\ log' \in {WithGoal(log), [log EXCEPT !.goal = FALSE, !.sat = FALSE]}
    /\ synced' = FALSE
    /\ UNCHANGED <<pc, turns, t, cancel, ctl, sup, outcome>>

----------------------------------------------------------------------------
(* The iteration boundary.                                                 *)

InterruptedAtBoundary ==
    /\ pc = "boundary" /\ cancel
    /\ cancel' = FALSE
    /\ Ends("interrupted")
    /\ UNCHANGED <<turns, ctl, log, sup, synced>>

ExpiredAtBoundary ==
    /\ pc = "boundary" /\ ~cancel /\ t.expired
    /\ Ends("deadline")
    /\ UNCHANGED <<turns, cancel, ctl, log, sup, synced>>

BudgetSpent ==
    /\ pc = "boundary" /\ ~cancel /\ ~t.expired /\ t.iters >= MaxIterations
    /\ Ends("budget")
    /\ UNCHANGED <<turns, cancel, ctl, log, sup, synced>>

AskModelAnyway ==
    /\ pc = "boundary" /\ ~t.expired /\ t.iters < MaxIterations
    /\ Goes("thinking", t)
    /\ UNCHANGED <<turns, cancel, ctl, log, sup, synced>>

\* Steering and results are drained, the conversation is compacted if need
\* be and the model is asked.
AskModel ==
    /\ pc = "boundary" /\ ~cancel /\ ~t.expired /\ t.iters < MaxIterations
    /\ Goes("thinking", t)
    /\ UNCHANGED <<turns, cancel, ctl, log, sup, synced>>

----------------------------------------------------------------------------
(* Calls to the model race the token and the deadline.                     *)

InterruptedAs == IF t.expired THEN "deadline" ELSE "interrupted"

\* The deadline path leaves the flag as it is.
Interrupts ==
    /\ pc \in {"thinking", "verifying"} /\ (t.token \/ t.expired)
    /\ cancel' = (cancel /\ t.expired)
    /\ Ends(InterruptedAs)
    /\ UNCHANGED <<turns, ctl, log, sup, synced>>

\* The context is too large: compact and ask again, MaxOverflow times at
\* most, then truncate and ask once more.
Overflows ==
    /\ pc = "thinking" /\ t.retry <= MaxOverflow
    /\ \E shrinks \in BOOLEAN :
        Goes(pc, [t EXCEPT !.retry =
                    IF @ < MaxOverflow /\ shrinks THEN @ + 1 ELSE MaxOverflow + 1])
    /\ UNCHANGED <<turns, cancel, ctl, log, sup, synced>>

\* A store call, a middleware or the provider fails where nothing has been
\* updated yet, or the overflow outlasts its recovery: the turn stops with
\* no TurnComplete event.
Fails ==
    /\ pc # "idle"
    /\ Ends("error")
    /\ UNCHANGED <<turns, cancel, ctl, log, sup, synced>>

----------------------------------------------------------------------------
(* Supervision of an iteration that did not end the turn.                  *)

Stalled(c, progress) == [c EXCEPT !.stalled = IF progress THEN 0 ELSE @ + 1]

\* The call repeated and failed often enough to be acted upon.
Repeats(c) ==
    /\ c.acts # <<>> /\ ~c.acts[Len(c.acts)].ok
    /\ TrailingRepeat(c) >= MaxRepeat

LastSig(c) == {c.acts[Len(c.acts)].sig}

WarnedNow(c) == sup.warned /\ c.stalled # 0

Verdict(c) ==
    IF Repeats(c)
    THEN IF sup.sig # LastSig(c) THEN "change"
         ELSE IF TrailingRepeat(c) > sup.count THEN "stop" ELSE "continue"
    ELSE IF c.stalled < StagnationLimit THEN "continue"
    ELSE IF ~WarnedNow(c) THEN "reflect"
    ELSE IF c.stalled >= 2 * StagnationLimit THEN "stop" ELSE "continue"

\* advance_iteration and assess, on the control state c of this iteration.
Supervise(c, progress, l) ==
    LET s == Stalled(c, progress)
        v == Verdict(s)
    IN  /\ ctl' = s
        /\ sup' = [sig    |-> IF v = "change" THEN LastSig(s) ELSE sup.sig,
                   count  |-> IF v = "change" THEN TrailingRepeat(s) ELSE sup.count,
                   warned |-> WarnedNow(s) \/ v = "reflect"]
        /\ IF v = "stop" THEN Ends("needs_user") ELSE Goes("boundary", l)

----------------------------------------------------------------------------
(* The reply arrives.  A decision counts as an iteration whatever becomes  *)
(* of it.                                                                  *)

Decided == [t EXCEPT !.iters = @ + 1, !.retry = 0]

RebasedForFree ==
    /\ pc = "thinking"
    /\ Goes("boundary", t)
    /\ UNCHANGED <<turns, cancel, ctl, log, sup, synced>>

\* The ledger moved under the deliberation: the reply is discarded.
Rebased ==
    /\ pc = "thinking"
    /\ IF t.rebases >= MaxTurnRebases
       THEN Ends("error")
       ELSE Goes("boundary", [Decided EXCEPT !.rebases = @ + 1])
    /\ UNCHANGED <<turns, cancel, ctl, log, sup, synced>>

\* A plain answer while the ledger needs a structured finish, or calls that
\* fail the checks on bound experiments: a note, and the next iteration
\* without supervision.
TurnedBack ==
    /\ pc = "thinking"
    /\ Goes("boundary", Decided)
    /\ UNCHANGED <<turns, cancel, ctl, log, sup, synced>>

\* A plain answer: final at once only on a task that needs no gate.
Answers ==
    /\ pc = "thinking"
    /\ IF GateRequired(ctl) THEN Goes("verifying", Decided) ELSE Ends("final")
    /\ UNCHANGED <<turns, cancel, ctl, log, sup, synced>>

\* A finish that the ledger accepts always goes through the gate.
Finishes ==
    /\ pc = "thinking"
    /\ Goes("verifying", Decided)
    /\ UNCHANGED <<turns, cancel, ctl, log, sup, synced>>

\* ask_watson ends the turn with a question.
AsksWatson ==
    /\ pc = "thinking"
    /\ Ends("needs_user")
    /\ UNCHANGED <<turns, cancel, ctl, log, sup, synced>>

\* A finish the ledger rejects, a protocol violation, or a bare continue.
NoAction ==
    /\ pc = "thinking"
    /\ \E progress \in BOOLEAN : Supervise(ctl, progress, Decided)
    /\ UNCHANGED <<turns, cancel, log, synced>>

SetsGoal ==
    /\ pc = "thinking"
    /\ log' = WithGoal(log)
    /\ Supervise(WithGoal(ctl), TRUE, Decided)
    /\ UNCHANGED <<turns, cancel, synced>>

StartsTools ==
    /\ pc = "thinking"
    /\ Goes("acting", [Decided EXCEPT !.late = IF cancel THEN @ + 1 ELSE @])
    /\ UNCHANGED <<turns, cancel, ctl, log, sup, synced>>

\* The call's events are in the log before the control state sees its
\* result: a store call that fails in between ends the turn on the log alone.
ToolsReturn ==
    /\ pc = "acting"
    /\ \E sig \in Sigs, ok, hit, halfway, observed \in BOOLEAN :
        /\ log' = WithResult(log, sig, ok, hit)
        /\ IF halfway
           THEN Ends("error") /\ synced' = FALSE /\ UNCHANGED <<ctl, sup>>
           ELSE /\ Supervise(WithUpdates(WithResult(ctl, sig, ok, hit), observed),
                             (ok /\ Novel(ctl, sig)) \/ observed, t)
                /\ UNCHANGED synced
    /\ UNCHANGED <<turns, cancel>>

----------------------------------------------------------------------------
(* The completion gate.                                                    *)

\* record_goal_evaluated keeps nothing when there is no goal and no contract.
Standing(c) == c.goal \/ c.con > 0

\* The claim passes.  The runtime is marked before the event is written.
ClaimPasses ==
    /\ pc = "verifying" /\ ~Gaps(ctl) /\ (NeedsGoalReview(ctl) => ReviewCanPass(ctl))
    /\ ctl' = IF Standing(ctl)
              THEN [ctl EXCEPT !.sat = TRUE, !.verified = (ctl.con > 0)] ELSE ctl
    /\ \E halfway \in BOOLEAN :
        /\ log' = IF Standing(ctl) /\ ~halfway THEN WithEvaluated(log, TRUE) ELSE log
        /\ Ends(IF halfway THEN "error" ELSE "final")
    /\ UNCHANGED <<turns, cancel, sup, synced>>

\* The claim is rejected: fed back, or once the retries are spent the turn
\* ends with what is missing.
ClaimFails ==
    /\ pc = "verifying" /\ (Gaps(ctl) \/ NeedsGoalReview(ctl))
    /\ log' = IF Standing(ctl) THEN WithEvaluated(log, FALSE) ELSE log
    /\ IF t.rejected >= MaxVerify
       THEN Ends("partial") /\ UNCHANGED <<ctl, sup>>
       ELSE Supervise(ctl, FALSE, [t EXCEPT !.rejected = @ + 1])
    /\ UNCHANGED <<turns, cancel, synced>>

----------------------------------------------------------------------------
(* The operator, the clock and the bridge from the flag to the token.      *)

PressEsc ==
    /\ pc # "idle" /\ ~cancel
    /\ cancel' = TRUE
    /\ UNCHANGED <<pc, turns, t, ctl, log, sup, synced, outcome>>

Bridge ==
    /\ pc # "idle" /\ cancel /\ ~t.token
    /\ t' = [t EXCEPT !.token = TRUE]
    /\ UNCHANGED <<pc, turns, cancel, ctl, log, sup, synced, outcome>>

DeadlinePasses ==
    /\ pc # "idle" /\ ~t.expired
    /\ t' = [t EXCEPT !.expired = TRUE]
    /\ UNCHANGED <<pc, turns, cancel, ctl, log, sup, synced, outcome>>

\* What the turn itself does, apart from failing.
TurnStep ==
    \/ InterruptedAtBoundary \/ ExpiredAtBoundary \/ BudgetSpent \/ AskModel
    \/ Interrupts \/ Overflows
    \/ Rebased \/ TurnedBack \/ Answers \/ Finishes \/ AsksWatson \/ NoAction \/ SetsGoal
    \/ StartsTools \/ ToolsReturn \/ ClaimPasses \/ ClaimFails

TurnNext ==
    StartTurn \/ OperatorGoal \/ TurnStep \/ Fails \/ PressEsc \/ Bridge \/ DeadlinePasses

TurnSpec == TurnInit /\ [][TurnNext]_turnVars

----------------------------------------------------------------------------
(* Properties.                                                             *)

TurnTypeOK ==
    /\ pc \in {"idle", "boundary", "thinking", "acting", "verifying"}
    /\ turns \in 0..MaxTurns /\ t \in Locals /\ cancel \in BOOLEAN
    /\ ctl \in Controls /\ log \in Controls
    /\ sup \in [sig : SUBSET Sigs, count : Nat, warned : BOOLEAN]
    /\ synced \in BOOLEAN
    /\ outcome \in {"none", "error", "interrupted", "deadline", "budget",
                    "needs_user", "final", "partial"}

\* An answer is final only once what it claims has been verified: no plain
\* answer and no finish slips past a standing goal or the contract derived
\* from the operator's request, on whichever iteration of whichever turn
\* (run_completion_gate and its callers).
FinalIsVerified ==
    outcome = "final" => (ctl.goal => ctl.sat) /\ (ctl.con > 0 => ctl.verified)

\* Whatever the turns did, a runtime that rebuilds its control state from the
\* log stands where the live one stands: the same goal, contract and action
\* history, and no goal counted as reached that the live one still owes
\* (rebuild_inner against the live updates).
ResumeIsNoWeaker ==
    synced => /\ log.goal = ctl.goal /\ log.con = ctl.con
              /\ log.acts = ctl.acts /\ log.active = ctl.active
              /\ log.sat => ctl.sat

\* After Esc at most one more batch of tools starts: the one whose reply beat
\* the bridge (the boundary check, interruptible_llm and the bridge).
InterruptIsPrompt == t.late <= 1

\* What is left of a turn: its iterations, then where it stands in this one.
Remaining ==
    (MaxIterations - t.iters) * (MaxOverflow + 5)
    + CASE pc \in {"acting", "verifying"} -> MaxOverflow + 4
        [] pc = "boundary" -> MaxOverflow + 3
        [] pc = "thinking" -> MaxOverflow + 2 - t.retry
        [] OTHER -> 0

\* Every step a turn takes ends it or leaves less of it, whatever the model
\* keeps answering: no reply that is discarded, turned back, rejected or
\* retried is free.  As calls return, every turn ends (run_turn_inner,
\* decide_with_overflow_retry).
TurnRunsOut == [][TurnStep => pc' = "idle" \/ (Remaining' < Remaining /\ Remaining' >= 0)]_turnVars
=============================================================================
