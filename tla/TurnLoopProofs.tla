--------------------------- MODULE TurnLoopProofs ---------------------------
(***************************************************************************)
(* The turn loop for any limits and any number of turns: what a final       *)
(* answer has behind it, how promptly an interrupt is obeyed, that every    *)
(* turn runs out, and what a resumed session still demands.  And the        *)
(* cognitive loop for any number of rounds: what a decision acted on has    *)
(* been through.  And the client's calls over any chain of providers: that  *)
(* every call runs out.  The last section is about ResultDelivery: every    *)
(* terminal result is delivered once, for any number of tasks, processes,   *)
(* attempts, crashes and failing transactions.                              *)
(*                                                                         *)
(* None is inductive alone.  A final answer stays verified because only the *)
(* steps of a turn touch the control state, and no turn goes on with the    *)
(* outcome of the last one.  At most one batch starts late because a turn   *)
(* passes the boundary, which looks at the flag, between two batches.  And  *)
(* what is left of a turn is a natural number because a turn asks the model *)
(* only while an iteration is left.                                         *)
(***************************************************************************)
EXTENDS TurnLoop, Cognition, Providers, ResultDelivery, FiniteSetTheorems,
        SequenceTheorems, WellFoundedInduction, TLAPS

\* A control state after n turns: each turn derives one contract at most.
ControlsBy(n) == {c \in Controls : c.con <= n}

Places == {"idle", "boundary", "thinking", "acting", "verifying"}

Shape ==
    /\ pc \in Places /\ cancel \in BOOLEAN
    /\ turns \in 0..MaxTurns /\ t \in Locals
    /\ ctl \in ControlsBy(turns) /\ log \in ControlsBy(turns)

\* An outcome is of a turn that is over.
OutcomeIsOver == pc # "idle" => outcome = "none"

\* A batch that started late is running, or the turn is at the boundary with
\* the flag up.  The model is asked only while an iteration is left.
Punctual(place, l, flag) ==
    /\ l.late <= 1
    /\ l.late > 0 => flag /\ place # "thinking"
    /\ place = "thinking" => l.iters < MaxIterations

TurnInv ==
    /\ Shape
    /\ OutcomeIsOver /\ FinalIsVerified
    /\ Punctual(pc, t, cancel \/ pc = "idle")

-----------------------------------------------------------------------------
(* The operators on the control state.                                     *)

LEMMA NewestIsSeq ==
    ASSUME NEW S, NEW s \in Seq(S), NEW n \in Nat
    PROVE  Newest(s, n) \in Seq(S)
<1>1. CASE Len(s) > n
  <2>1. Len(s) - n + 1 \in 1..(Len(s) + 1) /\ Len(s) \in 0..Len(s)
    BY <1>1, LenProperties
  <2>2. SubSeq(s, Len(s) - n + 1, Len(s)) \in Seq(S)
    BY <2>1, SubSeqProperties
  <2>3. QED BY <1>1, <2>2 DEF Newest
<1>2. CASE ~(Len(s) > n)
  BY <1>2 DEF Newest
<1>3. QED BY <1>1, <1>2

LEMMA ControlSteps ==
    ASSUME NEW n \in 0..MaxTurns, NEW c \in ControlsBy(n), NEW b \in BOOLEAN
    PROVE  /\ WithGoal(c) \in ControlsBy(n) /\ WithEvaluated(c, b) \in ControlsBy(n)
           /\ Stalled(c, b) \in ControlsBy(n)
           /\ [c EXCEPT !.goal = FALSE, !.sat = FALSE] \in ControlsBy(n)
           /\ [c EXCEPT !.sat = TRUE, !.verified = b] \in ControlsBy(n)
<1>1. c \in Controls /\ c.con <= n /\ c.stalled \in Nat
  BY DEF ControlsBy, Controls
<1>2. \A g, s \in BOOLEAN : [c EXCEPT !.goal = g, !.sat = s] \in ControlsBy(n)
  BY <1>1 DEF ControlsBy, Controls
<1>3. \A s \in BOOLEAN : [c EXCEPT !.sat = s] \in ControlsBy(n)
  BY <1>1 DEF ControlsBy, Controls
<1>4. \A k \in Nat : [c EXCEPT !.stalled = k] \in ControlsBy(n)
  BY <1>1 DEF ControlsBy, Controls
<1>5. [c EXCEPT !.sat = TRUE, !.verified = b] \in ControlsBy(n)
  BY <1>1 DEF ControlsBy, Controls
<1>6. WithGoal(c) \in ControlsBy(n)
  BY <1>2 DEF WithGoal
<1>7. Stalled(c, b) \in ControlsBy(n)
  BY <1>1, <1>4 DEF Stalled
<1>8. QED BY <1>2, <1>3, <1>5, <1>6, <1>7 DEF WithEvaluated

LEMMA InputStep ==
    ASSUME NEW n \in 0..MaxTurns, n < MaxTurns, NEW c \in ControlsBy(n), NEW b \in BOOLEAN
    PROVE  WithInput(c, b) \in ControlsBy(n + 1)
<1>1. c \in Controls /\ c.con <= n /\ c.con \in 0..MaxTurns
  BY DEF ControlsBy, Controls
<1>2. c.con + 1 \in 0..MaxTurns /\ c.con + 1 <= n + 1 /\ c.con <= n + 1
  BY <1>1, TurnAssumption
<1>3. \A k \in 0..MaxTurns : k <= n + 1 =>
        [c EXCEPT !.con = k, !.verified = FALSE] \in ControlsBy(n + 1)
  BY <1>1 DEF ControlsBy, Controls
<1>4. c \in ControlsBy(n + 1)
  BY <1>1, <1>2 DEF ControlsBy
<1>5. QED BY <1>2, <1>3, <1>4 DEF WithInput

LEMMA ResultSteps ==
    ASSUME NEW n \in 0..MaxTurns, NEW c \in ControlsBy(n), NEW sig \in Sigs,
           NEW ok \in BOOLEAN, NEW hit \in BOOLEAN, NEW observed \in BOOLEAN
    PROVE  /\ WithResult(c, sig, ok, hit) \in ControlsBy(n)
           /\ WithUpdates(c, observed) \in ControlsBy(n)
<1>1. c \in Controls /\ c.con <= n /\ c.con \in 0..MaxTurns
      /\ c.ev \in Seq(0..MaxTurns) /\ c.acts \in Seq(Actions)
  BY DEF ControlsBy, Controls
<1>2. Append(c.acts, [sig |-> sig, ok |-> ok]) \in Seq(Actions)
  BY <1>1 DEF Actions
<1>3. EvidenceOf(c, hit) \in 0..MaxTurns /\ 0 \in 0..MaxTurns
  BY <1>1, TurnAssumption DEF EvidenceOf
<1>4. Append(c.ev, EvidenceOf(c, hit)) \in Seq(0..MaxTurns) /\ Append(c.ev, 0) \in Seq(0..MaxTurns)
  BY <1>1, <1>3
<1>5. /\ Newest(Append(c.acts, [sig |-> sig, ok |-> ok]), MaxActions) \in Seq(Actions)
      /\ Newest(Append(c.ev, EvidenceOf(c, hit)), MaxTurnEvidence) \in Seq(0..MaxTurns)
      /\ Newest(Append(c.ev, 0), MaxTurnEvidence) \in Seq(0..MaxTurns)
  BY <1>2, <1>4, NewestIsSeq, TurnAssumption
<1>6. \A acts \in Seq(Actions), ev \in Seq(0..MaxTurns) :
        /\ [c EXCEPT !.acts = acts, !.active = TRUE, !.ev = ev] \in ControlsBy(n)
        /\ [c EXCEPT !.ev = ev] \in ControlsBy(n)
  BY <1>1 DEF ControlsBy, Controls
<1>7. WithUpdates(c, observed) \in ControlsBy(n)
  BY <1>5, <1>6 DEF WithUpdates
<1>8. WithResult(c, sig, ok, hit) \in ControlsBy(n)
  <2> DEFINE acts == Newest(Append(c.acts, [sig |-> sig, ok |-> ok]), MaxActions)
             ev == IF ok THEN Newest(Append(c.ev, EvidenceOf(c, hit)), MaxTurnEvidence) ELSE c.ev
  <2>1. acts \in Seq(Actions) /\ ev \in Seq(0..MaxTurns)
    BY <1>1, <1>5
  <2>2. WithResult(c, sig, ok, hit) = [c EXCEPT !.acts = acts, !.active = TRUE, !.ev = ev]
    BY DEF WithResult
  <2> HIDE DEF acts, ev
  <2>3. QED BY <1>6, <2>1, <2>2
<1>9. QED BY <1>7, <1>8

-----------------------------------------------------------------------------
(* How a step of the turn leaves it.                                       *)

\* The turn ends, with anything but a final answer.
LEMMA EndsKeeps ==
    ASSUME TurnInv, NEW how, how # "final", Ends(how), turns' = turns,
           ctl' \in ControlsBy(turns), log' \in ControlsBy(turns), cancel' \in BOOLEAN
    PROVE  TurnInv'
<1>1. pc' = "idle" /\ outcome' = how /\ t' = NoLocals
  BY DEF Ends
<1>2. t' \in Locals /\ t'.late = 0
  BY <1>1, TurnAssumption DEF Locals, NoLocals
<1>3. Shape'
  BY <1>1, <1>2 DEF TurnInv, Shape, Places, ControlsBy
<1>4. QED BY <1>1, <1>2, <1>3 DEF TurnInv, OutcomeIsOver, FinalIsVerified, Punctual

\* The turn goes on.
LEMMA GoesKeeps ==
    ASSUME TurnInv, pc # "idle", NEW next \in Places \ {"idle"}, NEW l \in Locals,
           Goes(next, l), turns' = turns, ctl' \in ControlsBy(turns),
           log' \in ControlsBy(turns), cancel' = cancel, Punctual(next, l, cancel)
    PROVE  TurnInv'
<1>1. pc' = next /\ t' = l /\ outcome' = "none"
  BY DEF Goes, TurnInv, OutcomeIsOver
<1>2. Shape'
  BY <1>1 DEF TurnInv, Shape, ControlsBy
<1>3. QED BY <1>1, <1>2 DEF TurnInv, OutcomeIsOver, FinalIsVerified, Punctual

\* Supervision ends the turn or goes back to the boundary (advance_iteration,
\* assess).
LEMMA SuperviseKeeps ==
    ASSUME TurnInv, pc # "idle", NEW c \in ControlsBy(turns), NEW progress \in BOOLEAN,
           NEW l \in Locals, Supervise(c, progress, l), turns' = turns,
           log' \in ControlsBy(turns), l.late <= 1, l.late > 0 => cancel, cancel' = cancel
    PROVE  TurnInv'
<1>1. ctl' = Stalled(c, progress) /\ (Ends("needs_user") \/ Goes("boundary", l))
  BY DEF Supervise
<1>2. ctl' \in ControlsBy(turns)
  BY <1>1, ControlSteps DEF TurnInv, Shape
<1>3. CASE Ends("needs_user")
  BY <1>2, <1>3, EndsKeeps DEF TurnInv, Shape
<1>4. CASE Goes("boundary", l)
  <2>1. "boundary" \in Places \ {"idle"} /\ Punctual("boundary", l, cancel)
    BY DEF Places, Punctual
  <2>2. QED BY <1>2, <1>4, <2>1, GoesKeeps
<1>5. QED BY <1>1, <1>3, <1>4

\* The locals after a decision.
LEMMA AfterDecision ==
    ASSUME TurnInv, pc = "thinking"
    PROVE  /\ Decided \in Locals /\ Decided.late = 0
           /\ Decided.iters = t.iters + 1 /\ Decided.retry = 0
<1>1. t \in Locals /\ t.iters < MaxIterations /\ t.iters \in 0..MaxIterations /\ t.late = 0
  BY DEF TurnInv, Shape, Punctual, Locals
<1> DEFINE i == t.iters + 1
<1>2. i \in 0..MaxIterations /\ 0 \in 0..(MaxOverflow + 1)
  BY <1>1, TurnAssumption
<1>3. Decided = [t EXCEPT !.iters = i, !.retry = 0]
  BY DEF Decided
<1> HIDE DEF i
<1>4. /\ Decided \in Locals /\ Decided.late = t.late
      /\ Decided.iters = i /\ Decided.retry = 0
  BY <1>1, <1>2, <1>3 DEF Locals
<1>5. QED BY <1>1, <1>4 DEF i

LEMMA TurnInitially == TurnInit => TurnInv
<1> SUFFICES ASSUME TurnInit PROVE TurnInv
  OBVIOUS
<1>1. NoLocals \in Locals /\ NoLocals.late = 0
  BY TurnAssumption DEF NoLocals, Locals
<1>2. FreshControl \in Controls /\ FreshControl.con = 0
  <2>1. <<>> \in Seq(0..MaxTurns) /\ <<>> \in Seq(Actions) /\ 0 \in 0..MaxTurns
    BY TurnAssumption
  <2>2. QED BY <2>1 DEF FreshControl, Controls
<1>3. FreshControl \in ControlsBy(0)
  BY <1>2 DEF ControlsBy
<1>4. ctl \in ControlsBy(turns) /\ log \in ControlsBy(turns)
  BY <1>3 DEF TurnInit
<1>5. Shape
  <2>1. turns \in 0..MaxTurns
    BY TurnAssumption DEF TurnInit
  <2>2. pc \in Places /\ cancel \in BOOLEAN /\ t \in Locals
    BY <1>1 DEF TurnInit, Places
  <2>3. QED BY <1>4, <2>1, <2>2 DEF Shape
<1>6. QED
  BY <1>1, <1>5 DEF TurnInit, TurnInv, OutcomeIsOver, FinalIsVerified, Punctual

-----------------------------------------------------------------------------
(* The steps.                                                              *)

\* A step of the turn that ends it or goes on, and leaves the control state, the
\* log and the flag as they are.
LEMMA PlainStep ==
    ASSUME TurnInv, pc # "idle", UNCHANGED <<turns, ctl, log>>, cancel' \in BOOLEAN,
           \/ \E how : how # "final" /\ Ends(how)
           \/ \E next \in Places \ {"idle"}, l \in Locals :
                Goes(next, l) /\ Punctual(next, l, cancel) /\ cancel' = cancel
    PROVE  TurnInv'
<1>1. ctl' \in ControlsBy(turns) /\ log' \in ControlsBy(turns)
  BY DEF TurnInv, Shape
<1>2. QED BY <1>1, EndsKeeps, GoesKeeps

LEMMA StartsTurn ==
    ASSUME TurnInv, StartTurn
    PROVE  TurnInv'
<1>1. PICK derives \in BOOLEAN, seeds, fresh \in BOOLEAN :
        /\ log' = WithInput(log, derives)
        /\ ctl' = WithInput(Seeded(fresh, seeds), derives)
  BY DEF StartTurn, Derives
<1>2. /\ turns < MaxTurns /\ turns' = turns + 1 /\ cancel' = FALSE
      /\ pc' = "boundary" /\ t' = NoLocals /\ outcome' = "none"
  BY DEF StartTurn
<1>3. /\ turns \in 0..MaxTurns /\ log \in ControlsBy(turns)
      /\ Seeded(fresh, seeds) \in ControlsBy(turns)
  BY DEF TurnInv, Shape, Seeded
<1>4. log' \in ControlsBy(turns') /\ ctl' \in ControlsBy(turns')
  BY <1>1, <1>2, <1>3, InputStep
<1>5. t' \in Locals /\ t'.late = 0
  BY <1>2, TurnAssumption DEF NoLocals, Locals
<1>6. turns' \in 0..MaxTurns
  BY <1>2, <1>3, TurnAssumption
<1>7. Shape'
  BY <1>2, <1>4, <1>5, <1>6 DEF Shape, Places, ControlsBy
<1>8. QED BY <1>2, <1>5, <1>7 DEF TurnInv, OutcomeIsOver, FinalIsVerified, Punctual

LEMMA GoalSet ==
    ASSUME TurnInv, OperatorGoal
    PROVE  TurnInv'
<1>1. /\ log' \in {WithGoal(log), [log EXCEPT !.goal = FALSE, !.sat = FALSE]}
      /\ UNCHANGED <<pc, turns, t, cancel, ctl, outcome>>
  BY DEF OperatorGoal
<1>2. log' \in ControlsBy(turns)
  BY <1>1, ControlSteps DEF TurnInv, Shape
<1>3. Shape'
  BY <1>1, <1>2 DEF TurnInv, Shape, ControlsBy
<1>4. QED BY <1>1, <1>3 DEF TurnInv, OutcomeIsOver, FinalIsVerified, Punctual

\* Steps that keep the control state: the boundary, the calls to the model and
\* the replies that change nothing.
LEMMA QuietSteps ==
    ASSUME TurnInv,
           \/ InterruptedAtBoundary \/ ExpiredAtBoundary \/ BudgetSpent \/ AskModel
           \/ Interrupts \/ Overflows \/ Fails
           \/ Rebased \/ TurnedBack \/ Finishes \/ AsksWatson \/ StartsTools
    PROVE  TurnInv'
<1>1. t \in Locals /\ cancel \in BOOLEAN /\ t.late <= 1
  BY DEF TurnInv, Shape, Punctual
<1>2. CASE InterruptedAtBoundary
  BY <1>2, PlainStep DEF InterruptedAtBoundary
<1>3. CASE ExpiredAtBoundary
  BY <1>1, <1>3, PlainStep DEF ExpiredAtBoundary
<1>4. CASE BudgetSpent
  BY <1>1, <1>4, PlainStep DEF BudgetSpent
<1>5. CASE AskModel
  <2>1. Punctual("thinking", t, cancel) /\ "thinking" \in Places \ {"idle"}
    BY <1>5 DEF AskModel, TurnInv, Punctual, Places
  <2>2. QED BY <1>1, <1>5, <2>1, PlainStep DEF AskModel
<1>6. CASE Interrupts
  <2>1. pc # "idle" /\ InterruptedAs # "final" /\ cancel' \in BOOLEAN
    BY <1>6 DEF Interrupts, InterruptedAs
  <2>2. QED BY <1>6, <2>1, PlainStep DEF Interrupts
<1>7. CASE Overflows
  <2>1. pc = "thinking" /\ t.retry \in 0..MaxOverflow
    BY <1>1, <1>7, TurnAssumption DEF Overflows, Locals
  <2>2. PICK r \in 0..(MaxOverflow + 1) : Goes(pc, [t EXCEPT !.retry = r])
    BY <1>7, <2>1, TurnAssumption DEF Overflows
  <2> DEFINE l == [t EXCEPT !.retry = r]
  <2>3. l \in Locals /\ l.late = t.late /\ l.iters = t.iters
    BY <1>1 DEF Locals
  <2> HIDE DEF l
  <2>4. Punctual("thinking", l, cancel) /\ "thinking" \in Places \ {"idle"}
    BY <2>1, <2>3 DEF TurnInv, Punctual, Places
  <2>5. Goes("thinking", l)
    BY <2>1, <2>2 DEF l
  <2>6. QED BY <1>1, <1>7, <2>1, <2>3, <2>4, <2>5, PlainStep DEF Overflows
<1>8. CASE Fails
  BY <1>1, <1>8, PlainStep DEF Fails
<1>9. CASE Rebased
  <2>1. CASE Ends("error")
    BY <1>1, <1>9, <2>1, PlainStep DEF Rebased
  <2>2. CASE ~(t.rebases >= MaxTurnRebases)
    <3> DEFINE l == [Decided EXCEPT !.rebases = @ + 1]
    <3>1. pc = "thinking" /\ Goes("boundary", l)
      BY <1>9, <2>2 DEF Rebased
    <3>2. Decided.rebases = t.rebases /\ t.rebases \in 0..(MaxTurnRebases + 1)
      BY <1>1 DEF Decided, Locals
    <3>3. l \in Locals /\ l.late = 0
      BY <2>2, <3>1, <3>2, AfterDecision, TurnAssumption DEF Locals
    <3> HIDE DEF l
    <3>4. Punctual("boundary", l, cancel) /\ "boundary" \in Places \ {"idle"}
      BY <3>3 DEF Punctual, Places
    <3>5. QED BY <1>1, <1>9, <3>1, <3>3, <3>4, PlainStep DEF Rebased
  <2>3. QED BY <1>9, <2>1, <2>2 DEF Rebased
<1>10. CASE TurnedBack
  <2>1. pc = "thinking"
    BY <1>10 DEF TurnedBack
  <2>2. Punctual("boundary", Decided, cancel) /\ "boundary" \in Places \ {"idle"}
    BY <2>1, AfterDecision DEF Punctual, Places
  <2>3. QED BY <1>1, <1>10, <2>1, <2>2, AfterDecision, PlainStep DEF TurnedBack
<1>11. CASE Finishes
  <2>1. pc = "thinking"
    BY <1>11 DEF Finishes
  <2>2. Punctual("verifying", Decided, cancel) /\ "verifying" \in Places \ {"idle"}
    BY <2>1, AfterDecision DEF Punctual, Places
  <2>3. QED BY <1>1, <1>11, <2>1, <2>2, AfterDecision, PlainStep DEF Finishes
<1>12. CASE AsksWatson
  BY <1>1, <1>12, PlainStep DEF AsksWatson
<1>13. CASE StartsTools
  <2> DEFINE l == [Decided EXCEPT !.late = IF cancel THEN @ + 1 ELSE @]
  <2>1. pc = "thinking" /\ Goes("acting", l)
    BY <1>13 DEF StartsTools
  <2>2. Decided \in Locals /\ Decided.late = 0
    BY <2>1, AfterDecision
  <2>3. l \in Locals /\ l.late = (IF cancel THEN 1 ELSE 0)
    BY <2>2 DEF Locals
  <2> HIDE DEF l
  <2>4. Punctual("acting", l, cancel) /\ "acting" \in Places \ {"idle"}
    BY <2>3 DEF Punctual, Places
  <2>5. QED BY <1>1, <1>13, <2>1, <2>3, <2>4, PlainStep DEF StartsTools
<1>14. QED
  BY <1>2, <1>3, <1>4, <1>5, <1>6, <1>7, <1>8, <1>9, <1>10, <1>11, <1>12, <1>13

LEMMA AnswersStep ==
    ASSUME TurnInv, Answers
    PROVE  TurnInv'
<1>1. pc = "thinking" /\ UNCHANGED <<turns, ctl, log, cancel>>
  BY DEF Answers
<1>2. CASE GateRequired(ctl)
  <2>1. Goes("verifying", Decided)
    BY <1>2 DEF Answers
  <2>2. Punctual("verifying", Decided, cancel) /\ "verifying" \in Places \ {"idle"}
    BY <1>1, AfterDecision DEF Punctual, Places
  <2>3. QED BY <1>1, <2>1, <2>2, AfterDecision, PlainStep DEF TurnInv, Shape
<1>3. CASE ~GateRequired(ctl)
  <2>1. pc' = "idle" /\ outcome' = "final" /\ t' = NoLocals
    BY <1>3 DEF Answers, Ends
  <2>2. t' \in Locals /\ t'.late = 0
    BY <2>1, TurnAssumption DEF Locals, NoLocals
  <2>3. FinalIsVerified'
    BY <1>1, <1>3 DEF GateRequired, FinalIsVerified
  <2>4. Shape'
    BY <1>1, <2>1, <2>2 DEF TurnInv, Shape, Places, ControlsBy
  <2>5. QED BY <2>1, <2>2, <2>3, <2>4 DEF TurnInv, OutcomeIsOver, Punctual
<1>4. QED BY <1>2, <1>3

\* What a claim that passes leaves.
LEMMA ClaimPassesStep ==
    ASSUME TurnInv, ClaimPasses
    PROVE  TurnInv'
<1>1. turns' = turns /\ cancel' = cancel /\ pc # "idle"
  BY DEF ClaimPasses
<1>2. turns \in 0..MaxTurns /\ ctl \in ControlsBy(turns) /\ log \in ControlsBy(turns)
      /\ cancel \in BOOLEAN
  BY DEF TurnInv, Shape
<1> DEFINE b == ctl.con > 0
<1>3. /\ b \in BOOLEAN
      /\ ctl' = IF Standing(ctl) THEN [ctl EXCEPT !.sat = TRUE, !.verified = b] ELSE ctl
  BY DEF ClaimPasses
<1> HIDE DEF b
<1>4. ctl' \in ControlsBy(turns)
  BY <1>2, <1>3, ControlSteps
<1>5. /\ log' \in {WithEvaluated(log, TRUE), log}
      /\ pc' = "idle" /\ t' = NoLocals /\ outcome' \in {"final", "error"}
  BY DEF ClaimPasses, Ends
<1>6. log' \in ControlsBy(turns)
  BY <1>2, <1>5, ControlSteps
<1>7. (ctl'.goal => ctl'.sat) /\ (ctl'.con > 0 => ctl'.verified)
  <2>1. CASE Standing(ctl)
    <3>1. ctl' = [ctl EXCEPT !.sat = TRUE, !.verified = b] /\ ctl \in Controls
      BY <1>2, <1>3, <2>1 DEF ControlsBy
    <3>2. ctl'.sat = TRUE /\ ctl'.verified = b /\ ctl'.con = ctl.con
      BY <3>1 DEF Controls
    <3>3. QED BY <3>2 DEF b
  <2>2. CASE ~Standing(ctl)
    BY <1>3, <2>2 DEF Standing
  <2>3. QED BY <2>1, <2>2
<1>8. t' \in Locals /\ t'.late = 0
  BY <1>5, TurnAssumption DEF Locals, NoLocals
<1>9. Shape'
  BY <1>1, <1>2, <1>4, <1>5, <1>6, <1>8 DEF Shape, Places, ControlsBy
<1>10. QED
  BY <1>5, <1>7, <1>8, <1>9 DEF TurnInv, OutcomeIsOver, FinalIsVerified, Punctual

\* The steps that are supervised.
LEMMA SupervisedSteps ==
    ASSUME TurnInv, NoAction \/ SetsGoal \/ ToolsReturn \/ ClaimFails
    PROVE  TurnInv'
<1>1. /\ turns \in 0..MaxTurns /\ ctl \in ControlsBy(turns) /\ log \in ControlsBy(turns)
      /\ t \in Locals /\ cancel \in BOOLEAN /\ t.late <= 1
  BY DEF TurnInv, Shape, Punctual
<1>2. pc # "idle" /\ turns' = turns /\ cancel' = cancel
  BY DEF NoAction, SetsGoal, ToolsReturn, ClaimFails
<1>3. t.late > 0 => cancel
  BY <1>2 DEF TurnInv, Punctual
<1>4. CASE NoAction
  <2>1. pc = "thinking" /\ log' \in ControlsBy(turns)
    BY <1>1, <1>4 DEF NoAction
  <2>2. Decided \in Locals /\ Decided.late = 0
    BY <2>1, AfterDecision
  <2>3. PICK progress \in BOOLEAN : Supervise(ctl, progress, Decided)
    BY <1>4 DEF NoAction
  <2>4. QED BY <1>1, <1>2, <2>1, <2>2, <2>3, SuperviseKeeps
<1>5. CASE SetsGoal
  <2>1. pc = "thinking" /\ log' = WithGoal(log) /\ Supervise(WithGoal(ctl), TRUE, Decided)
    BY <1>5 DEF SetsGoal
  <2>2. Decided \in Locals /\ Decided.late = 0
    BY <2>1, AfterDecision
  <2>3. log' \in ControlsBy(turns) /\ WithGoal(ctl) \in ControlsBy(turns)
    BY <1>1, <2>1, ControlSteps
  <2>4. TRUE \in BOOLEAN /\ Decided.late <= 1 /\ ~(Decided.late > 0)
    BY <2>2
  <2>5. QED BY <1>2, <2>1, <2>2, <2>3, <2>4, SuperviseKeeps
<1>6. CASE ToolsReturn
  <2>1. PICK sig \in Sigs, ok, hit, halfway, observed \in BOOLEAN :
          /\ log' = WithResult(log, sig, ok, hit)
          /\ IF halfway THEN Ends("error") /\ ctl' = ctl
             ELSE Supervise(WithUpdates(WithResult(ctl, sig, ok, hit), observed),
                            (ok /\ Novel(ctl, sig)) \/ observed, t)
    BY <1>6 DEF ToolsReturn
  <2>2. log' \in ControlsBy(turns)
    BY <1>1, <2>1, ResultSteps
  <2>3. WithUpdates(WithResult(ctl, sig, ok, hit), observed) \in ControlsBy(turns)
    BY <1>1, ResultSteps
  <2>4. CASE halfway
    BY <1>1, <1>2, <2>1, <2>2, <2>4, EndsKeeps
  <2>5. CASE ~halfway
    <3>1. PICK progress \in BOOLEAN :
            Supervise(WithUpdates(WithResult(ctl, sig, ok, hit), observed), progress, t)
      BY <2>1, <2>5
    <3>2. QED BY <1>1, <1>2, <1>3, <2>2, <2>3, <3>1, SuperviseKeeps
  <2>6. QED BY <2>4, <2>5
<1>7. CASE ClaimFails
  <2>1. log' \in {WithEvaluated(log, FALSE), log}
    BY <1>7 DEF ClaimFails
  <2>2. log' \in ControlsBy(turns)
    BY <1>1, <2>1, ControlSteps
  <2>3. CASE t.rejected >= MaxVerify
    <3>1. Ends("partial") /\ ctl' = ctl
      BY <1>7, <2>3 DEF ClaimFails
    <3>2. QED BY <1>1, <1>2, <2>2, <3>1, EndsKeeps
  <2>4. CASE ~(t.rejected >= MaxVerify)
    <3> DEFINE l == [t EXCEPT !.rejected = @ + 1]
    <3>1. Supervise(ctl, FALSE, l)
      BY <1>7, <2>4 DEF ClaimFails
    <3>2. l \in Locals /\ l.late = t.late
      BY <1>1, <2>4, TurnAssumption DEF Locals
    <3> HIDE DEF l
    <3>3. QED BY <1>1, <1>2, <1>3, <2>2, <3>1, <3>2, SuperviseKeeps
  <2>5. QED BY <2>3, <2>4
<1>8. QED BY <1>4, <1>5, <1>6, <1>7

\* Esc, the bridge to the token and the clock.
LEMMA OutsideSteps ==
    ASSUME TurnInv, PressEsc \/ Bridge \/ DeadlinePasses
    PROVE  TurnInv'
<1>1. UNCHANGED <<pc, turns, ctl, log, outcome>> /\ pc # "idle"
  BY DEF PressEsc, Bridge, DeadlinePasses
<1>2. cancel' \in BOOLEAN /\ (cancel => cancel')
  BY DEF PressEsc, Bridge, DeadlinePasses, TurnInv, Shape
<1>3. t' \in Locals /\ t'.late = t.late /\ t'.iters = t.iters
  <2>1. t \in Locals
    BY DEF TurnInv, Shape
  <2>2. CASE PressEsc
    BY <2>1, <2>2 DEF PressEsc
  <2>3. CASE Bridge
    BY <2>1, <2>3 DEF Bridge, Locals
  <2>4. CASE DeadlinePasses
    BY <2>1, <2>4 DEF DeadlinePasses, Locals
  <2>5. QED BY <2>2, <2>3, <2>4
<1>4. Shape'
  BY <1>1, <1>2, <1>3 DEF TurnInv, Shape, ControlsBy
<1>5. QED
  BY <1>1, <1>2, <1>3, <1>4 DEF TurnInv, OutcomeIsOver, FinalIsVerified, Punctual

LEMMA TurnStepKeeps == TurnInv /\ [TurnNext]_turnVars => TurnInv'
<1> SUFFICES ASSUME TurnInv, [TurnNext]_turnVars PROVE TurnInv'
  OBVIOUS
<1>1. CASE UNCHANGED turnVars
  BY <1>1 DEF turnVars, TurnInv, Shape, OutcomeIsOver, FinalIsVerified, Punctual, ControlsBy
<1>2. CASE TurnNext
  BY <1>2, StartsTurn, GoalSet, QuietSteps, AnswersStep, ClaimPassesStep, SupervisedSteps,
     OutsideSteps DEF TurnNext, TurnStep
<1>3. QED BY <1>1, <1>2

LEMMA TurnInvariant == TurnSpec => []TurnInv
BY TurnInitially, TurnStepKeeps, PTL DEF TurnSpec

\* No final answer of any turn leaves a standing goal or contract unverified,
\* for any limits and any number of turns (run_completion_gate).
THEOREM FinalAnswersAreVerified == TurnSpec => []FinalIsVerified
<1>1. TurnInv => FinalIsVerified
  BY DEF TurnInv
<1>2. QED BY <1>1, TurnInvariant, PTL

\* However long a turn may be, at most one batch of tools starts after Esc
\* (the boundary check and interruptible_llm).
THEOREM InterruptsArePrompt == TurnSpec => []InterruptIsPrompt
<1>1. TurnInv => InterruptIsPrompt
  BY DEF TurnInv, Punctual, InterruptIsPrompt
<1>2. QED BY <1>1, TurnInvariant, PTL

-----------------------------------------------------------------------------
(* What is left of a turn.                                                 *)

\* Remaining, apart: the iterations that are left, and this one.
Later == (MaxIterations - t.iters) * (MaxOverflow + 5)
Here ==
    CASE pc \in {"acting", "verifying"} -> MaxOverflow + 4
      [] pc = "boundary" -> MaxOverflow + 3
      [] pc = "thinking" -> MaxOverflow + 2 - t.retry
      [] OTHER -> 0

LEMMA OneLess ==
    ASSUME NEW m \in Nat, NEW i \in 0..m, NEW k \in Nat
    PROVE  /\ (m - i) * k \in Nat
           /\ i < m => (m - i) * k = (m - (i + 1)) * k + k
<1> DEFINE d == m - i
<1>1. d \in Nat
  OBVIOUS
<1> HIDE DEF d
<1>2. d * k \in Nat
  BY <1>1
<1>3. (d - 1) * k + k = d * k
  BY <1>1
<1>4. m - (i + 1) = d - 1
  BY DEF d
<1>5. QED BY <1>2, <1>3, <1>4 DEF d

LEMMA LessInAll ==
    ASSUME NEW later \in Nat, NEW here \in Nat, NEW here1 \in Nat, NEW k \in Nat,
           here1 <= k + 4
    PROVE  later + here1 < (later + (k + 5)) + here /\ later + here1 >= 0
OBVIOUS

LEMMA LessHere ==
    ASSUME NEW later \in Nat, NEW here \in Nat, NEW here1 \in Nat, here1 < here
    PROVE  later + here1 < later + here /\ later + here1 >= 0
OBVIOUS

LEMMA LaterIsNat ==
    ASSUME Shape PROVE Later \in Nat
BY OneLess, TurnAssumption DEF Shape, Locals, Later

\* A decision uses up an iteration.
LEMMA DecisionCosts ==
    ASSUME TurnInv, Shape', pc = "thinking", t'.iters = t.iters + 1,
           pc' \in {"boundary", "acting", "verifying"}
    PROVE  Remaining' < Remaining /\ Remaining' >= 0
<1>1. /\ t.iters \in 0..MaxIterations /\ t.iters < MaxIterations
      /\ t.retry \in 0..(MaxOverflow + 1)
  BY DEF TurnInv, Shape, Punctual, Locals
<1>2. Later' \in Nat
  BY LaterIsNat, TurnAssumption, OneLess DEF Shape, Locals, Later
<1>3. Later = Later' + (MaxOverflow + 5)
  BY <1>1, OneLess, TurnAssumption DEF Later
<1>4. Here >= 1 /\ Here' \in Nat /\ Here' <= MaxOverflow + 4 /\ Here \in Nat
  BY <1>1, TurnAssumption DEF Here
<1>5. Remaining = Later + Here /\ Remaining' = Later' + Here'
  BY DEF Remaining, Later, Here
<1>6. Later' + Here' < Later + Here /\ Later' + Here' >= 0
  <2>1. MaxOverflow \in Nat
    BY TurnAssumption
  <2>2. /\ Later' + Here' < (Later' + (MaxOverflow + 5)) + Here
        /\ Later' + Here' >= 0
    BY <1>2, <1>4, <2>1, LessInAll, Zenon
  <2>3. QED BY <1>3, <2>2, Zenon
<1>7. QED BY <1>5, <1>6, Zenon

\* Any other step goes on within the iteration.
LEMMA StepCosts ==
    ASSUME TurnInv, Shape', pc' # "idle", t'.iters = t.iters,
           \/ pc = "boundary" /\ pc' = "thinking"
           \/ pc = "thinking" /\ pc' = "thinking" /\ t.retry < t'.retry
           \/ pc \in {"acting", "verifying"} /\ pc' = "boundary"
    PROVE  Remaining' < Remaining /\ Remaining' >= 0
<1>1. t.retry \in 0..(MaxOverflow + 1) /\ t'.retry \in 0..(MaxOverflow + 1)
  BY DEF TurnInv, Shape, Locals
<1>2. Later \in Nat /\ Later' = Later
  BY LaterIsNat DEF TurnInv, Later
<1>3. Here' < Here /\ Here' \in Nat /\ Here \in Nat
  BY <1>1, TurnAssumption DEF Here
<1>4. Remaining = Later + Here /\ Remaining' = Later' + Here'
  BY DEF Remaining, Later, Here
<1>5. Later' + Here' < Later + Here /\ Later' + Here' >= 0
  BY <1>2, <1>3, LessHere, Zenon
<1>6. QED BY <1>4, <1>5, Zenon

\* Supervision goes on at the boundary or ends the turn.
LEMMA SupervisedTo ==
    ASSUME NEW c, NEW progress, NEW l, Supervise(c, progress, l)
    PROVE  pc' = "idle" \/ (pc' = "boundary" /\ t' = l)
BY DEF Supervise, Ends, Goes

LEMMA StepRunsOut ==
    ASSUME TurnInv, TurnInv', TurnStep
    PROVE  pc' = "idle" \/ (Remaining' < Remaining /\ Remaining' >= 0)
<1> USE DEF Goes, Ends
<1>1. Shape' /\ t \in Locals
  BY DEF TurnInv, Shape
<1>2. CASE InterruptedAtBoundary \/ ExpiredAtBoundary \/ BudgetSpent \/ Interrupts
           \/ AsksWatson \/ ClaimPasses
  BY <1>2 DEF InterruptedAtBoundary, ExpiredAtBoundary, BudgetSpent, Interrupts,
     AsksWatson, ClaimPasses
<1>3. CASE AskModel
  BY <1>1, <1>3, StepCosts DEF AskModel
<1>4. CASE Overflows
  <2>1. pc = "thinking" /\ pc' = "thinking" /\ t.retry \in 0..MaxOverflow
    BY <1>1, <1>4, TurnAssumption DEF Overflows, Locals
  <2>2. PICK r : t.retry < r /\ t' = [t EXCEPT !.retry = r]
    <3>1. PICK shrinks \in BOOLEAN :
            t' = [t EXCEPT !.retry = IF t.retry < MaxOverflow /\ shrinks THEN t.retry + 1
                                     ELSE MaxOverflow + 1]
      BY <1>4 DEF Overflows
    <3>2. t.retry < t.retry + 1 /\ t.retry < MaxOverflow + 1
      BY <2>1, TurnAssumption
    <3>3. QED BY <3>1, <3>2
  <2>3. t'.iters = t.iters /\ t.retry < t'.retry
    BY <1>1, <2>2 DEF Locals
  <2>4. QED BY <1>1, <2>1, <2>3, StepCosts
<1>5. CASE Rebased \/ TurnedBack \/ Answers \/ Finishes \/ NoAction \/ SetsGoal \/ StartsTools
  <2>1. pc = "thinking"
    BY <1>5 DEF Rebased, TurnedBack, Answers, Finishes, NoAction, SetsGoal, StartsTools
  <2>2. Decided \in Locals /\ Decided.iters = t.iters + 1
    BY <2>1, AfterDecision
  <2>3. \/ pc' = "idle"
        \/ pc' \in {"boundary", "acting", "verifying"} /\ t' = Decided
        \/ pc' \in {"boundary", "acting", "verifying"}
           /\ \E n : t' = [Decided EXCEPT !.rebases = n] \/ t' = [Decided EXCEPT !.late = n]
    <3>1. CASE Rebased
      BY <3>1 DEF Rebased
    <3>2. CASE TurnedBack \/ Answers \/ Finishes
      BY <3>2 DEF TurnedBack, Answers, Finishes
    <3>3. CASE NoAction \/ SetsGoal
      BY <3>3, SupervisedTo DEF NoAction, SetsGoal
    <3>4. CASE StartsTools
      BY <3>4 DEF StartsTools
    <3>5. QED BY <1>5, <3>1, <3>2, <3>3, <3>4
  <2>4. CASE pc' # "idle"
    <3>1. t'.iters = t.iters + 1
      BY <2>2, <2>3, <2>4 DEF Locals
    <3>2. QED BY <1>1, <2>1, <2>3, <2>4, <3>1, DecisionCosts
  <2>5. QED BY <2>4
<1>6. CASE ToolsReturn
  <2>1. pc = "acting" /\ (pc' = "idle" \/ (pc' = "boundary" /\ t' = t))
    BY <1>6, SupervisedTo DEF ToolsReturn
  <2>2. QED BY <1>1, <2>1, StepCosts
<1>7. CASE ClaimFails
  <2>1. \/ pc' = "idle"
        \/ pc' = "boundary" /\ \E n : t' = [t EXCEPT !.rejected = n]
    <3>1. pc' = "idle" \/ Supervise(ctl, FALSE, [t EXCEPT !.rejected = t.rejected + 1])
      BY <1>7 DEF ClaimFails
    <3>2. pc' = "idle" \/ (pc' = "boundary" /\ t' = [t EXCEPT !.rejected = t.rejected + 1])
      BY <3>1, SupervisedTo, Zenon
    <3>3. QED BY <3>2
  <2>2. pc' # "idle" => t'.iters = t.iters
    BY <1>1, <2>1 DEF Locals
  <2>3. pc = "verifying"
    BY <1>7 DEF ClaimFails
  <2>4. QED BY <1>1, <2>1, <2>2, <2>3, StepCosts
<1>8. QED BY <1>2, <1>3, <1>4, <1>5, <1>6, <1>7 DEF TurnStep

\* Whatever the model answers and for any limits, every step a turn takes ends it
\* or leaves less of it: as long as calls return, no turn goes on for ever
\* (run_turn_inner, decide_with_overflow_retry).
THEOREM TurnsRunOut == TurnSpec => TurnRunsOut
<1>1. TurnInv /\ [TurnNext]_turnVars
        => [TurnStep => pc' = "idle" \/ (Remaining' < Remaining /\ Remaining' >= 0)]_turnVars
  BY TurnStepKeeps, StepRunsOut
<1>2. QED BY <1>1, TurnInvariant, PTL DEF TurnSpec, TurnRunsOut

-----------------------------------------------------------------------------
(* What a runtime that resumes would rebuild.                              *)

\* The control state l tells of the task what c tells, and claims no more.
NoWeaker(l, c) ==
    /\ l.goal = c.goal /\ l.con = c.con
    /\ l.acts = c.acts /\ l.active = c.active
    /\ l.sat => c.sat

\* What the two are told alike leaves them so; what only the runtime sees
\* (observations, stalled iterations, the verdict of its gate) touches
\* nothing of it but a satisfied goal.
LEMMA ToldAlike ==
    ASSUME NEW l \in Controls, NEW c \in Controls, NoWeaker(l, c)
    PROVE  /\ \A b \in BOOLEAN : NoWeaker(WithInput(l, b), WithInput(c, b))
           /\ NoWeaker(WithGoal(l), WithGoal(c))
           /\ \A sig \in Sigs, ok, hit \in BOOLEAN :
                NoWeaker(WithResult(l, sig, ok, hit), WithResult(c, sig, ok, hit))
           /\ NoWeaker(WithEvaluated(l, FALSE), c)
<1>1. \A b \in BOOLEAN : NoWeaker(WithInput(l, b), WithInput(c, b))
  BY DEF NoWeaker, WithInput, Controls
<1>2. NoWeaker(WithGoal(l), WithGoal(c))
  BY DEF NoWeaker, WithGoal, Controls
<1>3. ASSUME NEW sig \in Sigs, NEW ok \in BOOLEAN, NEW hit \in BOOLEAN
      PROVE  NoWeaker(WithResult(l, sig, ok, hit), WithResult(c, sig, ok, hit))
  <2>1. ASSUME NEW d \in Controls
        PROVE  LET r == WithResult(d, sig, ok, hit) IN
               /\ r.goal = d.goal /\ r.con = d.con /\ r.sat = d.sat /\ r.active
               /\ r.acts = Newest(Append(d.acts, [sig |-> sig, ok |-> ok]), MaxActions)
               /\ r.active = TRUE
    BY DEF WithResult, Controls
  <2>2. QED BY <2>1 DEF NoWeaker
<1>4. NoWeaker(WithEvaluated(l, FALSE), c)
  BY DEF NoWeaker, WithEvaluated, Controls
<1>5. QED BY <1>1, <1>2, <1>3, <1>4

LEMMA SeenByOne ==
    ASSUME NEW l, NEW c \in Controls, NoWeaker(l, c), NEW b
    PROVE  /\ NoWeaker(l, Stalled(c, b)) /\ NoWeaker(l, WithUpdates(c, b))
           /\ NoWeaker(l, [c EXCEPT !.sat = TRUE, !.verified = b])
BY DEF NoWeaker, Stalled, WithUpdates, Controls

LEMMA ResumeInitially == TurnInit => ResumeIsNoWeaker
BY DEF TurnInit, ResumeIsNoWeaker

\* A log that has told the runtime's story tells it after every step, and one
\* that a fresh runtime was seeded from tells it again.
LEMMA ResumeStep == TurnInv /\ ResumeIsNoWeaker /\ [TurnNext]_turnVars => ResumeIsNoWeaker'
<1> SUFFICES ASSUME TurnInv, ResumeIsNoWeaker, [TurnNext]_turnVars, synced'
             PROVE  NoWeaker(log', ctl')
  BY DEF ResumeIsNoWeaker, NoWeaker
<1>1. /\ turns \in 0..MaxTurns /\ ctl \in ControlsBy(turns) /\ log \in ControlsBy(turns)
      /\ ctl \in Controls /\ log \in Controls
  BY DEF TurnInv, Shape, ControlsBy
<1>2. synced => NoWeaker(log, ctl)
  BY DEF ResumeIsNoWeaker, NoWeaker
<1>3. ASSUME UNCHANGED <<ctl, log, synced>>
      PROVE  NoWeaker(log', ctl')
  BY <1>2, <1>3
<1>4. CASE StartTurn
  <2>1. PICK derives \in BOOLEAN, seeds \in BOOLEAN, fresh \in BOOLEAN :
          /\ log' = WithInput(log, derives)
          /\ ctl' = WithInput(Seeded(fresh, seeds), derives)
          /\ synced' = ((fresh /\ seeds) \/ synced)
    BY <1>4 DEF StartTurn, Derives
  <2>2. Seeded(fresh, seeds) \in Controls /\ NoWeaker(log, Seeded(fresh, seeds))
    BY <1>1, <1>2, <2>1 DEF Seeded, NoWeaker
  <2>3. QED BY <1>1, <2>1, <2>2, ToldAlike
<1>5. CASE OperatorGoal
  BY <1>5 DEF OperatorGoal
<1>6. CASE SetsGoal
  <2>1. log' = WithGoal(log) /\ ctl' = Stalled(WithGoal(ctl), TRUE) /\ synced
    BY <1>6 DEF SetsGoal, Supervise
  <2>2. NoWeaker(log', WithGoal(ctl)) /\ WithGoal(ctl) \in Controls
    BY <1>1, <1>2, <2>1, ToldAlike, ControlSteps DEF ControlsBy
  <2>3. QED BY <2>1, <2>2, SeenByOne
<1>7. CASE ToolsReturn
  <2>1. PICK sig \in Sigs, ok, hit, halfway, observed \in BOOLEAN :
          /\ log' = WithResult(log, sig, ok, hit)
          /\ IF halfway
             THEN synced' = FALSE
             ELSE /\ Supervise(WithUpdates(WithResult(ctl, sig, ok, hit), observed),
                               (ok /\ Novel(ctl, sig)) \/ observed, t)
                  /\ synced' = synced
    BY <1>7, ZenonT(40) DEF ToolsReturn
  <2> DEFINE d == WithResult(ctl, sig, ok, hit)
             e == WithUpdates(d, observed)
  <2>2. PICK b : synced /\ ctl' = Stalled(e, b)
    BY <2>1 DEF Supervise
  <2>3. d \in ControlsBy(turns) /\ e \in ControlsBy(turns)
    BY <1>1, ResultSteps
  <2>4. d \in Controls /\ e \in Controls
    BY <2>3 DEF ControlsBy
  <2>5. NoWeaker(log', d)
    BY <1>1, <1>2, <2>1, <2>2, ToldAlike
  <2>6. NoWeaker(log', e)
    BY <2>4, <2>5, SeenByOne
  <2> HIDE DEF d, e
  <2>7. NoWeaker(log', Stalled(e, b))
    BY <2>4, <2>6, SeenByOne
  <2>8. QED BY <2>2, <2>7
<1>8. CASE ClaimPasses
  <2>1. /\ synced
        /\ Standing(ctl) => ctl' = [ctl EXCEPT !.sat = TRUE, !.verified = (ctl.con > 0)]
        /\ ~Standing(ctl) => ctl' = ctl /\ log' = log
        /\ log' = log \/ log' = WithEvaluated(log, TRUE)
    BY <1>8 DEF ClaimPasses
  <2>2. CASE Standing(ctl)
    <3>1. NoWeaker(log, ctl') /\ ctl'.sat
      <4>1. NoWeaker(log, [ctl EXCEPT !.sat = TRUE, !.verified = (ctl.con > 0)])
        BY <1>1, <1>2, <2>1, SeenByOne
      <4>2. [ctl EXCEPT !.sat = TRUE, !.verified = (ctl.con > 0)].sat
        BY <1>1 DEF Controls
      <4>3. QED BY <2>1, <2>2, <4>1, <4>2
    <3>2. NoWeaker(WithEvaluated(log, TRUE), ctl')
      BY <1>1, <3>1 DEF WithEvaluated, NoWeaker, Controls
    <3>3. QED BY <2>1, <3>1, <3>2
  <2>3. QED BY <1>2, <2>1, <2>2
<1>9. CASE ClaimFails
  <2>1. /\ synced /\ (log' = log \/ log' = WithEvaluated(log, FALSE))
        /\ ctl' = ctl \/ ctl' = Stalled(ctl, FALSE)
    BY <1>9 DEF ClaimFails, Supervise
  <2>2. NoWeaker(log', ctl)
    BY <1>1, <1>2, <2>1, ToldAlike
  <2>3. NoWeaker(log', Stalled(ctl, FALSE))
    BY <1>1, <2>2, SeenByOne
  <2>4. QED BY <2>1, <2>2, <2>3
<1>10. CASE NoAction
  <2>1. PICK b : synced /\ log' = log /\ ctl' = Stalled(ctl, b)
    BY <1>10 DEF NoAction, Supervise
  <2>2. NoWeaker(log, Stalled(ctl, b))
    BY <1>1, <1>2, <2>1, SeenByOne
  <2>3. QED BY <2>1, <2>2
<1>11. CASE \/ InterruptedAtBoundary \/ ExpiredAtBoundary \/ BudgetSpent \/ AskModel
            \/ Interrupts \/ Overflows \/ Rebased \/ TurnedBack \/ Answers \/ Finishes
            \/ AsksWatson \/ StartsTools
  BY <1>3, <1>11 DEF InterruptedAtBoundary, ExpiredAtBoundary, BudgetSpent, AskModel,
     Interrupts, Overflows, Rebased, TurnedBack, Answers, Finishes, AsksWatson, StartsTools
<1>12. CASE Fails \/ PressEsc \/ Bridge \/ DeadlinePasses \/ UNCHANGED turnVars
  BY <1>3, <1>12 DEF Fails, PressEsc, Bridge, DeadlinePasses, turnVars
<1>13. QED
  BY <1>4, <1>5, <1>6, <1>7, <1>8, <1>9, <1>10, <1>11, <1>12 DEF TurnNext, TurnStep

\* However many turns a session has had and wherever a store call failed, a
\* log that has told the runtime's story rebuilds to the same goal, contract
\* and actions, and to no goal reached that the runtime still owes
\* (rebuild_inner against the live updates).
THEOREM ResumesNoWeaker == TurnSpec => []ResumeIsNoWeaker
BY ResumeInitially, ResumeStep, TurnInvariant, PTL DEF TurnSpec

-----------------------------------------------------------------------------
(* The cognitive loop: who has been asked wherever it stands.              *)

Whom == {"decide", "propose", "critique"}

\* Nothing is shown, and no pass is skipped, on the way to a response that
\* may be acted on.
Untouched(l) == l.asked = <<>> /\ l.spent = 0 /\ l.seen = {}

Examined(l) ==
  /\ l.reply \in Responses /\ l.seen = {l.reply}
  /\ HighStakes(l.setup, l.reply) /\ ~IsFast(l.setup)
       => Has(l.asked, "critique") \/ (l.setup.mode = "deep" /\ l.setup.rounds = 2)
  /\ l.trace.passes = Len(l.asked) /\ l.trace.tokens = l.spent

Thinks(l) ==
  /\ l.at \in {"begin", "decide", "probe", "propose"} => Untouched(l)
  /\ l.at = "decide" => IsFast(l.setup)
  /\ l.at = "propose" =>
       l.setup.rounds = 3 \/ (l.setup.rounds = 2 /\ l.setup.mode = "deep")
  /\ l.at = "critique" =>
       l.seen = {} /\ l.setup.rounds = 3 /\ l.asked \in {<<"decide">>, <<"propose">>}
  /\ l.at = "commit" =>
       /\ l.seen = {}
       /\ \/ /\ l.setup.rounds = 3
             /\ l.asked \in {<<"decide", "critique">>, <<"propose", "critique">>}
          \/ /\ l.setup.rounds = 2 /\ l.setup.mode = "deep" /\ l.asked = <<"propose">>
  /\ l.at = "done" => Examined(l)

CogInv == loop \in Loops /\ Thinks(loop)

\* What may be acted on ends the turn only if it does nothing else: a call of
\* any other class makes the decision something else (from_response).
LEMMA EndsAlone ==
  ASSUME NEW r \in Responses, FromResponse(r).kind \in Terminals
  PROVE  \A i \in DOMAIN r.calls : r.calls[i] \in Terminals
<1>1. r.calls \in Seq(Metas \cup Terminals \cup Tools \cup {"invalid"})
  BY CogAssumption
<1>2. CASE r.calls = <<>>
  BY <1>2
<1>3. CASE r.calls # <<>>
  <2>1. ~HasClass(r.calls, "invalid")
    BY <1>3 DEF FromResponse, Decision, Terminals
  <2>2. HasClass(r.calls, "terminal") /\ ~HasClass(r.calls, "tool") /\ ~HasClass(r.calls, "meta")
    BY <1>3, <2>1 DEF FromResponse, Decision, Terminals
  <2>3. SUFFICES ASSUME NEW i \in DOMAIN r.calls PROVE r.calls[i] \in Terminals
    OBVIOUS
  <2>4. r.calls[i] \in Metas \cup Terminals \cup Tools \cup {"invalid"}
    BY <1>1
  <2>5. /\ Class(r.calls[i]) # "invalid" /\ Class(r.calls[i]) # "tool"
        /\ Class(r.calls[i]) # "meta"
    BY <2>1, <2>2 DEF HasClass
  <2>6. QED BY <2>4, <2>5 DEF Class, Metas, Terminals, Tools
<1>4. QED BY <1>2, <1>3

\* A loop that begins.
LEMMA BegunThinks ==
  ASSUME NEW s \in Setups, NEW scene \in Scenes
  PROVE  Begun(s, scene) \in Loops /\ Thinks(Begun(s, scene))
<1>1. <<>> \in Seq(Whom)
  OBVIOUS
<1>2. QED
  BY <1>1 DEF Begun, Loops, Thinks, Untouched, NoTrace, Whom

\* A loop that fails.
LEMMA FailedThinks ==
  ASSUME NEW l \in Loops
  PROVE  Failed(l) \in Loops /\ Thinks(Failed(l))
BY DEF Failed, Loops, Thinks

\* Asking costs tokens and is remembered; it touches nothing else.
LEMMA AskedStep ==
  ASSUME loop \in Loops, NEW whom \in Whom, NEW n \in Nat
  PROVE  /\ Asked(whom, n) \in Loops
         /\ Asked(whom, n).asked = Append(loop.asked, whom)
         /\ Asked(whom, n).spent = loop.spent + n
         /\ Asked(whom, n).setup = loop.setup /\ Asked(whom, n).seen = loop.seen
<1>1. loop.asked \in Seq(Whom) /\ loop.spent \in Nat
  BY DEF Loops, Whom
<1>2. Append(loop.asked, whom) \in Seq(Whom) /\ loop.spent + n \in Nat
  BY <1>1
<1>3. QED BY <1>2 DEF Asked, Loops, Whom

\* A response acted on as it came.
LEMMA ActedOnThinks ==
  ASSUME loop \in Loops, Untouched(loop), NEW r \in Responses,
         IsFast(loop.setup) \/ ~HighStakes(loop.setup, r)
  PROVE  LET l == ActedOn(Asked("decide", r.tokens), r) IN l \in Loops /\ Thinks(l)
<1> DEFINE k == Asked("decide", r.tokens)
           l == ActedOn(k, r)
<1>1. r.tokens \in Nat
  BY CogAssumption
<1>2. /\ k \in Loops /\ k.asked = <<"decide">> /\ k.spent = r.tokens
      /\ k.setup = loop.setup /\ k.seen = {}
  BY <1>1, AskedStep DEF Untouched, Whom
<1> HIDE DEF k
<1>3. /\ l \in Loops /\ l.at = "done" /\ l.reply = r /\ l.seen = {r}
      /\ l.setup = loop.setup /\ l.asked = <<"decide">> /\ l.spent = r.tokens
      /\ l.trace.passes = 1 /\ l.trace.tokens = r.tokens
  BY <1>1, <1>2 DEF ActedOn, Loops
<1>4. Len(<<"decide">>) = 1
  OBVIOUS
<1> HIDE DEF l
<1>5. Examined(l)
  BY <1>3, <1>4 DEF Examined
<1>6. Thinks(l)
  BY <1>3, <1>5 DEF Thinks
<1>7. QED BY <1>3, <1>6 DEF k, l

\* A second and a third call.
LEMMA AskedNext ==
  ASSUME NEW a, NEW b, NEW c
  PROVE  Append(<<a>>, b) = <<a, b>> /\ Append(<<a, b>>, c) = <<a, b, c>>
<1> DEFINE S == {a, b, c}
           x == Append(<<a>>, b)
           y == Append(<<a, b>>, c)
<1>1. x \in Seq(S) /\ <<a, b>> \in Seq(S) /\ y \in Seq(S) /\ <<a, b, c>> \in Seq(S)
  OBVIOUS
<1>2. Len(x) = 2 /\ Len(<<a, b>>) = 2 /\ Len(y) = 3 /\ Len(<<a, b, c>>) = 3
  OBVIOUS
<1>3. x[1] = a /\ x[2] = b
  OBVIOUS
<1>4. y[1] = a /\ y[2] = b /\ y[3] = c
  OBVIOUS
<1> HIDE DEF S, x, y
<1>5. /\ \A i \in 1..2 : x[i] = <<a, b>>[i]
      /\ \A i \in 1..3 : y[i] = <<a, b, c>>[i]
  BY <1>3, <1>4
<1>6. x = <<a, b>>
  BY <1>1, <1>2, <1>5, SeqEqual
<1>7. y = <<a, b, c>>
  BY <1>1, <1>2, <1>5, SeqEqual
<1>8. QED BY <1>6, <1>7 DEF x, y

\* Who is in the three sequences of calls that end with a commit.
LEMMA AskedThird ==
  /\ Has(<<"decide", "critique", "decide">>, "critique")
  /\ Has(<<"propose", "critique", "decide">>, "critique")
  /\ Has(<<"propose", "critique", "decide">>, "propose")
  /\ Has(<<"propose", "decide">>, "propose")
<1>1. ASSUME NEW s, NEW i \in DOMAIN s
      PROVE  Has(s, s[i])
  BY DEF Has
<1> DEFINE a == <<"decide", "critique", "decide">>
           b == <<"propose", "critique", "decide">>
           c == <<"propose", "decide">>
<1>2. 2 \in DOMAIN a /\ a[2] = "critique"
  OBVIOUS
<1>3. 2 \in DOMAIN b /\ b[2] = "critique" /\ 1 \in DOMAIN b /\ b[1] = "propose"
  OBVIOUS
<1>4. 1 \in DOMAIN c /\ c[1] = "propose"
  OBVIOUS
<1> HIDE DEF a, b, c
<1>5. Has(a, "critique") /\ Has(b, "critique") /\ Has(b, "propose") /\ Has(c, "propose")
  BY <1>1, <1>2, <1>3, <1>4
<1>6. QED BY <1>5 DEF a, b, c

LEMMA CogStep == CogInv /\ [CogNext]_loop => CogInv'
<1> SUFFICES ASSUME CogInv, [CogNext]_loop PROVE CogInv'
  OBVIOUS
<1>1. /\ loop \in Loops /\ loop.setup \in Setups /\ loop.spent \in Nat
      /\ loop.setup.mode \in {"off", "fast", "adaptive", "deep"} /\ loop.setup.rounds \in 1..3
  BY CogAssumption DEF CogInv, Loops
<1>2. ASSUME loop' \in Loops, Thinks(loop')
      PROVE  CogInv'
  BY <1>2 DEF CogInv, Thinks, Untouched, Examined, Loops
<1>3. CASE ChoosePasses
  <2>1. loop.at = "begin" /\ Untouched(loop)
    BY <1>3 DEF ChoosePasses, CogInv, Thinks
  <2>2. ASSUME NEW at \in {"decide", "probe", "propose"}, loop' = [loop EXCEPT !.at = at],
               at = "decide" => IsFast(loop.setup),
               at = "propose" => loop.setup.rounds = 3
                                 \/ (loop.setup.rounds = 2 /\ loop.setup.mode = "deep")
        PROVE  CogInv'
    <3>1. /\ loop' \in Loops /\ loop'.at = at /\ loop'.setup = loop.setup
          /\ loop'.asked = loop.asked /\ loop'.spent = loop.spent /\ loop'.seen = loop.seen
      BY <1>1, <2>2 DEF Loops
    <3>2. Thinks(loop')
      BY <2>1, <2>2, <3>1 DEF Thinks, Untouched
    <3>3. QED BY <1>2, <3>1, <3>2
  <2>3. CASE IsFast(loop.setup)
    <3>1. loop' = [loop EXCEPT !.at = "decide"]
      BY <1>3, <2>3 DEF ChoosePasses
    <3>2. QED BY <2>2, <2>3, <3>1
  <2>4. CASE ~IsFast(loop.setup)
    <3> DEFINE deep == loop.setup.mode = "deep" \/ MustGoDeep(loop.setup, loop.scene)
    <3>1. CASE ~deep
      <4>1. loop' = [loop EXCEPT !.at = "probe"]
        BY <1>3, <2>4, <3>1 DEF ChoosePasses
      <4>2. QED BY <2>2, <4>1
    <3>2. CASE deep /\ loop.setup.mode = "adaptive" /\ loop.setup.rounds < 3
      <4>1. loop' = Failed(loop)
        BY <1>3, <2>4, <3>2 DEF ChoosePasses
      <4>2. QED BY <1>1, <1>2, <4>1, FailedThinks
    <3>3. CASE deep /\ ~(loop.setup.mode = "adaptive" /\ loop.setup.rounds < 3)
      <4>1. loop' = [loop EXCEPT !.at = "propose"]
        BY <1>3, <2>4, <3>3 DEF ChoosePasses
      <4>2. loop.setup.rounds = 3 \/ (loop.setup.rounds = 2 /\ loop.setup.mode = "deep")
        BY <1>1, <2>4, <3>3 DEF IsFast
      <4>3. QED BY <2>2, <4>1, <4>2
    <3>4. QED BY <3>1, <3>2, <3>3
  <2>5. QED BY <2>3, <2>4
<1>4. ASSUME NEW r \in Responses, Decide(r)
      PROVE  CogInv'
  <2>1. Untouched(loop) /\ IsFast(loop.setup) /\ loop' = ActedOn(Asked("decide", r.tokens), r)
    BY <1>4 DEF Decide, CogInv, Thinks
  <2>2. QED BY <1>1, <1>2, <2>1, ActedOnThinks
<1>5. ASSUME NEW r \in Responses, Probe(r)
      PROVE  CogInv'
  <2> DEFINE k == Asked("decide", r.tokens)
  <2>1. Untouched(loop) /\ loop.at = "probe"
    BY <1>5 DEF Probe, CogInv, Thinks
  <2>2. r.tokens \in Nat /\ "decide" \in Whom
    BY CogAssumption DEF Whom
  <2>3. /\ k \in Loops /\ k.asked = <<"decide">> /\ k.setup = loop.setup /\ k.seen = {}
    BY <1>1, <2>1, <2>2, AskedStep DEF Untouched
  <2>4. CASE ~HighStakes(loop.setup, r)
    <3>1. loop' = ActedOn(k, r)
      BY <1>5, <2>4 DEF Probe
    <3>2. QED BY <1>1, <1>2, <2>1, <2>4, <3>1, ActedOnThinks
  <2>5. CASE HighStakes(loop.setup, r) /\ loop.setup.rounds < 3
    <3>1. loop' = Failed(k)
      BY <1>5, <2>5 DEF Probe
    <3>2. QED BY <1>2, <2>3, <3>1, FailedThinks
  <2>6. CASE HighStakes(loop.setup, r) /\ ~(loop.setup.rounds < 3)
    <3>1. loop' = AsProposal(k) /\ loop.setup.rounds = 3
      BY <1>1, <1>5, <2>6 DEF Probe
    <3> HIDE DEF k
    <3>2. /\ loop' \in Loops /\ loop'.at = "critique" /\ loop'.setup = loop.setup
          /\ loop'.asked = <<"decide">> /\ loop'.seen = {}
      BY <2>3, <3>1 DEF AsProposal, Loops
    <3>3. Thinks(loop')
      BY <3>1, <3>2 DEF Thinks
    <3>4. QED BY <1>2, <3>2, <3>3
  <2>7. QED BY <2>4, <2>5, <2>6
<1>6. ASSUME NEW reply \in PrivateReplies, NEW n \in Tokens, Propose(reply, n)
      PROVE  CogInv'
  <2> DEFINE k == Asked("propose", n)
  <2>1. /\ Untouched(loop) /\ loop.at = "propose"
        /\ loop.setup.rounds = 3 \/ (loop.setup.rounds = 2 /\ loop.setup.mode = "deep")
    BY <1>6 DEF Propose, CogInv, Thinks
  <2>2. n \in Nat /\ "propose" \in Whom
    BY CogAssumption DEF Whom, Tokens
  <2>3. /\ k \in Loops /\ k.asked = <<"propose">> /\ k.setup = loop.setup /\ k.seen = {}
    BY <1>1, <2>1, <2>2, AskedStep DEF Untouched
  <2>4. CASE ~Taken(reply)
    <3>1. loop' = Failed(k)
      BY <1>6, <2>4 DEF Propose
    <3>2. QED BY <1>2, <2>3, <3>1, FailedThinks
  <2>5. CASE Taken(reply)
    <3>1. PICK at : /\ loop' = [k EXCEPT !.at = at]
                    /\ at = IF loop.setup.rounds >= 3 THEN "critique" ELSE "commit"
      BY <1>6, <2>5 DEF Propose
    <3> HIDE DEF k
    <3>2. \/ at = "critique" /\ loop.setup.rounds = 3
          \/ at = "commit" /\ loop.setup.rounds = 2 /\ loop.setup.mode = "deep"
      BY <2>1, <3>1
    <3>3. /\ loop' \in Loops /\ loop'.at = at /\ loop'.setup = loop.setup
          /\ loop'.asked = <<"propose">> /\ loop'.seen = {}
      BY <2>3, <3>1, <3>2 DEF Loops
    <3>4. Thinks(loop')
      BY <3>2, <3>3 DEF Thinks
    <3>5. QED BY <1>2, <3>3, <3>4
  <2>6. QED BY <2>4, <2>5
<1>7. ASSUME NEW reply \in PrivateReplies, NEW n \in Tokens, Critique(reply, n)
      PROVE  CogInv'
  <2> DEFINE k == Asked("critique", n)
  <2>1. /\ loop.seen = {} /\ loop.setup.rounds = 3
        /\ loop.asked \in {<<"decide">>, <<"propose">>}
    BY <1>7 DEF Critique, CogInv, Thinks
  <2>2. n \in Nat /\ "critique" \in Whom
    BY CogAssumption DEF Whom, Tokens
  <2>3. /\ k \in Loops /\ k.asked = Append(loop.asked, "critique")
        /\ k.setup = loop.setup /\ k.seen = {}
    BY <1>1, <2>1, <2>2, AskedStep
  <2>4. k.asked \in {<<"decide", "critique">>, <<"propose", "critique">>}
    <3>1. /\ Append(<<"decide">>, "critique") = <<"decide", "critique">>
          /\ Append(<<"propose">>, "critique") = <<"propose", "critique">>
      BY AskedNext
    <3>2. QED BY <2>1, <2>3, <3>1
  <2>5. CASE ~Taken(reply)
    <3>1. loop' = Failed(k)
      BY <1>7, <2>5 DEF Critique
    <3>2. QED BY <1>2, <2>3, <3>1, FailedThinks
  <2>6. CASE Taken(reply)
    <3>1. loop' = [k EXCEPT !.at = "commit"]
      BY <1>7, <2>6 DEF Critique
    <3> HIDE DEF k
    <3>2. /\ loop' \in Loops /\ loop'.at = "commit" /\ loop'.setup = loop.setup
          /\ loop'.asked = k.asked /\ loop'.seen = {}
      BY <2>3, <3>1 DEF Loops
    <3>3. Thinks(loop')
      BY <2>1, <2>4, <3>2 DEF Thinks
    <3>4. QED BY <1>2, <3>2, <3>3
  <2>7. QED BY <2>5, <2>6
<1>8. ASSUME NEW r \in Responses, Commit(r)
      PROVE  CogInv'
  <2> DEFINE k == Asked("decide", r.tokens)
             l == [k EXCEPT !.seen = @ \cup {r}]
             n == IF Has(l.asked, "propose") THEN l.setup.rounds ELSE 3
  <2>1. /\ loop.seen = {}
        /\ \/ /\ loop.setup.rounds = 3
              /\ loop.asked \in {<<"decide", "critique">>, <<"propose", "critique">>}
           \/ /\ loop.setup.rounds = 2 /\ loop.setup.mode = "deep" /\ loop.asked = <<"propose">>
    BY <1>8 DEF Commit, CogInv, Thinks
  <2>2. r.tokens \in Nat /\ "decide" \in Whom
    BY CogAssumption DEF Whom
  <2>3. /\ k \in Loops /\ k.asked = Append(loop.asked, "decide")
        /\ k.setup = loop.setup /\ k.seen = {}
    BY <1>1, <2>1, <2>2, AskedStep
  <2>4. /\ loop' = IF l.spent > MaxTokens THEN Failed(l)
                   ELSE [l EXCEPT !.at = "done", !.reply = r,
                                  !.trace = [mode |-> "deep", tokens |-> l.spent, passes |-> n]]
    BY <1>8 DEF Commit
  <2> HIDE DEF k
  <2>5. /\ l \in Loops /\ l.asked = k.asked /\ l.setup = loop.setup /\ l.seen = {r}
        /\ l.spent \in Nat
    BY <2>3 DEF Loops
  <2>6. \/ l.asked = <<"decide", "critique", "decide">> /\ l.setup.rounds = 3
        \/ l.asked = <<"propose", "critique", "decide">> /\ l.setup.rounds = 3
        \/ l.asked = <<"propose", "decide">> /\ l.setup.rounds = 2 /\ l.setup.mode = "deep"
    <3>1. /\ Append(<<"decide", "critique">>, "decide") = <<"decide", "critique", "decide">>
          /\ Append(<<"propose", "critique">>, "decide") = <<"propose", "critique", "decide">>
          /\ Append(<<"propose">>, "decide") = <<"propose", "decide">>
      BY AskedNext
    <3> HIDE DEF l
    <3>2. QED BY <2>1, <2>3, <2>5, <3>1, Zenon
  <2>7. n = Len(l.asked) /\ n \in Nat
    <3>1. ~Has(<<"decide", "critique", "decide">>, "propose")
      BY DEF Has
    <3>2. Has(<<"propose", "critique", "decide">>, "propose")
      BY AskedThird
    <3>3. Has(<<"propose", "decide">>, "propose")
      BY AskedThird
    <3>4. /\ Len(<<"decide", "critique", "decide">>) = 3
          /\ Len(<<"propose", "critique", "decide">>) = 3
          /\ Len(<<"propose", "decide">>) = 2
      OBVIOUS
    <3> HIDE DEF l
    <3>5. /\ Has(l.asked, "propose") => l.setup.rounds = Len(l.asked)
          /\ ~Has(l.asked, "propose") => Len(l.asked) = 3
      BY <2>6, <3>1, <3>2, <3>3, <3>4, Zenon
    <3>6. Len(l.asked) \in Nat
      BY <2>6, <3>4
    <3>7. QED BY <3>5, <3>6
  <2>8. Has(l.asked, "critique") \/ (l.setup.mode = "deep" /\ l.setup.rounds = 2)
    BY <2>6, AskedThird
  <2> HIDE DEF l, n
  <2>9. CASE l.spent > MaxTokens
    BY <1>2, <2>4, <2>5, <2>9, FailedThinks
  <2>10. CASE ~(l.spent > MaxTokens)
    <3>1. loop' = [l EXCEPT !.at = "done", !.reply = r,
                            !.trace = [mode |-> "deep", tokens |-> l.spent, passes |-> n]]
      BY <2>4, <2>10
    <3>2. /\ loop' \in Loops /\ loop'.at = "done" /\ loop'.reply = r /\ loop'.seen = {r}
          /\ loop'.setup = l.setup /\ loop'.asked = l.asked /\ loop'.spent = l.spent
          /\ loop'.trace.passes = n /\ loop'.trace.tokens = l.spent
      BY <2>5, <2>7, <3>1 DEF Loops
    <3>3. Examined(loop')
      BY <2>7, <2>8, <3>2 DEF Examined
    <3>4. Thinks(loop')
      BY <3>2, <3>3 DEF Thinks
    <3>5. QED BY <1>2, <3>2, <3>4
  <2>11. QED BY <2>9, <2>10
<1>9. CASE LoopFails
  BY <1>1, <1>2, <1>9, FailedThinks DEF LoopFails
<1>10. CASE NextLoop
  BY <1>1, <1>2, <1>10, BegunThinks DEF NextLoop
<1>11. CASE UNCHANGED loop
  BY <1>11 DEF CogInv
<1>12. QED
  BY <1>3, <1>4, <1>5, <1>6, <1>7, <1>8, <1>9, <1>10, <1>11 DEF CogNext

\* In every mode, for any number of rounds the configuration allows and any
\* responses of the model, what the runtime acts on has been examined, is all
\* the operator has seen and ends the turn alone (deliberate_inner,
\* from_response).
THEOREM ActsOnTheExamined == CogSpec => []ActedOnIsExamined
<1>1. CogInit => CogInv
  BY BegunThinks DEF CogInit, CogInv
<1>2. CogInv => ActedOnIsExamined
  BY EndsAlone DEF CogInv, Thinks, Examined, ActedOnIsExamined
<1>3. QED BY <1>1, <1>2, CogStep, PTL DEF CogSpec

-----------------------------------------------------------------------------
(* A call of the model: what is left of it.                                *)

Smaller == {ss \in Nat \X Nat : ss[1] < ss[2]}

\* The least of some numbers is one of them.
LEMMA MinIsLeast ==
    ASSUME NEW S \in SUBSET Nat, S # {}
    PROVE  Min(S) \in S /\ \A y \in S : Min(S) <= y
<1>1. IsWellFoundedOn(Smaller, Nat)
  BY NatLessThanWellFounded, Zenon DEF OpToRel, Smaller
<1>2. \E x \in S : \A y \in S : ~(<<y, x>> \in Smaller)
  BY <1>1, WFMin
<1>3. \A x, y \in Nat : ~(<<y, x>> \in Smaller) => x <= y
  <2> SUFFICES ASSUME NEW x \in Nat, NEW y \in Nat, y < x PROVE <<y, x>> \in Smaller
    OBVIOUS
  <2>1. <<y, x>> \in Nat \X Nat /\ <<y, x>>[1] = y /\ <<y, x>>[2] = x
    OBVIOUS
  <2> QED
    BY <2>1, Zenon DEF Smaller
<1>4. \E x \in S : \A y \in S : x <= y
  BY <1>2, <1>3
<1> QED
  BY <1>4, Zenon DEF Min

LEMMA ChainIsFinite == IsFiniteSet(ChainSet)
<1>1. /\ Chain \in [1 .. Len(Chain) -> ChainSet] /\ Len(Chain) \in Nat
      /\ DOMAIN Chain = 1 .. Len(Chain)
  BY ProvidersAssumption DEF ChainSet
<1>2. \A p \in ChainSet : \E k \in 1 .. Len(Chain) : Chain[k] = p
  BY <1>1 DEF ChainSet, ToSet
<1>3. Chain \in Surjection(1 .. Len(Chain), ChainSet)
  BY <1>1, <1>2 DEF Surjection
<1>4. IsFiniteSet(1 .. Len(Chain))
  BY <1>1, FS_Interval
<1> QED
  BY <1>3, <1>4, FS_Surjection

CallStages == {"idle", "select", "asleep", "queued", "sent", "answered", "failed"}

ProvRecs == [status : {"healthy", "half_open", "cooling", "disabled"}, until : Nat,
             probing : BOOLEAN, lease : Nat]
CallRecs == [at : CallStages, prov : ChainSet \cup {"none"}, attempted : SUBSET ChainSet,
             left : Nat, sleep : Nat, partial : BOOLEAN]

CallsHealth == prov \in [ChainSet -> ProvRecs] /\ call \in [LlmCalls -> CallRecs]

\* A call sleeps no longer than its deadline and only to wait for a probe, has
\* a provider when it is with one, and begins an attempt without text.
Waits(r) ==
    /\ r.sleep <= r.left
    /\ r.at # "asleep" => r.sleep = 0
    /\ r.at \in {"queued", "sent"} => r.prov \in ChainSet
    /\ r.at = "queued" => ~r.partial

LlmInv == CallsHealth /\ \A c \in LlmCalls : Waits(call[c])

LEMMA SelectedIsUntried ==
    ASSUME NEW c \in LlmCalls, Selectable(c) # {}
    PROVE  Selected(c) \in ChainSet /\ Selected(c) \notin call[c].attempted
<1>1. Selectable(c) \subseteq Untried(c) /\ Untried(c) \subseteq ChainSet
  BY DEF Selectable, Untried
<1> DEFINE ks == {k \in DOMAIN Chain : Chain[k] \in Selectable(c)}
<1>2. ks # {} /\ ks \in SUBSET Nat
  BY <1>1, ProvidersAssumption DEF ChainSet, ToSet
<1>3. Chain[Min(ks)] \in Selectable(c)
  BY <1>2, MinIsLeast
<1>4. Selected(c) \in Selectable(c)
  BY <1>3, Zenon DEF Selected
<1> QED
  BY <1>1, <1>4 DEF Untried

\* The time to the first probe of a call that can select nothing is not over.
LEMMA ProbeIsAhead ==
    ASSUME LlmInv, NEW c \in LlmCalls, Selectable(c) = {}, ProbeTimes(c) # {}
    PROVE  Min(ProbeTimes(c)) \in Nat \ {0}
<1>1. \A p \in Untried(c) : p \in ChainSet /\ ~Claimable(p)
  BY DEF Selectable, Untried
<1>2. ProbeTimes(c) \in SUBSET (Nat \ {0})
  BY <1>1 DEF ProbeTimes, Claimable, LlmInv, CallsHealth, ProvRecs
<1> QED
  BY <1>2, MinIsLeast

\* Of another provider tried less is left.
LEMMA OneFewer ==
    ASSUME NEW A \in SUBSET ChainSet, NEW p \in ChainSet, p \notin A
    PROVE  /\ Cardinality(ChainSet \ A) \in Nat /\ Cardinality(ChainSet \ (A \cup {p})) \in Nat
           /\ Cardinality(ChainSet \ (A \cup {p})) = Cardinality(ChainSet \ A) - 1
<1>1. IsFiniteSet(ChainSet \ A)
  BY ChainIsFinite, FS_Difference
<1>2. ChainSet \ (A \cup {p}) = (ChainSet \ A) \ {p} /\ p \in ChainSet \ A
  OBVIOUS
<1>3. /\ IsFiniteSet((ChainSet \ A) \ {p})
      /\ Cardinality((ChainSet \ A) \ {p}) = Cardinality(ChainSet \ A) - 1
  BY <1>1, <1>2, FS_RemoveElement
<1> QED
  BY <1>1, <1>2, <1>3, FS_CardinalityType

LEMMA UntriedIsNat ==
    ASSUME NEW A
    PROVE  Cardinality(ChainSet \ A) \in Nat
BY ChainIsFinite, FS_Difference, FS_CardinalityType

LEMMA LlmInitially == LlmInit => LlmInv
BY ProvidersAssumption DEF LlmInit, LlmInv, CallsHealth, Waits, NewProv, NoCall, CallStages,
                            ProvRecs, CallRecs

\* A step that leaves less of the call c, which it moves to r.
GetsOn(c, r) ==
    /\ CallGoes(c, r) /\ r \in CallRecs /\ Waits(r) /\ prov' \in [ChainSet -> ProvRecs]
    /\ LeftToDo(r) < LeftToDo(call[c])

\* As long as it has tried the same providers, how far it is decides.
LEMMA LessToDo ==
    ASSUME NEW r \in CallRecs, NEW s \in CallRecs, Waits(r), Waits(s),
           s.attempted = r.attempted, s.left = r.left,
           \/ r.sleep = 0 /\ s.sleep > 0 /\ r.at = "select" /\ s.at = "asleep"
           \/ r.sleep = s.sleep /\ Rank(s.at) < Rank(r.at) - 1
           \/ r.sleep = s.sleep /\ ~s.partial /\ ~r.partial /\ Rank(s.at) < Rank(r.at)
           \/ r.sleep = s.sleep /\ r.at = "sent" /\ s.at = "sent" /\ s.partial /\ ~r.partial
    PROVE  LeftToDo(s) < LeftToDo(r)
<1> DEFINE n == Cardinality(ChainSet \ r.attempted)
<1>1. n \in Nat /\ Cardinality(ChainSet \ s.attempted) = n
  BY UntriedIsNat
<1> HIDE DEF n
<1>2. \A u \in CallRecs : Rank(u.at) \in Nat /\ u.left \in Nat /\ u.sleep \in Nat
                           /\ u.partial \in BOOLEAN
  BY DEF CallRecs, CallStages, Rank
<1>3. /\ LeftToDo(s) = 10 * (s.left - s.sleep) + 4 * n + Rank(s.at)
                       - (IF s.partial /\ s.at = "sent" THEN 1 ELSE 0)
      /\ LeftToDo(r) = 10 * (r.left - r.sleep) + 4 * n + Rank(r.at)
                       - (IF r.partial /\ r.at = "sent" THEN 1 ELSE 0)
  BY <1>1 DEF LeftToDo, n
<1>4. CASE r.sleep = 0 /\ s.sleep > 0 /\ r.at = "select" /\ s.at = "asleep"
  BY <1>1, <1>2, <1>3, <1>4 DEF Rank
<1>5. CASE r.sleep = s.sleep /\ Rank(s.at) < Rank(r.at) - 1
  BY <1>1, <1>2, <1>3, <1>5
<1>6. CASE r.sleep = s.sleep /\ ~s.partial /\ ~r.partial /\ Rank(s.at) < Rank(r.at)
  BY <1>1, <1>2, <1>3, <1>6
<1>7. CASE r.sleep = s.sleep /\ r.at = "sent" /\ s.at = "sent" /\ s.partial /\ ~r.partial
  BY <1>1, <1>2, <1>3, <1>7
<1> QED
  BY <1>4, <1>5, <1>6, <1>7

LEMMA FailureGetsOn ==
    ASSUME LlmInv, NEW c \in LlmCalls, NEW reason, NEW w \in Nat, FailsWith(c, reason, w),
           call[c].at = "sent" \/ (call[c].at = "queued" /\ reason = "Timeout"),
           reason \in {Classified[x] : x \in DOMAIN Classified} \cup {"Timeout"}
    PROVE  \E r : GetsOn(c, r)
<1> DEFINE r == [call[c] EXCEPT !.at = IF FailureClass(reason) = "content" THEN "failed"
                                       ELSE "select"]
<1>1. call[c] \in CallRecs /\ Waits(call[c])
  BY DEF LlmInv, CallsHealth
<1>2. FailureClass(reason) \in {"transient", "config", "content"}
  BY DEF FailureClass, Classified
<1>3. r \in CallRecs /\ Waits(r)
  BY <1>1 DEF CallRecs, CallStages, Waits
<1>4. Rank(r.at) < Rank(call[c].at) - 1
  BY <1>1 DEF Rank, CallRecs
<1>5. LeftToDo(r) < LeftToDo(call[c])
  <2>1. r.attempted = call[c].attempted /\ r.left = call[c].left /\ r.sleep = call[c].sleep
    BY <1>1 DEF CallRecs
  <2> HIDE DEF r
  <2> QED
    BY <1>1, <1>3, <1>4, <2>1, LessToDo
<1>6. prov' \in [ChainSet -> ProvRecs]
  <2>1. prov[call[c].prov] \in ProvRecs /\ prov \in [ChainSet -> ProvRecs]
    BY <1>1 DEF LlmInv, CallsHealth, Waits
  <2>2. Cooled(w) \in ProvRecs /\ Disabled(prov[call[c].prov]) \in ProvRecs
    BY <2>1 DEF Cooled, Disabled, ProvRecs
  <2> QED
    BY <1>2, <2>1, <2>2 DEF FailsWith
<1>7. CallGoes(c, r)
  BY DEF FailsWith
<1> HIDE DEF r
<1> QED
  BY <1>3, <1>5, <1>6, <1>7 DEF GetsOn

\* Each step of a call leaves less of it.
LEMMA CallGetsOn ==
    ASSUME LlmInv, NEW c \in LlmCalls, CallStep(c)
    PROVE  \E r : GetsOn(c, r)
<1> DEFINE r == call[c]
<1>1. /\ r \in CallRecs /\ Waits(r) /\ r.left \in Nat /\ r.sleep \in Nat
      /\ prov \in [ChainSet -> ProvRecs] /\ call \in [LlmCalls -> CallRecs]
  BY DEF LlmInv, CallsHealth, CallRecs
<1>2. CASE SelectProvider(c)
  <2> DEFINE p == Selected(c)
             s == [call[c] EXCEPT !.at = "queued", !.prov = p, !.partial = FALSE,
                                  !.attempted = call[c].attempted \cup {p}]
  <2>1. CallGoes(c, s) /\ prov' = [prov EXCEPT ![p] = Claimed(prov[p])] /\ r.at = "select"
    BY <1>2 DEF SelectProvider, AttemptedNow
  <2>2. p \in ChainSet /\ p \notin r.attempted
    BY <1>2, SelectedIsUntried DEF SelectProvider
  <2> HIDE DEF p
  <2>3. prov' \in [ChainSet -> ProvRecs]
    BY <1>1, <2>1, <2>2, ProvidersAssumption DEF Claimed, ProvRecs
  <2>4. s \in CallRecs /\ Waits(s)
    BY <1>1, <2>1, <2>2 DEF CallRecs, Waits, CallStages
  <2>5. LeftToDo(s) < LeftToDo(r)
    <3> DEFINE n == Cardinality(ChainSet \ r.attempted)
               m == Cardinality(ChainSet \ (r.attempted \cup {p}))
    <3>1. n \in Nat /\ m \in Nat /\ m = n - 1
      BY <1>1, <2>2, OneFewer DEF CallRecs
    <3>2. s.left = r.left /\ s.sleep = r.sleep /\ s.at = "queued" /\ ~s.partial
          /\ s.attempted = r.attempted \cup {p}
      BY <1>1 DEF CallRecs
    <3> HIDE DEF n, m
    <3>3. LeftToDo(s) = 10 * (r.left - r.sleep) + 4 * m + 5
      BY <1>1, <3>1, <3>2 DEF LeftToDo, Rank, m
    <3>4. LeftToDo(r) = 10 * (r.left - r.sleep) + 4 * n + 2
      BY <1>1, <2>1, <3>1 DEF LeftToDo, Rank, n
    <3> QED
      BY <1>1, <3>1, <3>3, <3>4
  <2> HIDE DEF s
  <2> QED
    BY <2>1, <2>3, <2>4, <2>5 DEF GetsOn
<1>3. CASE AwaitProbe(c)
  <2> DEFINE m == Min(ProbeTimes(c))
             s == [call[c] EXCEPT !.at = "asleep", !.sleep = m]
  <2>1. m \in Nat \ {0} /\ m < r.left /\ r.at = "select" /\ CallGoes(c, s) /\ UNCHANGED prov
    BY <1>3, ProbeIsAhead DEF AwaitProbe
  <2> HIDE DEF m
  <2>2. s \in CallRecs
    BY <1>1, <2>1 DEF CallRecs, CallStages
  <2>3. /\ s.attempted = r.attempted /\ s.left = r.left /\ s.sleep = m /\ s.at = "asleep"
        /\ r.sleep = 0
    BY <1>1, <2>1 DEF CallRecs, Waits
  <2> HIDE DEF s, r
  <2>4. Waits(s)
    BY <1>1, <2>1, <2>3 DEF Waits
  <2>5. s.sleep > 0
    BY <2>1, <2>3
  <2>6. LeftToDo(s) < LeftToDo(r)
    BY <1>1, <2>1, <2>2, <2>3, <2>4, <2>5, LessToDo
  <2> QED
    BY <1>1, <2>1, <2>2, <2>4, <2>6 DEF GetsOn, r
<1>4. ASSUME NEW stage \in CallStages, CallGoes(c, [call[c] EXCEPT !.at = stage]), UNCHANGED prov,
             r.at # stage, r.sleep = 0,
             stage \in {"queued", "sent"} => r.prov \in ChainSet /\ ~r.partial,
             Rank(stage) < Rank(r.at) - 1 \/ (~r.partial /\ Rank(stage) < Rank(r.at))
      PROVE  \E s : GetsOn(c, s)
  <2> DEFINE s == [call[c] EXCEPT !.at = stage]
  <2>1. s \in CallRecs /\ Waits(s)
    BY <1>1, <1>4 DEF CallRecs, Waits
  <2>2. /\ s.attempted = r.attempted /\ s.left = r.left /\ s.sleep = r.sleep
        /\ s.at = stage /\ s.partial = r.partial
    BY <1>1 DEF CallRecs
  <2>3. CallGoes(c, s)
    BY <1>4
  <2> HIDE DEF s, r
  <2>4. LeftToDo(s) < LeftToDo(r)
    BY <1>1, <1>4, <2>1, <2>2, LessToDo
  <2> QED
    BY <1>1, <1>4, <2>1, <2>3, <2>4 DEF GetsOn, r
<1>5. CASE WakeUp(c)
  BY <1>1, <1>4, <1>5 DEF WakeUp, CallStages, Rank
<1>6. CASE GiveUp(c)
  BY <1>1, <1>4, <1>6 DEF GiveUp, CallStages, Rank, Waits
<1>7. CASE Acquire(c)
  BY <1>1, <1>4, <1>7 DEF Acquire, CallStages, Rank, Waits
<1>8. CASE Delta(c)
  <2> DEFINE s == [call[c] EXCEPT !.partial = TRUE]
  <2>1. CallGoes(c, s) /\ r.at = "sent" /\ ~r.partial /\ UNCHANGED prov
    BY <1>8 DEF Delta
  <2>2. s \in CallRecs /\ Waits(s)
    BY <1>1, <2>1 DEF CallRecs, Waits
  <2>3. /\ s.attempted = r.attempted /\ s.left = r.left /\ s.sleep = r.sleep
        /\ s.at = "sent" /\ s.partial
    BY <1>1, <2>1 DEF CallRecs
  <2> HIDE DEF s, r
  <2>4. LeftToDo(s) < LeftToDo(r)
    BY <1>1, <2>1, <2>2, <2>3, LessToDo
  <2> QED
    BY <1>1, <2>1, <2>2, <2>4 DEF GetsOn, r
<1>9. CASE Answer(c)
  <2> DEFINE s == [call[c] EXCEPT !.at = "answered"]
  <2>1. CallGoes(c, s) /\ r.at = "sent" /\ prov' = [prov EXCEPT ![r.prov] = HealthyAgain]
    BY <1>9 DEF Answer
  <2>2. prov' \in [ChainSet -> ProvRecs]
    BY <1>1, <2>1 DEF HealthyAgain, NewProv, ProvRecs
  <2>3. s \in CallRecs /\ Waits(s)
    BY <1>1, <2>1 DEF CallRecs, Waits, CallStages
  <2>4. /\ s.attempted = r.attempted /\ s.left = r.left /\ s.sleep = r.sleep
        /\ Rank(s.at) < Rank(r.at) - 1
    BY <1>1, <2>1 DEF CallRecs, Rank
  <2> HIDE DEF s, r
  <2>5. LeftToDo(s) < LeftToDo(r)
    BY <1>1, <2>3, <2>4, LessToDo
  <2> QED
    BY <2>1, <2>2, <2>3, <2>5 DEF GetsOn, r
<1>10. ASSUME NEW w \in 0 .. CooldownMax, AttemptTimesOut(c, w) PROVE \E s : GetsOn(c, s)
  <2>1. w \in Nat
    BY ProvidersAssumption
  <2> QED
    BY <1>10, <2>1, FailureGetsOn DEF AttemptTimesOut
<1>11. ASSUME NEW w \in 0 .. CooldownMax, NEW sent \in DOMAIN Classified, AttemptFails(c, sent, w)
       PROVE  \E s : GetsOn(c, s)
  <2>1. w \in Nat
    BY ProvidersAssumption
  <2>2. Classified[sent] \in {Classified[x] : x \in DOMAIN Classified}
    OBVIOUS
  <2> QED
    BY <1>11, <2>1, <2>2, FailureGetsOn DEF AttemptFails
<1> QED
  BY <1>2, <1>3, <1>5, <1>6, <1>7, <1>8, <1>9, <1>10, <1>11 DEF CallStep

\* Time takes from what is left of a call, but for one asleep.
LEMMA ElapsedCall ==
    ASSUME NEW r \in CallRecs, NEW s \in CallRecs, Waits(r),
           s = [r EXCEPT !.left = Less(@), !.sleep = Less(@)]
    PROVE  /\ Waits(s)
           /\ \/ s = r \/ LeftToDo(s) < LeftToDo(r)
              \/ s.at = "asleep" /\ LeftToDo(s) = LeftToDo(r)
<1>1. /\ r.left \in Nat /\ r.sleep \in Nat /\ s.left = Less(r.left) /\ s.sleep = Less(r.sleep)
      /\ s.at = r.at /\ s.attempted = r.attempted /\ s.partial = r.partial /\ s.prov = r.prov
      /\ r.at \in CallStages
  BY DEF CallRecs
<1>2. Waits(s)
  BY <1>1 DEF Waits, Less
<1> DEFINE n == 4 * Cardinality(ChainSet \ r.attempted) + Rank(r.at)
                - (IF r.partial /\ r.at = "sent" THEN 1 ELSE 0)
<1>3. n \in Int
  <2>1. Cardinality(ChainSet \ r.attempted) \in Nat /\ Rank(r.at) \in Nat
    BY <1>1, UntriedIsNat DEF Rank, CallStages
  <2> QED
    BY <2>1
<1>4. LeftToDo(r) = 10 * (r.left - r.sleep) + n /\ LeftToDo(s) = 10 * (s.left - s.sleep) + n
  <2>1. Cardinality(ChainSet \ r.attempted) \in Nat /\ Rank(r.at) \in Nat
    BY <1>1, UntriedIsNat DEF Rank, CallStages
  <2> QED
    BY <1>1, <2>1 DEF LeftToDo, Less
<1> HIDE DEF n
<1>5. CASE r.left = 0
  <2>1. s.left = r.left /\ s.sleep = r.sleep
    BY <1>1, <1>5 DEF Waits, Less
  <2>2. s = r
    BY <1>1, <2>1 DEF CallRecs
  <2> QED
    BY <1>2, <2>2
<1>6. CASE r.left # 0 /\ r.sleep = 0
  BY <1>1, <1>2, <1>3, <1>4, <1>6 DEF Less
<1>7. CASE r.left # 0 /\ r.sleep # 0
  BY <1>1, <1>2, <1>3, <1>4, <1>7 DEF Less, Waits
<1> QED
  BY <1>5, <1>6, <1>7

\* What a step does to every call.
RunsDown(c) ==
    (/\ call[c].at \notin {"idle", "answered", "failed"}
     /\ call'[c] # call[c] /\ call'[c].at # "idle") =>
      \/ LeftToDo(call'[c]) < LeftToDo(call[c])
      \/ call'[c].at = "asleep" /\ LeftToDo(call'[c]) = LeftToDo(call[c])

LEMMA LlmStep ==
    LlmInv /\ [LlmNext]_llmVars => LlmInv' /\ \A c \in LlmCalls : RunsDown(c)
<1> SUFFICES ASSUME LlmInv, [LlmNext]_llmVars
             PROVE  LlmInv' /\ \A c \in LlmCalls : RunsDown(c)
  OBVIOUS
<1>1. /\ prov \in [ChainSet -> ProvRecs] /\ call \in [LlmCalls -> CallRecs]
      /\ \A c \in LlmCalls : Waits(call[c])
  BY DEF LlmInv, CallsHealth
<1>2. ASSUME NEW c \in LlmCalls, NEW r \in CallRecs, CallGoes(c, r), Waits(r),
             prov' \in [ChainSet -> ProvRecs],
             \/ call[c].at = "idle" \/ r.at = "idle" \/ LeftToDo(r) < LeftToDo(call[c])
      PROVE  LlmInv' /\ \A d \in LlmCalls : RunsDown(d)
  <2>1. /\ call' \in [LlmCalls -> CallRecs] /\ call'[c] = r
        /\ \A d \in LlmCalls \ {c} : call'[d] = call[d]
    BY <1>1, <1>2 DEF CallGoes
  <2>2. \A d \in LlmCalls : Waits(call'[d])
    BY <1>1, <1>2, <2>1
  <2>3. LlmInv'
    BY <1>2, <2>1, <2>2 DEF LlmInv, CallsHealth, Waits
  <2>4. \A d \in LlmCalls : RunsDown(d)
    BY <1>2, <2>1 DEF RunsDown
  <2> QED
    BY <2>3, <2>4
<1>3. NoCall \in CallRecs /\ Waits(NoCall) /\ NoCall.at = "idle"
  BY DEF NoCall, CallRecs, CallStages, Waits
<1>4. ASSUME NEW c \in LlmCalls, BeginCall(c)
      PROVE  LlmInv' /\ \A d \in LlmCalls : RunsDown(d)
  <2> DEFINE r == [NoCall EXCEPT !.at = "select", !.left = CallDeadline]
  <2>1. r \in CallRecs /\ Waits(r)
    <3>1. r \in CallRecs /\ r.sleep = 0 /\ r.left = CallDeadline /\ r.at = "select"
      BY <1>3, ProvidersAssumption DEF NoCall, CallRecs, CallStages
    <3> QED
      BY <3>1, ProvidersAssumption DEF Waits
  <2>2. CallGoes(c, r) /\ call[c].at = "idle" /\ UNCHANGED prov
    BY <1>4 DEF BeginCall
  <2> HIDE DEF r
  <2> QED
    BY <1>1, <1>2, <2>1, <2>2
<1>5. ASSUME NEW c \in LlmCalls, CallStep(c)
      PROVE  LlmInv' /\ \A d \in LlmCalls : RunsDown(d)
  <2>1. PICK r : GetsOn(c, r)
    BY <1>5, CallGetsOn
  <2> QED
    BY <1>2, <2>1 DEF GetsOn
<1>6. ASSUME NEW c \in LlmCalls, DropCall(c)
      PROVE  LlmInv' /\ \A d \in LlmCalls : RunsDown(d)
  BY <1>1, <1>2, <1>3, <1>6 DEF DropCall
<1>7. CASE Elapse
  <2>1. prov' \in [ChainSet -> ProvRecs]
    <3>1. \A n \in Nat : Less(n) \in Nat
      BY DEF Less
    <3>2. \A p \in ChainSet : [prov[p] EXCEPT !.until = Less(@), !.lease = Less(@)] \in ProvRecs
      BY <1>1, <3>1 DEF ProvRecs
    <3> QED
      BY <1>7, <3>2 DEF Elapse
  <2>2. \A c \in LlmCalls : call'[c] = [call[c] EXCEPT !.left = Less(@), !.sleep = Less(@)]
    BY <1>7 DEF Elapse
  <2>3. \A c \in LlmCalls : call'[c] \in CallRecs
    <3>1. \A n \in Nat : Less(n) \in Nat
      BY DEF Less
    <3>2. \A c \in LlmCalls : [call[c] EXCEPT !.left = Less(@), !.sleep = Less(@)] \in CallRecs
      BY <1>1, <3>1 DEF CallRecs
    <3> QED
      BY <2>2, <3>2
  <2>4. call' \in [LlmCalls -> CallRecs]
    BY <1>7, <2>3 DEF Elapse
  <2>5. \A c \in LlmCalls :
          /\ Waits(call'[c])
          /\ \/ call'[c] = call[c] \/ LeftToDo(call'[c]) < LeftToDo(call[c])
             \/ call'[c].at = "asleep" /\ LeftToDo(call'[c]) = LeftToDo(call[c])
    BY <1>1, <2>2, <2>3, ElapsedCall
  <2>6. LlmInv'
    BY <2>1, <2>4, <2>5 DEF LlmInv, CallsHealth, Waits
  <2> QED
    BY <2>5, <2>6 DEF RunsDown
<1>8. CASE UNCHANGED llmVars
  BY <1>1, <1>8 DEF LlmInv, CallsHealth, Waits, RunsDown, llmVars
<1> QED
  BY <1>4, <1>5, <1>6, <1>7, <1>8 DEF LlmNext

\* For any providers, limits and callers, every step of a call uses up some of
\* its deadline or one of its providers, and no other call and no clock gives
\* any back.
THEOREM CallsRunOut == LlmSpec => CallRunsOut
<1>1. LlmInv /\ [LlmNext]_llmVars
        => [\A c \in LlmCalls :
              (/\ call[c].at \notin {"idle", "answered", "failed"}
               /\ call'[c] # call[c] /\ call'[c].at # "idle") =>
                \/ LeftToDo(call'[c]) < LeftToDo(call[c])
                \/ call'[c].at = "asleep" /\ LeftToDo(call'[c]) = LeftToDo(call[c])]_llmVars
  BY LlmStep DEF RunsDown
<1>2. QED BY <1>1, LlmInitially, LlmStep, PTL DEF LlmSpec, CallRunsOut

-----------------------------------------------------------------------------
(***************************************************************************)
(* The results a turn is told at its boundary: the delivered mark and the  *)
(* event log agree, no background result is told twice while the store works, *)
(* and the rows behave as FencedTasks promises.                            *)
(***************************************************************************)
-----------------------------------------------------------------------------
(***************************************************************************)
(* Types.                                                                  *)
(***************************************************************************)
\* A row that changes its state, is leased, ends or is marked stays a row,
\* and the others stay as they are.
LEMMA RowSteps ==
  ASSUME TypeOK, NEW d \in Tasks
  PROVE  /\ \A s \in RowStates : InState(d, s) \in [Tasks -> RowType]
         /\ \A s \in RowStates :
              /\ InState(d, s)[d].state = s
              /\ InState(d, s)[d].attempt = row[d].attempt
              /\ InState(d, s)[d].delivered = row[d].delivered
         /\ Leased(d) \in [Tasks -> RowType]
         /\ Leased(d)[d].state = "running"
         /\ Leased(d)[d].attempt = row[d].attempt + 1
         /\ Leased(d)[d].delivered = row[d].delivered
         /\ Delivered(d) \in [Tasks -> RowType]
         /\ Delivered(d)[d].state = row[d].state
         /\ Delivered(d)[d].attempt = row[d].attempt
         /\ Delivered(d)[d].delivered = TRUE
         /\ \A u \in Tasks \ {d} :
              /\ Delivered(d)[u] = row[u] /\ Leased(d)[u] = row[u]
              /\ \A s \in RowStates : InState(d, s)[u] = row[u]
<1>1. row \in [Tasks -> RowType] /\ row[d] \in RowType
  BY DEF TypeOK
<1>2. ASSUME NEW s \in RowStates
      PROVE  /\ InState(d, s) \in [Tasks -> RowType]
             /\ InState(d, s)[d].state = s
             /\ InState(d, s)[d].attempt = row[d].attempt
             /\ InState(d, s)[d].delivered = row[d].delivered
             /\ \A u \in Tasks \ {d} : InState(d, s)[u] = row[u]
  BY <1>1, <1>2 DEF RowType, InState
<1>3. /\ Leased(d) \in [Tasks -> RowType]
      /\ Leased(d)[d].state = "running"
      /\ Leased(d)[d].attempt = row[d].attempt + 1
      /\ Leased(d)[d].delivered = row[d].delivered
      /\ \A u \in Tasks \ {d} : Leased(d)[u] = row[u]
  <2> DEFINE n == row[d].attempt + 1
             r == [row[d] EXCEPT !.state = "running", !.attempt = n]
  <2>1. n \in Nat
    BY <1>1 DEF RowType
  <2>2. Leased(d) = [row EXCEPT ![d] = r]
    BY DEF Leased
  <2> HIDE DEF n
  <2>3. /\ r \in RowType /\ r.state = "running"
        /\ r.attempt = n /\ r.delivered = row[d].delivered
    BY <1>1, <2>1 DEF RowType, RowStates
  <2> HIDE DEF r
  <2> QED
    BY <1>1, <2>2, <2>3 DEF n
<1>4. /\ Delivered(d) \in [Tasks -> RowType]
      /\ Delivered(d)[d].state = row[d].state
      /\ Delivered(d)[d].attempt = row[d].attempt
      /\ Delivered(d)[d].delivered = TRUE
      /\ \A u \in Tasks \ {d} : Delivered(d)[u] = row[u]
  BY <1>1 DEF RowType, Delivered
<1> QED
  BY <1>2, <1>3, <1>4

\* The same of a step that changes one row's state.
LEMMA RowInState ==
  ASSUME TypeOK, NEW d \in Tasks, NEW s \in RowStates, row' = InState(d, s)
  PROVE  /\ row'[d].state = s
         /\ row'[d].attempt = row[d].attempt
         /\ row'[d].delivered = row[d].delivered
         /\ \A u \in Tasks \ {d} : row'[u] = row[u]
BY RowSteps

\* ... and so does the row that ends by the attempt f.
EndedBy(d, f) == [row EXCEPT ![d] = [@ EXCEPT !.state = "ended", !.by = f]]

\* The fenced terminal write touches its own row only.
LEMMA EndedRow ==
  ASSUME TypeOK, NEW d \in Tasks, NEW f \in Nat
  PROVE  /\ EndedBy(d, f) \in [Tasks -> RowType]
         /\ EndedBy(d, f)[d].state = "ended"
         /\ EndedBy(d, f)[d].attempt = row[d].attempt
         /\ EndedBy(d, f)[d].delivered = row[d].delivered
         /\ \A u \in Tasks \ {d} : EndedBy(d, f)[u] = row[u]
BY DEF TypeOK, RowType, RowStates, EndedBy

\* Completing a run touches its own entry only, and only if it is registered.
LEMMA CompletedEntry ==
  ASSUME TypeOK, NEW w \in runs
  PROVE  /\ w \in RunType /\ w.task \in Tasks /\ w.proc \in Procs
         /\ Completed(w) \in [Procs -> [Tasks -> Entries]]
         /\ \A p \in Procs, d \in Tasks :
              /\ p # w.proc \/ d # w.task => Completed(w)[p][d] = reg[p][d]
              /\ Completed(w)[p][d].taken = reg[p][d].taken
              /\ (Completed(w)[p][d].status = "none") <=> (reg[p][d].status = "none")
              /\ reg[p][d].status = "done" => Completed(w)[p][d].status = "done"
<1>1. w \in RunType /\ w.task \in Tasks /\ w.proc \in Procs /\ w.fence \in Nat
  BY DEF TypeOK, RunType
<1>2. CASE reg[w.proc][w.task].status = "none"
  BY <1>1, <1>2 DEF Completed, TypeOK
<1>3. CASE reg[w.proc][w.task].status # "none"
  <2> DEFINE e == [reg[w.proc][w.task] EXCEPT !.status = "done", !.from = w.fence]
  <2>1. reg[w.proc][w.task] \in Entries
    BY <1>1 DEF TypeOK
  <2>2. /\ e \in Entries /\ e.status = "done"
        /\ e.taken = reg[w.proc][w.task].taken
    BY <1>1, <2>1 DEF Entries
  <2>3. Completed(w) = [reg EXCEPT ![w.proc][w.task] = e]
    BY <1>3 DEF Completed
  <2> HIDE DEF e
  <2> QED
    BY <1>1, <1>3, <2>2, <2>3 DEF TypeOK
<1> QED
  BY <1>2, <1>3

\* The runs after one of them went on, or ended.
LEMMA RunsGoOn ==
  ASSUME TypeOK, NEW w \in runs,
         NEW to \in {"enqueue", "lease", "run", "write", "report"}, NEW f \in Nat
  PROVE  /\ [w EXCEPT !.pc = to, !.fence = f] \in RunType
         /\ [w EXCEPT !.pc = to] \in RunType
         /\ (runs \ {w}) \cup {[w EXCEPT !.pc = to, !.fence = f]} \subseteq RunType
         /\ (runs \ {w}) \cup {[w EXCEPT !.pc = to]} \subseteq RunType
         /\ (runs \ {w}) \cup (IF w.kind = "sync" THEN {[w EXCEPT !.pc = to]} ELSE {})
              \subseteq RunType
BY DEF TypeOK, RunType

\* One more telling.
LEMMA ToldType ==
  ASSUME TypeOK, NEW d \in Tasks, NEW m \in Tellings
  PROVE  /\ [told EXCEPT ![d] = Append(@, m)] \in [Tasks -> Seq(Tellings)]
         /\ [told EXCEPT ![d] = Append(@, m)][d] = Append(told[d], m)
         /\ \A u \in Tasks \ {d} : [told EXCEPT ![d] = Append(@, m)][u] = told[u]
BY DEF TypeOK

\* A drain that goes on.
LEMMA DrainGoesOn ==
  ASSUME TypeOK, NEW p \in Procs, NEW to \in {"idle", "table", "registry"},
         NEW items \in SUBSET Items
  PROVE  /\ DrainAt(p, to, items) \in [Procs -> DrainType]
         /\ DrainAt(p, to, items)[p].pc = to
         /\ DrainAt(p, to, items)[p].items = items
         /\ \A q \in Procs \ {p} : DrainAt(p, to, items)[q] = drain[q]
BY DEF TypeOK, DrainAt, DrainType
\* Every step keeps the types.
LEMMA TypeStep == TypeOK /\ [Next]_vars => TypeOK'
<1> SUFFICES ASSUME TypeOK, [Next]_vars
             PROVE  TypeOK'
  OBVIOUS
<1> USE DeliveryAssumption
<1>1. ASSUME StoreFails \/ StoreWorks
      PROVE  errors' \in 0..MaxErrors
  BY <1>1 DEF TypeOK, StoreFails, StoreWorks
<1>2. ASSUME NEW p \in Procs, NEW d \in Tasks, NEW k \in {"sync", "background"},
             Spawn(p, d, k)
      PROVE  TypeOK'
  <2> DEFINE w == [task |-> d, proc |-> p, fence |-> 0, kind |-> k, pc |-> "enqueue"]
             e == [NoEntry EXCEPT !.status = "running"]
  <2>1. w \in RunType
    BY DEF RunType, Kinds
  <2>2. e \in Entries
    BY DEF Entries, NoEntry
  <2>3. row' \in [Tasks -> RowType]
    BY <1>2, RowSteps DEF Spawn, RowStates
  <2>4. reg' = [reg EXCEPT ![p][d] = e] \/ reg' = reg
    BY <1>2 DEF Spawn
  <2> HIDE DEF e
  <2>5. reg' \in [Procs -> [Tasks -> Entries]]
    <3>1. reg \in [Procs -> [Tasks -> Entries]] /\ reg[p] \in [Tasks -> Entries]
      BY DEF TypeOK
    <3>2. [reg[p] EXCEPT ![d] = e] \in [Tasks -> Entries]
      BY <2>2, <3>1
    <3> QED
      BY <2>4, <3>1, <3>2
  <2> QED
    BY <1>2, <2>1, <2>3, <2>5 DEF Spawn, TypeOK
<1>3. ASSUME NEW p \in Procs, NEW d \in Tasks, SchedulerLease(p, d)
      PROVE  TypeOK'
  <2> DEFINE w == [task |-> d, proc |-> p, fence |-> row[d].attempt + 1,
                   kind |-> "scheduler", pc |-> "run"]
  <2>1. w \in RunType
    BY DEF RunType, Kinds, TypeOK, RowType
  <2>2. runs' = runs \cup {w} /\ row' = Leased(d)
    BY <1>3 DEF SchedulerLease
  <2> QED
    BY <1>3, <2>1, <2>2, RowSteps DEF SchedulerLease, TypeOK
<1>4. ASSUME NEW w \in runs, RunStep(w)
      PROVE  TypeOK'
  <2>1. /\ w \in RunType /\ w.task \in Tasks /\ w.proc \in Procs /\ w.fence \in Nat
        /\ Completed(w) \in [Procs -> [Tasks -> Entries]]
    BY CompletedEntry DEF RunType
  <2>2. CASE Enqueue(w)
    BY <2>1, <2>2, RowSteps, RunsGoOn DEF Enqueue, TypeOK, RowStates
  <2>3. CASE Start(w)
    <3>1. row[w.task].attempt + 1 \in Nat
      BY <2>1 DEF TypeOK, RowType
    <3>2. row' = Leased(w.task) /\ row' \in [Tasks -> RowType]
      BY <2>1, <2>3, RowSteps DEF Start
    <3>3. runs' \subseteq RunType
      <4> DEFINE v == [w EXCEPT !.pc = "run", !.fence = row[w.task].attempt + 1]
      <4>1. v \in RunType /\ runs \subseteq RunType
        BY <3>1, RunsGoOn DEF TypeOK
      <4>2. runs' = (runs \ {w}) \cup {v}
        BY <2>3 DEF Start
      <4> HIDE DEF v
      <4> QED
        BY <4>1, <4>2
    <3> QED
      BY <2>3, <3>2, <3>3 DEF Start, TypeOK
  <2>4. CASE StartRefused(w)
    BY <1>1, <2>1, <2>4, RunsGoOn DEF StartRefused, TypeOK
  <2>5. CASE Finish(w)
    BY <2>1, <2>5, RunsGoOn DEF Finish, TypeOK
  <2>6. CASE LeaseLost(w)
    BY <2>1, <2>6 DEF LeaseLost, TypeOK
  <2>7. CASE WriteBack(w)
    <3>1. \/ row' = EndedBy(w.task, w.fence) \/ row' = row
          \/ row' = InState(w.task, "waiting")
      BY <2>7 DEF WriteBack, EndedBy
    <3>2. row' \in [Tasks -> RowType]
      <4>1. "waiting" \in RowStates /\ row \in [Tasks -> RowType]
        BY DEF RowStates, TypeOK
      <4>2. InState(w.task, "waiting") \in [Tasks -> RowType]
        BY <2>1, <4>1, RowSteps
      <4> QED
        BY <2>1, <3>1, <4>1, <4>2, EndedRow
    <3>3. errors' \in 0..MaxErrors
      BY <1>1, <2>7 DEF WriteBack
    <3> QED
      BY <2>1, <2>7, <3>2, <3>3, RunsGoOn DEF WriteBack, TypeOK
  <2>8. CASE Report(w)
    <3>1. [from |-> w.fence, via |-> "tool"] \in Tellings
      BY <2>1 DEF Tellings
    <3> QED
      BY <2>1, <2>8, <3>1, ToldType DEF Report, TypeOK
  <2> QED
    BY <1>4, <2>2, <2>3, <2>4, <2>5, <2>6, <2>7, <2>8 DEF RunStep
<1>5. ASSUME NEW d \in Tasks, Withdraw(d) \/ Close(d)
      PROVE  TypeOK'
  BY <1>5, RowSteps DEF Withdraw, Close, TypeOK, RowStates
<1>6. ASSUME NEW i \in Items, Deliver(i)
      PROVE  row' \in [Tasks -> RowType] /\ told' \in [Tasks -> Seq(Tellings)]
  <2>1. i.task \in Tasks /\ [from |-> i.from, via |-> "delivery"] \in Tellings
    BY DEF Items, Tellings
  <2>2. /\ Delivered(i.task) \in [Tasks -> RowType]
        /\ [told EXCEPT ![i.task] = Append(@, [from |-> i.from, via |-> "delivery"])]
             \in [Tasks -> Seq(Tellings)]
    BY <2>1, RowSteps, ToldType
  <2> QED
    BY <1>6, <2>2 DEF Deliver, TypeOK
<1>7. ASSUME NEW p \in Procs, Drain(p)
      PROVE  TypeOK'
  <2>1. \A i \in drain[p].items : i \in Items
    BY DEF TypeOK, DrainType
  <2>2. CASE Scan(p)
    <3> DEFINE found == {[task |-> d, from |-> row[d].by] :
                           d \in {u \in Tasks : row[u].state = "ended" /\ ~row[u].delivered}}
    <3>1. found \subseteq Items
      BY DEF Items, TypeOK, RowType
    <3>2. drain' = DrainAt(p, "table", found) \/ drain' = DrainAt(p, "table", {})
      BY <2>2 DEF Scan
    <3>3. drain' \in [Procs -> DrainType]
      BY <3>1, <3>2, DrainGoesOn
    <3>4. errors' \in 0..MaxErrors
      BY <1>1, <2>2 DEF Scan
    <3> QED
      BY <2>2, <3>3, <3>4 DEF Scan, TypeOK
  <2>3. CASE Take(p)
    <3> DEFINE done == {d \in Tasks : reg[p][d].status = "done" /\ ~reg[p][d].taken}
               found == {[task |-> d, from |-> reg[p][d].from] : d \in done}
               mine == [d \in Tasks |-> [reg[p][d] EXCEPT !.taken = @ \/ d \in done]]
    <3>1. found \subseteq Items
      BY DEF Items, TypeOK, Entries
    <3>2. mine \in [Tasks -> Entries]
      <4>1. ASSUME NEW d \in Tasks, NEW b \in BOOLEAN
            PROVE  [reg[p][d] EXCEPT !.taken = b] \in Entries
        <5>1. reg[p][d] \in Entries
          BY DEF TypeOK
        <5> QED
          BY <5>1 DEF Entries
      <4>2. \A d \in Tasks : (reg[p][d].taken \/ d \in done) \in BOOLEAN
        OBVIOUS
      <4> QED
        BY <4>1, <4>2
    <3>3. drain' = DrainAt(p, "registry", found) /\ reg' = [reg EXCEPT ![p] = mine]
      BY <2>3 DEF Take
    <3> HIDE DEF mine, found
    <3>4. /\ drain' \in [Procs -> DrainType]
          /\ reg' \in [Procs -> [Tasks -> Entries]]
      BY <3>1, <3>2, <3>3, DrainGoesOn DEF TypeOK
    <3> QED
      BY <2>3, <3>4 DEF Take, TypeOK
  <2>4. CASE DrainEnds(p)
    BY <2>4, DrainGoesOn DEF DrainEnds, TypeOK
  <2>5. ASSUME NEW i \in drain[p].items, DeliverScanned(p, i)
        PROVE  TypeOK'
    <3>1. drain[p].items \ {i} \in SUBSET Items
      BY <2>1
    <3>2. drain' \in [Procs -> DrainType]
      BY <2>5, <3>1, DrainGoesOn DEF DeliverScanned
    <3>3. row' \in [Tasks -> RowType] /\ told' \in [Tasks -> Seq(Tellings)]
      BY <1>6, <2>1, <2>5 DEF DeliverScanned, TypeOK
    <3>4. errors' \in 0..MaxErrors
      BY <1>1, <2>5 DEF DeliverScanned
    <3> QED
      BY <2>5, <3>2, <3>3, <3>4 DEF DeliverScanned, TypeOK
  <2>6. ASSUME NEW i \in drain[p].items, DeliverTaken(p, i)
        PROVE  TypeOK'
    <3>1. drain[p].items \ {i} \in SUBSET Items /\ {} \in SUBSET Items
      BY <2>1
    <3>2. drain' \in [Procs -> DrainType]
      BY <2>6, <3>1, DrainGoesOn DEF DeliverTaken
    <3>3. i.task \in Tasks /\ [from |-> i.from, via |-> "plain"] \in Tellings
      BY <2>1 DEF Items, Tellings
    <3>4. [told EXCEPT ![i.task] = Append(@, [from |-> i.from, via |-> "plain"])]
            \in [Tasks -> Seq(Tellings)]
      BY <3>3, ToldType
    <3>5. row' \in [Tasks -> RowType] /\ told' \in [Tasks -> Seq(Tellings)]
      BY <1>6, <2>1, <2>6, <3>4 DEF DeliverTaken, TypeOK
    <3>6. errors' \in 0..MaxErrors
      BY <1>1, <2>6 DEF DeliverTaken
    <3> QED
      BY <2>6, <3>2, <3>5, <3>6 DEF DeliverTaken, TypeOK
  <2> QED
    BY <1>7, <2>2, <2>3, <2>4, <2>5, <2>6 DEF Drain
<1>8. ASSUME NEW p \in Procs, StartProcess(p)
      PROVE  TypeOK'
  BY <1>8 DEF StartProcess, TypeOK
<1>9. ASSUME NEW p \in Procs, Crash(p)
      PROVE  TypeOK'
  <2>1. NoEntry \in Entries /\ IdleDrain \in DrainType
    BY DEF NoEntry, Entries, IdleDrain, DrainType
  <2>2. [d \in Tasks |-> NoEntry] \in [Tasks -> Entries]
    BY <2>1
  <2> QED
    BY <1>9, <2>1, <2>2 DEF Crash, TypeOK
<1>10. CASE UNCHANGED vars
  BY <1>10 DEF vars, TypeOK
<1> QED
  BY <1>2, <1>3, <1>4, <1>5, <1>7, <1>8, <1>9, <1>10 DEF Next

\* An empty store and processes not yet started are well typed.
LEMMA TypeInit == Init => TypeOK
<1> SUFFICES ASSUME Init PROVE TypeOK
  OBVIOUS
<1>1. [state |-> "new", attempt |-> 0, by |-> 0, delivered |-> FALSE] \in RowType
  BY DEF RowType, RowStates
<1>2. NoEntry \in Entries /\ IdleDrain \in DrainType /\ <<>> \in Seq(Tellings)
  BY DEF NoEntry, Entries, IdleDrain, DrainType
<1>3. errors \in 0..MaxErrors
  BY DeliveryAssumption DEF Init
<1> QED
  BY <1>1, <1>2, <1>3 DEF Init, TypeOK

\* The table, the registries, the runs, the drains and the log keep their types.
THEOREM DeliveryTypes == Spec => []TypeOK
BY TypeInit, TypeStep, PTL DEF Spec

-----------------------------------------------------------------------------
(***************************************************************************)
(* What one more telling adds to the log.                                  *)
(***************************************************************************)
LEMMA ViaIsFinite ==
  ASSUME TypeOK, NEW d \in Tasks, NEW how
  PROVE  /\ IsFiniteSet(Via(d, how))
         /\ Via(d, how) \subseteq 1..Len(told[d])
         /\ Len(told[d]) \in Nat
<1>1. told[d] \in Seq(Tellings)
  BY DEF TypeOK
<1>2. /\ Len(told[d]) \in Nat
      /\ Via(d, how) \subseteq 1..Len(told[d])
  BY <1>1 DEF Via
<1>3. IsFiniteSet(1..Len(told[d]))
  BY <1>2, FS_Interval
<1> QED
  BY <1>2, <1>3, FS_Subset

\* One more telling counts for its own way of telling and its own task.
LEMMA ViaGrows ==
  ASSUME TypeOK, NEW d \in Tasks, NEW m \in Tellings,
         told' = [told EXCEPT ![d] = Append(@, m)], NEW how
  PROVE  /\ Via(d, how)' = IF m.via = how THEN Via(d, how) \cup {Len(told[d]) + 1}
                           ELSE Via(d, how)
         /\ m.via = how => Cardinality(Via(d, how)') = Cardinality(Via(d, how)) + 1
         /\ \A u \in Tasks \ {d} : Via(u, how)' = Via(u, how)
<1>1. told[d] \in Seq(Tellings) /\ told'[d] = Append(told[d], m)
  BY ToldType DEF TypeOK
<1>2. /\ Len(told'[d]) = Len(told[d]) + 1
      /\ DOMAIN told'[d] = 1..(Len(told[d]) + 1)
      /\ \A i \in 1..Len(told[d]) : told'[d][i] = told[d][i]
      /\ told'[d][Len(told[d]) + 1] = m
      /\ DOMAIN told[d] = 1..Len(told[d]) /\ Len(told[d]) \in Nat
  BY <1>1
<1>3. Via(d, how)' = IF m.via = how THEN Via(d, how) \cup {Len(told[d]) + 1}
                     ELSE Via(d, how)
  <2>1. Via(d, how)' = {i \in 1..(Len(told[d]) + 1) : told'[d][i].via = how}
    BY <1>2 DEF Via
  <2>2. Via(d, how) = {i \in 1..Len(told[d]) : told[d][i].via = how}
    BY <1>2 DEF Via
  <2> QED
    BY <1>2, <2>1, <2>2
<1>4. ASSUME m.via = how
      PROVE  Cardinality(Via(d, how)') = Cardinality(Via(d, how)) + 1
  <2>1. Len(told[d]) + 1 \notin Via(d, how) /\ IsFiniteSet(Via(d, how))
    BY <1>2, ViaIsFinite
  <2> QED
    BY <1>3, <1>4, <2>1, FS_AddElement
<1>5. \A u \in Tasks \ {d} : Via(u, how)' = Via(u, how)
  <2>1. \A u \in Tasks \ {d} : told'[u] = told[u]
    BY ToldType
  <2> QED
    BY <2>1 DEF Via
<1> QED
  BY <1>3, <1>4, <1>5

-----------------------------------------------------------------------------
(***************************************************************************)
(* The mark and the log.                                                   *)
(***************************************************************************)
\* A step that tells nothing and leaves the marks and what has ended.
LEMMA MarksKept ==
  ASSUME DeliveredExactlyOnce, told' = told,
         \A d \in Tasks : /\ row'[d].delivered = row[d].delivered
                          /\ row[d].state = "ended" => row'[d].state = "ended"
  PROVE  DeliveredExactlyOnce'
BY DEF DeliveredExactlyOnce, Via

\* A step that tells something that is no delivery.
LEMMA OtherTelling ==
  ASSUME TypeOK, DeliveredExactlyOnce, NEW d \in Tasks, NEW m \in Tellings,
         m.via # "delivery", told' = [told EXCEPT ![d] = Append(@, m)], row' = row
  PROVE  DeliveredExactlyOnce'
<1>1. \A u \in Tasks : Via(u, "delivery")' = Via(u, "delivery")
  BY ViaGrows
<1> QED
  BY <1>1 DEF DeliveredExactlyOnce

\* deliver_task_result writes the event and the mark, or neither.
LEMMA DeliverMarks ==
  ASSUME TypeOK, DeliveredExactlyOnce, NEW i \in Items, Deliver(i)
  PROVE  DeliveredExactlyOnce'
<1> DEFINE d == i.task
           m == [from |-> i.from, via |-> "delivery"]
<1>1. d \in Tasks /\ m \in Tellings /\ m.via = "delivery"
  BY DEF Items, Tellings
<1>2. CASE Outcome(d) # "Appended"
  BY <1>2, MarksKept DEF Deliver
<1>3. CASE Outcome(d) = "Appended"
  <2>1. row[d].state = "ended" /\ ~row[d].delivered
    BY <1>1, <1>3 DEF Outcome, TypeOK, RowType, RowStates
  <2>2. row' = Delivered(d) /\ told' = [told EXCEPT ![d] = Append(@, m)]
    BY <1>3 DEF Deliver
  <2> HIDE DEF d, m
  <2>3. /\ Cardinality(Via(d, "delivery")') = Cardinality(Via(d, "delivery")) + 1
        /\ \A u \in Tasks \ {d} : Via(u, "delivery")' = Via(u, "delivery")
    BY <1>1, <2>2, ViaGrows
  <2>4. /\ row'[d].state = "ended" /\ row'[d].delivered = TRUE
        /\ \A u \in Tasks \ {d} : row'[u] = row[u]
    BY <1>1, <2>1, <2>2, RowSteps
  <2>5. Cardinality(Via(d, "delivery")) = 0
    BY <1>1, <2>1 DEF DeliveredExactlyOnce
  <2>6. Cardinality(Via(d, "delivery")') = IF row'[d].delivered THEN 1 ELSE 0
    BY <2>3, <2>4, <2>5
  <2> QED
    BY <2>3, <2>4, <2>6 DEF DeliveredExactlyOnce
<1> QED
  BY <1>2, <1>3

-----------------------------------------------------------------------------
(***************************************************************************)
(* What the spawns, the registries and the drains know of each other.      *)
(***************************************************************************)
\* An id nobody drew yet is in no log, no registry and no run.
NewIsUntouched ==
  \A d \in Tasks : row[d].state = "new" =>
    /\ told[d] = <<>>
    /\ \A p \in Procs : reg[p][d].status = "none"
    /\ \A w \in runs : w.task # d

\* Until its row is written, the spawn is all there is of a task.
UpToEnqueue ==
  \A w \in runs : w.pc = "enqueue" =>
    /\ row[w.task].state = "absent"
    /\ \A v \in runs : v.task = w.task => v = w
    /\ \A p \in Procs : reg[p][w.task].status \in {"none", "running"}

\* A task is registered in the process that spawned it and nowhere else.
OneRegistry ==
  \A d \in Tasks : \A p, q \in Procs :
    reg[p][d].status # "none" /\ reg[q][d].status # "none" => p = q

\* What a drain took is finished, marked as taken, and taken once.
TakenOnce ==
  \A p \in Procs : drain[p].pc = "registry" =>
    \A i \in drain[p].items :
      /\ reg[p][i.task].status = "done" /\ reg[p][i.task].taken
      /\ \A j \in drain[p].items : j.task = i.task => j = i

\* While the store works, a plain telling is the only one of its kind, and
\* nothing is left that could tell of the task again: the table never knew
\* it, no spawn will enqueue it, and no registry or drain still holds it.
PlainIsLast ==
  errors = 0 =>
    \A d \in Tasks : Via(d, "plain") # {} =>
      /\ Cardinality(Via(d, "plain")) = 1
      /\ row[d].state = "absent"
      /\ \A w \in runs : w.task = d => w.pc # "enqueue"
      /\ \A p \in Procs :
           /\ reg[p][d].status # "none" => reg[p][d].taken
           /\ drain[p].pc = "registry" => \A i \in drain[p].items : i.task # d

Facts == NewIsUntouched /\ UpToEnqueue /\ OneRegistry /\ TakenOnce

\* The steps that neither spawn nor enqueue: no row appears or disappears, ...
QuietRows ==
  \A d \in Tasks :
    /\ row[d].state \in {"new", "absent"} \/ row'[d].state \in {"new", "absent"}
         => row'[d].state = row[d].state
    /\ row[d].state = "new" => told'[d] = told[d]

\* ... no run is about to enqueue that was not, and a run that is new is of a
\* task the table has, or goes on for another of its task, ...
QuietRuns ==
  \A v \in runs' :
    \/ v \in runs
    \/ /\ v.pc # "enqueue"
       /\ \/ row[v.task].state \notin {"new", "absent"}
          \/ \E u \in runs : u \notin runs' /\ u.task = v.task

\* ... an entry changes by completing, by being taken or by a crash, ...
QuietEntry(p, d) ==
  \/ reg'[p][d].status = "none" /\ drain'[p].pc = "idle"
  \/ /\ reg'[p][d].status = reg[p][d].status
     /\ reg[p][d].taken => reg'[p][d].taken
  \/ /\ reg[p][d].status # "none" /\ reg'[p][d].status = "done"
     /\ reg[p][d].taken => reg'[p][d].taken
     /\ \A v \in runs' : v.task = d => v.pc # "enqueue"

QuietReg == \A p \in Procs, d \in Tasks : QuietEntry(p, d)

\* ... and a drain hands out what it has taken.
QuietDrain ==
  \A p \in Procs : drain'[p].pc = "registry" =>
    drain[p].pc = "registry" /\ drain'[p].items \subseteq drain[p].items

Quiet == QuietRows /\ QuietRuns /\ QuietReg /\ QuietDrain

\* Quiet steps keep the shape of spawns and registries.
LEMMA QuietShape ==
  ASSUME TypeOK, TypeOK', NewIsUntouched, UpToEnqueue, OneRegistry,
         QuietRows, QuietRuns, QuietReg
  PROVE  NewIsUntouched' /\ UpToEnqueue' /\ OneRegistry'
<1>1. \A v \in runs : v.task \in Tasks
  BY DEF TypeOK, RunType
<1>2. \A v \in runs' : v.task \in Tasks
  BY DEF TypeOK, RunType
<1>3. NewIsUntouched'
  <2> SUFFICES ASSUME NEW d \in Tasks, row'[d].state = "new"
               PROVE  /\ told'[d] = <<>>
                      /\ \A p \in Procs : reg'[p][d].status = "none"
                      /\ \A w \in runs' : w.task # d
    BY DEF NewIsUntouched
  <2>1. /\ row[d].state = "new" /\ told'[d] = <<>>
        /\ \A p \in Procs : reg[p][d].status = "none"
        /\ \A w \in runs : w.task # d
    BY DEF QuietRows, NewIsUntouched
  <2>2. \A p \in Procs : reg'[p][d].status = "none"
    BY <2>1 DEF QuietReg, QuietEntry
  <2>3. \A w \in runs' : w.task # d
    BY <2>1 DEF QuietRuns
  <2> QED
    BY <2>1, <2>2, <2>3
<1>4. UpToEnqueue'
  <2> SUFFICES ASSUME NEW w \in runs', w.pc = "enqueue"
               PROVE  /\ row'[w.task].state = "absent"
                      /\ \A v \in runs' : v.task = w.task => v = w
                      /\ \A p \in Procs : reg'[p][w.task].status \in {"none", "running"}
    BY DEF UpToEnqueue
  <2>1. /\ w \in runs /\ w.task \in Tasks
        /\ row[w.task].state = "absent"
        /\ \A v \in runs : v.task = w.task => v = w
        /\ \A p \in Procs : reg[p][w.task].status \in {"none", "running"}
    BY <1>2 DEF QuietRuns, UpToEnqueue
  <2>2. row'[w.task].state = "absent"
    BY <2>1 DEF QuietRows
  <2>3. \A v \in runs' : v.task = w.task => v = w
    BY <2>1 DEF QuietRuns
  <2>4. \A p \in Procs : reg'[p][w.task].status \in {"none", "running"}
    BY <2>1 DEF QuietReg, QuietEntry
  <2> QED
    BY <2>2, <2>3, <2>4
<1>5. OneRegistry'
  <2>1. \A p \in Procs, d \in Tasks :
          reg'[p][d].status # "none" => reg[p][d].status # "none"
    BY DEF QuietReg, QuietEntry
  <2> QED
    BY <2>1 DEF OneRegistry
<1> QED
  BY <1>3, <1>4, <1>5

\* ... and what the drains took,
LEMMA QuietTaken ==
  ASSUME TypeOK, TypeOK', TakenOnce, QuietReg, QuietDrain
  PROVE  TakenOnce'
<1> SUFFICES ASSUME NEW p \in Procs, drain'[p].pc = "registry",
                    NEW i \in drain'[p].items
             PROVE  /\ reg'[p][i.task].status = "done" /\ reg'[p][i.task].taken
                    /\ \A j \in drain'[p].items : j.task = i.task => j = i
  BY DEF TakenOnce
<1>1. /\ drain[p].pc = "registry" /\ i \in drain[p].items
      /\ drain'[p].items \subseteq drain[p].items
  BY DEF QuietDrain
<1>2. /\ reg[p][i.task].status = "done" /\ reg[p][i.task].taken
      /\ \A j \in drain[p].items : j.task = i.task => j = i
  BY <1>1 DEF TakenOnce
<1>3. i.task \in Tasks
  BY <1>1 DEF TypeOK, DrainType, Items
<1>4. reg'[p][i.task].status = "done" /\ reg'[p][i.task].taken
  BY <1>2, <1>3 DEF QuietReg, QuietEntry
<1> QED
  BY <1>1, <1>2, <1>4

\* ... and, when they tell nothing plainly, that plain tellings are last.
LEMMA QuietPlain ==
  ASSUME TypeOK, TypeOK', PlainIsLast, QuietRows, QuietRuns, QuietReg, QuietDrain,
         errors' = 0 => errors = 0,
         \A d \in Tasks : Via(d, "plain")' = Via(d, "plain")
  PROVE  PlainIsLast'
<1> SUFFICES ASSUME errors' = 0, NEW d \in Tasks, Via(d, "plain")' # {}
             PROVE  /\ Cardinality(Via(d, "plain")') = 1
                    /\ row'[d].state = "absent"
                    /\ \A w \in runs' : w.task = d => w.pc # "enqueue"
                    /\ \A p \in Procs :
                         /\ reg'[p][d].status # "none" => reg'[p][d].taken
                         /\ drain'[p].pc = "registry" =>
                              \A i \in drain'[p].items : i.task # d
  BY DEF PlainIsLast
<1>1. /\ Cardinality(Via(d, "plain")) = 1
      /\ row[d].state = "absent"
      /\ \A w \in runs : w.task = d => w.pc # "enqueue"
      /\ \A p \in Procs :
           /\ reg[p][d].status # "none" => reg[p][d].taken
           /\ drain[p].pc = "registry" => \A i \in drain[p].items : i.task # d
  BY DEF PlainIsLast
<1>2. Cardinality(Via(d, "plain")') = 1
  BY <1>1
<1>3. row'[d].state = "absent"
  BY <1>1 DEF QuietRows
<1>4. \A w \in runs' : w.task = d => w.pc # "enqueue"
  BY <1>1 DEF QuietRuns
<1>5. ASSUME NEW p \in Procs
      PROVE  /\ reg'[p][d].status # "none" => reg'[p][d].taken
             /\ drain'[p].pc = "registry" => \A i \in drain'[p].items : i.task # d
  <2>1. reg'[p][d].status # "none" => reg'[p][d].taken
    BY <1>1 DEF QuietReg, QuietEntry
  <2>2. drain'[p].pc = "registry" => \A i \in drain'[p].items : i.task # d
    BY <1>1 DEF QuietDrain
  <2> QED
    BY <2>1, <2>2
<1> QED
  BY <1>2, <1>3, <1>4, <1>5

Inv == Facts /\ PlainIsLast

\* A quiet step that tells nothing plainly keeps all of it.
LEMMA QuietKeeps ==
  ASSUME TypeOK, TypeOK', Inv, Quiet, errors' = 0 => errors = 0,
         \A d \in Tasks : Via(d, "plain")' = Via(d, "plain")
  PROVE  Inv'
<1>1. NewIsUntouched' /\ UpToEnqueue' /\ OneRegistry'
  BY QuietShape DEF Inv, Facts, Quiet
<1>2. TakenOnce'
  BY QuietTaken DEF Inv, Facts, Quiet
<1>3. PlainIsLast'
  BY QuietPlain DEF Inv, Quiet
<1> QED
  BY <1>1, <1>2, <1>3 DEF Inv, Facts

\* A failing transaction is counted, any other leaves the count.
LEMMA ErrorsCount ==
  ASSUME TypeOK, StoreFails \/ StoreWorks
  PROVE  errors' = 0 => errors = 0
BY DeliveryAssumption DEF TypeOK, StoreFails, StoreWorks

\* The registry, when a run completes its own entry and does not stay as it is.
LEMMA CompletedIsQuiet ==
  ASSUME TypeOK, Inv, NEW w \in runs, w \notin runs', QuietRuns,
         reg' = Completed(w) \/ reg' = reg
  PROVE  QuietReg
<1> SUFFICES ASSUME NEW p \in Procs, NEW d \in Tasks
             PROVE  QuietEntry(p, d)
  BY DEF QuietReg
<1>1. CASE reg'[p][d] = reg[p][d]
  BY <1>1 DEF QuietEntry
<1>2. CASE reg'[p][d] # reg[p][d]
  <2>1. /\ reg' = Completed(w) /\ p = w.proc /\ d = w.task
        /\ reg[p][d].status # "none"
        /\ reg'[p][d].status = "done" /\ reg'[p][d].taken = reg[p][d].taken
    <3>1. reg' = Completed(w)
      BY <1>2
    <3>2. p = w.proc /\ d = w.task
      BY <1>2, <3>1, CompletedEntry
    <3>3. reg[p][d].status # "none"
      BY <1>2, <3>1, <3>2 DEF Completed
    <3> DEFINE e == [reg[p][d] EXCEPT !.status = "done", !.from = w.fence]
    <3>4. reg' = [reg EXCEPT ![p][d] = e]
      BY <3>1, <3>2, <3>3 DEF Completed
    <3>5. reg[p][d] \in Entries /\ reg \in [Procs -> [Tasks -> Entries]]
      BY DEF TypeOK
    <3>6. e.status = "done" /\ e.taken = reg[p][d].taken
      BY <3>5 DEF Entries
    <3> HIDE DEF e
    <3>7. reg'[p][d] = e
      BY <3>4, <3>5
    <3> QED
      BY <3>1, <3>2, <3>3, <3>6, <3>7
  <2>2. \A v \in runs' : v.task = d => v.pc # "enqueue"
    BY <2>1 DEF QuietRuns, Inv, Facts, UpToEnqueue
  <2> QED
    BY <2>1, <2>2 DEF QuietEntry
<1> QED
  BY <1>1, <1>2

\* The runs, when one of them goes on or ends.
LEMMA GoesOnIsQuiet ==
  ASSUME TypeOK, NEW w \in runs,
         \/ runs' = runs \ {w}
         \/ \E v : /\ runs' = (runs \ {w}) \cup {v}
                   /\ v.task = w.task /\ v.pc # "enqueue" /\ v.pc # w.pc
  PROVE  QuietRuns /\ w \notin runs'
BY DEF QuietRuns

\* Nothing of the kind in the table and the log.
LEMMA SameTableIsQuiet ==
  ASSUME row' = row, told' = told
  PROVE  QuietRows /\ \A d \in Tasks : Via(d, "plain")' = Via(d, "plain")
BY DEF QuietRows, Via

\* A row in the table moves between its states.
LEMMA RowMoveIsQuiet ==
  ASSUME TypeOK, NEW d \in Tasks, told' = told,
         row[d].state \in {"waiting", "running", "ended"},
         row'[d].state \in {"waiting", "running", "ended"},
         \A u \in Tasks \ {d} : row'[u] = row[u]
  PROVE  QuietRows /\ \A u \in Tasks : Via(u, "plain")' = Via(u, "plain")
<1>1. QuietRows
  BY DEF QuietRows
<1>2. \A u \in Tasks : Via(u, "plain")' = Via(u, "plain")
  BY DEF Via
<1> QED
  BY <1>1, <1>2

\* What a step leaves alone is quiet.
LEMMA SameDrain == ASSUME drain' = drain PROVE QuietDrain
BY DEF QuietDrain

\* The same of the registries.
LEMMA SameReg == ASSUME reg' = reg PROVE QuietReg
BY DEF QuietReg, QuietEntry

\* The same of the runs.
LEMMA SameRuns == ASSUME runs' = runs PROVE QuietRuns
BY DEF QuietRuns

\* A spawn: a fresh id, one run and at most one registration of it.
LEMMA SpawnKeeps ==
  ASSUME TypeOK, TypeOK', Inv, NEW p \in Procs, NEW d \in Tasks,
         NEW k \in {"sync", "background"}, Spawn(p, d, k)
  PROVE  Inv'
<1> DEFINE w == [task |-> d, proc |-> p, fence |-> 0, kind |-> k, pc |-> "enqueue"]
           e == [NoEntry EXCEPT !.status = "running"]
<1>1. /\ row[d].state = "new" /\ told[d] = <<>>
      /\ \A q \in Procs : reg[q][d].status = "none"
      /\ \A v \in runs : v.task # d
  BY DEF Spawn, Inv, Facts, NewIsUntouched
<1>2. /\ row'[d].state = "absent"
      /\ \A u \in Tasks \ {d} : row'[u] = row[u]
  BY RowSteps DEF Spawn, RowStates
<1>3. /\ runs' = runs \cup {w} /\ told' = told /\ drain' = drain /\ errors' = errors
      /\ w.task = d
  BY DEF Spawn
<1>4. /\ \A q \in Procs : \A u \in Tasks : q # p \/ u # d => reg'[q][u] = reg[q][u]
      /\ reg'[p][d].status \in {"none", "running"}
  <2>1. e.status = "running"
    BY DEF NoEntry
  <2>2. reg' = [reg EXCEPT ![p][d] = e] \/ reg' = reg
    BY DEF Spawn
  <2> HIDE DEF e
  <2> QED
    BY <1>1, <2>1, <2>2 DEF TypeOK
<1> HIDE DEF w
<1>5. \A v \in runs : v.task \in Tasks
  BY DEF TypeOK, RunType
<1>6. NewIsUntouched'
  BY <1>2, <1>3, <1>4 DEF NewIsUntouched, Inv, Facts
<1>7. UpToEnqueue'
  <2>1. \A v \in runs : v.pc = "enqueue" =>
          /\ row[v.task].state = "absent" /\ v.task # d
          /\ \A u \in runs : u.task = v.task => u = v
          /\ \A q \in Procs : reg[q][v.task].status \in {"none", "running"}
    BY <1>1 DEF Inv, Facts, UpToEnqueue
  <2>2. ASSUME NEW v \in runs, v.pc = "enqueue"
        PROVE  /\ row'[v.task].state = "absent"
               /\ \A u \in runs' : u.task = v.task => u = v
               /\ \A q \in Procs : reg'[q][v.task].status \in {"none", "running"}
    BY <1>2, <1>3, <1>4, <1>5, <2>1, <2>2
  <2>3. /\ row'[w.task].state = "absent"
        /\ \A u \in runs' : u.task = w.task => u = w
        /\ \A q \in Procs : reg'[q][w.task].status \in {"none", "running"}
    BY <1>1, <1>2, <1>3, <1>4
  <2> QED
    BY <1>3, <2>2, <2>3 DEF UpToEnqueue
<1>8. OneRegistry'
  BY <1>1, <1>4 DEF OneRegistry, Inv, Facts
<1>9. \A q \in Procs : drain[q].pc = "registry" => \A i \in drain[q].items : i.task # d
  BY <1>1 DEF Inv, Facts, TakenOnce
<1>10. TakenOnce'
  <2>1. \A q \in Procs : \A i \in drain[q].items : i.task \in Tasks
    BY DEF TypeOK, DrainType, Items
  <2> QED
    BY <1>3, <1>4, <1>9, <2>1 DEF TakenOnce, Inv, Facts
<1>11. PlainIsLast'
  <2>1. /\ \A u \in Tasks : Via(u, "plain")' = Via(u, "plain")
        /\ Via(d, "plain") = {}
    BY <1>1, <1>3 DEF Via
  <2> QED
    BY <1>2, <1>3, <1>4, <2>1 DEF PlainIsLast, Inv
<1> QED
  BY <1>6, <1>7, <1>8, <1>10, <1>11 DEF Inv, Facts

\* The enqueue: the only run of the task, hence the only one to write its row.
LEMMA EnqueueKeeps ==
  ASSUME TypeOK, TypeOK', Inv, NEW w \in runs, Enqueue(w)
  PROVE  Inv'
<1> DEFINE d == w.task
           x == [w EXCEPT !.pc = "lease"]
<1>1. /\ d \in Tasks /\ x.task = d /\ x.pc = "lease"
      /\ \A v \in runs : v.task \in Tasks
  BY DEF TypeOK, RunType
<1>2. /\ row[d].state = "absent"
      /\ \A v \in runs : v.task = d => v = w
  BY DEF Enqueue, Inv, Facts, UpToEnqueue
<1>3. /\ row'[d].state = "waiting"
      /\ \A u \in Tasks \ {d} : row'[u] = row[u]
  BY <1>1, RowSteps DEF Enqueue, RowStates
<1>4. /\ runs' = (runs \ {w}) \cup {x}
      /\ reg' = reg /\ told' = told /\ drain' = drain /\ errors' = errors
  BY DEF Enqueue
<1> HIDE DEF d, x
<1>5. NewIsUntouched'
  BY <1>1, <1>2, <1>3, <1>4 DEF NewIsUntouched, Inv, Facts
<1>6. UpToEnqueue'
  <2>1. \A v \in runs' : v.pc = "enqueue" => v \in runs /\ v.task # d
    BY <1>1, <1>2, <1>4
  <2> QED
    BY <1>1, <1>3, <1>4, <2>1 DEF UpToEnqueue, Inv, Facts
<1>7. OneRegistry' /\ TakenOnce'
  BY <1>4 DEF OneRegistry, TakenOnce, Inv, Facts
<1>8. PlainIsLast'
  <2>1. \A u \in Tasks : Via(u, "plain")' = Via(u, "plain")
    BY <1>4 DEF Via
  <2>2. errors = 0 => Via(d, "plain") = {}
    BY <1>1 DEF PlainIsLast, Inv, Enqueue, d
  <2> QED
    BY <1>1, <1>3, <1>4, <2>1, <2>2 DEF PlainIsLast, Inv
<1> QED
  BY <1>5, <1>6, <1>7, <1>8 DEF Inv, Facts

\* take_finished_undelivered hands out what is finished and not yet taken.
LEMMA TakeKeeps ==
  ASSUME TypeOK, TypeOK', Inv, NEW p \in Procs, Take(p)
  PROVE  Inv'
<1> DEFINE done == {d \in Tasks : reg[p][d].status = "done" /\ ~reg[p][d].taken}
           found == {[task |-> d, from |-> reg[p][d].from] : d \in done}
           mine == [d \in Tasks |-> [reg[p][d] EXCEPT !.taken = @ \/ d \in done]]
<1>1. /\ drain' = DrainAt(p, "registry", found) /\ reg' = [reg EXCEPT ![p] = mine]
      /\ row' = row /\ runs' = runs /\ told' = told /\ errors' = errors
  BY DEF Take
<1>2. \A q \in Procs : \A d \in Tasks :
        /\ reg'[q][d].status = reg[q][d].status
        /\ reg[q][d].taken => reg'[q][d].taken
        /\ q = p /\ reg[q][d].status = "done" => reg'[q][d].taken
  <2>1. ASSUME NEW d \in Tasks
        PROVE  /\ mine[d].status = reg[p][d].status
               /\ mine[d].taken = (reg[p][d].taken \/ d \in done)
    <3>1. reg[p][d] \in Entries
      BY DEF TypeOK
    <3> QED
      BY <3>1 DEF Entries
  <2>2. \A d \in Tasks : /\ reg'[p][d].status = reg[p][d].status
                         /\ reg[p][d].taken => reg'[p][d].taken
                         /\ reg[p][d].status = "done" => reg'[p][d].taken
    <3>1. \A d \in Tasks : reg'[p][d] = mine[d]
      BY <1>1 DEF TypeOK
    <3> HIDE DEF mine
    <3> QED
      BY <2>1, <3>1
  <2>3. \A q \in Procs \ {p} : reg'[q] = reg[q]
    BY <1>1 DEF TypeOK
  <2> QED
    BY <2>2, <2>3
<1>3. found \subseteq Items
  BY DEF Items, TypeOK, Entries
<1> HIDE DEF mine
<1>4. /\ drain'[p].items = found
      /\ \A q \in Procs \ {p} : drain'[q] = drain[q]
  BY <1>1, <1>3, DrainGoesOn
<1>5. QuietRows /\ QuietRuns /\ \A d \in Tasks : Via(d, "plain")' = Via(d, "plain")
  BY <1>1, SameTableIsQuiet, SameRuns
<1>6. QuietReg
  BY <1>2 DEF QuietReg, QuietEntry
<1>7. NewIsUntouched' /\ UpToEnqueue' /\ OneRegistry'
  BY <1>5, <1>6, QuietShape DEF Inv, Facts
<1>8. \A i \in found : /\ i.task \in Tasks /\ reg[p][i.task].status = "done"
                       /\ ~reg[p][i.task].taken
                       /\ \A j \in found : j.task = i.task => j = i
  OBVIOUS
<1> HIDE DEF found
<1>9. TakenOnce'
  <2>1. ASSUME NEW q \in Procs, drain'[q].pc = "registry", NEW i \in drain'[q].items
        PROVE  /\ reg'[q][i.task].status = "done" /\ reg'[q][i.task].taken
               /\ \A j \in drain'[q].items : j.task = i.task => j = i
    <3>1. CASE q = p
      BY <1>2, <1>4, <1>8, <3>1
    <3>2. CASE q # p
      <4>1. /\ drain[q].pc = "registry" /\ i \in drain[q].items
            /\ drain'[q].items = drain[q].items /\ i.task \in Tasks
        BY <1>4, <2>1, <3>2 DEF TypeOK, DrainType, Items
      <4> QED
        BY <1>2, <4>1 DEF TakenOnce, Inv, Facts
    <3> QED
      BY <3>1, <3>2
  <2> QED
    BY <2>1 DEF TakenOnce
<1>10. PlainIsLast'
  <2>1. ASSUME errors = 0, NEW d \in Tasks, Via(d, "plain") # {}, NEW q \in Procs
        PROVE  /\ reg'[q][d].status # "none" => reg'[q][d].taken
               /\ drain'[q].pc = "registry" => \A i \in drain'[q].items : i.task # d
    <3>1. /\ reg[q][d].status # "none" => reg[q][d].taken
          /\ drain[q].pc = "registry" => \A i \in drain[q].items : i.task # d
      BY <2>1 DEF PlainIsLast, Inv
    <3> QED
      BY <1>2, <1>4, <1>8, <2>1, <3>1
  <2> QED
    BY <1>1, <1>5, <2>1 DEF PlainIsLast, Inv
<1> QED
  BY <1>7, <1>9, <1>10 DEF Inv, Facts

\* A plain telling of a taken result: when the store works, of a task the
\* table does not know, taken once from the only registry that has it.
LEMMA PlainTellingKeeps ==
  ASSUME TypeOK, TypeOK', Inv, NEW p \in Procs, NEW i \in drain[p].items,
         drain[p].pc = "registry", (TellsPlainly(i) /\ StoreWorks) \/ StoreFails,
         told' = [told EXCEPT ![i.task] = Append(@, [from |-> i.from, via |-> "plain"])],
         drain' = DrainAt(p, "registry", drain[p].items \ {i}),
         row' = row, reg' = reg, runs' = runs
  PROVE  Inv'
<1> DEFINE d == i.task
           m == [from |-> i.from, via |-> "plain"]
<1>1. d \in Tasks /\ m \in Tellings /\ m.via = "plain"
  BY DEF TypeOK, DrainType, Items, Tellings
<1>2. /\ reg[p][d].status = "done" /\ reg[p][d].taken
      /\ \A j \in drain[p].items : j.task = d => j = i
  BY DEF Inv, Facts, TakenOnce
<1>3. /\ told' = [told EXCEPT ![d] = Append(@, m)]
      /\ \A u \in Tasks \ {d} : told'[u] = told[u]
  BY <1>1, ToldType
<1>4. /\ drain'[p].items = drain[p].items \ {i} /\ drain'[p].pc = "registry"
      /\ \A q \in Procs \ {p} : drain'[q] = drain[q]
  <2>1. drain[p].items \ {i} \in SUBSET Items
    BY DEF TypeOK, DrainType
  <2> QED
    BY <2>1, DrainGoesOn
<1> HIDE DEF d, m
<1>5. QuietRows /\ QuietRuns /\ QuietReg /\ QuietDrain
  <2>1. QuietRows
    BY <1>1, <1>2, <1>3 DEF QuietRows, Inv, Facts, NewIsUntouched
  <2>2. QuietDrain
    BY <1>4 DEF QuietDrain
  <2> QED
    BY <2>1, <2>2, SameReg, SameRuns
<1>6. Facts'
  BY <1>5, QuietShape, QuietTaken DEF Inv, Facts
<1>7. PlainIsLast'
  <2> SUFFICES ASSUME errors' = 0
               PROVE  PlainIsLast'
    BY DEF PlainIsLast
  <2>1. errors = 0 /\ TellsPlainly(i)
    <3>1. ~StoreFails
      BY DeliveryAssumption DEF StoreFails, TypeOK
    <3> QED
      BY <3>1 DEF StoreWorks
  <2>2. row[d].state = "absent"
    <3>1. row[d].state \in {"new", "absent"}
      BY <1>1, <2>1 DEF TellsPlainly, Outcome, TypeOK, RowType, RowStates, d
    <3> QED
      BY <1>1, <1>2, <3>1 DEF Inv, Facts, NewIsUntouched
  <2>3. Via(d, "plain") = {}
    BY <1>1, <2>1 DEF PlainIsLast, Inv, d
  <2>4. /\ Cardinality(Via(d, "plain")') = 1
        /\ \A u \in Tasks \ {d} : Via(u, "plain")' = Via(u, "plain")
    <3>1. /\ Cardinality(Via(d, "plain")') = Cardinality(Via(d, "plain")) + 1
          /\ \A u \in Tasks \ {d} : Via(u, "plain")' = Via(u, "plain")
      BY <1>1, <1>3, ViaGrows, ZenonT(40)
    <3>2. Cardinality(Via(d, "plain")) = 0
      BY <2>3, FS_EmptySet
    <3> QED
      BY <3>1, <3>2
  <2>5. \A w \in runs : w.task = d => w.pc # "enqueue"
    BY <1>2 DEF Inv, Facts, UpToEnqueue
  <2>6. ASSUME NEW q \in Procs
        PROVE  /\ reg[q][d].status # "none" => reg[q][d].taken
               /\ drain'[q].pc = "registry" => \A j \in drain'[q].items : j.task # d
    <3>1. reg[q][d].status # "none" => q = p
      BY <1>1, <1>2 DEF Inv, Facts, OneRegistry
    <3>2. CASE q = p
      BY <1>2, <1>4, <3>2
    <3>3. CASE q # p
      <4>1. drain[q].pc = "registry" =>
              \A j \in drain[q].items : reg[q][j.task].status = "done"
        BY DEF Inv, Facts, TakenOnce
      <4>2. drain'[q] = drain[q] /\ reg[q][d].status = "none"
        BY <1>4, <3>1, <3>3
      <4> QED
        BY <4>1, <4>2
    <3> QED
      BY <3>2, <3>3
  <2>7. ASSUME NEW u \in Tasks \ {d}, Via(u, "plain") # {}
        PROVE  /\ Cardinality(Via(u, "plain")) = 1
               /\ row[u].state = "absent"
               /\ \A w \in runs : w.task = u => w.pc # "enqueue"
               /\ \A q \in Procs :
                    /\ reg[q][u].status # "none" => reg[q][u].taken
                    /\ drain'[q].pc = "registry" => \A j \in drain'[q].items : j.task # u
    <3>1. \A q \in Procs : drain'[q].pc = drain[q].pc /\ drain'[q].items \subseteq drain[q].items
      BY <1>4
    <3>2. /\ Cardinality(Via(u, "plain")) = 1
          /\ row[u].state = "absent"
          /\ \A w \in runs : w.task = u => w.pc # "enqueue"
          /\ \A q \in Procs :
               /\ reg[q][u].status # "none" => reg[q][u].taken
               /\ drain[q].pc = "registry" => \A j \in drain[q].items : j.task # u
      BY <2>1, <2>7 DEF Inv, PlainIsLast
    <3> QED
      BY <3>1, <3>2
  <2> QED
    <3> SUFFICES ASSUME NEW u \in Tasks, Via(u, "plain")' # {}
                 PROVE  /\ Cardinality(Via(u, "plain")') = 1
                        /\ row'[u].state = "absent"
                        /\ \A w \in runs' : w.task = u => w.pc # "enqueue"
                        /\ \A q \in Procs :
                             /\ reg'[q][u].status # "none" => reg'[q][u].taken
                             /\ drain'[q].pc = "registry" =>
                                  \A j \in drain'[q].items : j.task # u
      BY DEF PlainIsLast
    <3>1. CASE u = d
      BY <2>2, <2>4, <2>5, <2>6, <3>1
    <3>2. CASE u # d
      <4>1. u \in Tasks \ {d} /\ Via(u, "plain")' = Via(u, "plain")
        BY <2>4, <3>2
      <4> QED
        BY <2>7, <4>1
    <3> QED
      BY <3>1, <3>2
<1> QED
  BY <1>6, <1>7 DEF Inv

\* What is true of deliver_task_result whether or not it appends.
LEMMA DeliverIsQuiet ==
  ASSUME TypeOK, NEW i \in Items, Deliver(i)
  PROVE  QuietRows /\ \A d \in Tasks : Via(d, "plain")' = Via(d, "plain")
<1> DEFINE d == i.task
           m == [from |-> i.from, via |-> "delivery"]
<1>1. d \in Tasks /\ m \in Tellings /\ m.via = "delivery"
  BY DEF Items, Tellings
<1>2. CASE Outcome(d) # "Appended"
  BY <1>2, SameTableIsQuiet DEF Deliver
<1>3. CASE Outcome(d) = "Appended"
  <2>1. row[d].state = "ended"
    BY <1>1, <1>3 DEF Outcome, TypeOK, RowType, RowStates
  <2>2. row' = Delivered(d) /\ told' = [told EXCEPT ![d] = Append(@, m)]
    BY <1>3 DEF Deliver
  <2> HIDE DEF d, m
  <2>3. /\ row'[d].state = "ended"
        /\ \A u \in Tasks \ {d} : row'[u] = row[u] /\ told'[u] = told[u]
    BY <1>1, <2>1, <2>2, RowSteps, ToldType, ZenonT(40)
  <2>4. QuietRows
    BY <2>1, <2>3 DEF QuietRows
  <2>5. \A u \in Tasks : Via(u, "plain")' = Via(u, "plain")
    BY <1>1, <2>2, ViaGrows
  <2> QED
    BY <2>4, <2>5
<1> QED
  BY <1>2, <1>3

\* Every step keeps the invariant.
LEMMA InvStep == TypeOK /\ Inv /\ [Next]_vars => Inv'
<1> SUFFICES ASSUME TypeOK, Inv, [Next]_vars
             PROVE  Inv'
  OBVIOUS
<1>1. TypeOK'
  BY TypeStep
<1>2. ASSUME NEW p \in Procs, NEW d \in Tasks, SchedulerLease(p, d)
      PROVE  Inv'
  <2> DEFINE w == [task |-> d, proc |-> p, fence |-> row[d].attempt + 1,
                   kind |-> "scheduler", pc |-> "run"]
  <2>1. /\ row[d].state = "waiting" /\ row'[d].state = "running"
        /\ \A u \in Tasks \ {d} : row'[u] = row[u]
    BY <1>2, RowSteps DEF SchedulerLease, CanLease
  <2>2. /\ runs' = runs \cup {w} /\ w.pc = "run" /\ w.task = d
        /\ reg' = reg /\ drain' = drain /\ told' = told /\ errors' = errors
    BY <1>2 DEF SchedulerLease
  <2> HIDE DEF w
  <2>3. QuietRuns
    BY <2>1, <2>2 DEF QuietRuns
  <2> QED
    BY <1>1, <2>1, <2>2, <2>3, RowMoveIsQuiet, SameReg, SameDrain, QuietKeeps DEF Quiet
<1>3. ASSUME NEW w \in runs, RunStep(w)
      PROVE  Inv'
  <2>1. /\ w \in RunType /\ w.task \in Tasks /\ w.fence \in Nat
        /\ \A to : [w EXCEPT !.pc = to].task = w.task /\ [w EXCEPT !.pc = to].pc = to
    BY DEF TypeOK, RunType
  <2>2. CASE Enqueue(w)
    BY <1>1, <2>2, EnqueueKeeps
  <2>3. CASE Start(w)
    <3> DEFINE v == [w EXCEPT !.pc = "run", !.fence = row[w.task].attempt + 1]
    <3>1. /\ row[w.task].state = "waiting" /\ row'[w.task].state = "running"
          /\ \A u \in Tasks \ {w.task} : row'[u] = row[u]
      BY <2>1, <2>3, RowSteps, ZenonT(40) DEF Start, CanLease
    <3>2. v.task = w.task /\ v.pc = "run"
      BY <2>1 DEF RunType
    <3>3. /\ runs' = (runs \ {w}) \cup {v} /\ w.pc = "lease"
          /\ reg' = reg /\ drain' = drain /\ told' = told /\ errors' = errors
      BY <2>3 DEF Start
    <3> HIDE DEF v
    <3>4. QuietRuns
      BY <3>2, <3>3, GoesOnIsQuiet
    <3> QED
      BY <1>1, <2>1, <3>1, <3>3, <3>4, RowMoveIsQuiet, SameReg, SameDrain, QuietKeeps
         DEF Quiet
  <2>4. CASE StartRefused(w)
    <3>1. /\ w.pc # "report" /\ reg' = Completed(w)
          /\ runs' = runs \ {w} \/ runs' = (runs \ {w}) \cup {[w EXCEPT !.pc = "report"]}
          /\ row' = row /\ drain' = drain /\ told' = told
          /\ StoreFails \/ StoreWorks
      BY <2>4 DEF StartRefused
    <3>2. QuietRuns /\ w \notin runs'
      BY <2>1, <3>1, GoesOnIsQuiet
    <3> QED
      BY <1>1, <3>1, <3>2, CompletedIsQuiet, SameTableIsQuiet, SameDrain, ErrorsCount,
         QuietKeeps DEF Quiet
  <2>5. CASE Finish(w)
    <3> DEFINE v == [w EXCEPT !.pc = "write"]
    <3>1. /\ w.pc = "run" /\ reg' = Completed(w) /\ v.task = w.task /\ v.pc = "write"
          /\ runs' = (runs \ {w}) \cup {v}
          /\ row' = row /\ drain' = drain /\ told' = told /\ errors' = errors
      BY <2>1, <2>5 DEF Finish
    <3> HIDE DEF v
    <3>2. QuietRuns /\ w \notin runs'
      BY <3>1, GoesOnIsQuiet
    <3> QED
      BY <1>1, <3>1, <3>2, CompletedIsQuiet, SameTableIsQuiet, SameDrain,
         QuietKeeps DEF Quiet
  <2>6. CASE LeaseLost(w)
    <3>1. /\ reg' = Completed(w) \/ reg' = reg
          /\ runs' = runs \ {w}
          /\ row' = row /\ drain' = drain /\ told' = told /\ errors' = errors
      BY <2>6 DEF LeaseLost
    <3>2. QuietRuns /\ w \notin runs'
      BY <3>1, GoesOnIsQuiet
    <3> QED
      BY <1>1, <3>1, <3>2, CompletedIsQuiet, SameTableIsQuiet, SameDrain,
         QuietKeeps DEF Quiet
  <2>7. CASE WriteBack(w)
    <3>1. /\ w.pc # "report"
          /\ runs' = runs \ {w} \/ runs' = (runs \ {w}) \cup {[w EXCEPT !.pc = "report"]}
          /\ reg' = reg /\ drain' = drain /\ told' = told
          /\ StoreFails \/ StoreWorks
      BY <2>7 DEF WriteBack
    <3>2. \/ row' = EndedBy(w.task, w.fence) /\ Holds(w)
          \/ row' = row
          \/ row' = InState(w.task, "waiting") /\ Holds(w)
      BY <2>7 DEF WriteBack, EndedBy
    <3>3. QuietRows /\ \A d \in Tasks : Via(d, "plain")' = Via(d, "plain")
      <4>1. CASE row' = EndedBy(w.task, w.fence) /\ Holds(w)
        BY <2>1, <3>1, <4>1, EndedRow, RowMoveIsQuiet DEF Holds
      <4>2. CASE row' = InState(w.task, "waiting") /\ Holds(w)
        <5>1. "waiting" \in RowStates
          BY DEF RowStates
        <5>2. /\ row'[w.task].state = "waiting"
              /\ \A u \in Tasks \ {w.task} : row'[u] = row[u]
          BY <2>1, <4>2, <5>1, RowInState
        <5> QED
          BY <2>1, <3>1, <4>2, <5>2, RowMoveIsQuiet DEF Holds
      <4> QED
        BY <3>1, <3>2, <4>1, <4>2, SameTableIsQuiet
    <3>4. QuietRuns
      BY <2>1, <3>1, GoesOnIsQuiet
    <3> QED
      BY <1>1, <3>1, <3>3, <3>4, SameReg, SameDrain, ErrorsCount, QuietKeeps DEF Quiet
  <2>8. CASE Report(w)
    <3> DEFINE m == [from |-> w.fence, via |-> "tool"]
    <3>1. m \in Tellings /\ m.via = "tool"
      BY <2>1 DEF Tellings
    <3>2. /\ told' = [told EXCEPT ![w.task] = Append(@, m)]
          /\ runs' = runs \ {w} /\ row' = row /\ reg' = reg /\ drain' = drain
          /\ errors' = errors
      BY <2>8 DEF Report
    <3> HIDE DEF m
    <3>3. \A d \in Tasks : Via(d, "plain")' = Via(d, "plain")
      <4>1. Via(w.task, "plain")' = Via(w.task, "plain")
        <5> DEFINE d == w.task
        <5>1. d \in Tasks /\ told' = [told EXCEPT ![d] = Append(@, m)] /\ m.via # "plain"
          BY <2>1, <3>1, <3>2
        <5> HIDE DEF d
        <5>2. Via(d, "plain")' = Via(d, "plain")
          BY <3>1, <5>1, ViaGrows
        <5> QED
          BY <5>2 DEF d
      <4>2. \A d \in Tasks \ {w.task} : Via(d, "plain")' = Via(d, "plain")
        BY <2>1, <3>1, <3>2, ViaGrows
      <4> QED
        BY <4>1, <4>2
    <3>4. QuietRows
      <4>1. row[w.task].state # "new"
        BY <2>1 DEF Inv, Facts, NewIsUntouched
      <4>2. \A d \in Tasks \ {w.task} : told'[d] = told[d]
        BY <2>1, <3>1, <3>2, ToldType
      <4> QED
        BY <3>2, <4>1, <4>2 DEF QuietRows
    <3>5. QuietRuns
      BY <3>2, GoesOnIsQuiet
    <3> QED
      BY <1>1, <3>2, <3>3, <3>4, <3>5, SameReg, SameDrain, QuietKeeps DEF Quiet
  <2> QED
    BY <1>3, <2>2, <2>3, <2>4, <2>5, <2>6, <2>7, <2>8 DEF RunStep
<1>4. ASSUME NEW d \in Tasks, Withdraw(d) \/ Close(d)
      PROVE  Inv'
  <2>1. /\ row[d].state \in {"waiting", "running"}
        /\ row'[d].state \in {"waiting", "ended"}
        /\ \A u \in Tasks \ {d} : row'[u] = row[u]
    BY <1>4, RowInState DEF Withdraw, Close, RowStates
  <2>2. /\ reg' = reg /\ runs' = runs /\ drain' = drain /\ told' = told
        /\ errors' = errors
    BY <1>4 DEF Withdraw, Close
  <2> QED
    BY <1>1, <2>1, <2>2, RowMoveIsQuiet, SameReg, SameRuns, SameDrain, QuietKeeps DEF Quiet
<1>5. ASSUME NEW p \in Procs, Drain(p)
      PROVE  Inv'
  <2>1. \A i \in drain[p].items : i \in Items
    BY DEF TypeOK, DrainType
  <2>2. CASE Scan(p)
    <3> DEFINE found == {[task |-> d, from |-> row[d].by] :
                           d \in {u \in Tasks : row[u].state = "ended" /\ ~row[u].delivered}}
    <3>1. found \subseteq Items
      BY DEF Items, TypeOK, RowType
    <3>2. drain' = DrainAt(p, "table", found) \/ drain' = DrainAt(p, "table", {})
      BY <2>2 DEF Scan
    <3> HIDE DEF found
    <3>3. QuietDrain
      BY <3>1, <3>2, DrainGoesOn DEF QuietDrain
    <3>4. /\ reg' = reg /\ runs' = runs /\ row' = row /\ told' = told
          /\ StoreFails \/ StoreWorks
      BY <2>2 DEF Scan
    <3> QED
      BY <1>1, <3>3, <3>4, SameTableIsQuiet, SameReg, SameRuns, ErrorsCount, QuietKeeps
         DEF Quiet
  <2>3. CASE Take(p)
    BY <1>1, <2>3, TakeKeeps
  <2>4. CASE DrainEnds(p)
    <3>1. QuietDrain
      BY <2>4, DrainGoesOn DEF QuietDrain, DrainEnds
    <3>2. /\ reg' = reg /\ runs' = runs /\ row' = row /\ told' = told
          /\ errors' = errors
      BY <2>4 DEF DrainEnds
    <3> QED
      BY <1>1, <3>1, <3>2, SameTableIsQuiet, SameReg, SameRuns, QuietKeeps DEF Quiet
  <2>5. ASSUME NEW i \in drain[p].items, DeliverScanned(p, i)
        PROVE  Inv'
    <3>1. drain[p].items \ {i} \in SUBSET Items
      BY <2>1
    <3>2. QuietDrain
      BY <2>5, <3>1, DrainGoesOn DEF DeliverScanned, QuietDrain
    <3>3. QuietRows /\ \A d \in Tasks : Via(d, "plain")' = Via(d, "plain")
      BY <2>1, <2>5, DeliverIsQuiet, SameTableIsQuiet DEF DeliverScanned
    <3>4. reg' = reg /\ runs' = runs /\ (StoreFails \/ StoreWorks)
      BY <2>5 DEF DeliverScanned
    <3> QED
      BY <1>1, <3>2, <3>3, <3>4, SameReg, SameRuns, ErrorsCount, QuietKeeps DEF Quiet
  <2>6. ASSUME NEW i \in drain[p].items, DeliverTaken(p, i)
        PROVE  Inv'
    <3>1. drain[p].items \ {i} \in SUBSET Items /\ {} \in SUBSET Items
      BY <2>1
    <3>2. reg' = reg /\ runs' = runs /\ drain[p].pc = "registry"
      BY <2>6 DEF DeliverTaken
    <3>3. CASE /\ Deliver(i) \/ UNCHANGED <<row, told>>
               /\ \/ drain' = DrainAt(p, "registry", drain[p].items \ {i})
                  \/ drain' = DrainAt(p, "idle", {})
               /\ StoreFails \/ StoreWorks
      <4>1. QuietDrain
        BY <3>1, <3>2, <3>3, DrainGoesOn DEF QuietDrain
      <4>2. QuietRows /\ \A d \in Tasks : Via(d, "plain")' = Via(d, "plain")
        BY <2>1, <3>3, DeliverIsQuiet, SameTableIsQuiet
      <4> QED
        BY <1>1, <3>2, <3>3, <4>1, <4>2, SameReg, SameRuns, ErrorsCount, QuietKeeps
           DEF Quiet
    <3>4. CASE /\ (TellsPlainly(i) /\ StoreWorks) \/ StoreFails
               /\ told' = [told EXCEPT ![i.task] =
                             Append(@, [from |-> i.from, via |-> "plain"])]
               /\ drain' = DrainAt(p, "registry", drain[p].items \ {i})
               /\ row' = row
      BY <1>1, <3>2, <3>4, PlainTellingKeeps
    <3> QED
      BY <2>6, <3>3, <3>4 DEF DeliverTaken
  <2> QED
    BY <1>5, <2>2, <2>3, <2>4, <2>5, <2>6 DEF Drain
<1>6. ASSUME NEW p \in Procs, StartProcess(p)
      PROVE  Inv'
  <2>1. /\ row' = row /\ reg' = reg /\ runs' = runs /\ drain' = drain /\ told' = told
        /\ errors' = errors
    BY <1>6 DEF StartProcess
  <2> QED
    BY <1>1, <2>1, SameTableIsQuiet, SameReg, SameRuns, SameDrain, QuietKeeps DEF Quiet
<1>7. ASSUME NEW p \in Procs, Crash(p)
      PROVE  Inv'
  <2>1. /\ row' = row /\ told' = told /\ errors' = errors
        /\ runs' \subseteq runs
    BY <1>7 DEF Crash
  <2>2. /\ drain'[p].pc = "idle" /\ \A q \in Procs \ {p} : drain'[q] = drain[q]
        /\ \A q \in Procs \ {p} : reg'[q] = reg[q]
        /\ \A d \in Tasks : reg'[p][d].status = "none"
    BY <1>7 DEF Crash, TypeOK, IdleDrain, NoEntry
  <2>3. QuietDrain /\ QuietReg /\ QuietRuns
    BY <2>1, <2>2 DEF QuietDrain, QuietReg, QuietEntry, QuietRuns
  <2> QED
    BY <1>1, <2>1, <2>3, SameTableIsQuiet, QuietKeeps DEF Quiet
<1>8. CASE UNCHANGED vars
  <2>1. /\ row' = row /\ reg' = reg /\ runs' = runs /\ drain' = drain /\ told' = told
        /\ errors' = errors
    BY <1>8 DEF vars
  <2> QED
    BY <1>1, <2>1, SameTableIsQuiet, SameReg, SameRuns, SameDrain, QuietKeeps DEF Quiet
<1> QED
  BY <1>1, <1>2, <1>3, <1>4, <1>5, <1>6, <1>7, <1>8, SpawnKeeps DEF Next

\* Every step keeps the mark and the log in agreement.
LEMMA DeliveredStep ==
  TypeOK /\ UpToEnqueue /\ DeliveredExactlyOnce /\ [Next]_vars => DeliveredExactlyOnce'
<1> SUFFICES ASSUME TypeOK, UpToEnqueue, DeliveredExactlyOnce, [Next]_vars
             PROVE  DeliveredExactlyOnce'
  OBVIOUS
<1>1. ASSUME row' = row, told' = told
      PROVE  DeliveredExactlyOnce'
  BY <1>1, MarksKept
<1>2. ASSUME NEW d \in Tasks, NEW s \in RowStates,
             row[d].state # "ended" \/ s = "ended",
             row' = InState(d, s), told' = told
      PROVE  DeliveredExactlyOnce'
  <2>1. \A u \in Tasks : /\ row'[u].delivered = row[u].delivered
                         /\ row[u].state = "ended" => row'[u].state = "ended"
    BY <1>2, RowInState
  <2> QED
    BY <1>2, <2>1, MarksKept
<1>3. ASSUME NEW d \in Tasks, CanLease(d), row' = Leased(d), told' = told
      PROVE  DeliveredExactlyOnce'
  BY <1>3, RowSteps, MarksKept, ZenonT(40) DEF CanLease
<1>4. ASSUME NEW p \in Procs, NEW d \in Tasks, NEW k, Spawn(p, d, k)
      PROVE  DeliveredExactlyOnce'
  BY <1>2, <1>4 DEF Spawn, RowStates
<1>5. ASSUME NEW p \in Procs, NEW d \in Tasks, SchedulerLease(p, d)
      PROVE  DeliveredExactlyOnce'
  BY <1>3, <1>5 DEF SchedulerLease
<1>6. ASSUME NEW w \in runs, RunStep(w)
      PROVE  DeliveredExactlyOnce'
  <2>1. w.task \in Tasks /\ w.fence \in Nat
    BY DEF TypeOK, RunType
  <2>2. CASE Enqueue(w)
    <3>1. row[w.task].state # "ended"
      BY <2>2 DEF Enqueue, UpToEnqueue
    <3> QED
      BY <1>2, <2>1, <2>2, <3>1 DEF Enqueue, RowStates
  <2>3. CASE Start(w)
    BY <1>3, <2>1, <2>3 DEF Start
  <2>4. CASE StartRefused(w) \/ Finish(w) \/ LeaseLost(w)
    BY <1>1, <2>4 DEF StartRefused, Finish, LeaseLost
  <2>5. CASE WriteBack(w)
    <3>1. told' = told
      BY <2>5 DEF WriteBack
    <3>2. \/ row' = EndedBy(w.task, w.fence) \/ row' = row
          \/ row' = InState(w.task, "waiting") /\ Holds(w)
      BY <2>5 DEF WriteBack, EndedBy
    <3>3. CASE row' = EndedBy(w.task, w.fence)
      BY <2>1, <3>1, <3>3, EndedRow, MarksKept
    <3>4. CASE row' = InState(w.task, "waiting") /\ Holds(w)
      BY <1>2, <2>1, <3>1, <3>4 DEF Holds, RowStates
    <3> QED
      BY <1>1, <3>1, <3>2, <3>3, <3>4
  <2>6. CASE Report(w)
    <3>1. [from |-> w.fence, via |-> "tool"] \in Tellings
      BY <2>1 DEF Tellings
    <3> QED
      BY <2>1, <2>6, <3>1, OtherTelling DEF Report
  <2> QED
    BY <1>6, <2>2, <2>3, <2>4, <2>5, <2>6 DEF RunStep
<1>7. ASSUME NEW d \in Tasks, Withdraw(d) \/ Close(d)
      PROVE  DeliveredExactlyOnce'
  BY <1>2, <1>7 DEF Withdraw, Close, RowStates
<1>8. ASSUME NEW p \in Procs, Drain(p)
      PROVE  DeliveredExactlyOnce'
  <2>1. CASE Scan(p) \/ Take(p) \/ DrainEnds(p)
    BY <1>1, <2>1 DEF Scan, Take, DrainEnds
  <2>2. ASSUME NEW i \in drain[p].items, DeliverScanned(p, i) \/ DeliverTaken(p, i)
        PROVE  DeliveredExactlyOnce'
    <3>1. i \in Items /\ i.task \in Tasks /\ [from |-> i.from, via |-> "plain"] \in Tellings
      BY DEF TypeOK, DrainType, Items, Tellings
    <3>2. \/ Deliver(i) \/ UNCHANGED <<row, told>>
          \/ /\ told' = [told EXCEPT ![i.task] = Append(@, [from |-> i.from, via |-> "plain"])]
             /\ row' = row
      BY <2>2 DEF DeliverScanned, DeliverTaken
    <3> QED
      BY <1>1, <3>1, <3>2, DeliverMarks, OtherTelling
  <2> QED
    BY <1>8, <2>1, <2>2 DEF Drain
<1>9. ASSUME NEW p \in Procs, StartProcess(p) \/ Crash(p)
      PROVE  DeliveredExactlyOnce'
  BY <1>1, <1>9 DEF StartProcess, Crash
<1>10. CASE UNCHANGED vars
  BY <1>1, <1>10 DEF vars
<1> QED
  BY <1>4, <1>5, <1>6, <1>7, <1>8, <1>9, <1>10 DEF Next

-----------------------------------------------------------------------------
(***************************************************************************)
(* The theorems.                                                           *)
(***************************************************************************)
Delivery == TypeOK /\ Inv /\ DeliveredExactlyOnce

\* The inductive invariant holds of every behaviour.
LEMMA DeliveryInvariant == Spec => []Delivery
<1>1. Init => Delivery
  <2> SUFFICES ASSUME Init PROVE Delivery
    OBVIOUS
  <2>1. TypeOK
    BY TypeInit
  <2>2. \A d \in Tasks : \A how : Via(d, how) = {}
    BY DEF Init, Via
  <2>3. /\ \A d \in Tasks : row[d].state = "new" /\ row[d].delivered = FALSE
        /\ \A d \in Tasks : told[d] = <<>>
        /\ \A p \in Procs : drain[p].pc = "idle"
        /\ \A p \in Procs : \A d \in Tasks : reg[p][d].status = "none"
        /\ runs = {}
    BY DEF Init, IdleDrain, NoEntry
  <2>4. Facts
    BY <2>3 DEF Facts, NewIsUntouched, UpToEnqueue, OneRegistry, TakenOnce
  <2>5. PlainIsLast
    BY <2>2 DEF PlainIsLast
  <2>6. DeliveredExactlyOnce
    BY <2>2, <2>3, FS_EmptySet DEF DeliveredExactlyOnce
  <2> QED
    BY <2>1, <2>4, <2>5, <2>6 DEF Delivery, Inv
<1>2. Delivery /\ [Next]_vars => Delivery'
  BY TypeStep, InvStep, DeliveredStep DEF Delivery, Inv, Facts
<1> QED
  BY <1>1, <1>2, PTL DEF Spec

\* deliver_task_result under any number of processes, crashes, failing
\* transactions and racing drains: a row is marked delivered if and only if
\* the log holds exactly one delivery of it, and only when it has ended.
THEOREM DeliveredOnce == Spec => []DeliveredExactlyOnce
<1>1. Delivery => DeliveredExactlyOnce
  BY DEF Delivery
<1> QED
  BY <1>1, DeliveryInvariant, PTL

\* drain_background_tasks, as long as no transaction fails: a task that is not
\* synchronous is told of once at most, by the table's drain or the registry's.
THEOREM BackgroundTold == Spec => []BackgroundToldOnce
<1>1. Delivery => BackgroundToldOnce
  <2> SUFFICES ASSUME Delivery, errors = 0, NEW d \in Tasks
               PROVE  Len(told[d]) - Cardinality(Via(d, "tool")) <= 1
    BY DEF BackgroundToldOnce
  <2> DEFINE D == Via(d, "delivery")
             P == Via(d, "plain")
             T == Via(d, "tool")
  <2>1. /\ IsFiniteSet(D) /\ IsFiniteSet(P) /\ IsFiniteSet(T)
        /\ Len(told[d]) \in Nat
    BY ViaIsFinite DEF Delivery
  <2>2. /\ D \cup P \cup T = 1..Len(told[d])
        /\ D \cap P = {} /\ (D \cup P) \cap T = {}
    <3>1. told[d] \in Seq(Tellings)
      BY DEF Delivery, TypeOK
    <3>2. DOMAIN told[d] = 1..Len(told[d])
      BY <3>1
    <3>3. \A i \in 1..Len(told[d]) : told[d][i].via \in {"delivery", "plain", "tool"}
      <4>1. \A i \in 1..Len(told[d]) : told[d][i] \in Tellings
        BY <3>1
      <4> QED
        BY <4>1 DEF Tellings
    <3> QED
      BY <3>2, <3>3 DEF Via
  <2> HIDE DEF D, P, T
  <2>3. Cardinality(1..Len(told[d])) = Len(told[d])
    BY <2>1, FS_Interval
  <2>6. Cardinality(D) \in Nat /\ Cardinality(P) \in Nat /\ Cardinality(T) \in Nat
    BY <2>1, FS_CardinalityType
  <2>4. /\ IsFiniteSet(D \cup P)
        /\ Cardinality(D \cup P) = Cardinality(D) + Cardinality(P)
    <3>1. /\ IsFiniteSet(D \cup P)
          /\ Cardinality(D \cup P)
               = Cardinality(D) + Cardinality(P) - Cardinality(D \cap P)
      BY <2>1, FS_Union
    <3>2. Cardinality(D \cap P) = 0
      BY <2>2, FS_EmptySet
    <3> QED
      BY <2>6, <3>1, <3>2
  <2>5. Cardinality(D \cup P \cup T) = Cardinality(D \cup P) + Cardinality(T)
    <3>1. Cardinality(D \cup P \cup T)
            = Cardinality(D \cup P) + Cardinality(T) - Cardinality((D \cup P) \cap T)
      BY <2>1, <2>4, FS_Union
    <3>2. Cardinality((D \cup P) \cap T) = 0
      BY <2>2, FS_EmptySet
    <3>3. Cardinality(D \cup P) \in Nat
      BY <2>4, <2>6
    <3> QED
      BY <2>6, <3>1, <3>2, <3>3
  <2>7. Cardinality(D) + Cardinality(P) <= 1
    <3>1. Cardinality(D) = (IF row[d].delivered THEN 1 ELSE 0)
          /\ (row[d].delivered => row[d].state = "ended")
      BY DEF Delivery, DeliveredExactlyOnce, D
    <3>2. CASE P = {}
      BY <2>6, <3>1, <3>2, FS_EmptySet
    <3>3. CASE P # {}
      BY <3>1, <3>3 DEF Delivery, Inv, PlainIsLast, P
    <3> QED
      BY <3>2, <3>3
  <2>8. Len(told[d]) = Cardinality(D \cup P \cup T)
    BY <2>2, <2>3
  <2>9. Len(told[d]) - Cardinality(T) <= 1
    BY <2>1, <2>4, <2>5, <2>6, <2>7, <2>8
  <2> QED
    BY <2>9 DEF T
<1> QED
  BY <1>1, DeliveryInvariant, PTL

-----------------------------------------------------------------------------
(***************************************************************************)
(* The rows implement FencedTasks.                                         *)
(***************************************************************************)
\* A step that changes no row's state or attempt is no step of the tasks.
LEMMA FencedSame ==
  ASSUME \A d \in Tasks : /\ row'[d].state = row[d].state
                          /\ row'[d].attempt = row[d].attempt
  PROVE  UNCHANGED Fenced!fvars
BY DEF Fenced!fvars

\* What a step does to one row, it does to the row's phase and token.
LEMMA FencedOne ==
  ASSUME NEW d \in Tasks,
         \A u \in Tasks \ {d} : row'[u] = row[u],
         \/ /\ row[d].state \in {"new", "absent"} /\ row'[d].state = "waiting"
            /\ row'[d].attempt = row[d].attempt
         \/ /\ row[d].state = "waiting" /\ row'[d].state = "running"
            /\ row'[d].attempt = row[d].attempt + 1
         \/ /\ row[d].state = "running" /\ row'[d].state = "waiting"
            /\ row'[d].attempt = row[d].attempt
         \/ /\ row[d].state \in {"waiting", "running"} /\ row'[d].state = "ended"
            /\ row'[d].attempt = row[d].attempt
  PROVE  Fenced!Next
<1> DEFINE ph == [u \in Tasks |-> Phase(row[u].state)]
           tk == [u \in Tasks |-> row[u].attempt]
<1>1. /\ ph' = [ph EXCEPT ![d] = Phase(row'[d].state)]
      /\ tk' = [tk EXCEPT ![d] = row'[d].attempt]
      /\ ph' = [u \in Tasks |-> IF u \in {d} THEN Phase(row'[d].state) ELSE ph[u]]
      /\ row'[d].attempt = row[d].attempt => tk' = tk
      /\ ph[d] = Phase(row[d].state) /\ tk[d] = row[d].attempt
  OBVIOUS
<1>2. /\ Phase("new") = "none" /\ Phase("absent") = "none"
      /\ Phase("waiting") = "waiting" /\ Phase("running") = "held"
      /\ Phase("ended") = "ended"
  BY DEF Phase
<1>3. CASE /\ row[d].state \in {"new", "absent"} /\ row'[d].state = "waiting"
           /\ row'[d].attempt = row[d].attempt
  <2>1. Fenced!Create(d)
    BY <1>1, <1>2, <1>3 DEF Fenced!Create
  <2> QED
    BY <2>1 DEF Fenced!Next
<1>4. CASE /\ row[d].state = "waiting" /\ row'[d].state = "running"
           /\ row'[d].attempt = row[d].attempt + 1
  <2>1. Fenced!Grant(d)
    BY <1>1, <1>2, <1>4 DEF Fenced!Grant
  <2> QED
    BY <2>1 DEF Fenced!Next
<1>5. CASE /\ row[d].state = "running" /\ row'[d].state = "waiting"
           /\ row'[d].attempt = row[d].attempt
  <2>1. Fenced!Withdraw({d})
    BY <1>1, <1>2, <1>5 DEF Fenced!Withdraw
  <2> QED
    BY <2>1 DEF Fenced!Next
<1>6. CASE /\ row[d].state \in {"waiting", "running"} /\ row'[d].state = "ended"
           /\ row'[d].attempt = row[d].attempt
  <2>1. Fenced!End(d)
    BY <1>1, <1>2, <1>6 DEF Fenced!End
  <2> QED
    BY <2>1 DEF Fenced!Next
<1> QED
  BY <1>3, <1>4, <1>5, <1>6

\* Every step is a step of FencedTasks, or none.
LEMMA FencedStep ==
  TypeOK /\ UpToEnqueue /\ [Next]_vars => [Fenced!Next]_(Fenced!fvars)
<1> SUFFICES ASSUME TypeOK, UpToEnqueue, [Next]_vars
             PROVE  Fenced!Next \/ UNCHANGED Fenced!fvars
  OBVIOUS
<1>1. ASSUME row' = row
      PROVE  UNCHANGED Fenced!fvars
  BY <1>1, FencedSame
<1>2. ASSUME NEW d \in Tasks, CanLease(d), row' = Leased(d)
      PROVE  Fenced!Next
  <2>1. /\ row[d].state = "waiting" /\ row'[d].state = "running"
        /\ row'[d].attempt = row[d].attempt + 1
        /\ \A u \in Tasks \ {d} : row'[u] = row[u]
    BY <1>2, RowSteps DEF CanLease
  <2> QED
    BY <2>1, FencedOne
<1>3. ASSUME NEW d \in Tasks, NEW s \in RowStates, row' = InState(d, s),
             \/ row[d].state \in {"new", "absent", "running"} /\ s = "waiting"
             \/ row[d].state \in {"waiting", "running"} /\ s = "ended"
      PROVE  Fenced!Next
  <2>1. /\ row'[d].state = s /\ row'[d].attempt = row[d].attempt
        /\ \A u \in Tasks \ {d} : row'[u] = row[u]
    BY <1>3, RowInState
  <2> QED
    BY <1>3, <2>1, FencedOne
<1>4. ASSUME NEW p \in Procs, NEW d \in Tasks, NEW k \in {"sync", "background"},
             Spawn(p, d, k)
      PROVE  UNCHANGED Fenced!fvars
  <2> DEFINE ph == [u \in Tasks |-> Phase(row[u].state)]
             tk == [u \in Tasks |-> row[u].attempt]
  <2>1. /\ row[d].state = "new" /\ row'[d].state = "absent"
        /\ row'[d].attempt = row[d].attempt
        /\ \A u \in Tasks \ {d} : row'[u] = row[u]
    BY <1>4, RowInState DEF Spawn, RowStates
  <2>2. Phase("new") = "none" /\ Phase("absent") = "none"
    BY DEF Phase
  <2>3. \A u \in Tasks : /\ Phase(row'[u].state) = Phase(row[u].state)
                         /\ row'[u].attempt = row[u].attempt
    BY <2>1, <2>2
  <2>4. ph' = ph /\ tk' = tk
    BY <2>3
  <2> QED
    BY <2>4 DEF Fenced!fvars
<1>5. ASSUME NEW w \in runs, RunStep(w)
      PROVE  Fenced!Next \/ UNCHANGED Fenced!fvars
  <2>1. w.task \in Tasks /\ w.fence \in Nat
    BY DEF TypeOK, RunType
  <2>2. CASE Enqueue(w)
    <3>1. row[w.task].state = "absent"
      BY <2>2 DEF Enqueue, UpToEnqueue
    <3> QED
      BY <1>3, <2>1, <2>2, <3>1 DEF Enqueue, RowStates
  <2>3. CASE Start(w)
    BY <1>2, <2>1, <2>3 DEF Start
  <2>4. CASE StartRefused(w) \/ Finish(w) \/ LeaseLost(w) \/ Report(w)
    BY <1>1, <2>4 DEF StartRefused, Finish, LeaseLost, Report
  <2>5. CASE WriteBack(w)
    <3>1. \/ row' = EndedBy(w.task, w.fence) /\ Holds(w)
          \/ row' = row
          \/ row' = InState(w.task, "waiting") /\ Holds(w)
      BY <2>5 DEF WriteBack, EndedBy
    <3>2. CASE row' = EndedBy(w.task, w.fence) /\ Holds(w)
      <4>1. /\ row[w.task].state = "running" /\ row'[w.task].state = "ended"
            /\ row'[w.task].attempt = row[w.task].attempt
            /\ \A u \in Tasks \ {w.task} : row'[u] = row[u]
        BY <2>1, <3>2, EndedRow DEF Holds
      <4> QED
        BY <2>1, <4>1, FencedOne
    <3>3. CASE row' = InState(w.task, "waiting") /\ Holds(w)
      BY <1>3, <2>1, <3>3 DEF Holds, RowStates
    <3> QED
      BY <1>1, <3>1, <3>2, <3>3
  <2> QED
    BY <1>5, <2>2, <2>3, <2>4, <2>5 DEF RunStep
<1>6. ASSUME NEW d \in Tasks, Withdraw(d) \/ Close(d)
      PROVE  Fenced!Next
  BY <1>3, <1>6 DEF Withdraw, Close, RowStates
<1>7. ASSUME NEW p \in Procs, Drain(p)
      PROVE  UNCHANGED Fenced!fvars
  <2>1. CASE Scan(p) \/ Take(p) \/ DrainEnds(p)
    BY <1>1, <2>1 DEF Scan, Take, DrainEnds
  <2>2. ASSUME NEW i \in drain[p].items, DeliverScanned(p, i) \/ DeliverTaken(p, i)
        PROVE  UNCHANGED Fenced!fvars
    <3>1. i.task \in Tasks
      BY DEF TypeOK, DrainType, Items
    <3>2. row' = row \/ row' = Delivered(i.task)
      BY <2>2 DEF DeliverScanned, DeliverTaken, Deliver
    <3>3. CASE row' = Delivered(i.task)
      <4>1. \A d \in Tasks : /\ row'[d].state = row[d].state
                             /\ row'[d].attempt = row[d].attempt
        BY <3>1, <3>3, RowSteps
      <4> QED
        BY <4>1, FencedSame
    <3> QED
      BY <1>1, <3>2, <3>3
  <2> QED
    BY <1>7, <2>1, <2>2 DEF Drain
<1>8. ASSUME NEW p \in Procs, StartProcess(p) \/ Crash(p)
      PROVE  UNCHANGED Fenced!fvars
  BY <1>1, <1>8 DEF StartProcess, Crash
<1>9. CASE UNCHANGED vars
  BY <1>1, <1>9 DEF vars
<1> QED
  BY <1>2, <1>4, <1>5, <1>6, <1>7, <1>8, <1>9 DEF Next, SchedulerLease

\* The rows the delivery reads and marks are tasks as FencedTasks promises
\* them: a token is granted once and in order, and an ended row, hence a
\* delivered one, never reopens.
THEOREM DeliveryImplementsFencedTasks == Spec => ImplementsFencedTasks
<1>1. Init => Fenced!Init
  BY DEF Init, Fenced!Init, Phase
<1>2. Delivery => TypeOK /\ UpToEnqueue
  BY DEF Delivery, Inv, Facts
<1> QED
  BY <1>1, <1>2, FencedStep, DeliveryInvariant, PTL DEF Spec, ImplementsFencedTasks, Fenced!Spec
=============================================================================
