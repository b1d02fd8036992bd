----------------------------- MODULE Subagents ------------------------------
(***************************************************************************)
(* Subagents: admission by depth and by the shared pool of slots, nested    *)
(* runs in the foreground and in the background, how cancelling a turn      *)
(* reaches them, and the result a parent is given (holmes-tools:            *)
(* builtin/subagent.rs; holmes-cli: subagent.rs; holmes-core: subagent.rs,  *)
(* execution_context.rs; holmes-runtime: context.rs).                       *)
(*                                                                         *)
(* The turns of the conversation at the top are 1..turn; a run's origin is  *)
(* the turn it descends from, 0 for a run of the task scheduler.  The       *)
(* durable task behind a run is in DurableTasks.                            *)
(***************************************************************************)
EXTENDS Naturals, FiniteSets

CONSTANTS
    MaxSubRuns,      \* bound: runs started
    MaxDepth,       \* subagent.max_depth
    MaxConcurrent,  \* subagent.max_concurrent
    MaxRootTurns    \* bound: turns at the top

ASSUME SubagentsAssumption ==
    /\ MaxSubRuns \in Nat /\ MaxDepth \in Nat
    /\ MaxConcurrent \in Nat \ {0} /\ MaxRootTurns \in Nat

VARIABLES
    sub,      \* each run
    slots,      \* permits of the semaphore not taken
    turn,       \* the turn at the top
    stopped     \* turns at the top that were cancelled

subVars == <<sub, slots, turn, stopped>>

\* Runs are numbered in the order they start; 0 is the turn at the top.
SubRuns == 1..MaxSubRuns
Root == 0
Scheduler == MaxSubRuns + 1

\* waited: its caller awaits the result.  cut: its token is cancelled.  failed:
\* its session recorded an evaluation that failed.  seen is the status its parent
\* was given; clean, whether the run was what completed says.
NoRun == [st |-> "none", mode |-> "none", boss |-> 0, above |-> {}, origin |-> 0,
          depth |-> 0, permit |-> FALSE, waited |-> FALSE, cut |-> FALSE, failed |-> FALSE,
          seen |-> "none", clean |-> FALSE]

SubInit ==
    /\ sub = [a \in SubRuns |-> NoRun]
    /\ slots = MaxConcurrent /\ turn = 1 /\ stopped = {}

Live(a) == sub[a].st = "running"
Unused(a) == sub[a].st = "none" /\ \A b \in 1..(a - 1) : sub[b].st # "none"

\* A caller: the turn at the top, or a run.
CallerDepth(b) == IF b = Root THEN 0 ELSE sub[b].depth
CallerCut(b) == IF b = Root THEN turn \in stopped ELSE sub[b].cut
CallerAbove(b) == IF b = Root THEN {} ELSE sub[b].above \cup {b}
CallerOrigin(b) == IF b = Root THEN turn ELSE sub[b].origin

-----------------------------------------------------------------------------
(* Starting a run.                                                         *)

\* renew_execution_context: one level deeper than the caller.
RunDepth(b) == CallerDepth(b) + 1

\* Fault: a run has a token of its own.
FreshToken(b) == FALSE

\* ctx.child and with_parent_token: a token below the caller's.
BornCut(b) == CallerCut(b)

\* admit: the depth, then a permit without waiting.
Admits(b) == CallerDepth(b) < MaxDepth /\ slots > 0

\* spawn_subagent.  No tool starts in a turn that is cancelled; a detached run may
\* still be born into one, since its start is written to the store in between.
Delegate(b, a, mode) ==
    /\ Unused(a) /\ Admits(b)
    /\ b # Root => Live(b)
    /\ mode = "sync" => ~CallerCut(b)
    /\ sub' = [sub EXCEPT ![a] =
         [NoRun EXCEPT !.st = "running", !.mode = mode, !.boss = b,
                       !.above = CallerAbove(b), !.origin = CallerOrigin(b),
                       !.depth = RunDepth(b), !.permit = TRUE,
                       !.waited = mode = "sync", !.cut = BornCut(b)]]
    /\ slots' = slots - 1
    /\ UNCHANGED <<turn, stopped>>

\* SubagentTaskExecutor: the scheduler runs a task again, at the top and without
\* a permit.
Reexecute(a) ==
    /\ Unused(a)
    /\ sub' = [sub EXCEPT ![a] =
         [NoRun EXCEPT !.st = "running", !.mode = "again", !.boss = Scheduler,
                       !.depth = 1, !.waited = TRUE]]
    /\ UNCHANGED <<slots, turn, stopped>>

-----------------------------------------------------------------------------
(* The run.                                                                *)

\* Its session records that its goal is not met (GoalEvaluated).
FailsItsGoal(a) ==
    /\ Live(a) /\ ~sub[a].failed
    /\ sub' = [sub EXCEPT ![a].failed = TRUE]
    /\ UNCHANGED <<slots, turn, stopped>>

\* build_agent_task_result: the status by how the run stopped and by whether an
\* evaluation failed, in what could be read of its log.
BuiltStatus(stop, failed) ==
    CASE stop = "finished" -> IF failed THEN "partial" ELSE "completed"
      [] stop = "stopped" -> "partial"
      [] OTHER -> stop

\* Fault: the parent takes the status as it is.
TakenAtItsWord(status, answered) == status

\* verify_agent_task_result and wrap_for_parent: a completion without an answer is
\* downgraded.  The other defects cannot be of a result built here: every finding
\* is its own evidence, and a status other than completed says what remains.
SeenStatus(status, answered) ==
    IF status = "completed" /\ ~answered THEN "partial" ELSE status

\* The permit goes back when the task that holds it ends.
RunEnded(a, seen, clean) ==
    /\ sub' = [sub EXCEPT ![a] =
         [NoRun EXCEPT !.st = "ended", !.boss = sub[a].boss, !.origin = sub[a].origin,
                       !.seen = seen, !.clean = clean]]
    /\ slots' = IF sub[a].permit THEN slots + 1 ELSE slots
    /\ UNCHANGED <<turn, stopped>>

\* A turn ends by itself once the calls it awaits have.
AwaitsNothing(a) == \A c \in SubRuns : ~(Live(c) /\ sub[c].boss = a /\ sub[c].waited)

\* The parent is told if it still waits, or by the registry of its background runs.
Told(a, status) == IF sub[a].waited \/ sub[a].mode = "background" THEN status ELSE "lost"

\* run_subagent returns.  A turn that was cancelled is interrupted, and an error
\* under a cancelled parent is a cancellation.  A log that cannot be read counts
\* as empty; answer and log are told apart where the status depends on them.
RunReturns(a, stop, answered, readable) ==
    /\ Live(a) /\ AwaitsNothing(a)
    /\ stop = "cancelled" => sub[a].cut
    /\ stop = "failed" => ~sub[a].cut
    /\ stop # "finished" => answered /\ readable
    /\ ~sub[a].failed => readable
    /\ LET status == BuiltStatus(stop, readable /\ sub[a].failed)
       IN RunEnded(a, Told(a, SeenStatus(status, answered)),
                stop = "finished" /\ answered /\ ~(readable /\ sub[a].failed))

\* A run-level error (the task, the slice, the allowlist, the session, the scratch
\* directory) or a panic, which the join catches.
RunFails(a) == Live(a) /\ RunEnded(a, Told(a, "failed"), FALSE)

\* The background race: the token wins and the run is dropped where it is.
BackgroundCut(a) ==
    /\ Live(a) /\ sub[a].mode = "background" /\ sub[a].cut
    /\ RunEnded(a, "failed", FALSE)

\* The call's own deadline, or the grace of a cancelled turn: the caller's future
\* is dropped, the task goes on without it.
CallerGivesUp(a) ==
    /\ Live(a) /\ sub[a].mode = "sync" /\ sub[a].waited
    /\ sub' = [sub EXCEPT ![a].waited = FALSE]
    /\ UNCHANGED <<slots, turn, stopped>>

-----------------------------------------------------------------------------
(* Cancelling.                                                             *)

\* A token is cancelled: those below it are with it.
CutBelow(hit) ==
    [c \in SubRuns |->
       IF c \in hit \/ sub[c].above \cap hit # {} THEN [sub[c] EXCEPT !.cut = TRUE] ELSE sub[c]]

\* Esc, or the deadline of the turn at the top.
StopTurn ==
    /\ turn \notin stopped
    /\ stopped' = stopped \cup {turn}
    /\ sub' = CutBelow({b \in SubRuns : sub[b].boss = Root /\ sub[b].origin = turn})
    /\ UNCHANGED <<slots, turn>>

\* A run's own deadline, a lost lease, or the scheduler shuts down.
CutRun(a) ==
    /\ Live(a) /\ ~sub[a].cut
    /\ sub' = CutBelow({a})
    /\ UNCHANGED <<slots, turn, stopped>>

\* The turn at the top ends, and the next has a token of its own; what runs in
\* the background goes on.
NextTurn ==
    /\ turn < MaxRootTurns
    /\ \A c \in SubRuns : ~(Live(c) /\ sub[c].boss = Root /\ sub[c].waited)
    /\ turn' = turn + 1
    /\ UNCHANGED <<sub, slots, stopped>>

StopReasons == {"finished", "stopped", "failed", "cancelled"}

SubNext ==
    \/ \E a \in SubRuns :
         \/ \E b \in SubRuns \cup {Root}, mode \in {"sync", "background"} : Delegate(b, a, mode)
         \/ Reexecute(a)
         \/ FailsItsGoal(a)
         \/ \E stop \in StopReasons, answered, readable \in BOOLEAN :
              RunReturns(a, stop, answered, readable)
         \/ RunFails(a) \/ BackgroundCut(a) \/ CallerGivesUp(a) \/ CutRun(a)
    \/ StopTurn \/ NextTurn

SubSpec == SubInit /\ [][SubNext]_subVars

-----------------------------------------------------------------------------
\* Cancelling a turn reaches every run that descends from it, over runs that have
\* ended, calls that gave up and runs that were being started (ExecutionContext's
\* tokens, child and with_parent_token).
InterruptReachesAll == \A a \in SubRuns : Live(a) /\ sub[a].origin \in stopped => sub[a].cut

\* "a false finish can never reach the parent conversation as a clean success": a
\* parent sees completed only of a run that finished with an answer and none of
\* whose recorded evaluations failed, as far as its log could be read
\* (build_agent_task_result, wrap_for_parent).
CleanIsEarned == \A a \in SubRuns : sub[a].seen = "completed" => sub[a].clean
=============================================================================
