----------------------------- MODULE Subprocess -----------------------------
(***************************************************************************)
(* Child processes of tool calls and of user hooks: a shell in a process    *)
(* group of its own, what it forks, its pipes, the deadline, the cancelling *)
(* of the turn and the outer bound of the registry (holmes-tools:           *)
(* process.rs, registry.rs; holmes-runtime: middleware.rs; holmes-core:     *)
(* execution_context.rs).                                                  *)
(*                                                                         *)
(* The command is anything: it may never exit, never read its input, fork   *)
(* what outlives it with its pipes open, in the group.                      *)
(***************************************************************************)
EXTENDS Naturals

CONSTANT MaxRuns    \* bound: commands run

ASSUME SubprocessAssumption == MaxRuns \in Nat

VARIABLES
    shell,      \* the run in progress or the last one
    runs

procVars == <<shell, runs>>

\* step of run_command; leader is the shell, forked what it left behind.
NoShell == [by |-> "none", step |-> "idle", leader |-> "none", forked |-> "none",
            verdict |-> "none"]

ProcInit == shell = NoShell /\ runs = 0

Goes(r) == shell' = r /\ UNCHANGED runs

\* run_command: spawned in its own group.  A hook is given its input first, which
\* is written before the deadline is armed; a tool has none.
SpawnShell(by) ==
    /\ shell.step = "idle" /\ runs < MaxRuns
    /\ runs' = runs + 1
    /\ shell' = [NoShell EXCEPT !.by = by, !.leader = "running",
                                !.step = IF by = "hook" THEN "feeding" ELSE "waiting"]

SpawnFails(by) ==
    /\ shell.step = "idle" /\ runs < MaxRuns
    /\ runs' = runs + 1
    /\ shell' = [NoShell EXCEPT !.by = by, !.verdict = "failed"]

-----------------------------------------------------------------------------
(* The command.                                                            *)

\* What is forked inherits the pipes ("holding") or has redirected them.
Forks(how) ==
    /\ shell.leader = "running" /\ shell.forked = "none"
    /\ Goes([shell EXCEPT !.forked = how])

LeaderExits ==
    /\ shell.leader = "running"
    /\ Goes([shell EXCEPT !.leader = "exited"])

ForkedExits ==
    /\ shell.forked \in {"holding", "silent"}
    /\ Goes([shell EXCEPT !.forked = "none"])

-----------------------------------------------------------------------------
(* run_command.                                                            *)

\* The input is taken, by a command that reads it or by the pipe's buffer.
Fed ==
    /\ shell.step = "feeding" /\ shell.leader = "running"
    /\ Goes([shell EXCEPT !.step = "waiting"])

\* Nobody has the other end any more: the error is ignored.
FeedBreaks ==
    /\ shell.step = "feeding" /\ shell.leader = "exited" /\ shell.forked # "holding"
    /\ Goes([shell EXCEPT !.step = "waiting"])

\* The select: child.wait() is ready.
Exited ==
    /\ shell.step = "waiting" /\ shell.leader = "exited"
    /\ Goes([shell EXCEPT !.step = "draining"])

WaitFails ==
    /\ shell.step = "waiting" /\ shell.leader = "exited"
    /\ Goes([shell EXCEPT !.step = "idle", !.verdict = "failed"])

\* terminate_group, and the shell is reaped.
TerminatedGroup(r) == [r EXCEPT !.leader = "exited", !.forked = "none"]

\* The select: the deadline, or the turn's token (a hook has none).
TimesOut ==
    /\ shell.step = "waiting"
    /\ Goes([TerminatedGroup(shell) EXCEPT !.step = "idle", !.verdict = "timed_out"])

TurnCancelled ==
    /\ shell.step = "waiting" /\ shell.by = "tool"
    /\ Goes([TerminatedGroup(shell) EXCEPT !.step = "idle", !.verdict = "cancelled"])

\* Both readers are at the end of their pipes.
Drained ==
    /\ shell.step = "draining" /\ shell.forked # "holding"
    /\ Goes([shell EXCEPT !.step = "idle", !.verdict = "completed"])

\* Fault: nothing bounds the call from outside.
NeverDropped == FALSE

\* execute_bounded and run_bounded: the outer deadline or the turn's token, and
\* the grace.  While run_command waits it ends by itself within the grace, so
\* the future that is dropped is one that drains.
DroppedByBound == shell.step = "draining" /\ shell.by = "tool"

\* The future is dropped: kill_on_drop is for the shell, which is gone.
OuterBound ==
    /\ DroppedByBound
    /\ Goes([shell EXCEPT !.step = "idle", !.verdict = "dropped"])

\* The caller is done with the run; what it left behind is nobody's.
Forget ==
    /\ shell.step = "idle" /\ shell.verdict # "none"
    /\ Goes(NoShell)

ProcNext ==
    \/ \E by \in {"tool", "hook"} : SpawnShell(by) \/ SpawnFails(by)
    \/ \E how \in {"holding", "silent"} : Forks(how)
    \/ LeaderExits \/ ForkedExits \/ Fed \/ FeedBreaks \/ Exited \/ WaitFails \/ TimesOut
    \/ TurnCancelled \/ Drained \/ OuterBound \/ Forget

\* The timers fire; nothing is assumed of the command.
ProcFairness ==
    /\ WF_procVars(TimesOut) /\ WF_procVars(OuterBound) /\ WF_procVars(Exited)
    /\ WF_procVars(Drained) /\ WF_procVars(FeedBreaks)

ProcSpec == ProcInit /\ [][ProcNext]_procVars /\ ProcFairness

-----------------------------------------------------------------------------
\* A tool's command cannot hold its turn for good, even by an orphan that keeps
\* its pipes open (execute_bounded over run_command).
ToolRunEnds == (shell.by = "tool" /\ shell.step # "idle") ~> (shell.step = "idle")
=============================================================================
