---------------------------- MODULE DurableTasks ----------------------------
(***************************************************************************)
(* The durable task table of holmes-session (task_store.rs) and every      *)
(* process that works on it: the spawn_subagent tool that enqueues and     *)
(* runs a task, the resident scheduler that reaps, recovers, leases and    *)
(* re-executes, and the operator.                                          *)
(*                                                                         *)
(* One SQLite transaction of the source is one action.  Whatever a process *)
(* remembers between two transactions (a scanned list, a fencing token)    *)
(* is state here, so any other process may act in between.  Wall-clock     *)
(* time is reduced to what the WHERE clauses read of it: a lease is        *)
(* "live" or "expired" (lease_expires_at < now).                           *)
(*                                                                         *)
(* A task row with an experiment is the execution adapter of a delegated   *)
(* Ledger Experiment; the row and the Experiment's projection change in    *)
(* the same transaction.  An Experiment is bound either to direct tool     *)
(* calls or to exactly one spawn_subagent call when it is planned          *)
(* (holmes-runtime ledger/commit.rs), so Experiments holds the delegated   *)
(* ones only.                                                              *)
(***************************************************************************)
EXTENDS Integers, FiniteSets

CONSTANTS
  Tasks,            \* task ids; each is spawned at most once (they are UUIDs)
  Procs,            \* process incarnations; a dead one never comes back
  Experiments,      \* delegated Experiments, all planned
  Cases,            \* cases the Experiments belong to
  CaseOf,           \* the case of each Experiment
  MaxPerCase,       \* experiments.max_concurrent_per_case
  MaxAttempts,      \* experiments.max_attempts, the scheduler's retry budget
  NoOwner, NoTask, NoExp,
  AttemptBound,     \* bound: no lease is taken beyond this attempt
  MaxCrashes,       \* bound: how many processes may die
  TimelyHeartbeats, \* TRUE: a live worker that heartbeats is never late
  StoreErrors       \* TRUE: a transaction may fail after its retries

ASSUME ConstantsAssumption ==
  /\ CaseOf \in [Experiments -> Cases]
  /\ MaxPerCase \in Nat \ {0}
  /\ MaxAttempts \in Nat \ {0}
  /\ AttemptBound \in Nat
  /\ MaxCrashes \in Nat
  /\ NoOwner \notin Procs
  /\ NoTask \notin Tasks
  /\ NoExp \notin Experiments
  /\ TimelyHeartbeats \in BOOLEAN
  /\ StoreErrors \in BOOLEAN

VARIABLES
  task,     \* the tasks table: one row per task id
  exps,     \* the Ledger's projection of each delegated Experiment
  workers,  \* executions under way in some process
  starting, \* spawns between their enqueue and their acquire_lease
  alive,    \* per process: "unborn", "up" or "dead"
  pass      \* per process: where its recovery/scheduler pass stands

vars == <<task, exps, workers, starting, alive, pass>>

TaskStates == {"absent", "queued", "running", "succeeded", "retrying",
               "failed", "cancelled", "recovering", "manual"}
Terminal == {"succeeded", "failed", "cancelled"}
ExpStatuses == {"Planned", "Queued", "Running", "Observed", "Failed",
                "Cancelled", "Expired"}
WorkerKinds == {"sync", "background", "scheduler"}
PassPoints == {"boot", "bootResolve", "idle", "reap", "recover", "resolve",
               "lease"}

\* child is the attempt whose session child_session_id names, 0 for NULL.
Rows == [state: TaskStates, owner: Procs \cup {NoOwner},
         lease: {"none", "live", "expired"}, attempt: Nat,
         safe: BOOLEAN, exp: Experiments \cup {NoExp}, child: Nat]
ExpRecords == [status: ExpStatuses, task: Tasks \cup {NoTask}, attempt: Nat]

\* fence is the fencing token (the attempt leased); 0 is a synchronous run
\* that goes on without its durable mirror.
Workers == [task: Tasks, proc: Procs, fence: Nat, kind: WorkerKinds]
Starts == [task: Tasks, proc: Procs, kind: {"sync", "background"}]

\* reap: the (task, owner) pairs scanned; work: the tasks still to handle.
Passes == [pc: PassPoints, reap: SUBSET (Tasks \X Procs), work: SUBSET Tasks]

TypeOK ==
  /\ task \in [Tasks -> Rows]
  /\ exps \in [Experiments -> ExpRecords]
  /\ workers \subseteq Workers
  /\ starting \subseteq Starts
  /\ alive \in [Procs -> {"unborn", "up", "dead"}]
  /\ pass \in [Procs -> Passes]

AbsentRow == [state |-> "absent", owner |-> NoOwner, lease |-> "none",
              attempt |-> 0, safe |-> FALSE, exp |-> NoExp, child |-> 0]
IdlePass == [pc |-> "idle", reap |-> {}, work |-> {}]

Init ==
  /\ task = [t \in Tasks |-> AbsentRow]
  /\ exps = [e \in Experiments |->
               [status |-> "Planned", task |-> NoTask, attempt |-> 0]]
  /\ workers = {}
  /\ starting = {}
  /\ alive = [p \in Procs |-> "unborn"]
  /\ pass = [p \in Procs |-> IdlePass]

-----------------------------------------------------------------------------
(***************************************************************************)
(* What the statements of the store do to a row and to its Experiment.     *)
(***************************************************************************)
IsExp(t) == task[t].exp # NoExp

\* Rows of case c that count against its limit, t itself excepted.
RunningInCase(c, t) ==
  {u \in Tasks \ {t} : /\ task[u].state = "running"
                       /\ IsExp(u)
                       /\ CaseOf[task[u].exp] = c}

\* The WHERE clause of every fenced write: still running, owned by this
\* process, under this very attempt.
Holds(w) ==
  /\ task[w.task].state = "running"
  /\ task[w.task].owner = w.proc
  /\ task[w.task].attempt = w.fence

\* The Experiment is running this task under attempt a.
ExpRuns(t, a) ==
  /\ exps[task[t].exp].status = "Running"
  /\ exps[task[t].exp].task = t
  /\ exps[task[t].exp].attempt = a

\* Fault: a released row starts counting its attempts afresh.
ReleasedAfresh(t, s) ==
  [task EXCEPT ![t] = [@ EXCEPT !.state = s, !.owner = NoOwner,
                                !.lease = "none", !.attempt = 0]]

\* A row leaves 'running' (or the queue): the lease columns become NULL.
Released(t, s) ==
  [task EXCEPT ![t] = [@ EXCEPT !.state = s, !.owner = NoOwner,
                                !.lease = "none"]]

\* The ledger event appended with it sets the Experiment's status.
ExpBecomes(t, s) ==
  IF IsExp(t) THEN [exps EXCEPT ![task[t].exp] = [@ EXCEPT !.status = s]]
              ELSE exps

\* transition_terminal and finish_experiment_task: state s and ledger status
\* x are committed by worker w if its fence holds; otherwise nothing is.
Commit(w, s, x) ==
  IF Holds(w) /\ (IsExp(w.task) => ExpRuns(w.task, w.fence))
  THEN /\ task' = Released(w.task, s)
       /\ exps' = ExpBecomes(w.task, x)
  ELSE UNCHANGED <<task, exps>>

-----------------------------------------------------------------------------
(***************************************************************************)
(* Leasing.                                                                *)
(***************************************************************************)
\* acquire_experiment_lease fails (rather than declining) when the mapped
\* Experiment is not waiting for this task.
ExpRefuses(t) ==
  /\ IsExp(t)
  /\ \/ exps[task[t].exp].task # t
     \/ exps[task[t].exp].status \notin {"Queued", "Running"}

\* Fault: off by one at the limit.
HasSlotOffByOne(t) ==
  IsExp(t) => Cardinality(RunningInCase(CaseOf[task[t].exp], t)) <= MaxPerCase

HasSlot(t) ==
  IsExp(t) => Cardinality(RunningInCase(CaseOf[task[t].exp], t)) < MaxPerCase

\* Fault: a failed task counts as leasable.
CanLeaseFailed(t) ==
  /\ task[t].attempt < AttemptBound
  /\ task[t].state \in {"queued", "retrying", "failed"}
  /\ HasSlot(t)
  /\ ~ExpRefuses(t)

\* acquire_generic_lease / acquire_experiment_lease would lease row t now.
\* The source has no ceiling on attempts here; AttemptBound is the model's.
CanLease(t) ==
  /\ task[t].attempt < AttemptBound
  /\ task[t].state \in {"queued", "retrying"}
  /\ HasSlot(t)
  /\ ~ExpRefuses(t)

\* queued/retrying -> running under a new attempt; an Experiment is started
\* (or taken over, Running -> Running) with the same attempt.
Lease(p, t) ==
  /\ task' = [task EXCEPT ![t] = [@ EXCEPT !.state = "running",
                                           !.attempt = task[t].attempt + 1,
                                           !.owner = p,
                                           !.lease = "live"]]
  /\ exps' = IF IsExp(t)
             THEN [exps EXCEPT ![task[t].exp] =
                     [@ EXCEPT !.status = "Running",
                               !.attempt = task[t].attempt + 1]]
             ELSE exps

NewWorker(p, t, k) ==
  [task |-> t, proc |-> p, fence |-> task[t].attempt + 1, kind |-> k]

-----------------------------------------------------------------------------
(***************************************************************************)
(* spawn_subagent: DurableTaskSink::task_started enqueues and then, in a   *)
(* second transaction, leases.  A process spawns only once its startup     *)
(* recovery is over.                                                       *)
(***************************************************************************)
CanSpawn(p, t) ==
  /\ alive[p] = "up"
  /\ pass[p].pc \notin {"boot", "bootResolve"}
  /\ task[t].state = "absent"

\* enqueue: an ordinary subagent task is never safe to retry.
Enqueue(p, t, k) ==
  /\ CanSpawn(p, t)
  /\ task' = [task EXCEPT ![t] = [AbsentRow EXCEPT !.state = "queued"]]
  /\ starting' = starting \cup {[task |-> t, proc |-> p, kind |-> k]}
  /\ UNCHANGED <<exps, workers, alive, pass>>

\* enqueue_experiment_task: the row and ExperimentQueued in one transaction.
\* Only a Planned Experiment is accepted, which also implies the expected
\* revision and that no task maps to it yet.
EnqueueExperiment(p, t, k, e, safe) ==
  /\ CanSpawn(p, t)
  /\ exps[e].status = "Planned"
  /\ Cardinality(RunningInCase(CaseOf[e], t)) < MaxPerCase
  /\ task' = [task EXCEPT ![t] = [AbsentRow EXCEPT !.state = "queued",
                                                   !.safe = safe,
                                                   !.exp = e]]
  /\ exps' = [exps EXCEPT ![e] = [@ EXCEPT !.status = "Queued", !.task = t]]
  /\ starting' = starting \cup {[task |-> t, proc |-> p, kind |-> k]}
  /\ UNCHANGED <<workers, alive, pass>>

\* The spawn's acquire_lease succeeds: the caller gets its fencing token.
StartLeased(s) ==
  /\ s \in starting
  /\ CanLease(s.task)
  /\ Lease(s.proc, s.task)
  /\ workers' = workers \cup {NewWorker(s.proc, s.task, s.kind)}
  /\ starting' = starting \ {s}
  /\ UNCHANGED <<alive, pass>>

\* The acquire declines (someone else leased the row, or the case is full)
\* or fails.  A background or delegated spawn is refused; an ordinary
\* synchronous one continues without its durable mirror.
StartRefused(s) ==
  /\ s \in starting
  /\ StoreErrors \/ ~CanLease(s.task)
  /\ workers' = IF s.kind = "sync" /\ ~IsExp(s.task)
                THEN workers \cup {[task |-> s.task, proc |-> s.proc,
                                    fence |-> 0, kind |-> "sync"]}
                ELSE workers
  /\ starting' = starting \ {s}
  /\ UNCHANGED <<task, exps, alive, pass>>

-----------------------------------------------------------------------------
(***************************************************************************)
(* A worker: heartbeat, the child-session link, and its write-back.        *)
(***************************************************************************)
\* The background and scheduler workers renew their lease; the synchronous
\* path has no heartbeat.  A worker told that it lost its lease stops and
\* writes nothing.
Heartbeat(w) ==
  /\ w \in workers
  /\ w.kind # "sync"
  /\ IF Holds(w)
     THEN /\ task' = [task EXCEPT ![w.task] = [@ EXCEPT !.lease = "live"]]
          /\ UNCHANGED workers
     ELSE /\ workers' = workers \ {w}
          /\ UNCHANGED task
  /\ UNCHANGED <<exps, starting, alive, pass>>

\* set_child_session, made by the synchronous path just before it completes.
AttachSession(w) ==
  /\ w \in workers
  /\ w.kind = "sync"
  /\ Holds(w)
  /\ task' = [task EXCEPT ![w.task] = [@ EXCEPT !.child = w.fence]]
  /\ UNCHANGED <<exps, workers, starting, alive, pass>>

\* complete: for an Experiment the verified result decides.  It is Observed
\* only with evidence of the row's own child session, and a run's evidence
\* comes from the session of its own attempt.  (A terminal row's missing
\* child_session_id is filled in as well; nothing reads it any more.)
Complete(w) ==
  \/ /\ IsExp(w.task) => task[w.task].child \in {0, w.fence}
     /\ Commit(w, "succeeded", "Observed")
  \/ /\ IsExp(w.task)
     /\ \/ Commit(w, "failed", "Failed")
        \/ Commit(w, "cancelled", "Cancelled")

\* fail: a scheduler worker retries until its budget is spent, leaving the
\* Experiment Running; a spawn's own worker fails for good.
Fail(w) ==
  IF w.kind = "scheduler" /\ w.fence < MaxAttempts
  THEN /\ task' = IF Holds(w) THEN Released(w.task, "retrying") ELSE task
       /\ UNCHANGED exps
  ELSE Commit(w, "failed", "Failed")

\* cancel_attempt: the parent turn was interrupted.
CancelAttempt(w) ==
  /\ w.kind # "scheduler"
  /\ Commit(w, "cancelled", "Cancelled")

\* The run ends and its outcome is written back.  A synchronous run whose
\* session was just attached has a result to complete with.
WriteBack(w) ==
  /\ w \in workers
  /\ \/ Complete(w)
     \/ /\ w.kind = "sync" => task[w.task].child # w.fence
        /\ Fail(w) \/ CancelAttempt(w)
  /\ workers' = workers \ {w}
  /\ UNCHANGED <<starting, alive, pass>>

\* The write-back fails in the store: logged, and the lease is left behind.
WriteBackLost(w) ==
  /\ StoreErrors
  /\ w \in workers
  /\ workers' = workers \ {w}
  /\ UNCHANGED <<task, exps, starting, alive, pass>>

-----------------------------------------------------------------------------
(***************************************************************************)
(* Startup recovery and the scheduler's pass (run_once), one process each. *)
(***************************************************************************)
At(p, pc) == alive[p] = "up" /\ pass[p].pc = pc

\* A dead owner's pid may be reused, so the scan may take it for alive.
ReapScan(p) ==
  /\ At(p, "idle")
  /\ \E dead \in SUBSET {t \in Tasks :
                            /\ task[t].state \in {"running", "recovering"}
                            /\ task[t].owner # NoOwner
                            /\ alive[task[t].owner] = "dead"} :
       pass' = [pass EXCEPT ![p] =
                  [pc |-> "reap", work |-> {},
                   reap |-> {<<t, task[t].owner>> : t \in dead}]]
  /\ UNCHANGED <<task, exps, workers, starting, alive>>

\* Fault: the write is guarded on the task id alone.
ReapApplyUnguarded(p) ==
  /\ At(p, "reap")
  /\ task' = [t \in Tasks |->
                IF /\ task[t].state \in {"running", "recovering"}
                   /\ \E o \in Procs : <<t, o>> \in pass[p].reap
                THEN [task[t] EXCEPT !.lease = "expired"]
                ELSE task[t]]
  /\ pass' = [pass EXCEPT ![p] = [IdlePass EXCEPT !.pc = "recover"]]
  /\ UNCHANGED <<exps, workers, starting, alive>>

\* The write is guarded on the owner that was scanned.
ReapApply(p) ==
  /\ At(p, "reap")
  /\ task' = [t \in Tasks |->
                IF /\ task[t].state \in {"running", "recovering"}
                   /\ <<t, task[t].owner>> \in pass[p].reap
                THEN [task[t] EXCEPT !.lease = "expired"]
                ELSE task[t]]
  /\ pass' = [pass EXCEPT ![p] = [IdlePass EXCEPT !.pc = "recover"]]
  /\ UNCHANGED <<exps, workers, starting, alive>>

\* Fault: the recovery scan sees the retryable rows only.
ExpiredSafeOnly == {t \in Tasks : /\ task[t].state \in {"running", "recovering"}
                                  /\ task[t].lease = "expired"
                                  /\ task[t].safe}

Expired == {t \in Tasks : /\ task[t].state \in {"running", "recovering"}
                          /\ task[t].lease = "expired"}

\* An unsafe Experiment row whose Experiment runs something else fails the
\* whole recovery transaction.
Diverged(t) ==
  ~task[t].safe /\ IsExp(t) /\ ~ExpRuns(t, task[t].attempt)

\* Fault: a recovered task starts counting its attempts afresh.
RecoveredAfresh(t) ==
  [task[t] EXCEPT !.state = IF task[t].safe THEN "recovering" ELSE "manual",
                  !.owner = NoOwner, !.lease = "none", !.attempt = 0]

\* What recover_expired_leases makes of an expired row.
Recovered(t) ==
  [task[t] EXCEPT !.state = IF task[t].safe THEN "recovering" ELSE "manual",
                  !.owner = NoOwner, !.lease = "none"]

\* recover_expired_leases: one transaction over every expired row; the safe
\* ones are then to be requeued by this process, one by one.
RecoverScan(p) ==
  /\ alive[p] = "up"
  /\ pass[p].pc \in {"boot", "recover"}
  /\ IF \E t \in Expired : Diverged(t)
     THEN /\ pass' = [pass EXCEPT ![p] = IdlePass]
          /\ UNCHANGED <<task, exps>>
     ELSE /\ task' = [t \in Tasks |->
                        IF t \in Expired THEN Recovered(t) ELSE task[t]]
          /\ exps' = [e \in Experiments |->
                        IF \E t \in Expired : task[t].exp = e /\ ~task[t].safe
                        THEN [exps[e] EXCEPT !.status = "Expired"]
                        ELSE exps[e]]
          /\ pass' = [pass EXCEPT ![p] =
                        [pc |-> IF pass[p].pc = "boot" THEN "bootResolve"
                                                       ELSE "resolve",
                         reap |-> {},
                         work |-> {t \in Expired : task[t].safe}]]
  /\ UNCHANGED <<workers, starting, alive>>

\* resolve_recovering(Requeue), a transaction of its own for each task.
ResolveRecovering(p, t) ==
  /\ alive[p] = "up"
  /\ pass[p].pc \in {"bootResolve", "resolve"}
  /\ t \in pass[p].work
  /\ task' = IF task[t].state = "recovering"
             THEN [task EXCEPT ![t] = [@ EXCEPT !.state = "retrying"]]
             ELSE task
  /\ pass' = [pass EXCEPT ![p] = [@ EXCEPT !.work = pass[p].work \ {t}]]
  /\ UNCHANGED <<exps, workers, starting, alive>>

\* Startup recovery is over: the scheduler loop and the session begin.
BootDone(p) ==
  /\ At(p, "bootResolve")
  /\ pass[p].work = {}
  /\ pass' = [pass EXCEPT ![p] = IdlePass]
  /\ UNCHANGED <<task, exps, workers, starting, alive>>

\* Fault: only requeued tasks are listed.
ListRetryingOnly(p) ==
  /\ At(p, "resolve")
  /\ pass[p].work = {}
  /\ LET leasable == {t \in Tasks : task[t].state = "retrying"}
     IN pass' = [pass EXCEPT ![p] =
                   IF leasable = {} THEN IdlePass
                   ELSE [pc |-> "lease", reap |-> {}, work |-> leasable]]
  /\ UNCHANGED <<task, exps, workers, starting, alive>>

\* list_leasable.
ListLeasable(p) ==
  /\ At(p, "resolve")
  /\ pass[p].work = {}
  /\ LET leasable == {t \in Tasks : task[t].state \in {"queued", "retrying"}}
     IN pass' = [pass EXCEPT ![p] =
                   IF leasable = {} THEN IdlePass
                   ELSE [pc |-> "lease", reap |-> {}, work |-> leasable]]
  /\ UNCHANGED <<task, exps, workers, starting, alive>>

\* The pass goes on after t, or is over.
PassAfter(p, t) ==
  IF pass[p].work = {t} THEN IdlePass
                        ELSE [pass[p] EXCEPT !.work = @ \ {t}]

\* acquire_lease on one listed task: leased, declined (skip it), or an error
\* that ends the pass.
SchedulerLease(p, t) ==
  /\ At(p, "lease")
  /\ t \in pass[p].work
  /\ IF CanLease(t)
     THEN /\ Lease(p, t)
          /\ workers' = workers \cup {NewWorker(p, t, "scheduler")}
     ELSE UNCHANGED <<task, exps, workers>>
  /\ pass' = [pass EXCEPT ![p] =
                IF task[t].state \in {"queued", "retrying"} /\ ExpRefuses(t)
                THEN IdlePass ELSE PassAfter(p, t)]
  /\ UNCHANGED <<starting, alive>>

\* A transaction of the pass fails: the pass (or the startup recovery) ends.
PassError(p) ==
  /\ StoreErrors
  /\ alive[p] = "up"
  /\ pass[p].pc # "idle"
  /\ pass' = [pass EXCEPT ![p] = IdlePass]
  /\ UNCHANGED <<task, exps, workers, starting, alive>>

-----------------------------------------------------------------------------
(***************************************************************************)
(* The operator, the clock, and the processes.                             *)
(***************************************************************************)
\* TaskStore::cancel, unfenced: it wins against any attempt.
OperatorCancel(t) ==
  /\ task[t].state \in {"queued", "running", "retrying"}
  /\ ~ExpRefuses(t)
  /\ task' = Released(t, "cancelled")
  /\ exps' = ExpBecomes(t, "Cancelled")
  /\ UNCHANGED <<workers, starting, alive, pass>>

\* The runbook's dispositions of a suspended task; only an ordinary task may
\* be put back in the queue.
OperatorResolve(t, s) ==
  /\ task[t].state = "manual"
  /\ s = "queued" => ~IsExp(t)
  /\ task' = [task EXCEPT ![t] = [@ EXCEPT !.state = s]]
  /\ UNCHANGED <<exps, workers, starting, alive, pass>>

\* Time passes a lease's deadline.
LeaseExpires(t) ==
  /\ task[t].state = "running"
  /\ task[t].lease = "live"
  /\ TimelyHeartbeats =>
       ~\E w \in workers : w.task = t /\ w.kind # "sync" /\ Holds(w)
  /\ task' = [task EXCEPT ![t] = [@ EXCEPT !.lease = "expired"]]
  /\ UNCHANGED <<exps, workers, starting, alive, pass>>

StartProcess(p) ==
  /\ alive[p] = "unborn"
  /\ alive' = [alive EXCEPT ![p] = "up"]
  /\ pass' = [pass EXCEPT ![p] = [IdlePass EXCEPT !.pc = "boot"]]
  /\ UNCHANGED <<task, exps, workers, starting>>

\* A crash, or a shutdown: workers vanish without a write-back and leave
\* their leases behind.
Crash(p) ==
  /\ alive[p] = "up"
  /\ Cardinality({q \in Procs : alive[q] = "dead"}) < MaxCrashes
  /\ alive' = [alive EXCEPT ![p] = "dead"]
  /\ workers' = {w \in workers : w.proc # p}
  /\ starting' = {s \in starting : s.proc # p}
  /\ pass' = [pass EXCEPT ![p] = IdlePass]
  /\ UNCHANGED <<task, exps>>

Spawn ==
  \E p \in Procs, t \in Tasks, k \in {"sync", "background"} :
    \/ Enqueue(p, t, k)
    \/ \E e \in Experiments, safe \in BOOLEAN :
         EnqueueExperiment(p, t, k, e, safe)

Start == \E s \in starting : StartLeased(s) \/ StartRefused(s)

Work ==
  \E w \in workers :
    Heartbeat(w) \/ AttachSession(w) \/ WriteBack(w) \/ WriteBackLost(w)

Pass(p) ==
  \/ ReapScan(p) \/ ReapApply(p) \/ RecoverScan(p)
  \/ BootDone(p) \/ ListLeasable(p) \/ PassError(p)
  \/ \E t \in Tasks : ResolveRecovering(p, t) \/ SchedulerLease(p, t)

Operator ==
  \E t \in Tasks :
    \/ OperatorCancel(t)
    \/ \E s \in {"failed", "succeeded", "queued"} : OperatorResolve(t, s)

Next ==
  \/ Spawn \/ Start \/ Work \/ Operator
  \/ \E p \in Procs : Pass(p) \/ StartProcess(p) \/ Crash(p)
  \/ \E t \in Tasks : LeaseExpires(t)

Spec == Init /\ [][Next]_vars

-----------------------------------------------------------------------------
(***************************************************************************)
(* Safety.                                                                 *)
(***************************************************************************)
\* The status the Experiment of a row must have, given the row's state.
\* ("succeeded" and "failed" with Expired: closed by the operator.)
Matching(s) ==
  CASE s = "queued"     -> {"Queued"}
    [] s = "running"    -> {"Running"}
    [] s = "retrying"   -> {"Running"}
    [] s = "recovering" -> {"Running"}
    [] s = "succeeded"  -> {"Observed", "Expired"}
    [] s = "failed"     -> {"Failed", "Expired"}
    [] s = "cancelled"  -> {"Cancelled"}
    [] s = "manual"     -> {"Expired"}

\* A delegated task and its Experiment never diverge: in every state the
\* Experiment names this task, has the status the row's state calls for and
\* the row's attempt as its own.  The "fencing state diverged" errors of
\* acquire_experiment_lease, recover_expired_leases and
\* fail_recovering_experiment, each of which stops a whole pass for every
\* other task, are therefore unreachable.
Lockstep ==
  \A t \in Tasks : IsExp(t) =>
    /\ exps[task[t].exp].task = t
    /\ exps[task[t].exp].attempt = task[t].attempt
    /\ exps[task[t].exp].status \in Matching(task[t].state)

\* A case never runs more delegated Experiments than
\* max_concurrent_per_case, however spawns, scheduler passes of several
\* processes and recoveries interleave.
CaseLimit ==
  \A c \in Cases :
    Cardinality({t \in Tasks : /\ task[t].state = "running"
                               /\ IsExp(t)
                               /\ CaseOf[task[t].exp] = c}) <= MaxPerCase

\* A fencing token is given to one worker only: no two executions of a task
\* ever hold the same attempt, and none holds one the row has not reached.
FencesUnique ==
  \A w \in workers :
    /\ w.fence <= task[w.task].attempt
    /\ \A v \in workers :
         (w.task = v.task /\ w.fence = v.fence /\ w.fence # 0) => w = v

\* Both halves of fencing: the attempt that an Experiment, its row and its
\* workers carry is the same number, and it names one execution.
FencesHold == Lockstep /\ FencesUnique

\* Only the worker under the current attempt of the current owner moves a
\* running task to succeeded, failed or retrying: a completion that arrives
\* after a cancel, a recovery or a newer lease changes nothing.
OwnerCommits ==
  \A t \in Tasks :
    /\ task[t].state = "running"
    /\ task'[t].state \in {"succeeded", "failed", "retrying"}
    => \E w \in workers \ workers' :
         /\ w.task = t
         /\ w.proc = task[t].owner
         /\ w.fence = task[t].attempt

OnlyOwnerCommits == [][OwnerCommits]_vars

\* A terminal task stays as it ended, and so does a terminal Experiment: no
\* late write, recovery or scheduler pass resurrects either.
TerminalKept ==
  /\ \A t \in Tasks :
       task[t].state \in Terminal => task'[t] = task[t]
  /\ \A e \in Experiments :
       exps[e].status \in {"Observed", "Failed", "Cancelled", "Expired"}
       => exps'[e] = exps[e]

TerminalIsFinal == [][TerminalKept]_vars

\* A reaper never cuts short the lease of a live process: between its scan
\* and its write the task may have been recovered and leased anew, by another
\* process or by its own.  (Only a pass moves pass; time alone does not.)
ReapedWereDead ==
  \A t \in Tasks :
    /\ task[t].lease = "live"
    /\ task'[t].lease = "expired"
    /\ pass' # pass
    => alive[task[t].owner] = "dead"

OnlyDeadAreReaped == [][ReapedWereDead]_vars

\* A lease is respected from both sides: nobody but its holder commits under
\* it, and nobody takes it from a holder that lives.
LeasesRespected == [][OwnerCommits /\ ReapedWereDead]_vars

\* The table keeps the promise its users rely on, stated without processes,
\* leases or clocks in FencedTasks: one token at a time, granted in order and
\* never again, and an ended task stays ended.
Phase(s) ==
  CASE s = "absent" -> "none"
    [] s \in {"queued", "retrying", "recovering", "manual"} -> "waiting"
    [] s = "running" -> "held"
    [] s \in Terminal -> "ended"

Fenced == INSTANCE FencedTasks
            WITH phase <- [t \in Tasks |-> Phase(task[t].state)],
                 token <- [t \in Tasks |-> task[t].attempt]

ImplementsFencedTasks == Fenced!Spec

-----------------------------------------------------------------------------
(***************************************************************************)
(* Liveness.  Every live process keeps running its passes (the resident    *)
(* scheduler loop), time passes every deadline, a spawn finishes starting  *)
(* and an execution ends (max_turns and deadlines bound it).  Nobody has   *)
(* to spawn, to start a process, or to act as the operator.                *)
(***************************************************************************)
Fairness ==
  /\ \A p \in Procs : WF_vars(Pass(p))
  /\ \A t \in Tasks : WF_vars(LeaseExpires(t))
  /\ \A s \in Starts : WF_vars(StartLeased(s) \/ StartRefused(s))
  /\ \A t \in Tasks, p \in Procs, k \in WorkerKinds :
       WF_vars(\E w \in workers : /\ w.task = t /\ w.proc = p /\ w.kind = k
                                 /\ WriteBack(w))

FairSpec == Spec /\ Fairness

SomeoneUp == \E p \in Procs : alive[p] = "up"

\* A task whose owner died does not stay 'running': some surviving or new
\* process dispositions it, also when the dead pid has been reused.
OrphansAreFound ==
  \A t \in Tasks :
    (task[t].state = "running" /\ alive[task[t].owner] = "dead")
      ~> (task[t].state # "running" \/ ~SomeoneUp)

\* A queued task is eventually leased (or cancelled) while a process is up,
\* whatever became of the process that queued it and however full its case
\* was.
QueuedIsServed ==
  \A t \in Tasks :
    (task[t].state = "queued" /\ task[t].attempt < AttemptBound)
      ~> (task[t].state # "queued" \/ ~SomeoneUp)

-----------------------------------------------------------------------------
(***************************************************************************)
(* What comments and the runbook say of this code and it does not do.      *)
(***************************************************************************)
\* recovery.rs and the runbook: recovery interrupted by a crash is simply
\* run again, so a task never stays 'recovering'.
RecoveringIsResolved ==
  \A t \in Tasks :
    task[t].state = "recovering"
      ~> (task[t].state # "recovering" \/ ~SomeoneUp)
=============================================================================
