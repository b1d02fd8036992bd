------------------------- MODULE DurableTasksProofs -------------------------
(***************************************************************************)
(* Theorems about DurableTasks, for every set of tasks, processes and      *)
(* Experiments and every bound.                                            *)
(***************************************************************************)
EXTENDS DurableTasks, FiniteSetTheorems, TLAPS

-----------------------------------------------------------------------------
(***************************************************************************)
(* Type correctness.                                                       *)
(***************************************************************************)
\* Writing type-correct columns leaves a row a row.
LEMMA RowUpdates ==
  ASSUME NEW r \in Rows, NEW s \in TaskStates, NEW o \in Procs \cup {NoOwner},
         NEW l \in {"none", "live", "expired"}, NEW n \in Nat
  PROVE  /\ [r EXCEPT !.state = s] \in Rows
         /\ [r EXCEPT !.state = s, !.owner = o, !.lease = l] \in Rows
         /\ [r EXCEPT !.lease = l] \in Rows
         /\ [r EXCEPT !.child = n] \in Rows
<1>1. [r EXCEPT !.state = s] \in Rows
  BY DEF Rows
<1>2. [r EXCEPT !.state = s, !.owner = o, !.lease = l] \in Rows
  BY DEF Rows
<1>3. [r EXCEPT !.lease = l] \in Rows
  BY DEF Rows
<1>4. [r EXCEPT !.child = n] \in Rows
  BY DEF Rows
<1> QED
  BY <1>1, <1>2, <1>3, <1>4

\* And leasing it under attempt n.
LEMMA LeasedRow ==
  ASSUME NEW r \in Rows, NEW p \in Procs, NEW n \in Nat
  PROVE  [r EXCEPT !.state = "running", !.attempt = n, !.owner = p,
                   !.lease = "live"] \in Rows
BY DEF Rows, TaskStates

\* So does writing the columns of an Experiment's projection.
LEMMA ExpUpdates ==
  ASSUME NEW r \in ExpRecords, NEW s \in ExpStatuses, NEW t \in Tasks,
         NEW n \in Nat
  PROVE  /\ [r EXCEPT !.status = s] \in ExpRecords
         /\ [r EXCEPT !.status = s, !.task = t] \in ExpRecords
         /\ [r EXCEPT !.status = s, !.attempt = n] \in ExpRecords
BY DEF ExpRecords

\* A release writes a row.
LEMMA ReleasedType ==
  ASSUME TypeOK, NEW t \in Tasks, NEW s \in TaskStates
  PROVE  Released(t, s) \in [Tasks -> Rows]
<1>1. [task[t] EXCEPT !.state = s, !.owner = NoOwner, !.lease = "none"] \in Rows
  BY RowUpdates DEF TypeOK
<1> QED
  BY <1>1 DEF TypeOK, Released

\* The ledger status written with it is that of an Experiment.
LEMMA ExpBecomesType ==
  ASSUME TypeOK, NEW t \in Tasks, NEW s \in ExpStatuses
  PROVE  ExpBecomes(t, s) \in [Experiments -> ExpRecords]
<1>1. CASE IsExp(t)
  <2>1. task[t].exp \in Experiments
    BY <1>1 DEF TypeOK, IsExp, Rows
  <2>2. [exps[task[t].exp] EXCEPT !.status = s] \in ExpRecords
    BY <2>1, ExpUpdates DEF TypeOK
  <2> QED
    BY <1>1, <2>1, <2>2 DEF TypeOK, ExpBecomes
<1>2. CASE ~IsExp(t)
  BY <1>2 DEF TypeOK, ExpBecomes
<1> QED
  BY <1>1, <1>2

\* A fenced write keeps both tables well typed.
LEMMA CommitType ==
  ASSUME TypeOK, NEW w \in Workers, NEW s \in TaskStates, NEW x \in ExpStatuses,
         Commit(w, s, x)
  PROVE  /\ task' \in [Tasks -> Rows]
         /\ exps' \in [Experiments -> ExpRecords]
<1>1. w.task \in Tasks
  BY DEF Workers
<1> QED
  BY <1>1, ReleasedType, ExpBecomesType DEF Commit, TypeOK

\* So does a lease.
LEMMA LeaseType ==
  ASSUME TypeOK, NEW p \in Procs, NEW t \in Tasks, Lease(p, t)
  PROVE  /\ task' \in [Tasks -> Rows]
         /\ exps' \in [Experiments -> ExpRecords]
<1> DEFINE n == task[t].attempt + 1
<1>1. task[t] \in Rows /\ n \in Nat
  BY DEF TypeOK, Rows
<1> HIDE DEF n
<1>2. [task[t] EXCEPT !.state = "running", !.attempt = n,
                      !.owner = p, !.lease = "live"] \in Rows
  BY <1>1, LeasedRow
<1>3. task' \in [Tasks -> Rows]
  BY <1>2 DEF TypeOK, Lease, n
<1>4. ASSUME IsExp(t)
      PROVE  /\ task[t].exp \in Experiments
             /\ [exps[task[t].exp] EXCEPT !.status = "Running",
                           !.attempt = n] \in ExpRecords
  <2>1. task[t].exp \in Experiments
    BY <1>4 DEF TypeOK, IsExp, Rows
  <2> QED
    BY <1>1, <2>1, ExpUpdates DEF TypeOK, ExpStatuses
<1>5. exps' \in [Experiments -> ExpRecords]
  BY <1>4 DEF TypeOK, Lease, n
<1> QED
  BY <1>3, <1>5

\* Every action keeps the state well typed.
LEMMA TypeStep == TypeOK /\ [Next]_vars => TypeOK'
<1> SUFFICES ASSUME TypeOK, [Next]_vars
             PROVE  TypeOK'
  OBVIOUS
<1> USE ConstantsAssumption
<1>1. ASSUME NEW p \in Procs, NEW t \in Tasks, NEW k \in {"sync", "background"},
             Enqueue(p, t, k)
      PROVE  TypeOK'
  <2>1. [AbsentRow EXCEPT !.state = "queued"] \in Rows
    BY DEF Rows, AbsentRow, TaskStates
  <2>2. task' \in [Tasks -> Rows]
    BY <1>1, <2>1 DEF Enqueue, TypeOK
  <2>3. starting' \subseteq Starts
    BY <1>1 DEF Enqueue, TypeOK, Starts
  <2> QED
    BY <1>1, <2>2, <2>3 DEF Enqueue, TypeOK
<1>2. ASSUME NEW p \in Procs, NEW t \in Tasks, NEW k \in {"sync", "background"},
             NEW e \in Experiments, NEW safe \in BOOLEAN,
             EnqueueExperiment(p, t, k, e, safe)
      PROVE  TypeOK'
  <2>1. [AbsentRow EXCEPT !.state = "queued", !.safe = safe, !.exp = e] \in Rows
    BY DEF Rows, AbsentRow, TaskStates
  <2>2. task' \in [Tasks -> Rows]
    BY <1>2, <2>1 DEF EnqueueExperiment, TypeOK
  <2>3. [exps[e] EXCEPT !.status = "Queued", !.task = t] \in ExpRecords
    BY ExpUpdates DEF TypeOK, ExpStatuses
  <2>4. exps' \in [Experiments -> ExpRecords]
    BY <1>2, <2>3 DEF EnqueueExperiment, TypeOK
  <2>5. starting' \subseteq Starts
    BY <1>2 DEF EnqueueExperiment, TypeOK, Starts
  <2> QED
    BY <1>2, <2>2, <2>4, <2>5 DEF EnqueueExperiment, TypeOK
<1>3. ASSUME NEW s \in starting, StartLeased(s)
      PROVE  TypeOK'
  <2>1. s \in Starts
    BY DEF TypeOK
  <2>2. s.task \in Tasks /\ s.proc \in Procs /\ s.kind \in WorkerKinds
    BY <2>1 DEF Starts, WorkerKinds
  <2>3. NewWorker(s.proc, s.task, s.kind) \in Workers
    BY <2>2 DEF NewWorker, Workers, TypeOK, Rows
  <2>4. task' \in [Tasks -> Rows] /\ exps' \in [Experiments -> ExpRecords]
    BY <1>3, <2>2, LeaseType DEF StartLeased
  <2> QED
    BY <1>3, <2>3, <2>4 DEF StartLeased, TypeOK
<1>4. ASSUME NEW s \in starting, StartRefused(s)
      PROVE  TypeOK'
  <2>1. s \in Starts
    BY DEF TypeOK
  <2>2. [task |-> s.task, proc |-> s.proc, fence |-> 0, kind |-> "sync"]
          \in Workers
    BY <2>1 DEF Starts, Workers, WorkerKinds
  <2> QED
    BY <1>4, <2>2 DEF StartRefused, TypeOK
<1>5. ASSUME NEW w \in workers, Heartbeat(w)
      PROVE  TypeOK'
  <2>1. w.task \in Tasks
    BY DEF TypeOK, Workers
  <2>2. [task[w.task] EXCEPT !.lease = "live"] \in Rows
    BY <2>1, RowUpdates DEF TypeOK, TaskStates
  <2> QED
    BY <1>5, <2>1, <2>2 DEF Heartbeat, TypeOK
<1>6. ASSUME NEW w \in workers, AttachSession(w)
      PROVE  TypeOK'
  <2>1. w.task \in Tasks /\ w.fence \in Nat
    BY DEF TypeOK, Workers
  <2>2. [task[w.task] EXCEPT !.child = w.fence] \in Rows
    BY <2>1, RowUpdates DEF TypeOK, TaskStates
  <2> QED
    BY <1>6, <2>1, <2>2 DEF AttachSession, TypeOK
<1>7. ASSUME NEW w \in workers, WriteBack(w)
      PROVE  TypeOK'
  <2>1. w \in Workers /\ w.task \in Tasks
    BY DEF TypeOK, Workers
  <2>2. ASSUME NEW s \in {"succeeded", "failed", "cancelled"},
               NEW x \in {"Observed", "Failed", "Cancelled"}, Commit(w, s, x)
        PROVE  task' \in [Tasks -> Rows] /\ exps' \in [Experiments -> ExpRecords]
    <3>1. s \in TaskStates /\ x \in ExpStatuses
      BY DEF TaskStates, ExpStatuses
    <3> QED
      BY <2>1, <2>2, <3>1, CommitType
  <2>3. Released(w.task, "retrying") \in [Tasks -> Rows]
    BY <2>1, ReleasedType DEF TaskStates
  <2>4. task' \in [Tasks -> Rows] /\ exps' \in [Experiments -> ExpRecords]
    <3>1. CASE Complete(w)
      BY <2>2, <3>1 DEF Complete
    <3>2. CASE Fail(w)
      BY <2>2, <2>3, <3>2 DEF Fail, TypeOK
    <3>3. CASE CancelAttempt(w)
      BY <2>2, <3>3 DEF CancelAttempt
    <3> QED
      BY <1>7, <3>1, <3>2, <3>3 DEF WriteBack
  <2> QED
    BY <1>7, <2>4 DEF WriteBack, TypeOK
<1>8. ASSUME NEW w \in workers, WriteBackLost(w)
      PROVE  TypeOK'
  BY <1>8 DEF WriteBackLost, TypeOK
<1>9. ASSUME NEW p \in Procs, ReapScan(p)
      PROVE  TypeOK'
  <2> DEFINE overdue == {t \in Tasks : /\ task[t].state \in {"running", "recovering"}
                                      /\ task[t].owner # NoOwner
                                      /\ alive[task[t].owner] = "dead"}
             scanned(dead) == {<<t, task[t].owner>> : t \in dead}
  <2>1. PICK dead \in SUBSET overdue :
          pass' = [pass EXCEPT ![p] = [pc |-> "reap", work |-> {},
                                       reap |-> scanned(dead)]]
    BY <1>9 DEF ReapScan
  <2>2. \A t \in overdue : task[t].owner \in Procs
    BY DEF TypeOK, Rows
  <2>3. scanned(dead) \in SUBSET (Tasks \X Procs)
    BY <2>2
  <2>4. [pc |-> "reap", work |-> {}, reap |-> scanned(dead)] \in Passes
    BY <2>3 DEF Passes, PassPoints
  <2> QED
    BY <1>9, <2>1, <2>4 DEF ReapScan, TypeOK
<1>10. ASSUME NEW p \in Procs, ReapApply(p)
       PROVE  TypeOK'
  <2>1. \A t \in Tasks : [task[t] EXCEPT !.lease = "expired"] \in Rows
    BY RowUpdates DEF TypeOK, TaskStates
  <2>2. task' \in [Tasks -> Rows]
    BY <1>10, <2>1 DEF ReapApply, TypeOK
  <2>3. [IdlePass EXCEPT !.pc = "recover"] \in Passes
    BY DEF IdlePass, Passes, PassPoints
  <2> QED
    BY <1>10, <2>2, <2>3 DEF ReapApply, TypeOK
<1>11. IdlePass \in Passes
  BY DEF IdlePass, Passes, PassPoints
<1>12. ASSUME NEW p \in Procs, RecoverScan(p)
       PROVE  TypeOK'
  <2>1. CASE \E t \in Expired : Diverged(t)
    BY <1>11, <1>12, <2>1 DEF RecoverScan, TypeOK
  <2>2. CASE ~\E t \in Expired : Diverged(t)
    <3>1. \A t \in Tasks : Recovered(t) \in Rows
      <4> SUFFICES ASSUME NEW t \in Tasks
                   PROVE  Recovered(t) \in Rows
        OBVIOUS
      <4> DEFINE s == IF task[t].safe THEN "recovering" ELSE "manual"
      <4>1. s \in TaskStates
        BY DEF TaskStates
      <4> HIDE DEF s
      <4>2. [task[t] EXCEPT !.state = s, !.owner = NoOwner, !.lease = "none"]
              \in Rows
        BY <4>1, RowUpdates DEF TypeOK
      <4> QED
        BY <4>2 DEF s, Recovered
    <3>2. task' \in [Tasks -> Rows]
      BY <1>12, <2>2, <3>1 DEF RecoverScan, TypeOK
    <3>3. \A e \in Experiments :
            [exps[e] EXCEPT !.status = "Expired"] \in ExpRecords
      BY DEF TypeOK, ExpStatuses, ExpRecords
    <3>4. exps' \in [Experiments -> ExpRecords]
      BY <1>12, <2>2, <3>3 DEF RecoverScan, TypeOK
    <3>5. [pc |-> IF pass[p].pc = "boot" THEN "bootResolve" ELSE "resolve",
           reap |-> {}, work |-> {t \in Expired : task[t].safe}] \in Passes
      BY DEF Passes, PassPoints, Expired
    <3> QED
      BY <1>12, <2>2, <3>2, <3>4, <3>5, ZenonT(40) DEF RecoverScan, TypeOK
  <2> QED
    BY <2>1, <2>2
<1>13. ASSUME NEW p \in Procs, NEW t \in Tasks, ResolveRecovering(p, t)
       PROVE  TypeOK'
  <2>1. [task[t] EXCEPT !.state = "retrying"] \in Rows
    BY RowUpdates DEF TypeOK, TaskStates
  <2>2. task' \in [Tasks -> Rows]
    BY <1>13, <2>1 DEF ResolveRecovering, TypeOK
  <2>3. [pass[p] EXCEPT !.work = pass[p].work \ {t}] \in Passes
    BY DEF TypeOK, Passes
  <2> QED
    BY <1>13, <2>2, <2>3 DEF ResolveRecovering, TypeOK
<1>14. ASSUME NEW p \in Procs, BootDone(p) \/ PassError(p)
       PROVE  TypeOK'
  BY <1>11, <1>14 DEF BootDone, PassError, TypeOK
<1>15. ASSUME NEW p \in Procs, ListLeasable(p)
       PROVE  TypeOK'
  <2>1. [pc |-> "lease", reap |-> {},
         work |-> {t \in Tasks : task[t].state \in {"queued", "retrying"}}]
          \in Passes
    BY DEF Passes, PassPoints
  <2> QED
    BY <1>11, <1>15, <2>1 DEF ListLeasable, TypeOK
<1>16. ASSUME NEW p \in Procs, NEW t \in Tasks, SchedulerLease(p, t)
       PROVE  TypeOK'
  <2>1. NewWorker(p, t, "scheduler") \in Workers
    BY DEF NewWorker, Workers, WorkerKinds, TypeOK, Rows
  <2>2. /\ task' \in [Tasks -> Rows]
        /\ exps' \in [Experiments -> ExpRecords]
        /\ workers' \subseteq Workers
    BY <1>16, <2>1, LeaseType DEF SchedulerLease, TypeOK
  <2>3. PassAfter(p, t) \in Passes
    <3>1. [pass[p] EXCEPT !.work = @ \ {t}] \in Passes
      BY DEF TypeOK, Passes
    <3> QED
      BY <1>11, <3>1 DEF PassAfter
  <2> QED
    BY <1>11, <1>16, <2>2, <2>3 DEF SchedulerLease, TypeOK
<1>17. ASSUME NEW t \in Tasks, OperatorCancel(t)
       PROVE  TypeOK'
  <2>1. Released(t, "cancelled") \in [Tasks -> Rows]
    BY ReleasedType DEF TaskStates
  <2>2. ExpBecomes(t, "Cancelled") \in [Experiments -> ExpRecords]
    BY ExpBecomesType DEF ExpStatuses
  <2> QED
    BY <1>17, <2>1, <2>2 DEF OperatorCancel, TypeOK
<1>18. ASSUME NEW t \in Tasks, NEW s \in {"failed", "succeeded", "queued"},
              OperatorResolve(t, s)
       PROVE  TypeOK'
  <2>1. [task[t] EXCEPT !.state = s] \in Rows
    BY RowUpdates DEF TypeOK, TaskStates
  <2> QED
    BY <1>18, <2>1 DEF OperatorResolve, TypeOK
<1>19. ASSUME NEW t \in Tasks, LeaseExpires(t)
       PROVE  TypeOK'
  <2>1. [task[t] EXCEPT !.lease = "expired"] \in Rows
    BY RowUpdates DEF TypeOK, TaskStates
  <2> QED
    BY <1>19, <2>1 DEF LeaseExpires, TypeOK
<1>20. ASSUME NEW p \in Procs, StartProcess(p)
       PROVE  TypeOK'
  <2>1. [IdlePass EXCEPT !.pc = "boot"] \in Passes
    BY DEF IdlePass, Passes, PassPoints
  <2> QED
    BY <1>20, <2>1 DEF StartProcess, TypeOK
<1>21. ASSUME NEW p \in Procs, Crash(p)
       PROVE  TypeOK'
  BY <1>11, <1>21 DEF Crash, TypeOK
<1>22. CASE UNCHANGED vars
  BY <1>22 DEF vars, TypeOK
<1> QED
  BY <1>1, <1>2, <1>3, <1>4, <1>5, <1>6, <1>7, <1>8, <1>9, <1>10, <1>12, <1>13,
     <1>14, <1>15, <1>16, <1>17, <1>18, <1>19, <1>20, <1>21, <1>22
     DEF Next, Spawn, Start, Work, Pass, Operator

\* The tables, the workers and the passes of every process keep their types.
THEOREM TypeCorrect == Spec => []TypeOK
<1>1. Init => TypeOK
  <2> SUFFICES ASSUME Init
               PROVE  TypeOK
    OBVIOUS
  <2>1. AbsentRow \in Rows
    BY DEF AbsentRow, Rows, TaskStates
  <2>2. [status |-> "Planned", task |-> NoTask, attempt |-> 0] \in ExpRecords
    BY DEF ExpRecords, ExpStatuses
  <2>3. IdlePass \in Passes
    BY DEF IdlePass, Passes, PassPoints
  <2> QED
    BY <2>1, <2>2, <2>3 DEF Init, TypeOK
<1> QED
  BY <1>1, TypeStep, PTL DEF Spec

-----------------------------------------------------------------------------
(***************************************************************************)
(* Lockstep.  It is not inductive as it stands: a spawn overwrites a row   *)
(* that does not exist yet and gives it a Planned Experiment, so the       *)
(* invariant also says what those two look like.                           *)
(***************************************************************************)
AbsentIsBlank ==
  \A t \in Tasks : task[t].state = "absent" => task[t] = AbsentRow
PlannedIsFresh ==
  \A e \in Experiments : exps[e].status = "Planned" => exps[e].attempt = 0

LockstepInv == Lockstep /\ AbsentIsBlank /\ PlannedIsFresh

\* No row's state calls for a Planned Experiment.
LEMMA MatchingValues ==
  /\ Matching("queued") = {"Queued"}
  /\ Matching("running") = {"Running"}
  /\ Matching("retrying") = {"Running"}
  /\ Matching("recovering") = {"Running"}
  /\ Matching("succeeded") = {"Observed", "Expired"}
  /\ Matching("failed") = {"Failed", "Expired"}
  /\ Matching("cancelled") = {"Cancelled"}
  /\ Matching("manual") = {"Expired"}
  /\ \A s \in TaskStates \ {"absent"} : "Planned" \notin Matching(s)
<1>1. /\ Matching("queued") = {"Queued"}
      /\ Matching("running") = {"Running"}
      /\ Matching("retrying") = {"Running"}
      /\ Matching("recovering") = {"Running"}
  BY DEF Matching
<1>2. /\ Matching("succeeded") = {"Observed", "Expired"}
      /\ Matching("failed") = {"Failed", "Expired"}
      /\ Matching("cancelled") = {"Cancelled"}
      /\ Matching("manual") = {"Expired"}
  BY DEF Matching
<1> QED
  BY <1>1, <1>2 DEF TaskStates

\* A row with an Experiment exists, and the Experiment is its own.
LEMMA RowOfExperiment ==
  ASSUME TypeOK, LockstepInv, NEW t \in Tasks, IsExp(t)
  PROVE  /\ task[t].exp \in Experiments
         /\ task[t].state \in TaskStates \ {"absent"}
         /\ \A u \in Tasks \ {t} : task[u].exp # task[t].exp
<1>1. task[t].exp \in Experiments /\ task[t].state \in TaskStates
  BY DEF TypeOK, Rows, IsExp
<1>2. task[t].state # "absent"
  BY DEF LockstepInv, AbsentIsBlank, AbsentRow, IsExp
<1>3. ASSUME NEW u \in Tasks \ {t}, task[u].exp = task[t].exp
      PROVE  FALSE
  BY <1>3 DEF LockstepInv, Lockstep, IsExp
<1> QED
  BY <1>1, <1>2, <1>3

\* A step that leaves the Experiments and the state, the attempt and the
\* Experiment of every row alone keeps the invariant.
LEMMA LockstepSame ==
  ASSUME LockstepInv, exps' = exps,
         \A t \in Tasks :
           /\ task'[t].state = task[t].state
           /\ task'[t].attempt = task[t].attempt
           /\ task'[t].exp = task[t].exp
           /\ task[t].state = "absent" => task'[t] = task[t]
  PROVE  LockstepInv'
<1>1. Lockstep'
  BY DEF LockstepInv, Lockstep, IsExp
<1>2. AbsentIsBlank'
  BY DEF LockstepInv, AbsentIsBlank
<1>3. PlannedIsFresh'
  BY DEF LockstepInv, PlannedIsFresh
<1> QED
  BY <1>1, <1>2, <1>3 DEF LockstepInv

\* A step that writes one row and at most the row's own Experiment keeps the
\* invariant if the two still match.
LEMMA LockstepOne ==
  ASSUME TypeOK, LockstepInv, NEW t \in Tasks,
         \A u \in Tasks \ {t} : task'[u] = task[u],
         task'[t].exp = task[t].exp,
         task'[t].state \in TaskStates \ {"absent"},
         \A e \in Experiments : e # task[t].exp => exps'[e] = exps[e],
         IsExp(t) => /\ exps'[task[t].exp].task = t
                     /\ exps'[task[t].exp].attempt = task'[t].attempt
                     /\ exps'[task[t].exp].status \in Matching(task'[t].state)
  PROVE  LockstepInv'
<1>1. ASSUME NEW u \in Tasks, (task[u].exp # NoExp)'
      PROVE  /\ exps'[task'[u].exp].task = u
             /\ exps'[task'[u].exp].attempt = task'[u].attempt
             /\ exps'[task'[u].exp].status \in Matching(task'[u].state)
  <2>1. CASE u = t
    BY <1>1, <2>1 DEF IsExp
  <2>2. CASE u # t
    <3>1. IsExp(u) /\ task'[u] = task[u]
      BY <1>1, <2>2 DEF IsExp
    <3>2. task[u].exp \in Experiments /\ task[u].exp # task[t].exp
      BY <2>2, <3>1, RowOfExperiment
    <3> QED
      BY <3>1, <3>2 DEF LockstepInv, Lockstep
  <2> QED
    BY <2>1, <2>2
<1>2. Lockstep'
  BY <1>1 DEF Lockstep, IsExp
<1>3. AbsentIsBlank'
  BY DEF LockstepInv, AbsentIsBlank
<1>4. ASSUME NEW e \in Experiments, exps'[e].status = "Planned"
      PROVE  exps'[e].attempt = 0
  <2>1. CASE e # task[t].exp
    BY <1>4, <2>1 DEF LockstepInv, PlannedIsFresh
  <2>2. CASE e = task[t].exp
    BY <1>4, <2>2, ConstantsAssumption, MatchingValues DEF IsExp
  <2> QED
    BY <2>1, <2>2
<1>5. PlannedIsFresh'
  BY <1>4 DEF PlannedIsFresh
<1> QED
  BY <1>2, <1>3, <1>5 DEF LockstepInv

\* A lease starts (or takes over) the row's own Experiment.
LEMMA LeaseLockstep ==
  ASSUME TypeOK, LockstepInv, NEW p \in Procs, NEW t \in Tasks,
         CanLease(t), Lease(p, t)
  PROVE  LockstepInv'
<1>1. task'[t] = [task[t] EXCEPT !.state = "running",
                                 !.attempt = task[t].attempt + 1,
                                 !.owner = p, !.lease = "live"]
  BY DEF Lease, TypeOK
<1>2. /\ task'[t].state = "running"
      /\ task'[t].attempt = task[t].attempt + 1
      /\ task'[t].exp = task[t].exp
  BY <1>1 DEF TypeOK, Rows
<1>3. \A u \in Tasks \ {t} : task'[u] = task[u]
  BY DEF Lease, TypeOK
<1>4. \A e \in Experiments : e # task[t].exp => exps'[e] = exps[e]
  BY DEF Lease, TypeOK
<1>5. ASSUME IsExp(t)
      PROVE  /\ exps'[task[t].exp].task = t
             /\ exps'[task[t].exp].attempt = task[t].attempt + 1
             /\ exps'[task[t].exp].status = "Running"
  <2>1. task[t].exp \in Experiments /\ exps[task[t].exp].task = t
    BY <1>5, RowOfExperiment DEF LockstepInv, Lockstep
  <2> QED
    BY <1>5, <2>1 DEF Lease, TypeOK, ExpRecords
<1>6. task'[t].state \in TaskStates \ {"absent"}
  BY <1>2 DEF TaskStates
<1> QED
  BY <1>2, <1>3, <1>4, <1>5, <1>6, LockstepOne, MatchingValues

\* A terminal write gives the row and its Experiment matching ends.
LEMMA ReleaseLockstep ==
  ASSUME TypeOK, LockstepInv, NEW t \in Tasks,
         NEW s \in {"succeeded", "failed", "cancelled"}, NEW x \in Matching(s),
         task' = Released(t, s), exps' = ExpBecomes(t, x)
  PROVE  LockstepInv'
<1>1. /\ task'[t].state = s
      /\ task'[t].attempt = task[t].attempt
      /\ task'[t].exp = task[t].exp
  BY DEF Released, TypeOK, Rows
<1>2. \A u \in Tasks \ {t} : task'[u] = task[u]
  BY DEF Released, TypeOK
<1>3. \A e \in Experiments : e # task[t].exp => exps'[e] = exps[e]
  BY DEF ExpBecomes, TypeOK
<1>4. ASSUME IsExp(t)
      PROVE  /\ exps'[task[t].exp].task = t
             /\ exps'[task[t].exp].attempt = task[t].attempt
             /\ exps'[task[t].exp].status = x
  <2>1. /\ task[t].exp \in Experiments
        /\ exps[task[t].exp].task = t
        /\ exps[task[t].exp].attempt = task[t].attempt
    BY <1>4, RowOfExperiment DEF LockstepInv, Lockstep
  <2> QED
    BY <1>4, <2>1 DEF ExpBecomes, TypeOK, ExpRecords
<1>5. task'[t].state \in TaskStates \ {"absent"}
  BY <1>1 DEF TaskStates
<1> QED
  BY <1>1, <1>2, <1>3, <1>4, <1>5, LockstepOne

\* A row whose Experiment stays as it is may move between states that call
\* for the same status.
LEMMA MoveLockstep ==
  ASSUME TypeOK, LockstepInv, NEW t \in Tasks,
         NEW s \in TaskStates \ {"absent"}, exps' = exps,
         \/ task' = [task EXCEPT ![t] = [@ EXCEPT !.state = s]]
         \/ task' = Released(t, s),
         IsExp(t) => Matching(task[t].state) \subseteq Matching(s)
  PROVE  LockstepInv'
<1>1. /\ task'[t].state = s
      /\ task'[t].attempt = task[t].attempt
      /\ task'[t].exp = task[t].exp
  BY ZenonT(40) DEF Released, TypeOK, Rows
<1>2. \A u \in Tasks \ {t} : task'[u] = task[u]
  BY DEF Released, TypeOK
<1>3. IsExp(t) => /\ exps[task[t].exp].task = t
                  /\ exps[task[t].exp].attempt = task[t].attempt
                  /\ exps[task[t].exp].status \in Matching(s)
  BY DEF LockstepInv, Lockstep
<1> QED
  BY <1>1, <1>2, <1>3, LockstepOne

\* A fenced write keeps the invariant, whether it commits or is fenced out.
LEMMA CommitLockstep ==
  ASSUME TypeOK, LockstepInv, NEW w \in Workers,
         NEW s \in {"succeeded", "failed", "cancelled"}, NEW x \in Matching(s),
         Commit(w, s, x)
  PROVE  LockstepInv'
<1>1. w.task \in Tasks
  BY DEF Workers
<1>2. CASE task' = Released(w.task, s) /\ exps' = ExpBecomes(w.task, x)
  BY <1>1, <1>2, ReleaseLockstep
<1>3. CASE UNCHANGED <<task, exps>>
  BY <1>3, LockstepSame
<1> QED
  BY <1>2, <1>3 DEF Commit

\* A recovery scan suspends the unsafe rows with their Experiments and keeps
\* the Experiments of the safe ones running.
LEMMA RecoverLockstep ==
  ASSUME TypeOK, LockstepInv, NEW p \in Procs, RecoverScan(p)
  PROVE  LockstepInv'
<1>1. CASE \E t \in Expired : Diverged(t)
  BY <1>1, LockstepSame DEF RecoverScan
<1>2. CASE ~\E t \in Expired : Diverged(t)
  <2>1. /\ task' = [t \in Tasks |->
                     IF t \in Expired THEN Recovered(t) ELSE task[t]]
        /\ exps' = [e \in Experiments |->
                     IF \E t \in Expired : task[t].exp = e /\ ~task[t].safe
                     THEN [exps[e] EXCEPT !.status = "Expired"]
                     ELSE exps[e]]
    BY <1>2 DEF RecoverScan
  <2>2. \A t \in Tasks :
          /\ task'[t].exp = task[t].exp
          /\ task'[t].attempt = task[t].attempt
          /\ t \notin Expired => task'[t] = task[t]
          /\ t \in Expired =>
               task'[t].state = IF task[t].safe THEN "recovering" ELSE "manual"
    BY <2>1 DEF Recovered, TypeOK, Rows
  <2>3. \A e \in Experiments :
          /\ exps'[e].task = exps[e].task
          /\ exps'[e].attempt = exps[e].attempt
          /\ exps'[e].status =
               IF \E t \in Expired : task[t].exp = e /\ ~task[t].safe
               THEN "Expired" ELSE exps[e].status
    BY <2>1 DEF TypeOK, ExpRecords
  <2>4. ASSUME NEW t \in Tasks, IsExp(t)
        PROVE  /\ exps'[task[t].exp].task = t
               /\ exps'[task[t].exp].attempt = task[t].attempt
               /\ exps'[task[t].exp].status \in Matching(task'[t].state)
    <3>1. /\ task[t].exp \in Experiments
          /\ \A u \in Tasks \ {t} : task[u].exp # task[t].exp
      BY <2>4, RowOfExperiment
    <3>2. /\ exps[task[t].exp].task = t
          /\ exps[task[t].exp].attempt = task[t].attempt
          /\ exps[task[t].exp].status \in Matching(task[t].state)
      BY <2>4 DEF LockstepInv, Lockstep
    <3>3. (\E u \in Expired : task[u].exp = task[t].exp /\ ~task[u].safe)
            <=> (t \in Expired /\ ~task[t].safe)
      BY <3>1 DEF Expired
    <3>4. t \in Expired => task[t].state \in {"running", "recovering"}
      BY DEF Expired
    <3> QED
      BY <2>2, <2>3, <3>1, <3>2, <3>3, <3>4, MatchingValues
  <2>5. Lockstep'
    BY <2>2, <2>4 DEF Lockstep, IsExp
  <2>6. AbsentIsBlank'
    BY <2>2 DEF LockstepInv, AbsentIsBlank
  <2>7. PlannedIsFresh'
    BY <2>3 DEF LockstepInv, PlannedIsFresh
  <2> QED
    BY <2>5, <2>6, <2>7 DEF LockstepInv
<1> QED
  BY <1>1, <1>2

\* Every action keeps the invariant.
LEMMA LockstepStep == TypeOK /\ LockstepInv /\ [Next]_vars => LockstepInv'
<1> SUFFICES ASSUME TypeOK, LockstepInv, [Next]_vars
             PROVE  LockstepInv'
  OBVIOUS
<1>1. ASSUME NEW p \in Procs, NEW t \in Tasks, NEW k \in {"sync", "background"},
             Enqueue(p, t, k)
      PROVE  LockstepInv'
  <2>1. task[t] = AbsentRow
    BY <1>1 DEF Enqueue, CanSpawn, LockstepInv, AbsentIsBlank
  <2>2. task'[t] = [AbsentRow EXCEPT !.state = "queued"]
    BY <1>1 DEF Enqueue, TypeOK
  <2>3. task'[t].state = "queued" /\ task'[t].exp = task[t].exp /\ ~IsExp(t)
    BY <2>1, <2>2 DEF AbsentRow, IsExp
  <2>4. \A u \in Tasks \ {t} : task'[u] = task[u]
    BY <1>1 DEF Enqueue, TypeOK
  <2>5. task'[t].state \in TaskStates \ {"absent"}
    BY <2>3 DEF TaskStates
  <2> QED
    BY <1>1, <2>3, <2>4, <2>5, LockstepOne DEF Enqueue
<1>2. ASSUME NEW p \in Procs, NEW t \in Tasks, NEW k \in {"sync", "background"},
             NEW e \in Experiments, NEW safe \in BOOLEAN,
             EnqueueExperiment(p, t, k, e, safe)
      PROVE  LockstepInv'
  <2>1. task'[t] = [AbsentRow EXCEPT !.state = "queued", !.safe = safe,
                                     !.exp = e]
    BY <1>2 DEF EnqueueExperiment, TypeOK
  <2>2. task'[t].state = "queued" /\ task'[t].exp = e /\ task'[t].attempt = 0
    BY <2>1 DEF AbsentRow
  <2>3. \A u \in Tasks \ {t} : task'[u] = task[u]
    BY <1>2 DEF EnqueueExperiment, TypeOK
  <2>4. /\ exps[e].status = "Planned"
        /\ exps[e].attempt = 0
    BY <1>2 DEF EnqueueExperiment, LockstepInv, PlannedIsFresh
  <2>5. /\ exps'[e].status = "Queued"
        /\ exps'[e].task = t
        /\ exps'[e].attempt = 0
        /\ \A f \in Experiments \ {e} : exps'[f] = exps[f]
    BY <1>2, <2>4 DEF EnqueueExperiment, TypeOK, ExpRecords
  <2>6. ASSUME NEW u \in Tasks \ {t}, IsExp(u)
        PROVE  task[u].exp \in Experiments \ {e}
    <3>1. task[u].exp \in Experiments /\ task[u].state \in TaskStates \ {"absent"}
      BY <2>6, RowOfExperiment
    <3>2. exps[task[u].exp].status # "Planned"
      BY <2>6, <3>1, MatchingValues DEF LockstepInv, Lockstep
    <3> QED
      BY <2>4, <3>1, <3>2
  <2>7. Lockstep'
    <3>1. ASSUME NEW u \in Tasks, task'[u].exp # NoExp
          PROVE  /\ exps'[task'[u].exp].task = u
                 /\ exps'[task'[u].exp].attempt = task'[u].attempt
                 /\ exps'[task'[u].exp].status \in Matching(task'[u].state)
      <4>1. CASE u = t
        BY <2>2, <2>5, <4>1, MatchingValues
      <4>2. CASE u # t
        BY <2>3, <2>5, <2>6, <3>1, <4>2 DEF LockstepInv, Lockstep, IsExp
      <4> QED
        BY <4>1, <4>2
    <3> QED
      BY <3>1 DEF Lockstep, IsExp
  <2>8. AbsentIsBlank'
    BY <2>2, <2>3 DEF LockstepInv, AbsentIsBlank
  <2>9. PlannedIsFresh'
    BY <2>5 DEF LockstepInv, PlannedIsFresh
  <2> QED
    BY <2>7, <2>8, <2>9 DEF LockstepInv
<1>3. ASSUME NEW s \in starting, StartLeased(s)
      PROVE  LockstepInv'
  <2>1. s.task \in Tasks /\ s.proc \in Procs
    BY DEF TypeOK, Starts
  <2> QED
    BY <1>3, <2>1, LeaseLockstep DEF StartLeased
<1>4. ASSUME NEW w \in workers, Heartbeat(w)
      PROVE  LockstepInv'
  <2>1. w.task \in Tasks
    BY DEF TypeOK, Workers
  <2>2. CASE Holds(w)
    BY <1>4, <2>1, <2>2, LockstepSame DEF Heartbeat, Holds, TypeOK, Rows
  <2>3. CASE ~Holds(w)
    BY <1>4, <2>3, LockstepSame DEF Heartbeat
  <2> QED
    BY <2>2, <2>3
<1>5. ASSUME NEW w \in workers, AttachSession(w)
      PROVE  LockstepInv'
  <2>1. w.task \in Tasks
    BY DEF TypeOK, Workers
  <2> QED
    BY <1>5, <2>1, LockstepSame DEF AttachSession, Holds, TypeOK, Rows
<1>6. ASSUME NEW w \in workers, WriteBack(w)
      PROVE  LockstepInv'
  <2>1. w \in Workers /\ w.task \in Tasks
    BY DEF TypeOK, Workers
  <2>2. /\ "Observed" \in Matching("succeeded")
        /\ "Failed" \in Matching("failed")
        /\ "Cancelled" \in Matching("cancelled")
        /\ Matching("running") \subseteq Matching("retrying")
        /\ "retrying" \in TaskStates \ {"absent"}
    BY MatchingValues DEF TaskStates
  <2>3. Commit(w, "succeeded", "Observed") => LockstepInv'
    BY <2>1, <2>2, CommitLockstep
  <2>4. Commit(w, "failed", "Failed") => LockstepInv'
    BY <2>1, <2>2, CommitLockstep
  <2>5. Commit(w, "cancelled", "Cancelled") => LockstepInv'
    BY <2>1, <2>2, CommitLockstep
  <2>6. ASSUME Holds(w), task' = Released(w.task, "retrying"), exps' = exps
        PROVE  LockstepInv'
    BY <2>1, <2>2, <2>6, MoveLockstep DEF Holds
  <2>7. ASSUME task' = task, exps' = exps
        PROVE  LockstepInv'
    BY <2>7, LockstepSame
  <2>8. CASE Complete(w)
    BY <2>3, <2>4, <2>5, <2>8 DEF Complete
  <2>9. CASE Fail(w)
    BY <2>4, <2>6, <2>7, <2>9 DEF Fail
  <2>10. CASE CancelAttempt(w)
    BY <2>5, <2>10 DEF CancelAttempt
  <2> QED
    BY <1>6, <2>8, <2>9, <2>10 DEF WriteBack
<1>7. ASSUME NEW p \in Procs, ReapApply(p)
      PROVE  LockstepInv'
  <2>1. \A t \in Tasks :
          task'[t] = IF /\ task[t].state \in {"running", "recovering"}
                        /\ <<t, task[t].owner>> \in pass[p].reap
                     THEN [task[t] EXCEPT !.lease = "expired"]
                     ELSE task[t]
    BY <1>7 DEF ReapApply
  <2>2. \A t \in Tasks : /\ task'[t].state = task[t].state
                         /\ task'[t].attempt = task[t].attempt
                         /\ task'[t].exp = task[t].exp
                         /\ task[t].state = "absent" => task'[t] = task[t]
    BY <2>1, ZenonT(40) DEF TypeOK, Rows
  <2> QED
    BY <1>7, <2>2, LockstepSame DEF ReapApply
<1>8. ASSUME NEW p \in Procs, RecoverScan(p)
      PROVE  LockstepInv'
  BY <1>8, RecoverLockstep
<1>9. ASSUME NEW p \in Procs, NEW t \in Tasks, ResolveRecovering(p, t)
      PROVE  LockstepInv'
  <2>1. CASE task[t].state = "recovering"
    <3>1. /\ Matching("recovering") \subseteq Matching("retrying")
          /\ "retrying" \in TaskStates \ {"absent"}
      BY MatchingValues DEF TaskStates
    <3> QED
      BY <1>9, <2>1, <3>1, MoveLockstep DEF ResolveRecovering
  <2>2. CASE task[t].state # "recovering"
    BY <1>9, <2>2, LockstepSame DEF ResolveRecovering
  <2> QED
    BY <2>1, <2>2
<1>10. ASSUME NEW p \in Procs, NEW t \in Tasks, SchedulerLease(p, t)
       PROVE  LockstepInv'
  <2>1. CASE CanLease(t)
    BY <1>10, <2>1, LeaseLockstep DEF SchedulerLease
  <2>2. CASE ~CanLease(t)
    BY <1>10, <2>2, LockstepSame DEF SchedulerLease
  <2> QED
    BY <2>1, <2>2
<1>11. ASSUME NEW t \in Tasks, OperatorCancel(t)
       PROVE  LockstepInv'
  <2>1. "Cancelled" \in Matching("cancelled")
    BY MatchingValues
  <2> QED
    BY <1>11, <2>1, ReleaseLockstep DEF OperatorCancel
<1>12. ASSUME NEW t \in Tasks, NEW s \in {"failed", "succeeded", "queued"},
              OperatorResolve(t, s)
       PROVE  LockstepInv'
  <2>1. /\ s \in TaskStates \ {"absent"}
        /\ IsExp(t) => Matching("manual") \subseteq Matching(s)
    BY <1>12, MatchingValues DEF TaskStates, OperatorResolve
  <2> QED
    BY <1>12, <2>1, MoveLockstep DEF OperatorResolve
<1>13. ASSUME NEW t \in Tasks, LeaseExpires(t)
       PROVE  LockstepInv'
  BY <1>13, LockstepSame DEF LeaseExpires, TypeOK, Rows
<1>14. ASSUME UNCHANGED <<task, exps>>
       PROVE  LockstepInv'
  BY <1>14, LockstepSame
<1>15. ASSUME NEW p \in Procs,
              \/ ReapScan(p) \/ BootDone(p) \/ ListLeasable(p) \/ PassError(p)
              \/ StartProcess(p) \/ Crash(p)
       PROVE  UNCHANGED <<task, exps>>
  BY <1>15 DEF ReapScan, BootDone, ListLeasable, PassError, StartProcess, Crash
<1>16. ASSUME NEW s \in starting, StartRefused(s)
       PROVE  UNCHANGED <<task, exps>>
  BY <1>16 DEF StartRefused
<1>17. ASSUME NEW w \in workers, WriteBackLost(w)
       PROVE  UNCHANGED <<task, exps>>
  BY <1>17 DEF WriteBackLost
<1>18. CASE UNCHANGED vars
  BY <1>14, <1>18 DEF vars
<1> QED
  BY <1>1, <1>2, <1>3, <1>4, <1>5, <1>6, <1>7, <1>8, <1>9, <1>10, <1>11, <1>12,
     <1>13, <1>14, <1>15, <1>16, <1>17, <1>18
     DEF Next, Spawn, Start, Work, Pass, Operator

\* A delegated task and its Experiment never diverge, whatever the numbers of
\* tasks, processes and crashes: the "fencing state diverged" errors of
\* task_store.rs are unreachable.
THEOREM LockstepHolds == Spec => []Lockstep
<1>1. Init => LockstepInv
  BY DEF Init, LockstepInv, Lockstep, AbsentIsBlank, PlannedIsFresh, IsExp,
         AbsentRow
<1>2. LockstepInv => Lockstep
  BY DEF LockstepInv
<1> QED
  BY <1>1, <1>2, TypeCorrect, LockstepStep, PTL DEF Spec

-----------------------------------------------------------------------------
(***************************************************************************)
(* The table implements FencedTasks.                                       *)
(***************************************************************************)
\* The abstract phase of each state of a row.
LEMMA PhaseValues ==
  /\ Phase("absent") = "none"
  /\ \A s \in {"queued", "retrying", "recovering", "manual"} : Phase(s) = "waiting"
  /\ Phase("running") = "held"
  /\ \A s \in Terminal : Phase(s) = "ended"
<1>1. Phase("absent") = "none" /\ Phase("running") = "held"
  BY DEF Phase, Terminal
<1>2. \A s \in {"queued", "retrying", "recovering", "manual"} : Phase(s) = "waiting"
  BY DEF Phase, Terminal
<1>3. \A s \in Terminal : Phase(s) = "ended"
  BY DEF Phase, Terminal
<1> QED
  BY <1>1, <1>2, <1>3

\* A step that changes no phase and no attempt stutters.
LEMMA FencedSame ==
  ASSUME \A t \in Tasks : /\ Phase(task'[t].state) = Phase(task[t].state)
                          /\ task'[t].attempt = task[t].attempt
  PROVE  UNCHANGED Fenced!fvars
BY DEF Fenced!fvars

\* What a step does to one row, it does to the row's phase and token.
LEMMA FencedOne ==
  ASSUME TypeOK, NEW t \in Tasks,
         \A u \in Tasks \ {t} : task'[u] = task[u],
         \/ /\ Phase(task[t].state) = "none"
            /\ Phase(task'[t].state) = "waiting"
            /\ task'[t].attempt = task[t].attempt
         \/ /\ Phase(task[t].state) = "waiting"
            /\ Phase(task'[t].state) = "held"
            /\ task'[t].attempt = task[t].attempt + 1
         \/ /\ Phase(task[t].state) = "held"
            /\ Phase(task'[t].state) = "waiting"
            /\ task'[t].attempt = task[t].attempt
         \/ /\ Phase(task[t].state) \in {"waiting", "held"}
            /\ Phase(task'[t].state) = "ended"
            /\ task'[t].attempt = task[t].attempt
  PROVE  Fenced!Next
<1> DEFINE ph == [u \in Tasks |-> Phase(task[u].state)]
           tk == [u \in Tasks |-> task[u].attempt]
<1>1. /\ ph' = [ph EXCEPT ![t] = Phase(task'[t].state)]
      /\ tk' = [tk EXCEPT ![t] = task'[t].attempt]
  OBVIOUS
<1>2. ph[t] = Phase(task[t].state) /\ tk[t] = task[t].attempt
  OBVIOUS
<1>3. ph' = [u \in Tasks |-> IF u \in {t} THEN Phase(task'[t].state) ELSE ph[u]]
  OBVIOUS
<1>4. task'[t].attempt = task[t].attempt => tk' = tk
  OBVIOUS
<1>5. CASE /\ ph[t] = "none"
           /\ Phase(task'[t].state) = "waiting"
           /\ task'[t].attempt = task[t].attempt
  <2>1. Fenced!Create(t)
    BY <1>1, <1>4, <1>5 DEF Fenced!Create
  <2> QED
    BY <2>1 DEF Fenced!Next
<1>6. CASE /\ ph[t] = "waiting"
           /\ Phase(task'[t].state) = "held"
           /\ task'[t].attempt = task[t].attempt + 1
  <2>1. Fenced!Grant(t)
    BY <1>1, <1>2, <1>6 DEF Fenced!Grant
  <2> QED
    BY <2>1 DEF Fenced!Next
<1>7. CASE /\ ph[t] = "held"
           /\ Phase(task'[t].state) = "waiting"
           /\ task'[t].attempt = task[t].attempt
  <2>1. Fenced!Withdraw({t})
    BY <1>3, <1>4, <1>7 DEF Fenced!Withdraw
  <2> QED
    BY <2>1 DEF Fenced!Next
<1>8. CASE /\ ph[t] \in {"waiting", "held"}
           /\ Phase(task'[t].state) = "ended"
           /\ task'[t].attempt = task[t].attempt
  <2>1. Fenced!End(t)
    BY <1>1, <1>4, <1>8 DEF Fenced!End
  <2> QED
    BY <2>1 DEF Fenced!Next
<1> QED
  BY <1>2, <1>5, <1>6, <1>7, <1>8

\* What a lease does to the table.
LEMMA LeaseRow ==
  ASSUME TypeOK, NEW p \in Procs, NEW t \in Tasks, Lease(p, t)
  PROVE  /\ task'[t].state = "running"
         /\ task'[t].attempt = task[t].attempt + 1
         /\ \A u \in Tasks \ {t} : task'[u] = task[u]
<1>1. task'[t] = [task[t] EXCEPT !.state = "running",
                                 !.attempt = task[t].attempt + 1,
                                 !.owner = p, !.lease = "live"]
  BY DEF Lease, TypeOK
<1>2. \A u \in Tasks \ {t} : task'[u] = task[u]
  BY DEF Lease, TypeOK
<1> QED
  BY <1>1, <1>2 DEF TypeOK, Rows

\* What a release, or a bare change of state, does to it.
LEMMA MoveRow ==
  ASSUME TypeOK, NEW t \in Tasks, NEW s,
         \/ task' = [task EXCEPT ![t] = [@ EXCEPT !.state = s]]
         \/ task' = Released(t, s)
  PROVE  /\ task'[t].state = s
         /\ task'[t].attempt = task[t].attempt
         /\ \A u \in Tasks \ {t} : task'[u] = task[u]
BY DEF Released, TypeOK, Rows

\* Steps that write at most the lease or the child session of rows.
LEMMA QuietRow ==
  ASSUME TypeOK
  PROVE  /\ \A w \in workers : Heartbeat(w) \/ AttachSession(w) \/ WriteBackLost(w) =>
               \A t \in Tasks : /\ task'[t].state = task[t].state
                                /\ task'[t].attempt = task[t].attempt
         /\ \A p \in Procs : ReapScan(p) \/ ReapApply(p) \/ BootDone(p) \/ ListLeasable(p)
                               \/ PassError(p) \/ StartProcess(p) \/ Crash(p) =>
               \A t \in Tasks : /\ task'[t].state = task[t].state
                                /\ task'[t].attempt = task[t].attempt
         /\ \A s \in starting : StartRefused(s) => task' = task
         /\ \A u \in Tasks : LeaseExpires(u) =>
               \A t \in Tasks : /\ task'[t].state = task[t].state
                                /\ task'[t].attempt = task[t].attempt
<1>1. ASSUME NEW w \in workers, Heartbeat(w) \/ AttachSession(w) \/ WriteBackLost(w),
             NEW t \in Tasks
      PROVE  task'[t].state = task[t].state /\ task'[t].attempt = task[t].attempt
  <2>1. w.task \in Tasks
    BY DEF TypeOK, Workers
  <2>2. CASE Heartbeat(w)
    BY <2>1, <2>2 DEF Heartbeat, TypeOK, Rows
  <2>3. CASE AttachSession(w)
    BY <2>1, <2>3 DEF AttachSession, TypeOK, Rows
  <2>4. CASE WriteBackLost(w)
    BY <2>4 DEF WriteBackLost
  <2> QED
    BY <1>1, <2>2, <2>3, <2>4
<1>2. ASSUME NEW p \in Procs, NEW t \in Tasks, ReapApply(p)
      PROVE  task'[t].state = task[t].state /\ task'[t].attempt = task[t].attempt
  BY <1>2 DEF ReapApply, TypeOK, Rows
<1>3. ASSUME NEW p \in Procs, ReapScan(p) \/ BootDone(p) \/ ListLeasable(p)
                               \/ PassError(p) \/ StartProcess(p) \/ Crash(p)
      PROVE  task' = task
  BY <1>3 DEF ReapScan, BootDone, ListLeasable, PassError, StartProcess, Crash
<1>4. ASSUME NEW u \in Tasks, LeaseExpires(u), NEW t \in Tasks
      PROVE  task'[t].state = task[t].state /\ task'[t].attempt = task[t].attempt
  BY <1>4 DEF LeaseExpires, TypeOK, Rows
<1>5. \A s \in starting : StartRefused(s) => task' = task
  BY DEF StartRefused
<1> QED
  BY <1>1, <1>2, <1>3, <1>4, <1>5

\* What a write-back does: nothing, or the holder moves its running row.
LEMMA WriteBackRow ==
  ASSUME TypeOK, NEW w \in workers, WriteBack(w)
  PROVE  \/ UNCHANGED <<task, exps>>
         \/ /\ Holds(w)
            /\ \E s \in Terminal, x \in ExpStatuses :
                 /\ task' = Released(w.task, s)
                 /\ IsExp(w.task) => ExpRuns(w.task, w.fence)
                 /\ exps' = ExpBecomes(w.task, x)
         \/ /\ Holds(w)
            /\ task' = Released(w.task, "retrying")
            /\ exps' = exps
<1> DEFINE Ends == /\ Holds(w)
                   /\ \E s \in Terminal, x \in ExpStatuses :
                        /\ task' = Released(w.task, s)
                        /\ IsExp(w.task) => ExpRuns(w.task, w.fence)
                        /\ exps' = ExpBecomes(w.task, x)
<1>1. ASSUME NEW s \in Terminal, NEW x \in ExpStatuses, Commit(w, s, x)
      PROVE  UNCHANGED <<task, exps>> \/ Ends
  BY <1>1 DEF Commit
<1>2. /\ "succeeded" \in Terminal /\ "failed" \in Terminal /\ "cancelled" \in Terminal
      /\ "Observed" \in ExpStatuses /\ "Failed" \in ExpStatuses
      /\ "Cancelled" \in ExpStatuses
  BY DEF Terminal, ExpStatuses
<1> HIDE DEF Ends
<1>3. CASE Complete(w)
  BY <1>1, <1>2, <1>3 DEF Complete, Ends
<1>4. CASE Fail(w)
  BY <1>1, <1>2, <1>4 DEF Fail, Ends
<1>5. CASE CancelAttempt(w)
  BY <1>1, <1>2, <1>5 DEF CancelAttempt, Ends
<1> QED
  BY <1>3, <1>4, <1>5 DEF WriteBack

\* Every action is a step of FencedTasks or a stutter.
LEMMA FencedStep ==
  TypeOK /\ LockstepInv /\ [Next]_vars => [Fenced!Next]_(Fenced!fvars)
<1> SUFFICES ASSUME TypeOK, LockstepInv, [Next]_vars
             PROVE  Fenced!Next \/ UNCHANGED Fenced!fvars
  OBVIOUS
<1> DEFINE Goal == Fenced!Next \/ UNCHANGED Fenced!fvars
<1> USE PhaseValues
<1>1. ASSUME NEW p \in Procs, NEW t \in Tasks, NEW k \in {"sync", "background"},
             \/ Enqueue(p, t, k)
             \/ \E e \in Experiments, safe \in BOOLEAN :
                  EnqueueExperiment(p, t, k, e, safe)
      PROVE  Goal
  <2>1. task[t] = AbsentRow /\ task[t].state = "absent"
    BY <1>1 DEF Enqueue, EnqueueExperiment, CanSpawn, LockstepInv, AbsentIsBlank
  <2>2. task'[t].state = "queued" /\ task'[t].attempt = 0
    BY <1>1 DEF Enqueue, EnqueueExperiment, TypeOK, AbsentRow
  <2>3. \A u \in Tasks \ {t} : task'[u] = task[u]
    BY <1>1 DEF Enqueue, EnqueueExperiment, TypeOK
  <2>4. task[t].attempt = 0
    BY <2>1 DEF AbsentRow
  <2> QED
    BY <2>1, <2>2, <2>3, <2>4, FencedOne
<1>2. ASSUME NEW p \in Procs, NEW t \in Tasks, CanLease(t), Lease(p, t)
      PROVE  Goal
  <2>1. task[t].state \in {"queued", "retrying"}
    BY <1>2 DEF CanLease
  <2> QED
    BY <1>2, <2>1, LeaseRow, FencedOne
<1>3. ASSUME NEW w \in workers, WriteBack(w)
      PROVE  Goal
  <2>1. w.task \in Tasks
    BY DEF TypeOK, Workers
  <2>2. CASE UNCHANGED <<task, exps>>
    BY <2>2, FencedSame
  <2>3. ASSUME Holds(w), NEW s \in Terminal, task' = Released(w.task, s)
        PROVE  Goal
    BY <2>1, <2>3, MoveRow, FencedOne, ZenonT(40) DEF Holds
  <2>4. CASE Holds(w) /\ task' = Released(w.task, "retrying")
    BY <2>1, <2>4, MoveRow, FencedOne, ZenonT(40) DEF Holds
  <2> QED
    BY <1>3, <2>2, <2>3, <2>4, WriteBackRow
<1>4. ASSUME NEW p \in Procs, RecoverScan(p)
      PROVE  Goal
  <2>1. CASE task' = task
    BY <2>1, FencedSame
  <2>2. CASE task' = [t \in Tasks |->
                        IF t \in Expired THEN Recovered(t) ELSE task[t]]
    <3> DEFINE S == {t \in Expired : task[t].state = "running"}
               ph == [u \in Tasks |-> Phase(task[u].state)]
               tk == [u \in Tasks |-> task[u].attempt]
    <3>1. \A t \in Expired : /\ t \in Tasks
                             /\ task[t].state \in {"running", "recovering"}
      BY DEF Expired
    <3>2. \A t \in Tasks :
            /\ task'[t].attempt = task[t].attempt
            /\ t \notin Expired => task'[t] = task[t]
            /\ t \in Expired => task'[t].state \in {"recovering", "manual"}
      BY <2>2 DEF Recovered, TypeOK, Rows
    <3>3. \A t \in Tasks : Phase(task'[t].state) =
                             IF t \in S THEN "waiting" ELSE Phase(task[t].state)
      BY <3>1, <3>2
    <3>4. ph' = [t \in Tasks |-> IF t \in S THEN "waiting" ELSE ph[t]]
      BY <3>3
    <3>5. tk' = tk
      BY <3>2
    <3>6. \A t \in S : ph[t] = "held"
      BY <3>1
    <3>7. Fenced!Withdraw(S)
      BY <3>4, <3>5, <3>6 DEF Fenced!Withdraw
    <3>8. S \in SUBSET Tasks
      BY <3>1
    <3> QED
      BY <3>7, <3>8 DEF Fenced!Next
  <2> QED
    BY <1>4, <2>1, <2>2 DEF RecoverScan
<1>5. ASSUME NEW p \in Procs, NEW t \in Tasks, ResolveRecovering(p, t)
      PROVE  Goal
  <2>1. CASE task' = task
    BY <2>1, FencedSame
  <2>2. CASE /\ task[t].state = "recovering"
             /\ task' = [task EXCEPT ![t] = [@ EXCEPT !.state = "retrying"]]
    BY <2>2, MoveRow, FencedSame
  <2> QED
    BY <1>5, <2>1, <2>2 DEF ResolveRecovering
<1>6. ASSUME NEW t \in Tasks, OperatorCancel(t)
      PROVE  Goal
  <2>1. task' = Released(t, "cancelled") /\ "cancelled" \in Terminal
    BY <1>6 DEF OperatorCancel, Terminal
  <2>2. Phase(task[t].state) \in {"waiting", "held"}
    BY <1>6 DEF OperatorCancel
  <2> QED
    BY <2>1, <2>2, MoveRow, FencedOne
<1>7. ASSUME NEW t \in Tasks, NEW s \in {"failed", "succeeded", "queued"},
             OperatorResolve(t, s)
      PROVE  Goal
  <2>1. /\ task'[t].state = s
        /\ task'[t].attempt = task[t].attempt
        /\ \A u \in Tasks \ {t} : task'[u] = task[u]
        /\ task[t].state = "manual"
    BY <1>7, MoveRow DEF OperatorResolve
  <2>2. CASE s = "queued"
    BY <2>1, <2>2, FencedSame
  <2>3. CASE s \in Terminal
    BY <2>1, <2>3, FencedOne
  <2> QED
    BY <2>2, <2>3 DEF Terminal
<1>8. ASSUME \A t \in Tasks : /\ task'[t].state = task[t].state
                              /\ task'[t].attempt = task[t].attempt
      PROVE  Goal
  BY <1>8, FencedSame
<1>9. ASSUME NEW s \in starting, StartLeased(s)
      PROVE  Goal
  <2>1. s.task \in Tasks /\ s.proc \in Procs
    BY DEF TypeOK, Starts
  <2> QED
    BY <1>2, <1>9, <2>1 DEF StartLeased
<1>10. ASSUME NEW p \in Procs, NEW t \in Tasks, SchedulerLease(p, t)
       PROVE  Goal
  BY <1>2, <1>8, <1>10 DEF SchedulerLease
<1>11. ASSUME UNCHANGED vars
       PROVE  Goal
  BY <1>8, <1>11 DEF vars
<1> HIDE DEF Goal
<1>12. ASSUME Spawn PROVE Goal
  BY <1>1, <1>12 DEF Spawn
<1>13. ASSUME Start PROVE Goal
  BY <1>8, <1>9, <1>13, QuietRow DEF Start
<1>14. ASSUME Work PROVE Goal
  BY <1>3, <1>8, <1>14, QuietRow DEF Work
<1>15. ASSUME Operator PROVE Goal
  BY <1>6, <1>7, <1>15 DEF Operator
<1>16. ASSUME NEW p \in Procs, Pass(p)
       PROVE  Goal
  BY <1>4, <1>5, <1>8, <1>10, <1>16, QuietRow DEF Pass
<1>17. ASSUME NEW p \in Procs, StartProcess(p) \/ Crash(p)
       PROVE  Goal
  BY <1>8, <1>17, QuietRow
<1>18. ASSUME NEW t \in Tasks, LeaseExpires(t)
       PROVE  Goal
  BY <1>8, <1>18, QuietRow
<1>19. Goal
  BY <1>11, <1>12, <1>13, <1>14, <1>15, <1>16, <1>17, <1>18 DEF Next
<1> QED
  BY <1>19 DEF Goal

\* The tasks table implements its abstract specification: one token at a time,
\* granted in order and never again, and an ended task stays ended.
THEOREM TableImplementsFencedTasks == Spec => ImplementsFencedTasks
<1>1. Init => Fenced!Init
  <2> SUFFICES ASSUME Init
               PROVE  Fenced!Init
    OBVIOUS
  <2>1. \A t \in Tasks : task[t].state = "absent" /\ task[t].attempt = 0
    BY DEF Init, AbsentRow
  <2> QED
    BY <2>1, PhaseValues DEF Fenced!Init
<1>2. Init => LockstepInv
  BY DEF Init, LockstepInv, Lockstep, AbsentIsBlank, PlannedIsFresh, IsExp,
         AbsentRow
<1> QED
  BY <1>1, <1>2, TypeCorrect, LockstepStep, FencedStep, PTL
     DEF Spec, ImplementsFencedTasks, Fenced!Spec

-----------------------------------------------------------------------------
(***************************************************************************)
(* Terminal records are final.                                             *)
(***************************************************************************)
\* A step that may write only row t, which is not terminal, and only an
\* Experiment that is not terminal either, keeps what has ended.
LEMMA KeptByOne ==
  ASSUME TypeOK, NEW t \in Tasks, task[t].state \notin Terminal,
         \A u \in Tasks \ {t} : task'[u] = task[u],
         \A e \in Experiments :
           \/ exps'[e] = exps[e]
           \/ exps[e].status \in {"Planned", "Queued", "Running"}
  PROVE  TerminalKept
BY DEF TerminalKept

\* Every action keeps the rows and the Experiments that have ended.
LEMMA FinalStep == TypeOK /\ [Next]_vars => [TerminalKept]_vars
<1> SUFFICES ASSUME TypeOK, Next
             PROVE  TerminalKept
  OBVIOUS
<1> USE DEF Terminal
<1>1. ASSUME task' = task, exps' = exps
      PROVE  TerminalKept
  BY <1>1 DEF TerminalKept
<1>2. ASSUME NEW p \in Procs, NEW t \in Tasks, NEW k \in {"sync", "background"},
             Enqueue(p, t, k)
      PROVE  TerminalKept
  BY <1>2, KeptByOne DEF Enqueue, CanSpawn, TypeOK
<1>3. ASSUME NEW p \in Procs, NEW t \in Tasks, NEW k \in {"sync", "background"},
             NEW e \in Experiments, NEW safe \in BOOLEAN,
             EnqueueExperiment(p, t, k, e, safe)
      PROVE  TerminalKept
  BY <1>3, KeptByOne DEF EnqueueExperiment, CanSpawn, TypeOK
<1>4. ASSUME NEW p \in Procs, NEW t \in Tasks, CanLease(t), Lease(p, t)
      PROVE  TerminalKept
  <2>1. \A e \in Experiments : \/ exps'[e] = exps[e]
                               \/ exps[e].status \in {"Planned", "Queued", "Running"}
    BY <1>4 DEF CanLease, ExpRefuses, Lease, TypeOK
  <2> QED
    BY <1>4, <2>1, LeaseRow, KeptByOne DEF CanLease
<1>5. ASSUME NEW w \in workers, WriteBack(w)
      PROVE  TerminalKept
  <2>1. w.task \in Tasks
    BY DEF TypeOK, Workers
  <2>2. ASSUME Holds(w), NEW s \in Terminal, NEW x \in ExpStatuses,
               task' = Released(w.task, s),
               IsExp(w.task) => ExpRuns(w.task, w.fence),
               exps' = ExpBecomes(w.task, x)
        PROVE  TerminalKept
    <3>1. \A e \in Experiments : \/ exps'[e] = exps[e]
                                 \/ exps[e].status = "Running"
      BY <2>2 DEF ExpRuns, ExpBecomes, TypeOK
    <3> QED
      BY <2>1, <2>2, <3>1, MoveRow, KeptByOne DEF Holds
  <2>3. ASSUME Holds(w), task' = Released(w.task, "retrying"), exps' = exps
        PROVE  TerminalKept
    BY <2>1, <2>3, MoveRow, KeptByOne DEF Holds
  <2> QED
    BY <1>1, <1>5, <2>2, <2>3, WriteBackRow
<1>6. ASSUME NEW w \in workers, Heartbeat(w) \/ AttachSession(w)
      PROVE  TerminalKept
  <2>1. w.task \in Tasks
    BY DEF TypeOK, Workers
  <2>2. CASE Heartbeat(w) /\ ~Holds(w)
    BY <1>1, <2>2 DEF Heartbeat
  <2>3. CASE (Heartbeat(w) \/ AttachSession(w)) /\ Holds(w)
    BY <2>1, <2>3, KeptByOne DEF Heartbeat, AttachSession, Holds, TypeOK
  <2>4. AttachSession(w) => Holds(w)
    BY DEF AttachSession
  <2> QED
    BY <1>6, <2>2, <2>3, <2>4
<1>7. ASSUME NEW p \in Procs, ReapApply(p)
      PROVE  TerminalKept
  BY <1>7 DEF ReapApply, TerminalKept
<1>8. ASSUME NEW p \in Procs, RecoverScan(p)
      PROVE  TerminalKept
  <2>1. CASE task' = task /\ exps' = exps
    BY <1>1, <2>1
  <2>2. CASE /\ ~\E t \in Expired : Diverged(t)
             /\ task' = [t \in Tasks |->
                           IF t \in Expired THEN Recovered(t) ELSE task[t]]
             /\ exps' = [e \in Experiments |->
                           IF \E t \in Expired : task[t].exp = e /\ ~task[t].safe
                           THEN [exps[e] EXCEPT !.status = "Expired"]
                           ELSE exps[e]]
    <3>1. \A t \in Tasks : task[t].state \in Terminal => task'[t] = task[t]
      BY <2>2 DEF Expired
    <3>2. ASSUME NEW e \in Experiments, NEW t \in Expired,
                 task[t].exp = e, ~task[t].safe
          PROVE  exps[e].status = "Running"
      BY <2>2, <3>2, ConstantsAssumption DEF Diverged, ExpRuns, IsExp
    <3>3. \A e \in Experiments : exps'[e] = exps[e] \/ exps[e].status = "Running"
      BY <2>2, <3>2
    <3> QED
      BY <3>1, <3>3 DEF TerminalKept
  <2> QED
    BY <1>8, <2>1, <2>2 DEF RecoverScan
<1>9. ASSUME NEW p \in Procs, NEW t \in Tasks, ResolveRecovering(p, t)
      PROVE  TerminalKept
  BY <1>9, KeptByOne DEF ResolveRecovering, TypeOK, TerminalKept
<1>10. ASSUME NEW t \in Tasks, OperatorCancel(t)
       PROVE  TerminalKept
  <2>1. \A e \in Experiments : \/ exps'[e] = exps[e]
                               \/ exps[e].status \in {"Planned", "Queued", "Running"}
    BY <1>10 DEF OperatorCancel, ExpRefuses, ExpBecomes, TypeOK
  <2>2. task' = Released(t, "cancelled")
    BY <1>10 DEF OperatorCancel
  <2> QED
    BY <1>10, <2>1, <2>2, MoveRow, KeptByOne DEF OperatorCancel
<1>11. ASSUME NEW t \in Tasks, NEW s \in {"failed", "succeeded", "queued"},
              OperatorResolve(t, s)
       PROVE  TerminalKept
  BY <1>11, KeptByOne DEF OperatorResolve, TypeOK
<1>12. ASSUME NEW t \in Tasks, LeaseExpires(t)
       PROVE  TerminalKept
  BY <1>12, KeptByOne DEF LeaseExpires, TypeOK
<1>13. ASSUME NEW s \in starting, StartLeased(s) \/ StartRefused(s)
       PROVE  TerminalKept
  <2>1. s.task \in Tasks /\ s.proc \in Procs
    BY DEF TypeOK, Starts
  <2> QED
    BY <1>1, <1>4, <1>13, <2>1 DEF StartLeased, StartRefused
<1>14. ASSUME NEW p \in Procs, NEW t \in Tasks, SchedulerLease(p, t)
       PROVE  TerminalKept
  BY <1>1, <1>4, <1>14 DEF SchedulerLease
<1>15. ASSUME NEW w \in workers, WriteBackLost(w)
       PROVE  TerminalKept
  BY <1>1, <1>15 DEF WriteBackLost
<1>16. ASSUME NEW p \in Procs,
              \/ ReapScan(p) \/ BootDone(p) \/ ListLeasable(p) \/ PassError(p)
              \/ StartProcess(p) \/ Crash(p)
       PROVE  TerminalKept
  BY <1>1, <1>16
     DEF ReapScan, BootDone, ListLeasable, PassError, StartProcess, Crash
<1> QED
  BY <1>2, <1>3, <1>5, <1>6, <1>7, <1>8, <1>9, <1>10, <1>11, <1>12, <1>13, <1>14,
     <1>15, <1>16 DEF Next, Spawn, Start, Work, Pass, Operator

\* A task that has ended, and an Experiment that has ended, never change again:
\* no late completion, cancellation, recovery or scheduler pass revives one.
THEOREM EndedStaysEnded == Spec => TerminalIsFinal
BY TypeCorrect, FinalStep, PTL DEF Spec, TerminalIsFinal

-----------------------------------------------------------------------------
(***************************************************************************)
(* Tokens are unique, and only their holder commits.                       *)
(***************************************************************************)
\* The attempt of a row never decreases: FencedTasks grants in order.
LEMMA AttemptsGrow ==
  ASSUME TypeOK, LockstepInv, [Next]_vars, NEW t \in Tasks
  PROVE  task'[t].attempt >= task[t].attempt
<1> DEFINE tk == [u \in Tasks |-> task[u].attempt]
<1>1. task[t].attempt \in Nat
  BY DEF TypeOK, Rows
<1>2. tk[t] = task[t].attempt /\ tk'[t] = task'[t].attempt
  OBVIOUS
<1>3. CASE UNCHANGED Fenced!fvars
  <2>1. tk' = tk
    BY <1>3 DEF Fenced!fvars
  <2> QED
    BY <1>1, <1>2, <2>1
<1>4. ASSUME NEW u \in Tasks, Fenced!Create(u) \/ Fenced!Grant(u) \/ Fenced!End(u)
      PROVE  tk' = tk \/ tk' = [tk EXCEPT ![u] = tk[u] + 1]
  BY <1>4 DEF Fenced!Create, Fenced!Grant, Fenced!End
<1>5. ASSUME NEW S \in SUBSET Tasks, Fenced!Withdraw(S)
      PROVE  tk' = tk
  BY <1>5 DEF Fenced!Withdraw
<1>6. CASE Fenced!Next
  <2>1. tk' = tk \/ \E u \in Tasks : tk' = [tk EXCEPT ![u] = tk[u] + 1]
    BY <1>4, <1>5, <1>6 DEF Fenced!Next
  <2>2. tk'[t] = tk[t] \/ tk'[t] = tk[t] + 1
    BY <2>1
  <2> QED
    BY <1>1, <1>2, <2>2
<1> QED
  BY <1>3, <1>6, FencedStep

\* How a step may change the set of executions.
LEMMA WorkersStep ==
  ASSUME TypeOK, [Next]_vars
  PROVE  \/ workers' \subseteq workers
         \/ \E t \in Tasks, p \in Procs, k \in WorkerKinds :
              /\ Lease(p, t)
              /\ workers' = workers \cup {NewWorker(p, t, k)}
         \/ \E t \in Tasks, p \in Procs :
              workers' = workers \cup {[task |-> t, proc |-> p, fence |-> 0,
                                       kind |-> "sync"]}
<1> DEFINE Goal ==
      \/ workers' \subseteq workers
      \/ \E t \in Tasks, p \in Procs, k \in WorkerKinds :
           /\ Lease(p, t)
           /\ workers' = workers \cup {NewWorker(p, t, k)}
      \/ \E t \in Tasks, p \in Procs :
           workers' = workers \cup {[task |-> t, proc |-> p, fence |-> 0,
                                    kind |-> "sync"]}
<1>1. ASSUME NEW s \in starting, StartLeased(s)
      PROVE  Goal
  <2>1. s.task \in Tasks /\ s.proc \in Procs /\ s.kind \in WorkerKinds
    BY DEF TypeOK, Starts, WorkerKinds
  <2> QED
    BY <1>1, <2>1 DEF StartLeased
<1>2. ASSUME NEW s \in starting, StartRefused(s)
      PROVE  Goal
  <2>1. s.task \in Tasks /\ s.proc \in Procs
    BY DEF TypeOK, Starts
  <2> QED
    BY <1>2, <2>1 DEF StartRefused
<1>3. ASSUME NEW p \in Procs, NEW t \in Tasks, SchedulerLease(p, t)
      PROVE  Goal
  BY <1>3 DEF SchedulerLease, WorkerKinds
<1>4. ASSUME workers' \subseteq workers
      PROVE  Goal
  BY <1>4
<1>5. Spawn => workers' = workers
  BY DEF Spawn, Enqueue, EnqueueExperiment
<1>6. Work => workers' \subseteq workers
  BY DEF Work, Heartbeat, AttachSession, WriteBack, WriteBackLost
<1>7. Operator => workers' = workers
  BY DEF Operator, OperatorCancel, OperatorResolve
<1>8. ASSUME NEW p \in Procs,
             \/ ReapScan(p) \/ ReapApply(p) \/ RecoverScan(p) \/ BootDone(p)
             \/ ListLeasable(p) \/ PassError(p) \/ StartProcess(p) \/ Crash(p)
             \/ \E t \in Tasks : ResolveRecovering(p, t)
      PROVE  workers' \subseteq workers
  BY <1>8 DEF ReapScan, ReapApply, RecoverScan, BootDone, ListLeasable,
              PassError, StartProcess, Crash, ResolveRecovering
<1>9. ASSUME NEW t \in Tasks, LeaseExpires(t)
      PROVE  workers' = workers
  BY <1>9 DEF LeaseExpires
<1>10. UNCHANGED vars => workers' = workers
  BY DEF vars
<1> HIDE DEF Goal
<1>11. ASSUME NEW p \in Procs, Pass(p) \/ StartProcess(p) \/ Crash(p)
       PROVE  Goal
  BY <1>3, <1>4, <1>8, <1>11 DEF Pass
<1>12. Start => Goal
  BY <1>1, <1>2 DEF Start
<1>13. Goal
  BY <1>4, <1>5, <1>6, <1>7, <1>9, <1>10, <1>11, <1>12 DEF Next
<1> QED
  BY <1>13 DEF Goal

\* Every action keeps the tokens unique.
LEMMA FencesStep ==
  TypeOK /\ LockstepInv /\ FencesUnique /\ [Next]_vars => FencesUnique'
<1> SUFFICES ASSUME TypeOK, LockstepInv, FencesUnique, [Next]_vars
             PROVE  FencesUnique'
  OBVIOUS
<1>1. \A w \in workers : /\ w.task \in Tasks
                         /\ w.fence \in Nat
                         /\ task[w.task].attempt \in Nat
                         /\ w.fence <= task[w.task].attempt
  BY DEF TypeOK, Workers, Rows, FencesUnique
<1>2. \A w \in workers : task'[w.task].attempt >= task[w.task].attempt
  BY <1>1, AttemptsGrow
<1>3. \A t \in Tasks : task'[t].attempt \in Nat
  BY TypeStep DEF TypeOK, Rows
<1>4. \A w \in workers : w.fence <= task'[w.task].attempt
  BY <1>1, <1>2, <1>3
<1>5. CASE workers' \subseteq workers
  BY <1>4, <1>5 DEF FencesUnique
<1>6. ASSUME NEW t \in Tasks, NEW p \in Procs, NEW k \in WorkerKinds,
             Lease(p, t), workers' = workers \cup {NewWorker(p, t, k)}
      PROVE  FencesUnique'
  <2> DEFINE n == NewWorker(p, t, k)
  <2>1. n.task = t /\ n.fence = task[t].attempt + 1
    BY DEF NewWorker
  <2>2. task'[t].attempt = task[t].attempt + 1
    BY <1>6, LeaseRow
  <2>3. \A w \in workers : w.task = t => w.fence # n.fence
    BY <1>1, <2>1
  <2>4. n.fence <= task'[n.task].attempt
    BY <1>3, <2>1, <2>2
  <2> HIDE DEF n
  <2>5. \A w \in workers' : w.fence <= task'[w.task].attempt
    BY <1>4, <1>6, <2>4 DEF n
  <2>6. \A w, v \in workers' :
          (w.task = v.task /\ w.fence = v.fence /\ w.fence # 0) => w = v
    <3>1. \A w, v \in workers :
            (w.task = v.task /\ w.fence = v.fence /\ w.fence # 0) => w = v
      BY DEF FencesUnique
    <3>2. \A w \in workers' : w \in workers \/ w = n
      BY <1>6 DEF n
    <3> QED
      BY <2>1, <2>3, <3>1, <3>2
  <2> QED
    BY <2>5, <2>6 DEF FencesUnique
<1>7. ASSUME NEW t \in Tasks, NEW p \in Procs,
             workers' = workers \cup {[task |-> t, proc |-> p, fence |-> 0,
                                      kind |-> "sync"]}
      PROVE  FencesUnique'
  <2> DEFINE n == [task |-> t, proc |-> p, fence |-> 0, kind |-> "sync"]
  <2>1. n.task = t /\ n.fence = 0
    OBVIOUS
  <2>2. \A w \in workers' : w \in workers \/ w = n
    BY <1>7
  <2>3. 0 <= task'[t].attempt
    BY <1>3
  <2> HIDE DEF n
  <2>4. \A w \in workers' : w.fence <= task'[w.task].attempt
    BY <1>4, <2>1, <2>2, <2>3
  <2>5. \A w, v \in workers' :
          (w.task = v.task /\ w.fence = v.fence /\ w.fence # 0) => w = v
    <3>1. \A w, v \in workers :
            (w.task = v.task /\ w.fence = v.fence /\ w.fence # 0) => w = v
      BY DEF FencesUnique
    <3> QED
      BY <2>1, <2>2, <3>1
  <2> QED
    BY <2>4, <2>5 DEF FencesUnique
<1> QED
  BY <1>5, <1>6, <1>7, WorkersStep

\* No two executions of a task ever hold the same fencing token, so at most one
\* of them can write: the WHERE clauses on owner and attempt are enough.
THEOREM TokensAreUnique == Spec => []FencesUnique
<1>1. Init => FencesUnique
  BY DEF Init, FencesUnique
<1>2. Init => LockstepInv
  BY DEF Init, LockstepInv, Lockstep, AbsentIsBlank, PlannedIsFresh, IsExp,
         AbsentRow
<1> QED
  BY <1>1, <1>2, TypeCorrect, LockstepStep, FencesStep, PTL DEF Spec

\* In every action, a running row ends or is retried only by its holder.
LEMMA OwnerStep == TypeOK /\ [Next]_vars => [OwnerCommits]_vars
<1> SUFFICES ASSUME TypeOK, Next, NEW t \in Tasks, task[t].state = "running",
                    task'[t].state \in {"succeeded", "failed", "retrying"}
             PROVE  \E w \in workers \ workers' : /\ w.task = t
                                                  /\ w.proc = task[t].owner
                                                  /\ w.fence = task[t].attempt
  BY DEF OwnerCommits
<1> DEFINE Goal == \E w \in workers \ workers' : /\ w.task = t
                                                 /\ w.proc = task[t].owner
                                                 /\ w.fence = task[t].attempt
<1>1. ASSUME task'[t].state = task[t].state
      PROVE  FALSE
  BY <1>1
<1>2. ASSUME NEW w \in workers, WriteBack(w)
      PROVE  Goal
  <2>1. w.task \in Tasks /\ w \notin workers'
    BY <1>2 DEF TypeOK, Workers, WriteBack
  <2>2. Holds(w) /\ \E s : task' = Released(w.task, s)
    BY <1>1, <1>2, WriteBackRow
  <2>3. w.task = t
    BY <1>1, <2>1, <2>2, MoveRow
  <2> QED
    BY <2>1, <2>2, <2>3 DEF Holds
<1>3. ASSUME NEW p \in Procs, NEW u \in Tasks, CanLease(u), Lease(p, u)
      PROVE  FALSE
  BY <1>1, <1>3, LeaseRow
<1>4. ASSUME NEW p \in Procs, RecoverScan(p)
      PROVE  FALSE
  <2>1. CASE task' = task
    BY <1>1, <2>1
  <2>2. CASE task' = [u \in Tasks |->
                        IF u \in Expired THEN Recovered(u) ELSE task[u]]
    <3>1. task'[t].state \in {"running", "recovering", "manual"}
      BY <2>2 DEF Recovered, TypeOK, Rows
    <3> QED
      BY <3>1
  <2> QED
    BY <1>4, <2>1, <2>2 DEF RecoverScan
<1>5. ASSUME NEW u \in Tasks, OperatorCancel(u)
      PROVE  FALSE
  <2>1. task' = Released(u, "cancelled")
    BY <1>5 DEF OperatorCancel
  <2> QED
    BY <1>1, <2>1, MoveRow
<1>6. ASSUME NEW u \in Tasks, NEW s \in {"failed", "succeeded", "queued"},
             OperatorResolve(u, s)
      PROVE  FALSE
  <2>1. u # t
    BY <1>6 DEF OperatorResolve
  <2> QED
    BY <1>1, <1>6, <2>1 DEF OperatorResolve, TypeOK
<1>7. ASSUME NEW p \in Procs, NEW u \in Tasks, ResolveRecovering(p, u)
      PROVE  FALSE
  BY <1>1, <1>7 DEF ResolveRecovering, TypeOK
<1>8. ASSUME Spawn
      PROVE  FALSE
  <2>1. ASSUME NEW u \in Tasks, NEW r, task[u].state = "absent",
               task' = [task EXCEPT ![u] = r]
        PROVE  FALSE
    BY <1>1, <2>1 DEF TypeOK
  <2>2. ASSUME NEW p, NEW u \in Tasks, NEW k, Enqueue(p, u, k)
        PROVE  FALSE
    BY <2>1, <2>2 DEF Enqueue, CanSpawn
  <2>3. ASSUME NEW p, NEW u \in Tasks, NEW k, NEW e, NEW safe,
               EnqueueExperiment(p, u, k, e, safe)
        PROVE  FALSE
    BY <2>1, <2>3 DEF EnqueueExperiment, CanSpawn
  <2> QED
    BY <1>8, <2>2, <2>3 DEF Spawn
<1>9. ASSUME NEW s \in starting, StartLeased(s)
      PROVE  FALSE
  <2>1. s.task \in Tasks /\ s.proc \in Procs
    BY DEF TypeOK, Starts
  <2> QED
    BY <1>3, <1>9, <2>1 DEF StartLeased
<1>10. ASSUME NEW p \in Procs, NEW u \in Tasks, SchedulerLease(p, u)
       PROVE  FALSE
  BY <1>1, <1>3, <1>10 DEF SchedulerLease
<1> HIDE DEF Goal
<1>11. Start => FALSE
  BY <1>1, <1>9, QuietRow DEF Start
<1>12. Work => Goal
  BY <1>1, <1>2, QuietRow DEF Work
<1>13. Operator => FALSE
  BY <1>5, <1>6 DEF Operator
<1>14. ASSUME NEW p \in Procs, Pass(p) \/ StartProcess(p) \/ Crash(p)
       PROVE  FALSE
  BY <1>1, <1>4, <1>7, <1>10, <1>14, QuietRow DEF Pass
<1>15. ASSUME NEW u \in Tasks, LeaseExpires(u)
       PROVE  FALSE
  BY <1>1, <1>15, QuietRow
<1>16. Goal
  BY <1>8, <1>11, <1>12, <1>13, <1>14, <1>15 DEF Next
<1> QED
  BY <1>16 DEF Goal

\* A running task is moved to succeeded, failed or retrying by the worker that
\* holds its current attempt and by nobody else: every stale write is refused.
THEOREM OnlyHolderCommits == Spec => OnlyOwnerCommits
BY TypeCorrect, OwnerStep, PTL DEF Spec, OnlyOwnerCommits
-----------------------------------------------------------------------------
(***************************************************************************)
(* A reaper cuts short the leases of the dead only.                        *)
(***************************************************************************)
\* What a reaper remembers between its scan and its write stays true: a
\* process incarnation that has died never comes back.
ScannedAreDead ==
  \A p \in Procs : \A x \in pass[p].reap : alive[x[2]] = "dead"

\* How a step may change the passes.
LEMMA ScanStep ==
  TypeOK /\ ScannedAreDead /\ [Next]_vars => ScannedAreDead'
<1> SUFFICES ASSUME TypeOK, ScannedAreDead, [Next]_vars
             PROVE  ScannedAreDead'
  OBVIOUS
<1>1. \A q \in Procs : \A x \in pass[q].reap : x[2] \in Procs
  BY DEF TypeOK, Passes
<1>2. ASSUME UNCHANGED <<pass, alive>>
      PROVE  ScannedAreDead'
  BY <1>2 DEF ScannedAreDead
<1>3. ASSUME NEW p \in Procs, alive' = alive, NEW r,
             pass' = [pass EXCEPT ![p] = r],
             r.reap = {} \/ r.reap = pass[p].reap
      PROVE  ScannedAreDead'
  <2>1. \A q \in Procs : pass'[q].reap \in {{}, pass[q].reap}
    BY <1>3 DEF TypeOK
  <2> QED
    BY <1>3, <2>1 DEF ScannedAreDead
<1>4. ASSUME NEW p \in Procs, ReapScan(p)
      PROVE  ScannedAreDead'
  <2>1. \A q \in Procs \ {p} : pass'[q] = pass[q]
    BY <1>4 DEF ReapScan, TypeOK
  <2>2. \A x \in pass'[p].reap : alive[x[2]] = "dead"
    BY <1>4 DEF ReapScan, TypeOK
  <2>3. alive' = alive
    BY <1>4 DEF ReapScan
  <2> QED
    BY <2>1, <2>2, <2>3 DEF ScannedAreDead
<1>5. ASSUME NEW p \in Procs, StartProcess(p) \/ Crash(p)
      PROVE  ScannedAreDead'
  <2>1. \A q \in Procs : alive[q] = "dead" => alive'[q] = "dead"
    BY <1>5 DEF StartProcess, Crash, TypeOK
  <2>2. \A q \in Procs : pass'[q].reap \in {{}, pass[q].reap}
    BY <1>5 DEF StartProcess, Crash, IdlePass, TypeOK
  <2> QED
    BY <1>1, <2>1, <2>2 DEF ScannedAreDead
<1>6. ASSUME NEW p \in Procs,
             \/ ReapApply(p) \/ RecoverScan(p) \/ BootDone(p) \/ ListLeasable(p)
             \/ PassError(p)
      PROVE  ScannedAreDead'
  <2>1. \E r : /\ pass' = [pass EXCEPT ![p] = r]
               /\ r.reap = {}
    BY <1>6 DEF ReapApply, RecoverScan, BootDone, ListLeasable, PassError, IdlePass
  <2>2. alive' = alive
    BY <1>6 DEF ReapApply, RecoverScan, BootDone, ListLeasable, PassError
  <2> QED
    BY <1>3, <2>1, <2>2
<1>7. ASSUME NEW p \in Procs, NEW t \in Tasks,
             ResolveRecovering(p, t) \/ SchedulerLease(p, t)
      PROVE  ScannedAreDead'
  <2>1. \E r : /\ pass' = [pass EXCEPT ![p] = r]
               /\ r.reap = {} \/ r.reap = pass[p].reap
    BY <1>7 DEF ResolveRecovering, SchedulerLease, PassAfter, IdlePass, TypeOK, Passes
  <2>2. alive' = alive
    BY <1>7 DEF ResolveRecovering, SchedulerLease
  <2> QED
    BY <1>3, <2>1, <2>2
<1>8. ASSUME \/ Spawn \/ Start \/ Work \/ Operator \/ UNCHANGED vars
             \/ \E t \in Tasks : LeaseExpires(t)
      PROVE  UNCHANGED <<pass, alive>>
  BY <1>8 DEF Spawn, Enqueue, EnqueueExperiment, Start, StartLeased, StartRefused,
              Work, Heartbeat, AttachSession, WriteBack, WriteBackLost,
              Operator, OperatorCancel, OperatorResolve, LeaseExpires, vars
<1> QED
  BY <1>2, <1>4, <1>5, <1>6, <1>7, <1>8 DEF Next, Pass

\* In every action, a pass that expires a live lease finds its owner dead.
LEMMA ReapStep == TypeOK /\ ScannedAreDead /\ [Next]_vars => [ReapedWereDead]_vars
<1> SUFFICES ASSUME TypeOK, ScannedAreDead, Next, NEW t \in Tasks,
                    task[t].lease = "live", task'[t].lease = "expired",
                    pass' # pass
             PROVE  alive[task[t].owner] = "dead"
  BY DEF ReapedWereDead
<1>1. ASSUME task'[t] = task[t]
      PROVE  FALSE
  BY <1>1
<1>2. ASSUME NEW p \in Procs, ReapApply(p)
      PROVE  alive[task[t].owner] = "dead"
  <2>1. <<t, task[t].owner>> \in pass[p].reap
    BY <1>1, <1>2 DEF ReapApply
  <2> QED
    BY <2>1 DEF ScannedAreDead
<1>3. ASSUME NEW p \in Procs, RecoverScan(p)
      PROVE  FALSE
  <2>1. CASE task' = task
    BY <1>1, <2>1
  <2>2. CASE task' = [u \in Tasks |->
                        IF u \in Expired THEN Recovered(u) ELSE task[u]]
    <3>1. Recovered(t).lease = "none"
      BY DEF Recovered, TypeOK, Rows
    <3> QED
      BY <1>1, <2>2, <3>1
  <2> QED
    BY <1>3, <2>1, <2>2 DEF RecoverScan
<1>4. ASSUME NEW p \in Procs, NEW u \in Tasks, ResolveRecovering(p, u)
      PROVE  FALSE
  BY <1>1, <1>4 DEF ResolveRecovering, TypeOK, Rows
<1>5. ASSUME NEW p \in Procs, NEW u \in Tasks, SchedulerLease(p, u)
      PROVE  FALSE
  BY <1>1, <1>5 DEF SchedulerLease, Lease, TypeOK, Rows
<1>6. ASSUME NEW p \in Procs,
             \/ ReapScan(p) \/ BootDone(p) \/ ListLeasable(p) \/ PassError(p)
             \/ StartProcess(p) \/ Crash(p)
      PROVE  FALSE
  BY <1>1, <1>6 DEF ReapScan, BootDone, ListLeasable, PassError, StartProcess, Crash
<1>7. ASSUME \/ Spawn \/ Start \/ Work \/ Operator
             \/ \E u \in Tasks : LeaseExpires(u)
      PROVE  FALSE
  BY <1>7 DEF Spawn, Enqueue, EnqueueExperiment, Start, StartLeased, StartRefused,
              Work, Heartbeat, AttachSession, WriteBack, WriteBackLost,
              Operator, OperatorCancel, OperatorResolve, LeaseExpires
<1> QED
  BY <1>2, <1>3, <1>4, <1>5, <1>6, <1>7 DEF Next, Pass

\* A reaper that scanned dead owners, lost the processor while the tasks were
\* recovered and leased again, and then wrote, takes no lease from a live
\* process: the owner in its WHERE clause is enough.
THEOREM OnlyDeadReaped == Spec => OnlyDeadAreReaped
<1>1. Init => ScannedAreDead
  BY DEF Init, ScannedAreDead, IdlePass
<1> QED
  BY <1>1, TypeCorrect, ScanStep, ReapStep, PTL DEF Spec, OnlyDeadAreReaped

-----------------------------------------------------------------------------
(***************************************************************************)
(* The limit of a case.                                                    *)
(***************************************************************************)
\* The rows the limit counts.
Running(c) == {t \in Tasks : /\ task[t].state = "running"
                             /\ IsExp(t)
                             /\ CaseOf[task[t].exp] = c}

\* They are finitely many, whatever Tasks is: only then is their number one.
LimitInv == \A c \in Cases : /\ IsFiniteSet(Running(c))
                             /\ Cardinality(Running(c)) <= MaxPerCase

\* A row that counts after the step counted before it.
NoneAdded ==
  \A t \in Tasks : task'[t].state = "running" /\ task'[t].exp # NoExp =>
    task[t].state = "running" /\ task'[t].exp = task[t].exp

\* Only a lease adds to the rows that count.
LEMMA RunningStep ==
  ASSUME TypeOK, Next
  PROVE  NoneAdded \/ \E p \in Procs, t \in Tasks : CanLease(t) /\ Lease(p, t)
<1> DEFINE Goal == NoneAdded \/ \E p \in Procs, t \in Tasks : CanLease(t) /\ Lease(p, t)
<1>1. ASSUME task' = task
      PROVE  Goal
  BY <1>1 DEF NoneAdded
<1>2. ASSUME NEW t \in Tasks, \A u \in Tasks \ {t} : task'[u] = task[u],
             task'[t].state # "running" \/ (task'[t].state = task[t].state
                                            /\ task'[t].exp = task[t].exp)
      PROVE  Goal
  BY <1>2 DEF NoneAdded
<1>3. ASSUME NEW t \in Tasks, NEW s, s # "running",
             \/ task' = [task EXCEPT ![t] = [@ EXCEPT !.state = s]]
             \/ task' = Released(t, s)
      PROVE  Goal
  BY <1>2, <1>3, MoveRow
<1> HIDE DEF Goal
<1>4. ASSUME NEW p \in Procs, NEW t \in Tasks, NEW k, Enqueue(p, t, k)
      PROVE  Goal
  <2>1. task'[t].state = "queued" /\ \A u \in Tasks \ {t} : task'[u] = task[u]
    BY <1>4 DEF Enqueue, TypeOK, AbsentRow
  <2> QED
    BY <1>2, <2>1
<1>5. ASSUME NEW p \in Procs, NEW t \in Tasks, NEW k, NEW e, NEW safe,
             EnqueueExperiment(p, t, k, e, safe)
      PROVE  Goal
  <2>1. task'[t].state = "queued" /\ \A u \in Tasks \ {t} : task'[u] = task[u]
    BY <1>5 DEF EnqueueExperiment, TypeOK, AbsentRow
  <2> QED
    BY <1>2, <2>1
<1>6. ASSUME NEW s \in starting, StartLeased(s) \/ StartRefused(s)
      PROVE  Goal
  <2>1. s.task \in Tasks /\ s.proc \in Procs
    BY DEF TypeOK, Starts
  <2> QED
    BY <1>1, <1>6, <2>1 DEF StartLeased, StartRefused, Goal
<1>7. ASSUME NEW w \in workers, Heartbeat(w) \/ AttachSession(w) \/ WriteBackLost(w)
      PROVE  Goal
  <2>1. w.task \in Tasks
    BY DEF TypeOK, Workers
  <2>2. CASE task' = task
    BY <1>1, <2>2
  <2>3. CASE \/ task' = [task EXCEPT ![w.task] = [@ EXCEPT !.lease = "live"]]
             \/ task' = [task EXCEPT ![w.task] = [@ EXCEPT !.child = w.fence]]
    <3>1. /\ \A u \in Tasks \ {w.task} : task'[u] = task[u]
          /\ task'[w.task].state = task[w.task].state
          /\ task'[w.task].exp = task[w.task].exp
      BY <2>1, <2>3 DEF TypeOK, Rows
    <3> QED
      BY <1>2, <2>1, <3>1
  <2> QED
    BY <1>7, <2>2, <2>3 DEF Heartbeat, AttachSession, WriteBackLost
<1>8. ASSUME NEW w \in workers, WriteBack(w)
      PROVE  Goal
  <2>1. w.task \in Tasks
    BY DEF TypeOK, Workers
  <2>2. "running" \notin Terminal
    BY DEF Terminal
  <2> QED
    BY <1>1, <1>3, <1>8, <2>1, <2>2, WriteBackRow
<1>9. ASSUME NEW p \in Procs, ReapApply(p)
      PROVE  Goal
  BY <1>9 DEF ReapApply, NoneAdded, TypeOK, Rows, Goal
<1>10. ASSUME NEW p \in Procs, RecoverScan(p)
       PROVE  Goal
  <2>1. CASE task' = task
    BY <1>1, <2>1
  <2>2. CASE task' = [t \in Tasks |-> IF t \in Expired THEN Recovered(t) ELSE task[t]]
    <3>1. \A t \in Tasks : Recovered(t).state # "running"
      BY DEF Recovered, TypeOK, Rows
    <3> QED
      BY <2>2, <3>1 DEF NoneAdded, Goal
  <2> QED
    BY <1>10, <2>1, <2>2 DEF RecoverScan
<1>11. ASSUME NEW p \in Procs, NEW t \in Tasks, ResolveRecovering(p, t)
       PROVE  Goal
  BY <1>1, <1>3, <1>11 DEF ResolveRecovering
<1>12. ASSUME NEW p \in Procs, NEW t \in Tasks, SchedulerLease(p, t)
       PROVE  Goal
  BY <1>1, <1>12 DEF SchedulerLease, Goal
<1>13. ASSUME NEW t \in Tasks, OperatorCancel(t)
       PROVE  Goal
  BY <1>3, <1>13 DEF OperatorCancel
<1>14. ASSUME NEW t \in Tasks, NEW s \in {"failed", "succeeded", "queued"},
              OperatorResolve(t, s)
       PROVE  Goal
  BY <1>3, <1>14 DEF OperatorResolve
<1>15. ASSUME NEW t \in Tasks, LeaseExpires(t)
       PROVE  Goal
  <2>1. /\ \A u \in Tasks \ {t} : task'[u] = task[u]
        /\ task'[t].state = task[t].state /\ task'[t].exp = task[t].exp
    BY <1>15 DEF LeaseExpires, TypeOK, Rows
  <2> QED
    BY <1>2, <2>1
<1>16. ASSUME NEW p \in Procs,
              \/ ReapScan(p) \/ BootDone(p) \/ ListLeasable(p) \/ PassError(p)
              \/ StartProcess(p) \/ Crash(p)
       PROVE  Goal
  BY <1>1, <1>16
     DEF ReapScan, BootDone, ListLeasable, PassError, StartProcess, Crash
<1>17. Goal
  BY <1>4, <1>5, <1>6, <1>7, <1>8, <1>9, <1>10, <1>11, <1>12, <1>13, <1>14, <1>15,
     <1>16 DEF Next, Spawn, Start, Work, Pass, Operator
<1> QED
  BY <1>17 DEF Goal

\* Every step keeps the limit: a lease counts the rows of the case, without
\* its own, in the transaction that adds it.
LEMMA LimitStep == TypeOK /\ LimitInv /\ [Next]_vars => LimitInv'
<1> SUFFICES ASSUME TypeOK, LimitInv, [Next]_vars, NEW c \in Cases
             PROVE  /\ IsFiniteSet(Running(c)')
                    /\ Cardinality(Running(c)') <= MaxPerCase
  BY DEF LimitInv
<1> DEFINE R == Running(c)
           S == Running(c)'
<1>1. IsFiniteSet(R) /\ Cardinality(R) \in Nat /\ Cardinality(R) <= MaxPerCase
  BY FS_CardinalityType DEF LimitInv
<1>2. MaxPerCase \in Nat
  BY ConstantsAssumption
<1>3. ASSUME S \subseteq R
      PROVE  IsFiniteSet(S) /\ Cardinality(S) <= MaxPerCase
  <2>1. IsFiniteSet(S) /\ Cardinality(S) <= Cardinality(R) /\ Cardinality(S) \in Nat
    BY <1>1, <1>3, FS_Subset, FS_CardinalityType
  <2> QED
    BY <1>1, <1>2, <2>1
<1>4. CASE NoneAdded
  BY <1>3, <1>4 DEF Running, NoneAdded, IsExp
<1>5. ASSUME NEW p \in Procs, NEW t \in Tasks, CanLease(t), Lease(p, t)
      PROVE  IsFiniteSet(S) /\ Cardinality(S) <= MaxPerCase
  <2>1. /\ \A u \in Tasks \ {t} : task'[u] = task[u]
        /\ task'[t].exp = task[t].exp
    BY <1>5 DEF Lease, TypeOK, Rows
  <2>2. CASE IsExp(t) /\ CaseOf[task[t].exp] = c
    <3> DEFINE Q == RunningInCase(c, t)
    <3>1. Q \subseteq R
      BY DEF RunningInCase, Running
    <3>2. IsFiniteSet(Q) /\ Cardinality(Q) \in Nat
      BY <1>1, <3>1, FS_Subset, FS_CardinalityType
    <3>3. Cardinality(Q) < MaxPerCase
      BY <1>5, <2>2 DEF CanLease, HasSlot
    <3>4. S \subseteq Q \cup {t}
      BY <2>1 DEF RunningInCase, Running, IsExp
    <3>5. t \notin Q
      BY DEF RunningInCase
    <3> HIDE DEF Q, S
    <3>6. IsFiniteSet(Q \cup {t}) /\ Cardinality(Q \cup {t}) = Cardinality(Q) + 1
      BY <3>2, <3>5, FS_AddElement
    <3>7. /\ IsFiniteSet(S) /\ Cardinality(S) <= Cardinality(Q \cup {t})
          /\ Cardinality(S) \in Nat
      BY <3>4, <3>6, FS_Subset, FS_CardinalityType
    <3> QED
      BY <1>2, <3>2, <3>3, <3>6, <3>7
  <2>3. CASE ~(IsExp(t) /\ CaseOf[task[t].exp] = c)
    BY <1>3, <2>1, <2>3 DEF Running, IsExp
  <2> QED
    BY <2>2, <2>3
<1>6. CASE UNCHANGED vars
  BY <1>3, <1>6 DEF vars, Running, IsExp
<1> QED
  BY <1>4, <1>5, <1>6, RunningStep

\* A case never runs more delegated Experiments than max_concurrent_per_case,
\* for any number of tasks, processes and crashes: enqueue_experiment_task and
\* acquire_experiment_lease count inside their transactions.
THEOREM CasesKeepLimit == Spec => []CaseLimit
<1>1. Init => LimitInv
  <2> SUFFICES ASSUME Init, NEW c \in Cases
               PROVE  IsFiniteSet(Running(c)) /\ Cardinality(Running(c)) <= MaxPerCase
    BY DEF LimitInv
  <2>1. Running(c) = {}
    BY DEF Init, AbsentRow, Running
  <2> QED
    BY <2>1, FS_EmptySet, ConstantsAssumption
<1>2. LimitInv => CaseLimit
  BY DEF LimitInv, Running, CaseLimit
<1> QED
  BY <1>1, <1>2, TypeCorrect, LimitStep, PTL DEF Spec

-----------------------------------------------------------------------------
(***************************************************************************)
(* The properties of the runs, from the theorems above.                     *)
(***************************************************************************)
\* Rows, Experiments and workers carry one attempt number, and it names one
\* execution (acquire_lease, acquire_experiment_lease, recover_expired_leases).
THEOREM FencingHolds == Spec => []FencesHold
<1>1. Lockstep /\ FencesUnique => FencesHold
  BY DEF FencesHold
<1> QED
  BY <1>1, LockstepHolds, TokensAreUnique, PTL

\* Nobody but the holder of a lease commits under it, and no reaper takes it
\* from a live process (transition_terminal, expire_leases_of_dead_owners).
THEOREM LeasesAreRespected == Spec => LeasesRespected
<1>1. Init => ScannedAreDead
  BY DEF Init, ScannedAreDead, IdlePass
<1>2. [OwnerCommits]_vars /\ [ReapedWereDead]_vars => [OwnerCommits /\ ReapedWereDead]_vars
  OBVIOUS
<1> QED
  BY <1>1, <1>2, TypeCorrect, OwnerStep, ScanStep, ReapStep, PTL DEF Spec, LeasesRespected
=============================================================================
