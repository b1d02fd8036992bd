--------------------------- MODULE ResultDelivery ---------------------------
(***************************************************************************)
(* How the result of a spawned task reaches the parent conversation.       *)
(*                                                                         *)
(* A background run leaves its result in two places, one after the other:  *)
(* the in-memory registry of its process (BackgroundTasks) and the tasks   *)
(* table.  A synchronous run returns it as the tool result after mirroring *)
(* it to the table.  At each iteration boundary of a turn the runtime      *)
(* drains both places: drain_background_tasks first scans the table for    *)
(* terminal, undelivered rows, then takes what the registry has finished.  *)
(* Several processes may have the session open; each drains on its own.    *)
(*                                                                         *)
(* The leases are abstracted to their fencing token (DurableTasks has the  *)
(* rest): a row is waiting, running under an attempt, or ended, by the     *)
(* attempt `by' (0: by cancellation or the operator).  A result is known   *)
(* by the attempt it comes from.                                           *)
(***************************************************************************)
EXTENDS Integers, Sequences, FiniteSets

CONSTANTS
  Tasks, Procs,
  AttemptBound,  \* bound: no lease is taken beyond this attempt
  MaxCrashes,    \* bound: how many processes may die
  MaxErrors      \* bound: how many transactions fail after their retries

ASSUME DeliveryAssumption ==
  /\ AttemptBound \in Nat
  /\ MaxCrashes \in Nat
  /\ MaxErrors \in Nat

VARIABLES
  row,    \* the tasks table
  reg,    \* per process: its BackgroundTasks registry
  runs,   \* executions, from the spawn to the last thing they write
  drain,  \* per process: where its drain stands
  told,   \* the session's event log: what it says of each task, in order
  alive,
  errors  \* how many transactions have failed

vars == <<row, reg, runs, drain, told, alive, errors>>

RowStates == {"new", "absent", "waiting", "running", "ended"}
RowType == [state: RowStates, attempt: Nat, by: Nat, delivered: BOOLEAN]
Entries == [status: {"none", "running", "done"}, from: Nat, taken: BOOLEAN]
Kinds == {"sync", "background", "scheduler"}
RunType == [task: Tasks, proc: Procs, fence: Nat, kind: Kinds,
            pc: {"enqueue", "lease", "run", "write", "report"}]
Items == [task: Tasks, from: Nat]
DrainType == [pc: {"idle", "table", "registry"}, items: SUBSET Items]
Tellings == [from: Nat, via: {"delivery", "plain", "tool"}]

TypeOK ==
  /\ row \in [Tasks -> RowType]
  /\ reg \in [Procs -> [Tasks -> Entries]]
  /\ runs \subseteq RunType
  /\ drain \in [Procs -> DrainType]
  /\ told \in [Tasks -> Seq(Tellings)]
  /\ alive \in [Procs -> {"unborn", "up", "dead"}]
  /\ errors \in 0..MaxErrors

NoEntry == [status |-> "none", from |-> 0, taken |-> FALSE]
IdleDrain == [pc |-> "idle", items |-> {}]

Init ==
  /\ row = [t \in Tasks |-> [state |-> "new", attempt |-> 0, by |-> 0,
                             delivered |-> FALSE]]
  /\ reg = [p \in Procs |-> [t \in Tasks |-> NoEntry]]
  /\ runs = {}
  /\ drain = [p \in Procs |-> IdleDrain]
  /\ told = [t \in Tasks |-> <<>>]
  /\ alive = [p \in Procs |-> "unborn"]
  /\ errors = 0

\* with_db_retry gives up on a transaction: nothing of it is kept.
StoreFails == errors < MaxErrors /\ errors' = errors + 1

StoreWorks == UNCHANGED errors

-----------------------------------------------------------------------------
(***************************************************************************)
(* Spawning and running.                                                   *)
(***************************************************************************)
InState(t, s) == [row EXCEPT ![t] = [@ EXCEPT !.state = s]]

\* The turn is in its tool batch, not in a drain.
InBatch(p) == alive[p] = "up" /\ drain[p].pc = "idle"

\* BackgroundTasks::complete by the run itself; unknown ids are ignored.
Completed(w) ==
  IF reg[w.proc][w.task].status = "none" THEN reg
  ELSE [reg EXCEPT ![w.proc][w.task] =
          [@ EXCEPT !.status = "done", !.from = w.fence]]

\* A spawn draws a fresh id; a background one registers it.
Spawn(p, t, k) ==
  /\ InBatch(p)
  /\ row[t].state = "new"
  /\ row' = InState(t, "absent")
  /\ reg' = IF k = "background"
            THEN [reg EXCEPT ![p][t] = [NoEntry EXCEPT !.status = "running"]]
            ELSE reg
  /\ runs' = runs \cup {[task |-> t, proc |-> p, fence |-> 0, kind |-> k,
                         pc |-> "enqueue"]}
  /\ UNCHANGED <<drain, told, alive, errors>>

\* task_started, first transaction.
Enqueue(w) ==
  /\ w \in runs /\ w.pc = "enqueue"
  /\ row' = InState(w.task, "waiting")
  /\ runs' = (runs \ {w}) \cup {[w EXCEPT !.pc = "lease"]}
  /\ UNCHANGED <<reg, drain, told, alive, errors>>

\* Fault: a task that has ended is leased again.
CanLeaseAgain(t) ==
  row[t].state \in {"waiting", "ended"} /\ row[t].attempt < AttemptBound

CanLease(t) == row[t].state = "waiting" /\ row[t].attempt < AttemptBound

Leased(t) ==
  [row EXCEPT ![t] = [@ EXCEPT !.state = "running",
                               !.attempt = row[t].attempt + 1]]

\* task_started, second transaction.
Start(w) ==
  /\ w \in runs /\ w.pc = "lease"
  /\ CanLease(w.task)
  /\ row' = Leased(w.task)
  /\ runs' = (runs \ {w}) \cup
               {[w EXCEPT !.pc = "run", !.fence = row[w.task].attempt + 1]}
  /\ UNCHANGED <<reg, drain, told, alive, errors>>

\* Either transaction is refused or fails.  A background spawn winds its
\* registration back to an error; a synchronous one runs unmirrored (or, for
\* a delegated task, reports the error).
StartRefused(w) ==
  /\ w \in runs
  /\ \/ w.pc = "enqueue" /\ StoreWorks
     \/ w.pc = "lease" /\ ~CanLease(w.task) /\ StoreWorks
     \/ w.pc \in {"enqueue", "lease"} /\ StoreFails
  /\ reg' = Completed(w)
  /\ runs' = (runs \ {w}) \cup
               IF w.kind = "sync" THEN {[w EXCEPT !.pc = "report"]} ELSE {}
  /\ UNCHANGED <<row, drain, told, alive>>

\* The scheduler of some process leases the row and runs it.
SchedulerLease(p, t) ==
  /\ alive[p] = "up"
  /\ CanLease(t)
  /\ row' = Leased(t)
  /\ runs' = runs \cup {[task |-> t, proc |-> p, fence |-> row[t].attempt + 1,
                         kind |-> "scheduler", pc |-> "run"]}
  /\ UNCHANGED <<reg, drain, told, alive, errors>>

Holds(w) ==
  row[w.task].state = "running" /\ row[w.task].attempt = w.fence

\* A background run ends: the registry knows first.
Finish(w) ==
  /\ w \in runs /\ w.pc = "run" /\ w.kind = "background"
  /\ reg' = Completed(w)
  /\ runs' = (runs \ {w}) \cup {[w EXCEPT !.pc = "write"]}
  /\ UNCHANGED <<row, drain, told, alive, errors>>

\* A heartbeat reports the lease lost: the run stops and writes nothing to
\* the table, but its registry entry still completes (with an error).
LeaseLost(w) ==
  /\ w \in runs /\ w.pc = "run" /\ w.kind # "sync"
  /\ ~Holds(w)
  /\ reg' = IF w.kind = "background" THEN Completed(w) ELSE reg
  /\ runs' = runs \ {w}
  /\ UNCHANGED <<row, drain, told, alive, errors>>

\* The fenced terminal write.  A scheduler run may instead be retried.
WriteBack(w) ==
  /\ w \in runs
  /\ w.pc = IF w.kind = "background" THEN "write" ELSE "run"
  /\ \/ /\ row' = IF Holds(w)
                  THEN [row EXCEPT ![w.task] =
                          [@ EXCEPT !.state = "ended", !.by = w.fence]]
                  ELSE row
        /\ StoreWorks
     \/ /\ w.kind = "scheduler" /\ Holds(w)
        /\ row' = InState(w.task, "waiting")
        /\ StoreWorks
     \/ row' = row /\ StoreFails
  /\ runs' = (runs \ {w}) \cup
               IF w.kind = "sync" THEN {[w EXCEPT !.pc = "report"]} ELSE {}
  /\ UNCHANGED <<reg, drain, told, alive>>

\* The synchronous result is the tool result of the spawning turn.
Report(w) ==
  /\ w \in runs /\ w.pc = "report"
  /\ told' = [told EXCEPT ![w.task] =
                Append(@, [from |-> w.fence, via |-> "tool"])]
  /\ runs' = runs \ {w}
  /\ UNCHANGED <<row, reg, drain, alive, errors>>

\* A lease is withdrawn: recovered after its expiry, and queued again.
Withdraw(t) ==
  /\ row[t].state = "running"
  /\ row' = InState(t, "waiting")
  /\ UNCHANGED <<reg, runs, drain, told, alive, errors>>

\* A cancellation, or the operator's closing of a suspended task.
Close(t) ==
  /\ row[t].state \in {"waiting", "running"}
  /\ row' = InState(t, "ended")
  /\ UNCHANGED <<reg, runs, drain, told, alive, errors>>

-----------------------------------------------------------------------------
(***************************************************************************)
(* drain_background_tasks.                                                 *)
(***************************************************************************)
\* The verdict of deliver_task_result's transaction.
Outcome(t) ==
  CASE row[t].state \in {"new", "absent"}     -> "UnknownTask"
    [] row[t].state \in {"waiting", "running"} -> "NotTerminal"
    [] row[t].state = "ended" /\ row[t].delivered  -> "AlreadyDelivered"
    [] row[t].state = "ended" /\ ~row[t].delivered -> "Appended"

Delivered(t) == [row EXCEPT ![t] = [@ EXCEPT !.delivered = TRUE]]

\* Fault: the delivered mark is not read.
DeliverAgain(i) ==
  IF Outcome(i.task) \in {"Appended", "AlreadyDelivered"}
  THEN /\ row' = Delivered(i.task)
       /\ told' = [told EXCEPT ![i.task] =
                     Append(@, [from |-> i.from, via |-> "delivery"])]
  ELSE UNCHANGED <<row, told>>

\* deliver_task_result: the event and the delivered mark, all or nothing.
Deliver(i) ==
  IF Outcome(i.task) = "Appended"
  THEN /\ row' = Delivered(i.task)
       /\ told' = [told EXCEPT ![i.task] =
                     Append(@, [from |-> i.from, via |-> "delivery"])]
  ELSE UNCHANGED <<row, told>>

DrainAt(p, pc, items) == [drain EXCEPT ![p] = [pc |-> pc, items |-> items]]

\* The turn drains between batches: no synchronous run is under way, and no
\* spawn is starting.
AtBoundary(p) ==
  /\ InBatch(p)
  /\ \A w \in runs : w.proc = p =>
       w.kind # "sync" /\ w.pc \notin {"enqueue", "lease"}

\* Fault: only the tasks this process registered are scanned.
ScanOwnTasks(p) ==
  /\ AtBoundary(p)
  /\ drain' = DrainAt(p, "table",
                {[task |-> t, from |-> row[t].by] :
                   t \in {u \in Tasks : /\ row[u].state = "ended"
                                        /\ ~row[u].delivered
                                        /\ reg[p][u].status # "none"}})
  /\ UNCHANGED <<row, reg, runs, told, alive, errors>>

\* list_undelivered_task_results; a failing scan is as an empty one.
Scan(p) ==
  /\ AtBoundary(p)
  /\ \/ /\ drain' = DrainAt(p, "table",
                      {[task |-> t, from |-> row[t].by] :
                         t \in {u \in Tasks : /\ row[u].state = "ended"
                                              /\ ~row[u].delivered}})
        /\ StoreWorks
     \/ drain' = DrainAt(p, "table", {}) /\ StoreFails
  /\ UNCHANGED <<row, reg, runs, told, alive>>

\* One scanned row: delivered, or skipped until the next drain on an error.
DeliverScanned(p, i) ==
  /\ alive[p] = "up" /\ drain[p].pc = "table"
  /\ i \in drain[p].items
  /\ \/ Deliver(i) /\ StoreWorks
     \/ StoreFails /\ UNCHANGED <<row, told>>
  /\ drain' = DrainAt(p, "table", drain[p].items \ {i})
  /\ UNCHANGED <<reg, runs, alive>>

\* take_finished_undelivered: taken entries are never handed out again.
Take(p) ==
  /\ alive[p] = "up" /\ drain[p].pc = "table"
  /\ drain[p].items = {}
  /\ LET done == {t \in Tasks : /\ reg[p][t].status = "done"
                                /\ ~reg[p][t].taken}
     IN /\ drain' = DrainAt(p, "registry",
                      {[task |-> t, from |-> reg[p][t].from] : t \in done})
        /\ reg' = [reg EXCEPT ![p] =
                     [t \in Tasks |->
                        [reg[p][t] EXCEPT !.taken = @ \/ t \in done]]]
  /\ UNCHANGED <<row, runs, told, alive, errors>>

\* Fault: a task that is not terminal yet is told at once.
TellsNotTerminal(i) == Outcome(i.task) \in {"UnknownTask", "NotTerminal"}

\* The plain append is for tasks the table does not know.
TellsPlainly(i) == Outcome(i.task) = "UnknownTask"

\* One taken entry: the atomic delivery; the plain append when the table
\* knows nothing of the task or the delivery failed.  If the plain append
\* fails too, the drain ends and the rest of what it took is dropped.
DeliverTaken(p, i) ==
  /\ alive[p] = "up" /\ drain[p].pc = "registry"
  /\ i \in drain[p].items
  /\ \/ /\ ~TellsPlainly(i)
        /\ Deliver(i)
        /\ drain' = DrainAt(p, "registry", drain[p].items \ {i})
        /\ StoreWorks
     \/ /\ \/ TellsPlainly(i) /\ StoreWorks
           \/ StoreFails
        /\ told' = [told EXCEPT ![i.task] =
                      Append(@, [from |-> i.from, via |-> "plain"])]
        /\ drain' = DrainAt(p, "registry", drain[p].items \ {i})
        /\ UNCHANGED row
     \/ /\ StoreFails
        /\ drain' = DrainAt(p, "idle", {})
        /\ UNCHANGED <<row, told>>
  /\ UNCHANGED <<reg, runs, alive>>

DrainEnds(p) ==
  /\ alive[p] = "up" /\ drain[p].pc = "registry"
  /\ drain[p].items = {}
  /\ drain' = DrainAt(p, "idle", {})
  /\ UNCHANGED <<row, reg, runs, told, alive, errors>>

-----------------------------------------------------------------------------
StartProcess(p) ==
  /\ alive[p] = "unborn"
  /\ alive' = [alive EXCEPT ![p] = "up"]
  /\ UNCHANGED <<row, reg, runs, drain, told, errors>>

\* The registry dies with its process; the table and the log do not.
Crash(p) ==
  /\ alive[p] = "up"
  /\ Cardinality({q \in Procs : alive[q] = "dead"}) < MaxCrashes
  /\ alive' = [alive EXCEPT ![p] = "dead"]
  /\ reg' = [reg EXCEPT ![p] = [t \in Tasks |-> NoEntry]]
  /\ runs' = {w \in runs : w.proc # p}
  /\ drain' = [drain EXCEPT ![p] = IdleDrain]
  /\ UNCHANGED <<row, told, errors>>

RunStep(w) ==
  \/ Enqueue(w) \/ Start(w) \/ StartRefused(w) \/ Finish(w)
  \/ LeaseLost(w) \/ WriteBack(w) \/ Report(w)

Drain(p) ==
  \/ Scan(p) \/ Take(p) \/ DrainEnds(p)
  \/ \E i \in drain[p].items : DeliverScanned(p, i) \/ DeliverTaken(p, i)

Next ==
  \/ \E p \in Procs, t \in Tasks :
       \/ \E k \in {"sync", "background"} : Spawn(p, t, k)
       \/ SchedulerLease(p, t)
  \/ \E w \in runs : RunStep(w)
  \/ \E t \in Tasks : Withdraw(t) \/ Close(t)
  \/ \E p \in Procs : Drain(p) \/ StartProcess(p) \/ Crash(p)

Spec == Init /\ [][Next]_vars

-----------------------------------------------------------------------------
(***************************************************************************)
(* Safety.                                                                 *)
(***************************************************************************)
Via(t, how) == {i \in DOMAIN told[t] : told[t][i].via = how}

\* The delivered mark and the event log agree: a row is marked if and only if
\* the log holds exactly one delivery of it, and only terminal rows are.
\* Neither a crash, nor two processes draining the same session, nor a
\* registry drain racing a table drain loses or repeats a delivery.
DeliveredExactlyOnce ==
  \A t \in Tasks :
    /\ Cardinality(Via(t, "delivery")) = IF row[t].delivered THEN 1 ELSE 0
    /\ row[t].delivered => row[t].state = "ended"

\* While the store does not fail, a task that was not run synchronously is
\* told of once at most, whichever of the registry and the table the drain
\* finds it in first, and whatever other attempt the table prefers.
BackgroundToldOnce ==
  errors = 0 =>
    \A t \in Tasks : Len(told[t]) - Cardinality(Via(t, "tool")) <= 1

\* The table's rows, as far as the delivery sees them, behave as the tasks
\* table promises (and as DurableTasks does too): tokens are granted in order
\* and an ended row never reopens, so a delivered mark is never revoked.
Phase(s) ==
  CASE s \in {"new", "absent"} -> "none"
    [] s = "waiting" -> "waiting"
    [] s = "running" -> "held"
    [] s = "ended"   -> "ended"

Fenced == INSTANCE FencedTasks
            WITH phase <- [t \in Tasks |-> Phase(row[t].state)],
                 token <- [t \in Tasks |-> row[t].attempt]

ImplementsFencedTasks == Fenced!Spec

-----------------------------------------------------------------------------
(***************************************************************************)
(* Liveness: a process that is up takes turn after turn, hence drains; runs *)
(* end.  Nobody has to spawn, to be leased to or to be restarted.          *)
(***************************************************************************)
Fairness ==
  /\ \A p \in Procs : WF_vars(Drain(p))
  /\ \A t \in Tasks, p \in Procs, k \in Kinds :
       WF_vars(\E w \in runs : /\ w.task = t /\ w.proc = p /\ w.kind = k
                               /\ RunStep(w))

FairSpec == Spec /\ Fairness

SomeoneUp == \E p \in Procs : alive[p] = "up"

\* A terminal result reaches the conversation, also when the process that ran
\* it is dead, its registry entry was consumed before the table's write, or
\* another process holds a stale scan.
EndedIsDelivered ==
  \A t \in Tasks :
    row[t].state = "ended" ~> (row[t].delivered \/ ~SomeoneUp)

=============================================================================
