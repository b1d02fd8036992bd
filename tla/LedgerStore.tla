----------------------------- MODULE LedgerStore -----------------------------
(***************************************************************************)
(* Several sessions, in one process or in several, on the ledger of one    *)
(* case.  A turn of the runtime loads a copy of the ledger, lets the model *)
(* think about it, checks whether the ledger has moved, validates and      *)
(* assembles what the model wants against the copy, and appends it under   *)
(* the copy's version (holmes-runtime runtime.rs, holmes-session           *)
(* ledger_store.rs).  Evidence is appended as the tools return, and the    *)
(* task store moves the Experiments it executes, both at whatever version  *)
(* the ledger then has.                                                    *)
(*                                                                         *)
(* A response holds at most one executable call.  A copy that the code     *)
(* replaces before it reads it again is forgotten at once.  A session name *)
(* stands for one session after another: between turns nothing is kept.    *)
(***************************************************************************)
EXTENDS CaseLedger

CONSTANT MaxRebases  \* cognition.max_rebases

ASSUME StoreAssumption == MaxRebases \in Nat

VARIABLE sess

svars == <<led, version, sess>>

Steps == {"idle", "load", "think", "commit", "persist", "act", "tools",
          "close"}

\* call: the response's executable call; "direct" and "spawn" are bound to
\* exp by a plan of the same response.
Calls == {"unbound", "direct", "spawn"}
Outcomes == {"ok", "failed", "denied", "cancelled"}

\* cache, at: context.state.ledger and its version.  then: where the turn
\* goes on after the load.  evs: the evidence of the call.
Session == [pc: Steps, then: Steps, cache: Snapshots, at: Nat, rebases: Nat,
            assigned: Exps \cup {NoExp}, call: Calls, exp: Exps \cup {NoExp},
            outcome: Outcomes, evs: SUBSET Nat]

StoreTypeOK ==
  /\ TypeOK
  /\ sess \in [Sessions -> Session]
  /\ \A s \in Sessions : sess[s].rebases <= MaxRebases

Idle == [pc |-> "idle", then |-> "idle", cache |-> EmptyLedger, at |-> 0,
         rebases |-> 0, assigned |-> NoExp, call |-> "unbound", exp |-> NoExp,
         outcome |-> "ok", evs |-> {}]

StoreInit == Init /\ sess = [s \in Sessions |-> Idle]

-----------------------------------------------------------------------------
At(s, step) == sess[s].pc = step
Becomes(s, r) == sess' = [sess EXCEPT ![s] = r]

\* The record of s while it waits for a load, to go on at step.
Loading(s, step) ==
  [sess[s] EXCEPT !.pc = "load", !.then = step, !.cache = EmptyLedger, !.at = 0]

\* The record of s with a fresh copy, at step.
Loaded(s, step) ==
  [sess[s] EXCEPT !.pc = step, !.then = "idle", !.cache = led, !.at = version]

\* Ready for the next response: the last one's call is over.
NextResponse(r) ==
  [r EXCEPT !.pc = "think", !.call = "unbound", !.exp = NoExp, !.outcome = "ok",
            !.evs = {}]

\* Fault: the version of the copy is not compared.
AppendAtAny(s, es) == AppendEvents(es)

\* LedgerStore::append under the version of the session's copy.
AppendAt(s, es) ==
  /\ sess[s].at = version
  /\ AppendEvents(es)

-----------------------------------------------------------------------------
(***************************************************************************)
(* A turn.                                                                 *)
(***************************************************************************)
\* refresh_ledger at the head of a turn.  A child's turn starts once the
\* task store has put its Experiment to Running.
BeginTurn(s, x) ==
  /\ At(s, "idle")
  /\ x # NoExp => led.exps[x].task /\ led.exps[x].status = "Running"
  /\ Becomes(s, [Loaded(s, "think") EXCEPT !.assigned = x])
  /\ UNCHANGED lvars

\* refresh_ledger anywhere else.
Load(s) ==
  /\ At(s, "load")
  /\ Becomes(s, IF sess[s].then = "think"
                THEN NextResponse(Loaded(s, "think"))
                ELSE Loaded(s, sess[s].then))
  /\ UNCHANGED lvars

\* The model has answered and the ledger is what it was.
Unchanged(s) ==
  /\ At(s, "think")
  /\ sess[s].at = version
  /\ Becomes(s, [sess[s] EXCEPT !.pc = "commit"])
  /\ UNCHANGED lvars

\* It is not: the answer is thrown away, the model sees the new ledger.
Rebase(s) ==
  /\ At(s, "think")
  /\ sess[s].at # version
  /\ sess[s].rebases < MaxRebases
  /\ Becomes(s, [Loaded(s, "think") EXCEPT !.rebases = sess[s].rebases + 1])
  /\ UNCHANGED lvars

\* apply_meta_actions: the reviews and the assembly are made on the copy.
\* Where a plan binds the response's call, the call is executed for it.
CommitMetas(s, ms, verdicts) ==
  LET plan == Assemble(sess[s].cache, sess[s].at, ms, verdicts)
      bound == {b \in Exps \X {"direct", "spawn"} :
                  \E i \in DOMAIN ms : /\ ms[i].kind = "plan"
                                       /\ b = <<ms[i].exp, ms[i].bind>>}
  IN /\ At(s, "commit")
     /\ plan.ok
     /\ AppendAt(s, plan.evs)
     /\ IF bound = {}
        THEN Becomes(s, Loading(s, "persist"))
        ELSE \E b \in bound :
               Becomes(s, [Loading(s, "persist") EXCEPT !.exp = b[1],
                                                        !.call = b[2]])

\* No meta-actions, or only ones that make no event.
NoMetas(s) ==
  /\ At(s, "commit")
  /\ Becomes(s, [sess[s] EXCEPT !.pc = "persist"])
  /\ UNCHANGED lvars

\* persist_cognitive_commit.
Persist(s) ==
  /\ At(s, "persist")
  /\ AppendAt(s, <<[type |-> "Deliberated", version |-> sess[s].at]>>)
  /\ Becomes(s, Loading(s, "act"))

\* cognition.persist_commit_summary is off, or the response broke protocol.
PersistNothing(s) ==
  /\ At(s, "persist")
  /\ Becomes(s, [sess[s] EXCEPT !.pc = "act"])
  /\ UNCHANGED lvars

\* No call: the loop goes on with the copy it has.
Continue(s) ==
  /\ At(s, "act")
  /\ sess[s].call = "unbound"
  /\ Becomes(s, NextResponse(sess[s]))
  /\ UNCHANGED lvars

\* A call no plan binds: a child binds it to its Experiment, which must be
\* Running in the copy; otherwise the response is handed back to the model.
Call(s) ==
  /\ At(s, "act")
  /\ sess[s].call = "unbound"
  /\ LET x == sess[s].assigned
     IN IF x # NoExp /\ sess[s].cache.exps[x].status # "Running"
        THEN Becomes(s, NextResponse(sess[s]))
        ELSE Becomes(s, [sess[s] EXCEPT !.pc = "tools", !.exp = x,
                                        !.cache = EmptyLedger, !.at = 0])
  /\ UNCHANGED lvars

\* start_bound_experiments.  The load that follows is followed by another
\* one before the copy is read, and is left out.
StartBound(s) ==
  LET x == sess[s].exp
  IN /\ At(s, "act")
     /\ sess[s].call = "direct"
     /\ sess[s].cache.exps[x].status = "Planned"
     /\ AppendAt(s, <<MoveOf(sess[s].cache, x, "Running", {})>>)
     /\ Becomes(s, [sess[s] EXCEPT !.pc = "tools", !.cache = EmptyLedger,
                                   !.at = 0])

\* A bound spawn_subagent call: enqueue_experiment_task expects the copy's
\* revision of the Experiment, whatever the version of the ledger.
Spawn(s) ==
  LET x == sess[s].exp
  IN /\ At(s, "act")
     /\ sess[s].call = "spawn"
     /\ led.exps[x].status = "Planned"
     /\ led.exps[x].revision = sess[s].cache.exps[x].revision
     /\ Move(x, "Queued", {})
     /\ Becomes(s, Loading(s, "close"))

\* ... which refuses: another revision, the case's limit, a task that exists.
SpawnRefused(s) ==
  /\ At(s, "act")
  /\ sess[s].call = "spawn"
  /\ Becomes(s, Loading(s, "close"))
  /\ UNCHANGED lvars

\* The call returns, and record_tool_result records what came of it; denied
\* and cancelled calls leave no evidence.
RecordResult(s, outcome) ==
  /\ At(s, "tools")
  /\ outcome \in {"ok", "failed"}
  /\ Record([exp |-> sess[s].exp, ok |-> outcome = "ok", by |-> s])
  /\ Becomes(s, [Loading(s, "close") EXCEPT !.outcome = outcome,
                                            !.evs = {Len(led.evs) + 1}])

RecordNothing(s, outcome) ==
  /\ At(s, "tools")
  /\ outcome # "ok"
  /\ outcome = "failed" => sess[s].exp = NoExp
  /\ Becomes(s, [Loading(s, "close") EXCEPT !.outcome = outcome])
  /\ UNCHANGED lvars

\* Fault: a call that was denied or cancelled observed something.
EndsAsObserved(outcome) == IF outcome = "failed" THEN "Failed" ELSE "Observed"

EndsAs(outcome) ==
  CASE outcome = "ok"        -> "Observed"
    [] outcome = "denied"    -> "Blocked"
    [] outcome = "cancelled" -> "Cancelled"
    [] outcome = "failed"    -> "Failed"

\* finalize_bound_experiments, for a call that was started here.
FinalizeBound(s) ==
  LET x == sess[s].exp
      to == EndsAs(sess[s].outcome)
      evs == sess[s].evs \cap DOMAIN sess[s].cache.evs
  IN /\ At(s, "close")
     /\ sess[s].call = "direct"
     /\ sess[s].cache.exps[x].status = "Running"
     /\ AppendAt(s, <<MoveOf(sess[s].cache, x, to,
                             IF to = "Observed" THEN evs ELSE {})>>)
     /\ Becomes(s, Loading(s, "think"))

\* ... and for a child's own calls, spawn calls and calls without a binding.
FinalizeNothing(s) ==
  /\ At(s, "close")
  /\ sess[s].call # "direct"
  /\ Becomes(s, NextResponse(sess[s]))
  /\ UNCHANGED lvars

\* The turn is over: answered, finished, out of rebases or of iterations,
\* cancelled, stopped by an error (a version conflict, a refused event, an
\* Experiment not in the status a step expects), or its process is gone.
EndTurn(s) ==
  /\ ~At(s, "idle")
  /\ Becomes(s, Idle)
  /\ UNCHANGED lvars

-----------------------------------------------------------------------------
\* The task store on an Experiment it executes (DurableTasks has the rows).
\* Only evidence that one child gathered for it makes it Observed.
TaskMoves(x, to, evs) ==
  /\ led.exps[x].task
  /\ to \in {"Running", "Observed", "Failed", "Cancelled", "Expired"}
  /\ to = "Observed" =>
       /\ evs # {}
       /\ \E s \in Sessions : \A i \in evs : /\ led.evs[i].exp = x
                                             /\ led.evs[i].by = s
  /\ Move(x, to, evs)
  /\ UNCHANGED sess

StoreNext ==
  \/ \E s \in Sessions :
       \/ \E x \in Exps \cup {NoExp} : BeginTurn(s, x)
       \/ Load(s)
       \/ Unchanged(s)
       \/ Rebase(s)
       \/ /\ At(s, "commit")
          /\ \E ms \in Batches(sess[s].cache) :
               /\ HasRoomFor(ms)
               /\ \E verdicts \in [Requests(ms) -> BOOLEAN] : CommitMetas(s, ms, verdicts)
       \/ NoMetas(s)
       \/ Persist(s)
       \/ PersistNothing(s)
       \/ Continue(s)
       \/ Call(s)
       \/ StartBound(s)
       \/ Spawn(s)
       \/ SpawnRefused(s)
       \/ \E outcome \in Outcomes : RecordResult(s, outcome)
       \/ \E outcome \in Outcomes : RecordNothing(s, outcome)
       \/ FinalizeBound(s)
       \/ FinalizeNothing(s)
       \/ EndTurn(s)
  \/ \E x \in Exps, to \in ExpStatuses, evs \in SUBSET DOMAIN led.evs :
       TaskMoves(x, to, evs)

StoreSpec == StoreInit /\ [][StoreNext]_svars
-----------------------------------------------------------------------------
(***************************************************************************)
(* Safety.                                                                 *)
(***************************************************************************)
\* A copy that has the ledger's version is the ledger, whoever appended what
\* since it was loaded: comparing versions is enough.
CacheIsCurrent ==
  \A s \in Sessions : /\ sess[s].at <= version
                      /\ sess[s].at = version => sess[s].cache = led

\* An Experiment is Observed only with evidence gathered for it, of a call
\* that succeeded if the runtime executed it itself.
ObservedHasEvidence ==
  \A x \in Exps : led.exps[x].status = "Observed" =>
    /\ led.exps[x].evs # {}
    /\ \A i \in led.exps[x].evs : led.evs[i].exp = x
    /\ led.exps[x].task \/ \E i \in led.exps[x].evs : led.evs[i].ok

\* Deciding on copies does what deciding on the ledger itself would do: this
\* is CaseLedger's Spec (the steps that leave the ledger alone are told apart
\* first, so that no step of Next is searched for them).
ImplementsCaseLedger == Init /\ [][lvars' # lvars => Next]_lvars
=============================================================================
