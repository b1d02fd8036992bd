----------------------------- MODULE SessionLog -----------------------------
(***************************************************************************)
(* One session in the store: its rows of the events table, the counters    *)
(* and goal columns of its sessions row, and the transcript file derived   *)
(* from the events (db.rs, transcript_projection.rs).  Every process has   *)
(* its own connection and projection worker; a crash loses what is queued. *)
(* An append that fails in the store, after its retries or at once, has    *)
(* changed nothing and is not a step.                                      *)
(***************************************************************************)
EXTENDS Integers, Sequences, SequencesExt

CONSTANTS
    Processes,   \* the processes that may have the database open
    EventKinds, \* the kinds of events appended
    Capacity,    \* DEFAULT_QUEUE_CAPACITY
    MaxEvents,   \* bound on the events ever written
    MaxFaults,   \* bound on failing file writes and crashes
    MaxRollbacks \* bound on rollbacks and forks

ASSUME SessionLogAssumption ==
    /\ EventKinds \subseteq {"user", "call", "other", "set", "clear", "met"}
    /\ Capacity \in Nat \ {0}
    /\ {MaxEvents, MaxFaults, MaxRollbacks} \subseteq Nat

VARIABLES
    rows,    \* events, in index order: index, kind, and n, a number of its own
    row,     \* the sessions row: message and tool call counts, goal, achieved
    lines,   \* transcript.jsonl: the n of each line
    offset,  \* projection_state, -1 without a row
    procs,   \* what each process is doing
    written, \* events written so far
    faults,  \* faults so far
    rolled,  \* rollbacks and forks so far
    whole,   \* since the last open, alone, no line has failed
    shared,  \* two processes have had the database open at once
    torn     \* a crash has cut an operation of several statements short

slVars == <<rows, row, lines, offset, procs, written, faults, rolled, whole, shared, torn>>

----------------------------------------------------------------------------

NoEvent == [i |-> -1, k |-> "other", n |-> 0]

\* Lines that are no event: cut off without an end of line, and the line
\* that results when another is written behind that.
Cut == 0
Junk == -1

\* at: down, scanned, rebuild, rewrite, up.  found: events and their count
\* as the reconcile or the rebuild saw them.  due: the event still to be
\* appended behind a column write.  todo: committed, not yet queued.  done:
\* the event whose line is written and whose offset is not.  through:
\* rebuilt_through.  cut: a truncation's stage and what it counted.
Down == [at |-> "down", found |-> <<>>, due |-> {}, todo |-> <<>>, queue |-> <<>>,
         done |-> NoEvent, through |-> -1, cut |-> {}]

MaxIndex(evs) == IF evs = <<>> THEN -1 ELSE Last(evs).i

Numbers(evs) == [j \in DOMAIN evs |-> evs[j].n]

Of(evs, kind) == {evs[j].i : j \in {h \in DOMAIN evs : evs[h].k = kind}}

Highest(S) == IF S = {} THEN -1 ELSE CHOOSE x \in S : \A y \in S : y <= x

\* The columns as truncate_events_after recomputes them.
Recounted(evs) ==
    LET goal == Highest(Of(evs, "set")) IN
    [users |-> Cardinality(Of(evs, "user")), calls |-> Cardinality(Of(evs, "call")),
     goal |-> goal > Highest(Of(evs, "clear")),
     met |-> goal > Highest(Of(evs, "clear")) /\ \E i \in Of(evs, "met") : i > goal]

----------------------------------------------------------------------------

SLInit ==
    /\ rows = <<>> /\ row = Recounted(<<>>) /\ lines = <<>> /\ offset = -1
    /\ procs = [p \in Processes |-> Down]
    /\ written = 0 /\ faults = 0 /\ rolled = 0
    /\ whole = FALSE /\ shared = FALSE /\ torn = FALSE

Set(p, doing) == procs' = [procs EXCEPT ![p] = doing]
Alone(p) == \A q \in Processes \ {p} : procs[q].at = "down"
AtRest(p) == procs[p].at = "up" /\ procs[p].due = {} /\ procs[p].todo = <<>> /\ procs[p].cut = {}

\* The row and the events in one transaction; the lines are queued after it.
Committed(p, evs) ==
    /\ rows' = rows \o evs
    /\ row' = [row EXCEPT !.users = @ + Cardinality(Of(evs, "user")),
                          !.calls = @ + Cardinality(Of(evs, "call"))]
    /\ Set(p, [procs[p] EXCEPT !.todo = evs, !.due = {}])
    /\ written' = written + Len(evs)

New(kind) == [i |-> MaxIndex(rows) + 1, k |-> kind, n |-> written + 1]

CreateSession(p) ==
    /\ AtRest(p) /\ rows = <<>> /\ written < MaxEvents
    /\ Committed(p, <<New("meta")>>)
    /\ UNCHANGED <<lines, offset, faults, rolled, whole, shared, torn>>

AppendEvent(p) ==
    /\ AtRest(p) /\ rows # <<>> /\ written < MaxEvents
    /\ \E k \in EventKinds \ {"set", "clear", "met"} : Committed(p, <<New(k)>>)
    /\ UNCHANGED <<lines, offset, faults, rolled, whole, shared, torn>>

\* set_runtime_goal, /goal, record_goal_evaluated: the column first, then
\* the event.  A goal can be met only while there is one.
WriteGoalColumn(p) ==
    \E k \in EventKinds \cap {"set", "clear", "met"} :
        /\ AtRest(p) /\ rows # <<>> /\ written < MaxEvents
        /\ k = "met" => row.goal
        /\ row' = IF k = "met" THEN [row EXCEPT !.met = TRUE]
                  ELSE [row EXCEPT !.goal = (k = "set"), !.met = FALSE]
        /\ Set(p, [procs[p] EXCEPT !.due = {k}])
        /\ UNCHANGED <<rows, lines, offset, written, faults, rolled, whole, shared, torn>>

AppendGoalEvent(p) ==
    /\ procs[p].at = "up" /\ procs[p].todo = <<>> /\ written < MaxEvents
    /\ \E k \in procs[p].due : Committed(p, <<New(k)>>)
    /\ UNCHANGED <<lines, offset, faults, rolled, whole, shared, torn>>

\* project: waits for room in the channel.
Project(p) ==
    /\ procs[p].at = "up" /\ procs[p].todo # <<>> /\ Len(procs[p].queue) < Capacity
    /\ Set(p, [procs[p] EXCEPT !.queue = Append(@, Head(procs[p].todo)), !.todo = Tail(@)])
    /\ UNCHANGED <<rows, row, lines, offset, written, faults, rolled, whole, shared, torn>>

----------------------------------------------------------------------------
(* The worker.                                                             *)

WithLine(n) ==
    IF lines # <<>> /\ Last(lines) = Cut THEN [lines EXCEPT ![Len(lines)] = Junk]
    ELSE Append(lines, n)

Working(p) == procs[p].at = "up" /\ procs[p].queue # <<>> /\ procs[p].done = NoEvent

SkipCovered(p) ==
    /\ Working(p) /\ Head(procs[p].queue).i <= procs[p].through
    /\ Set(p, [procs[p] EXCEPT !.queue = Tail(@)])
    /\ UNCHANGED <<rows, row, lines, offset, written, faults, rolled, whole, shared, torn>>

AppendLine(p) ==
    /\ Working(p) /\ Head(procs[p].queue).i > procs[p].through
    /\ lines' = WithLine(Head(procs[p].queue).n)
    /\ Set(p, [procs[p] EXCEPT !.queue = Tail(@), !.done = Head(procs[p].queue)])
    /\ UNCHANGED <<rows, row, offset, written, faults, rolled, whole, shared, torn>>

\* The write fails, whole or halfway: a rebuild is noted in memory, and
\* nothing in this process reads the note.
AppendLineFails(p) ==
    /\ Working(p) /\ Head(procs[p].queue).i > procs[p].through /\ faults < MaxFaults
    /\ lines' \in {lines, WithLine(Cut)}
    /\ Set(p, [procs[p] EXCEPT !.queue = Tail(@)])
    /\ faults' = faults + 1 /\ whole' = FALSE
    /\ UNCHANGED <<rows, row, offset, written, rolled, shared, torn>>

\* persist_offset: monotonic; a failure is logged.
PersistOffset(p) ==
    /\ procs[p].done # NoEvent
    /\ \/ offset' = IF offset < procs[p].done.i THEN procs[p].done.i ELSE offset
       \/ offset' = offset
    /\ Set(p, [procs[p] EXCEPT !.done = NoEvent])
    /\ UNCHANGED <<rows, row, lines, written, faults, rolled, whole, shared, torn>>

----------------------------------------------------------------------------
(* Opening the database.                                                   *)

OpenScan(p) ==
    /\ procs[p].at = "down"
    /\ Set(p, [procs[p] EXCEPT !.at = "scanned", !.found = rows])
    /\ shared' = (shared \/ ~Alone(p)) /\ whole' = Alone(p)
    /\ UNCHANGED <<rows, row, lines, offset, written, faults, rolled, torn>>

ReconciledByOffset(evs) == offset >= MaxIndex(evs)

\* No rebuild is needed: there are no events, or the offset has reached the
\* last one and the file has a line for each.
Reconciled(evs) ==
    \/ evs = <<>>
    \/ offset >= MaxIndex(evs) /\ Len(lines) = Len(evs)

OpenReconcile(p) ==
    /\ procs[p].at = "scanned"
    /\ Set(p, [procs[p] EXCEPT !.at = IF Reconciled(procs[p].found) THEN "up" ELSE "rebuild",
                               !.found = <<>>])
    /\ UNCHANGED <<rows, row, lines, offset, written, faults, rolled, whole, shared, torn>>

RebuildRead(p) ==
    /\ procs[p].at = "rebuild"
    /\ Set(p, [procs[p] EXCEPT !.at = "rewrite", !.found = rows])
    /\ UNCHANGED <<rows, row, lines, offset, written, faults, rolled, whole, shared, torn>>

\* A new file is renamed over the old one, and the rebuilt range and the
\* offset follow; or the write fails, the old file stays, and open goes on.
RebuildWrite(p) ==
    LET evs == procs[p].found IN
    /\ procs[p].at = "rewrite"
    /\ \/ /\ lines' = Numbers(evs)
          /\ Set(p, [procs[p] EXCEPT !.at = "up", !.found = <<>>, !.through = MaxIndex(evs),
                                     !.done = IF evs = <<>> THEN NoEvent ELSE Last(evs)])
          /\ UNCHANGED <<faults, whole>>
       \/ /\ faults < MaxFaults /\ faults' = faults + 1 /\ whole' = FALSE
          /\ Set(p, [procs[p] EXCEPT !.at = "up", !.found = <<>>])
          /\ UNCHANGED lines
    /\ UNCHANGED <<rows, row, offset, written, rolled, shared, torn>>

----------------------------------------------------------------------------
(* Rollback and fork.                                                      *)

\* truncate_events_after, each statement on its own: the rows go, ...
TruncateDelete(p) ==
    /\ AtRest(p) /\ rolled < MaxRollbacks
    /\ \E j \in 1..(Len(rows) - 1) : rows' = SubSeq(rows, 1, j)
    /\ Set(p, [procs[p] EXCEPT !.cut = {<<>>}]) /\ rolled' = rolled + 1 /\ whole' = FALSE
    /\ UNCHANGED <<row, lines, offset, written, faults, shared, torn>>

\* ... what is left is counted, ...
TruncateCount(p) ==
    /\ procs[p].cut = {<<>>}
    /\ Set(p, [procs[p] EXCEPT !.cut = {<<Recounted(rows)>>}])
    /\ UNCHANGED <<rows, row, lines, offset, written, faults, rolled, whole, shared, torn>>

\* ... and the columns are written.
TruncateUpdate(p) ==
    /\ procs[p].cut \notin {{}, {<<>>}}
    /\ row' = (CHOOSE c \in procs[p].cut : TRUE)[1]
    /\ Set(p, [procs[p] EXCEPT !.cut = {}])
    /\ UNCHANGED <<rows, lines, offset, written, faults, rolled, whole, shared, torn>>

\* The child of a fork, which is then the session: copied events keep their
\* indexes and are not projected, what describes the parent (one event here) is
\* not copied, and neither is the goal to the columns.
Fork(p) ==
    /\ AtRest(p) /\ Alone(p) /\ procs[p].queue = <<>> /\ procs[p].done = NoEvent
    /\ rolled < MaxRollbacks /\ rows # <<>> /\ written < MaxEvents
    /\ \E j \in 0..Len(rows) :
        LET copied == RemoveFirstMatch(SubSeq(rows, 1, j), LAMBDA e : e.k = "meta") IN
        /\ rows' = Append(copied, [New("meta") EXCEPT !.i = MaxIndex(copied) + 1])
        /\ row' = [Recounted(copied) EXCEPT !.goal = FALSE, !.met = FALSE]
        /\ torn' = (torn \/ Recounted(copied).goal)
    /\ lines' = <<>> /\ offset' = -1
    /\ Set(p, [procs[p] EXCEPT !.through = -1])
    /\ written' = written + 1 /\ rolled' = rolled + 1 /\ whole' = FALSE
    /\ UNCHANGED <<faults, shared>>

\* An exit without a flush, or a crash.
Crash(p) ==
    /\ procs[p].at # "down" /\ faults < MaxFaults
    /\ Set(p, Down)
    /\ faults' = faults + 1 /\ whole' = FALSE
    /\ torn' = (torn \/ procs[p].due # {} \/ procs[p].cut # {})
    /\ UNCHANGED <<rows, row, lines, offset, written, rolled, shared>>

SLNext ==
    \E p \in Processes :
        \/ CreateSession(p)
        \/ AppendEvent(p)
        \/ WriteGoalColumn(p)
        \/ AppendGoalEvent(p)
        \/ Project(p)
        \/ SkipCovered(p)
        \/ AppendLine(p)
        \/ AppendLineFails(p)
        \/ PersistOffset(p)
        \/ OpenScan(p)
        \/ OpenReconcile(p)
        \/ RebuildRead(p)
        \/ RebuildWrite(p)
        \/ TruncateDelete(p)
        \/ TruncateCount(p)
        \/ TruncateUpdate(p)
        \/ Fork(p)
        \/ Crash(p)

SLSpec == SLInit /\ [][SLNext]_slVars

----------------------------------------------------------------------------
(* Properties.                                                             *)

Drained(p) ==
    /\ AtRest(p) /\ procs[p].queue = <<>> /\ procs[p].done = NoEvent
    /\ \A q \in Processes \ {p} : procs[q].at = "down"

\* Once a process has written what it queued, the transcript is the events,
\* in their order, whatever crashes, failed lines and half-written lines came
\* before it was opened (reconcile_projections, run_worker).  Said of a log
\* that one process at a time has written and nobody has rolled back.
TranscriptHeals ==
    \A p \in Processes : Drained(p) /\ whole /\ rolled = 0 /\ ~shared => lines = Numbers(rows)

\* What the events say of the goal: one stands, and it was met since.
GoalStands(evs) ==
    \E j \in DOMAIN evs : evs[j].k = "set" /\ \A h \in j..Len(evs) : evs[h].k # "clear"
GoalMet(evs) ==
    \E j, h \in DOMAIN evs :
        /\ j < h /\ evs[j].k = "set" /\ evs[h].k = "met"
        /\ \A g \in (j + 1)..Len(evs) : evs[g].k \notin {"set", "clear"}
CountOf(evs, kind) == Cardinality({j \in DOMAIN evs : evs[j].k = kind})

\* The sessions row says what the events say, through any sequence of
\* appends, goals, evaluations and rollbacks that no crash cuts short
\* (append_event, truncate_events_after): the goal while one process writes,
\* the counters also with several, until one of them rolls back.
RowAgrees ==
    \A p \in Processes : AtRest(p) /\ ~torn =>
        /\ ~shared => row.goal = GoalStands(rows) /\ row.met = GoalMet(rows)
        /\ ~shared \/ rolled = 0 =>
             row.users = CountOf(rows, "user") /\ row.calls = CountOf(rows, "call")

\* What is derived from the events follows them: the transcript, once what was
\* queued is written (TranscriptHeals), and the sessions row (RowAgrees).
ProjectionsFollow == TranscriptHeals /\ RowAgrees
=============================================================================
