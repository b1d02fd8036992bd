---------------------------- MODULE Conversation ----------------------------
(***************************************************************************)
(* The message list a runtime sends to the model, and the event log it is  *)
(* rebuilt from.  A turn records its messages and calls in the log as it   *)
(* goes; compaction replaces the middle of the list by a summary, archives *)
(* it and records the range it folded away; resume, rollback and fork      *)
(* rebuild the list by replaying the log (replay.rs; chat.rs for sessions  *)
(* without startup metadata).  Every provider request passes through the   *)
(* Anthropic conversion of the list.                                       *)
(*                                                                         *)
(* A message is its role and the number of what it says; the text of a     *)
(* summary is the set of the items it was made from.  Another process that *)
(* has resumed the same session may add its own messages at any time.      *)
(***************************************************************************)
EXTENDS Integers, Sequences, FiniteSets, SequencesExt

CONSTANTS
    ProtectedHead,  \* compressor.protected_head
    ProtectLast,    \* compressor.protect_last_n
    MaxBatch,       \* bound on the calls of one reply
    MaxItems,       \* bound on the messages and calls explored
    MaxLog,         \* bound on the length of the log
    MaxArchives     \* bound on the compactions explored

ASSUME ConversationAssumption ==
    /\ {ProtectedHead, ProtectLast, MaxItems, MaxLog, MaxArchives} \subseteq Nat
    /\ MaxBatch \in Nat \ {0}

VARIABLES
    log,      \* the session's events, in index order
    live,     \* session.messages
    at,       \* where the runtime is: idle, boundary, acting, compacting
    batch,    \* the tool calls being executed
    prefire,  \* {} or the one summary being computed in the background
    archives, \* one record per compaction archive written
    items,    \* items said so far
    snap      \* events_before: the last index the compaction under way saw, 0 without one

convVars == <<log, live, at, batch, prefire, archives, items, snap>>

----------------------------------------------------------------------------
(* Messages and events.                                                    *)

\* user, asst, tool as in the code; "lost" is a tool result made up for a
\* call that has none, "text" a tool result told as user text, "sum" a
\* summary.
Message(role, id, calls) == [role |-> role, id |-> id, calls |-> calls, of |-> {}]

Summary(of) == [role |-> "sum", id |-> 0, calls |-> <<>>, of |-> of]

\* An event at index i; upto is the end of the range a compaction archived,
\* of the items its summary was made from.
Event(i, kind, id) == [i |-> i, k |-> kind, id |-> id, upto |-> 0, of |-> {}]

IsTool(m) == m.role \in {"tool", "lost"}

\* append_event: MAX(event_index) + 1.
NextIndex(evs) == IF evs = <<>> THEN 0 ELSE Last(evs).i + 1

Logged(evs, kind, id) == Append(evs, Event(NextIndex(evs), kind, id))

NoBatch == [calls |-> <<>>, recorded |-> 0, answered |-> {}, parallel |-> FALSE]

\* What a message tells beyond its calls: something said, or a result.
Item(m) == <<m.role \in {"tool", "text"}, IF m.role = "lost" THEN 0 ELSE m.id>>

Items(msgs) == {Item(msgs[i]) : i \in DOMAIN msgs} \ {<<FALSE, 0>>}

EventItems(evs) ==
    {<<evs[i].k = "result", evs[i].id>> :
        i \in {j \in DOMAIN evs : evs[j].k \in {"user", "think", "result"}}}

Answers(msgs, role) == {i \in DOMAIN msgs : msgs[i].role = role}

\* The elements of s at the positions in S, in order.
Rank(S, j) == Cardinality({i \in S : i <= j})
Picked(s, S) == [k \in 1..Cardinality(S) |-> s[CHOOSE j \in S : Rank(S, j) = k]]

----------------------------------------------------------------------------
(* Replay of the log (replay.rs).                                          *)

NoRun == [calls |-> <<>>, got |-> {}]

\* One assistant message with every call of the run, then one result per
\* call, made up where the log has none.  Each carries the index it is from.
FlushToolRun(s) ==
    IF s.run.calls = <<>> THEN s.msgs
    ELSE s.msgs
         \o <<[i |-> Last(s.run.calls).i,
               m |-> Message("asst", 0, [n \in DOMAIN s.run.calls |-> s.run.calls[n].id])]>>
         \o [n \in DOMAIN s.run.calls |->
               [i |-> s.run.calls[n].i,
                m |-> Message(IF s.run.calls[n].id \in s.run.got THEN "tool" ELSE "lost",
                              s.run.calls[n].id, <<>>)]]

Flushed(s, i, m) == [msgs |-> Append(FlushToolRun(s), [i |-> i, m |-> m]), run |-> NoRun]

\* Everything the range covers goes; the summary takes its first place.
ReplaceArchived(msgs, end, i, summary) ==
    LET covered(e) == e.i <= end
        first == SelectInSeq(msgs, covered)
        kept  == Picked(msgs, {j \in DOMAIN msgs : ~covered(msgs[j])})
        place == IF first = 0 \/ first > Len(kept) + 1 THEN Len(kept) + 1 ELSE first
    IN  SubSeq(kept, 1, place - 1) \o <<[i |-> i, m |-> summary]>>
        \o SubSeq(kept, place, Len(kept))

ReplayResultsPlainly(s, e) ==
    IF e.k = "result" /\ ~(\E n \in DOMAIN s.run.calls : s.run.calls[n].id = e.id)
    THEN Flushed(s, e.i, Message("tool", e.id, <<>>))
    ELSE IF e.k = "call" THEN [s EXCEPT !.run.calls = Append(@, [id |-> e.id, i |-> e.i])]
    ELSE IF e.k = "result" THEN [s EXCEPT !.run.got = @ \cup {e.id}]
    ELSE IF e.k \in {"user", "think"}
    THEN Flushed(s, e.i, Message(IF e.k = "user" THEN "user" ELSE "asst", e.id, <<>>))
    ELSE s

ReplayStep(s, e) ==
    CASE e.k = "user"  -> Flushed(s, e.i, Message("user", e.id, <<>>))
      [] e.k = "think" -> Flushed(s, e.i, Message("asst", e.id, <<>>))
      [] e.k = "call"  -> [s EXCEPT !.run.calls = Append(@, [id |-> e.id, i |-> e.i])]
      [] e.k = "result" ->
            IF \E n \in DOMAIN s.run.calls : s.run.calls[n].id = e.id
            THEN [s EXCEPT !.run.got = @ \cup {e.id}]
            ELSE Flushed(s, e.i, Message("text", e.id, <<>>))
      [] e.k = "compact" ->
            [msgs |-> ReplaceArchived(FlushToolRun(s), e.upto, e.i, Summary(e.of)),
             run |-> NoRun]
      [] OTHER -> s

\* A result made up behind every assistant message whose call is answered
\* nowhere in the list.
LegalizeToolHistory(msgs) ==
    LET answered == {msgs[i].id : i \in Answers(msgs, "tool") \cup Answers(msgs, "lost")}
        missing(m) == Picked(m.calls, {k \in DOMAIN m.calls : m.calls[k] \notin answered})
    IN  FlattenSeq([n \in DOMAIN msgs |->
            <<msgs[n]>> \o [k \in DOMAIN missing(msgs[n]) |->
                                Message("lost", missing(msgs[n])[k], <<>>)]])

Replay(evs) ==
    LET s == FoldLeft(ReplayStep, [msgs |-> <<>>, run |-> NoRun], evs)
        all == FlushToolRun(s)
    IN  LegalizeToolHistory([n \in DOMAIN all |-> all[n].m])

\* The replay for sessions without startup metadata: no compaction, calls
\* join the assistant message before them, results follow as they come.
LegacyStep(msgs, e) ==
    CASE e.k = "user"   -> Append(msgs, Message("user", e.id, <<>>))
      [] e.k = "think"  -> Append(msgs, Message("asst", e.id, <<>>))
      [] e.k = "call"   ->
            IF msgs # <<>> /\ Last(msgs).role = "asst"
            THEN [msgs EXCEPT ![Len(msgs)].calls = Append(@, e.id)]
            ELSE Append(msgs, Message("asst", 0, <<e.id>>))
      [] e.k = "result" -> Append(msgs, Message("tool", e.id, <<>>))
      [] OTHER -> msgs

LegacyReplay(evs) == LegalizeToolHistory(FoldLeft(LegacyStep, <<>>, evs))

----------------------------------------------------------------------------
(* The two repairs of a message list.                                      *)

\* The tool messages right behind message n.
RunAfter(msgs, n) ==
    {j \in DOMAIN msgs : j > n /\ \A k \in (n + 1)..j : IsTool(msgs[k])}

\* The message of the run behind n that answers call c.
AnswerAt(msgs, n, c) == {j \in RunAfter(msgs, n) : msgs[j].id = c}

FirstOf(S) == CHOOSE j \in S : \A k \in S : j <= k

\* The first answers in the run behind n to the calls of message n.
Matched(msgs, n) ==
    {FirstOf(AnswerAt(msgs, n, msgs[n].calls[k])) :
        k \in {h \in DOMAIN msgs[n].calls : AnswerAt(msgs, n, msgs[n].calls[h]) # {}}}

MadeUp(msgs, n) ==
    LET calls == msgs[n].calls
        gaps == Picked(calls, {k \in DOMAIN calls : AnswerAt(msgs, n, calls[k]) = {}})
    IN  [k \in DOMAIN gaps |-> Message("lost", gaps[k], <<>>)]

\* sanitize_orphan_tool_messages, after a compaction: stray results go.
SanitizeOrphans(msgs) ==
    FlattenSeq([n \in DOMAIN msgs |->
        IF IsTool(msgs[n]) THEN <<>>
        ELSE <<msgs[n]>> \o Picked(msgs, Matched(msgs, n)) \o MadeUp(msgs, n)])

\* sanitize_tool_use_groups, before a request: answers in call order, stray
\* results become user text.
AnswerTo(msgs, n, c) ==
    IF AnswerAt(msgs, n, c) = {} THEN Message("lost", c, <<>>)
    ELSE msgs[FirstOf(AnswerAt(msgs, n, c))]

AsText(msgs) == [j \in DOMAIN msgs |-> Message("text", msgs[j].id, <<>>)]

WireGroup(msgs, n) ==
    <<msgs[n]>>
    \o [k \in DOMAIN msgs[n].calls |-> AnswerTo(msgs, n, msgs[n].calls[k])]
    \o AsText(Picked(msgs, RunAfter(msgs, n) \ Matched(msgs, n)))

Wire(msgs) ==
    AsText(Picked(msgs, RunAfter(msgs, 0)))
    \o FlattenSeq([n \in DOMAIN msgs |-> IF IsTool(msgs[n]) THEN <<>> ELSE WireGroup(msgs, n)])

----------------------------------------------------------------------------
(* The turn.                                                               *)

ConvInit ==
    /\ log = <<Event(0, "meta", 0)>> /\ live = <<>> /\ at = "idle"
    /\ batch = NoBatch /\ prefire = {} /\ archives = <<>> /\ items = 0 /\ snap = 0

Room(n) == items + n <= MaxItems /\ Len(log) + n <= MaxLog

ShownFirst ==
    /\ at \in {"idle", "boundary"} /\ Room(1)
    /\ items' = items + 1
    /\ \E stored \in BOOLEAN :
        log' = IF stored THEN Logged(log, "user", items') ELSE log
    /\ live' = Append(live, Message("user", items', <<>>))
    /\ at' = "boundary"
    /\ UNCHANGED <<batch, prefire, archives, snap>>

\* record_user_message: the operator's input, a steering line, a
\* supervisor's note or a background result.  If the append fails nothing
\* has changed and the turn stops.
RecordUserMessage ==
    /\ at \in {"idle", "boundary"} /\ Room(1)
    /\ items' = items + 1
    /\ log' = Logged(log, "user", items')
    /\ live' = Append(live, Message("user", items', <<>>))
    /\ at' = "boundary"
    /\ UNCHANGED <<batch, prefire, archives, snap>>

\* record_assistant_response.  The text is an event; the calls are not yet.
\* Calls that control the loop, or that a check turns back, never become
\* events; the others are executed as a batch.
RecordAssistantResponse ==
    \E text \in {0, 1}, n \in 0..MaxBatch, runs, parallel \in BOOLEAN :
        LET calls == [k \in 1..n |-> items + text + k] IN
        /\ at = "boundary" /\ text + n > 0 /\ (runs => n > 0) /\ (parallel => runs /\ n > 1)
        /\ Room(text + n) /\ (runs => Len(log) + text + 2 * n <= MaxLog)
        /\ items' = items + text + n
        /\ log' = IF text = 1 THEN Logged(log, "think", items + 1) ELSE log
        /\ live' = Append(live, Message("asst", IF text = 1 THEN items + 1 ELSE 0, calls))
        /\ at' = IF runs THEN "acting" ELSE "boundary"
        /\ batch' = IF runs THEN [NoBatch EXCEPT !.calls = calls, !.parallel = parallel]
                    ELSE NoBatch
        /\ UNCHANGED <<prefire, archives, snap>>

Unanswered == 1..batch.recorded \ batch.answered

\* A call event, in order.  The sequential path takes one call through to
\* its outcome before the next; the parallel one gates them all first.
RecordToolCall ==
    LET n == batch.recorded + 1 IN
    /\ at = "acting" /\ n <= Len(batch.calls)
    /\ batch.parallel \/ Unanswered = {}
    /\ log' = Logged(log, "call", batch.calls[n])
    /\ batch' = [batch EXCEPT !.recorded = n]
    /\ UNCHANGED <<live, at, prefire, archives, items, snap>>

\* A result or blocked event: of the call just recorded, or, once all are
\* recorded, of the first call without one.
RecordOutcome ==
    \E n \in Unanswered :
        /\ at = "acting"
        /\ \/ n = batch.recorded
           \/ (batch.recorded = Len(batch.calls) /\ \A k \in Unanswered : n <= k)
        /\ log' = Logged(log, "result", batch.calls[n])
        /\ batch' = [batch EXCEPT !.answered = @ \cup {n}]
        /\ UNCHANGED <<live, at, prefire, archives, items, snap>>

\* The batch returns its messages, in call order.
BatchReturns ==
    /\ at = "acting" /\ batch.answered = DOMAIN batch.calls
    /\ live' = live \o [k \in DOMAIN batch.calls |-> Message("tool", batch.calls[k], <<>>)]
    /\ at' = "boundary" /\ batch' = NoBatch
    /\ UNCHANGED <<log, prefire, archives, items, snap>>

\* The turn ends, or a store call or a middleware fails: what the batch has
\* so far is dropped, and so is the background summary.
TurnStops ==
    /\ at \in {"boundary", "acting"}
    /\ at' = "idle" /\ batch' = NoBatch /\ prefire' = {}
    /\ UNCHANGED <<log, live, archives, items, snap>>

\* Another process that has the same session open records a message.
OtherProcessRecords ==
    /\ at # "idle" /\ Room(1)
    /\ items' = items + 1
    /\ log' = Logged(log, "user", items')
    /\ UNCHANGED <<live, at, batch, prefire, archives, snap>>

----------------------------------------------------------------------------
(* Compaction.                                                             *)

Least(x, y) == IF x < y THEN x ELSE y

\* plan_with_floor: what lies between the protected head and tail.
HeadEnd == Least(ProtectedHead, Len(live))
TailStart == Len(live) - Least(ProtectLast, Len(live)) + 1
HasMiddle == HeadEnd + 1 < TailStart
Middle == SubSeq(live, HeadEnd + 1, TailStart - 1)

\* SpanFingerprint: bounds, number of messages and what the span holds.
Fingerprint == [start |-> HeadEnd, end |-> TailStart, count |-> Len(live), span |-> Middle]

Told(msgs) == Items(msgs) \cup UNION {msgs[i].of : i \in DOMAIN msgs}

\* Just below the threshold a summary of the middle is prefired.
MaybeSpawnPrefire ==
    /\ at = "boundary" /\ HasMiddle /\ prefire = {}
    /\ prefire' = {Fingerprint}
    /\ UNCHANGED <<log, live, at, batch, archives, items, snap>>

AnyPrefire ==
    IF prefire = {} THEN Told(Middle) ELSE Told((CHOOSE p \in prefire : TRUE).span)

\* take_matching_prefire: its summary if the fingerprint still matches, a
\* summary of the middle as it is otherwise.
TakeMatchingPrefire == 
    IF prefire = {Fingerprint} THEN Told((CHOOSE p \in prefire : TRUE).span) ELSE Told(Middle)

\* The threshold is crossed, or the operator or an overflow forces it: the
\* events so far are read, then the summary is awaited.
CompactBegins ==
    /\ at = "boundary" /\ HasMiddle
    /\ Len(archives) < MaxArchives /\ Len(log) < MaxLog
    /\ at' = "compacting" /\ snap' = Last(log).i
    /\ UNCHANGED <<log, live, batch, prefire, archives, items>>

Compacted(of) ==
    SanitizeOrphans(SubSeq(live, 1, HeadEnd) \o <<Summary(of)>>
                    \o SubSeq(live, TailStart, Len(live)))

\* The list is compacted in memory; the archive is written; the event is
\* appended.  Either write may fail, and stops the turn.
CompactEnds ==
    LET of == TakeMatchingPrefire IN
    /\ at = "compacting" /\ prefire' = {} /\ live' = Compacted(of)
    /\ \E written, appended \in BOOLEAN :
        /\ appended => written
        /\ archives' = IF written
                       THEN Append(archives, [of |-> of, span |-> Told(Middle),
                                events |-> EventItems(Picked(log, {j \in DOMAIN log : log[j].i <= snap}))])
                       ELSE archives
        /\ log' = IF appended
                  THEN Append(log, [Event(NextIndex(log), "compact", 0)
                                        EXCEPT !.upto = snap, !.of = of])
                  ELSE log
        /\ at' = IF appended THEN "boundary" ELSE "idle"
    /\ snap' = 0
    /\ UNCHANGED <<batch, items>>

----------------------------------------------------------------------------
(* Rebuilding from the log.                                                *)

\* The list after a rebuild that finds the events evs.
Rebuilt(evs) ==
    /\ log' = evs /\ live' = Replay(evs)
    /\ at' = "idle" /\ batch' = NoBatch /\ prefire' = {} /\ snap' = 0

\* A crash at any point, or an exit, and resume.
Resume ==
    /\ Rebuilt(log)
    /\ UNCHANGED <<archives, items>>

TakeSnapshot ==
    /\ at = "idle" /\ Len(log) < MaxLog
    /\ log' = Logged(log, "snap", 0)
    /\ UNCHANGED <<live, at, batch, prefire, archives, items, snap>>

\* /rollback to a snapshot: the events behind it are deleted.
Rollback ==
    /\ at = "idle"
    /\ \E n \in DOMAIN log :
        log[n].k = "snap" /\ n < Len(log) /\ Rebuilt(SubSeq(log, 1, n))
    /\ UNCHANGED <<archives, items>>

\* Fork, and the runtime follows the child: the events keep their indexes,
\* the parent's metadata goes, startup events and a branch summary follow.
ForkSession ==
    /\ at = "idle" /\ Room(2)
    /\ items' = items + 1
    /\ \E n \in DOMAIN log :
        LET copied == Picked(log, {j \in 1..n : log[j].k # "meta"})
        IN  Rebuilt(Logged(Logged(copied, "meta", 0), "user", items'))
    /\ UNCHANGED archives

ConvNext ==
    \/ RecordUserMessage
    \/ RecordAssistantResponse
    \/ RecordToolCall
    \/ RecordOutcome
    \/ BatchReturns
    \/ TurnStops
    \/ OtherProcessRecords
    \/ MaybeSpawnPrefire
    \/ CompactBegins
    \/ CompactEnds
    \/ Resume
    \/ TakeSnapshot
    \/ Rollback
    \/ ForkSession

ConvSpec == ConvInit /\ [][ConvNext]_convVars

----------------------------------------------------------------------------
(* Properties.                                                             *)

\* The state keeps its shape; indexes grow along the log; a batch records no
\* more than it has (db.rs, action.rs).
ConvTypeOK ==
    /\ at \in {"idle", "boundary", "acting", "compacting"}
    /\ \A i, j \in DOMAIN log : i < j => log[i].i < log[j].i
    /\ batch.recorded \in 0..Len(batch.calls) /\ batch.answered \subseteq 1..batch.recorded
    /\ (at = "acting") = (batch.calls # <<>>)

\* Every call is answered right behind its message, once, and no result
\* stands anywhere else.
Legal(msgs) ==
    \A n \in DOMAIN msgs :
        /\ IsTool(msgs[n]) =>
             \E a \in DOMAIN msgs : msgs[n].id \in ToSet(msgs[a].calls) /\ n \in RunAfter(msgs, a)
        /\ \A c \in ToSet(msgs[n].calls) : Cardinality(AnswerAt(msgs, n, c)) = 1

\* A request to the provider always pairs every tool_use with its result,
\* whatever the turn that made the list went through: control calls, calls
\* turned back, batches that failed halfway, compaction (anthropic.rs,
\* sanitize_tool_use_groups); and so does a replay, wherever the log was cut
\* and whoever else wrote to it (replay.rs: "the replayed history always pairs
\* every tool_use with a tool_result").
WireIsLegal ==
    Legal(Wire(live)) /\ Legal(Wire(LegacyReplay(log))) /\ Legal(Replay(log))

ArchivedItems == UNION {archives[n].events : n \in DOMAIN archives}

Common(msgs, S) ==
    Picked([i \in DOMAIN msgs |-> Item(msgs[i])], {i \in DOMAIN msgs : Item(msgs[i]) \in S})

Said == {FALSE} \X Nat

\* What the model has been shown is on record: every message and result of
\* the list is replayed, what was said in the same order, or is in an archive
\* (record_user_message, record_assistant_response, compact_with_trigger).
ResumeLosesNothing ==
    LET replayed == Replay(log)
        kept == Items(live) \cap Items(replayed)
    IN  /\ Items(live) \subseteq kept \cup ArchivedItems
        /\ Common(live, kept \cap Said) = Common(replayed, kept \cap Said)

\* The summary that replaces a span was made from that very span, though it
\* may have been computed while the list was growing (take_matching_prefire).
SummaryIsOfItsSpan == \A n \in DOMAIN archives : archives[n].of = archives[n].span
=============================================================================
