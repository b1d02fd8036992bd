------------------------------ MODULE Memories ------------------------------
(***************************************************************************)
(* Long-term memory: the memories table several processes share, its       *)
(* writers, the life of a row, and what a recall puts before the model     *)
(* (holmes-session: memory_store.rs; holmes-runtime: memory.rs,            *)
(* learning.rs).                                                           *)
(*                                                                         *)
(* Every SQL statement commits by itself; a process holds its connection   *)
(* through an operation, so a process does one at a time and interleaves   *)
(* statement by statement with the others.  What matches a query, and how  *)
(* it ranks, is any choice; a text that screen_sensitive refuses is never   *)
(* written, and is left out.                                               *)
(***************************************************************************)
EXTENDS Naturals, Sequences, FiniteSets, SequencesExt

CONSTANTS
    MemProcs,     \* processes on the database
    Texts,        \* normalised contents
    MaxOps        \* bound: rows, validations and changes of status together

ASSUME MemoriesAssumption == MaxOps \in Nat

VARIABLES
    mems,     \* the table, in order of insertion
    doing,    \* the statement a process is at, and what it has read
    hits,     \* what the last recall of a process returned
    moves

memVars == <<mems, doing, hits, moves>>

Categories == {"target", "pattern", "skill"}
Statuses == {"active", "staged", "disabled", "archived"}

Idle == [op |-> "idle", id |-> 0, list |-> <<>>, to |-> "none"]
Doing(op, id) == [Idle EXCEPT !.op = op, !.id = id]

\* A row.  proven, linked, unlinked, steady, restored and origin are to judge by:
\* promote found its validation passed; its store has returned; the links of
\* another were overwritten; it has been active ever since; a rollback brought
\* it back; and who wrote it.
NewRow(cat, text, success, status, origin) ==
    [cat |-> cat, text |-> text, success |-> success, status |-> status, valid |-> FALSE,
     approved |-> FALSE, links |-> {}, supersedes |-> 0, proven |-> FALSE,
     linked |-> FALSE, unlinked |-> FALSE, steady |-> status = "active", restored |-> FALSE, origin |-> origin]

MemInit ==
    /\ mems = <<>> /\ moves = 0
    /\ doing = [p \in MemProcs |-> Idle]
    /\ hits = [p \in MemProcs |-> {}]

Free(p) == doing[p] = Idle /\ hits[p] = {}
HasRoom == Len(mems) + moves < MaxOps
Goes(p, d) == doing' = [doing EXCEPT ![p] = d]
Moves == HasRoom /\ moves' = moves + 1
SetStatus(id, status) == [mems EXCEPT ![id].status = status, ![id].steady = FALSE]

-----------------------------------------------------------------------------
(* Writers.                                                                *)

\* store: the row is inserted, a skill always staged; link_conflicts follows.
Inserted(p, cat, text, success, status, origin) ==
    /\ HasRoom
    /\ mems' = Append(mems, NewRow(cat, text, success,
                                   IF cat = "skill" THEN "staged" ELSE status, origin))
    /\ Goes(p, Doing("link", Len(mems) + 1))
    /\ UNCHANGED <<hits, moves>>

\* remember_observations.
Observe(p, text) == Free(p) /\ Inserted(p, "pattern", text, TRUE, "staged", "agent")

\* remember_flush_note: case state, secrets included.
FlushNote(p, text) == Free(p) /\ Inserted(p, "target", text, TRUE, "active", "other")

\* review_turn finds in a turn corrections of the user and, in a goal that was
\* verified, skills.
Proposed == {"target", "skill"}

\* is_duplicate_memory: search looks at rows of every status.
IsDuplicate(text) == \E n \in DOMAIN mems : mems[n].text = text

\* apply_review looks for a duplicate first; what is stored in between by
\* another process is not seen.
ReviewChecks(p, text, cat) ==
    /\ Free(p)
    /\ ~IsDuplicate(text)
    /\ Goes(p, [Doing("learn", 0) EXCEPT !.list = <<cat, text>>])
    /\ UNCHANGED <<mems, hits, moves>>

\* A correction of the user is active at once unless memory_write_approval
\* asks for review; a skill is the agent's inference.
ReviewStores(p) ==
    /\ doing[p].op = "learn"
    /\ LET cat == doing[p].list[1]
           text == doing[p].list[2]
       IN IF cat = "skill" THEN Inserted(p, cat, text, TRUE, "staged", "agent")
          ELSE \E status \in {"active", "staged"} : Inserted(p, cat, text, TRUE, status, "other")

\* MemoryLayer::remember passes a caller's entry on, its verdict included.
Remember(p, cat, text, success) ==
    /\ Free(p)
    /\ Inserted(p, cat, text, success, "active", "other")

-----------------------------------------------------------------------------
(* link_conflicts.                                                         *)

\* Two rows that say the opposite of one another.
Contradict(a, b) == a.cat = b.cat /\ a.text = b.text /\ a.success # b.success

\* SELECT: the active rows the new one contradicts, with their links as read.
LinkRead(p) ==
    /\ doing[p].op = "link"
    /\ LET id == doing[p].id
           against == {n \in DOMAIN mems :
                         n # id /\ mems[n].status = "active" /\ Contradict(mems[n], mems[id])}
       IN Goes(p, [doing[p] EXCEPT !.op = "linking", !.to = against,
                                   !.list = {<<n, mems[n].links>> : n \in against}])
    /\ UNCHANGED <<mems, hits, moves>>

\* UPDATE of one of them, from what was read; they come in no set order.
LinkOther(p) ==
    /\ doing[p].op = "linking"
    /\ \E other \in doing[p].list :
         LET had == mems[other[1]].links
             links == IF doing[p].id \in other[2] THEN had ELSE other[2] \cup {doing[p].id}
         IN /\ mems' = [mems EXCEPT ![other[1]].links = links,
                                    ![other[1]].unlinked = @ \/ ~(had \subseteq links)]
            /\ Goes(p, [doing[p] EXCEPT !.list = @ \ {other}])
    /\ UNCHANGED <<hits, moves>>

\* UPDATE of the new row, if it contradicts any.
LinkSelf(p) ==
    /\ doing[p].op = "linking" /\ doing[p].list = {}
    /\ LET id == doing[p].id
       IN mems' = [mems EXCEPT ![id].links = IF doing[p].to = {} THEN @ ELSE doing[p].to,
                               ![id].linked = TRUE]
    /\ Goes(p, Idle)
    /\ UNCHANGED <<hits, moves>>

-----------------------------------------------------------------------------
(* Recall.                                                                 *)

Recallable == {n \in DOMAIN mems : mems[n].status = "active"}
Copies(ids) == {[id |-> n, row |-> mems[n]] : n \in ids}

\* The lexical candidates, read in one statement.
RecallLexical(p) ==
    /\ Free(p)
    /\ \E found \in SUBSET Recallable :
         Goes(p, [Doing("recall", 0) EXCEPT !.to = Copies(found)])
    /\ UNCHANGED <<mems, hits, moves>>

\* Fault: only the links of the better ranked row count.
OpposesOneWay(a, b) == b.id \in a.row.links \/ a.row.supersedes = b.id

\* Either row names the other.
Opposes(a, b) ==
    \/ b.id \in a.row.links \/ a.id \in b.row.links
    \/ a.row.supersedes = b.id \/ b.row.supersedes = a.id

\* A row is kept unless one kept before it opposes it, the best ranked first.
KeepUnlessOpposed(kept, c) == IF \E k \in kept : Opposes(k, c) THEN kept ELSE kept \cup {c}
Kept(ranked) == FoldLeft(KeepUnlessOpposed, {}, ranked)

\* The semantic candidates that were not found before are loaded, everything
\* is ranked and cut, and the losers of a conflict are dropped.
RecallRest(p) ==
    /\ doing[p].op = "recall"
    /\ LET more == Recallable \ {c.id : c \in doing[p].to}
       IN \E top \in SUBSET (doing[p].to \cup Copies(more)) :
            \E ranked \in SetToSeqs(top) : hits' = [hits EXCEPT ![p] = Kept(ranked)]
    /\ Goes(p, Idle)
    /\ UNCHANGED <<mems, moves>>

\* recall_for_turn adds to the session what is new in it and fits.
Inject(p) ==
    /\ doing[p] = Idle /\ hits[p] # {}
    /\ hits' = [hits EXCEPT ![p] = {}]
    /\ UNCHANGED <<mems, doing, moves>>

\* recall_timeout_ms: the turn goes on without memories.
RecallTimesOut(p) ==
    /\ doing[p].op = "recall"
    /\ Goes(p, Idle)
    /\ UNCHANGED <<mems, hits, moves>>

-----------------------------------------------------------------------------
(* The life of a row.                                                      *)

\* record_validation.
Validate(p, id, passed) ==
    /\ Free(p) /\ Moves /\ mems[id].valid # passed
    /\ mems' = [mems EXCEPT ![id].valid = passed]
    /\ UNCHANGED <<doing, hits>>

MayPromote(row) == row.status = "staged" /\ (row.cat = "skill" => row.valid)

Promoting(id) == [Doing("promote", id) EXCEPT !.to = mems[id].valid]

\* promote: SELECT and UPDATE; what happens in between is overwritten.
PromoteRead(p, id) ==
    /\ Free(p) /\ MayPromote(mems[id]) /\ Moves
    /\ Goes(p, Promoting(id))
    /\ UNCHANGED <<mems, hits>>

\* apply_review with skill_write_approval off: the skills are listed, then
\* each is promoted as above.
AutoPromoteList(p, id) ==
    /\ Free(p) /\ Moves
    /\ mems[id].cat = "skill" /\ mems[id].status = "staged" /\ mems[id].valid
    /\ Goes(p, Doing("listed", id))
    /\ UNCHANGED <<mems, hits>>

AutoPromoteRead(p) ==
    /\ doing[p].op = "listed"
    /\ Goes(p, IF MayPromote(mems[doing[p].id]) THEN Promoting(doing[p].id) ELSE Idle)
    /\ UNCHANGED <<mems, hits, moves>>

PromoteWrite(p) ==
    /\ doing[p].op = "promote"
    /\ mems' = [SetStatus(doing[p].id, "active") EXCEPT ![doing[p].id].approved = TRUE,
                                                          ![doing[p].id].proven = doing[p].to]
    /\ Goes(p, Idle)
    /\ UNCHANGED <<hits, moves>>

\* disable and archive: transition.
LegalMoves == {<<"active", "disabled">>, <<"staged", "disabled">>, <<"disabled", "archived">>}

TransitionRead(p, id, to) ==
    /\ Free(p) /\ <<mems[id].status, to>> \in LegalMoves /\ Moves
    /\ Goes(p, [Doing("move", id) EXCEPT !.to = to])
    /\ UNCHANGED <<mems, hits>>

TransitionWrite(p) ==
    /\ doing[p].op = "move"
    /\ mems' = SetStatus(doing[p].id, doing[p].to)
    /\ Goes(p, Idle)
    /\ UNCHANGED <<hits, moves>>

\* new_version: INSERT of the staged successor, then the old row is disabled.
NewVersion(p, id, text) ==
    /\ Free(p) /\ HasRoom
    /\ mems' = Append(mems, [NewRow(mems[id].cat, text, mems[id].success, "staged", "other")
                               EXCEPT !.supersedes = id])
    /\ Goes(p, [Doing("move", id) EXCEPT !.to = "disabled"])
    /\ UNCHANGED <<hits, moves>>

\* rollback: the row is disabled and its parent, whatever became of it, active.
RollbackFirst(p, id) ==
    /\ Free(p) /\ mems[id].supersedes # 0 /\ Moves
    /\ mems' = SetStatus(id, "disabled")
    /\ Goes(p, Doing("restore", mems[id].supersedes))
    /\ UNCHANGED <<hits>>

RollbackSecond(p) ==
    /\ doing[p].op = "restore"
    /\ mems' = [SetStatus(doing[p].id, "active") EXCEPT ![doing[p].id].restored = TRUE]
    /\ Goes(p, Idle)
    /\ UNCHANGED <<hits, moves>>

\* consolidate inserts with the columns' defaults: active, no verdict, no links.
Consolidate(p, id, text) ==
    /\ Free(p) /\ HasRoom
    /\ mems' = Append(mems, NewRow(mems[id].cat, text, FALSE, "active", "merged"))
    /\ UNCHANGED <<doing, hits, moves>>

\* A process ends between two statements, or a statement fails: what it has
\* written stays.
Abandon(p) ==
    /\ doing[p] # Idle
    /\ Goes(p, Idle)
    /\ UNCHANGED <<mems, hits, moves>>

-----------------------------------------------------------------------------
MemNext == \E p \in MemProcs :
    \/ \E text \in Texts :
         \/ Observe(p, text) \/ FlushNote(p, text)
         \/ \E cat \in Proposed :
              ReviewChecks(p, text, cat) \/ \E s \in BOOLEAN : Remember(p, cat, text, s)
         \/ \E id \in DOMAIN mems : NewVersion(p, id, text) \/ Consolidate(p, id, text)
    \/ ReviewStores(p) \/ LinkRead(p) \/ LinkOther(p) \/ LinkSelf(p)
    \/ RecallLexical(p) \/ RecallRest(p) \/ Inject(p) \/ RecallTimesOut(p)
    \/ \E id \in DOMAIN mems :
         \/ \E passed \in BOOLEAN : Validate(p, id, passed)
         \/ PromoteRead(p, id) \/ AutoPromoteList(p, id) \/ RollbackFirst(p, id)
         \/ \E to \in {"disabled", "archived"} : TransitionRead(p, id, to)
    \/ AutoPromoteRead(p) \/ PromoteWrite(p) \/ TransitionWrite(p) \/ RollbackSecond(p)
    \/ Abandon(p)

MemSpec == MemInit /\ [][MemNext]_memVars

-----------------------------------------------------------------------------
\* Two rows of one recall that say the opposite of one another, both written by
\* stores that returned and active ever since.
BothSides(a, b) ==
    /\ Contradict(a.row, b.row) /\ a.row.linked /\ b.row.linked
    /\ mems[a.id].steady /\ mems[b.id].steady

\* One recall never presents a memory together with its contradiction, or
\* with the version it replaces, as fact: link_conflicts of two processes may
\* overwrite each other's links, but the later of two rows still names the
\* earlier one, unless the store of a third had read its links before it did.
NoContradiction(a, b) ==
    /\ BothSides(a, b) /\ a.id < b.id => b.row.unlinked
    /\ a.row.supersedes # b.id

\* A skill or an observation of the agent reaches the model only after
\* somebody approved it, a skill after a passed validation too, or as the
\* version a rollback brought back (promote's gate, over the staging of
\* remember_observations, apply_review, store and new_version).
Earned(c) ==
    c.row.restored \/ c.row.origin = "merged"
    \/ (/\ c.row.origin = "agent" => c.row.approved
        /\ c.row.cat = "skill" => c.row.proven)

\* Whatever processes store, link, promote, retire and merge meanwhile, what a
\* recall hands the model is free of contradictions, but for those whose link a
\* third store overwrote, and all of it has earned its place (recall, over the
\* store's links and gates).
RecallIsSound ==
    \A p \in MemProcs : \A a, b \in hits[p] : NoContradiction(a, b) /\ Earned(a)

\* What the store promises of its links: a recall never injects both sides of a
\* contradiction (store: "link both sides so recall never injects both as fact").
RecallTakesSides == \A p \in MemProcs : \A a, b \in hits[p] : ~BothSides(a, b)
=============================================================================
