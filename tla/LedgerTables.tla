---------------------------- MODULE LedgerTables ----------------------------
(***************************************************************************)
(* The tables of one case's ledger (ledger_store.rs) under several          *)
(* processes: the event rows, the commands that wrote them, the cached      *)
(* snapshot, and the session events that evidence receipts write beside     *)
(* them.  A write is one transaction; load is three statements outside      *)
(* any, and only other processes get in between (a process' own calls wait  *)
(* for its connection).  The reducer is reduced to what each event needs:   *)
(* CaseLedger has its rules.                                                *)
(***************************************************************************)
EXTENDS Naturals, Sequences, SequencesExt

CONSTANTS
  Clients,     \* the processes, one session each
  Payloads,    \* what a command may append: sequences of event ids, which are tuples
  TaskEvents,  \* event ids the task store appends in its own transactions
  Needs(_),    \* the event ids an event can only follow
  MinEvents,   \* ledger.snapshot_every_events
  MaxEntries,  \* bound on the events of the case
  MaxCommands, \* bound on the commands of a process, of either kind
  MaxCorrupt   \* bound on damage to the snapshot row

\* An id of evidence, which begins with "ev", is drawn by the store: nothing
\* else has one (record_evidence's uuid).
ASSUME TablesAssumption ==
  /\ \A payload \in Payloads :
       payload \in Seq(ToSet(payload)) /\ \A i \in DOMAIN payload : payload[i][1] # "ev"
  /\ \A id \in TaskEvents : id[1] # "ev"
  /\ {MinEvents, MaxEntries, MaxCommands, MaxCorrupt} \subseteq Nat

VARIABLES
  entries,  \* case_ledger_events in seq order: event id and command
  ledgerVersion,  \* cases.ledger_version
  commands, \* case_ledger_commands: payload, place and session event of each
  nextEv,   \* cases.next_evidence_seq
  tools,    \* each session's ToolResult events: the receipts they came with
  snapshot, \* the row of case_ledger_snapshots, if any
  client,   \* what each process is doing, and the last answer it had
  damage    \* times the snapshot row was damaged

ltVars == <<entries, ledgerVersion, commands, nextEv, tools, snapshot, client, damage>>

-----------------------------------------------------------------------------
\* content_hash is taken to be injective: a checksum is what was hashed.
Row(state) == [seq |-> Len(state), state |-> state, checksum |-> state]
IsSound(row) == row.state = row.checksum

NoRequest == [cmd |-> <<>>, payload |-> <<>>, expected |-> 0]
NoAnswer == [kind |-> "none"]
Resting == [at |-> "idle", known |-> 0, req |-> NoRequest, for |-> "none",
           durable |-> 0, cached |-> {}, ans |-> NoAnswer]

LTInit ==
  /\ entries = <<>> /\ ledgerVersion = 0 /\ commands = <<>> /\ nextEv = 1
  /\ tools = [c \in Clients |-> <<>>] /\ snapshot = {} /\ damage = 0
  /\ client = [c \in Clients |-> Resting]

\* Only what a load has found is remembered from one call to the next.
Goes(c, doing) == client' = [client EXCEPT ![c] = doing]
Asks(c, asking) ==
  client[c].at = "idle" /\ Goes(c, [asking EXCEPT !.known = client[c].known])
Answered(c, answer) == Goes(c, [Resting EXCEPT !.known = client[c].known, !.ans = answer])

Ids(es) == {es[i].id : i \in DOMAIN es}

\* apply_ledger_event over the batch, and the check of each event's id.
Fits(ids) ==
  \A i \in DOMAIN ids :
    LET before == Ids(entries) \cup {ids[j] : j \in 1..(i - 1)}
    IN ids[i] \notin before /\ Needs(ids[i]) \subseteq before

\* The rows of one transaction: command, events and the case's version.
Writes(cmd, payload, ids, index) ==
  /\ ledgerVersion + Len(ids) <= MaxEntries
  /\ entries' = entries \o [i \in DOMAIN ids |-> [id |-> ids[i], cmd |-> cmd]]
  /\ ledgerVersion' = ledgerVersion + Len(ids)
  /\ commands' =
       [known \in DOMAIN commands \cup {cmd} |->
          IF known # cmd THEN commands[known]
          ELSE [payload |-> payload, first |-> ledgerVersion + 1,
                count |-> Len(ids), index |-> index]]

-----------------------------------------------------------------------------
\* append.  A caller may repeat a command whose answer it lost, and may reuse
\* an id for something else.
AskAppend(c, n, payload) ==
  /\ Asks(c, [Resting EXCEPT !.at = "append",
                              !.req = [cmd |-> <<"cmd", c, n>>, payload |-> payload,
                                       expected |-> client[c].known]])
  /\ UNCHANGED <<entries, ledgerVersion, commands, nextEv, tools, snapshot, damage>>

Refusal(kind, req) == [kind |-> kind, cmd |-> req.cmd, payload |-> req.payload]

Stored(cmd) ==
  [kind |-> "appended", cmd |-> cmd, payload |-> commands[cmd].payload,
   place |-> commands[cmd].first .. (commands[cmd].first + commands[cmd].count - 1)]

\* Fault: the version is compared before the command is looked up.
AppendVersionFirst(c) ==
  /\ client[c].at = "append"
  /\ LET req == client[c].req
     IN \/ /\ ledgerVersion # req.expected
           /\ Answered(c, Refusal("conflict", req))
           /\ UNCHANGED <<entries, ledgerVersion, commands>>
        \/ /\ ledgerVersion = req.expected /\ req.cmd \in DOMAIN commands
           /\ Answered(c, IF commands[req.cmd].payload = req.payload
                          THEN Stored(req.cmd) ELSE Refusal("reused", req))
           /\ UNCHANGED <<entries, ledgerVersion, commands>>
        \/ /\ ledgerVersion = req.expected /\ req.cmd \notin DOMAIN commands /\ Fits(req.payload)
           /\ Writes(req.cmd, req.payload, req.payload, 0)
           /\ Answered(c, [kind |-> "appended", cmd |-> req.cmd, payload |-> req.payload,
                           place |-> (ledgerVersion + 1) .. (ledgerVersion + Len(req.payload))])
  /\ UNCHANGED <<nextEv, tools, snapshot, damage>>

AppendCommand(c) ==
  /\ client[c].at = "append"
  /\ LET req == client[c].req
         known == req.cmd \in DOMAIN commands
     IN \/ /\ known
           /\ Answered(c, IF commands[req.cmd].payload = req.payload
                          THEN Stored(req.cmd) ELSE Refusal("reused", req))
           /\ UNCHANGED <<entries, ledgerVersion, commands>>
        \/ /\ ~known /\ ledgerVersion # req.expected
           /\ Answered(c, Refusal("conflict", req))
           /\ UNCHANGED <<entries, ledgerVersion, commands>>
        \/ /\ ~known /\ ledgerVersion = req.expected /\ ~Fits(req.payload)
           /\ Answered(c, Refusal("invalid", req))
           /\ UNCHANGED <<entries, ledgerVersion, commands>>
        \/ /\ ~known /\ ledgerVersion = req.expected /\ Fits(req.payload)
           /\ Writes(req.cmd, req.payload, req.payload, 0)
           /\ Answered(c, [kind |-> "appended", cmd |-> req.cmd, payload |-> req.payload,
                           place |-> (ledgerVersion + 1) .. (ledgerVersion + Len(req.payload))])
  /\ UNCHANGED <<nextEv, tools, snapshot, damage>>

\* append_ledger_events_in_transaction: the task store's writes read the
\* version in their transaction and use each command once.
MoveTask(id) ==
  /\ Fits(<<id>>)
  /\ Writes(<<"task", id>>, <<id>>, <<id>>, 0)
  /\ UNCHANGED <<nextEv, tools, snapshot, client, damage>>

\* record_evidence: under whatever version the case has.
AskReceipt(c, n) ==
  /\ Asks(c, [Resting EXCEPT !.at = "receipt",
                              !.req = [cmd |-> <<"receipt", c, n>>, payload |-> <<>>,
                                       expected |-> 0]])
  /\ UNCHANGED <<entries, ledgerVersion, commands, nextEv, tools, snapshot, damage>>

Receipt(cmd, index, at, v) ==
  [kind |-> "receipt", cmd |-> cmd, index |-> index, at |-> at, version |-> v]

RecordEvidence(c) ==
  /\ client[c].at = "receipt"
  /\ LET cmd == client[c].req.cmd
     IN IF cmd \in DOMAIN commands
        THEN /\ Answered(c, Receipt(cmd, commands[cmd].index, commands[cmd].first, ledgerVersion))
             /\ UNCHANGED <<entries, ledgerVersion, commands, nextEv, tools>>
        ELSE /\ Writes(cmd, <<>>, <<<<"ev", nextEv>>>>, Len(tools[c]) + 1)
             /\ tools' = [tools EXCEPT ![c] = Append(@, cmd)]
             /\ nextEv' = nextEv + 1
             /\ Answered(c, Receipt(cmd, Len(tools[c]) + 1, ledgerVersion + 1, ledgerVersion + 1))
  /\ UNCHANGED <<snapshot, damage>>

-----------------------------------------------------------------------------
\* load, for the caller or as the first half of compact_snapshot.
LoadVersion(c, for) ==
  /\ Asks(c, [Resting EXCEPT !.at = "cache", !.for = for, !.durable = ledgerVersion])
  /\ UNCHANGED <<entries, ledgerVersion, commands, nextEv, tools, snapshot, damage>>

\* A row that is damaged, or newer than the version read before, is ignored.
Usable(row, durable) == IsSound(row) /\ row.seq <= durable

LoadSnapshot(c) ==
  /\ client[c].at = "cache"
  /\ Goes(c, [client[c] EXCEPT !.at = "events",
                                !.cached = {row \in snapshot : Usable(row, client[c].durable)}])
  /\ UNCHANGED <<entries, ledgerVersion, commands, nextEv, tools, snapshot, damage>>

\* With a snapshot only the rows up to the durable version are read, without
\* one all there are: if another process has appended since, load fails.
LoadEvents(c) ==
  /\ client[c].at = "events"
  /\ LET durable == client[c].durable
         state == IF client[c].cached = {} THEN entries
                  ELSE LET row == CHOOSE r \in client[c].cached : TRUE
                       IN row.state \o SubSeq(entries, row.seq + 1, durable)
     IN \/ /\ Len(state) # durable
           /\ Answered(c, [kind |-> "load_failed"])
        \/ /\ Len(state) = durable /\ client[c].for = "use"
           /\ Goes(c, [Resting EXCEPT !.known = durable,
                                      !.ans = [kind |-> "loaded", state |-> state]])
        \/ /\ Len(state) = durable /\ client[c].for = "compact"
           /\ Goes(c, [client[c] EXCEPT !.at = "compact", !.cached = {Row(state)}])
  /\ UNCHANGED <<entries, ledgerVersion, commands, nextEv, tools, snapshot, damage>>

\* compact_snapshot's transaction: only for the version the case still has,
\* and not for a few events, unless the row there is damaged.
Compact(c) ==
  /\ client[c].at = "compact"
  /\ \E row \in client[c].cached :
       snapshot' = IF \/ row.seq # ledgerVersion
                      \/ \E old \in snapshot : IsSound(old) /\ row.seq < old.seq + MinEvents
                   THEN snapshot ELSE {row}
  /\ Answered(c, NoAnswer)
  /\ UNCHANGED <<entries, ledgerVersion, commands, nextEv, tools, damage>>

-----------------------------------------------------------------------------
\* A crash, a dropped future, or a store too busy for the retries; only the
\* first forgets the ledger that was loaded.
GivesUp(c) ==
  /\ client[c].at # "idle"
  /\ \E known \in {0, client[c].known} : Goes(c, [Resting EXCEPT !.known = known])
  /\ UNCHANGED <<entries, ledgerVersion, commands, nextEv, tools, snapshot, damage>>

\* The row's state is damaged and its checksum is not.
Damage ==
  /\ damage < MaxCorrupt /\ \E row \in snapshot : row.state # <<>>
  /\ snapshot' = {[row EXCEPT !.state = Tail(@)] : row \in snapshot}
  /\ damage' = damage + 1
  /\ UNCHANGED <<entries, ledgerVersion, commands, nextEv, tools, client>>

LTNext ==
  \/ \E c \in Clients :
       \/ \E n \in 1..MaxCommands, payload \in Payloads : AskAppend(c, n, payload)
       \/ \E n \in 1..MaxCommands : AskReceipt(c, n)
       \/ \E for \in {"use", "compact"} : LoadVersion(c, for)
       \/ AppendCommand(c) \/ RecordEvidence(c)
       \/ LoadSnapshot(c) \/ LoadEvents(c) \/ Compact(c) \/ GivesUp(c)
  \/ \E id \in TaskEvents : MoveTask(id)
  \/ Damage

LTSpec == LTInit /\ [][LTNext]_ltVars

-----------------------------------------------------------------------------
\* Where a command's rows are.
Places(cmd) == {i \in DOMAIN entries : entries[i].cmd = cmd}

\* What the store answers is so, whatever was repeated, lost or damaged and
\* whoever wrote in between:
\*  - a loaded ledger is a beginning of the event stream;
\*  - an appended command is in the stream once, where the answer says, and
\*    with the payload of the request, also when the answer is a repeat's;
\*  - a version conflict is only answered for a command that is not stored;
\*  - a receipt has one session event, at the index answered, and one piece
\*    of evidence, and no two pieces of evidence share an id.
AnswersAreTrue ==
  /\ ledgerVersion = Len(entries)
  /\ \A i, j \in DOMAIN entries : entries[i].id = entries[j].id => i = j
  /\ \A c \in Clients :
       LET a == client[c].ans
       IN /\ a.kind = "loaded" => a.state = SubSeq(entries, 1, Len(a.state))
          /\ a.kind = "appended" =>
               /\ Places(a.cmd) = a.place
               /\ [i \in 1..Len(a.payload) |->
                     entries[commands[a.cmd].first + i - 1].id] = a.payload
          /\ a.kind = "conflict" => a.cmd \notin DOMAIN commands
          /\ a.kind = "receipt" =>
               /\ Places(a.cmd) = {a.at} /\ a.at <= a.version
               /\ {i \in DOMAIN tools[c] : tools[c][i] = a.cmd} = {a.index}
=============================================================================
