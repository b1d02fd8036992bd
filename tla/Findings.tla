------------------------------ MODULE Findings ------------------------------
(***************************************************************************)
(* Findings and the bounty workflow: from a report_finding call and the     *)
(* Resolutions it cites to the validated zone, the event log, the next turn *)
(* and the report (holmes-runtime: runtime.rs, action.rs, bounty.rs;        *)
(* holmes-guards: bounty.rs, skeptic_gate.rs; holmes-core: bounty,          *)
(* state/builders.rs).                                                      *)
(*                                                                         *)
(* The state is built anew for every turn and seeded from the log.  Hosts   *)
(* and URLs are what the matching of scope entries can tell apart: an       *)
(* identifier carries the entries and URL prefixes that match it.           *)
(***************************************************************************)
EXTENDS Naturals, Sequences, SequencesExt

CONSTANTS
    Resolutions,     \* Resolution ids of the case
    ModelCalls,      \* what the model may send: a set of calls
    MaxFindBatch,        \* bound: calls in a batch
    MaxLogged        \* bound: events of the log

\* What a report cites is the id of a Resolution, made or not.
ASSUME FindingsAssumption ==
    /\ MaxFindBatch \in Nat /\ MaxLogged \in Nat
    /\ \A call \in ModelCalls : call.tool = "report_finding" => call.ids \subseteq Resolutions

VARIABLES
    status, contested,   \* the case: Resolutions and their contradictions
    found,                \* findings, program and assets of the turn
    pending,             \* queued for the log
    asked, stage,           \* the calls of the batch; the step of the turn
    flog,                \* FindingRecorded, ProgramScopeSet and AssetRecorded
    blind                \* the turn could not read the log

findVars == <<status, contested, found, pending, asked, stage, flog, blind>>

NoProgram == [name |-> "none"]
NoPlace == [kind |-> "none"]
Fresh == [findings |-> <<>>, program |-> NoProgram, assets |-> {}]

FindInit ==
    /\ status \in [Resolutions -> {"none", "confirmed"}]
    /\ contested = {}
    /\ found = Fresh /\ pending = <<>> /\ asked = <<>> /\ stage = "idle"
    /\ flog = <<>> /\ blind = FALSE

-----------------------------------------------------------------------------
(* Scope.                                                                  *)

\* validate: a program lists something.
Validates(program) == program.inScope # {}

\* The host of a URL prefix is allowed too, but not denied.
AllowHosts(program) == {e.host : e \in program.inScope}
DenyHosts(program) == {e.host : e \in {d \in program.outScope : d.kind # "url_prefix"}}
UrlPrefixes(entries) == {e.value : e \in {d \in entries : d.kind = "url_prefix"}}

HostInScope(program, x) ==
    /\ x.entries \cap DenyHosts(program) = {}
    /\ x.private => program.allowPrivate
    /\ x.entries \cap AllowHosts(program) # {}

\* A matching URL prefix is enough, but for a denied host.
UrlInScope(program, x) ==
    /\ x.prefixes \cap UrlPrefixes(program.outScope) = {}
    /\ IF x.prefixes \cap UrlPrefixes(program.inScope) # {} THEN x.entries \cap DenyHosts(program) = {}
       ELSE HostInScope(program, x)

InScope(program, x) ==
    CASE x.kind = "path" -> TRUE
      [] x.kind = "url" -> UrlInScope(program, x)
      [] x.kind = "host" -> HostInScope(program, x)

\* record_asset_or_reject.
Recordable(program, x) == program # NoProgram /\ InScope(program, x)

\* gate_finding; verified is what the caller knows of a Resolution.
Gated(program, call, verified) ==
    program # NoProgram =>
      /\ call.ids # {} /\ call.ids \subseteq verified
      /\ call.place # NoPlace /\ InScope(program, call.place)

-----------------------------------------------------------------------------
(* The case ledger, by this and other sessions.                            *)

\* A Resolution is immutable.
Resolve(r, s) ==
    /\ stage # "checking" /\ status[r] = "none"
    /\ status' = [status EXCEPT ![r] = s]
    /\ UNCHANGED <<contested, found, pending, asked, stage, flog, blind>>

Contest(r) ==
    /\ stage # "checking" /\ status[r] # "none"
    /\ contested' = contested \cup {r}
    /\ UNCHANGED <<status, found, pending, asked, stage, flog, blind>>

-----------------------------------------------------------------------------
(* The validated zone and its log.                                         *)

With(findings, f) == [t \in DOMAIN findings \cup {f.title} |-> IF t = f.title THEN f ELSE findings[t]]

\* Fault: the kept finding takes the citations of the weaker one.
KeptCitesNew(old, new) == [old EXCEPT !.ids = new.ids]

\* A Confirmed finding takes a place from a weaker one when it has none.
KeptFinding(old, new) == [old EXCEPT !.place = IF @ = NoPlace THEN new.place ELSE @]

\* record_finding: nothing weaker replaces a Confirmed finding.
RecordFinding(findings, f) ==
    IF f.title \in DOMAIN findings /\ findings[f.title].conf = "confirmed" /\ f.conf # "confirmed"
    THEN With(findings, KeptFinding(findings[f.title], f))
    ELSE With(findings, f)

Upserted(assets, x) == assets \cup {x}

Replayed(state, e) ==
    CASE e.type = "FindingRecorded" ->
           [state EXCEPT !.findings = RecordFinding(@, e.finding)]
      [] e.type = "ProgramScopeSet" -> [state EXCEPT !.program = e.program]
      [] e.type = "AssetRecorded" -> [state EXCEPT !.assets = Upserted(@, e.asset)]
      [] e.type = "ReportGenerated" -> state

\* seed_findings_from_events.
Seeded(events) == FoldLeft(Replayed, Fresh, events)

\* run_turn: a log that cannot be read is taken for an empty one.
StartTurn(readable) ==
    /\ stage = "idle" /\ Len(flog) < MaxLogged
    /\ found' = IF readable THEN Seeded(flog) ELSE Fresh
    /\ blind' = ~readable
    /\ stage' = "turn"
    /\ UNCHANGED <<status, contested, pending, asked, flog>>

-----------------------------------------------------------------------------
(* A batch.                                                                *)

Verified == {r \in Resolutions : status[r] \in {"confirmed", "rejected"}}

\* What backs a claim: Resolutions of that status nobody contradicts.
Backs(claim, ids) == ids # {} /\ \A r \in ids : status[r] = claim /\ r \notin contested

\* validate_bound_and_finding_calls, of a report_finding.
Attestable(call) ==
    /\ call.claim # "possible" => Backs(call.claim, call.ids)
    /\ Gated(found.program, call, Verified)

\* _ledger_validation; what the model sent in its place is overwritten.  clean
\* is to judge by: whether the citations bore the claim out at this moment.
Attested(call) ==
    [tool |-> call.tool, title |-> call.title, ids |-> call.ids, place |-> call.place,
     claim |-> IF call.claim = "possible" THEN "candidate" ELSE call.claim,
     clean |-> Backs(call.claim, call.ids)]

\* One call that does not pass turns the whole batch back.
Check(call) ==
    /\ stage \in {"turn", "checking"} /\ Len(asked) < MaxFindBatch
    /\ call.tool = "report_finding" => Attestable(call)
    /\ asked' = Append(asked, IF call.tool = "report_finding" THEN Attested(call) ELSE call)
    /\ stage' = "checking"
    /\ UNCHANGED <<status, contested, found, pending, flog, blind>>

Accept ==
    /\ stage = "checking"
    /\ stage' = "running"
    /\ UNCHANGED <<status, contested, found, pending, asked, flog, blind>>

\* BountyPreGuard, by the program as it is now; every attested citation counts
\* as verified.
PreBlocks(call) ==
    CASE call.tool = "report_finding" -> ~Gated(found.program, call, Resolutions)
      [] call.tool = "record_asset" -> ~Recordable(found.program, call.place)
      [] call.tool = "report_recon" -> found.program # NoProgram /\ ~InScope(found.program, call.place)
      [] call.tool = "generate_bounty_report" -> found.program = NoProgram
      [] call.tool = "set_program_scope" -> ~Validates(call.program)

\* SkepticGate: the finding a call makes.
FindingOf(call) ==
    [title |-> call.title, conf |-> call.claim, ids |-> call.ids, place |-> call.place,
     clean |-> call.clean]

\* reportable_findings.
Reportable(state) ==
    {t \in DOMAIN state.findings :
       LET f == state.findings[t]
       IN /\ f.conf = "confirmed" /\ f.ids # {}
          /\ state.program # NoProgram => f.place # NoPlace /\ InScope(state.program, f.place)}

\* Fault: an asset is listed without its event.
AssetUnlogged(x) ==
    IF Recordable(found.program, x)
    THEN found' = [found EXCEPT !.assets = Upserted(@, x)] /\ pending' = <<>>
    ELSE UNCHANGED <<found, pending>>

\* record_in_scope_asset.
RecordInScopeAsset(x) ==
    IF Recordable(found.program, x)
    THEN /\ found' = [found EXCEPT !.assets = Upserted(@, x)]
         /\ pending' = <<[type |-> "AssetRecorded", asset |-> x]>>
    ELSE UNCHANGED <<found, pending>>

SetProgram(program) ==
    /\ found' = [found EXCEPT !.program = program]
    /\ pending' = <<[type |-> "ProgramScopeSet", program |-> program]>>

\* record_and_persist_finding: the finding as it is now kept is what is logged.
RecordAndPersist(f) ==
    LET findings == RecordFinding(found.findings, f)
    IN /\ found' = [found EXCEPT !.findings = findings]
       /\ pending' = <<[type |-> "FindingRecorded", finding |-> findings[f.title]]>>

\* BountyWorkflowMiddleware: there must be something to report, or leave to
\* report nothing.
GenerateReport(call) ==
    /\ pending' = IF Reportable(found) # {} \/ call.allow_no_findings
                  THEN <<[type |-> "ReportGenerated"]>> ELSE <<>>
    /\ UNCHANGED found

\* The next call: the guard before it, the tool, the middleware and the guards
\* after it.  SkepticGate does not ask whether the tool succeeded.
RunCall(succeeds) ==
    /\ stage = "running" /\ asked # <<>> /\ pending = <<>> /\ Len(flog) < MaxLogged
    /\ asked' = Tail(asked)
    /\ LET call == Head(asked)
       IN IF PreBlocks(call) THEN UNCHANGED <<found, pending>>
          ELSE \/ call.tool = "report_finding" /\ RecordAndPersist(FindingOf(call))
               \/ call.tool # "report_finding" /\ ~succeeds /\ UNCHANGED <<found, pending>>
               \/ call.tool = "set_program_scope" /\ succeeds /\ SetProgram(call.program)
               \/ /\ call.tool \in {"record_asset", "report_recon"} /\ succeeds
                  /\ RecordInScopeAsset(call.place)
               \/ call.tool = "generate_bounty_report" /\ succeeds /\ GenerateReport(call)
    /\ UNCHANGED <<status, contested, stage, flog, blind>>

\* persist_pending_findings.
Persist ==
    /\ pending # <<>>
    /\ flog' = Append(flog, Head(pending)) /\ pending' = Tail(pending)
    /\ UNCHANGED <<status, contested, found, asked, stage, blind>>

\* The store refuses the event and the turn ends, or the process dies: what was
\* queued is gone.
PersistFails ==
    /\ stage # "idle"
    /\ pending' = <<>> /\ asked' = <<>> /\ stage' = "idle" /\ found' = Fresh /\ blind' = FALSE
    /\ UNCHANGED <<status, contested, flog>>

BatchEnds ==
    /\ stage = "running" /\ asked = <<>> /\ pending = <<>>
    /\ stage' = "turn"
    /\ UNCHANGED <<status, contested, found, pending, asked, flog, blind>>

EndTurn ==
    /\ stage = "turn"
    /\ stage' = "idle" /\ found' = Fresh /\ blind' = FALSE
    /\ UNCHANGED <<status, contested, pending, asked, flog>>

-----------------------------------------------------------------------------
FindNext ==
    \/ \E r \in Resolutions :
         Contest(r) \/ \E s \in {"confirmed", "rejected", "inconclusive"} : Resolve(r, s)
    \/ \E b \in BOOLEAN : StartTurn(b) \/ RunCall(b)
    \/ \E call \in ModelCalls : Check(call)
    \/ Accept \/ Persist \/ PersistFails \/ BatchEnds \/ EndTurn

FindSpec == FindInit /\ [][FindNext]_findVars

-----------------------------------------------------------------------------
\* A Confirmed finding cites Resolutions, all of them confirmed, that nobody
\* had contradicted when the Runtime attested them: in the turn that reported
\* it, after any number of re-reports of the same title, and in what a later
\* turn replays from the log (validate_bound_and_finding_calls, SkepticGate and
\* the merge of record_finding).
ConfirmedIsBacked ==
    \A state \in {found, Seeded(flog)} : \A t \in DOMAIN state.findings :
        LET f == state.findings[t]
        IN f.conf = "confirmed" =>
             f.ids # {} /\ f.clean /\ \A r \in f.ids : status[r] = "confirmed"

\* Between two calls of a turn that could read its log, the log replays to just
\* what the turn has: the next turn, or a resumed session, starts from the same
\* findings, program and assets.
ResumeRestoresFindings ==
    (stage # "idle" /\ ~blind /\ pending = <<>>) => Seeded(flog) = found
=============================================================================
