----------------------------- MODULE CaseLedger -----------------------------
(***************************************************************************)
(* The Hypothesis Ledger of one case, as if every append were decided and  *)
(* stored in one step: the projection of its event stream, the reducer's   *)
(* rules (holmes-core ledger.rs), the deterministic validators and the     *)
(* assembly of a model response into one commit (holmes-runtime ledger/).  *)
(*                                                                         *)
(* LedgerStore, where sessions decide on copies they loaded earlier,       *)
(* implements this specification.                                          *)
(*                                                                         *)
(* A hypothesis has one required prediction, declared with it; an          *)
(* Experiment is known by its idempotency key; evidence ev-N is evs[N]; a  *)
(* link is known by what it says, since the reducer refuses two links that *)
(* say the same.  Claims, rationales and summaries are left out.           *)
(***************************************************************************)
EXTENDS Naturals, Sequences, FiniteSets, SequencesExt

CONSTANTS
  Hyps, Exps, Sessions,
  NoExp,
  Kinds,        \* which kinds of hypotheses are proposed
  Strengths,    \* which strengths are claimed for links
  Shapes,       \* which meta-actions one response may hold
  MaxVersion,   \* bound: no append beyond this ledger version
  MaxEvidence,  \* bound: no more evidence than this
  MaxLinks      \* bound: no more links than this

ASSUME LedgerAssumption ==
  /\ Hyps # {}
  /\ NoExp \notin Exps
  /\ Kinds \subseteq [high: BOOLEAN,
                      validator: {"Semantic", "HumanAttestation",
                                  "Reproduction"}]
  /\ Strengths \subseteq 1..4
  /\ Shapes \subseteq {"propose", "plan", "link", "resolve", "propose-plan",
                      "link-resolve", "resolve-resolve"}
  /\ MaxVersion \in Nat
  /\ MaxEvidence \in Nat
  /\ MaxLinks \in Nat

VARIABLES
  led,     \* the projection of the case's event stream
  version  \* cases.ledger_version: how many events there are (a proposal
           \* and the declaration of its prediction are one here)

lvars == <<led, version>>

Weak == 1
Moderate == 2
Strong == 3
Decisive == 4

Relations == {"Supports", "Contradicts", "Inconclusive"}
HypStatuses == {"absent", "Open", "Confirmed", "Rejected", "Inconclusive"}
Resolved == {"Confirmed", "Rejected", "Inconclusive"}
Ended == {"Observed", "Blocked", "Failed", "Cancelled", "Expired"}
ExpStatuses == {"absent", "Planned", "Queued", "Running"} \cup Ended

\* The prediction's validator; "Reproduction" stands for the five that replay
\* or compare something and whose links may be Strong.
Validators == {"Semantic", "HumanAttestation", "Reproduction"}

\* high: priority High or Critical.  task: a durable task executes it.
HypRecords == [status: HypStatuses, revision: Nat, high: BOOLEAN,
               validator: Validators]
ExpRecords == [status: ExpStatuses, revision: Nat, attempt: Nat,
               hyp: Hyps, evs: SUBSET Nat, task: BOOLEAN]
Evidence == [exp: Exps \cup {NoExp}, ok: BOOLEAN, by: Sessions]
Links == [ev: Nat, hyp: Hyps, rel: Relations, strength: Weak..Strong,
          validator: Validators]

\* by: whether the runtime's validator or the independent verifier stands
\* for it.  asked: what the verifier said of this very request.
Resolutions == [hyp: Hyps, status: Resolved, links: SUBSET Links,
                by: {"runtime", "independent"}, asked: BOOLEAN]

Snapshots == [hyps: [Hyps -> HypRecords], exps: [Exps -> ExpRecords],
              evs: Seq(Evidence), links: SUBSET Links,
              conflicts: SUBSET Hyps, resolutions: SUBSET Resolutions]

TypeOK ==
  /\ led \in Snapshots
  /\ version \in Nat

EmptyLedger ==
  [hyps |-> [h \in Hyps |-> [status |-> "absent", revision |-> 0,
                             high |-> FALSE, validator |-> "Semantic"]],
   exps |-> [x \in Exps |-> [status |-> "absent", revision |-> 0,
                             attempt |-> 0, hyp |-> CHOOSE h \in Hyps : TRUE,
                             evs |-> {}, task |-> FALSE]],
   evs |-> <<>>, links |-> {}, conflicts |-> {}, resolutions |-> {}]

Init == led = EmptyLedger /\ version = 0

-----------------------------------------------------------------------------
(***************************************************************************)
(* apply_ledger_event.                                                     *)
(***************************************************************************)
Known(s, h) == s.hyps[h].status # "absent"

\* The statuses transition_experiment lets an Experiment come from.
ComesFrom(to) ==
  CASE to = "Queued"   -> {"Planned"}
    [] to = "Running"  -> {"Planned", "Queued", "Running"}
    [] to = "Observed" -> {"Running"}
    [] to \in Ended \ {"Observed"} -> {"Planned", "Queued", "Running"}

\* The same evidence says the same of the same prediction.
SaysTheSame(l, m) == l.ev = m.ev /\ l.hyp = m.hyp /\ l.rel = m.rel

LinksOf(s, h) == {l \in s.links : l.hyp = h}

\* Fault: a request is stored whatever revision it was made for.
CurrentWhatever(s, e) == Known(s, e.hyp)

\* The revision e was made for is still the hypothesis' revision.
Current(s, e) == Known(s, e.hyp) /\ s.hyps[e.hyp].revision = e.revision

\* Event e may follow state s at version v.
Valid(s, v, e) ==
  CASE e.type = "Proposed" -> ~Known(s, e.hyp)
    [] e.type = "Planned"  -> /\ s.exps[e.exp].status = "absent"
                              /\ Known(s, e.hyp)
    [] e.type = "Moved"    -> /\ s.exps[e.exp].status \in ComesFrom(e.to)
                              /\ s.exps[e.exp].revision = e.revision
                              /\ e.attempt # 0 =>
                                   e.attempt > s.exps[e.exp].attempt
                              /\ e.evs \subseteq DOMAIN s.evs
    [] e.type = "Evidence" -> e.is.exp # NoExp =>
                                s.exps[e.is.exp].status # "absent"
    [] e.type = "Linked"   -> /\ e.link.ev \in DOMAIN s.evs
                              /\ Known(s, e.link.hyp)
                              /\ ~\E l \in s.links : SaysTheSame(l, e.link)
    [] e.type \in {"LinkRejected", "ResolutionRejected", "Contradiction"} ->
         Current(s, e)
    [] e.type = "Requested" -> /\ Current(s, e)
                               /\ e.links \subseteq LinksOf(s, e.hyp)
    [] e.type = "Resolved" -> /\ s.hyps[e.is.hyp].status = "Open"
                              /\ s.hyps[e.is.hyp].revision = e.revision
                              /\ e.is.links \subseteq LinksOf(s, e.is.hyp)
    [] e.type = "Deliberated" -> e.version = v

\* What it makes of s.
Applied(s, e) ==
  CASE e.type = "Proposed" ->
         [s EXCEPT !.hyps[e.hyp] = [status |-> "Open", revision |-> 1,
                                    high |-> e.high,
                                    validator |-> e.validator]]
    [] e.type = "Planned" ->
         [s EXCEPT !.exps[e.exp] = [status |-> "Planned", revision |-> 1,
                                    attempt |-> 0, hyp |-> e.hyp,
                                    evs |-> {}, task |-> FALSE]]
    [] e.type = "Moved" ->
         [s EXCEPT !.exps[e.exp] =
            [status |-> e.to, revision |-> e.revision + 1,
             attempt |-> IF e.attempt = 0 THEN s.exps[e.exp].attempt
                                          ELSE e.attempt,
             hyp |-> s.exps[e.exp].hyp,
             evs |-> IF e.to = "Observed" THEN e.evs
                                          ELSE s.exps[e.exp].evs,
             task |-> s.exps[e.exp].task \/ e.to = "Queued"]]
    [] e.type = "Evidence" -> [s EXCEPT !.evs = Append(s.evs, e.is)]
    [] e.type = "Linked" -> [s EXCEPT !.links = s.links \cup {e.link}]
    [] e.type = "Contradiction" ->
         [s EXCEPT !.conflicts = s.conflicts \cup {e.hyp}]
    [] e.type = "Resolved" ->
         [s EXCEPT !.hyps[e.is.hyp].status = e.is.status,
                   !.hyps[e.is.hyp].revision = e.revision + 1,
                   !.resolutions = s.resolutions \cup {e.is}]
    [] e.type \in {"LinkRejected", "ResolutionRejected", "Requested",
                   "Deliberated"} -> s

\* Several events, one after the other; at the first one that is not valid
\* all of them are refused.
Reduce(s, v, es) ==
  FoldLeft(LAMBDA acc, e :
             IF acc.ok /\ Valid(acc.led, acc.at, e)
             THEN [ok |-> TRUE, led |-> Applied(acc.led, e), at |-> acc.at + 1]
             ELSE [acc EXCEPT !.ok = FALSE],
           [ok |-> TRUE, led |-> s, at |-> v], es)

-----------------------------------------------------------------------------
(***************************************************************************)
(* The validators.                                                         *)
(***************************************************************************)
Cap(validator) ==
  IF validator \in {"Semantic", "HumanAttestation"} THEN Moderate ELSE Strong

Capped(strength, cap) == IF strength <= cap THEN strength ELSE cap

\* Fault: a failed call's output may support or contradict.
LinkAcceptedOfFailed(s, l) ==
  /\ l.ev \in DOMAIN s.evs
  /\ Known(s, l.hyp)
  /\ l.rel # "Inconclusive" =>
       /\ s.evs[l.ev].exp # NoExp
       /\ s.exps[s.evs[l.ev].exp].hyp = l.hyp

\* validate_link: Supports and Contradicts need a successful call that was
\* bound to the prediction before it ran.
LinkAccepted(s, l) ==
  /\ l.ev \in DOMAIN s.evs
  /\ Known(s, l.hyp)
  /\ l.rel # "Inconclusive" =>
       /\ s.evs[l.ev].ok
       /\ s.evs[l.ev].exp # NoExp
       /\ s.exps[s.evs[l.ev].exp].hyp = l.hyp

\* The link as accepted: the validator caps its strength.
AcceptedLink(s, l) ==
  [ev |-> l.ev, hyp |-> l.hyp, rel |-> l.rel,
   strength |-> IF l.rel = "Inconclusive" THEN Weak
                ELSE Capped(l.strength, Cap(s.hyps[l.hyp].validator)),
   validator |-> s.hyps[l.hyp].validator]

HasStrong(links, rel) ==
  \E l \in links : l.rel = rel /\ l.strength >= Strong

\* Fault: only the links the request names are searched for contradictions.
ResolutionAcceptedBlindly(s, r) ==
  LET named == r.links \cap LinksOf(s, r.hyp)
  IN /\ s.hyps[r.hyp].status = "Open"
     /\ s.hyps[r.hyp].revision = r.revision
     /\ r.links \subseteq LinksOf(s, r.hyp)
     /\ CASE r.status = "Confirmed" ->
               /\ \E l \in named : l.rel = "Supports"
               /\ s.hyps[r.hyp].high => HasStrong(named, "Supports")
               /\ ~HasStrong(named, "Contradicts")
          [] r.status = "Rejected" ->
               /\ HasStrong(named, "Contradicts")
               /\ ~HasStrong(named, "Supports")
          [] r.status = "Inconclusive" -> named # {}

\* validate_resolution.  Confirmed: a supporting link for the (required)
\* prediction, a strong one if the priority is high, and no strong
\* contradiction anywhere.  Rejected: a strong falsifier and no strong
\* support anywhere.  Inconclusive: some link, or an Experiment that ended.
ResolutionAccepted(s, r) ==
  /\ s.hyps[r.hyp].status = "Open"
  /\ s.hyps[r.hyp].revision = r.revision
  /\ r.links \subseteq LinksOf(s, r.hyp)
  /\ CASE r.status = "Confirmed" ->
            /\ \E l \in r.links : l.rel = "Supports"
            /\ s.hyps[r.hyp].high => HasStrong(r.links, "Supports")
            /\ ~HasStrong(LinksOf(s, r.hyp), "Contradicts")
       [] r.status = "Rejected" ->
            /\ HasStrong(r.links, "Contradicts")
            /\ ~HasStrong(LinksOf(s, r.hyp), "Supports")
       [] r.status = "Inconclusive" ->
            \/ r.links # {}
            \/ \E x \in Exps : /\ s.exps[x].status \in Ended
                               /\ s.exps[x].hyp = r.hyp

\* requires_independent_verification.
NeedsReview(s, r) ==
  s.hyps[r.hyp].high \/ \E l \in r.links \cap s.links : l.validator = "Semantic"

-----------------------------------------------------------------------------
(***************************************************************************)
(* assemble_meta_commit: the meta-actions of one response, in order, each  *)
(* validated against what the ones before it made of the ledger.           *)
(***************************************************************************)
Requests(ms) == {i \in DOMAIN ms : ms[i].kind = "resolve"}

\* review_resolution_requests, made against the ledger before the commit and
\* kept by hypothesis: the last request's verdict is the one that stays.
\* verdicts[i] is what the semantic verifier says of request i.
Approved(s, ms, verdicts, h) ==
  LET asked == {i \in Requests(ms) : ms[i].hyp = h /\ NeedsReview(s, ms[i])}
  IN /\ asked # {}
     /\ ResolutionAccepted(s, ms[Max(asked)])
     /\ verdicts[Max(asked)]

\* The events of one meta-action on working state w.
MetaEvents(w, m, approved, verdict) ==
  CASE m.kind = "propose" ->
         <<[type |-> "Proposed", hyp |-> m.hyp, high |-> m.high,
            validator |-> m.validator]>>
    [] m.kind = "plan" ->
         IF w.exps[m.exp].status # "absent" /\ m.bind = "none"
         THEN <<>>
         ELSE <<[type |-> "Planned", exp |-> m.exp, hyp |-> m.hyp]>>
    [] m.kind = "link" ->
         IF LinkAccepted(w, m)
         THEN LET l == AcceptedLink(w, m)
                  clash == \E k \in w.links :
                             /\ k.ev = l.ev /\ k.hyp = l.hyp
                             /\ {k.rel, l.rel} = {"Supports", "Contradicts"}
              IN <<[type |-> "Linked", link |-> l]>> \o
                 IF clash
                 THEN <<[type |-> "Contradiction", hyp |-> l.hyp,
                         revision |-> w.hyps[l.hyp].revision]>>
                 ELSE <<>>
         ELSE <<[type |-> "LinkRejected", hyp |-> m.hyp,
                 revision |-> w.hyps[m.hyp].revision]>>
    [] m.kind = "resolve" ->
         <<[type |-> "Requested", hyp |-> m.hyp, revision |-> m.revision,
            links |-> m.links]>> \o
         IF /\ ResolutionAccepted(w, m)
            /\ NeedsReview(w, m) => approved
         THEN <<[type |-> "Resolved", revision |-> m.revision,
                 is |-> [hyp |-> m.hyp, status |-> m.status,
                         links |-> m.links,
                         by |-> IF NeedsReview(w, m) THEN "independent"
                                                     ELSE "runtime",
                         asked |-> verdict]]>>
         ELSE <<[type |-> "ResolutionRejected", hyp |-> m.hyp,
                 revision |-> m.revision]>>

\* The commit: its events, and whether the assembler got to its end.
Assemble(s, v, ms, verdicts) ==
  FoldLeftDomain(
           LAMBDA acc, i :
             LET m == ms[i]
                 es == MetaEvents(acc.led, m,
                         m.kind = "resolve" /\ Approved(s, ms, verdicts, m.hyp),
                         m.kind = "resolve" /\ verdicts[i])
                 r == Reduce(acc.led, acc.at, es)
             IN [ok |-> acc.ok /\ r.ok, led |-> r.led, at |-> r.at,
                 evs |-> acc.evs \o es],
           [ok |-> TRUE, led |-> s, at |-> v, evs |-> <<>>], ms)

-----------------------------------------------------------------------------
(***************************************************************************)
(* What a model may propose when it sees ledger s.                         *)
(***************************************************************************)
KnownHyps(s) == {h \in Hyps : Known(s, h)}

Proposals(s) ==
  {[kind |-> "propose", hyp |-> h, high |-> k.high,
    validator |-> k.validator] : h \in Hyps \ KnownHyps(s), k \in Kinds}
Plans(hyps) ==
  [kind: {"plan"}, exp: Exps, hyp: hyps, bind: {"none", "direct", "spawn"}]
LinkProposals(s) ==
  [kind: {"link"}, ev: DOMAIN s.evs, hyp: KnownHyps(s), rel: Relations,
   strength: Strengths]
\* later: by how much the model guesses the revision to have risen.
ResolutionRequests(s, later) ==
  UNION {[kind: {"resolve"}, hyp: {h}, revision: {s.hyps[h].revision + later},
          status: Resolved, links: SUBSET LinksOf(s, h)] : h \in KnownHyps(s)}

Pairs(S, T) == {<<m, n>> : m \in S, n \in T}

BatchesOf(shape, s) ==
  CASE shape = "propose" -> {<<m>> : m \in Proposals(s)}
    [] shape = "plan"    -> {<<m>> : m \in Plans(KnownHyps(s))}
    [] shape = "link"    -> {<<m>> : m \in LinkProposals(s)}
    [] shape = "resolve" -> {<<m>> : m \in ResolutionRequests(s, 0)}
    [] shape = "propose-plan" ->
         {p \in Pairs(Proposals(s), Plans(Hyps)) : p[1].hyp = p[2].hyp}
    [] shape = "link-resolve" ->
         Pairs(LinkProposals(s), ResolutionRequests(s, 0))
    [] shape = "resolve-resolve" ->
         Pairs(ResolutionRequests(s, 0),
               ResolutionRequests(s, 0) \cup ResolutionRequests(s, 1))

Batches(s) == UNION {BatchesOf(shape, s) : shape \in Shapes}

-----------------------------------------------------------------------------
(***************************************************************************)
(* Appends.                                                                *)
(***************************************************************************)
\* The model's bounds.
InBounds(s) ==
  /\ Len(s.evs) <= MaxEvidence
  /\ Cardinality(s.links) <= MaxLinks

\* The transaction's second half: the events are replayed through the reducer
\* and stored, all of them or none.
AppendEvents(es) ==
  LET next == Reduce(led, version, es)
  IN /\ es # <<>>
     /\ next.ok
     /\ InBounds(next.led)
     /\ led' = next.led
     /\ version' = version + Len(es)
     /\ version' \in (version + 1)..MaxVersion

\* Commits that go beyond the bound are not assembled: a meta-action makes an
\* event (the plan of a known Experiment may make none), and a request two.
HasRoomFor(ms) == version + Len(ms) + Cardinality(Requests(ms)) <= MaxVersion

\* A response's ledger commit.
Commit(ms, verdicts) ==
  LET plan == Assemble(led, version, ms, verdicts)
  IN plan.ok /\ AppendEvents(plan.evs)

\* persist_cognitive_commit.
Deliberate == AppendEvents(<<[type |-> "Deliberated", version |-> version]>>)

\* Fault: an evidence receipt leaves cases.ledger_version as it was.
RecordQuietly(e) ==
  /\ e.ok \/ e.exp # NoExp
  /\ Len(led.evs) < MaxEvidence
  /\ led' = Applied(led, [type |-> "Evidence", is |-> e])
  /\ UNCHANGED version

\* Only a bound call's failure is evidence of anything.
Record(e) ==
  /\ e.ok \/ e.exp # NoExp
  /\ AppendEvents(<<[type |-> "Evidence", is |-> e]>>)

MoveOf(s, x, to, evs) ==
  [type |-> "Moved", exp |-> x, revision |-> s.exps[x].revision, to |-> to,
   attempt |-> IF to = "Running" THEN s.exps[x].attempt + 1 ELSE 0,
   evs |-> evs]

\* The runtime moves the Experiments it executes itself, the task store the
\* delegated ones.
Move(x, to, evs) ==
  /\ to # "Observed" => evs = {}
  /\ AppendEvents(<<MoveOf(led, x, to, evs)>>)

Next ==
  \/ Deliberate
  \/ \E e \in Evidence : Record(e)
  \/ \E x \in Exps, to \in ExpStatuses \ {"absent", "Planned"},
        evs \in SUBSET DOMAIN led.evs : Move(x, to, evs)
  \/ \E ms \in Batches(led) :
       /\ HasRoomFor(ms)
       /\ \E verdicts \in [Requests(ms) -> BOOLEAN] : Commit(ms, verdicts)

Spec == Init /\ [][Next]_lvars
-----------------------------------------------------------------------------
(***************************************************************************)
(* Safety.                                                                 *)
(***************************************************************************)
\* Every Confirmed hypothesis can be traced to what was observed: it has a
\* Confirmed resolution, which rests on a supporting link, to evidence of a
\* call that succeeded and that was bound to an Experiment on the very
\* prediction before it ran; one strong enough if the priority is high.
ConfirmedIsTraceable ==
  \A h \in Hyps : led.hyps[h].status = "Confirmed" =>
    \E r \in led.resolutions : \E l \in r.links \cap led.links :
      /\ r.hyp = h /\ r.status = "Confirmed"
      /\ l.hyp = h /\ l.rel = "Supports"
      /\ led.hyps[h].high => l.strength >= Strong
      /\ led.evs[l.ev].ok
      /\ led.evs[l.ev].exp \in Exps
      /\ led.exps[led.evs[l.ev].exp].hyp = h

\* A resolution that needed the independent verifier has its approval of this
\* very request, although verdicts are kept by hypothesis, a response may hold
\* several requests for one, and the last verdict overwrites the others.
ApprovalIsBound ==
  \A r \in led.resolutions :
    (led.hyps[r.hyp].high \/ \E l \in r.links : l.validator = "Semantic")
      => r.by = "independent" /\ r.asked

\* A hypothesis is Confirmed only while nothing strong contradicts it, and
\* Rejected only while nothing strong supports it, in the ledger that the
\* resolution goes into: a link that arrived while the model or the verifier
\* was thinking, or that the same response adds, counts.
Uncontested ==
  \A h \in Hyps :
    /\ led.hyps[h].status = "Open" /\ led'.hyps[h].status = "Confirmed"
         => ~HasStrong(LinksOf(led', h), "Contradicts")
    /\ led.hyps[h].status = "Open" /\ led'.hyps[h].status = "Rejected"
         => ~HasStrong(LinksOf(led', h), "Supports")

ResolvedUncontested == [][Uncontested]_lvars

=============================================================================
