-------------------------- MODULE RememberingProofs -------------------------
(***************************************************************************)
(* What a session remembers, proved for every value of the constants: its  *)
(* findings are backed and restored from the log (FindInv), a recall of    *)
(* the memory table is sound (MemInv), and the conversation is always legal*)
(* on the wire, summarised from its own span and rebuilt from the log      *)
(* without loss (ConvInv).                                                 *)
(***************************************************************************)
EXTENDS ReplayProofs, Memories, Findings

IsSeq(s) == \E S : s \in Seq(S)

(***************************************************************************)
(* Findings.                                                               *)
(***************************************************************************)

Always(s) == TRUE
Seeding == INSTANCE SequenceFolds WITH Step <- Replayed, Base <- Fresh, P <- Always

LEMMA SeededIsFold == \A s : Seeding!Folded(s) = Seeded(s)
  BY DEF Seeded, FoldLeft, MapThenFoldSet, Max, Seeding!Folded, Seeding!FoldLeft,
         Seeding!MapThenFoldSet, Seeding!Max

LEMMA SeededEmpty == Seeded(<< >>) = Fresh
  BY Seeding!FoldEmpty, SeededIsFold

\* The log with one more event replays to one more step.
LEMMA SeededAppend ==
    ASSUME NEW s, IsSeq(s), NEW e
    PROVE  Seeded(Append(s, e)) = Replayed(Seeded(s), e) /\ IsSeq(Append(s, e))
<1>1. PICK S : s \in Seq(S)
  BY DEF IsSeq
<1> DEFINE T == S \cup {e}
<1>2. s \in Seq(T) /\ e \in T /\ Append(s, e) \in Seq(T)
  BY <1>1
<1> HIDE DEF T
<1>3. Seeding!Folded(Append(s, e)) = Replayed(Seeding!Folded(s), e)
  BY <1>2, Seeding!FoldAppend
<1> QED
  BY <1>2, <1>3, SeededIsFold DEF IsSeq

-----------------------------------------------------------------------------
ResStatuses == {"none", "confirmed", "rejected", "inconclusive"}

\* A finding, and what bears it out when the Resolutions are as st says.
IsFinding(f) ==
    f = [title |-> f.title, conf |-> f.conf, ids |-> f.ids, place |-> f.place, clean |-> f.clean]
FindingOK(f, st) ==
    /\ IsFinding(f)
    /\ f.conf = "confirmed" =>
         f.ids # {} /\ f.clean /\ \A r \in f.ids : r \in Resolutions /\ st[r] = "confirmed"

FindingsOK(findings, st) ==
    \A t \in DOMAIN findings : findings[t].title = t /\ FindingOK(findings[t], st)

StateOK(s, st) ==
    /\ s = [findings |-> s.findings, program |-> s.program, assets |-> s.assets]
    /\ FindingsOK(s.findings, st)

EventTypes == {"FindingRecorded", "ProgramScopeSet", "AssetRecorded", "ReportGenerated"}
EventOK(e, st) ==
    e.type \in EventTypes /\ (e.type = "FindingRecorded" => FindingOK(e.finding, st))

CallOK(c, st) == c.tool = "report_finding" => FindingOK(FindingOf(c), st)

FindInv ==
    /\ status \in [Resolutions -> ResStatuses]
    /\ stage \in {"idle", "turn", "checking", "running"}
    /\ StateOK(found, status)
    /\ IsSeq(flog) /\ StateOK(Seeded(flog), status)
    /\ IsSeq(asked) /\ \A i \in DOMAIN asked : CallOK(asked[i], status)
    /\ pending # <<>> =>
         stage = "running" /\ \E e : pending = <<e>> /\ EventOK(e, status)
    /\ (stage # "idle" /\ ~blind) =>
         found = IF pending = <<>> THEN Seeded(flog) ELSE Replayed(Seeded(flog), pending[1])

-----------------------------------------------------------------------------
\* A finding keeps what bears it out.
LEMMA BackedStays ==
    ASSUME NEW st \in [Resolutions -> ResStatuses], NEW r \in Resolutions, NEW s,
           st[r] = "none", NEW f, FindingOK(f, st)
    PROVE  FindingOK(f, [st EXCEPT ![r] = s])
  BY DEF FindingOK

LEMMA KeptIsFinding ==
    ASSUME NEW st, NEW old, FindingOK(old, st), NEW f
    PROVE  /\ FindingOK(KeptFinding(old, f), st)
           /\ KeptFinding(old, f).title = old.title /\ KeptFinding(old, f).conf = old.conf
<1> DEFINE k == KeptFinding(old, f)
<1>1. /\ k.title = old.title /\ k.conf = old.conf /\ k.ids = old.ids /\ k.clean = old.clean
      /\ IsFinding(k)
  BY DEF KeptFinding, FindingOK, IsFinding
<1> QED
  BY <1>1 DEF FindingOK

LEMMA WithOne ==
    ASSUME NEW st, NEW findings, FindingsOK(findings, st), NEW f, FindingOK(f, st)
    PROVE  /\ FindingsOK(With(findings, f), st)
           /\ f.title \in DOMAIN With(findings, f) /\ With(findings, f)[f.title] = f
  BY DEF With, FindingsOK

\* What record_finding keeps is sound, and recording what it keeps changes
\* nothing more: the log replays to the same findings.
LEMMA RecordKeeps ==
    ASSUME NEW st, NEW findings, FindingsOK(findings, st), NEW f, FindingOK(f, st)
    PROVE  LET k == RecordFinding(findings, f)[f.title]
           IN  /\ FindingsOK(RecordFinding(findings, f), st)
               /\ FindingOK(k, st)
               /\ RecordFinding(findings, k) = RecordFinding(findings, f)
<1>1. CASE f.title \in DOMAIN findings /\ findings[f.title].conf = "confirmed" /\ f.conf # "confirmed"
  <2> DEFINE k == KeptFinding(findings[f.title], f)
  <2>1. FindingOK(findings[f.title], st) /\ findings[f.title].title = f.title
    BY <1>1 DEF FindingsOK
  <2>2. FindingOK(k, st) /\ k.title = f.title /\ k.conf = "confirmed"
    BY <1>1, <2>1, KeptIsFinding
  <2> HIDE DEF k
  <2>3. RecordFinding(findings, f) = With(findings, k)
    BY <1>1 DEF RecordFinding, k
  <2>4. RecordFinding(findings, k) = With(findings, k)
    BY <2>2 DEF RecordFinding
  <2>5. FindingsOK(With(findings, k), st) /\ With(findings, k)[f.title] = k
    BY <2>2, WithOne
  <2> QED
    BY <2>2, <2>3, <2>4, <2>5
<1>2. CASE ~(f.title \in DOMAIN findings /\ findings[f.title].conf = "confirmed" /\ f.conf # "confirmed")
  <2>1. RecordFinding(findings, f) = With(findings, f)
    BY <1>2 DEF RecordFinding
  <2>2. FindingsOK(With(findings, f), st) /\ With(findings, f)[f.title] = f
    BY WithOne
  <2> QED
    BY <2>1, <2>2
<1> QED
  BY <1>1, <1>2

LEMMA ReplayedIsSound ==
    ASSUME NEW st, NEW s, StateOK(s, st), NEW e, EventOK(e, st)
    PROVE  StateOK(Replayed(s, e), st)
<1>1. CASE e.type = "FindingRecorded"
  <2>1. Replayed(s, e) = [s EXCEPT !.findings = RecordFinding(s.findings, e.finding)]
    BY <1>1 DEF Replayed
  <2>2. FindingsOK(RecordFinding(s.findings, e.finding), st)
    BY <1>1, RecordKeeps DEF StateOK, EventOK
  <2> QED
    BY <2>1, <2>2 DEF StateOK
<1>2. CASE e.type = "ProgramScopeSet"
  BY <1>2 DEF Replayed, StateOK
<1>3. CASE e.type = "AssetRecorded"
  BY <1>3 DEF Replayed, StateOK
<1>4. CASE e.type = "ReportGenerated"
  BY <1>4 DEF Replayed, StateOK
<1> QED
  BY <1>1, <1>2, <1>3, <1>4 DEF EventOK, EventTypes

-----------------------------------------------------------------------------
LEMMA FindInitOK == FindInit => FindInv
<1> SUFFICES ASSUME FindInit PROVE FindInv
  OBVIOUS
<1>1. Seeded(flog) = Fresh /\ found = Fresh /\ flog = <<>> /\ asked = <<>> /\ pending = <<>>
  BY SeededEmpty DEF FindInit
<1>2. StateOK(Fresh, status)
  BY DEF StateOK, Fresh, FindingsOK
<1>3. IsSeq(<< >>)
  BY DEF IsSeq
<1>4. status \in [Resolutions -> ResStatuses] /\ stage = "idle"
  BY DEF FindInit, ResStatuses
<1> QED
  BY <1>1, <1>2, <1>3, <1>4 DEF FindInv

\* A Resolution is made: everything stays borne out.
LEMMA ResolveKeeps ==
    ASSUME FindInv, NEW r \in Resolutions, NEW s \in ResStatuses, Resolve(r, s)
    PROVE  FindInv'
<1>1. /\ status \in [Resolutions -> ResStatuses] /\ status[r] = "none"
      /\ status' = [status EXCEPT ![r] = s]
      /\ UNCHANGED <<contested, found, pending, asked, stage, flog, blind>>
  BY DEF FindInv, Resolve
<1>2. \A f : FindingOK(f, status) => FindingOK(f, status')
  BY <1>1, BackedStays
<1>3. \A x : StateOK(x, status) => StateOK(x, status')
  BY <1>2 DEF StateOK, FindingsOK
<1>4. \A x : EventOK(x, status) => EventOK(x, status')
  BY <1>2 DEF EventOK
<1>5. \A x : CallOK(x, status) => CallOK(x, status')
  BY <1>2 DEF CallOK
<1>6. status' \in [Resolutions -> ResStatuses]
  BY <1>1
<1> QED
  BY <1>1, <1>3, <1>4, <1>5, <1>6 DEF FindInv

LEMMA StartTurnKeeps ==
    ASSUME FindInv, NEW readable \in BOOLEAN, StartTurn(readable)
    PROVE  FindInv'
<1>1. StateOK(Fresh, status)
  BY DEF StateOK, Fresh, FindingsOK
<1> QED
  BY <1>1 DEF FindInv, StartTurn

\* What is attested is borne out.
LEMMA AttestedIsBacked ==
    ASSUME NEW call \in ModelCalls, call.tool = "report_finding", Attestable(call)
    PROVE  CallOK(Attested(call), status)
<1> DEFINE f == FindingOf(Attested(call))
<1>1. /\ f.ids = call.ids /\ f.clean = Backs(call.claim, call.ids)
      /\ f.conf = IF call.claim = "possible" THEN "candidate" ELSE call.claim
      /\ IsFinding(f)
  BY DEF FindingOf, Attested, IsFinding
<1>2. call.ids \subseteq Resolutions
  BY FindingsAssumption
<1>3. ASSUME f.conf = "confirmed" PROVE call.claim = "confirmed" /\ Backs(call.claim, call.ids)
  BY <1>1, <1>3 DEF Attestable
<1> HIDE DEF f
<1>4. ASSUME f.conf = "confirmed"
      PROVE  f.ids # {} /\ f.clean /\ \A r \in f.ids : r \in Resolutions /\ status[r] = "confirmed"
  BY <1>1, <1>2, <1>3, <1>4 DEF Backs
<1> QED
  BY <1>1, <1>4 DEF CallOK, FindingOK, f

LEMMA CheckKeeps ==
    ASSUME FindInv, NEW call \in ModelCalls, Check(call)
    PROVE  FindInv'
<1> DEFINE c == IF call.tool = "report_finding" THEN Attested(call) ELSE call
<1>1. CallOK(c, status)
  BY AttestedIsBacked DEF Check, CallOK
<1> HIDE DEF c
<1>2. /\ asked' = Append(asked, c) /\ stage' = "checking" /\ stage \in {"turn", "checking"}
      /\ UNCHANGED <<status, contested, found, pending, flog, blind>>
  BY DEF Check, c
<1>3. PICK S : asked \in Seq(S)
  BY DEF FindInv, IsSeq
<1>4. asked' \in Seq(S \cup {c}) /\ \A i \in DOMAIN asked' : asked'[i] = c \/ (i \in DOMAIN asked /\ asked'[i] = asked[i])
  BY <1>2, <1>3
<1>5. \A i \in DOMAIN asked' : CallOK(asked'[i], status)
  BY <1>1, <1>4 DEF FindInv
<1>6. IsSeq(asked')
  BY <1>4 DEF IsSeq
<1>7. pending = <<>>
  BY <1>2 DEF FindInv
<1> QED
  BY <1>2, <1>5, <1>6, <1>7 DEF FindInv

\* A call is taken off the batch and what it does is queued for the log: the
\* event replays to just that.
LEMMA RunCallKeeps ==
    ASSUME FindInv, NEW succeeds \in BOOLEAN, RunCall(succeeds)
    PROVE  FindInv'
<1> DEFINE call == Head(asked)
<1>1. /\ stage = "running" /\ asked # <<>> /\ pending = <<>> /\ asked' = Tail(asked)
      /\ UNCHANGED <<status, contested, stage, flog, blind>>
  BY DEF RunCall
<1>2. PICK S : asked \in Seq(S)
  BY DEF FindInv, IsSeq
<1>3. /\ asked' \in Seq(S) /\ call = asked[1] /\ 1 \in DOMAIN asked
      /\ \A i \in DOMAIN asked' : i + 1 \in DOMAIN asked /\ asked'[i] = asked[i + 1]
  BY <1>1, <1>2
<1>4. IsSeq(asked') /\ CallOK(call, status) /\ \A i \in DOMAIN asked' : CallOK(asked'[i], status)
  BY <1>3 DEF FindInv, IsSeq
<1> DEFINE
      Quiet == pending' = <<>> /\ found' = found
      Tells(e) == /\ EventOK(e, status) /\ pending' = <<e>> /\ found' = Replayed(found, e)
<1> HIDE DEF call
<1>5. Quiet \/ \E e : Tells(e)
  <2>1. CASE UNCHANGED <<found, pending>>
    BY <1>1, <2>1
  <2>2. CASE call.tool = "report_finding" /\ RecordAndPersist(FindingOf(call))
    <3> DEFINE f == FindingOf(call)
               k == RecordFinding(found.findings, f)[f.title]
               e == [type |-> "FindingRecorded", finding |-> k]
    <3>1. FindingOK(f, status) /\ FindingsOK(found.findings, status)
      BY <1>4, <2>2 DEF CallOK, FindInv, StateOK
    <3> HIDE DEF f
    <3>2. FindingOK(k, status) /\ RecordFinding(found.findings, k) = RecordFinding(found.findings, f)
      BY <3>1, RecordKeeps
    <3>3. pending' = <<e>> /\ found' = [found EXCEPT !.findings = RecordFinding(found.findings, f)]
      BY <2>2 DEF RecordAndPersist, f
    <3> HIDE DEF k
    <3>4. Replayed(found, e) = [found EXCEPT !.findings = RecordFinding(found.findings, k)]
      BY DEF Replayed
    <3>5. EventOK(e, status)
      BY <3>2 DEF EventOK, EventTypes
    <3> QED
      BY <3>2, <3>3, <3>4, <3>5
  <2>3. ASSUME SetProgram(call.program) PROVE \E e : Tells(e)
    <3> DEFINE e == [type |-> "ProgramScopeSet", program |-> call.program]
    <3>1. pending' = <<e>> /\ found' = Replayed(found, e)
      BY <2>3 DEF SetProgram, Replayed
    <3>2. EventOK(e, status)
      BY DEF EventOK, EventTypes
    <3> QED
      BY <3>1, <3>2
  <2>4. ASSUME RecordInScopeAsset(call.place) PROVE Quiet \/ \E e : Tells(e)
    <3> DEFINE e == [type |-> "AssetRecorded", asset |-> call.place]
    <3>1. EventOK(e, status)
      BY DEF EventOK, EventTypes
    <3>2. CASE Recordable(found.program, call.place)
      <4>1. pending' = <<e>> /\ found' = Replayed(found, e)
        BY <2>4, <3>2 DEF RecordInScopeAsset, Replayed
      <4> QED
        BY <3>1, <4>1
    <3>3. CASE ~Recordable(found.program, call.place)
      BY <1>1, <2>4, <3>3 DEF RecordInScopeAsset
    <3> QED
      BY <3>2, <3>3
  <2>5. ASSUME GenerateReport(call) PROVE Quiet \/ \E e : Tells(e)
    <3> DEFINE e == [type |-> "ReportGenerated"]
    <3>1. EventOK(e, status) /\ Replayed(found, e) = found
      BY DEF EventOK, EventTypes, Replayed
    <3>2. found' = found /\ (pending' = <<e>> \/ pending' = <<>>)
      BY <2>5 DEF GenerateReport
    <3> QED
      BY <3>1, <3>2
  <2> QED
    BY <2>1, <2>2, <2>3, <2>4, <2>5 DEF RunCall, call
<1>6. CASE Quiet
  BY <1>1, <1>4, <1>6 DEF FindInv
<1>7. ASSUME NEW e, Tells(e) PROVE FindInv'
  <2>1. StateOK(Replayed(found, e), status)
    BY <1>7, ReplayedIsSound DEF FindInv
  <2>2. pending'[1] = e /\ pending' # <<>>
    BY <1>7
  <2>3. ~blind => found = Seeded(flog)
    BY <1>1 DEF FindInv
  <2> QED
    BY <1>1, <1>4, <1>7, <2>1, <2>2, <2>3 DEF FindInv
<1> QED
  BY <1>5, <1>6, <1>7

LEMMA PersistKeeps ==
    ASSUME FindInv, Persist
    PROVE  FindInv'
<1>1. PICK e : pending = <<e>> /\ EventOK(e, status)
  BY DEF FindInv, Persist
<1>2. /\ flog' = Append(flog, e) /\ pending' = <<>> /\ pending[1] = e /\ pending # <<>>
      /\ UNCHANGED <<status, contested, found, asked, stage, blind>>
  BY <1>1 DEF Persist
<1>3. Seeded(flog') = Replayed(Seeded(flog), e) /\ IsSeq(flog')
  BY <1>2, SeededAppend DEF FindInv
<1>4. StateOK(Seeded(flog'), status)
  BY <1>1, <1>3, ReplayedIsSound DEF FindInv
<1> QED
  BY <1>2, <1>3, <1>4 DEF FindInv

LEMMA FindNextKeeps == FindInv /\ [FindNext]_findVars => FindInv'
<1> SUFFICES ASSUME FindInv, [FindNext]_findVars PROVE FindInv'
  OBVIOUS
<1>0. StateOK(Fresh, status) /\ IsSeq(<< >>)
  BY DEF StateOK, Fresh, FindingsOK, IsSeq
<1>1. CASE \E r \in Resolutions : Contest(r)
  BY <1>1 DEF Contest, FindInv
<1>2. CASE \E r \in Resolutions, s \in {"confirmed", "rejected", "inconclusive"} : Resolve(r, s)
  BY <1>2, ResolveKeeps DEF ResStatuses
<1>3. CASE \E b \in BOOLEAN : StartTurn(b)
  BY <1>3, StartTurnKeeps
<1>4. CASE \E b \in BOOLEAN : RunCall(b)
  BY <1>4, RunCallKeeps
<1>5. CASE \E call \in ModelCalls : Check(call)
  BY <1>5, CheckKeeps
<1>6. CASE Accept
  BY <1>6 DEF Accept, FindInv
<1>7. CASE Persist
  BY <1>7, PersistKeeps
<1>8. CASE PersistFails
  BY <1>0, <1>8 DEF PersistFails, FindInv
<1>9. CASE BatchEnds
  BY <1>9 DEF BatchEnds, FindInv
<1>10. CASE EndTurn
  BY <1>0, <1>10 DEF EndTurn, FindInv
<1>11. CASE UNCHANGED findVars
  BY <1>11 DEF findVars, FindInv
<1> QED
  BY <1>1, <1>2, <1>3, <1>4, <1>5, <1>6, <1>7, <1>8, <1>9, <1>10, <1>11 DEF FindNext

LEMMA FindInvHolds == FindSpec => []FindInv
  BY FindInitOK, FindNextKeeps, PTL DEF FindSpec

\* Whatever Resolutions are made, whatever the model reports and wherever a
\* session stops between a tool and the log, a finding that reads confirmed has
\* the confirmed Resolutions it names (bounty_attestation, record_finding).
THEOREM ConfirmedIsBackedHolds == FindSpec => []ConfirmedIsBacked
<1>1. FindInv => ConfirmedIsBacked
  BY DEF FindInv, ConfirmedIsBacked, StateOK, FindingsOK, FindingOK
<1> QED
  BY <1>1, FindInvHolds, PTL

\* A turn that could read the log works with the findings the log replays to,
\* but for the one event its last tool has yet to store
\* (BountyState::from_events, persist_tool_side_effects).
THEOREM ResumeRestoresFindingsHolds == FindSpec => []ResumeRestoresFindings
<1>1. FindInv => ResumeRestoresFindings
  BY DEF FindInv, ResumeRestoresFindings
<1> QED
  BY <1>1, FindInvHolds, PTL

-----------------------------------------------------------------------------
(***************************************************************************)
(* Memories.                                                               *)
(***************************************************************************)

(* What a recall keeps.                                                    *)

KeptOK(s) ==
    /\ Kept(s) \subseteq ToSet(s)
    /\ \A a, b \in Kept(s) : a = b \/ ~Opposes(a, b)

Keeping == INSTANCE SequenceFolds WITH Step <- KeepUnlessOpposed, Base <- {}, P <- KeptOK

LEMMA KeptIsFold == \A s : Keeping!Folded(s) = Kept(s)
  BY DEF Kept, FoldLeft, MapThenFoldSet, Max, Keeping!Folded, Keeping!FoldLeft,
         Keeping!MapThenFoldSet, Keeping!Max

LEMMA KeptAreUnopposed ==
    ASSUME NEW S
    PROVE  \A s \in Seq(S) : KeptOK(s)
<1>1. KeptOK(<< >>)
  <2>1. Kept(<< >>) = {}
    BY Keeping!FoldEmpty, KeptIsFold
  <2> QED
    BY <2>1 DEF KeptOK
<1>2. ASSUME NEW s \in Seq(S), NEW e \in S, KeptOK(s) PROVE KeptOK(Append(s, e))
  <2>1. Keeping!Folded(Append(s, e)) = KeepUnlessOpposed(Keeping!Folded(s), e)
    BY Keeping!FoldAppend
  <2>2. Kept(Append(s, e)) = KeepUnlessOpposed(Kept(s), e)
    BY <2>1, KeptIsFold
  <2>3. ToSet(Append(s, e)) = ToSet(s) \cup {e}
    <3>1. /\ DOMAIN Append(s, e) = 1..(Len(s) + 1) /\ DOMAIN s = 1..Len(s) /\ Len(s) \in Nat
          /\ \A i \in 1..Len(s) : Append(s, e)[i] = s[i]
          /\ Append(s, e)[Len(s) + 1] = e
      OBVIOUS
    <3> QED
      BY <3>1 DEF ToSet
  <2>4. \A a, b : Opposes(a, b) <=> Opposes(b, a)
    BY DEF Opposes
  <2>5. CASE \E k \in Kept(s) : Opposes(k, e)
    BY <1>2, <2>2, <2>3, <2>5 DEF KeptOK, KeepUnlessOpposed
  <2>6. CASE ~\E k \in Kept(s) : Opposes(k, e)
    <3>1. Kept(Append(s, e)) = Kept(s) \cup {e}
      BY <2>2, <2>6 DEF KeepUnlessOpposed
    <3> QED
      BY <1>2, <2>3, <2>4, <2>6, <3>1 DEF KeptOK
  <2> QED
    BY <2>5, <2>6
<1> QED
  BY <1>1, <1>2, Keeping!SequencesByAppend

-----------------------------------------------------------------------------
(* The table.                                                              *)

RowSet ==
    [cat : Categories, text : Texts, success : BOOLEAN, status : Statuses, valid : BOOLEAN,
     approved : BOOLEAN, links : SUBSET Nat, supersedes : Nat, proven : BOOLEAN,
     linked : BOOLEAN, unlinked : BOOLEAN, steady : BOOLEAN, restored : BOOLEAN,
     origin : {"agent", "other", "merged"}]

EarnedRow(row) ==
    row.restored \/ row.origin = "merged"
    \/ ((row.origin = "agent" => row.approved) /\ (row.cat = "skill" => row.proven))

\* A row that has been linked names every earlier one it contradicts that has
\* been active since, unless its links were overwritten.
Names(ms, n, row) ==
    (row.linked /\ ~row.unlinked) =>
      \A a \in DOMAIN ms : a < n /\ ms[a].steady /\ Contradict(ms[a], row) => a \in row.links

RowOK(ms, n, row) ==
    /\ row.steady => row.status = "active"
    /\ row.status = "active" => EarnedRow(row)
    /\ row.supersedes < n
    /\ Names(ms, n, row)

TableOK(ms) == ms \in Seq(RowSet) /\ \A n \in DOMAIN ms : RowOK(ms, n, ms[n])

SameClaim(a, b) ==
    a.cat = b.cat /\ a.text = b.text /\ a.success = b.success /\ a.supersedes = b.supersedes

\* What every step does to the table: rows keep what they claim, and none is
\* steady again.
Grows(ms, ns) ==
    /\ DOMAIN ms \subseteq DOMAIN ns
    /\ \A n \in DOMAIN ms : SameClaim(ns[n], ms[n]) /\ (ns[n].steady => ms[n].steady)

\* A copy of a row, however old.
CopyOK(ms, c) ==
    /\ c.id \in DOMAIN ms /\ c.row \in RowSet /\ SameClaim(c.row, ms[c.id])
    /\ EarnedRow(c.row) /\ c.row.supersedes < c.id /\ Names(ms, c.id, c.row)

\* What a process is at.
DoingOK(ms, d) ==
    /\ DOMAIN d = {"op", "id", "list", "to"}
    /\ d.op = "learn" => \E cat \in Proposed, text \in Texts : d.list = <<cat, text>>
    /\ d.op \in {"link", "linking", "promote", "listed", "move", "restore"} => d.id \in DOMAIN ms
    /\ d.op = "linking" =>
         /\ d.to \in SUBSET Nat
         /\ \A o \in d.list : o[1] \in DOMAIN ms /\ o[2] \in SUBSET Nat
         /\ \A a \in DOMAIN ms :
              a < d.id /\ ms[a].steady /\ Contradict(ms[a], ms[d.id]) => a \in d.to
    /\ d.op = "recall" => IsFiniteSet(d.to) /\ \A c \in d.to : CopyOK(ms, c)
    /\ d.op = "promote" => d.to \in BOOLEAN /\ (ms[d.id].cat = "skill" => d.to)
    /\ d.op = "move" => d.to \in {"disabled", "archived"}

HitsOK(ms, h) ==
    /\ \A c \in h : CopyOK(ms, c)
    /\ \A a, b \in h : a = b \/ ~Opposes(a, b)

MemInv ==
    /\ TableOK(mems)
    /\ DOMAIN doing = MemProcs /\ \A p \in MemProcs : DoingOK(mems, doing[p])
    /\ DOMAIN hits = MemProcs /\ \A p \in MemProcs : HitsOK(mems, hits[p])

-----------------------------------------------------------------------------
LEMMA ContradictByClaim ==
    ASSUME NEW a, NEW b, NEW c, NEW d, SameClaim(a, b), SameClaim(c, d)
    PROVE  Contradict(a, c) <=> Contradict(b, d)
  BY DEF SameClaim, Contradict

\* What a row names, and what is known of copies and of what processes are at,
\* outlives every step of the table.
LEMMA NamesStay ==
    ASSUME NEW ms, NEW ns, TableOK(ms), TableOK(ns), Grows(ms, ns),
           NEW n \in DOMAIN ms, NEW row, Names(ms, n, row)
    PROVE  Names(ns, n, row)
<1> SUFFICES ASSUME row.linked, ~row.unlinked, NEW a \in DOMAIN ns, a < n, ns[a].steady,
                    Contradict(ns[a], row)
             PROVE  a \in row.links
  BY DEF Names
<1>1. a \in DOMAIN ms
  BY DEF TableOK
<1>2. SameClaim(ns[a], ms[a]) /\ ms[a].steady
  BY <1>1 DEF Grows
<1>3. Contradict(ms[a], row)
  BY <1>2 DEF SameClaim, Contradict
<1> QED
  BY <1>1, <1>2, <1>3 DEF Names

LEMMA CopyStays ==
    ASSUME NEW ms, NEW ns, TableOK(ms), TableOK(ns), Grows(ms, ns), NEW c, CopyOK(ms, c)
    PROVE  CopyOK(ns, c)
<1>1. c.id \in DOMAIN ns /\ SameClaim(ns[c.id], ms[c.id])
  BY DEF CopyOK, Grows
<1>2. SameClaim(c.row, ns[c.id])
  BY <1>1 DEF CopyOK, SameClaim
<1>3. Names(ns, c.id, c.row)
  BY NamesStay DEF CopyOK
<1> QED
  BY <1>1, <1>2, <1>3 DEF CopyOK

LEMMA DoingStays ==
    ASSUME NEW ms, NEW ns, TableOK(ms), TableOK(ns), Grows(ms, ns), NEW d, DoingOK(ms, d)
    PROVE  DoingOK(ns, d)
<1>1. DOMAIN ms \subseteq DOMAIN ns
  BY DEF Grows
<1>2. ASSUME d.op = "linking"
      PROVE  /\ \A o \in d.list : o[1] \in DOMAIN ns
             /\ \A a \in DOMAIN ns :
                  a < d.id /\ ns[a].steady /\ Contradict(ns[a], ns[d.id]) => a \in d.to
  <2>1. d.id \in DOMAIN ms /\ \A o \in d.list : o[1] \in DOMAIN ms
    BY <1>2 DEF DoingOK
  <2>3. \A o \in d.list : o[1] \in DOMAIN ns
    BY <1>1, <2>1
  <2>4. ASSUME NEW a \in DOMAIN ns, a < d.id, ns[a].steady, Contradict(ns[a], ns[d.id])
        PROVE  a \in d.to
    <3>1. a \in DOMAIN ms
      BY <2>1, <2>4 DEF TableOK
    <3>2. SameClaim(ns[a], ms[a]) /\ ms[a].steady /\ SameClaim(ns[d.id], ms[d.id])
      BY <2>1, <2>4, <3>1 DEF Grows
    <3>3. Contradict(ms[a], ms[d.id])
      BY <2>4, <3>2, ContradictByClaim
    <3> QED
      BY <1>2, <2>4, <3>1, <3>2, <3>3 DEF DoingOK
  <2> QED
    BY <2>3, <2>4
<1>3. ASSUME d.op = "recall" PROVE \A c \in d.to : CopyOK(ns, c)
  BY <1>3, CopyStays DEF DoingOK
<1>4. ASSUME d.op = "promote", ns[d.id].cat = "skill" PROVE d.to
  <2>1. d.id \in DOMAIN ms
    BY <1>4 DEF DoingOK
  <2>2. ms[d.id].cat = "skill"
    BY <1>4, <2>1 DEF Grows, SameClaim
  <2> QED
    BY <1>4, <2>2 DEF DoingOK
<1> QED
  BY <1>1, <1>2, <1>3, <1>4 DEF DoingOK

LEMMA HitsStay ==
    ASSUME NEW ms, NEW ns, TableOK(ms), TableOK(ns), Grows(ms, ns), NEW h, HitsOK(ms, h)
    PROVE  HitsOK(ns, h)
  BY CopyStays DEF HitsOK

\* A step of process p that takes the table from mems to mems'.
LEMMA OneProcess ==
    ASSUME MemInv, NEW p \in MemProcs, NEW d, NEW h, TableOK(mems'), Grows(mems, mems'),
           doing' = [doing EXCEPT ![p] = d], DoingOK(mems', d),
           hits' = [hits EXCEPT ![p] = h], HitsOK(mems', h)
    PROVE  MemInv'
<1>1. \A q \in MemProcs : DoingOK(mems', doing'[q])
  BY DoingStays DEF MemInv
<1>2. \A q \in MemProcs : HitsOK(mems', hits'[q])
  BY HitsStay DEF MemInv
<1> QED
  BY <1>1, <1>2 DEF MemInv

LEMMA OneDoing ==
    ASSUME MemInv, NEW p \in MemProcs, NEW d, TableOK(mems'), Grows(mems, mems'),
           doing' = [doing EXCEPT ![p] = d], DoingOK(mems', d), hits' = hits
    PROVE  MemInv'
<1>1. \A q \in MemProcs : DoingOK(mems', doing'[q])
  BY DoingStays DEF MemInv
<1>2. \A q \in MemProcs : HitsOK(mems', hits'[q])
  BY HitsStay DEF MemInv
<1> QED
  BY <1>1, <1>2 DEF MemInv

LEMMA OnlyTable ==
    ASSUME MemInv, TableOK(mems'), Grows(mems, mems'), doing' = doing, hits' = hits
    PROVE  MemInv'
<1>1. \A q \in MemProcs : DoingOK(mems', doing'[q])
  BY DoingStays DEF MemInv
<1>2. \A q \in MemProcs : HitsOK(mems', hits'[q])
  BY HitsStay DEF MemInv
<1> QED
  BY <1>1, <1>2 DEF MemInv

LEMMA TableStays ==
    ASSUME MemInv, mems' = mems
    PROVE  TableOK(mems') /\ Grows(mems, mems')
  BY DEF MemInv, Grows, SameClaim

LEMMA IdleIsOK == ASSUME NEW ms PROVE DoingOK(ms, Idle)
  BY DEF DoingOK, Idle

\* A row is added.
LEMMA RowIsAdded ==
    ASSUME NEW ms, TableOK(ms), NEW r \in RowSet, ~r.linked,
           r.steady => r.status = "active", r.status = "active" => EarnedRow(r),
           r.supersedes < Len(ms) + 1
    PROVE  TableOK(Append(ms, r)) /\ Grows(ms, Append(ms, r))
<1> DEFINE ns == Append(ms, r)
<1>1. /\ ms \in Seq(RowSet) /\ DOMAIN ms = 1..Len(ms) /\ Len(ms) \in Nat
      /\ ns \in Seq(RowSet) /\ DOMAIN ns = 1..(Len(ms) + 1)
      /\ \A i \in 1..Len(ms) : ns[i] = ms[i]
      /\ ns[Len(ms) + 1] = r
  BY DEF TableOK
<1> HIDE DEF ns
<1>2. Grows(ms, ns)
  BY <1>1 DEF Grows, SameClaim
<1>3. ASSUME NEW n \in DOMAIN ns PROVE RowOK(ns, n, ns[n])
  <2>1. CASE n \in DOMAIN ms
    <3>1. RowOK(ms, n, ms[n]) /\ ns[n] = ms[n]
      BY <1>1, <2>1 DEF TableOK
    <3>2. ASSUME ms[n].linked, ~ms[n].unlinked, NEW a \in DOMAIN ns, a < n, ns[a].steady,
                 Contradict(ns[a], ms[n])
          PROVE  a \in ms[n].links
      <4>1. a \in DOMAIN ms /\ ns[a] = ms[a]
        BY <1>1, <2>1, <3>2
      <4> QED
        BY <3>1, <3>2, <4>1 DEF RowOK, Names
    <3>3. Names(ns, n, ms[n])
      BY <3>2 DEF Names
    <3> QED
      BY <3>1, <3>3 DEF RowOK
  <2>2. CASE n = Len(ms) + 1
    BY <1>1, <2>2 DEF RowOK, Names
  <2> QED
    BY <1>1, <2>1, <2>2
<1>4. TableOK(ns)
  BY <1>1, <1>3 DEF TableOK
<1> QED
  BY <1>2, <1>4 DEF ns

\* One row changes, and not what it claims.
LEMMA RowChanges ==
    ASSUME NEW ms, TableOK(ms), NEW n \in DOMAIN ms, NEW r \in RowSet, SameClaim(r, ms[n]),
           r.steady => ms[n].steady /\ r.status = "active",
           r.status = "active" => EarnedRow(r), Names(ms, n, r)
    PROVE  TableOK([ms EXCEPT ![n] = r]) /\ Grows(ms, [ms EXCEPT ![n] = r])
<1> DEFINE ns == [ms EXCEPT ![n] = r]
<1>1. /\ ms \in Seq(RowSet) /\ ns \in Seq(RowSet) /\ DOMAIN ns = DOMAIN ms
      /\ ns[n] = r /\ \A i \in DOMAIN ms \ {n} : ns[i] = ms[i]
  BY DEF TableOK
<1> HIDE DEF ns
<1>2. Grows(ms, ns)
  BY <1>1 DEF Grows, SameClaim
<1>3. ASSUME NEW m \in DOMAIN ms, NEW row, Names(ms, m, row) PROVE Names(ns, m, row)
  <2>1. ASSUME NEW a \in DOMAIN ms, ns[a].steady, Contradict(ns[a], row)
        PROVE  ms[a].steady /\ Contradict(ms[a], row)
    BY <1>2, <2>1 DEF Grows, SameClaim, Contradict
  <2> QED
    BY <1>1, <1>3, <2>1 DEF Names
<1>4. ASSUME NEW m \in DOMAIN ms PROVE RowOK(ns, m, ns[m])
  <2>1. RowOK(ms, m, ms[m])
    BY DEF TableOK
  <2>2. CASE m = n
    <3>1. r.supersedes < n
      BY <2>1, <2>2 DEF RowOK, SameClaim
    <3> QED
      BY <1>1, <1>3, <2>2, <3>1 DEF RowOK
  <2>3. CASE m # n
    BY <1>1, <1>3, <2>1, <2>3 DEF RowOK
  <2> QED
    BY <2>2, <2>3
<1>5. TableOK(ns)
  BY <1>1, <1>4 DEF TableOK
<1> QED
  BY <1>2, <1>5 DEF ns

LEMMA RowOfTable ==
    ASSUME MemInv, NEW n \in DOMAIN mems
    PROVE  mems[n] \in RowSet /\ RowOK(mems, n, mems[n]) /\ n \in Nat /\ n # 0
  BY DEF MemInv, TableOK

\* A row of the table is a copy of itself, if it is active.
LEMMA ActiveIsCopy ==
    ASSUME MemInv, NEW n \in DOMAIN mems, mems[n].status = "active"
    PROVE  CopyOK(mems, [id |-> n, row |-> mems[n]])
<1>1. mems[n] \in RowSet /\ RowOK(mems, n, mems[n])
  BY RowOfTable
<1> QED
  BY <1>1 DEF CopyOK, RowOK, SameClaim

-----------------------------------------------------------------------------
(* The steps.                                                              *)

LEMMA DoingIsOK ==
    ASSUME NEW ms, NEW op, NEW id, op \notin {"learn", "linking", "recall", "promote", "move"},
           op \in {"link", "listed", "restore"} => id \in DOMAIN ms
    PROVE  DoingOK(ms, Doing(op, id))
<1> DEFINE d == Doing(op, id)
<1>1. d.op = op /\ d.id = id /\ DOMAIN d = {"op", "id", "list", "to"}
  BY DEF Doing, Idle
<1> HIDE DEF d
<1>2. DoingOK(ms, d)
  BY <1>1 DEF DoingOK
<1> QED
  BY <1>2 DEF d

LEMMA InsertedKeeps ==
    ASSUME MemInv, NEW p \in MemProcs, NEW cat \in Categories, NEW text \in Texts,
           NEW success \in BOOLEAN, NEW given \in {"active", "staged"},
           NEW origin \in {"agent", "other"}, origin = "agent" => given = "staged",
           Inserted(p, cat, text, success, given, origin)
    PROVE  MemInv'
<1> DEFINE st == IF cat = "skill" THEN "staged" ELSE given
<1> DEFINE r == NewRow(cat, text, success, st, origin)
<1>1. st \in {"active", "staged"} /\ (st = "active" => cat # "skill" /\ origin = "other")
  OBVIOUS
<1> HIDE DEF st
<1>2. r \in RowSet
  BY <1>1 DEF NewRow, RowSet, Statuses
<1>3. /\ ~r.linked /\ r.supersedes = 0 /\ r.status = st /\ r.origin = origin /\ r.cat = cat
      /\ r.steady = (st = "active")
  BY DEF NewRow
<1> HIDE DEF r
<1>4. EarnedRow(r) \/ r.status # "active"
  BY <1>1, <1>3 DEF EarnedRow
<1>5. mems' = Append(mems, r)
  BY DEF Inserted, r, st
<1>6. Len(mems) \in Nat /\ TableOK(mems) /\ DOMAIN Append(mems, r) = 1..(Len(mems) + 1)
  BY <1>2 DEF MemInv, TableOK
<1>7. TableOK(Append(mems, r)) /\ Grows(mems, Append(mems, r))
  <2>1. r.supersedes < Len(mems) + 1
    BY <1>3, <1>6
  <2>2. (r.steady => r.status = "active") /\ (r.status = "active" => EarnedRow(r)) /\ ~r.linked
    BY <1>3, <1>4
  <2> QED
    BY <1>2, <1>6, <2>1, <2>2, RowIsAdded
<1>8. DoingOK(mems', Doing("link", Len(mems) + 1))
  <2>1. Len(mems) + 1 \in DOMAIN mems'
    BY <1>5, <1>6
  <2> QED
    BY <2>1, DoingIsOK
<1> QED
  BY <1>5, <1>7, <1>8, OneDoing DEF Inserted, Goes

LEMMA StoresKeep ==
    ASSUME MemInv, NEW p \in MemProcs,
           \/ \E text \in Texts :
                \/ Observe(p, text) \/ FlushNote(p, text)
                \/ \E cat \in Proposed, s \in BOOLEAN : Remember(p, cat, text, s)
           \/ ReviewStores(p)
    PROVE  MemInv'
<1>1. Proposed \subseteq Categories /\ "pattern" \in Categories /\ "target" \in Categories
  BY DEF Proposed, Categories
<1>2. ASSUME NEW text \in Texts, Observe(p, text) PROVE MemInv'
  BY <1>1, <1>2, InsertedKeeps DEF Observe
<1>3. ASSUME NEW text \in Texts, FlushNote(p, text) PROVE MemInv'
  BY <1>1, <1>3, InsertedKeeps DEF FlushNote
<1>4. ASSUME NEW text \in Texts, NEW cat \in Proposed, NEW s \in BOOLEAN, Remember(p, cat, text, s)
      PROVE  MemInv'
  <2>1. cat \in Categories /\ Inserted(p, cat, text, s, "active", "other")
    BY <1>1, <1>4 DEF Remember
  <2> QED
    BY <2>1, InsertedKeeps
<1>5. CASE ReviewStores(p)
  <2>1. PICK cat \in Proposed, text \in Texts : doing[p].list = <<cat, text>>
    BY <1>5 DEF ReviewStores, MemInv, DoingOK
  <2>2. cat \in Categories /\ doing[p].list[1] = cat /\ doing[p].list[2] = text
    BY <1>1, <2>1
  <2>3. CASE cat = "skill"
    <3>1. Inserted(p, cat, text, TRUE, "staged", "agent")
      BY <1>5, <2>2, <2>3 DEF ReviewStores
    <3> QED
      BY <2>2, <3>1, InsertedKeeps
  <2>4. CASE cat # "skill"
    <3>1. PICK given \in {"active", "staged"} : Inserted(p, cat, text, TRUE, given, "other")
      BY <1>5, <2>2, <2>4 DEF ReviewStores
    <3> QED
      BY <2>2, <3>1, InsertedKeeps
  <2> QED
    BY <2>3, <2>4
<1> QED
  BY <1>2, <1>3, <1>4, <1>5

LEMMA ReviewChecksKeeps ==
    ASSUME MemInv, NEW p \in MemProcs, NEW text \in Texts, NEW cat \in Proposed,
           ReviewChecks(p, text, cat)
    PROVE  MemInv'
<1> DEFINE d == [Doing("learn", 0) EXCEPT !.list = <<cat, text>>]
<1>1. d.op = "learn" /\ d.list = <<cat, text>> /\ DOMAIN d = {"op", "id", "list", "to"}
  BY DEF Doing, Idle
<1>2. doing' = [doing EXCEPT ![p] = d] /\ mems' = mems /\ hits' = hits
  BY DEF ReviewChecks, Goes
<1> HIDE DEF d
<1>3. DoingOK(mems', d)
  BY <1>1 DEF DoingOK
<1> QED
  BY <1>2, <1>3, TableStays, OneDoing

LEMMA LinkReadKeeps ==
    ASSUME MemInv, NEW p \in MemProcs, LinkRead(p)
    PROVE  MemInv'
<1> DEFINE id == doing[p].id
           against == {n \in DOMAIN mems :
                         n # id /\ mems[n].status = "active" /\ Contradict(mems[n], mems[id])}
           read == {<<n, mems[n].links>> : n \in against}
           d == [doing[p] EXCEPT !.op = "linking", !.to = against, !.list = read]
<1>1. DoingOK(mems, doing[p]) /\ doing[p].op = "link" /\ id \in DOMAIN mems
  BY DEF LinkRead, MemInv, DoingOK
<1>2. doing' = [doing EXCEPT ![p] = d] /\ mems' = mems /\ hits' = hits
  BY DEF LinkRead, Goes
<1>3. DOMAIN doing[p] = {"op", "id", "list", "to"}
  BY <1>1 DEF DoingOK
<1>4. /\ d.op = "linking" /\ d.id = id /\ d.to = against /\ d.list = read
      /\ DOMAIN d = {"op", "id", "list", "to"}
  BY <1>3
<1> HIDE DEF d
<1>5. against \in SUBSET Nat
  BY RowOfTable
<1>6. \A o \in read : o[1] \in DOMAIN mems /\ o[2] \in SUBSET Nat
  BY RowOfTable DEF RowSet
<1>7. ASSUME NEW a \in DOMAIN mems, a < id, mems[a].steady, Contradict(mems[a], mems[id])
      PROVE  a \in against
  BY <1>1, <1>7, RowOfTable DEF RowOK
<1> HIDE DEF against, read
<1>8. DoingOK(mems', d)
  BY <1>1, <1>2, <1>4, <1>5, <1>6, <1>7 DEF DoingOK
<1> QED
  BY <1>2, <1>8, TableStays, OneDoing

LEMMA LinkOtherKeeps ==
    ASSUME MemInv, NEW p \in MemProcs, LinkOther(p)
    PROVE  MemInv'
<1>1. DoingOK(mems, doing[p]) /\ doing[p].op = "linking"
  BY DEF LinkOther, MemInv
<1>2. PICK other \in doing[p].list :
        LET had == mems[other[1]].links
            links == IF doing[p].id \in other[2] THEN had ELSE other[2] \cup {doing[p].id}
        IN /\ mems' = [mems EXCEPT ![other[1]].links = links,
                                   ![other[1]].unlinked = @ \/ ~(had \subseteq links)]
           /\ doing' = [doing EXCEPT ![p] = [doing[p] EXCEPT !.list = @ \ {other}]]
  BY DEF LinkOther, Goes
<1> DEFINE n == other[1]
           had == mems[n].links
           links == IF doing[p].id \in other[2] THEN had ELSE other[2] \cup {doing[p].id}
           lost == mems[n].unlinked \/ ~(had \subseteq links)
           r == [mems[n] EXCEPT !.links = links, !.unlinked = lost]
           d == [doing[p] EXCEPT !.list = @ \ {other}]
<1>3. /\ n \in DOMAIN mems /\ other[2] \in SUBSET Nat /\ doing[p].id \in DOMAIN mems
      /\ DOMAIN doing[p] = {"op", "id", "list", "to"}
  BY <1>1 DEF DoingOK
<1>4. mems[n] \in RowSet /\ RowOK(mems, n, mems[n]) /\ doing[p].id \in Nat
  BY <1>3, RowOfTable
<1>5. links \in SUBSET Nat /\ lost \in BOOLEAN
  BY <1>3, <1>4 DEF RowSet
<1>6. mems \in Seq(RowSet)
  BY DEF MemInv, TableOK
<1>7. mems' = [mems EXCEPT ![n] = r]
  BY <1>2, <1>3, <1>4, <1>6 DEF RowSet
<1>8. r \in RowSet /\ r.links = links /\ r.unlinked = lost
  BY <1>4, <1>5 DEF RowSet
<1>9. /\ SameClaim(r, mems[n]) /\ r.steady = mems[n].steady /\ r.status = mems[n].status
      /\ (EarnedRow(r) <=> EarnedRow(mems[n])) /\ r.linked = mems[n].linked
  BY <1>4, <1>5 DEF RowSet, SameClaim, EarnedRow
<1>10. d.op = "linking" /\ d.id = doing[p].id /\ d.to = doing[p].to
       /\ d.list \subseteq doing[p].list /\ DOMAIN d = {"op", "id", "list", "to"}
  BY <1>1, <1>3
<1>11. Names(mems, n, r)
  <2> HIDE DEF r, links
  <2>1. ASSUME r.linked, ~r.unlinked PROVE mems[n].linked /\ ~mems[n].unlinked /\ had \subseteq r.links
    BY <1>8, <1>9, <2>1
  <2>2. ASSUME NEW a, Contradict(a, r) PROVE Contradict(a, mems[n])
    BY <1>9, <2>2 DEF Contradict, SameClaim
  <2> HIDE DEF n
  <2> QED
    BY <1>4, <2>1, <2>2 DEF RowOK, Names
<1>12. hits' = hits
  BY DEF LinkOther
<1> HIDE DEF r, d, n, links, lost
<1>13. TableOK(mems) /\ (r.steady => mems[n].steady /\ r.status = "active")
       /\ (r.status = "active" => EarnedRow(r))
  BY <1>4, <1>9 DEF MemInv, RowOK
<1>14. TableOK(mems') /\ Grows(mems, mems')
  BY <1>3, <1>7, <1>8, <1>9, <1>11, <1>13, RowChanges
<1>15. DoingOK(mems, d)
  BY <1>1, <1>10 DEF DoingOK
<1>16. DoingOK(mems', d)
  BY <1>13, <1>14, <1>15, DoingStays
<1> QED
  BY <1>2, <1>12, <1>14, <1>16, OneDoing DEF d

LEMMA LinkSelfKeeps ==
    ASSUME MemInv, NEW p \in MemProcs, LinkSelf(p)
    PROVE  MemInv'
<1> DEFINE n == doing[p].id
           links == IF doing[p].to = {} THEN mems[n].links ELSE doing[p].to
           r == [mems[n] EXCEPT !.links = links, !.linked = TRUE]
<1>1. DoingOK(mems, doing[p]) /\ doing[p].op = "linking"
  BY DEF LinkSelf, MemInv
<1>2. n \in DOMAIN mems /\ doing[p].to \in SUBSET Nat
      /\ \A a \in DOMAIN mems :
           a < n /\ mems[a].steady /\ Contradict(mems[a], mems[n]) => a \in doing[p].to
  BY <1>1 DEF DoingOK
<1>3. mems[n] \in RowSet /\ RowOK(mems, n, mems[n]) /\ TableOK(mems) /\ mems \in Seq(RowSet)
  BY <1>2, RowOfTable DEF MemInv, TableOK
<1>4. links \in SUBSET Nat /\ doing[p].to \subseteq links
  BY <1>2, <1>3 DEF RowSet
<1> HIDE DEF n
<1>5. mems' = [mems EXCEPT ![n] = r] /\ hits' = hits /\ doing' = [doing EXCEPT ![p] = Idle]
  BY <1>2, <1>3 DEF LinkSelf, Goes, RowSet, n
<1> HIDE DEF links
<1>6. /\ r \in RowSet /\ r.links = links /\ SameClaim(r, mems[n]) /\ r.steady = mems[n].steady
      /\ r.status = mems[n].status /\ (EarnedRow(r) <=> EarnedRow(mems[n]))
  BY <1>3, <1>4 DEF RowSet, SameClaim, EarnedRow
<1> HIDE DEF r
<1>7. Names(mems, n, r)
  <2>1. ASSUME NEW a, Contradict(a, r) PROVE Contradict(a, mems[n])
    BY <1>6, <2>1 DEF Contradict, SameClaim
  <2> QED
    BY <1>2, <1>4, <1>6, <2>1 DEF Names
<1>8. (r.steady => mems[n].steady /\ r.status = "active") /\ (r.status = "active" => EarnedRow(r))
  BY <1>3, <1>6 DEF RowOK
<1>9. TableOK(mems') /\ Grows(mems, mems')
  BY <1>2, <1>3, <1>5, <1>6, <1>7, <1>8, RowChanges
<1> QED
  BY <1>5, <1>9, IdleIsOK, OneDoing

\* A row changes neither its claim nor its links.
LEMMA RowMoves ==
    ASSUME MemInv, NEW n \in DOMAIN mems, NEW r \in RowSet, SameClaim(r, mems[n]),
           r.links = mems[n].links, r.linked = mems[n].linked, r.unlinked = mems[n].unlinked,
           r.steady => mems[n].steady /\ r.status = "active",
           r.status = "active" => EarnedRow(r), mems' = [mems EXCEPT ![n] = r]
    PROVE  TableOK(mems') /\ Grows(mems, mems')
<1>1. RowOK(mems, n, mems[n]) /\ TableOK(mems)
  BY RowOfTable DEF MemInv
<1>2. ASSUME NEW a, Contradict(a, r) PROVE Contradict(a, mems[n])
  BY <1>2 DEF Contradict, SameClaim
<1>3. Names(mems, n, r)
  BY <1>1, <1>2 DEF Names, RowOK
<1> QED
  BY <1>1, <1>3, RowChanges

LEMMA ValidateKeeps ==
    ASSUME MemInv, NEW p \in MemProcs, NEW id \in DOMAIN mems, NEW passed \in BOOLEAN,
           Validate(p, id, passed)
    PROVE  MemInv'
<1> DEFINE r == [mems[id] EXCEPT !.valid = passed]
<1>1. mems[id] \in RowSet /\ RowOK(mems, id, mems[id]) /\ mems \in Seq(RowSet)
  BY RowOfTable DEF MemInv, TableOK
<1>2. mems' = [mems EXCEPT ![id] = r] /\ doing' = doing /\ hits' = hits
  BY DEF Validate
<1>3. /\ r \in RowSet /\ SameClaim(r, mems[id]) /\ r.links = mems[id].links
      /\ r.linked = mems[id].linked /\ r.unlinked = mems[id].unlinked
      /\ r.steady = mems[id].steady /\ r.status = mems[id].status
      /\ (EarnedRow(r) <=> EarnedRow(mems[id]))
  BY <1>1 DEF RowSet, SameClaim, EarnedRow
<1> HIDE DEF r
<1>4. (r.steady => mems[id].steady /\ r.status = "active") /\ (r.status = "active" => EarnedRow(r))
  BY <1>1, <1>3 DEF RowOK
<1>5. TableOK(mems') /\ Grows(mems, mems')
  BY <1>2, <1>3, <1>4, RowMoves
<1> QED
  BY <1>2, <1>5, OnlyTable

\* promote has read the row that it will make active.
LEMMA PromotingIsOK ==
    ASSUME MemInv, NEW id \in DOMAIN mems, MayPromote(mems[id])
    PROVE  DoingOK(mems, Promoting(id))
<1> DEFINE d == Promoting(id)
<1>1. d.op = "promote" /\ d.id = id /\ d.to = mems[id].valid /\ DOMAIN d = {"op", "id", "list", "to"}
  BY DEF Promoting, Doing, Idle
<1> HIDE DEF d
<1>2. mems[id].valid \in BOOLEAN /\ (mems[id].cat = "skill" => mems[id].valid)
  BY RowOfTable DEF MayPromote, RowSet
<1>3. DoingOK(mems, d)
  BY <1>1, <1>2 DEF DoingOK
<1> QED
  BY <1>3 DEF d

LEMMA ReadsKeep ==
    ASSUME MemInv, NEW p \in MemProcs,
           \/ AutoPromoteRead(p)
           \/ \E id \in DOMAIN mems :
                \/ PromoteRead(p, id) \/ AutoPromoteList(p, id)
                \/ \E to \in {"disabled", "archived"} : TransitionRead(p, id, to)
    PROVE  MemInv'
<1>1. CASE AutoPromoteRead(p)
  <2>1. doing[p].id \in DOMAIN mems
    BY <1>1 DEF AutoPromoteRead, MemInv, DoingOK
  <2>2. DoingOK(mems, IF MayPromote(mems[doing[p].id]) THEN Promoting(doing[p].id) ELSE Idle)
    BY <2>1, PromotingIsOK, IdleIsOK
  <2> QED
    BY <1>1, <2>2, TableStays, OneDoing DEF AutoPromoteRead, Goes
<1>2. ASSUME NEW id \in DOMAIN mems, PromoteRead(p, id) PROVE MemInv'
  BY <1>2, PromotingIsOK, TableStays, OneDoing DEF PromoteRead, Goes
<1>3. ASSUME NEW id \in DOMAIN mems, AutoPromoteList(p, id) PROVE MemInv'
  <2>1. DoingOK(mems, Doing("listed", id))
    BY DoingIsOK
  <2> QED
    BY <1>3, <2>1, TableStays, OneDoing DEF AutoPromoteList, Goes
<1>4. ASSUME NEW id \in DOMAIN mems, NEW to \in {"disabled", "archived"}, TransitionRead(p, id, to)
      PROVE  MemInv'
  <2>1. DoingOK(mems, [Doing("move", id) EXCEPT !.to = to])
    <3> DEFINE d == [Doing("move", id) EXCEPT !.to = to]
    <3>1. d.op = "move" /\ d.id = id /\ d.to = to /\ DOMAIN d = {"op", "id", "list", "to"}
      BY DEF Doing, Idle
    <3> HIDE DEF d
    <3>2. DoingOK(mems, d)
      BY <3>1 DEF DoingOK
    <3> QED
      BY <3>2 DEF d
  <2> QED
    BY <1>4, <2>1, TableStays, OneDoing DEF TransitionRead, Goes
<1> QED
  BY <1>1, <1>2, <1>3, <1>4

\* SetStatus, and what a promotion and a rollback set besides.
Reset(row, st, ap, pr, re) ==
    [row EXCEPT !.status = st, !.steady = FALSE, !.approved = ap, !.proven = pr, !.restored = re]

LEMMA StatusIsSet ==
    ASSUME MemInv, NEW p \in MemProcs, NEW n \in DOMAIN mems, NEW st \in Statuses,
           NEW ap \in BOOLEAN, NEW pr \in BOOLEAN, NEW re \in BOOLEAN, NEW d,
           mems' = [mems EXCEPT ![n] = Reset(mems[n], st, ap, pr, re)],
           st = "active" => re \/ (ap /\ (mems[n].cat = "skill" => pr)),
           doing' = [doing EXCEPT ![p] = d], DoingOK(mems, d), hits' = hits
    PROVE  MemInv'
<1> DEFINE r == Reset(mems[n], st, ap, pr, re)
<1>1. mems[n] \in RowSet
  BY RowOfTable
<1>2. mems' = [mems EXCEPT ![n] = r]
  OBVIOUS
<1>3. /\ r \in RowSet /\ SameClaim(r, mems[n]) /\ r.links = mems[n].links
      /\ r.linked = mems[n].linked /\ r.unlinked = mems[n].unlinked
      /\ ~r.steady /\ r.status = st /\ r.approved = ap /\ r.proven = pr /\ r.restored = re
      /\ r.cat = mems[n].cat
  <2>1. r \in RowSet
    BY <1>1 DEF RowSet, Reset
  <2>2. /\ ~r.steady /\ r.status = st /\ r.approved = ap /\ r.proven = pr /\ r.restored = re
    BY <1>1 DEF RowSet, Reset
  <2>3. /\ SameClaim(r, mems[n]) /\ r.links = mems[n].links /\ r.linked = mems[n].linked
        /\ r.unlinked = mems[n].unlinked /\ r.cat = mems[n].cat
    BY <1>1 DEF RowSet, SameClaim, Reset
  <2> QED
    BY <2>1, <2>2, <2>3
<1> HIDE DEF r
<1>4. r.status = "active" => EarnedRow(r)
  BY <1>3 DEF EarnedRow
<1>5. TableOK(mems') /\ Grows(mems, mems')
  BY <1>2, <1>3, <1>4, RowMoves
<1>6. DoingOK(mems', d)
  BY <1>5, DoingStays DEF MemInv
<1> QED
  BY <1>5, <1>6, OneDoing

LEMMA PromoteWriteKeeps ==
    ASSUME MemInv, NEW p \in MemProcs, PromoteWrite(p)
    PROVE  MemInv'
<1> DEFINE n == doing[p].id
<1>1. n \in DOMAIN mems /\ doing[p].to \in BOOLEAN /\ (mems[n].cat = "skill" => doing[p].to)
  BY DEF PromoteWrite, MemInv, DoingOK
<1>2. mems[n] \in RowSet /\ mems \in Seq(RowSet)
  BY <1>1, RowOfTable DEF MemInv, TableOK
<1>3. mems[n].restored \in BOOLEAN /\ "active" \in Statuses
  BY <1>2 DEF RowSet, Statuses
<1>4. mems' = [mems EXCEPT ![n] = Reset(mems[n], "active", TRUE,
                                         doing[p].to, mems[n].restored)]
  BY <1>1, <1>2 DEF PromoteWrite, SetStatus, RowSet, Reset
<1>5. doing' = [doing EXCEPT ![p] = Idle] /\ DoingOK(mems, Idle) /\ hits' = hits
  BY IdleIsOK DEF PromoteWrite, Goes
<1> HIDE DEF n
<1> QED
  BY <1>1, <1>3, <1>4, <1>5, StatusIsSet

LEMMA TransitionWriteKeeps ==
    ASSUME MemInv, NEW p \in MemProcs, TransitionWrite(p)
    PROVE  MemInv'
<1> DEFINE n == doing[p].id
<1>1. n \in DOMAIN mems /\ doing[p].to \in {"disabled", "archived"}
  BY DEF TransitionWrite, MemInv, DoingOK
<1>2. mems[n] \in RowSet /\ mems \in Seq(RowSet)
  BY <1>1, RowOfTable DEF MemInv, TableOK
<1>3. /\ mems[n].restored \in BOOLEAN /\ mems[n].approved \in BOOLEAN /\ mems[n].proven \in BOOLEAN
      /\ doing[p].to \in Statuses
  BY <1>1, <1>2 DEF RowSet, Statuses
<1>4. mems' = [mems EXCEPT ![n] = Reset(mems[n], doing[p].to, mems[n].approved,
                                         mems[n].proven, mems[n].restored)]
  BY <1>1, <1>2 DEF TransitionWrite, SetStatus, RowSet, Reset
<1>5. doing' = [doing EXCEPT ![p] = Idle] /\ DoingOK(mems, Idle) /\ hits' = hits
  BY IdleIsOK DEF TransitionWrite, Goes
<1> HIDE DEF n
<1> QED
  BY <1>1, <1>3, <1>4, <1>5, StatusIsSet

LEMMA RollbackFirstKeeps ==
    ASSUME MemInv, NEW p \in MemProcs, NEW id \in DOMAIN mems, RollbackFirst(p, id)
    PROVE  MemInv'
<1>1. mems[id] \in RowSet /\ mems \in Seq(RowSet) /\ RowOK(mems, id, mems[id])
  BY RowOfTable DEF MemInv, TableOK
<1>2. /\ mems[id].restored \in BOOLEAN /\ mems[id].approved \in BOOLEAN
      /\ mems[id].proven \in BOOLEAN /\ "disabled" \in Statuses
  BY <1>1 DEF RowSet, Statuses
<1>3. mems' = [mems EXCEPT ![id] = Reset(mems[id], "disabled", mems[id].approved,
                                         mems[id].proven, mems[id].restored)]
  BY <1>1 DEF RollbackFirst, SetStatus, RowSet, Reset
<1>4. mems[id].supersedes \in DOMAIN mems
  <2>1. mems[id].supersedes \in Nat /\ mems[id].supersedes # 0 /\ mems[id].supersedes < id
    BY <1>1 DEF RollbackFirst, RowOK, RowSet
  <2> QED
    BY <1>1, <2>1
<1>5. DoingOK(mems, Doing("restore", mems[id].supersedes))
  BY <1>4, DoingIsOK
<1> QED
  BY <1>2, <1>3, <1>5, StatusIsSet DEF RollbackFirst, Goes

LEMMA RollbackSecondKeeps ==
    ASSUME MemInv, NEW p \in MemProcs, RollbackSecond(p)
    PROVE  MemInv'
<1> DEFINE n == doing[p].id
<1>1. n \in DOMAIN mems
  BY DEF RollbackSecond, MemInv, DoingOK
<1>2. mems[n] \in RowSet /\ mems \in Seq(RowSet)
  BY <1>1, RowOfTable DEF MemInv, TableOK
<1>3. /\ mems[n].approved \in BOOLEAN /\ mems[n].proven \in BOOLEAN /\ "active" \in Statuses
  BY <1>2 DEF RowSet, Statuses
<1>4. mems' = [mems EXCEPT ![n] = Reset(mems[n], "active", mems[n].approved,
                                         mems[n].proven, TRUE)]
  BY <1>1, <1>2 DEF RollbackSecond, SetStatus, RowSet, Reset
<1>5. doing' = [doing EXCEPT ![p] = Idle] /\ DoingOK(mems, Idle) /\ hits' = hits
  BY IdleIsOK DEF RollbackSecond, Goes
<1> HIDE DEF n
<1> QED
  BY <1>1, <1>3, <1>4, <1>5, StatusIsSet

LEMMA NewVersionKeeps ==
    ASSUME MemInv, NEW p \in MemProcs, NEW id \in DOMAIN mems, NEW text \in Texts,
           NewVersion(p, id, text)
    PROVE  MemInv'
<1> DEFINE r == [NewRow(mems[id].cat, text, mems[id].success, "staged", "other")
                   EXCEPT !.supersedes = id]
           d == [Doing("move", id) EXCEPT !.to = "disabled"]
<1>1. mems[id] \in RowSet /\ id \in Nat /\ TableOK(mems) /\ mems \in Seq(RowSet)
  BY RowOfTable DEF MemInv, TableOK
<1>2. /\ mems' = Append(mems, r) /\ hits' = hits /\ doing' = [doing EXCEPT ![p] = d]
  BY DEF NewVersion, Goes
<1>3. r \in RowSet /\ ~r.linked /\ r.status = "staged" /\ ~r.steady /\ r.supersedes = id
  BY <1>1 DEF RowSet, NewRow, Statuses
<1>4. d.op = "move" /\ d.id = id /\ d.to = "disabled" /\ DOMAIN d = {"op", "id", "list", "to"}
  BY DEF Doing, Idle
<1> HIDE DEF r, d
<1>5. r.supersedes < Len(mems) + 1
  BY <1>1, <1>3
<1>6. TableOK(mems') /\ Grows(mems, mems')
  BY <1>1, <1>2, <1>3, <1>5, RowIsAdded
<1>7. DoingOK(mems, d)
  BY <1>4 DEF DoingOK
<1>8. DoingOK(mems', d)
  BY <1>1, <1>6, <1>7, DoingStays
<1> QED
  BY <1>2, <1>6, <1>8, OneDoing

LEMMA ConsolidateKeeps ==
    ASSUME MemInv, NEW p \in MemProcs, NEW id \in DOMAIN mems, NEW text \in Texts,
           Consolidate(p, id, text)
    PROVE  MemInv'
<1> DEFINE r == NewRow(mems[id].cat, text, FALSE, "active", "merged")
<1>1. mems[id] \in RowSet /\ TableOK(mems) /\ mems \in Seq(RowSet)
  BY RowOfTable DEF MemInv, TableOK
<1>2. /\ mems' = Append(mems, r) /\ hits' = hits /\ doing' = doing
  BY DEF Consolidate
<1>3. r \in RowSet /\ ~r.linked /\ r.status = "active" /\ r.supersedes = 0 /\ r.origin = "merged"
  BY <1>1 DEF RowSet, NewRow, Statuses
<1> HIDE DEF r
<1>4. r.supersedes < Len(mems) + 1 /\ EarnedRow(r)
  BY <1>1, <1>3 DEF EarnedRow
<1>5. TableOK(mems') /\ Grows(mems, mems')
  BY <1>1, <1>2, <1>3, <1>4, RowIsAdded
<1> QED
  BY <1>2, <1>5, OnlyTable

LEMMA RecallableIsFinite == ASSUME MemInv PROVE IsFiniteSet(Recallable) /\ Recallable \subseteq DOMAIN mems
<1>1. IsFiniteSet(DOMAIN mems)
  <2>1. DOMAIN mems = 1..Len(mems) /\ Len(mems) \in Nat
    BY DEF MemInv, TableOK
  <2> QED
    BY <2>1, FS_Interval
<1> QED
  BY <1>1, FS_Subset DEF Recallable

LEMMA CopiesAreOK ==
    ASSUME MemInv, NEW ids \in SUBSET Recallable
    PROVE  IsFiniteSet(Copies(ids)) /\ \A c \in Copies(ids) : CopyOK(mems, c)
<1>1. IsFiniteSet(ids)
  BY RecallableIsFinite, FS_Subset
<1>2. IsFiniteSet(Copies(ids))
  <2> DEFINE f == [n \in ids |-> [id |-> n, row |-> mems[n]]]
  <2>1. f \in Surjection(ids, Copies(ids))
    BY DEF Surjection, Copies
  <2> QED
    BY <1>1, <2>1, FS_Surjection
<1>3. \A n \in ids : CopyOK(mems, [id |-> n, row |-> mems[n]])
  BY ActiveIsCopy DEF Recallable
<1> QED
  BY <1>2, <1>3 DEF Copies

LEMMA RecallLexicalKeeps ==
    ASSUME MemInv, NEW p \in MemProcs, RecallLexical(p)
    PROVE  MemInv'
<1>1. PICK lexical \in SUBSET Recallable :
        doing' = [doing EXCEPT ![p] = [Doing("recall", 0) EXCEPT !.to = Copies(lexical)]]
  BY DEF RecallLexical, Goes
<1> DEFINE d == [Doing("recall", 0) EXCEPT !.to = Copies(lexical)]
<1>2. d.op = "recall" /\ d.to = Copies(lexical) /\ DOMAIN d = {"op", "id", "list", "to"}
  BY DEF Doing, Idle
<1>3. mems' = mems /\ hits' = hits /\ doing' = [doing EXCEPT ![p] = d]
  BY <1>1 DEF RecallLexical
<1> HIDE DEF d
<1>4. DoingOK(mems, d)
  BY <1>2, CopiesAreOK DEF DoingOK
<1> QED
  BY <1>3, <1>4, TableStays, OneDoing

\* The ranking of finitely many is a sequence of them.
LEMMA RankingIsSeq ==
    ASSUME NEW S, IsFiniteSet(S), NEW s \in SetToSeqs(S)
    PROVE  s \in Seq(S) /\ ToSet(s) \subseteq S
<1>1. Cardinality(S) \in Nat
  BY FS_CardinalityType
<1>2. s \in [1..Cardinality(S) -> S]
  BY DEF SetToSeqs
<1> QED
  BY <1>1, <1>2 DEF ToSet

LEMMA RecallRestKeeps ==
    ASSUME MemInv, NEW p \in MemProcs, RecallRest(p)
    PROVE  MemInv'
<1> DEFINE more == Recallable \ {c.id : c \in doing[p].to}
<1>1. PICK top \in SUBSET (doing[p].to \cup Copies(more)) :
        \E ranked \in SetToSeqs(top) : hits' = [hits EXCEPT ![p] = Kept(ranked)]
  BY DEF RecallRest
<1>2. PICK ranked \in SetToSeqs(top) : hits' = [hits EXCEPT ![p] = Kept(ranked)]
  BY <1>1
<1>3. IsFiniteSet(doing[p].to) /\ \A c \in doing[p].to : CopyOK(mems, c)
  BY DEF RecallRest, MemInv, DoingOK
<1>4. more \in SUBSET Recallable
  OBVIOUS
<1>5. IsFiniteSet(Copies(more)) /\ \A c \in Copies(more) : CopyOK(mems, c)
  BY <1>4, CopiesAreOK
<1> HIDE DEF more
<1>6. IsFiniteSet(top) /\ \A c \in top : CopyOK(mems, c)
  BY <1>3, <1>5, FS_Union, FS_Subset
<1>7. ranked \in Seq(top) /\ ToSet(ranked) \subseteq top
  BY <1>6, RankingIsSeq
<1>8. KeptOK(ranked)
  BY <1>7, KeptAreUnopposed
<1>9. HitsOK(mems, Kept(ranked))
  BY <1>6, <1>7, <1>8 DEF KeptOK, HitsOK
<1>10. doing' = [doing EXCEPT ![p] = Idle] /\ mems' = mems
  BY DEF RecallRest, Goes
<1> QED
  BY <1>2, <1>9, <1>10, TableStays, IdleIsOK, OneProcess

LEMMA EndsKeep ==
    ASSUME MemInv, NEW p \in MemProcs, Inject(p) \/ RecallTimesOut(p) \/ Abandon(p)
    PROVE  MemInv'
<1>1. CASE Inject(p)
  <2>1. mems' = mems /\ doing' = doing /\ hits' = [hits EXCEPT ![p] = {}] /\ HitsOK(mems, {})
    BY <1>1 DEF Inject, HitsOK
  <2>2. \A q \in MemProcs : HitsOK(mems, hits'[q])
    BY <2>1 DEF MemInv
  <2> QED
    BY <2>1, <2>2 DEF MemInv
<1>2. CASE RecallTimesOut(p) \/ Abandon(p)
  BY <1>2, TableStays, IdleIsOK, OneDoing DEF RecallTimesOut, Abandon, Goes
<1> QED
  BY <1>1, <1>2

LEMMA MemStep == MemInv /\ [MemNext]_memVars => MemInv'
<1> SUFFICES ASSUME MemInv, [MemNext]_memVars PROVE MemInv'
  OBVIOUS
<1>1. CASE UNCHANGED memVars
  BY <1>1 DEF memVars, MemInv
<1>2. CASE MemNext
  <2>1. PICK p \in MemProcs :
    \/ \E text \in Texts :
         \/ Observe(p, text) \/ FlushNote(p, text)
         \/ \E cat \in Proposed :
              ReviewChecks(p, text, cat) \/ \E s \in BOOLEAN : Remember(p, cat, text, s)
         \/ \E id \in DOMAIN mems : NewVersion(p, id, text) \/ Consolidate(p, id, text)
    \/ ReviewStores(p) \/ LinkRead(p) \/ LinkOther(p) \/ LinkSelf(p)
    \/ RecallLexical(p) \/ RecallRest(p) \/ Inject(p) \/ RecallTimesOut(p)
    \/ \E id \in DOMAIN mems :
         \/ \E passed \in BOOLEAN : Validate(p, id, passed)
         \/ PromoteRead(p, id) \/ AutoPromoteList(p, id) \/ RollbackFirst(p, id)
         \/ \E to \in {"disabled", "archived"} : TransitionRead(p, id, to)
    \/ AutoPromoteRead(p) \/ PromoteWrite(p) \/ TransitionWrite(p) \/ RollbackSecond(p)
    \/ Abandon(p)
    BY <1>2 DEF MemNext
  <2>2. ASSUME NEW text \in Texts,
         \/ Observe(p, text) \/ FlushNote(p, text)
         \/ \E cat \in Proposed :
              ReviewChecks(p, text, cat) \/ \E s \in BOOLEAN : Remember(p, cat, text, s)
         \/ \E id \in DOMAIN mems : NewVersion(p, id, text) \/ Consolidate(p, id, text)
        PROVE MemInv'
    BY <2>2, StoresKeep, ReviewChecksKeeps, NewVersionKeeps, ConsolidateKeeps
  <2>3. CASE ReviewStores(p) \/ LinkRead(p) \/ LinkOther(p) \/ LinkSelf(p)
    BY <2>3, StoresKeep, LinkReadKeeps, LinkOtherKeeps, LinkSelfKeeps
  <2>4. CASE RecallLexical(p) \/ RecallRest(p) \/ Inject(p) \/ RecallTimesOut(p) \/ Abandon(p)
    BY <2>4, RecallLexicalKeeps, RecallRestKeeps, EndsKeep
  <2>5. ASSUME NEW id \in DOMAIN mems,
         \/ \E passed \in BOOLEAN : Validate(p, id, passed)
         \/ PromoteRead(p, id) \/ AutoPromoteList(p, id) \/ RollbackFirst(p, id)
         \/ \E to \in {"disabled", "archived"} : TransitionRead(p, id, to)
        PROVE MemInv'
    BY <2>5, ValidateKeeps, ReadsKeep, RollbackFirstKeeps
  <2>6. CASE AutoPromoteRead(p) \/ PromoteWrite(p) \/ TransitionWrite(p) \/ RollbackSecond(p)
    BY <2>6, ReadsKeep, PromoteWriteKeeps, TransitionWriteKeeps, RollbackSecondKeeps
  <2> QED
    BY <2>1, <2>2, <2>3, <2>4, <2>5, <2>6
<1> QED
  BY <1>1, <1>2

LEMMA MemStart == MemInit => MemInv
  BY IdleIsOK DEF MemInit, MemInv, TableOK, HitsOK

LEMMA MemInvIsSound == MemInv => RecallIsSound
<1> SUFFICES ASSUME MemInv, NEW p \in MemProcs, NEW a \in hits[p], NEW b \in hits[p]
             PROVE  NoContradiction(a, b) /\ Earned(a)
  BY DEF RecallIsSound
<1>1. CopyOK(mems, a) /\ CopyOK(mems, b) /\ (a = b \/ ~Opposes(a, b))
  BY DEF MemInv, HitsOK
<1>2. Earned(a)
  BY <1>1 DEF CopyOK, EarnedRow, Earned
<1>3. a.row.supersedes # b.id
  <2>1. a.row.supersedes \in Nat /\ a.id \in Nat /\ a.row.supersedes < a.id
    BY <1>1, RowOfTable DEF CopyOK, RowSet
  <2> QED
    BY <1>1, <2>1 DEF Opposes
<1>4. ASSUME BothSides(a, b), a.id < b.id, ~b.row.unlinked PROVE FALSE
  <2>1. a.id \in DOMAIN mems /\ Names(mems, b.id, b.row) /\ SameClaim(a.row, mems[a.id])
    BY <1>1 DEF CopyOK
  <2>2. Contradict(mems[a.id], b.row) /\ mems[a.id].steady /\ b.row.linked
    BY <1>4, <2>1 DEF BothSides, SameClaim, Contradict
  <2>3. a.id \in b.row.links
    BY <1>4, <2>1, <2>2 DEF Names
  <2>4. a # b
    BY <1>1, <1>4, RowOfTable DEF CopyOK
  <2> QED
    BY <1>1, <2>3, <2>4 DEF Opposes
<1> QED
  BY <1>2, <1>3, <1>4 DEF NoContradiction

\* However many processes store, link, review, promote, consolidate and roll
\* back memories at once, a recall returns only active ones, newer than what
\* they supersede, and takes no two sides of a contradiction the links on disk
\* tell it of (memory_store.rs, recall_hybrid).
THEOREM RecallIsSoundHolds == MemSpec => []RecallIsSound
  BY MemStart, MemStep, MemInvIsSound, PTL DEF MemSpec

-----------------------------------------------------------------------------
(***************************************************************************)
(* Conversation.                                                           *)
(***************************************************************************)

(* What a list may say.                                                    *)

SaidUpTo(l, n) == \A i \in Nat : <<FALSE, i>> \in Items(l) => i <= n

\* The list is in order, and all it says is in the log or in an archive.
LiveOK(l, evs, A, n) ==
    /\ l \in Seq(Msgs) /\ InOrder(l)
    /\ Items(l) \subseteq EventItems(evs) \cup A
    /\ SaidUpTo(l, n)

\* What a compaction on record covers is archived.
CoverOK(evs, A) ==
    \A a, b \in 1..Len(evs) :
        a < b /\ evs[b].k = "compact" /\ evs[a].i <= evs[b].upto /\ evs[a].k \in Telling
            => ItemOf(evs[a]) \in A

LogInv(evs, A, n) ==
    /\ LogOK(evs) /\ CoverOK(evs, A)
    /\ \A j \in 1..Len(evs) : evs[j].id <= n

LEMMA ItemsAppend ==
    ASSUME NEW l \in Seq(Msgs), NEW m \in Msgs, NEW x \in Items(Append(l, m))
    PROVE  x \in Items(l) \/ (x = Item(m) /\ x # Nothing)
<1>1. PICK u : u = Append(l, m)
  OBVIOUS
<1>2. /\ Len(u) = Len(l) + 1 /\ Len(l) \in Nat /\ u[Len(l) + 1] = m /\ DOMAIN u = 1..Len(u)
      /\ \A n \in 1..Len(l) : u[n] = l[n]
      /\ DOMAIN l = 1..Len(l)
  BY <1>1
<1>3. \A n \in 1..Len(u) : n \in 1..Len(l) \/ n = Len(l) + 1
  BY <1>2
<1>4. x # Nothing
  BY ItemsAre
<1>5. PICK n \in DOMAIN u : x = Item(u[n])
  BY <1>1, ItemsAre
<1>6. CASE n \in 1..Len(l)
  <2>1. x = Item(l[n]) /\ n \in DOMAIN l
    BY <1>2, <1>5, <1>6
  <2> QED
    BY <1>4, <2>1, ItemsAre
<1>7. CASE n = Len(l) + 1
  BY <1>2, <1>4, <1>5, <1>7
<1> QED
  BY <1>2, <1>3, <1>6, <1>7

LEMMA ItemsConcat ==
    ASSUME NEW s \in Seq(Msgs), NEW t \in Seq(Msgs)
    PROVE  Items(s \o t) \subseteq Items(s) \cup Items(t)
<1>1. PICK u : u = s \o t
  OBVIOUS
<1>2. /\ Len(u) = Len(s) + Len(t) /\ Len(s) \in Nat /\ Len(t) \in Nat
      /\ \A i \in 1..Len(s) : u[i] = s[i]
      /\ \A i \in 1..(Len(s) + Len(t)) : i \notin 1..Len(s) =>
           i - Len(s) \in 1..Len(t) /\ u[i] = t[i - Len(s)]
      /\ DOMAIN u = 1..Len(u)
  BY <1>1, ConcatIs
<1>3. DOMAIN s = 1..Len(s) /\ DOMAIN t = 1..Len(t)
  OBVIOUS
<1> SUFFICES ASSUME NEW x \in Items(u) PROVE x \in Items(s) \cup Items(t)
  BY <1>1
<1>4. x # Nothing
  BY ItemsAre
<1>5. PICK n \in DOMAIN u : x = Item(u[n])
  BY ItemsAre
<1>6. CASE n \in 1..Len(s)
  <2>1. x = Item(s[n]) /\ n \in DOMAIN s
    BY <1>2, <1>3, <1>5, <1>6
  <2> QED
    BY <1>4, <2>1, ItemsAre
<1>7. CASE n \notin 1..Len(s)
  <2>1. x = Item(t[n - Len(s)]) /\ n - Len(s) \in DOMAIN t
    BY <1>2, <1>3, <1>5, <1>7
  <2> QED
    BY <1>4, <2>1, ItemsAre
<1> QED
  BY <1>6, <1>7

\* What a message says is an item.
LEMMA ItemIsItem == ASSUME NEW m \in Msgs PROVE Item(m) \in ItemSet
<1>1. m.id \in Nat /\ 0 \in Nat
  BY CallsOfMsg
<1>2. PICK i \in Nat, b \in BOOLEAN : Item(m) = <<b, i>>
  <2>1. CASE m.role \in {"tool", "text"}
    BY <1>1, <2>1, ItemIs
  <2>2. CASE m.role = "lost"
    BY <1>1, <2>2, ItemIs DEF Nothing
  <2>3. CASE m.role \notin {"tool", "text", "lost"}
    BY <1>1, <2>3, ItemIs
  <2> QED
    BY <2>1, <2>2, <2>3
<1>3. <<b, i>> \in BOOLEAN \X Nat
  OBVIOUS
<1> QED
  BY <1>2, <1>3 DEF ItemSet

LEMMA SaysItem ==
    ASSUME NEW l \in Seq(Msgs), NEW n \in 1..Len(l), Says(l[n])
    PROVE  <<FALSE, l[n].id>> \in Items(l) /\ l[n].id \in Nat
<1>1. n \in DOMAIN l /\ l[n] \in Msgs
  OBVIOUS
<1>2. Item(l[n]) = <<FALSE, l[n].id>> /\ l[n].id # 0
  BY ItemIs DEF Says
<1>3. Item(l[n]) # Nothing
  BY <1>2, ItemsDiffer DEF Nothing
<1>4. l[n].id \in Nat
  BY <1>1, CallsOfMsg
<1>5. Item(l[n]) \in Items(l)
  BY <1>1, <1>3, ItemsAre
<1> QED
  BY <1>2, <1>4, <1>5, Zenon

LEMMA LiveStays ==
    ASSUME NEW l, NEW evs, NEW A, NEW n \in Nat, LiveOK(l, evs, A, n), NEW u, NEW B, NEW m \in Nat,
           n <= m, EventItems(evs) \subseteq EventItems(u), A \subseteq B
    PROVE  LiveOK(l, u, B, m)
<1>1. SaidUpTo(l, m)
  <2> SUFFICES ASSUME NEW i \in Nat, <<FALSE, i>> \in Items(l) PROVE i <= m
    BY DEF SaidUpTo
  <2>1. i <= n
    BY Zenon DEF LiveOK, SaidUpTo
  <2> QED
    BY <2>1
<1>2. l \in Seq(Msgs) /\ InOrder(l) /\ Items(l) \subseteq EventItems(evs) \cup A
  BY DEF LiveOK
<1>3. Items(l) \subseteq EventItems(u) \cup B
  BY <1>2, Zenon
<1> QED
  BY <1>1, <1>2, <1>3 DEF LiveOK

\* One more message.
LEMMA LiveAppend ==
    ASSUME NEW l, NEW evs, NEW A, NEW n \in Nat, LiveOK(l, evs, A, n), NEW u, NEW m \in Nat,
           n <= m, EventItems(evs) \subseteq EventItems(u), NEW x \in Msgs,
           Item(x) # Nothing => Item(x) \in EventItems(u),
           Says(x) => x.id > n /\ x.id <= m,
           x.role \notin {"tool", "text"}
    PROVE  LiveOK(Append(l, x), u, A, m)
<1>1. l \in Seq(Msgs) /\ InOrder(l)
  BY DEF LiveOK
<1>2. Append(l, x) \in Seq(Msgs)
  BY <1>1
<1>3. InOrder(Append(l, x))
  <2>1. ASSUME NEW k \in 1..Len(l), Says(l[k]), Says(x) PROVE l[k].id < x.id
    <3>1. l[k].id <= n /\ l[k].id \in Nat
      BY <1>1, <2>1, SaysItem DEF LiveOK, SaidUpTo
    <3>2. x.id \in Nat
      BY CallsOfMsg
    <3> QED
      BY <2>1, <3>1, <3>2
  <2> QED
    BY <1>1, <2>1, InOrderAppend
<1>4. ASSUME NEW y \in Items(Append(l, x)) PROVE y \in EventItems(u) \cup A
  <2>1. y \in Items(l) \/ (y = Item(x) /\ y # Nothing)
    BY <1>1, <1>4, ItemsAppend
  <2>2. Items(l) \subseteq EventItems(evs) \cup A
    BY DEF LiveOK
  <2> QED
    BY <2>1, <2>2, Zenon
<1>5. ASSUME NEW i \in Nat, <<FALSE, i>> \in Items(Append(l, x)) PROVE i <= m
  <2>1. <<FALSE, i>> \in Items(l) \/ (<<FALSE, i>> = Item(x) /\ <<FALSE, i>> # Nothing)
    BY <1>1, <1>5, ItemsAppend
  <2>2. CASE <<FALSE, i>> \in Items(l)
    <3>1. i <= n
      BY <2>2, Zenon DEF LiveOK, SaidUpTo
    <3> QED
      BY <3>1
  <2>3. CASE <<FALSE, i>> = Item(x) /\ <<FALSE, i>> # Nothing
    <3>1. x.role # "lost"
      BY <2>3, ItemIs
    <3>2. Item(x) = <<FALSE, x.id>>
      BY <3>1, ItemIs
    <3>3. x.id = i
      BY <2>3, <3>2, ItemsDiffer, Zenon
    <3>4. i # 0
      BY <2>3 DEF Nothing
    <3>5. Says(x)
      BY <3>1, <3>3, <3>4 DEF Says
    <3> QED
      BY <3>3, <3>5
  <2> QED
    BY <2>1, <2>2, <2>3
<1> QED
  BY <1>2, <1>3, <1>4, <1>5 DEF LiveOK, SaidUpTo

-----------------------------------------------------------------------------
(* The log grows, or part of it is kept.                                   *)

LEMMA NextIndexIs ==
    ASSUME NEW evs, LogOK(evs)
    PROVE  NextIndex(evs) \in Nat /\ \A j \in 1..Len(evs) : evs[j].i < NextIndex(evs)
<1>1. evs \in Seq(EvSet) /\ \A a, b \in 1..Len(evs) : a < b => evs[a].i < evs[b].i
  BY DEF LogOK, PairOK
<1>2. CASE evs = <<>>
  <2>1. NextIndex(evs) = 0 /\ 1..Len(evs) = {}
    BY <1>2 DEF NextIndex
  <2> QED
    BY <2>1
<1>3. CASE evs # <<>>
  <2>1. Len(evs) \in Nat /\ Len(evs) \in 1..Len(evs) /\ \A j \in 1..Len(evs) : evs[j] \in EvSet
    BY <1>1, <1>3
  <2>2. NextIndex(evs) = evs[Len(evs)].i + 1
    BY <1>3 DEF NextIndex, Last
  <2>3. \A j \in 1..Len(evs) : evs[j].i \in Nat
    BY <2>1 DEF EvSet
  <2>4. \A j \in 1..Len(evs) : j < Len(evs) \/ j = Len(evs)
    BY <2>1
  <2>5. \A j \in 1..Len(evs) : evs[j].i <= evs[Len(evs)].i
    BY <1>1, <2>1, <2>3, <2>4
  <2> QED
    BY <2>1, <2>2, <2>3, <2>5
<1> QED
  BY <1>2, <1>3

\* u is evs with e behind it.
LEMMA AppendExtends ==
    ASSUME NEW evs \in Seq(EvSet), NEW e \in EvSet
    PROVE  Extends(Append(evs, e), evs, e)
<1>1. PICK u : u = Append(evs, e)
  OBVIOUS
<1>2. /\ Len(u) = Len(evs) + 1 /\ Len(evs) \in Nat /\ u[Len(evs) + 1] = e
      /\ \A j \in 1..Len(evs) : u[j] = evs[j]
  BY <1>1
<1>3. /\ \A j \in 1..Len(evs) : j \in 1..Len(u)
      /\ Len(evs) + 1 \in 1..Len(u)
      /\ \A j \in 1..Len(u) : j \in 1..Len(evs) \/ j = Len(evs) + 1
  BY <1>2
<1> QED
  BY <1>1, <1>2, <1>3 DEF Extends

LEMMA EventItemsGrow ==
    ASSUME NEW evs \in Seq(EvSet), NEW e \in EvSet
    PROVE  /\ EventItems(evs) \subseteq EventItems(Append(evs, e))
           /\ e.k \in Telling => ItemOf(e) \in EventItems(Append(evs, e))
<1>1. PICK u : u = Append(evs, e)
  OBVIOUS
<1>2. /\ DOMAIN evs = 1..Len(evs) /\ DOMAIN u = 1..Len(u)
  BY <1>1
<1>3. /\ \A j \in 1..Len(evs) : u[j] = evs[j] /\ j \in 1..Len(u)
      /\ u[Len(evs) + 1] = e /\ Len(evs) + 1 \in 1..Len(u)
  BY <1>1, AppendExtends DEF Extends
<1>4. \A x : x \in EventItems(evs) => x \in EventItems(u)
  BY <1>2, <1>3, EventItemsAre
<1>5. e.k \in Telling => ItemOf(e) \in EventItems(u)
  BY <1>2, <1>3, EventItemsAre
<1> QED
  BY <1>1, <1>4, <1>5

LEMMA AppendInv ==
    ASSUME NEW evs, NEW A, NEW n \in Nat, LogInv(evs, A, n), NEW e \in EvSet, NEW m \in Nat, n <= m,
           e.i = NextIndex(evs), e.id <= m,
           e.k \in {"user", "think"} => e.id > n,
           e.k = "call" => \A j \in 1..Len(evs) : evs[j].k = "call" => evs[j].id # e.id,
           e.k = "compact" =>
             \A j \in 1..Len(evs) :
               /\ evs[j].i > e.upto => evs[j].k = "user"
               /\ evs[j].i <= e.upto /\ evs[j].k \in Telling => ItemOf(evs[j]) \in A
    PROVE  LogInv(Append(evs, e), A, m)
<1>1. /\ LogOK(evs) /\ CoverOK(evs, A) /\ \A j \in 1..Len(evs) : evs[j].id <= n
      /\ evs \in Seq(EvSet)
  BY DEF LogInv, LogOK
<1>2. PICK u : u = Append(evs, e)
  OBVIOUS
<1>3. /\ \A j \in 1..Len(evs) : u[j] = evs[j] /\ j \in 1..Len(u)
      /\ u[Len(evs) + 1] = e /\ Len(evs) + 1 \in 1..Len(u) /\ Len(evs) \in Nat
      /\ \A j \in 1..Len(u) : j \in 1..Len(evs) \/ j = Len(evs) + 1
      /\ Len(u) = Len(evs) + 1
  BY <1>1, <1>2, AppendExtends DEF Extends
<1>4. \A j \in 1..Len(evs) : evs[j].id \in Nat
  <2>1. \A j \in 1..Len(evs) : evs[j] \in EvSet
    BY <1>1
  <2> QED
    BY <2>1 DEF EvSet
<1>5. e.id \in Nat
  BY DEF EvSet
<1>6. ASSUME NEW j \in 1..Len(evs) PROVE PairOK(evs[j], e)
  <2>1. evs[j].i < e.i
    BY <1>1, NextIndexIs
  <2>2. e.k \in {"user", "think"} => evs[j].id < e.id
    BY <1>1, <1>4, <1>5
  <2> QED
    BY <2>1, <2>2 DEF PairOK
<1>7. LogOK(u)
  <2>1. e.k \in {"user", "think"} => e.id # 0
    BY <1>5
  <2> QED
    BY <1>1, <1>2, <1>6, <2>1, LogAppend
<1>8. CoverOK(u, A)
  <2> SUFFICES ASSUME NEW a \in 1..Len(u), NEW b \in 1..Len(u), a < b, u[b].k = "compact",
                      u[a].i <= u[b].upto, u[a].k \in Telling
               PROVE  ItemOf(u[a]) \in A
    BY DEF CoverOK
  <2>1. a \in 1..Len(evs) /\ u[a] = evs[a]
    BY <1>3
  <2>2. CASE b \in 1..Len(evs)
    BY <1>1, <1>3, <2>1, <2>2 DEF CoverOK
  <2>3. CASE b = Len(evs) + 1
    <3>1. u[b] = e
      BY <1>3, <2>3
    <3> QED
      BY <2>1, <3>1
  <2> QED
    BY <1>3, <2>2, <2>3
<1>9. \A j \in 1..Len(u) : u[j].id <= m
  <2>1. \A j \in 1..Len(evs) : evs[j].id <= m
    BY <1>1, <1>4
  <2> QED
    BY <1>3, <2>1
<1> QED
  BY <1>2, <1>7, <1>8, <1>9 DEF LogInv

\* u is evs with an event of kind k about id behind it.
Grown(u, evs, A, m, k, id) ==
    /\ LogInv(u, A, m) /\ u # <<>>
    /\ EventItems(evs) \subseteq EventItems(u)
    /\ k \in {"user", "think"} => <<FALSE, id>> \in EventItems(u)
    /\ k = "result" => <<TRUE, id>> \in EventItems(u)
    /\ \E e \in EvSet : Extends(u, evs, e) /\ e.k = k /\ e.id = id

\* An event of one of the kinds that carry no range.
LEMMA LoggedInv ==
    ASSUME NEW evs, NEW A, NEW n \in Nat, LogInv(evs, A, n), NEW k \in Kinds, k # "compact",
           NEW id \in Nat, NEW m \in Nat, n <= m, id <= m,
           k \in {"user", "think"} => id > n,
           k = "call" => \A j \in 1..Len(evs) : evs[j].k = "call" => evs[j].id # id
    PROVE  Grown(Logged(evs, k, id), evs, A, m, k, id)
<1> DEFINE e == Event(NextIndex(evs), k, id)
<1>1. PICK u : u = Logged(evs, k, id)
  OBVIOUS
<1>2. evs \in Seq(EvSet) /\ LogOK(evs)
  BY DEF LogInv, LogOK
<1>3. NextIndex(evs) \in Nat
  BY <1>2, NextIndexIs
<1>4. e \in EvSet /\ e.k = k /\ e.id = id /\ e.i = NextIndex(evs)
  BY <1>3 DEF Event, EvSet
<1>5. u = Append(evs, e)
  BY <1>1 DEF Logged
<1> HIDE DEF e
<1>6. LogInv(u, A, m)
  BY <1>4, <1>5, AppendInv
<1>7. Extends(u, evs, e)
  BY <1>2, <1>4, <1>5, AppendExtends
<1>8. EventItems(evs) \subseteq EventItems(u) /\ (k \in Telling => ItemOf(e) \in EventItems(u))
  BY <1>2, <1>4, <1>5, EventItemsGrow
<1>9. k \in {"user", "think"} => <<FALSE, id>> \in EventItems(u)
  <2> SUFFICES ASSUME k \in {"user", "think"} PROVE <<FALSE, id>> \in EventItems(u)
    OBVIOUS
  <2>1. ItemOf(e) = <<FALSE, id>>
    BY <1>4, ItemOfIs
  <2> QED
    BY <1>8, <2>1 DEF Telling
<1>10. k = "result" => <<TRUE, id>> \in EventItems(u)
  <2> SUFFICES ASSUME k = "result" PROVE <<TRUE, id>> \in EventItems(u)
    OBVIOUS
  <2>1. ItemOf(e) = <<TRUE, id>>
    BY <1>4, ItemOfIs
  <2> QED
    BY <1>8, <2>1 DEF Telling
<1>11. u # <<>>
  <2>1. Len(u) = Len(evs) + 1 /\ Len(evs) \in Nat
    BY <1>7 DEF Extends
  <2> QED
    BY <2>1
<1>12. \E x \in EvSet : Extends(u, evs, x) /\ x.k = k /\ x.id = id
  BY <1>4, <1>7
<1> QED
  BY <1>1, <1>6, <1>8, <1>9, <1>10, <1>11, <1>12, Zenon DEF Grown

\* Part of the log, in its order.
LEMMA PartInv ==
    ASSUME NEW evs, NEW A, NEW n, LogInv(evs, A, n), NEW t \in Seq(EvSet),
           \A a \in 1..Len(t) : \E c \in 1..Len(evs) : t[a] = evs[c],
           \A a, b \in 1..Len(t) : a < b =>
              \E c, d \in 1..Len(evs) : c < d /\ t[a] = evs[c] /\ t[b] = evs[d]
    PROVE  LogInv(t, A, n)
<1>1. ASSUME NEW a \in 1..Len(t)
      PROVE  t[a].id <= n /\ (t[a].k \in {"user", "think"} => t[a].id # 0)
  <2>1. PICK c \in 1..Len(evs) : t[a] = evs[c]
    OBVIOUS
  <2> QED
    BY <2>1 DEF LogInv, LogOK
<1>2. ASSUME NEW a \in 1..Len(t), NEW b \in 1..Len(t), a < b
      PROVE  /\ PairOK(t[a], t[b])
             /\ t[b].k = "compact" /\ t[a].i <= t[b].upto /\ t[a].k \in Telling => ItemOf(t[a]) \in A
  <2>1. PICK c \in 1..Len(evs), d \in 1..Len(evs) : c < d /\ t[a] = evs[c] /\ t[b] = evs[d]
    BY <1>2
  <2>2. PairOK(evs[c], evs[d])
    BY <2>1 DEF LogInv, LogOK
  <2>3. evs[d].k = "compact" /\ evs[c].i <= evs[d].upto /\ evs[c].k \in Telling => ItemOf(evs[c]) \in A
    BY <2>1 DEF LogInv, CoverOK
  <2> QED
    BY <2>1, <2>2, <2>3, Zenon
<1>3. LogOK(t)
  BY <1>1, <1>2 DEF LogOK
<1>4. CoverOK(t, A)
  BY <1>2 DEF CoverOK
<1> QED
  BY <1>1, <1>3, <1>4 DEF LogInv

LEMMA LogStays ==
    ASSUME NEW evs, NEW A, NEW n \in Nat, LogInv(evs, A, n), NEW B, A \subseteq B, NEW m \in Nat, n <= m
    PROVE  LogInv(evs, B, m)
<1>1. LogOK(evs) /\ CoverOK(evs, A) /\ \A j \in 1..Len(evs) : evs[j].id <= n
  BY DEF LogInv
<1>2. CoverOK(evs, B)
  BY <1>1, Zenon DEF CoverOK
<1>3. \A j \in 1..Len(evs) : evs[j] \in EvSet
  BY <1>1 DEF LogOK
<1>4. \A j \in 1..Len(evs) : evs[j].id \in Nat
  BY <1>3 DEF EvSet
<1>5. \A j \in 1..Len(evs) : evs[j].id <= m
  BY <1>1, <1>4
<1> QED
  BY <1>1, <1>2, <1>5 DEF LogInv

\* A rebuilt list.
LEMMA RebuiltLive ==
    ASSUME NEW evs, NEW A, NEW n \in Nat, LogInv(evs, A, n)
    PROVE  LiveOK(Replay(evs), evs, A, n)
<1>1. LogOK(evs) /\ evs \in Seq(EvSet) /\ DOMAIN evs = 1..Len(evs)
  BY DEF LogInv, LogOK
<1>2. Paired(Replay(evs)) /\ InOrder(Replay(evs)) /\ Items(Replay(evs)) \subseteq EventItems(evs)
  BY <1>1, ReplayIs
<1>3. ASSUME NEW i \in Nat, <<FALSE, i>> \in Items(Replay(evs)) PROVE i <= n
  <2>1. <<FALSE, i>> \in EventItems(evs)
    BY <1>2, <1>3
  <2>2. PICK j \in 1..Len(evs) : <<FALSE, i>> = ItemOf(evs[j])
    BY <1>1, <2>1, EventItemsAre
  <2>3. evs[j].k # "result"
    <3> SUFFICES ASSUME evs[j].k = "result" PROVE FALSE
      OBVIOUS
    <3>1. ItemOf(evs[j]) = <<TRUE, evs[j].id>>
      BY ItemOfIs
    <3>2. <<TRUE, evs[j].id>> # <<FALSE, i>>
      BY ItemsDiffer
    <3> QED
      BY <2>2, <3>1, <3>2, Zenon
  <2>4. ItemOf(evs[j]) = <<FALSE, evs[j].id>>
    BY <2>3, ItemOfIs
  <2>5. evs[j].id = i
    BY <2>2, <2>4, ItemsDiffer, Zenon
  <2> QED
    BY <2>5 DEF LogInv
<1> QED
  BY <1>2, <1>3 DEF LiveOK, SaidUpTo, Paired

-----------------------------------------------------------------------------
(* The list of a compaction.                                               *)

LEMMA JoinAt ==
    ASSUME NEW s \in Seq(Msgs), NEW t \in Seq(Msgs)
    PROVE  /\ s \o t \in Seq(Msgs) /\ Len(s \o t) = Len(s) + Len(t)
           /\ \A n \in 1..Len(s) : (s \o t)[n] = s[n]
           /\ \A n \in 1..Len(s \o t) : n > Len(s) => (s \o t)[n] = t[n - Len(s)]
  OBVIOUS

\* g is s with x for what lies between h and t.
Gap(g, s, x, h, t) ==
    /\ g \in Seq(Msgs)
    /\ \A n \in 1..Len(g) :
         \/ n < h + 1 /\ n \in 1..Len(s) /\ g[n] = s[n]
         \/ n = h + 1 /\ g[n] = x
         \/ n > h + 1 /\ ((n - (h + 1)) + t) - 1 \in 1..Len(s)
            /\ g[n] = s[((n - (h + 1)) + t) - 1]

LEMMA GapIs ==
    ASSUME NEW s \in Seq(Msgs), NEW x \in Msgs, NEW h \in Nat, NEW t \in Nat, h < t, t <= Len(s) + 1
    PROVE  Gap(SubSeq(s, 1, h) \o <<x>> \o SubSeq(s, t, Len(s)), s, x, h, t)
<1> DEFINE l == SubSeq(s, 1, h)
           r == SubSeq(s, t, Len(s))
           lx == l \o <<x>>
           g == lx \o r
<1>1. Len(s) \in Nat /\ h <= Len(s) /\ 1 <= t
  OBVIOUS
<1>2. l \in Seq(Msgs) /\ Len(l) = h /\ \A n \in 1..h : l[n] = s[n]
  BY <1>1
<1>3. /\ r \in Seq(Msgs) /\ Len(r) = (Len(s) - t) + 1
      /\ \A n \in 1..((Len(s) - t) + 1) : r[n] = s[(n + t) - 1]
  BY <1>1
<1> HIDE DEF l, r
<1>4. lx \in Seq(Msgs) /\ Len(lx) = h + 1 /\ (\A n \in 1..h : lx[n] = l[n]) /\ lx[h + 1] = x
  BY <1>1, <1>2
<1> HIDE DEF lx
<1>5. /\ g \in Seq(Msgs) /\ Len(g) = (h + 1) + Len(r)
      /\ \A n \in 1..(h + 1) : g[n] = lx[n]
      /\ \A n \in 1..Len(g) : n > h + 1 => g[n] = r[n - (h + 1)]
  <2>1. /\ g \in Seq(Msgs) /\ Len(g) = Len(lx) + Len(r)
        /\ \A n \in 1..Len(lx) : g[n] = lx[n]
        /\ \A n \in 1..Len(g) : n > Len(lx) => g[n] = r[n - Len(lx)]
    BY <1>3, <1>4, JoinAt
  <2> QED
    BY <1>4, <2>1, Zenon
<1> HIDE DEF g
<1>6. ASSUME NEW n \in 1..Len(g)
      PROVE  \/ n < h + 1 /\ n \in 1..Len(s) /\ g[n] = s[n]
             \/ n = h + 1 /\ g[n] = x
             \/ n > h + 1 /\ ((n - (h + 1)) + t) - 1 \in 1..Len(s)
                /\ g[n] = s[((n - (h + 1)) + t) - 1]
  <2>1. CASE n < h + 1
    <3>1. n \in 1..h /\ n \in 1..(h + 1) /\ n \in 1..Len(s)
      BY <1>1, <2>1
    <3> QED
      BY <1>2, <1>4, <1>5, <2>1, <3>1
  <2>2. CASE n = h + 1
    <3>1. h + 1 \in 1..(h + 1)
      OBVIOUS
    <3> QED
      BY <1>4, <1>5, <2>2, <3>1
  <2>3. CASE n > h + 1
    <3>1. n - (h + 1) \in 1..((Len(s) - t) + 1) /\ ((n - (h + 1)) + t) - 1 \in 1..Len(s)
      BY <1>1, <1>3, <1>5, <2>3
    <3>2. g[n] = r[n - (h + 1)] /\ r[n - (h + 1)] = s[((n - (h + 1)) + t) - 1]
      BY <1>3, <1>5, <2>3, <3>1
    <3> QED
      BY <2>3, <3>1, <3>2
  <2>4. n < h + 1 \/ n = h + 1 \/ n > h + 1
    BY <1>1
  <2> QED
    BY <2>1, <2>2, <2>3, <2>4
<1>7. Gap(g, s, x, h, t)
  BY <1>5, <1>6 DEF Gap
<1> QED
  BY <1>7 DEF g, lx, l, r

LEMMA SummaryIs ==
    ASSUME NEW of \in SUBSET ItemSet
    PROVE  /\ Summary(of) \in Msgs /\ Plain(Summary(of)) /\ ~Says(Summary(of))
           /\ Item(Summary(of)) = Nothing
<1>1. /\ Summary(of).role = "sum" /\ Summary(of).id = 0 /\ Summary(of).calls = <<>>
      /\ Summary(of) \in MsgRec
  BY DEF Summary, MsgRec, Roles
<1>2. Once(<<>>)
  BY DEF Once
<1> QED
  BY <1>1, <1>2, ItemIs DEF Msgs, Plain, IsTool, Says, Nothing

LEMMA GapOrder ==
    ASSUME NEW s \in Seq(Msgs), NEW of \in SUBSET ItemSet, NEW h \in Nat, NEW t \in Nat, h < t,
           t <= Len(s) + 1
    PROVE  LET g == SubSeq(s, 1, h) \o <<Summary(of)>> \o SubSeq(s, t, Len(s))
           IN  g \in Seq(Msgs) /\ Items(g) \subseteq Items(s) /\ (InOrder(s) => InOrder(g))
<1>1. PICK x \in Msgs : x = Summary(of) /\ ~Says(x) /\ Item(x) = Nothing
  BY SummaryIs
<1>2. PICK g : g = SubSeq(s, 1, h) \o <<x>> \o SubSeq(s, t, Len(s))
  OBVIOUS
<1> DEFINE p(n) == ((n - (h + 1)) + t) - 1
<1>3. /\ g \in Seq(Msgs)
      /\ \A n \in 1..Len(g) : \/ n < h + 1 /\ n \in 1..Len(s) /\ g[n] = s[n]
                              \/ n = h + 1 /\ g[n] = x
                              \/ n > h + 1 /\ p(n) \in 1..Len(s) /\ g[n] = s[p(n)]
  <2>1. Gap(g, s, x, h, t)
    BY <1>2, GapIs
  <2> QED
    BY <2>1 DEF Gap
<1>4. Len(g) \in Nat /\ DOMAIN g = 1..Len(g) /\ DOMAIN s = 1..Len(s) /\ Len(s) \in Nat
  BY <1>3
<1>5. \A a, b \in 1..Len(g) : a < b /\ b < h + 1 => a < h + 1
  BY <1>4
<1>6. \A a, b \in 1..Len(g) : a < b /\ a > h + 1 => p(a) < p(b) /\ b > h + 1
  BY <1>4
<1>7. \A a, b \in 1..Len(g) : a < h + 1 /\ b > h + 1 => a < p(b)
  BY <1>4
<1>8. \A n \in 1..Len(g) : /\ ~(n < h + 1 /\ n = h + 1) /\ ~(n < h + 1 /\ n > h + 1)
                           /\ ~(n > h + 1 /\ n = h + 1)
  BY <1>4
<1> HIDE DEF p
<1>9. Items(g) \subseteq Items(s)
  <2> SUFFICES ASSUME NEW y \in Items(g) PROVE y \in Items(s)
    OBVIOUS
  <2>1. PICK n \in 1..Len(g) : y = Item(g[n])
    BY <1>4, ItemsAre
  <2>2. y # Nothing
    BY ItemsAre
  <2>3. \E k \in 1..Len(s) : g[n] = s[k]
    BY <1>1, <1>3, <2>1, <2>2
  <2> QED
    BY <1>4, <2>1, <2>2, <2>3, ItemsAre
<1>10. ASSUME InOrder(s) PROVE InOrder(g)
  <2>1. ASSUME NEW a \in 1..Len(g), NEW b \in 1..Len(g), a < b, Says(g[a]), Says(g[b])
        PROVE  \E c, d \in 1..Len(s) : c < d /\ s[c] = g[a] /\ s[d] = g[b]
    <3>1. g[a] # x /\ g[b] # x
      BY <1>1, <2>1
    <3>2. \/ a < h + 1 /\ a \in 1..Len(s) /\ g[a] = s[a]
          \/ a > h + 1 /\ p(a) \in 1..Len(s) /\ g[a] = s[p(a)]
      BY <1>3, <3>1
    <3>3. \/ b < h + 1 /\ b \in 1..Len(s) /\ g[b] = s[b]
          \/ b > h + 1 /\ p(b) \in 1..Len(s) /\ g[b] = s[p(b)]
      BY <1>3, <3>1
    <3>4. CASE b < h + 1
      <4>1. a < h + 1
        BY <1>5, <2>1, <3>4
      <4> QED
        BY <1>8, <2>1, <3>2, <3>3, <3>4, <4>1
    <3>5. CASE b > h + 1 /\ a < h + 1
      <4>1. a < p(b)
        BY <1>7, <3>5
      <4> QED
        BY <1>8, <3>2, <3>3, <3>5, <4>1
    <3>6. CASE a > h + 1
      <4>1. p(a) < p(b) /\ b > h + 1
        BY <1>6, <2>1, <3>6
      <4> QED
        BY <1>8, <3>2, <3>3, <3>6, <4>1
    <3> QED
      BY <3>2, <3>3, <3>4, <3>5, <3>6
  <2> QED
    BY <1>10, <2>1, InOrderBy
<1> QED
  BY <1>1, <1>2, <1>3, <1>9, <1>10, Zenon

LEMMA BoundsAre ==
    ASSUME live \in Seq(Msgs)
    PROVE  /\ HeadEnd \in Nat /\ TailStart \in Nat /\ TailStart >= 1 /\ TailStart <= Len(live) + 1
           /\ HeadEnd <= Len(live) /\ Len(live) \in Nat
<1>1. ProtectedHead \in Nat /\ ProtectLast \in Nat /\ Len(live) \in Nat
  BY ConversationAssumption
<1>2. \A k \in Nat : Least(k, Len(live)) \in Nat /\ Least(k, Len(live)) <= Len(live)
  BY <1>1 DEF Least
<1>3. PICK a \in Nat : a = Least(ProtectedHead, Len(live)) /\ a <= Len(live)
  BY <1>1, <1>2
<1>4. PICK b \in Nat : b = Least(ProtectLast, Len(live)) /\ b <= Len(live)
  BY <1>1, <1>2
<1>5. HeadEnd = a /\ TailStart = Len(live) - b + 1
  BY <1>3, <1>4 DEF HeadEnd, TailStart
<1> QED
  BY <1>1, <1>3, <1>4, <1>5

LEMMA ToldIs ==
    ASSUME NEW s \in Seq(Msgs)
    PROVE  Told(s) \in SUBSET ItemSet
<1>1. DOMAIN s = 1..Len(s) /\ \A i \in 1..Len(s) : s[i] \in Msgs
  OBVIOUS
<1>2. \A i \in DOMAIN s : s[i].of \in SUBSET ItemSet
  BY <1>1 DEF Msgs, MsgRec
<1>3. \A x \in Items(s) : x \in ItemSet
  BY <1>1, ItemsAre, ItemIsItem
<1>4. ASSUME NEW x \in UNION {s[i].of : i \in DOMAIN s} PROVE x \in ItemSet
  BY <1>2, <1>4
<1> QED
  BY <1>3, <1>4 DEF Told

LEMMA MiddleIs == ASSUME live \in Seq(Msgs) PROVE Middle \in Seq(Msgs)
<1>1. /\ HeadEnd \in Nat /\ TailStart \in Nat /\ TailStart >= 1 /\ TailStart <= Len(live) + 1
  BY BoundsAre
<1>2. HeadEnd + 1 \in Nat /\ HeadEnd + 1 >= 1 /\ TailStart - 1 \in Nat /\ TailStart - 1 <= Len(live)
  BY <1>1
<1>3. \A a, b \in Nat : a >= 1 /\ b <= Len(live) => SubSeq(live, a, b) \in Seq(Msgs)
  OBVIOUS
<1> QED
  BY <1>2, <1>3 DEF Middle

LEMMA CompactedIs ==
    ASSUME live \in Seq(Msgs), HasMiddle, NEW of \in SUBSET ItemSet
    PROVE  /\ Compacted(of) \in Seq(Msgs) /\ Items(Compacted(of)) \subseteq Items(live)
           /\ InOrder(live) => InOrder(Compacted(of))
<1>1. PICK h \in Nat : h = HeadEnd
  BY BoundsAre
<1>2. PICK t \in Nat : t = TailStart
  BY BoundsAre
<1>3. h < t /\ t <= Len(live) + 1
  BY <1>1, <1>2, BoundsAre DEF HasMiddle
<1>4. PICK g : g = SubSeq(live, 1, h) \o <<Summary(of)>> \o SubSeq(live, t, Len(live))
  OBVIOUS
<1>5. g \in Seq(Msgs) /\ Items(g) \subseteq Items(live) /\ (InOrder(live) => InOrder(g))
  BY <1>3, <1>4, GapOrder
<1>6. Compacted(of) = SanitizeOrphans(g)
  BY <1>1, <1>2, <1>4 DEF Compacted
<1> QED
  BY <1>5, <1>6, SanitizeOrphansIs

\* The summary taken, prefired or not, is of the middle.
LEMMA TakenIs == TakeMatchingPrefire = Told(Middle)
<1>1. CASE prefire = {Fingerprint}
  <2>1. (CHOOSE p \in prefire : TRUE) = Fingerprint
    BY <1>1
  <2>2. Fingerprint.span = Middle
    BY DEF Fingerprint
  <2> QED
    BY <1>1, <2>1, <2>2 DEF TakeMatchingPrefire
<1>2. CASE prefire # {Fingerprint}
  BY <1>2 DEF TakeMatchingPrefire
<1> QED
  BY <1>1, <1>2

-----------------------------------------------------------------------------
(* The batch under way.                                                    *)

BatchSet == [calls : Seq(Nat), recorded : Nat, answered : SUBSET Nat, parallel : BOOLEAN]

\* A call is new to the log until it is recorded, and an answered one has its
\* result there.
BatchOK(b, evs, n) ==
    /\ b \in BatchSet /\ Once(b.calls)
    /\ b.recorded <= Len(b.calls) /\ b.answered \subseteq 1..b.recorded
    /\ \A k \in 1..Len(b.calls) :
         /\ b.calls[k] <= n
         /\ k > b.recorded =>
              \A j \in 1..Len(evs) : evs[j].k = "call" => evs[j].id # b.calls[k]
    /\ \A k \in b.answered : <<TRUE, b.calls[k]>> \in EventItems(evs)

LEMMA NoBatchOK == ASSUME NEW evs, NEW n PROVE BatchOK(NoBatch, evs, n)
<1>1. /\ NoBatch.calls = <<>> /\ NoBatch.recorded = 0 /\ NoBatch.answered = {}
      /\ NoBatch.parallel = FALSE /\ NoBatch \in BatchSet
  BY DEF NoBatch, BatchSet
<1>2. Once(<<>>) /\ 0 <= Len(<<>>) /\ 1..Len(<<>>) = {}
  BY DEF Once
<1> QED
  BY <1>1, <1>2 DEF BatchOK

LEMMA BatchIs ==
    ASSUME NEW b, NEW evs, NEW n, BatchOK(b, evs, n)
    PROVE  /\ b.calls \in Seq(Nat) /\ b.recorded \in Nat /\ b.answered \in SUBSET Nat
           /\ Len(b.calls) \in Nat /\ DOMAIN b.calls = 1..Len(b.calls)
           /\ \A k \in 1..Len(b.calls) : b.calls[k] \in Nat
<1>1. b.calls \in Seq(Nat) /\ b.recorded \in Nat /\ b.answered \in SUBSET Nat
  BY DEF BatchOK, BatchSet
<1> QED
  BY <1>1

\* An event that is not a call.
LEMMA BatchStays ==
    ASSUME NEW b, NEW evs, NEW n \in Nat, BatchOK(b, evs, n), NEW u, NEW e, Extends(u, evs, e),
           e.k # "call", EventItems(evs) \subseteq EventItems(u), NEW m \in Nat, n <= m
    PROVE  BatchOK(b, u, m)
<1>1. /\ b.calls \in Seq(Nat) /\ \A k \in 1..Len(b.calls) : b.calls[k] \in Nat
  BY BatchIs
<1>2. \A k \in 1..Len(b.calls) : b.calls[k] <= m
  <2>1. \A k \in 1..Len(b.calls) : b.calls[k] <= n
    BY DEF BatchOK
  <2> QED
    BY <1>1, <2>1
<1>3. ASSUME NEW k \in 1..Len(b.calls), k > b.recorded, NEW j \in 1..Len(u), u[j].k = "call"
      PROVE  u[j].id # b.calls[k]
  <2>1. j \in 1..Len(evs) /\ u[j] = evs[j]
    BY <1>3 DEF Extends
  <2> QED
    BY <1>3, <2>1 DEF BatchOK
<1>4. \A k \in b.answered : <<TRUE, b.calls[k]>> \in EventItems(u)
  BY Zenon DEF BatchOK
<1>5. /\ b \in BatchSet /\ Once(b.calls)
      /\ b.recorded <= Len(b.calls) /\ b.answered \subseteq 1..b.recorded
  BY DEF BatchOK
<1> QED
  BY <1>2, <1>3, <1>4, <1>5 DEF BatchOK

-----------------------------------------------------------------------------
(* The inductive invariant.                                                *)

\* While a compaction awaits its summary, only messages of the user are added.
SnapOK ==
    /\ HasMiddle /\ snap \in Nat
    /\ \A j \in 1..Len(log) : log[j].i > snap => log[j].k = "user"

\* A summary on file is of the span it replaced.
Archive == [of : SUBSET ItemSet, span : SUBSET ItemSet, events : SUBSET ItemSet]
Archived(arcs) == arcs \in Seq({r \in Archive : r.of = r.span})

ConvInv ==
    /\ items \in Nat /\ log # <<>> /\ LogInv(log, ArchivedItems, items)
    /\ LiveOK(live, log, ArchivedItems, items)
    /\ BatchOK(batch, log, items)
    /\ at = "compacting" => SnapOK
    /\ Archived(archives)

\* Another message of the user, whoever writes it.
LEMMA UserLogged ==
    ASSUME ConvInv
    PROVE  LET u == Logged(log, "user", items + 1) IN
           /\ LogInv(u, ArchivedItems, items + 1) /\ u # <<>>
           /\ EventItems(log) \subseteq EventItems(u)
           /\ <<FALSE, items + 1>> \in EventItems(u)
           /\ BatchOK(batch, u, items + 1)
           /\ SnapOK => \A j \in 1..Len(u) : u[j].i > snap => u[j].k = "user"
<1>1. /\ items \in Nat /\ items + 1 \in Nat /\ items <= items + 1 /\ items + 1 > items
      /\ items + 1 <= items + 1
  BY DEF ConvInv
<1>2. PICK u : u = Logged(log, "user", items + 1)
  OBVIOUS
<1>3. /\ "user" \in Kinds /\ "user" # "compact" /\ "user" # "call"
  BY DEF Kinds
<1>4. LogInv(log, ArchivedItems, items)
  BY DEF ConvInv
<1>5a. Grown(u, log, ArchivedItems, items + 1, "user", items + 1)
  BY <1>1, <1>2, <1>3, <1>4, LoggedInv
<1>5. /\ LogInv(u, ArchivedItems, items + 1) /\ u # <<>>
      /\ EventItems(log) \subseteq EventItems(u)
      /\ <<FALSE, items + 1>> \in EventItems(u)
      /\ \E e \in EvSet : Extends(u, log, e) /\ e.k = "user" /\ e.id = items + 1
  BY <1>5a DEF Grown
<1>6. PICK e \in EvSet : Extends(u, log, e) /\ e.k = "user"
  BY <1>5
<1>7. BatchOK(batch, u, items + 1)
  BY <1>1, <1>5, <1>6, BatchStays DEF ConvInv
<1>8. ASSUME SnapOK, NEW j \in 1..Len(u), u[j].i > snap PROVE u[j].k = "user"
  <2>1. CASE j \in 1..Len(log)
    <3>1. u[j] = log[j]
      BY <1>6, <2>1 DEF Extends
    <3> QED
      BY <1>8, <2>1, <3>1 DEF SnapOK
  <2>2. CASE j = Len(log) + 1
    BY <1>6, <2>2 DEF Extends
  <2> QED
    BY <1>6, <2>1, <2>2 DEF Extends
<1> QED
  BY <1>2, <1>5, <1>7, <1>8, Zenon

LEMMA RecordUserMessageKeeps == ASSUME ConvInv, RecordUserMessage PROVE ConvInv'
<1> DEFINE x == Message("user", items + 1, <<>>)
<1>1. /\ items' = items + 1 /\ log' = Logged(log, "user", items + 1) /\ live' = Append(live, x)
      /\ at' = "boundary" /\ batch' = batch /\ archives' = archives
  BY DEF RecordUserMessage
<1>2. /\ LogInv(log', ArchivedItems, items + 1) /\ log' # <<>>
      /\ EventItems(log) \subseteq EventItems(log')
      /\ <<FALSE, items + 1>> \in EventItems(log')
      /\ BatchOK(batch, log', items + 1)
  BY <1>1, UserLogged
<1>3. ArchivedItems' = ArchivedItems
  BY <1>1 DEF ArchivedItems
<1>4. items \in Nat /\ items + 1 \in Nat /\ items + 1 > items /\ items <= items + 1
  BY DEF ConvInv
<1>5. x \in Msgs /\ x.role = "user" /\ x.id = items + 1
  <2>1. "user" \in Roles
    BY DEF Roles
  <2> QED
    BY <1>4, <2>1, BareMessageIs
<1> HIDE DEF x
<1>6. Item(x) = <<FALSE, items + 1>>
  BY <1>5, ItemIs
<1>7. LiveOK(live', log', ArchivedItems, items + 1)
  <2>1. LiveOK(live, log, ArchivedItems, items)
    BY DEF ConvInv
  <2>2. Item(x) \in EventItems(log') /\ x.id > items /\ x.id <= items + 1 /\ x.role \notin {"tool", "text"}
    BY <1>2, <1>4, <1>5, <1>6
  <2>3. LiveOK(Append(live, x), log', ArchivedItems, items + 1)
    BY <1>2, <1>4, <1>5, <2>1, <2>2, LiveAppend
  <2> QED
    BY <1>1, <2>3, Zenon
<1>8. Archived(archives')
  BY <1>1 DEF ConvInv
<1> QED
  BY <1>1, <1>2, <1>3, <1>4, <1>7, <1>8 DEF ConvInv

LEMMA OtherProcessRecordsKeeps == ASSUME ConvInv, OtherProcessRecords PROVE ConvInv'
<1>1. /\ items' = items + 1 /\ log' = Logged(log, "user", items + 1) /\ live' = live
      /\ at' = at /\ batch' = batch /\ archives' = archives /\ snap' = snap
  BY DEF OtherProcessRecords
<1>2. /\ LogInv(log', ArchivedItems, items + 1) /\ log' # <<>>
      /\ EventItems(log) \subseteq EventItems(log')
      /\ BatchOK(batch, log', items + 1)
      /\ SnapOK => \A j \in 1..Len(log') : log'[j].i > snap => log'[j].k = "user"
  BY <1>1, UserLogged
<1>3. ArchivedItems' = ArchivedItems
  BY <1>1 DEF ArchivedItems
<1>4. items \in Nat /\ items + 1 \in Nat /\ items <= items + 1
  BY DEF ConvInv
<1>5. LiveOK(live, log', ArchivedItems, items + 1)
  BY <1>2, <1>4, LiveStays DEF ConvInv
<1>6. HasMiddle' <=> HasMiddle
  BY <1>1 DEF HasMiddle, HeadEnd, TailStart
<1>7. at' = "compacting" => SnapOK'
  <2> SUFFICES ASSUME at' = "compacting" PROVE SnapOK'
    OBVIOUS
  <2>1. SnapOK
    BY <1>1 DEF ConvInv
  <2> QED
    BY <1>1, <1>2, <1>6, <2>1 DEF SnapOK
<1>8. Archived(archives')
  BY <1>1 DEF ConvInv
<1> QED
  BY <1>1, <1>2, <1>3, <1>4, <1>5, <1>7, <1>8 DEF ConvInv

-----------------------------------------------------------------------------
(* A reply and its batch.                                                  *)

LEMMA CallsAre ==
    ASSUME NEW a \in Nat, NEW n \in Nat
    PROVE  LET c == [k \in 1..n |-> a + k] IN
           /\ c \in Seq(Nat) /\ Len(c) = n /\ Once(c)
           /\ \A k \in 1..n : c[k] > a /\ c[k] <= a + n
<1> SUFFICES ASSUME NEW c, c = [k \in 1..n |-> a + k]
             PROVE  /\ c \in Seq(Nat) /\ Len(c) = n /\ Once(c)
                    /\ \A k \in 1..n : c[k] > a /\ c[k] <= a + n
  OBVIOUS
<1>1. \A k \in 1..n : a + k \in Nat /\ a + k > a /\ a + k <= a + n
  OBVIOUS
<1>2. \A k, h \in 1..n : a + k = a + h => k = h
  OBVIOUS
<1>3. c \in [1..n -> Nat]
  BY <1>1
<1>4. c \in Seq(Nat) /\ Len(c) = n /\ DOMAIN c = 1..n
  BY <1>3
<1>5. Once(c)
  BY <1>2, <1>4 DEF Once
<1> QED
  BY <1>1, <1>4, <1>5

LEMMA NewBatch ==
    ASSUME NEW evs, NEW A, NEW n \in Nat, LogInv(evs, A, n), NEW m \in Nat,
           NEW c \in Seq(Nat), Once(c), \A k \in 1..Len(c) : c[k] > n /\ c[k] <= m,
           NEW par \in BOOLEAN
    PROVE  BatchOK([NoBatch EXCEPT !.calls = c, !.parallel = par], evs, m)
<1>1. PICK b : b = [NoBatch EXCEPT !.calls = c, !.parallel = par]
  OBVIOUS
<1>2. /\ b.calls = c /\ b.recorded = 0 /\ b.answered = {} /\ b.parallel = par /\ b \in BatchSet
  BY <1>1 DEF NoBatch, BatchSet
<1>3. 0 <= Len(c) /\ {} \subseteq 1..0
  OBVIOUS
<1>4. ASSUME NEW k \in 1..Len(c), NEW j \in 1..Len(evs) PROVE evs[j].id # c[k]
  <2>1. evs[j].id <= n /\ evs \in Seq(EvSet)
    BY DEF LogInv, LogOK
  <2>2. evs[j] \in EvSet
    BY <2>1
  <2>3. evs[j].id \in Nat
    BY <2>2 DEF EvSet
  <2>4. c[k] \in Nat /\ c[k] > n
    OBVIOUS
  <2> QED
    BY <2>1, <2>3, <2>4
<1>5. BatchOK(b, evs, m)
  BY <1>2, <1>3, <1>4 DEF BatchOK
<1> QED
  BY <1>1, <1>5

LEMMA ReplyIs ==
    ASSUME NEW id \in Nat, NEW c \in Seq(Nat), Once(c)
    PROVE  /\ Message("asst", id, c) \in Msgs /\ Message("asst", id, c).role = "asst"
           /\ Message("asst", id, c).id = id
<1>1. "asst" \in Roles /\ {} \in SUBSET ItemSet
  BY DEF Roles
<1> QED
  BY <1>1 DEF Message, Msgs, MsgRec, IsTool

LEMMA RecordAssistantResponseKeeps == ASSUME ConvInv, RecordAssistantResponse PROVE ConvInv'
<1>1. PICK text \in {0, 1}, n \in 0..MaxBatch, runs \in BOOLEAN, par \in BOOLEAN :
        LET calls == [k \in 1..n |-> items + text + k] IN
        /\ at = "boundary" /\ text + n > 0 /\ (runs => n > 0) /\ (par => runs /\ n > 1)
        /\ Room(text + n) /\ (runs => Len(log) + text + 2 * n <= MaxLog)
        /\ items' = items + text + n
        /\ log' = IF text = 1 THEN Logged(log, "think", items + 1) ELSE log
        /\ live' = Append(live, Message("asst", IF text = 1 THEN items + 1 ELSE 0, calls))
        /\ at' = IF runs THEN "acting" ELSE "boundary"
        /\ batch' = IF runs THEN [NoBatch EXCEPT !.calls = calls, !.parallel = par]
                    ELSE NoBatch
        /\ UNCHANGED <<prefire, archives, snap>>
  BY Zenon DEF RecordAssistantResponse
<1>2. PICK c : c = [k \in 1..n |-> items + text + k]
  OBVIOUS
<1>3. PICK id : id = IF text = 1 THEN items + 1 ELSE 0
  OBVIOUS
<1>4. PICK x : x = Message("asst", id, c)
  OBVIOUS
<1>5. /\ items' = items + text + n
      /\ log' = IF text = 1 THEN Logged(log, "think", items + 1) ELSE log
      /\ live' = Append(live, x)
      /\ at' = IF runs THEN "acting" ELSE "boundary"
      /\ batch' = IF runs THEN [NoBatch EXCEPT !.calls = c, !.parallel = par] ELSE NoBatch
      /\ archives' = archives
  BY <1>1, <1>2, <1>3, <1>4, Zenon
<1>6. items \in Nat /\ n \in Nat /\ text \in Nat
  BY ConversationAssumption DEF ConvInv
<1>7. /\ items + text \in Nat /\ items <= items + text /\ items + text + n \in Nat
      /\ items + text <= items + text + n /\ items <= items + text + n
  BY <1>6
<1>8. c \in Seq(Nat) /\ Len(c) = n /\ Once(c)
      /\ \A k \in 1..n : c[k] > items + text /\ c[k] <= items + text + n
  BY <1>2, <1>6, <1>7, CallsAre
<1>9. LogInv(log, ArchivedItems, items) /\ LiveOK(live, log, ArchivedItems, items) /\ log # <<>>
  BY DEF ConvInv
<1>10. /\ LogInv(log', ArchivedItems, items + text) /\ log' # <<>>
       /\ EventItems(log) \subseteq EventItems(log')
       /\ text = 1 => <<FALSE, items + 1>> \in EventItems(log')
  <2>1. CASE text = 1
    <3>1. log' = Logged(log, "think", items + 1)
      BY <1>5, <2>1
    <3>2. "think" \in Kinds /\ "think" # "compact" /\ "think" # "call"
      BY DEF Kinds
    <3>3. items + 1 \in Nat /\ items <= items + 1 /\ items + 1 > items /\ items + 1 <= items + 1
      BY <1>6
    <3>4. Grown(log', log, ArchivedItems, items + 1, "think", items + 1)
      BY <1>6, <1>9, <3>1, <3>2, <3>3, LoggedInv
    <3> QED
      BY <2>1, <3>4 DEF Grown
  <2>2. CASE text = 0
    <3>1. log' = log /\ items + text = items
      BY <1>5, <1>6, <2>2
    <3> QED
      BY <1>9, <2>2, <3>1
  <2> QED
    BY <2>1, <2>2
<1>11. id \in Nat /\ (id # 0 => text = 1 /\ id = items + 1) /\ (text = 1 => id = items + text)
  BY <1>3, <1>6
<1>12. x \in Msgs /\ x.role = "asst" /\ x.id = id
  BY <1>4, <1>8, <1>11, ReplyIs
<1>13. Item(x) = <<FALSE, id>>
  BY <1>12, ItemIs
<1>14. Item(x) # Nothing => Item(x) \in EventItems(log')
  <2>1. CASE id = 0
    BY <1>13, <2>1 DEF Nothing
  <2>2. CASE id # 0
    <3>1. text = 1 /\ id = items + 1
      BY <1>11, <2>2
    <3> QED
      BY <1>10, <1>13, <3>1, Zenon
  <2> QED
    BY <2>1, <2>2
<1>15. Says(x) => x.id > items /\ x.id <= items + text + n
  <2> SUFFICES ASSUME Says(x) PROVE x.id > items /\ x.id <= items + text + n
    OBVIOUS
  <2>1. id # 0
    BY <1>12 DEF Says
  <2>2. text = 1 /\ id = items + 1
    BY <1>11, <2>1
  <2> QED
    BY <1>6, <1>12, <2>2
<1>16. LiveOK(live', log', ArchivedItems, items + text + n)
  <2>1. x.role \notin {"tool", "text"}
    BY <1>12
  <2>2. LiveOK(Append(live, x), log', ArchivedItems, items + text + n)
    BY <1>6, <1>7, <1>9, <1>10, <1>12, <1>14, <1>15, <2>1, LiveAppend
  <2> QED
    BY <1>5, <2>2, Zenon
<1>17. LogInv(log', ArchivedItems, items + text + n)
  BY <1>7, <1>10, LogStays
<1>18. BatchOK(batch', log', items + text + n)
  <2>1. CASE runs
    <3>1. batch' = [NoBatch EXCEPT !.calls = c, !.parallel = par]
      BY <1>5, <2>1
    <3>2. BatchOK([NoBatch EXCEPT !.calls = c, !.parallel = par], log', items + text + n)
      BY <1>7, <1>8, <1>10, NewBatch
    <3> QED
      BY <3>1, <3>2, Zenon
  <2>2. CASE ~runs
    BY <1>5, <2>2, NoBatchOK
  <2> QED
    BY <2>1, <2>2
<1>19. at' # "compacting" /\ ArchivedItems' = ArchivedItems
  BY <1>5 DEF ArchivedItems
<1>20. Archived(archives')
  BY <1>5 DEF ConvInv
<1>21. items' \in Nat /\ items' = items + text + n
  BY <1>5, <1>7
<1> QED
  BY <1>10, <1>16, <1>17, <1>18, <1>19, <1>20, <1>21 DEF ConvInv

LEMMA RecordToolCallKeeps == ASSUME ConvInv, RecordToolCall PROVE ConvInv'
<1>1. PICK n : n = batch.recorded + 1
  OBVIOUS
<1>2. /\ at = "acting" /\ n <= Len(batch.calls) /\ log' = Logged(log, "call", batch.calls[n])
      /\ batch' = [batch EXCEPT !.recorded = n]
      /\ live' = live /\ at' = at /\ archives' = archives /\ items' = items
  BY <1>1 DEF RecordToolCall
<1>3. /\ items \in Nat /\ LogInv(log, ArchivedItems, items)
      /\ LiveOK(live, log, ArchivedItems, items) /\ BatchOK(batch, log, items)
  BY DEF ConvInv
<1>4. /\ batch.calls \in Seq(Nat) /\ batch.recorded \in Nat /\ Len(batch.calls) \in Nat
      /\ DOMAIN batch.calls = 1..Len(batch.calls)
      /\ \A k \in 1..Len(batch.calls) : batch.calls[k] \in Nat
  BY <1>3, BatchIs
<1>5. n \in 1..Len(batch.calls) /\ n \in Nat /\ n > batch.recorded
  BY <1>1, <1>2, <1>4
<1>6. PICK id : id = batch.calls[n]
  OBVIOUS
<1>7. id \in Nat /\ id <= items /\ \A j \in 1..Len(log) : log[j].k = "call" => log[j].id # id
  BY <1>3, <1>4, <1>5, <1>6 DEF BatchOK
<1>8. Grown(log', log, ArchivedItems, items, "call", id)
  <2>1. "call" \in Kinds /\ "call" # "compact" /\ "call" \notin {"user", "think"} /\ items <= items
    BY <1>3 DEF Kinds
  <2>2. log' = Logged(log, "call", id)
    BY <1>2, <1>6
  <2> QED
    BY <1>3, <1>7, <2>1, <2>2, LoggedInv
<1>9. PICK e \in EvSet : Extends(log', log, e) /\ e.k = "call" /\ e.id = id
  BY <1>8 DEF Grown
<1>10. /\ LogInv(log', ArchivedItems, items) /\ log' # <<>>
       /\ EventItems(log) \subseteq EventItems(log')
  BY <1>8 DEF Grown
<1>11. LiveOK(live, log', ArchivedItems, items)
  <2>1. items <= items
    BY <1>3
  <2> QED
    BY <1>3, <1>10, <2>1, LiveStays
<1>12. BatchOK(batch', log', items)
  <2>1. batch \in BatchSet /\ Once(batch.calls) /\ batch.answered \subseteq 1..batch.recorded
    BY <1>3 DEF BatchOK
  <2>2. /\ batch' \in BatchSet /\ batch'.calls = batch.calls /\ batch'.recorded = n
        /\ batch'.answered = batch.answered
    BY <1>2, <1>5, <2>1 DEF BatchSet
  <2>3. batch.answered \subseteq 1..n
    BY <1>1, <1>4, <2>1
  <2>4. ASSUME NEW k \in 1..Len(batch.calls), k > n, NEW j \in 1..Len(log'), log'[j].k = "call"
        PROVE  log'[j].id # batch.calls[k]
    <3>1. CASE j \in 1..Len(log)
      <4>1. log'[j] = log[j] /\ k > batch.recorded
        BY <1>1, <1>4, <1>9, <2>4, <3>1 DEF Extends
      <4> QED
        BY <1>3, <2>4, <3>1, <4>1 DEF BatchOK
    <3>2. CASE j = Len(log) + 1
      <4>1. log'[j] = e
        BY <1>9, <3>2 DEF Extends
      <4>2. batch.calls[k] # batch.calls[n]
        <5>1. k \in DOMAIN batch.calls /\ n \in DOMAIN batch.calls
          BY <1>4, <1>5
        <5>2. k # n
          BY <1>5, <2>4
        <5> QED
          BY <2>1, <5>1, <5>2 DEF Once
      <4> QED
        BY <1>6, <1>9, <4>1, <4>2
    <3> QED
      BY <1>9, <3>1, <3>2 DEF Extends
  <2>5. \A k \in batch.answered : <<TRUE, batch.calls[k]>> \in EventItems(log')
    BY <1>3, <1>10, Zenon DEF BatchOK
  <2>6. \A k \in 1..Len(batch.calls) : batch.calls[k] <= items
    BY <1>3 DEF BatchOK
  <2> QED
    BY <1>2, <1>4, <1>5, <2>1, <2>2, <2>3, <2>4, <2>5, <2>6, ZenonT(40) DEF BatchOK
<1>13. ArchivedItems' = ArchivedItems /\ Archived(archives')
  BY <1>2 DEF ArchivedItems, ConvInv
<1>14. at' # "compacting"
  BY <1>2
<1> QED
  BY <1>2, <1>3, <1>10, <1>11, <1>12, <1>13, <1>14 DEF ConvInv

LEMMA RecordOutcomeKeeps == ASSUME ConvInv, RecordOutcome PROVE ConvInv'
<1>1. PICK n \in Unanswered :
        /\ at = "acting" /\ log' = Logged(log, "result", batch.calls[n])
        /\ batch' = [batch EXCEPT !.answered = @ \cup {n}]
        /\ live' = live /\ at' = at /\ archives' = archives /\ items' = items
  BY DEF RecordOutcome
<1>3. /\ items \in Nat /\ LogInv(log, ArchivedItems, items)
      /\ LiveOK(live, log, ArchivedItems, items) /\ BatchOK(batch, log, items)
  BY DEF ConvInv
<1>4. /\ batch.calls \in Seq(Nat) /\ batch.recorded \in Nat /\ Len(batch.calls) \in Nat
      /\ batch.answered \in SUBSET Nat
      /\ \A k \in 1..Len(batch.calls) : batch.calls[k] \in Nat
  BY <1>3, BatchIs
<1>5. n \in 1..batch.recorded /\ n \in 1..Len(batch.calls) /\ n \in Nat
  <2>1. batch.recorded <= Len(batch.calls) /\ n \in 1..batch.recorded
    BY <1>3 DEF BatchOK, Unanswered
  <2> QED
    BY <1>4, <2>1
<1>6. PICK id : id = batch.calls[n]
  OBVIOUS
<1>7. id \in Nat /\ id <= items
  BY <1>3, <1>4, <1>5, <1>6 DEF BatchOK
<1>8. Grown(log', log, ArchivedItems, items, "result", id)
  <2>1. "result" \in Kinds /\ "result" # "compact" /\ "result" \notin {"user", "think"} /\ "result" # "call"
        /\ items <= items
    BY <1>3 DEF Kinds
  <2>2. log' = Logged(log, "result", id)
    BY <1>1, <1>6
  <2> QED
    BY <1>3, <1>7, <2>1, <2>2, LoggedInv
<1>9. PICK e \in EvSet : Extends(log', log, e) /\ e.k = "result" /\ e.id = id
  BY <1>8 DEF Grown
<1>10. /\ LogInv(log', ArchivedItems, items) /\ log' # <<>>
       /\ EventItems(log) \subseteq EventItems(log') /\ <<TRUE, id>> \in EventItems(log')
  BY <1>8 DEF Grown
<1>11. LiveOK(live, log', ArchivedItems, items) /\ BatchOK(batch, log', items)
  <2>1. items <= items /\ e.k # "call"
    BY <1>3, <1>9
  <2>2. LiveOK(live, log', ArchivedItems, items)
    BY <1>3, <1>10, <2>1, LiveStays
  <2>3. BatchOK(batch, log', items)
    BY <1>3, <1>9, <1>10, <2>1, BatchStays
  <2> QED
    BY <2>2, <2>3
<1>12. BatchOK(batch', log', items)
  <2>1. batch \in BatchSet /\ batch.answered \subseteq 1..batch.recorded
    BY <1>3 DEF BatchOK
  <2>2. /\ batch' \in BatchSet /\ batch'.calls = batch.calls /\ batch'.recorded = batch.recorded
        /\ batch'.answered = batch.answered \cup {n}
    BY <1>1, <1>5, <2>1 DEF BatchSet
  <2>3. batch.answered \cup {n} \subseteq 1..batch.recorded
    BY <1>5, <2>1
  <2>4. \A k \in batch.answered \cup {n} : <<TRUE, batch.calls[k]>> \in EventItems(log')
    <3>1. \A k \in batch.answered : <<TRUE, batch.calls[k]>> \in EventItems(log')
      BY <1>11, Zenon DEF BatchOK
    <3>2. <<TRUE, batch.calls[n]>> \in EventItems(log')
      BY <1>6, <1>10, Zenon
    <3> QED
      BY <3>1, <3>2, Zenon
  <2> QED
    BY <1>11, <2>2, <2>3, <2>4 DEF BatchOK
<1>13. ArchivedItems' = ArchivedItems /\ Archived(archives')
  BY <1>1 DEF ArchivedItems, ConvInv
<1>14. at' # "compacting"
  BY <1>1
<1> QED
  BY <1>1, <1>3, <1>10, <1>11, <1>12, <1>13, <1>14 DEF ConvInv

LEMMA BatchReturnsKeeps == ASSUME ConvInv, BatchReturns PROVE ConvInv'
<1> DEFINE t == [k \in DOMAIN batch.calls |-> Message("tool", batch.calls[k], <<>>)]
           c == batch.calls
<1>1. /\ batch.answered = DOMAIN c /\ live' = live \o t /\ at' = "boundary" /\ batch' = NoBatch
      /\ log' = log /\ archives' = archives /\ items' = items
  BY DEF BatchReturns
<1>2. /\ items \in Nat /\ LogInv(log, ArchivedItems, items) /\ log # <<>>
      /\ LiveOK(live, log, ArchivedItems, items) /\ BatchOK(batch, log, items)
  BY DEF ConvInv
<1>3. /\ Len(c) \in Nat /\ DOMAIN c = 1..Len(c) /\ \A k \in 1..Len(c) : c[k] \in Nat
  BY <1>2, BatchIs
<1>4. DOMAIN t = 1..Len(c) /\ \A k \in 1..Len(c) : t[k] = Message("tool", c[k], <<>>)
  BY <1>3
<1>5. t = [k \in 1..Len(c) |-> t[k]]
  BY <1>3
<1>6. \A k \in 1..Len(c) : <<TRUE, c[k]>> \in EventItems(log)
  BY <1>1, <1>2, <1>3, Zenon DEF BatchOK
<1> HIDE DEF t, c
<1>7. "tool" \in Roles
  BY DEF Roles
<1>8. ASSUME NEW k \in 1..Len(c)
      PROVE  /\ t[k] \in Msgs /\ ~Says(t[k]) /\ Item(t[k]) = <<TRUE, c[k]>>
  <2>1. t[k] \in Msgs /\ t[k].role = "tool" /\ t[k].id = c[k]
    BY <1>3, <1>4, <1>7, BareMessageIs
  <2>2. ~Says(t[k])
    BY <2>1 DEF Says
  <2>3. Item(t[k]) = <<TRUE, c[k]>>
    <3>1. t[k].role \in {"tool", "text"}
      BY <2>1
    <3>2. Item(t[k]) = <<TRUE, t[k].id>>
      BY <3>1, ItemIs
    <3> QED
      BY <2>1, <3>2
  <2> QED
    BY <2>1, <2>2, <2>3
<1>9. t \in Seq(Msgs) /\ Len(t) = Len(c)
  BY <1>3, <1>5, <1>8, ListOf
<1>10. live \in Seq(Msgs) /\ InOrder(live) /\ Items(live) \subseteq EventItems(log) \cup ArchivedItems
       /\ SaidUpTo(live, items)
  BY <1>2 DEF LiveOK
<1>11. PICK u : u = live \o t
  OBVIOUS
<1>12. u \in Seq(Msgs) /\ Items(u) \subseteq Items(live) \cup Items(t)
  BY <1>9, <1>10, <1>11, ItemsConcat
<1>13. InOrder(u)
  BY <1>8, <1>9, <1>10, <1>11, InOrderConcat
<1>14. ASSUME NEW x \in Items(t)
       PROVE  x \in EventItems(log) /\ \A i : x # <<FALSE, i>>
  <2>1. PICK k \in 1..Len(c) : x = Item(t[k])
    BY <1>4, ItemsAre
  <2>2. x = <<TRUE, c[k]>>
    BY <1>8, <2>1
  <2>3. x \in EventItems(log)
    BY <1>6, <2>2, Zenon
  <2> QED
    BY <2>2, <2>3, ItemsDiffer
<1>15. Items(u) \subseteq EventItems(log) \cup ArchivedItems
  BY <1>10, <1>12, <1>14, Zenon
<1>16. SaidUpTo(u, items)
  <2> SUFFICES ASSUME NEW i \in Nat, <<FALSE, i>> \in Items(u) PROVE i <= items
    BY DEF SaidUpTo
  <2>1. <<FALSE, i>> \in Items(live)
    BY <1>12, <1>14, Zenon
  <2> QED
    BY <1>10, <2>1, Zenon DEF SaidUpTo
<1>17. LiveOK(live', log, ArchivedItems, items)
  <2>1. LiveOK(u, log, ArchivedItems, items)
    BY <1>12, <1>13, <1>15, <1>16 DEF LiveOK
  <2> QED
    BY <1>1, <1>11, <2>1, Zenon
<1>18. BatchOK(batch', log, items)
  BY <1>1, NoBatchOK
<1>19. ArchivedItems' = ArchivedItems /\ Archived(archives') /\ at' # "compacting"
  BY <1>1 DEF ArchivedItems, ConvInv
<1> QED
  BY <1>1, <1>2, <1>17, <1>18, <1>19 DEF ConvInv

\* Steps that touch neither the log nor the list.
LEMMA SameConversationKeeps ==
    ASSUME ConvInv, log' = log, live' = live, archives' = archives, items' = items,
           batch' \in {batch, NoBatch}, at' = "compacting" => SnapOK'
    PROVE  ConvInv'
<1>1. ArchivedItems' = ArchivedItems
  BY DEF ArchivedItems
<1>2. BatchOK(batch', log, items)
  <2>1. CASE batch' = batch
    BY <2>1 DEF ConvInv
  <2>2. CASE batch' = NoBatch
    BY <2>2, NoBatchOK
  <2> QED
    BY <2>1, <2>2
<1> QED
  BY <1>1, <1>2 DEF ConvInv

LEMMA TurnStopsKeeps == ASSUME ConvInv, TurnStops PROVE ConvInv'
<1>1. at' = "idle" /\ batch' = NoBatch /\ log' = log /\ live' = live /\ archives' = archives /\ items' = items
  BY DEF TurnStops
<1>2. batch' \in {batch, NoBatch} /\ (at' = "compacting" => SnapOK')
  BY <1>1
<1> QED
  BY <1>1, <1>2, SameConversationKeeps

LEMMA MaybeSpawnPrefireKeeps == ASSUME ConvInv, MaybeSpawnPrefire PROVE ConvInv'
<1>1. at' = "boundary" /\ batch' = batch /\ log' = log /\ live' = live /\ archives' = archives /\ items' = items
  BY DEF MaybeSpawnPrefire
<1>2. batch' \in {batch, NoBatch} /\ (at' = "compacting" => SnapOK')
  BY <1>1
<1> QED
  BY <1>1, <1>2, SameConversationKeeps

LEMMA CompactBeginsKeeps == ASSUME ConvInv, CompactBegins PROVE ConvInv'
<1>1. /\ HasMiddle /\ snap' = Last(log).i
      /\ batch' = batch /\ log' = log /\ live' = live /\ archives' = archives /\ items' = items
  BY DEF CompactBegins
<1>2. batch' \in {batch, NoBatch}
  BY <1>1
<1>3. HasMiddle'
  BY <1>1 DEF HasMiddle, HeadEnd, TailStart
<1>4. LogOK(log) /\ log # <<>> /\ log \in Seq(EvSet)
  BY DEF ConvInv, LogInv, LogOK
<1>5. PICK n : n = Len(log)
  OBVIOUS
<1>6. n \in Nat /\ n >= 1 /\ n \in 1..Len(log) /\ Last(log) = log[n]
  BY <1>4, <1>5 DEF Last
<1>7. ASSUME NEW j \in 1..Len(log) PROVE log[j].i \in Nat /\ (j # n => log[j].i < log[n].i)
  <2>1. log[j] \in EvSet
    BY <1>4
  <2>2. j # n => j < n
    BY <1>5, <1>6
  <2> QED
    BY <1>4, <1>6, <2>1, <2>2 DEF LogOK, PairOK, EvSet
<1>8. snap' \in Nat /\ \A j \in 1..Len(log) : ~(log[j].i > snap')
  BY <1>1, <1>6, <1>7
<1>9. SnapOK'
  BY <1>1, <1>3, <1>8 DEF SnapOK
<1> QED
  BY <1>1, <1>2, <1>9, SameConversationKeeps

-----------------------------------------------------------------------------
(* A compaction ends.                                                      *)

LEMMA EventItemsAreItems == ASSUME NEW evs \in Seq(EvSet) PROVE EventItems(evs) \in SUBSET ItemSet
<1> SUFFICES ASSUME NEW x \in EventItems(evs) PROVE x \in ItemSet
  OBVIOUS
<1>1. PICK j \in DOMAIN evs : x = ItemOf(evs[j])
  BY EventItemsAre
<1>2. evs[j].id \in Nat
  <2>1. evs[j] \in EvSet
    OBVIOUS
  <2> QED
    BY <2>1 DEF EvSet
<1>3. TRUE \in BOOLEAN /\ FALSE \in BOOLEAN
  OBVIOUS
<1>4. CASE evs[j].k = "result"
  <2>1. x = <<TRUE, evs[j].id>>
    BY <1>1, <1>4, ItemOfIs
  <2> QED
    BY <1>2, <1>3, <2>1 DEF ItemSet
<1>5. CASE evs[j].k # "result"
  <2>1. x = <<FALSE, evs[j].id>>
    BY <1>1, <1>5, ItemOfIs
  <2> QED
    BY <1>2, <1>3, <2>1 DEF ItemSet
<1> QED
  BY <1>4, <1>5

\* The archive holds what the covered events say.
LEMMA ArchiveHolds ==
    ASSUME NEW evs \in Seq(EvSet), NEW K, K \in SUBSET DOMAIN evs
    PROVE  /\ EventItems(Picked(evs, K)) \in SUBSET ItemSet
           /\ \A j \in K : evs[j].k \in Telling => ItemOf(evs[j]) \in EventItems(Picked(evs, K))
<1>1. PICK p : p = Picked(evs, K)
  OBVIOUS
<1>2. p \in Seq(EvSet) /\ \A j \in K : \E k \in 1..Len(p) : p[k] = evs[j]
  BY <1>1, PickedHas
<1>3. EventItems(p) \in SUBSET ItemSet
  BY <1>2, EventItemsAreItems
<1>4. ASSUME NEW j \in K, evs[j].k \in Telling PROVE ItemOf(evs[j]) \in EventItems(p)
  <2>1. PICK k \in 1..Len(p) : p[k] = evs[j]
    BY <1>2
  <2>2. k \in DOMAIN p
    BY <1>2, <2>1
  <2> QED
    BY <1>4, <2>1, <2>2, EventItemsAre
<1> QED
  BY <1>1, <1>3, <1>4

ArchiveOf(of, evts) == [of |-> of, span |-> of, events |-> evts]
Filed(arcs) == UNION {arcs[n].events : n \in DOMAIN arcs}

LEMMA ArchiveAdded ==
    ASSUME NEW arcs, Archived(arcs), NEW of, of \in SUBSET ItemSet,
           NEW evts, evts \in SUBSET ItemSet, NEW u, u = Append(arcs, ArchiveOf(of, evts))
    PROVE  Archived(u) /\ Filed(arcs) \subseteq Filed(u) /\ evts \subseteq Filed(u)
<1> DEFINE R == {r \in Archive : r.of = r.span}
<1>1. PICK r : r = ArchiveOf(of, evts)
  OBVIOUS
<1>2. u = Append(arcs, r)
  BY <1>1
<1>3. r \in R /\ r.events = evts
  BY <1>1 DEF Archive, ArchiveOf
<1>4. arcs \in Seq(R)
  BY DEF Archived
<1> HIDE DEF R
<1>5. /\ u \in Seq(R) /\ DOMAIN u = 1..(Len(arcs) + 1) /\ Len(arcs) \in Nat
      /\ DOMAIN arcs = 1..Len(arcs) /\ u[Len(arcs) + 1] = r
      /\ \A n \in 1..Len(arcs) : u[n] = arcs[n]
  BY <1>2, <1>3, <1>4
<1>6. Len(arcs) + 1 \in DOMAIN u /\ \A n \in DOMAIN arcs : n \in DOMAIN u
  BY <1>5
<1>7. Archived(u)
  BY <1>5 DEF Archived, R
<1>8. Filed(arcs) \subseteq Filed(u)
  BY <1>5, <1>6, Zenon DEF Filed
<1>9. evts \subseteq Filed(u)
  BY <1>3, <1>5, <1>6, Zenon DEF Filed
<1> QED
  BY <1>7, <1>8, <1>9

Compaction(i, upto, of) == [Event(i, "compact", 0) EXCEPT !.upto = upto, !.of = of]

LEMMA CompactionLogged ==
    ASSUME NEW evs, NEW A, NEW n \in Nat, LogInv(evs, A, n), NEW upto \in Nat,
           NEW of \in SUBSET ItemSet,
           \A j \in 1..Len(evs) :
             /\ evs[j].i > upto => evs[j].k = "user"
             /\ evs[j].i <= upto /\ evs[j].k \in Telling => ItemOf(evs[j]) \in A
    PROVE  Grown(Append(evs, Compaction(NextIndex(evs), upto, of)), evs, A, n, "compact", 0)
<1>1. PICK e : e = Compaction(NextIndex(evs), upto, of)
  OBVIOUS
<1>2. PICK u : u = Append(evs, e)
  OBVIOUS
<1>3. evs \in Seq(EvSet) /\ LogOK(evs)
  BY DEF LogInv, LogOK
<1>4. NextIndex(evs) \in Nat
  BY <1>3, NextIndexIs
<1>5. "compact" \in Kinds
  BY DEF Kinds
<1>6. e \in EvSet /\ e.k = "compact" /\ e.id = 0 /\ e.i = NextIndex(evs) /\ e.upto = upto
  BY <1>1, <1>4, <1>5 DEF Compaction, Event, EvSet
<1>7. n <= n /\ e.id <= n /\ e.k \notin {"user", "think"} /\ e.k # "call"
  BY <1>6
<1>8. \A j \in 1..Len(evs) :
             /\ evs[j].i > e.upto => evs[j].k = "user"
             /\ evs[j].i <= e.upto /\ evs[j].k \in Telling => ItemOf(evs[j]) \in A
  BY <1>6
<1>9. LogInv(u, A, n)
  BY <1>2, <1>6, <1>7, <1>8, AppendInv
<1>10. EventItems(evs) \subseteq EventItems(u)
  BY <1>2, <1>3, <1>6, EventItemsGrow
<1>11. Extends(u, evs, e)
  BY <1>2, <1>3, <1>6, AppendExtends
<1>12. u # <<>>
  <2>1. Len(u) = Len(evs) + 1 /\ Len(evs) \in Nat
    BY <1>11 DEF Extends
  <2> QED
    BY <2>1
<1>13. \E x \in EvSet : Extends(u, evs, x) /\ x.k = "compact" /\ x.id = 0
  BY <1>6, <1>11
<1>14. "compact" \notin {"user", "think"} /\ "compact" # "result"
  OBVIOUS
<1>15. Grown(u, evs, A, n, "compact", 0)
  BY <1>9, <1>10, <1>12, <1>13, <1>14 DEF Grown
<1> QED
  BY <1>1, <1>2, <1>15

LEMMA CompactEndsKeeps == ASSUME ConvInv, CompactEnds PROVE ConvInv'
<1>1. PICK of : of = Told(Middle)
  OBVIOUS
<1>2. PICK K : K = {j \in DOMAIN log : log[j].i <= snap}
  OBVIOUS
<1>3. PICK evts : evts = EventItems(Picked(log, K))
  OBVIOUS
<1>4. PICK arc : arc = Append(archives, ArchiveOf(of, evts))
  OBVIOUS
<1>5. PICK u : u = Append(log, Compaction(NextIndex(log), snap, of))
  OBVIOUS
<1>6. /\ at = "compacting" /\ live' = Compacted(of)
      /\ \E written, appended \in BOOLEAN :
          /\ appended => written
          /\ archives' = IF written THEN arc ELSE archives
          /\ log' = IF appended THEN u ELSE log
          /\ at' = IF appended THEN "boundary" ELSE "idle"
      /\ batch' = batch /\ items' = items
  <2>1. TakeMatchingPrefire = of
    BY <1>1, TakenIs
  <2> QED
    BY <1>1, <1>2, <1>3, <1>4, <1>5, <2>1, Zenon DEF CompactEnds, Compaction, ArchiveOf
<1>7. PICK written \in BOOLEAN, appended \in BOOLEAN :
          /\ appended => written
          /\ archives' = IF written THEN arc ELSE archives
          /\ log' = IF appended THEN u ELSE log
          /\ at' = IF appended THEN "boundary" ELSE "idle"
  BY <1>6
<1>8. /\ items \in Nat /\ LogInv(log, ArchivedItems, items) /\ log # <<>>
      /\ LiveOK(live, log, ArchivedItems, items) /\ BatchOK(batch, log, items)
      /\ Archived(archives) /\ SnapOK
  BY <1>6 DEF ConvInv
<1>9. live \in Seq(Msgs) /\ log \in Seq(EvSet) /\ DOMAIN log = 1..Len(log) /\ items <= items
  BY <1>8 DEF LiveOK, LogInv, LogOK
<1>10. of \in SUBSET ItemSet
  BY <1>1, <1>9, MiddleIs, ToldIs
<1>11. K \in SUBSET DOMAIN log
  BY <1>2
<1>12. evts \in SUBSET ItemSet /\ \A j \in K : log[j].k \in Telling => ItemOf(log[j]) \in evts
  BY <1>3, <1>9, <1>11, ArchiveHolds
<1>13. Archived(arc) /\ Filed(archives) \subseteq Filed(arc) /\ evts \subseteq Filed(arc)
  <2>1. Archived(archives) /\ evts \in SUBSET ItemSet
    BY <1>8, <1>12
  <2> QED
    BY <1>4, <1>10, <2>1, ArchiveAdded
<1>14. ArchivedItems = Filed(archives) /\ ArchivedItems' = Filed(archives')
  BY DEF ArchivedItems, Filed
<1>15. PICK B : B = Filed(archives')
  OBVIOUS
<1>16. ArchivedItems \subseteq B /\ Archived(archives') /\ (written => evts \subseteq B)
  <2>1. CASE written
    <3>1. archives' = arc
      BY <1>7, <2>1
    <3> QED
      BY <1>13, <1>14, <1>15, <3>1
  <2>2. CASE ~written
    <3>1. archives' = archives
      BY <1>7, <2>2
    <3> QED
      BY <1>8, <1>14, <1>15, <2>2, <3>1
  <2> QED
    BY <2>1, <2>2
<1>17. LogInv(log, B, items)
  BY <1>8, <1>9, <1>16, LogStays
<1>18. /\ LogInv(log', B, items) /\ log' # <<>> /\ EventItems(log) \subseteq EventItems(log')
       /\ BatchOK(batch, log', items)
  <2>1. CASE appended
    <3>1. written /\ log' = u
      BY <1>7, <2>1
    <3>2. \A j \in 1..Len(log) :
             /\ log[j].i > snap => log[j].k = "user"
             /\ log[j].i <= snap /\ log[j].k \in Telling => ItemOf(log[j]) \in B
      BY <1>2, <1>8, <1>9, <1>12, <1>16, <3>1 DEF SnapOK
    <3>3. snap \in Nat
      BY <1>8 DEF SnapOK
    <3>4a. Grown(u, log, B, items, "compact", 0)
      BY <1>5, <1>8, <1>10, <1>17, <3>2, <3>3, CompactionLogged
    <3>4. /\ LogInv(u, B, items) /\ u # <<>> /\ EventItems(log) \subseteq EventItems(u)
          /\ \E e \in EvSet : Extends(u, log, e) /\ e.k = "compact"
      BY <3>4a DEF Grown
    <3>5. PICK e \in EvSet : Extends(u, log, e) /\ e.k = "compact"
      BY <3>4
    <3>6. e.k # "call"
      BY <3>5
    <3>7. BatchOK(batch, u, items)
      BY <1>8, <1>9, <3>4, <3>5, <3>6, BatchStays
    <3> QED
      BY <3>1, <3>4, <3>7
  <2>2. CASE ~appended
    <3>1. log' = log
      BY <1>7, <2>2
    <3> QED
      BY <1>8, <1>17, <3>1
  <2> QED
    BY <2>1, <2>2
<1>19. LiveOK(live', log', B, items)
  <2>1. PICK c : c = Compacted(of)
    OBVIOUS
  <2>2. c \in Seq(Msgs) /\ Items(c) \subseteq Items(live) /\ (InOrder(live) => InOrder(c))
    BY <1>8, <1>9, <1>10, <2>1, CompactedIs DEF SnapOK
  <2>3. LiveOK(live, log', B, items)
    BY <1>8, <1>9, <1>16, <1>18, LiveStays
  <2>4. /\ InOrder(c) /\ Items(c) \subseteq EventItems(log') \cup B
    BY <2>2, <2>3 DEF LiveOK
  <2>5. SaidUpTo(c, items)
    BY <2>2, <2>3, Zenon DEF LiveOK, SaidUpTo
  <2>6. LiveOK(c, log', B, items)
    BY <2>2, <2>4, <2>5 DEF LiveOK
  <2> QED
    BY <1>6, <2>1, <2>6, Zenon
<1>20. at' # "compacting"
  BY <1>7
<1> QED
  BY <1>6, <1>8, <1>14, <1>15, <1>16, <1>18, <1>19, <1>20 DEF ConvInv

-----------------------------------------------------------------------------
(* Resume, rollback and fork.                                              *)

LEMMA RebuiltKeeps ==
    ASSUME ConvInv, NEW evs, NEW n \in Nat, LogInv(evs, ArchivedItems, n), evs # <<>>, Rebuilt(evs),
           archives' = archives, items' = n
    PROVE  ConvInv'
<1>1. log' = evs /\ live' = Replay(evs) /\ at' = "idle" /\ batch' = NoBatch
  BY DEF Rebuilt
<1>2. LiveOK(live', evs, ArchivedItems, n)
  <2>1. LiveOK(Replay(evs), evs, ArchivedItems, n)
    BY RebuiltLive
  <2> QED
    BY <1>1, <2>1, Zenon
<1>3. BatchOK(batch', evs, n)
  BY <1>1, NoBatchOK
<1>4. ArchivedItems' = ArchivedItems /\ Archived(archives') /\ at' # "compacting"
  BY <1>1 DEF ArchivedItems, ConvInv
<1> QED
  BY <1>1, <1>2, <1>3, <1>4 DEF ConvInv

LEMMA ResumeKeeps == ASSUME ConvInv, Resume PROVE ConvInv'
<1>1. Rebuilt(log) /\ archives' = archives /\ items' = items
  BY DEF Resume
<1>2. items \in Nat /\ LogInv(log, ArchivedItems, items) /\ log # <<>>
  BY DEF ConvInv
<1> QED
  BY <1>1, <1>2, RebuiltKeeps

LEMMA TakeSnapshotKeeps == ASSUME ConvInv, TakeSnapshot PROVE ConvInv'
<1>1. /\ at' = "idle" /\ log' = Logged(log, "snap", 0) /\ live' = live /\ batch' = batch
      /\ archives' = archives /\ items' = items
  BY DEF TakeSnapshot
<1>2. /\ items \in Nat /\ LogInv(log, ArchivedItems, items) /\ LiveOK(live, log, ArchivedItems, items)
      /\ BatchOK(batch, log, items) /\ items <= items /\ 0 <= items
  BY DEF ConvInv
<1>3. /\ "snap" \in Kinds /\ "snap" # "compact" /\ "snap" # "call" /\ "snap" \notin {"user", "think"}
  BY DEF Kinds
<1>4. Grown(log', log, ArchivedItems, items, "snap", 0)
  BY <1>1, <1>2, <1>3, LoggedInv
<1>5. PICK e \in EvSet : Extends(log', log, e) /\ e.k = "snap"
  BY <1>4 DEF Grown
<1>6. /\ LogInv(log', ArchivedItems, items) /\ log' # <<>>
      /\ EventItems(log) \subseteq EventItems(log') /\ e.k # "call"
  BY <1>4, <1>5 DEF Grown
<1>7. LiveOK(live, log', ArchivedItems, items)
  BY <1>2, <1>6, LiveStays
<1>8. BatchOK(batch, log', items)
  BY <1>2, <1>5, <1>6, BatchStays
<1>9. ArchivedItems' = ArchivedItems /\ Archived(archives') /\ at' # "compacting"
  BY <1>1 DEF ArchivedItems, ConvInv
<1> QED
  BY <1>1, <1>2, <1>6, <1>7, <1>8, <1>9 DEF ConvInv

LEMMA RollbackKeeps == ASSUME ConvInv, Rollback PROVE ConvInv'
<1>1. PICK n \in DOMAIN log : Rebuilt(SubSeq(log, 1, n))
  BY DEF Rollback
<1>2. archives' = archives /\ items' = items
  BY DEF Rollback
<1>3. items \in Nat /\ LogInv(log, ArchivedItems, items) /\ log \in Seq(EvSet)
  BY DEF ConvInv, LogInv, LogOK
<1>4. PICK t : t = SubSeq(log, 1, n)
  OBVIOUS
<1>5. n \in 1..Len(log) /\ Len(log) \in Nat
  BY <1>3
<1>6. /\ t \in Seq(EvSet) /\ Len(t) = n /\ \A a \in 1..n : t[a] = log[a] /\ a \in 1..Len(log)
  BY <1>3, <1>4, <1>5
<1>7. \A a \in 1..Len(t) : \E c \in 1..Len(log) : t[a] = log[c]
  BY <1>6
<1>8. \A a, b \in 1..Len(t) : a < b => \E c, d \in 1..Len(log) : c < d /\ t[a] = log[c] /\ t[b] = log[d]
  BY <1>6
<1>9. LogInv(t, ArchivedItems, items)
  BY <1>3, <1>6, <1>7, <1>8, PartInv
<1>10. t # <<>>
  BY <1>5, <1>6
<1>11. Rebuilt(t)
  BY <1>1, <1>4
<1> QED
  BY <1>2, <1>3, <1>9, <1>10, <1>11, RebuiltKeeps

\* Some of the events, in their order.
LEMMA PickedInv ==
    ASSUME NEW evs, NEW A, NEW n, LogInv(evs, A, n), NEW K, K \in SUBSET DOMAIN evs
    PROVE  LogInv(Picked(evs, K), A, n)
<1>1. evs \in Seq(EvSet) /\ DOMAIN evs = 1..Len(evs)
  BY DEF LogInv, LogOK
<1>2. /\ Picked(evs, K) \in Seq(EvSet)
      /\ \A k \in 1..Len(Picked(evs, K)) : \E c \in K : Picked(evs, K)[k] = evs[c]
      /\ \A a, b \in 1..Len(Picked(evs, K)) : a < b =>
           \E c, d \in K : c < d /\ Picked(evs, K)[a] = evs[c] /\ Picked(evs, K)[b] = evs[d]
  BY <1>1, PickedHas
<1>3. PICK t : t = Picked(evs, K)
  OBVIOUS
<1>4. t \in Seq(EvSet)
  BY <1>2, <1>3
<1>5. \A a \in 1..Len(t) : \E c \in 1..Len(evs) : t[a] = evs[c]
  BY <1>1, <1>2, <1>3, Zenon
<1>6. ASSUME NEW a \in 1..Len(t), NEW b \in 1..Len(t), a < b
      PROVE  \E c, d \in 1..Len(evs) : c < d /\ t[a] = evs[c] /\ t[b] = evs[d]
  <2>1. \E c, d \in K : c < d /\ t[a] = evs[c] /\ t[b] = evs[d]
    BY <1>2, <1>3, <1>6
  <2>2. K \subseteq 1..Len(evs)
    BY <1>1
  <2> QED
    BY <2>1, <2>2
<1>7. LogInv(t, A, n)
  BY <1>4, <1>5, <1>6, PartInv
<1> QED
  BY <1>3, <1>7

LEMMA ForkSessionKeeps == ASSUME ConvInv, ForkSession PROVE ConvInv'
<1>1. PICK n \in DOMAIN log :
        LET copied == Picked(log, {j \in 1..n : log[j].k # "meta"})
        IN  Rebuilt(Logged(Logged(copied, "meta", 0), "user", items'))
  BY DEF ForkSession
<1>2. items' = items + 1 /\ archives' = archives
  BY DEF ForkSession
<1>3. items \in Nat /\ LogInv(log, ArchivedItems, items) /\ log \in Seq(EvSet)
  BY DEF ConvInv, LogInv, LogOK
<1>4. PICK K : K = {j \in 1..n : log[j].k # "meta"}
  OBVIOUS
<1>5. K \in SUBSET DOMAIN log /\ DOMAIN log = 1..Len(log)
  BY <1>3, <1>4
<1>6. PICK t : t = Picked(log, K)
  OBVIOUS
<1>7. LogInv(t, ArchivedItems, items)
  BY <1>3, <1>5, <1>6, PickedInv
<1>8. PICK v : v = Logged(t, "meta", 0)
  OBVIOUS
<1>9. LogInv(v, ArchivedItems, items)
  <2>1. "meta" \in Kinds /\ "meta" # "compact" /\ "meta" # "call" /\ "meta" \notin {"user", "think"}
    BY DEF Kinds
  <2>2. items <= items /\ 0 <= items
    BY <1>3
  <2>3. Grown(v, t, ArchivedItems, items, "meta", 0)
    BY <1>3, <1>7, <1>8, <2>1, <2>2, LoggedInv
  <2> QED
    BY <2>3 DEF Grown
<1>10. PICK w : w = Logged(v, "user", items + 1)
  OBVIOUS
<1>11. items + 1 \in Nat /\ items <= items + 1 /\ items + 1 <= items + 1 /\ items + 1 > items
  BY <1>3
<1>12. LogInv(w, ArchivedItems, items + 1) /\ w # <<>>
  <2>1. "user" \in Kinds /\ "user" # "compact" /\ "user" # "call"
    BY DEF Kinds
  <2>2. Grown(w, v, ArchivedItems, items + 1, "user", items + 1)
    BY <1>3, <1>9, <1>10, <1>11, <2>1, LoggedInv
  <2> QED
    BY <2>2 DEF Grown
<1>13. Rebuilt(w)
  BY <1>1, <1>2, <1>4, <1>6, <1>8, <1>10, Zenon
<1> QED
  BY <1>2, <1>11, <1>12, <1>13, RebuiltKeeps

-----------------------------------------------------------------------------
(* The theorems.                                                           *)

LEMMA ConvInitHolds == ConvInit => ConvInv
<1> SUFFICES ASSUME ConvInit PROVE ConvInv
  OBVIOUS
<1> DEFINE e == Event(0, "meta", 0)
<1>1. /\ log = <<e>> /\ live = <<>> /\ at = "idle" /\ batch = NoBatch /\ archives = <<>> /\ items = 0
  BY DEF ConvInit
<1>2. e \in EvSet /\ e.k = "meta" /\ e.id = 0
  BY DEF Event, EvSet, Kinds
<1> HIDE DEF e
<1>3. log \in Seq(EvSet) /\ Len(log) = 1 /\ log[1] = e /\ \A j \in 1..Len(log) : j = 1
  BY <1>1, <1>2
<1>4. \A a, b \in 1..Len(log) : ~(a < b)
  BY <1>3
<1>5. LogInv(log, ArchivedItems, items)
  <2>1. LogOK(log)
    BY <1>2, <1>3, <1>4 DEF LogOK
  <2>2. CoverOK(log, ArchivedItems)
    BY <1>4 DEF CoverOK
  <2>3. \A j \in 1..Len(log) : log[j].id <= items
    BY <1>1, <1>2, <1>3
  <2> QED
    BY <2>1, <2>2, <2>3 DEF LogInv
<1>6. LiveOK(live, log, ArchivedItems, items)
  <2>1. live \in Seq(Msgs) /\ Len(live) = 0 /\ DOMAIN live = {}
    BY <1>1
  <2>2. Items(live) = {}
    BY <2>1, ItemsAre
  <2>3. InOrder(live)
    BY <2>1 DEF InOrder
  <2> QED
    BY <2>1, <2>2, <2>3 DEF LiveOK, SaidUpTo
<1>7. BatchOK(batch, log, items)
  BY <1>1, NoBatchOK
<1>8. Archived(archives) /\ at # "compacting" /\ items \in Nat /\ log # <<>>
  BY <1>1 DEF Archived
<1> QED
  BY <1>5, <1>6, <1>7, <1>8 DEF ConvInv

LEMMA ConvNextKeeps == ConvInv /\ [ConvNext]_convVars => ConvInv'
<1> SUFFICES ASSUME ConvInv, [ConvNext]_convVars PROVE ConvInv'
  OBVIOUS
<1>1. CASE RecordUserMessage
  BY <1>1, RecordUserMessageKeeps
<1>2. CASE RecordAssistantResponse
  BY <1>2, RecordAssistantResponseKeeps
<1>3. CASE RecordToolCall
  BY <1>3, RecordToolCallKeeps
<1>4. CASE RecordOutcome
  BY <1>4, RecordOutcomeKeeps
<1>5. CASE BatchReturns
  BY <1>5, BatchReturnsKeeps
<1>6. CASE TurnStops
  BY <1>6, TurnStopsKeeps
<1>7. CASE OtherProcessRecords
  BY <1>7, OtherProcessRecordsKeeps
<1>8. CASE MaybeSpawnPrefire
  BY <1>8, MaybeSpawnPrefireKeeps
<1>9. CASE CompactBegins
  BY <1>9, CompactBeginsKeeps
<1>10. CASE CompactEnds
  BY <1>10, CompactEndsKeeps
<1>11. CASE Resume
  BY <1>11, ResumeKeeps
<1>12. CASE TakeSnapshot
  BY <1>12, TakeSnapshotKeeps
<1>13. CASE Rollback
  BY <1>13, RollbackKeeps
<1>14. CASE ForkSession
  BY <1>14, ForkSessionKeeps
<1>15. CASE UNCHANGED convVars
  <2>1. /\ log' = log /\ live' = live /\ archives' = archives /\ items' = items /\ batch' = batch
        /\ at' = at /\ snap' = snap
    BY <1>15 DEF convVars
  <2>2. at' = "compacting" => SnapOK'
    BY <2>1 DEF ConvInv, SnapOK, HasMiddle, HeadEnd, TailStart
  <2> QED
    BY <2>1, <2>2, SameConversationKeeps
<1> QED
  BY <1>1, <1>2, <1>3, <1>4, <1>5, <1>6, <1>7, <1>8, <1>9, <1>10, <1>11, <1>12, <1>13, <1>14, <1>15
     DEF ConvNext

LEMMA ConvInvHolds == ConvSpec => []ConvInv
  BY ConvInitHolds, ConvNextKeeps, PTL DEF ConvSpec

LEMMA ConvInvSummaries == ConvInv => SummaryIsOfItsSpan
<1> SUFFICES ASSUME ConvInv, NEW n \in DOMAIN archives PROVE archives[n].of = archives[n].span
  BY DEF SummaryIsOfItsSpan
<1>1. archives \in Seq({r \in Archive : r.of = r.span})
  BY DEF ConvInv, Archived
<1>2. archives[n] \in {r \in Archive : r.of = r.span}
  BY <1>1
<1> QED
  BY <1>2

LEMMA ConvInvWire == ConvInv => WireIsLegal
<1> SUFFICES ASSUME ConvInv PROVE WireIsLegal
  OBVIOUS
<1>1. live \in Seq(Msgs) /\ LogOK(log)
  BY DEF ConvInv, LiveOK, LogInv
<1>2. Legal(Wire(live))
  BY <1>1, WireIsPaired, PairedIsLegal
<1>3. LegacyReplay(log) \in Seq(Msgs)
  BY <1>1, LegacyReplayIs
<1>4. Legal(Wire(LegacyReplay(log)))
  BY <1>3, WireIsPaired, PairedIsLegal
<1>5. Paired(Replay(log))
  BY <1>1, ReplayIs
<1>6. Legal(Replay(log))
  BY <1>5, PairedIsLegal
<1> QED
  BY <1>2, <1>4, <1>6 DEF WireIsLegal

LEMMA ConvInvResume == ConvInv => ResumeLosesNothing
<1> SUFFICES ASSUME ConvInv PROVE ResumeLosesNothing
  OBVIOUS
<1>1. PICK r : r = Replay(log)
  OBVIOUS
<1>2. PICK kept : kept = Items(live) \cap Items(r)
  OBVIOUS
<1>3. /\ LogOK(log) /\ CoverOK(log, ArchivedItems) /\ live \in Seq(Msgs) /\ InOrder(live)
      /\ Items(live) \subseteq EventItems(log) \cup ArchivedItems
  BY DEF ConvInv, LogInv, LiveOK
<1>4. /\ Paired(Replay(log)) /\ InOrder(Replay(log))
      /\ \A j \in 1..Len(log) : log[j].k \in Telling =>
           Covered(log, j) \/ ItemOf(log[j]) \in Items(Replay(log))
  BY <1>3, ReplayIs
<1>5. /\ r \in Seq(Msgs) /\ InOrder(r)
      /\ \A j \in 1..Len(log) : log[j].k \in Telling => Covered(log, j) \/ ItemOf(log[j]) \in Items(r)
  BY <1>1, <1>4 DEF Paired
<1>6. ASSUME NEW x \in Items(live) PROVE x \in kept \cup ArchivedItems
  <2>1. CASE x \in ArchivedItems
    BY <2>1
  <2>2. CASE x \in EventItems(log)
    <3>1. PICK j \in DOMAIN log : log[j].k \in Telling /\ x = ItemOf(log[j])
      BY <2>2, EventItemsAre
    <3>2. j \in 1..Len(log)
      BY <1>3 DEF LogOK
    <3>3. CASE Covered(log, j)
      <4>1. PICK b \in 1..Len(log) : j < b /\ log[b].k = "compact" /\ log[j].i <= log[b].upto
        BY <3>3 DEF Covered
      <4> QED
        BY <1>3, <3>1, <3>2, <4>1 DEF CoverOK
    <3>4. CASE ItemOf(log[j]) \in Items(r)
      BY <1>2, <1>6, <3>1, <3>4
    <3> QED
      BY <1>5, <3>1, <3>2, <3>3, <3>4
  <2> QED
    BY <1>3, <1>6, <2>1, <2>2
<1>7. PICK S : S = kept \cap Said
  OBVIOUS
<1>8. S \subseteq Items(live) /\ S \subseteq Items(r) /\ S \subseteq Said
  BY <1>2, <1>7
<1>9. Common(live, S) = Common(r, S)
  BY <1>3, <1>5, <1>8, CommonSame
<1> QED
  BY <1>1, <1>2, <1>6, <1>7, <1>9, Zenon DEF ResumeLosesNothing

\* A summary on file is of the very span it replaced, though it may have been
\* prefired while the list grew (take_matching_prefire).
THEOREM SummaryIsOfItsSpanHolds == ConvSpec => []SummaryIsOfItsSpan
  BY ConvInvHolds, ConvInvSummaries, PTL

\* Whatever a session went through, every request and both replays pair every
\* tool_use with its result (sanitize_tool_use_groups, replay.rs).
THEOREM WireIsLegalHolds == ConvSpec => []WireIsLegal
  BY ConvInvHolds, ConvInvWire, PTL

\* What the model has been shown is replayed from the log, what was said in the
\* same order, or is in an archive, for any protected head and tail, any number
\* of compactions, rollbacks and forks, and any other process writing to the log
\* (record_user_message, compact_with_trigger, replay_messages).
THEOREM ResumeLosesNothingHolds == ConvSpec => []ResumeLosesNothing
  BY ConvInvHolds, ConvInvResume, PTL
=============================================================================
