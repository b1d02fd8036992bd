----------------------------- MODULE MCRecords ------------------------------
(***************************************************************************)
(* What the database records, for TLC: one case's ledger, by its rules and  *)
(* by the tables it is kept in, and a session's log with its transcript.  A *)
(* behaviour is of one of the three; the others stay as they begin.         *)
(***************************************************************************)
EXTENDS CaseLedger, LedgerTables, SessionLog

VARIABLE part

MCAllKinds == [high: BOOLEAN, validator: Validators]

\* Clients of the ledger are interchangeable, and so are processes on the log.
RecordsSymmetry == Permutations(Clients) \cup Permutations(Processes)

\* Where the property of the log still claims something.  It does not once two
\* processes share a log that was rolled back or that a crash has torn, or a
\* torn one was rolled back, and no step leads out of that.
Claimed == ~(shared /\ (rolled > 0 \/ torn)) /\ ~(torn /\ rolled > 0)

\* A proposal, alone or with the plan of an Experiment, and the queueing of
\* that Experiment by the task store.
First == <<"e", 1>>
Second == <<"e", 2>>
Queued == <<"q", 2>>
MCPayloads == {<<First>>, <<First, Second>>}
MCTaskEvents == {Queued}
MCNeeds(id) == CASE id = Second -> {First} [] id = Queued -> {Second} [] OTHER -> {}

RecordsInit == Init /\ LTInit /\ SLInit /\ part \in {"rules", "tables", "log"}

RecordsNext ==
  \/ part = "rules" /\ Next /\ UNCHANGED <<part, ltVars, slVars>>
  \/ part = "tables" /\ LTNext /\ UNCHANGED <<part, lvars, slVars>>
  \/ part = "log" /\ SLNext /\ UNCHANGED <<part, lvars, ltVars>>

RecordsSpec == RecordsInit /\ [][RecordsNext]_<<part, lvars, ltVars, slVars>>
=============================================================================
