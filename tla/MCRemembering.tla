---------------------------- MODULE MCRemembering ----------------------------
(***************************************************************************)
(* What a session keeps, for TLC: its conversation, its memories and its    *)
(* bounty findings.  Each behaviour is of one of these parts; the others    *)
(* stay as they begin.                                                      *)
(***************************************************************************)
EXTENDS Conversation, Memories, Findings

CONSTANTS m1, m2

VARIABLE part

\* Processes that write memories are interchangeable.
MemSymmetry == Permutations(MemProcs)

Entry(kind, value, host) == [kind |-> kind, value |-> value, host |-> host]

\* A URL under the prefix in scope, and a host that is out of scope.
InsideUrl ==
  [kind |-> "url", entries |-> {"example.com"}, prefixes |-> {"/app"}, private |-> FALSE]
DeniedHost ==
  [kind |-> "host", entries |-> {"example.com", "admin"}, prefixes |-> {}, private |-> FALSE]
Example ==
  [inScope |-> {Entry("url_prefix", "/app", "example.com")},
   outScope |-> {Entry("host", "admin", "admin")}, allowPrivate |-> FALSE]

Reported(claim, ids, place) ==
  [tool |-> "report_finding", title |-> "t", claim |-> claim, ids |-> ids, place |-> place]

\* Reports with and without what bears them out, in and out of scope, and one
\* call of each of the other tools.
AllModelCalls ==
  {Reported("confirmed", {"r1", "r2"}, InsideUrl), Reported("confirmed", {"r1"}, DeniedHost),
   Reported("rejected", {"r2"}, InsideUrl), Reported("possible", {"r2"}, InsideUrl),
   Reported("possible", {}, NoPlace),
   [tool |-> "set_program_scope", program |-> Example],
   [tool |-> "record_asset", place |-> InsideUrl],
   [tool |-> "report_recon", place |-> DeniedHost],
   [tool |-> "generate_bounty_report", allow_no_findings |-> FALSE]}

RememberingInit ==
  /\ ConvInit /\ MemInit /\ FindInit
  /\ part \in {"conversation", "memory", "findings"}
  /\ part # "findings" => status = [r \in Resolutions |-> "none"]

RememberingNext ==
  \/ part = "conversation" /\ ConvNext /\ UNCHANGED <<part, memVars, findVars>>
  \/ part = "memory" /\ MemNext /\ UNCHANGED <<part, convVars, findVars>>
  \/ part = "findings" /\ FindNext /\ UNCHANGED <<part, convVars, memVars>>

RememberingSpec ==
  RememberingInit /\ [][RememberingNext]_<<part, convVars, memVars, findVars>>
=============================================================================
