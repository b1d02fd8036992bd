----------------------------- MODULE Providers ------------------------------
(***************************************************************************)
(* The LLM client: concurrent calls over one chain of providers, each with  *)
(* its health, its rate limit and its half-open probe (holmes-llm:          *)
(* client.rs, provider.rs, rate_limiter.rs, error_classifier.rs).           *)
(*                                                                         *)
(* Time is counted down: Elapse passes a unit of it for every timer.  A       *)
(* cooling window, which the backoff, its jitter and Retry-After choose, is *)
(* any up to CooldownMax; a timer that ran out is acted on at any later     *)
(* moment.                                                                 *)
(***************************************************************************)
EXTENDS Naturals, Sequences, FiniteSets, FiniteSetsExt, SequencesExt

CONSTANTS
    Chain,           \* the providers by priority: a sequence
    Limited,         \* the providers with an rpm_limit
    LlmCalls,        \* concurrent callers
    RoleOf,          \* the provider of each caller's role
    CallDeadline, CooldownMax, ProbeLease

ASSUME ProvidersAssumption ==
    /\ Chain \in Seq(ToSet(Chain))
    /\ CallDeadline \in Nat /\ CooldownMax \in Nat /\ ProbeLease \in Nat

VARIABLES
    prov,     \* health of each provider
    call      \* each caller's call

llmVars == <<prov, call>>

ChainSet == ToSet(Chain)

NewProv == [status |-> "healthy", until |-> 0, probing |-> FALSE, lease |-> 0]

\* partial: text of this attempt is buffered.
NoCall == [at |-> "idle", prov |-> "none", attempted |-> {}, left |-> 0, sleep |-> 0,
           partial |-> FALSE]

LlmInit ==
    /\ prov = [p \in ChainSet |-> NewProv]
    /\ call = [c \in LlmCalls |-> NoCall]

CallGoes(c, r) == call' = [call EXCEPT ![c] = r]

-----------------------------------------------------------------------------
(* Provider health.                                                        *)

\* try_claim, its answer.
Claimable(p) ==
    LET s == prov[p]
    IN \/ s.status = "healthy"
       \/ s.status = "half_open" /\ (~s.probing \/ s.lease = 0)
       \/ s.status = "cooling" /\ s.until = 0

\* try_claim, its effect: the probe slot is taken.
Claimed(s) ==
    IF s.status = "healthy" THEN s
    ELSE [s EXCEPT !.status = "half_open", !.probing = TRUE, !.lease = ProbeLease]

\* record_success.
HealthyAgain == NewProv

\* record_failure.
Cooled(window) == [status |-> "cooling", until |-> window, probing |-> FALSE, lease |-> 0]
Disabled(s) == [s EXCEPT !.status = "disabled", !.probing = FALSE, !.lease = 0]

-----------------------------------------------------------------------------
(* A call.                                                                 *)

Untried(c) == {p \in ChainSet : p \notin call[c].attempted}
Selectable(c) == {p \in Untried(c) : Claimable(p)}

\* select_for_role: the role's provider, or the first of the chain.
Selected(c) ==
    IF RoleOf[c] \in Selectable(c) THEN RoleOf[c]
    ELSE Chain[Min({k \in DOMAIN Chain : Chain[k] \in Selectable(c)})]

\* next_probe_at.
ProbeTimes(c) == {prov[p].until : p \in {q \in Untried(c) : prov[q].status = "cooling"}}

BeginCall(c) ==
    /\ call[c].at = "idle"
    /\ CallGoes(c, [NoCall EXCEPT !.at = "select", !.left = CallDeadline])
    /\ UNCHANGED prov

\* Fault: a provider may be tried again.
AttemptedNot(c) == call[c].attempted

AttemptedNow(c) == call[c].attempted \cup {Selected(c)}

SelectProvider(c) ==
    /\ call[c].at = "select" /\ call[c].left > 0 /\ Selectable(c) # {}
    /\ prov' = [prov EXCEPT ![Selected(c)] = Claimed(@)]
    /\ CallGoes(c, [call[c] EXCEPT !.at = "queued", !.prov = Selected(c), !.partial = FALSE,
                                !.attempted = AttemptedNow(c)])

\* Everything left is cooling: wait for the first probe, within the deadline.
AwaitProbe(c) ==
    /\ call[c].at = "select" /\ Selectable(c) = {} /\ ProbeTimes(c) # {}
    /\ Min(ProbeTimes(c)) < call[c].left
    /\ CallGoes(c, [call[c] EXCEPT !.at = "asleep", !.sleep = Min(ProbeTimes(c))])
    /\ UNCHANGED prov

WakeUp(c) ==
    /\ call[c].at = "asleep" /\ call[c].sleep = 0
    /\ CallGoes(c, [call[c] EXCEPT !.at = "select"])
    /\ UNCHANGED prov

GiveUp(c) ==
    /\ call[c].at = "select"
    /\ \/ call[c].left = 0
       \/ /\ Selectable(c) = {}
          /\ \A t \in ProbeTimes(c) : t >= call[c].left
    /\ CallGoes(c, [call[c] EXCEPT !.at = "failed"])
    /\ UNCHANGED prov

\* RateLimiter::acquire: the one permit is held until the attempt ends; a token
\* may take any time to come.
Acquire(c) ==
    /\ call[c].at = "queued"
    /\ call[c].prov \in Limited =>
         \A d \in LlmCalls : ~(call[d].at = "sent" /\ call[d].prov = call[c].prov)
    /\ CallGoes(c, [call[c] EXCEPT !.at = "sent"])
    /\ UNCHANGED prov

\* A piece of text of the stream; it is kept until the attempt has succeeded.
Delta(c) ==
    /\ call[c].at = "sent" /\ ~call[c].partial
    /\ CallGoes(c, [call[c] EXCEPT !.partial = TRUE])
    /\ UNCHANGED prov

\* The stream ended with a stop reason and no error frame.
Answer(c) ==
    /\ call[c].at = "sent"
    /\ prov' = [prov EXCEPT ![call[c].prov] = HealthyAgain]
    /\ CallGoes(c, [call[c] EXCEPT !.at = "answered"])

\* What a provider may send instead of an answer, and from_status_and_body,
\* from_sse_error and the transport's errors on it.
Classified ==
    [s429 |-> "RateLimit", s429_quota |-> "Billing", s400 |-> "FormatError",
     s400_context |-> "ContextOverflow", s401 |-> "Auth", s402 |-> "Billing",
     s404 |-> "ModelNotFound", s500 |-> "ServerError", s503 |-> "Overloaded",
     s504 |-> "Timeout", no_connection |-> "Connection", cut_off |-> "StreamInterrupted",
     no_stop_reason |-> "StreamInterrupted", unreadable |-> "Unknown",
     overloaded_frame |-> "Overloaded", auth_frame |-> "Auth", other |-> "Unknown"]

\* failure_class.
FailureClass(reason) ==
    CASE reason \in {"RateLimit", "Overloaded", "ServerError", "Timeout", "Connection",
                     "StreamInterrupted", "Unknown"} -> "transient"
      [] reason \in {"Auth", "Billing", "ModelNotFound"} -> "config"
      [] reason \in {"FormatError", "ContextOverflow"} -> "content"

\* record_failure and the loop: on to the next provider, but for a request that
\* is refused for what it says.  Of that nothing is recorded, and a probe that
\* the attempt was stays in flight.
FailsWith(c, reason, window) ==
    LET class == FailureClass(reason)
        p == call[c].prov
    IN /\ prov' = [prov EXCEPT ![p] = CASE class = "transient" -> Cooled(window)
                                         [] class = "config" -> Disabled(@)
                                         [] class = "content" -> @]
       /\ CallGoes(c, [call[c] EXCEPT !.at = IF class = "content" THEN "failed" ELSE "select"])

AttemptFails(c, sent, window) == call[c].at = "sent" /\ FailsWith(c, Classified[sent], window)

\* attempt_provider: the deadline, in the queue or in the attempt.
AttemptTimesOut(c, window) ==
    /\ call[c].at \in {"queued", "sent"} /\ call[c].left = 0
    /\ FailsWith(c, "Timeout", window)

\* The caller has its answer, or drops the call at any point.
DropCall(c) ==
    /\ call[c].at # "idle"
    /\ CallGoes(c, NoCall)
    /\ UNCHANGED prov

Less(n) == IF n = 0 THEN 0 ELSE n - 1

Elapse ==
    /\ prov' = [p \in ChainSet |-> [prov[p] EXCEPT !.until = Less(@), !.lease = Less(@)]]
    /\ call' = [c \in LlmCalls |-> [call[c] EXCEPT !.left = Less(@), !.sleep = Less(@)]]
    /\ llmVars' # llmVars

CallStep(c) ==
    \/ SelectProvider(c) \/ AwaitProbe(c) \/ WakeUp(c) \/ GiveUp(c) \/ Acquire(c) \/ Delta(c)
    \/ Answer(c)
    \/ \E w \in 0 .. CooldownMax :
         AttemptTimesOut(c, w) \/ \E sent \in DOMAIN Classified : AttemptFails(c, sent, w)

LlmNext ==
    \/ \E c \in LlmCalls : BeginCall(c) \/ CallStep(c) \/ DropCall(c)
    \/ Elapse

LlmSpec == LlmInit /\ [][LlmNext]_llmVars

-----------------------------------------------------------------------------
\* What is left for a call to do: time, providers it has not tried, and how far
\* it is with one.  A sleep counts as slept.
Rank(at) == CASE at = "queued" -> 5 [] at = "sent" -> 4 [] at = "select" -> 2
              [] at = "asleep" -> 9 [] OTHER -> 0
LeftToDo(r) ==
    10 * (r.left - r.sleep) + 4 * Cardinality(ChainSet \ r.attempted)
    + Rank(r.at) - (IF r.partial /\ r.at = "sent" THEN 1 ELSE 0)

\* A call comes to an end whatever its providers and the other calls do: each
\* step of it uses some of its deadline or one of its providers up, and nothing
\* others do gives any back (chat_completion_streaming promises to fail
\* deterministically by call_deadline_ms and to try a provider at most once).
CallRunsOut ==
    [][\A c \in LlmCalls :
         (/\ call[c].at \notin {"idle", "answered", "failed"}
          /\ call'[c] # call[c] /\ call'[c].at # "idle") =>
           \/ LeftToDo(call'[c]) < LeftToDo(call[c])
           \/ call'[c].at = "asleep" /\ LeftToDo(call'[c]) = LeftToDo(call[c])]_llmVars

=============================================================================
