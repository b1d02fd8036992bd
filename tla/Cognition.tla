------------------------------ MODULE Cognition ------------------------------
(***************************************************************************)
(* One cognitive loop of the runtime (holmes-runtime cognition.rs): how     *)
(* many passes over the model a response takes before the runtime may act   *)
(* on it, and what decision.rs makes of the response.                       *)
(*                                                                         *)
(* A response is the sequence of its native calls, each reduced to its      *)
(* class, and its text, which is plain or holds one of the deprecated       *)
(* <holmes_decision> directives.  The private passes return JSON; all that  *)
(* matters of it is whether strict_private_json and the validators take it. *)
(***************************************************************************)
EXTENDS Naturals, Sequences

CONSTANTS
  Setups,     \* cognition configurations: [mode, rounds, on]
  Scenes,     \* what should_enter_deep reads: sets of circumstances
  Responses,  \* what the model may answer: [calls, text, tokens]
  MaxTokens   \* cognition.max_think_tokens

VARIABLE loop   \* the loop under way, or the last one

Metas == {"propose", "plan", "plan_risky", "link", "resolve", "confirm", "set_goal"}
Terminals == {"finish", "ask_watson"}
Tools == {"read", "mutate", "report_finding"}

\* A reserved name whose arguments do not match its schema is "invalid".
Class(call) ==
  CASE call \in Metas     -> "meta"
    [] call \in Terminals -> "terminal"
    [] call = "invalid"   -> "invalid"
    [] call \in Tools     -> "tool"

OfClass(calls, class) == SelectSeq(calls, LAMBDA c : Class(c) = class)
HasClass(calls, class) == \E i \in DOMAIN calls : Class(calls[i]) = class

\* The rounds are clamped to the three calls there can be; mode is an enum.
ASSUME CogAssumption ==
  /\ MaxTokens \in Nat
  /\ \A s \in Setups : s.mode \in {"off", "fast", "adaptive", "deep"} /\ s.rounds \in 1..3
  /\ \A r \in Responses : /\ r.tokens \in Nat
                          /\ r.calls \in Seq(Metas \cup Terminals \cup Tools \cup {"invalid"})

\* A directive in the text is read only when there is no native call.
Directives == {"finish", "ask_watson", "set_goal", "use_tools"}

Decision(kind, metas, tools) == [kind |-> kind, metas |-> metas, tools |-> tools]

\* ParsedDecision::from_response.
FromResponse(r) ==
  LET metas == OfClass(r.calls, "meta")
      Any(class) == HasClass(r.calls, class)
  IN CASE r.calls = <<>> /\ r.text \in Directives ->
            Decision(r.text, <<>>, IF r.text = "use_tools" THEN r.named ELSE <<>>)
       [] r.calls = <<>> /\ r.text \notin Directives -> Decision("answer", <<>>, <<>>)
       [] Any("invalid") -> Decision("violation", <<>>, <<>>)
       [] r.calls # <<>> /\ ~Any("invalid") ->
            IF Any("terminal")
            THEN IF Any("tool") \/ Any("meta")
                 THEN Decision("violation", <<>>, <<>>)
                 ELSE Decision(Head(OfClass(r.calls, "terminal")), <<>>, <<>>)
            ELSE IF Any("tool") THEN Decision("use_tools", metas, OfClass(r.calls, "tool"))
            ELSE IF metas = <<"set_goal">> THEN Decision("set_goal", <<>>, <<>>)
            ELSE Decision("continue", metas, <<>>)

Has(seq, x) == \E i \in DOMAIN seq : seq[i] = x

\* is_high_stakes_candidate.
HighStakes(s, r) ==
  LET d == FromResponse(r)
  IN \/ "finish" \in s.on /\ d.kind = "finish"
     \/ Has(d.metas, "confirm") \/ Has(d.metas, "plan_risky")
     \/ "finding" \in s.on /\ Has(d.tools, "report_finding")
     \/ "mutating" \in s.on /\ Has(d.tools, "mutate")

\* should_enter_deep: a contradiction in the ledger, an important hypothesis
\* that is not settled, failures, or the operator's own words.
MustGoDeep(s, scene) ==
  \/ "contradiction" \in s.on /\ "contradiction" \in scene
  \/ "important" \in scene
  \/ "stagnation" \in s.on /\ "failures" \in scene
  \/ "asked" \in scene

IsFast(s) == s.mode \in {"off", "fast"} \/ s.rounds = 1

-----------------------------------------------------------------------------
NoTrace == [mode |-> "none", passes |-> 0, tokens |-> 0]
NoReply == [calls |-> <<>>, text |-> "none", named |-> <<>>, tokens |-> 0]

\* Who has been asked, in order; what the calls cost; the responses whose
\* text the operator has seen; and the response to act on, with its trace.
Loops == [at : {"begin", "decide", "probe", "propose", "critique", "commit", "done", "failed"},
          setup : Setups, scene : Scenes, asked : Seq({"decide", "propose", "critique"}),
          spent : Nat, seen : SUBSET Responses, reply : Responses \cup {NoReply},
          trace : [mode : {"none", "fast", "deep"}, passes : Nat, tokens : Nat]]

Begun(s, scene) ==
  [at |-> "begin", setup |-> s, scene |-> scene, asked |-> <<>>, spent |-> 0,
   seen |-> {}, reply |-> NoReply, trace |-> NoTrace]

CogInit == \E s \in Setups, scene \in Scenes : loop = Begun(s, scene)

Asking == {"decide", "probe", "propose", "critique", "commit"}
Failed(l) == [l EXCEPT !.at = "failed"]
Asked(whom, tokens) ==
  [loop EXCEPT !.asked = Append(@, whom), !.spent = @ + tokens]

\* deliberate_inner up to its first call.
ChoosePasses ==
  /\ loop.at = "begin"
  /\ LET s == loop.setup
         deep == s.mode = "deep" \/ MustGoDeep(s, loop.scene)
     IN loop' = CASE IsFast(s)            -> [loop EXCEPT !.at = "decide"]
                  [] ~IsFast(s) /\ ~deep  -> [loop EXCEPT !.at = "probe"]
                  [] ~IsFast(s) /\ deep   ->
                       IF s.mode = "adaptive" /\ s.rounds < 3
                       THEN Failed(loop)
                       ELSE [loop EXCEPT !.at = "propose"]

\* A response that is acted on as it came.
ActedOn(l, r) ==
  [l EXCEPT !.at = "done", !.seen = @ \cup {r}, !.reply = r,
            !.trace = [mode |-> "fast", passes |-> 1, tokens |-> r.tokens]]

Decide(r) ==
  /\ loop.at = "decide"
  /\ loop' = ActedOn(Asked("decide", r.tokens), r)

\* proposal_from_candidate: the probe's response is not acted on, it becomes
\* the proposal to criticise, always within validate_proposal's bounds.
AsProposal(l) == [l EXCEPT !.at = "critique"]

\* Fault: the probe's text streams to the operator before it is classified.
ProbeAloud(r) ==
  /\ loop.at = "probe"
  /\ LET l == [Asked("decide", r.tokens) EXCEPT !.seen = @ \cup {r}]
     IN loop' = IF ~HighStakes(loop.setup, r) THEN ActedOn(l, r)
                ELSE IF loop.setup.rounds < 3 THEN Failed(l)
                ELSE AsProposal(l)

\* The adaptive probe: buffered, and only a response of no consequence is
\* shown and acted on.  Any other becomes the proposal that is criticised.
Probe(r) ==
  /\ loop.at = "probe"
  /\ LET l == Asked("decide", r.tokens)
     IN loop' = IF ~HighStakes(loop.setup, r) THEN ActedOn(l, r)
                ELSE IF loop.setup.rounds < 3 THEN Failed(l)
                ELSE AsProposal(l)

\* A private pass answers with the JSON it was asked for, with something else
\* or a tool call, or with too many candidates, too many issues or an overlong
\* field; only the first is taken, the others end the loop.
PrivateReplies == {"strict", "loose", "excessive"}
Taken(reply) == reply \notin {"loose", "excessive"}

Propose(reply, tokens) ==
  /\ loop.at = "propose"
  /\ LET l == Asked("propose", tokens)
     IN loop' = IF Taken(reply)
                THEN [l EXCEPT !.at = IF loop.setup.rounds >= 3 THEN "critique" ELSE "commit"]
                ELSE Failed(l)

Critique(reply, tokens) ==
  /\ loop.at = "critique"
  /\ LET l == Asked("critique", tokens)
     IN loop' = IF Taken(reply) THEN [l EXCEPT !.at = "commit"] ELSE Failed(l)

\* finish_commit: the text streams while the response arrives; a loop that
\* has cost too much is thrown away afterwards.
Commit(r) ==
  /\ loop.at = "commit"
  /\ LET l == [Asked("decide", r.tokens) EXCEPT !.seen = @ \cup {r}]
     IN loop' = IF l.spent > MaxTokens
                THEN Failed(l)
                ELSE [l EXCEPT !.at = "done", !.reply = r,
                               !.trace = [mode |-> "deep", tokens |-> l.spent,
                                          passes |-> IF Has(l.asked, "propose")
                                                     THEN l.setup.rounds ELSE 3]]

\* The provider chain fails, or max_think_time_ms passes.
LoopFails ==
  /\ loop.at \in Asking
  /\ loop' = Failed(loop)

\* The turn's next iteration thinks afresh.
NextLoop ==
  /\ loop.at \in {"done", "failed"}
  /\ \E scene \in Scenes : loop' = Begun(loop.setup, scene)

Tokens == {r.tokens : r \in Responses}

CogNext ==
  \/ ChoosePasses
  \/ \E r \in Responses : Decide(r) \/ Probe(r) \/ Commit(r)
  \/ \E reply \in PrivateReplies, n \in Tokens : Propose(reply, n) \/ Critique(reply, n)
  \/ LoopFails \/ NextLoop

CogSpec == CogInit /\ [][CogNext]_loop

-----------------------------------------------------------------------------
\* A response the runtime may act on is one that
\*  - was criticised first if it is of consequence, unless the configuration
\*    rules the critique out (fast, or fewer than three rounds);
\*  - comes with a trace that says how many calls were made and what they cost;
\*  - is the only one whose text the operator has seen;
\*  - ends the turn only if it does nothing else.
\* (deliberate_inner's comment: "no output is surfaced until it is classified".)
ActedOnIsExamined ==
  loop.at = "done" =>
    /\ HighStakes(loop.setup, loop.reply) /\ ~IsFast(loop.setup)
         => Has(loop.asked, "critique") \/ (loop.setup.mode = "deep" /\ loop.setup.rounds = 2)
    /\ loop.trace.passes = Len(loop.asked) /\ loop.trace.tokens = loop.spent
    /\ loop.seen = {loop.reply}
    /\ FromResponse(loop.reply).kind \in Terminals =>
         \A i \in DOMAIN loop.reply.calls : loop.reply.calls[i] \in Terminals
=============================================================================
