------------------------------ MODULE MCTurnLoop ------------------------------
(***************************************************************************)
(* The turn loop and the cognitive loop for TLC.  Each behaviour is of one  *)
(* of the two; the other stays as it begins.  Two call signatures suffice   *)
(* for the turn loop: one that repeats and one that interrupts it.          *)
(***************************************************************************)
EXTENDS TurnLoop, Cognition, TLC

VARIABLE part

SigSymmetry == Permutations(Sigs)

Kinds == {"propose", "plan_risky", "confirm", "set_goal", "finish", "ask_watson",
          "invalid", "read", "mutate", "report_finding"}
Batches == {<<>>} \cup {<<k>> : k \in Kinds} \cup {<<j, k>> : j, k \in Kinds}

Reply(calls, text, named, tokens) ==
  [calls |-> calls, text |-> text, named |-> named, tokens |-> tokens]

\* Every pair of calls, every directive, at two prices.
AllResponses ==
  {Reply(b, "plain", <<>>, 1) : b \in Batches}
  \cup {Reply(<<>>, d, <<"mutate">>, n) : d \in Directives, n \in 1..2}

AllTriggers == {"finish", "finding", "mutating", "contradiction", "stagnation"}
AllSetups == [mode : {"off", "fast", "adaptive", "deep"}, rounds : 1..3,
              on : {{}, AllTriggers}]
AllScenes == {{}, {"contradiction"}, {"important"}, {"failures"}, {"asked"}}

ControlInit ==
  /\ TurnInit /\ CogInit
  /\ part \in {"turn", "thought"}
  /\ part = "turn" => loop.setup = [mode |-> "off", rounds |-> 1, on |-> {}] /\ loop.scene = {}

ControlNext ==
  \/ part = "turn" /\ TurnNext /\ UNCHANGED <<part, loop>>
  \/ part = "thought" /\ CogNext /\ UNCHANGED <<part, turnVars>>

ControlSpec == ControlInit /\ [][ControlNext]_<<part, loop, turnVars>>
=============================================================================
