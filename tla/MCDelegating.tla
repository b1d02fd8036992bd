---------------------------- MODULE MCDelegating ----------------------------
(***************************************************************************)
(* Who thinks, for TLC: sessions that deliberate on one case, the subagents *)
(* they delegate to, and the providers that answer their calls.  Each        *)
(* behaviour is of one of these parts; the others stay as they begin.        *)
(***************************************************************************)
EXTENDS LedgerStore, Subagents, Providers

VARIABLE part

OneKind == {[high |-> FALSE, validator |-> "Reproduction"]}

\* Sessions are interchangeable.
SessionSymmetry == Permutations(Sessions)

\* Two providers, the first with a rate limit; one caller's role prefers the
\* second.
TwoProviders == <<"a", "b">>
Roles == [c \in LlmCalls |-> IF c = "c1" THEN "b" ELSE "none"]

DelegatingInit ==
  StoreInit /\ SubInit /\ LlmInit /\ part \in {"case", "subagents", "model"}

DelegatingNext ==
  \/ part = "case" /\ StoreNext /\ UNCHANGED <<part, subVars, llmVars>>
  \/ part = "subagents" /\ SubNext /\ UNCHANGED <<part, svars, llmVars>>
  \/ part = "model" /\ LlmNext /\ UNCHANGED <<part, svars, subVars>>

DelegatingSpec == DelegatingInit /\ [][DelegatingNext]_<<part, svars, subVars, llmVars>>
=============================================================================
