----------------------------- MODULE FencedTasks -----------------------------
(***************************************************************************)
(* What the tasks table promises to whoever uses it, with no processes,    *)
(* leases, clocks or Experiments: a task is held under at most one token   *)
(* at a time, tokens are granted in order and never again, only the grant  *)
(* of a token starts an execution, and an ended task stays ended.          *)
(*                                                                         *)
(* DurableTasks and ResultDelivery both implement it.                      *)
(***************************************************************************)
EXTENDS Naturals

CONSTANT Tasks

VARIABLES
  phase,  \* "none", "waiting", "held" or "ended"
  token   \* the last token granted, 0 before the first

fvars == <<phase, token>>

Init ==
  /\ phase = [t \in Tasks |-> "none"]
  /\ token = [t \in Tasks |-> 0]

Create(t) ==
  /\ phase[t] = "none"
  /\ phase' = [phase EXCEPT ![t] = "waiting"]
  /\ UNCHANGED token

Grant(t) ==
  /\ phase[t] = "waiting"
  /\ phase' = [phase EXCEPT ![t] = "held"]
  /\ token' = [token EXCEPT ![t] = @ + 1]

\* Recovery takes every overdue task back in one transaction.
Withdraw(S) ==
  /\ \A t \in S : phase[t] = "held"
  /\ phase' = [t \in Tasks |-> IF t \in S THEN "waiting" ELSE phase[t]]
  /\ UNCHANGED token

End(t) ==
  /\ phase[t] \in {"waiting", "held"}
  /\ phase' = [phase EXCEPT ![t] = "ended"]
  /\ UNCHANGED token

Next ==
  \/ \E t \in Tasks : Create(t) \/ Grant(t) \/ End(t)
  \/ \E S \in SUBSET Tasks : Withdraw(S)

Spec == Init /\ [][Next]_fvars
=============================================================================
