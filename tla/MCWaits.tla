------------------------------ MODULE MCWaits -------------------------------
(***************************************************************************)
(* What somebody waits for, for TLC: a queued or orphaned task, and the     *)
(* command of a tool.  A behaviour is of one of the two; the other stays as *)
(* it begins.                                                               *)
(***************************************************************************)
EXTENDS MCDurableTasks, Subprocess

VARIABLE part

WaitsInit == Init /\ ProcInit /\ part \in {"tasks", "command"}

WaitsNext ==
  \/ part = "tasks" /\ Next /\ UNCHANGED <<part, procVars>>
  \/ part = "command" /\ ProcNext /\ UNCHANGED <<part, vars>>

WaitsSpec ==
  /\ WaitsInit /\ [][WaitsNext]_<<part, vars, procVars>>
  /\ part = "tasks" => Fairness
  /\ part = "command" => ProcFairness
=============================================================================
