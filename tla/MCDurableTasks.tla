--------------------------- MODULE MCDurableTasks ---------------------------
(***************************************************************************)
(* Instances of DurableTasks for TLC.                                      *)
(***************************************************************************)
EXTENDS DurableTasks, TLC

CONSTANTS c1

\* Every Experiment belongs to one case, so that they compete for its slots.
OneCase == [e \in Experiments |-> c1]

\* Task ids, process ids and Experiments are interchangeable.
Symmetry ==
  Permutations(Tasks) \cup Permutations(Procs) \cup Permutations(Experiments)
=============================================================================
