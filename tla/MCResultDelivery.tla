-------------------------- MODULE MCResultDelivery --------------------------
(***************************************************************************)
(* Instances of ResultDelivery for TLC.                                    *)
(***************************************************************************)
EXTENDS ResultDelivery, TLC

\* Task ids and processes are interchangeable.
Symmetry == Permutations(Tasks) \cup Permutations(Procs)
=============================================================================
