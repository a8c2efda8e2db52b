------------------------- MODULE MCProductionOutbox -------------------------
(* Small instances of ProductionOutbox for TLC. *)
EXTENDS ProductionOutbox, TLC

Symmetry == Permutations(Worker) \cup Permutations(Subject)

\* Bound of the run with two events: one of them at most is replayed.
OneReplay == Cardinality({e \in Event : replay[e] # NoReplay}) <= 1
==============================================================================
