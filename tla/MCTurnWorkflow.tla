--------------------------- MODULE MCTurnWorkflow ---------------------------
(* Instances of TurnWorkflow for TLC. *)
EXTENDS TurnWorkflow, TLC

Symmetry == Permutations(Workers) \cup Permutations(Servers) \cup Permutations(Messages)
=============================================================================
