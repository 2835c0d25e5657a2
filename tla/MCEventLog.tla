----------------------------- MODULE MCEventLog -----------------------------
(* Instances of EventLog for TLC: two workflows; every claim takes tasks of   *)
(* both, two of the first and one of the second.                             *)
EXTENDS EventLog, TLC

CONSTANT Sole   \* the append that goes to the second workflow, if it is one of Appends

MCFlowOf == [a \in Appends |-> IF a = Sole THEN 2 ELSE 1]
MCStarted == [c \in Claims |-> [f \in Flows |-> IF f = 1 THEN 2 ELSE 1]]

Symmetry == Permutations(Claims) \cup Permutations(Appends \ {Sole})
=============================================================================
