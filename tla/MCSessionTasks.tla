--------------------------- MODULE MCSessionTasks ---------------------------
(* Instances of SessionTasks for TLC. *)
EXTENDS SessionTasks
=============================================================================
