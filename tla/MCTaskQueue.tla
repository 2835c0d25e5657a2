---------------------------- MODULE MCTaskQueue ----------------------------
(* Small instances of TaskQueue: every task belongs to one workflow except   *)
(* Solo, which is standalone.                                                *)
EXTENDS TaskQueue, TLC

CONSTANTS Flow,   \* the workflow
          Solo,   \* the standalone task, when it is one of Tasks
          Once,   \* the tasks with a single attempt
          Limit   \* max_attempts of the others (Solo has 2)

MCWorkflowOf == [t \in Tasks |-> IF t = Solo THEN NoWorkflow ELSE Flow]
MCMaxAttempts == [t \in Tasks |-> CASE t = Solo -> 2
                                    [] t \in Once -> 1 [] OTHER -> Limit]

(* Sound where Solo is not one of Tasks: workers are alike, and so are the   *)
(* tasks with a single attempt and those with Limit attempts.                *)
Symmetry == Permutations(Workers) \cup Permutations(Once) \cup Permutations(Tasks \ Once)
=============================================================================
