--------------------------- MODULE TaskLifecycle ---------------------------
(***************************************************************************)
(* What the durable task queue promises about one task, without workers,   *)
(* heartbeats, events or reclaim passes: the lifecycle documented by the   *)
(* TaskStatus enumeration of persistence/store.rs.  A task is submitted    *)
(* once; it is started at most limit[t] times; a started task either ends  *)
(* or returns to the queue; and an ended task never moves again.           *)
(* TaskQueue implements this specification.                                *)
(***************************************************************************)
EXTENDS Naturals

CONSTANTS Tasks,   \* the identifiers a task can be given
          limit    \* limit[t]: how often t may be started

VARIABLES phase,   \* phase[t]: where t is in its life
          starts   \* starts[t]: how often t has been started

lvars == <<phase, starts>>

Phases == {"absent", "pending", "claimed", "completed", "dead", "cancelled"}

(* How one execution of a task can end: it is retried, done, or given up. *)
Outcomes == {"pending", "completed", "dead"}

LInit == /\ phase = [t \in Tasks |-> "absent"]
         /\ starts = [t \in Tasks |-> 0]

In(p) == {t \in Tasks : phase[t] = p}

(* A task enters the queue. *)
Submit(t) == /\ phase[t] = "absent"
             /\ phase' = [phase EXCEPT ![t] = "pending"]
             /\ UNCHANGED starts

(* Some pending tasks are handed out together. *)
Start(S) == /\ S # {}
            /\ S \subseteq In("pending") /\ \A t \in S : starts[t] < limit[t]
            /\ phase' = [t \in Tasks |-> IF t \in S THEN "claimed" ELSE phase[t]]
            /\ starts' = [t \in Tasks |-> IF t \in S THEN starts[t] + 1 ELSE starts[t]]

(* Started tasks come to an end or go back to the queue. *)
Finish(S, to) == /\ S # {}
                 /\ S \subseteq In("claimed")
                 /\ phase' = [t \in Tasks |-> IF t \in S THEN to[t] ELSE phase[t]]
                 /\ UNCHANGED starts

(* Tasks nobody has started are withdrawn. *)
Withdraw(S) == /\ S # {}
               /\ S \subseteq In("pending")
               /\ phase' = [t \in Tasks |-> IF t \in S THEN "cancelled" ELSE phase[t]]
               /\ UNCHANGED starts

LNext == \/ \E t \in Tasks : Submit(t)
         \/ \E S \in SUBSET In("pending") : Start(S)
         \/ \E S \in SUBSET In("claimed") : \E to \in [S -> Outcomes] : Finish(S, to)
         \/ \E S \in SUBSET In("pending") : Withdraw(S)

LSpec == LInit /\ [][LNext]_lvars
=============================================================================
