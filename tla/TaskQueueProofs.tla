-------------------------- MODULE TaskQueueProofs --------------------------
(***************************************************************************)
(* Theorems about TaskQueue for every set of tasks, workers and workflows, *)
(* every retry policy, seal threshold and batch size.                      *)
(***************************************************************************)
EXTENDS TaskQueue, FiniteSetTheorems, TLAPS

(* The started events of one claim are finitely many. *)
LEMMA FirstAttemptsCount ==
    ASSUME NEW S \in SUBSET Tasks, NEW f
    PROVE  Cardinality(FirstAttempts(S, f)) \in Nat
<1>1. FirstAttempts(S, f) \subseteq Tasks
  BY DEF FirstAttempts
<1> QED
  BY <1>1, TaskQueueAssumption, FS_Subset, FS_CardinalityType

(* Every column can be updated on its own. *)
LEMMA RowUpdates ==
    ASSUME NEW r \in Rows
    PROVE  /\ \A s \in Statuses : [r EXCEPT !.status = s] \in Rows
           /\ \A c \in Workers \cup {NoWorker} : [r EXCEPT !.claimedBy = c] \in Rows
           /\ \A a \in Nat : [r EXCEPT !.attempt = a] \in Rows
           /\ \A v \in {"now", "later"} : [r EXCEPT !.visible = v] \in Rows
           /\ \A h \in {"fresh", "stale"} : [r EXCEPT !.heartbeat = h] \in Rows
           /\ \A k \in Nat \cup {NullToken} : [r EXCEPT !.progressToken = k] \in Rows
           /\ \A n \in Nat : [r EXCEPT !.noProgress = n] \in Rows
BY DEF Rows

(* The rows that the statements of the store write are rows. *)
LEMMA WrittenRows ==
    ASSUME TypeOK, NEW t \in Tasks
    PROVE  /\ task[t] \in Rows
           /\ [NewRow EXCEPT !.status = "pending"] \in Rows
           /\ \A w \in Workers : ClaimedRow(w, t) \in Rows
           /\ \A s \in Statuses : [task[t] EXCEPT !.status = s] \in Rows
           /\ [task[t] EXCEPT !.status = "pending", !.claimedBy = NoWorker] \in Rows
           /\ [task[t] EXCEPT !.status = "pending", !.claimedBy = NoWorker,
                              !.visible = "later", !.heartbeat = "fresh"] \in Rows
           /\ Recovered(t) \in Rows
<1>1. task[t] \in Rows
  BY DEF TypeOK
<1>2. [NewRow EXCEPT !.status = "pending"] \in Rows
  <2>1. NewRow \in Rows
    BY DEF NewRow, Rows, Statuses
  <2>2. \A s \in Statuses : [NewRow EXCEPT !.status = s] \in Rows
    BY <2>1, RowUpdates
  <2> QED
    BY <2>2 DEF Statuses
<1>3. \A w \in Workers : ClaimedRow(w, t) \in Rows
  <2>1. task[t].attempt + 1 \in Nat
    BY <1>1 DEF Rows
  <2>2. \A w \in Workers, a \in Nat :
            [task[t] EXCEPT !.status = "claimed", !.claimedBy = w, !.attempt = a,
                            !.heartbeat = "fresh"] \in Rows
    BY <1>1 DEF Rows, Statuses
  <2> QED
    BY <2>1, <2>2 DEF ClaimedRow
<1>4. /\ [task[t] EXCEPT !.status = "pending", !.claimedBy = NoWorker] \in Rows
      /\ [task[t] EXCEPT !.status = "pending", !.claimedBy = NoWorker,
                         !.visible = "later", !.heartbeat = "fresh"] \in Rows
  BY <1>1 DEF Rows, Statuses
<1>5. NoProgressCount(t) \in Nat
  BY <1>1 DEF NoProgressCount, Rows
<1>6. WorkflowOf[t] # NoWorkflow => CurrentToken(t) \in Nat
  BY TaskQueueAssumption DEF CurrentToken, TypeOK, Owners
<1>7. Recovered(t) \in Rows
  BY <1>1, <1>5, <1>6 DEF Recovered, Rows, Statuses
<1> QED
  BY <1>1, <1>2, <1>3, <1>4, <1>7, RowUpdates

(* Type correctness: every step of the store, the workers and the reclaim    *)
(* loop keeps rows, logs and executions well formed.                         *)
THEOREM TypeCorrect == Spec => []TypeOK
<1>1. Init => TypeOK
  <2>1. NewRow \in Rows
    BY DEF NewRow, Rows, Statuses
  <2> QED
    BY <2>1 DEF Init, TypeOK, WorkerStatuses, ProcStates, StartedLog, EmptyLog
<1>2. TypeOK /\ [Next]_vars => TypeOK'
  <2> SUFFICES ASSUME TypeOK, [Next]_vars PROVE TypeOK'
    OBVIOUS
  <2>a. \A e \in exec : e.task \in Tasks
    BY DEF TypeOK, Executions
  <2>1. ASSUME NEW t \in Tasks, CheckPendingLimit(t) PROVE TypeOK'
    BY <2>1 DEF TypeOK, CheckPendingLimit, store, aux
  <2>2. ASSUME NEW t \in Tasks, InsertTask(t) PROVE TypeOK'
    BY <2>2, WrittenRows DEF TypeOK, InsertTask, aux
  <2>3. ASSUME NEW f \in Workflows, AppendFact(f) PROVE TypeOK'
    BY <2>3 DEF TypeOK, AppendFact, TasksOf
  <2>4. ASSUME NEW w \in Workers, StartWorker(w) PROVE TypeOK'
    BY <2>4 DEF TypeOK, StartWorker, aux, ProcStates, WorkerStatuses
  <2>5. ASSUME NEW w \in Workers, CrashWorker(w) PROVE TypeOK'
    BY <2>5 DEF TypeOK, CrashWorker, store, aux, ProcStates
  <2>6. ASSUME NEW w \in Workers, ShutdownWorker(w) PROVE TypeOK'
    BY <2>6 DEF TypeOK, ShutdownWorker, store, aux, ProcStates
  <2>7. ASSUME NEW w \in Workers, DeregisterReclaim(w) PROVE TypeOK'
    BY <2>7, WrittenRows DEF TypeOK, DeregisterReclaim, UpdateRows, ProcStates
  <2>8. ASSUME NEW w \in Workers, DeregisterStop(w) PROVE TypeOK'
    BY <2>8 DEF TypeOK, DeregisterStop, aux, ProcStates, WorkerStatuses
  <2>9. ASSUME NEW w \in Workers, DrainWorker(w) \/ ResumeWorker(w) \/ StopStaleWorker(w)
        PROVE TypeOK'
    BY <2>9 DEF TypeOK, DrainWorker, ResumeWorker, StopStaleWorker, aux, WorkerStatuses
  <2>10. ASSUME NEW w \in Workers, NEW S \in SUBSET Tasks, ClaimTask(w, S) PROVE TypeOK'
    <3>1. task' \in [Tasks -> Rows]
      BY <2>10, WrittenRows DEF TypeOK, ClaimTask, UpdateRows
    <3>2. events' \in [Workflows -> [next : Nat, token : Nat]]
      BY <2>10, FirstAttemptsCount DEF TypeOK, ClaimTask
    <3>3. exec' \subseteq Executions
      <4>1. \A t \in Tasks : task[t].attempt + 1 \in Nat
        BY DEF TypeOK, Rows
      <4> QED
        BY <2>10, <4>1 DEF TypeOK, ClaimTask, Executions
    <3> QED
      BY <2>10, <3>1, <3>2, <3>3 DEF TypeOK, ClaimTask
  <2>11. ASSUME NEW e \in exec, HeartbeatTask(e) PROVE TypeOK'
    <3>1. [task[e.task] EXCEPT !.heartbeat = "fresh"] \in Rows
      BY <2>a, WrittenRows, RowUpdates
    <3> QED
      BY <2>a, <2>11, <3>1 DEF TypeOK, HeartbeatTask, aux
  <2>12. ASSUME NEW e \in exec, CompleteTask(e) PROVE TypeOK'
    <3>1. [task[e.task] EXCEPT !.status = "completed"] \in Rows
      BY <2>a, WrittenRows DEF Statuses
    <3> QED
      BY <2>a, <2>12, <3>1 DEF TypeOK, CompleteTask, aux
  <2>13. ASSUME NEW e \in exec, NEW r \in BOOLEAN, FailTask(e, r) PROVE TypeOK'
    <3>1. [task[e.task] EXCEPT !.status = "dead"] \in Rows
      BY <2>a, WrittenRows DEF Statuses
    <3> QED
      BY <2>a, <2>13, <3>1, WrittenRows DEF TypeOK, FailTask, aux
  <2>14. ASSUME NEW t \in Tasks, BecomeVisible(t) \/ BecomeStale(t) PROVE TypeOK'
    <3>1. /\ [task[t] EXCEPT !.visible = "now"] \in Rows
          /\ [task[t] EXCEPT !.heartbeat = "stale"] \in Rows
      BY WrittenRows, RowUpdates
    <3> QED
      BY <2>14, <3>1 DEF TypeOK, BecomeVisible, BecomeStale, aux
  <2>15. ASSUME ReclaimExhausted PROVE TypeOK'
    <3>1. \A t \in Tasks : [task[t] EXCEPT !.status = "dead"] \in Rows
      BY WrittenRows DEF Statuses
    <3> QED
      BY <2>15, <3>1 DEF TypeOK, ReclaimExhausted, UpdateRows, aux
  <2>16. ASSUME ReclaimStale PROVE TypeOK'
    <3>1. task' \in [Tasks -> Rows]
      BY <2>16, WrittenRows DEF TypeOK, ReclaimStale, UpdateRows
    <3>2. quiet' \in [Tasks -> Nat] /\ fresh' \subseteq Tasks
      BY <2>16 DEF TypeOK, ReclaimStale
    <3> QED
      BY <2>16, <3>1, <3>2 DEF TypeOK, ReclaimStale
  <2>17. ASSUME NEW f \in Workflows, CancelPending(f) PROVE TypeOK'
    <3>1. \A t \in Tasks : [task[t] EXCEPT !.status = "cancelled"] \in Rows
      BY WrittenRows DEF Statuses
    <3> QED
      BY <2>17, <3>1 DEF TypeOK, CancelPending, UpdateRows, aux
  <2>18. ASSUME NEW f \in Workflows, RecordActivityStarted(f) PROVE TypeOK'
    BY <2>18 DEF TypeOK, RecordActivityStarted, aux
  <2>19. CASE UNCHANGED vars
    BY <2>19 DEF TypeOK, vars
  <2> QED
    BY <2>1, <2>2, <2>3, <2>4, <2>5, <2>6, <2>7, <2>8, <2>9, <2>10, <2>11, <2>12, <2>13,
       <2>14, <2>15, <2>16, <2>17, <2>18, <2>19
       DEF Next, EnqueueStep, ClockStep, WorkflowStep, WorkerStep, ExecutionStep, ReclaimStep
<1> QED
  BY <1>1, <1>2, PTL DEF Spec
-----------------------------------------------------------------------------
(* Ownership.  ExecutionFence is inductive only together with Blank: a task  *)
(* is inserted at attempt 0, so its identifier must not have been used.      *)

Blank == \A t \in Tasks :
    /\ t \in admitted => task[t].status = "absent"
    /\ task[t].status = "absent" => /\ task[t].attempt = 0
                                    /\ task[t].noProgress = 0
                                    /\ task[t].progressToken = NullToken

(* The columns that identify a claim. *)
SameClaim(t) == /\ task'[t].status = task[t].status
                /\ task'[t].attempt = task[t].attempt
                /\ task'[t].claimedBy = task[t].claimedBy
                /\ task'[t].noProgress = task[t].noProgress
                /\ task'[t].progressToken = task[t].progressToken

(* The steps that change neither a claim nor the executions nor, in the      *)
(* sense that matters here, the auxiliary state.                             *)
QuietStep == \/ \E t \in Tasks : BecomeVisible(t) \/ BecomeStale(t)
             \/ \E f \in Workflows : AppendFact(f) \/ RecordActivityStarted(f)
             \/ \E w \in Workers : \/ StartWorker(w) \/ CrashWorker(w) \/ ShutdownWorker(w)
                                   \/ DeregisterStop(w) \/ DrainWorker(w)
                                   \/ ResumeWorker(w) \/ StopStaleWorker(w)
             \/ \E e \in exec : HeartbeatTask(e)
             \/ UNCHANGED vars

LEMMA QuietStepEffect ==
    ASSUME TypeOK, QuietStep
    PROVE  /\ \A t \in Tasks : SameClaim(t)
           /\ exec' \subseteq exec
           /\ admitted' = admitted
           /\ handedBack' = handedBack
           /\ quiet' = quiet
<1>1. /\ exec' \subseteq exec
      /\ admitted' = admitted
      /\ handedBack' = handedBack
      /\ quiet' = quiet
  BY DEF QuietStep, BecomeVisible, BecomeStale, AppendFact, RecordActivityStarted,
         StartWorker, CrashWorker,
         ShutdownWorker, DeregisterStop, DrainWorker, ResumeWorker, StopStaleWorker,
         HeartbeatTask, store, aux, vars
<1>2. ASSUME NEW t \in Tasks, BecomeVisible(t) \/ BecomeStale(t)
      PROVE  \A u \in Tasks : SameClaim(u)
  BY <1>2 DEF BecomeVisible, BecomeStale, SameClaim, TypeOK, Rows
<1>3. ASSUME NEW e \in exec, HeartbeatTask(e) PROVE \A u \in Tasks : SameClaim(u)
  BY <1>3 DEF HeartbeatTask, SameClaim, TypeOK, Rows, Executions
<1>4. ASSUME task' = task PROVE \A u \in Tasks : SameClaim(u)
  BY <1>4 DEF SameClaim
<1>5. \A t \in Tasks : SameClaim(t)
  BY <1>2, <1>3, <1>4
     DEF QuietStep, AppendFact, RecordActivityStarted, StartWorker, CrashWorker,
         ShutdownWorker, DeregisterStop,
         DrainWorker, ResumeWorker, StopStaleWorker, store, vars
<1> QED
  BY <1>1, <1>5

(* What the other steps do to the claim columns of every row. *)
Moves(t, s, c) == /\ task'[t].status = s
                  /\ task'[t].claimedBy = c
                  /\ task'[t].attempt = task[t].attempt

Keeps(t) == /\ task'[t].noProgress = task[t].noProgress
            /\ task'[t].progressToken = task[t].progressToken

LEMMA InsertEffect ==
    ASSUME TypeOK, NEW t \in Tasks, InsertTask(t)
    PROVE  /\ \A u \in Tasks \ {t} : SameClaim(u)
           /\ /\ task'[t].status = "pending" /\ task'[t].attempt = 0
              /\ task'[t].noProgress = 0 /\ task'[t].progressToken = NullToken
BY DEF InsertTask, SameClaim, TypeOK, Rows, NewRow

LEMMA DeregisterEffect ==
    ASSUME TypeOK, NEW w \in Workers, DeregisterReclaim(w), NEW t \in Tasks
    PROVE  IF Owns(w, t) THEN Moves(t, "pending", NoWorker) /\ Keeps(t) /\ t \in handedBack'
                         ELSE SameClaim(t)
<1>1. /\ task'[t] = IF Owns(w, t)
                   THEN [task[t] EXCEPT !.status = "pending", !.claimedBy = NoWorker]
                   ELSE task[t]
      /\ Owns(w, t) => t \in handedBack'
  BY DEF DeregisterReclaim, UpdateRows, Owns
<1>2. task[t] \in Rows
  BY DEF TypeOK
<1> QED
  BY <1>1, <1>2 DEF Moves, Keeps, SameClaim, Rows

LEMMA ClaimEffect ==
    ASSUME TypeOK, NEW w \in Workers, NEW S \in SUBSET Tasks, ClaimTask(w, S), NEW t \in Tasks
    PROVE  IF t \in S THEN /\ task'[t].status = "claimed"
                           /\ task'[t].claimedBy = w
                           /\ task'[t].attempt = task[t].attempt + 1
                           /\ Keeps(t)
                      ELSE SameClaim(t)
<1>1. task'[t] = IF t \in S THEN ClaimedRow(w, t) ELSE task[t]
  BY DEF ClaimTask, UpdateRows
<1>2. task[t] \in Rows
  BY DEF TypeOK
<1> QED
  BY <1>1, <1>2 DEF ClaimedRow, Keeps, SameClaim, Rows

LEMMA CompleteEffect ==
    ASSUME TypeOK, NEW e \in exec, CompleteTask(e), NEW t \in Tasks
    PROVE  IF t = e.task /\ Owns(e.worker, t)
           THEN Moves(t, "completed", task[t].claimedBy) /\ Keeps(t)
           ELSE SameClaim(t)
BY DEF CompleteTask, Moves, Keeps, SameClaim, TypeOK, Rows, Executions

LEMMA FailEffect ==
    ASSUME TypeOK, NEW e \in exec, NEW r \in BOOLEAN, FailTask(e, r), NEW t \in Tasks
    PROVE  \/ SameClaim(t)
           \/ /\ t = e.task /\ task[t].status = "claimed" /\ Keeps(t)
              /\ \/ task[t].attempt < MaxAttempts[t] /\ Moves(t, "pending", NoWorker)
                 \/ Moves(t, "dead", task[t].claimedBy)
BY DEF FailTask, MayRetry, Moves, Keeps, SameClaim, TypeOK, Rows, Executions

LEMMA ExhaustedEffect ==
    ASSUME TypeOK, ReclaimExhausted, NEW t \in Tasks
    PROVE  IF t \in Stale /\ Exhausted(t)
           THEN Moves(t, "dead", task[t].claimedBy) /\ Keeps(t)
           ELSE SameClaim(t)
BY DEF ReclaimExhausted, UpdateRows, Moves, Keeps, SameClaim, TypeOK, Rows

LEMMA RecoverEffect ==
    ASSUME TypeOK, ReclaimStale, NEW t \in Tasks
    PROVE  IF t \in Stale /\ task[t].attempt < MaxAttempts[t]
           THEN /\ Moves(t, IF NoProgressCount(t) >= SealThreshold THEN "dead" ELSE "pending",
                         NoWorker)
                /\ task'[t].noProgress = NoProgressCount(t)
                /\ task'[t].progressToken = IF WorkflowOf[t] = NoWorkflow
                                            THEN NullToken ELSE CurrentToken(t)
           ELSE SameClaim(t)
<1>1. task'[t] = IF t \in Stale /\ task[t].attempt < MaxAttempts[t] THEN Recovered(t) ELSE task[t]
  BY DEF ReclaimStale, UpdateRows
<1>2. task[t] \in Rows
  BY DEF TypeOK
<1> QED
  BY <1>1, <1>2 DEF Recovered, Moves, SameClaim, Rows

LEMMA CancelEffect ==
    ASSUME TypeOK, NEW f \in Workflows, CancelPending(f), NEW t \in Tasks
    PROVE  IF t \in PendingOf(f) THEN Moves(t, "cancelled", task[t].claimedBy) /\ Keeps(t)
                                 ELSE SameClaim(t)
BY DEF CancelPending, UpdateRows, Moves, Keeps, SameClaim, TypeOK, Rows

(* The steps of the system, in the groups the proofs below go through. *)
LEMMA StepCases ==
    ASSUME [Next]_vars
    PROVE  \/ QuietStep
           \/ \E t \in Tasks : CheckPendingLimit(t) \/ InsertTask(t)
           \/ \E w \in Workers : \/ DeregisterReclaim(w)
                                 \/ \E S \in SUBSET Tasks : ClaimTask(w, S)
           \/ \E e \in exec : CompleteTask(e) \/ \E r \in BOOLEAN : FailTask(e, r)
           \/ ReclaimExhausted
           \/ ReclaimStale
           \/ \E f \in Workflows : CancelPending(f)
BY DEF Next, EnqueueStep, ClockStep, WorkflowStep, WorkerStep, ExecutionStep, ReclaimStep,
       QuietStep

ClaimInv == Blank /\ ExecutionFence /\ ExhaustedOnlyByHandBack

(* Every step preserves the ownership invariant: attempts only grow, and they *)
(* grow exactly when a claim changes hands.                                   *)
LEMMA ClaimInvStep ==
    ASSUME TypeOK, ClaimInv, [Next]_vars
    PROVE  ClaimInv'
<1> USE DEF ClaimInv
<1>a. /\ \A t \in Tasks : task[t].attempt \in Nat /\ MaxAttempts[t] \in Nat \ {0}
      /\ \A e \in exec : e.task \in Tasks /\ e.worker \in Workers /\ e.attempt \in Nat
  BY TaskQueueAssumption DEF TypeOK, Rows, Executions
<1>1. CASE QuietStep
  <2>1. /\ \A t \in Tasks : SameClaim(t)
        /\ exec' \subseteq exec /\ admitted' = admitted /\ handedBack' = handedBack
    BY <1>1, QuietStepEffect
  <2>2. Blank'
    BY <2>1 DEF Blank, SameClaim
  <2>3. ExecutionFence'
    BY <1>a, <2>1 DEF ExecutionFence, SameClaim
  <2>4. ExhaustedOnlyByHandBack'
    BY <2>1 DEF ExhaustedOnlyByHandBack, Exhausted, SameClaim
  <2> QED
    BY <2>2, <2>3, <2>4
<1>2. ASSUME NEW t \in Tasks, CheckPendingLimit(t) PROVE ClaimInv'
  BY <1>2 DEF CheckPendingLimit, store, aux, Blank, ExecutionFence, ExhaustedOnlyByHandBack,
              Exhausted
<1>3. ASSUME NEW t \in Tasks, InsertTask(t) PROVE ClaimInv'
  <2>1. /\ \A u \in Tasks \ {t} : SameClaim(u)
        /\ task'[t].status = "pending" /\ task'[t].attempt = 0
        /\ task'[t].noProgress = 0 /\ task'[t].progressToken = NullToken
        /\ exec' = exec /\ admitted' = admitted \ {t} /\ handedBack' = handedBack
    BY <1>3, InsertEffect DEF InsertTask, aux
  <2>2. task[t].attempt = 0
    BY <1>3 DEF InsertTask, Blank
  <2>3. Blank'
    BY <2>1 DEF Blank, SameClaim
  <2>4. ExecutionFence'
    BY <1>a, <2>1, <2>2 DEF ExecutionFence, SameClaim
  <2>5. ExhaustedOnlyByHandBack'
    BY <1>a, <2>1 DEF ExhaustedOnlyByHandBack, Exhausted, SameClaim
  <2> QED
    BY <2>3, <2>4, <2>5
<1>4. ASSUME NEW w \in Workers, DeregisterReclaim(w) PROVE ClaimInv'
  <2>1. \A t \in Tasks :
          IF Owns(w, t) THEN Moves(t, "pending", NoWorker) /\ Keeps(t) /\ t \in handedBack'
                        ELSE SameClaim(t)
    BY <1>4, DeregisterEffect
  <2>2. exec' = exec /\ admitted' = admitted /\ handedBack \subseteq handedBack'
    BY <1>4 DEF DeregisterReclaim
  <2>3. Blank'
    BY <2>1, <2>2 DEF Blank, SameClaim, Moves, Keeps, Owns
  <2>4. ExecutionFence'
    BY <1>a, <2>1, <2>2 DEF ExecutionFence, SameClaim, Moves
  <2>5. ExhaustedOnlyByHandBack'
    BY <1>a, <2>1, <2>2 DEF ExhaustedOnlyByHandBack, Exhausted, SameClaim, Moves
  <2> QED
    BY <2>3, <2>4, <2>5
<1>5. ASSUME NEW w \in Workers, NEW S \in SUBSET Tasks, ClaimTask(w, S) PROVE ClaimInv'
  <2>1. \A t \in Tasks :
          IF t \in S THEN /\ task'[t].status = "claimed" /\ task'[t].claimedBy = w
                          /\ task'[t].attempt = task[t].attempt + 1
                     ELSE SameClaim(t)
    BY <1>5, ClaimEffect
  <2>2. /\ admitted' = admitted /\ handedBack' = handedBack \ S
        /\ \A t \in S : task[t].status = "pending"
        /\ \/ exec' = exec \cup {[task |-> t, worker |-> w, attempt |-> task[t].attempt + 1] : t \in S}
           \/ exec' = exec
    BY <1>5 DEF ClaimTask, Claimable
  <2>3. Blank'
    BY <2>1, <2>2 DEF Blank, SameClaim
  <2>4. \A e \in exec' : \/ e \in exec
                         \/ /\ e.task \in S /\ e.worker = w
                            /\ e.attempt = task[e.task].attempt + 1
                            /\ e = [task |-> e.task, worker |-> w,
                                    attempt |-> task[e.task].attempt + 1]
    BY <2>2
  <2>5. ExecutionFence'
    <3>1. ASSUME NEW e \in exec' 
          PROVE  /\ e.attempt <= task'[e.task].attempt
                 /\ \/ task'[e.task].status # "claimed"
                    \/ e.attempt < task'[e.task].attempt
                    \/ e.worker = task'[e.task].claimedBy
      BY <1>a, <2>1, <2>4 DEF ExecutionFence, SameClaim
    <3>2. ASSUME NEW e1 \in exec', NEW e2 \in exec',
                 e1.task = e2.task, e1.attempt = e2.attempt
          PROVE  e1 = e2
      <4>1. CASE e1 \in exec /\ e2 \in exec
        BY <3>2, <4>1 DEF ExecutionFence
      <4>2. CASE e1 \in exec /\ e2 \notin exec
        BY <1>a, <2>4, <3>2, <4>2 DEF ExecutionFence
      <4>3. CASE e1 \notin exec /\ e2 \in exec
        BY <1>a, <2>4, <3>2, <4>3 DEF ExecutionFence
      <4>4. CASE e1 \notin exec /\ e2 \notin exec
        BY <2>4, <3>2, <4>4
      <4> QED
        BY <4>1, <4>2, <4>3, <4>4
    <3> QED
      BY <3>1, <3>2 DEF ExecutionFence
  <2>6. ExhaustedOnlyByHandBack'
    BY <2>1, <2>2 DEF ExhaustedOnlyByHandBack, Exhausted, SameClaim
  <2> QED
    BY <2>3, <2>5, <2>6
<1>6. ASSUME NEW e \in exec, CompleteTask(e) PROVE ClaimInv'
  <2>1. \A t \in Tasks : \/ SameClaim(t)
                         \/ /\ task[t].status = "claimed"
                            /\ Moves(t, "completed", task[t].claimedBy)
    BY <1>6, CompleteEffect DEF Owns
  <2>2. exec' = exec \ {e} /\ admitted' = admitted /\ handedBack' = handedBack
    BY <1>6 DEF CompleteTask, aux
  <2>3. Blank'
    BY <2>1, <2>2 DEF Blank, SameClaim, Moves
  <2>4. ExecutionFence'
    BY <1>a, <2>1, <2>2 DEF ExecutionFence, SameClaim, Moves
  <2>5. ExhaustedOnlyByHandBack'
    BY <2>1, <2>2 DEF ExhaustedOnlyByHandBack, Exhausted, SameClaim, Moves
  <2> QED
    BY <2>3, <2>4, <2>5
<1>7. ASSUME NEW e \in exec, NEW r \in BOOLEAN, FailTask(e, r) PROVE ClaimInv'
  <2>1. \A t \in Tasks :
          \/ SameClaim(t)
          \/ /\ task[t].status = "claimed"
             /\ \/ task[t].attempt < MaxAttempts[t] /\ Moves(t, "pending", NoWorker)
                \/ Moves(t, "dead", task[t].claimedBy)
    BY <1>7, FailEffect
  <2>2. exec' = exec \ {e} /\ admitted' = admitted /\ handedBack' = handedBack
    BY <1>7 DEF FailTask, aux
  <2>3. Blank'
    BY <2>1, <2>2 DEF Blank, SameClaim, Moves
  <2>4. ExecutionFence'
    BY <1>a, <2>1, <2>2 DEF ExecutionFence, SameClaim, Moves
  <2>5. ExhaustedOnlyByHandBack'
    BY <1>a, <2>1, <2>2 DEF ExhaustedOnlyByHandBack, Exhausted, SameClaim, Moves
  <2> QED
    BY <2>3, <2>4, <2>5
<1>8. CASE ReclaimExhausted \/ ReclaimStale \/ \E f \in Workflows : CancelPending(f)
  <2>1. \A t \in Tasks :
          \/ SameClaim(t)
          \/ /\ task[t].status = "claimed" /\ task[t].attempt < MaxAttempts[t]
             /\ Moves(t, "pending", NoWorker) \/ Moves(t, "dead", NoWorker)
          \/ task[t].status = "claimed" /\ Moves(t, "dead", task[t].claimedBy)
          \/ task[t].status = "pending" /\ Moves(t, "cancelled", task[t].claimedBy)
    BY <1>8, ExhaustedEffect, RecoverEffect, CancelEffect DEF Stale, PendingOf
  <2>2. exec' = exec /\ admitted' = admitted /\ handedBack' = handedBack
    BY <1>8 DEF ReclaimExhausted, ReclaimStale, CancelPending, aux
  <2>3. Blank'
    BY <2>1, <2>2 DEF Blank, SameClaim, Moves
  <2>4. ExecutionFence'
    BY <1>a, <2>1, <2>2 DEF ExecutionFence, SameClaim, Moves
  <2>5. ExhaustedOnlyByHandBack'
    BY <1>a, <2>1, <2>2 DEF ExhaustedOnlyByHandBack, Exhausted, SameClaim, Moves
  <2> QED
    BY <2>3, <2>4, <2>5
<1> QED
  BY <1>1, <1>2, <1>3, <1>4, <1>5, <1>6, <1>7, <1>8, StepCases

LEMMA ClaimInvAlways == Spec => []ClaimInv
<1>1. Init => ClaimInv
  BY TaskQueueAssumption DEF Init, ClaimInv, Blank, ExecutionFence, ExhaustedOnlyByHandBack,
     NewRow
<1>2. TypeOK /\ ClaimInv /\ [Next]_vars => ClaimInv'
  BY ClaimInvStep
<1> QED
  BY <1>1, <1>2, TypeCorrect, PTL DEF Spec

(* For every instance: executions are fenced by attempts, although no call    *)
(* of complete_task or fail_task_with_retry carries one.                      *)
THEOREM ClaimsAreFenced == Spec => []ExecutionFence
<1>1. ClaimInv => ExecutionFence
  BY DEF ClaimInv
<1> QED
  BY <1>1, ClaimInvAlways, PTL

(* A pending task without attempts left was handed back by deregister_worker: *)
(* retries and reclaim passes requeue only tasks with an attempt left.        *)
THEOREM ExhaustionIsHandBack == Spec => []ExhaustedOnlyByHandBack
<1>1. ClaimInv => ExhaustedOnlyByHandBack
  BY DEF ClaimInv
<1> QED
  BY <1>1, ClaimInvAlways, PTL

-----------------------------------------------------------------------------
(* The pending limit.  The tasks that have passed the check of enqueue_task   *)
(* and were never claimed are counted together, the inserted and the not yet  *)
(* inserted ones: only the check adds to them, since a requeued task has been *)
(* claimed before.                                                            *)

Entering(f) == {t \in TasksOf(f) : \/ t \in admitted
                                   \/ task[t].status = "pending" /\ task[t].attempt = 0}

EnqueueInv ==
    /\ Cardinality(admitted) <= MaxEnqueuers
    /\ \A t \in Tasks : task[t].status = "claimed" => task[t].attempt > 0
    /\ \A f \in Owners : Cardinality(Entering(f)) <= MaxPendingTasks + MaxEnqueuers - 1

(* Whatever is a set of tasks can be counted. *)
LEMMA TaskSets ==
    ASSUME NEW S \in SUBSET Tasks
    PROVE  IsFiniteSet(S) /\ Cardinality(S) \in Nat
BY TaskQueueAssumption, FS_Subset, FS_CardinalityType

(* Every step but the check itself leaves the counted tasks alone or takes    *)
(* some away, and a claim is an attempt.                                      *)
LEMMA EnteringShrinks ==
    ASSUME TypeOK, ClaimInv, EnqueueInv, [Next]_vars,
           ~\E t \in Tasks : CheckPendingLimit(t)
    PROVE  /\ admitted' \subseteq admitted
           /\ \A t \in Tasks : task'[t].status = "claimed" => task'[t].attempt > 0
           /\ \A f \in Owners : Entering(f)' \subseteq Entering(f)
<1>a. \A t \in Tasks : task[t].attempt \in Nat
  BY DEF TypeOK, Rows
<1> DEFINE Calm(t) ==
      \/ SameClaim(t)
      \/ task[t].status = "claimed" /\ task'[t].status # "claimed" /\ task'[t].attempt = task[t].attempt
      \/ task[t].status = "pending" /\ task'[t].status = "cancelled"
      \/ task'[t].status = "claimed" /\ task'[t].attempt = task[t].attempt + 1
<1>1. ASSUME admitted' = admitted, \A t \in Tasks : Calm(t)
      PROVE  /\ admitted' \subseteq admitted
             /\ \A t \in Tasks : task'[t].status = "claimed" => task'[t].attempt > 0
             /\ \A f \in Owners : Entering(f)' \subseteq Entering(f)
  <2>1. ASSUME NEW t \in Tasks
        PROVE  /\ task'[t].status = "claimed" => task'[t].attempt > 0
               /\ task'[t].status = "pending" /\ task'[t].attempt = 0
                  => task[t].status = "pending" /\ task[t].attempt = 0
    <3>1. Calm(t)
      BY <1>1
    <3>2. task[t].status = "claimed" => task[t].attempt > 0
      BY DEF EnqueueInv
    <3> QED
      BY <1>a, <3>1, <3>2 DEF SameClaim
  <2> QED
    BY <1>1, <2>1 DEF Entering, TasksOf
<1>2. CASE QuietStep
  <2>1. admitted' = admitted /\ \A t \in Tasks : SameClaim(t)
    BY <1>2, QuietStepEffect
  <2> QED
    BY <1>1, <2>1
<1>3. ASSUME NEW t \in Tasks, InsertTask(t)
      PROVE  /\ admitted' \subseteq admitted
             /\ \A u \in Tasks : task'[u].status = "claimed" => task'[u].attempt > 0
             /\ \A f \in Owners : Entering(f)' \subseteq Entering(f)
  <2>1. /\ t \in admitted /\ admitted' = admitted \ {t}
        /\ \A u \in Tasks \ {t} : SameClaim(u)
        /\ task'[t].status = "pending"
    BY <1>3, InsertEffect DEF InsertTask
  <2> QED
    BY <2>1 DEF EnqueueInv, Entering, TasksOf, SameClaim
<1>4. ASSUME NEW w \in Workers, DeregisterReclaim(w)
      PROVE  admitted' = admitted /\ \A t \in Tasks : Calm(t)
  BY <1>4, DeregisterEffect DEF DeregisterReclaim, Owns, Moves
<1>5. ASSUME NEW w \in Workers, NEW S \in SUBSET Tasks, ClaimTask(w, S)
      PROVE  admitted' = admitted /\ \A t \in Tasks : Calm(t)
  BY <1>5, ClaimEffect DEF ClaimTask
<1>6. ASSUME NEW e \in exec, CompleteTask(e)
      PROVE  admitted' = admitted /\ \A t \in Tasks : Calm(t)
  BY <1>6, CompleteEffect DEF CompleteTask, Owns, Moves
<1>7. ASSUME NEW e \in exec, NEW r \in BOOLEAN, FailTask(e, r)
      PROVE  admitted' = admitted /\ \A t \in Tasks : Calm(t)
  BY <1>7, FailEffect DEF FailTask, Moves
<1>8. ASSUME ReclaimExhausted \/ ReclaimStale \/ \E f \in Workflows : CancelPending(f)
      PROVE  admitted' = admitted /\ \A t \in Tasks : Calm(t)
  BY <1>8, ExhaustedEffect, RecoverEffect, CancelEffect
     DEF ReclaimExhausted, ReclaimStale, CancelPending, Stale, PendingOf, Moves
<1> QED
  BY <1>1, <1>2, <1>3, <1>4, <1>5, <1>6, <1>7, <1>8, StepCases

(* Passing the check: fewer than MaxPendingTasks tasks are pending, and at    *)
(* most MaxEnqueuers callers are past the check.                              *)
LEMMA EnteringAtCheck ==
    ASSUME TypeOK, EnqueueInv, NEW t \in Tasks, CheckPendingLimit(t)
    PROVE  EnqueueInv'
<1>1. /\ admitted' = admitted \cup {t} /\ task' = task /\ t \notin admitted
      /\ Cardinality(admitted) < MaxEnqueuers
      /\ Cardinality(PendingOf(WorkflowOf[t])) < MaxPendingTasks
  BY DEF CheckPendingLimit, store, BelowPendingLimit
<1>2. /\ admitted \in SUBSET Tasks /\ admitted' \in SUBSET Tasks
      /\ MaxEnqueuers \in Nat /\ MaxPendingTasks \in Nat
  BY <1>1, TaskQueueAssumption DEF TypeOK
<1>3. Cardinality(admitted') = Cardinality(admitted) + 1
  BY <1>1, <1>2, TaskSets, FS_AddElement
<1>4. Cardinality(admitted') <= MaxEnqueuers
  BY <1>1, <1>2, <1>3, TaskSets
<1>5. ASSUME NEW f \in Owners PROVE Cardinality(Entering(f)') <= MaxPendingTasks + MaxEnqueuers - 1
  <2>1. CASE f # WorkflowOf[t]
    <3>1. Entering(f)' = Entering(f)
      BY <1>1, <2>1 DEF Entering, TasksOf
    <3> QED
      BY <3>1 DEF EnqueueInv
  <2>2. CASE f = WorkflowOf[t]
    <3>1. PendingOf(f) \in SUBSET Tasks
      BY DEF PendingOf, TasksOf
    <3>2. Entering(f)' \subseteq PendingOf(f) \cup admitted'
      BY <1>1 DEF Entering, TasksOf, PendingOf
    <3> DEFINE P == PendingOf(f)  A == admitted'  E == Entering(f)'
    <3>3. IsFiniteSet(P \cup A) /\ Cardinality(P \cup A) \in Nat /\ Cardinality(P) \in Nat
          /\ Cardinality(A) \in Nat /\ P \cap A \in SUBSET Tasks
          /\ Cardinality(P \cap A) \in Nat /\ IsFiniteSet(P) /\ IsFiniteSet(A)
      <4>1. P \cup A \in SUBSET Tasks /\ P \cap A \in SUBSET Tasks
        BY <1>2, <3>1
      <4> QED
        BY <1>2, <3>1, <4>1, TaskSets
    <3>4. Cardinality(E) <= Cardinality(P \cup A) /\ Cardinality(E) \in Nat
      BY <3>2, <3>3, FS_Subset, FS_CardinalityType
    <3>5. Cardinality(P \cup A) = Cardinality(P) + Cardinality(A) - Cardinality(P \cap A)
      BY <3>3, FS_Union
    <3>6. Cardinality(P) < MaxPendingTasks /\ Cardinality(A) <= MaxEnqueuers
      BY <1>1, <1>4, <2>2
    <3> HIDE DEF P, A, E
    <3>7. Cardinality(E) <= MaxPendingTasks + MaxEnqueuers - 1
      BY <1>2, <3>3, <3>4, <3>5, <3>6
    <3> QED
      BY <3>7 DEF E
  <2> QED
    BY <2>1, <2>2
<1> QED
  BY <1>1, <1>4, <1>5 DEF EnqueueInv

LEMMA EnqueueInvStep ==
    ASSUME TypeOK, TypeOK', ClaimInv, EnqueueInv, [Next]_vars
    PROVE  EnqueueInv'
<1>1. CASE \E t \in Tasks : CheckPendingLimit(t)
  BY <1>1, EnteringAtCheck
<1>2. CASE ~\E t \in Tasks : CheckPendingLimit(t)
  <2>1. /\ admitted' \subseteq admitted
        /\ \A t \in Tasks : task'[t].status = "claimed" => task'[t].attempt > 0
        /\ \A f \in Owners : Entering(f)' \subseteq Entering(f)
    BY <1>2, EnteringShrinks
  <2>2. ASSUME NEW S \in SUBSET Tasks, NEW T \in SUBSET S, NEW n \in Int, Cardinality(S) <= n
        PROVE  Cardinality(T) <= n
    <3>1. IsFiniteSet(S) /\ Cardinality(S) \in Nat
      BY TaskSets
    <3>2. Cardinality(T) <= Cardinality(S) /\ Cardinality(T) \in Nat
      BY <3>1, FS_Subset, FS_CardinalityType
    <3> QED
      BY <2>2, <3>1, <3>2
  <2>3. MaxEnqueuers \in Int /\ MaxPendingTasks + MaxEnqueuers - 1 \in Int
    BY TaskQueueAssumption
  <2>4. Cardinality(admitted') <= MaxEnqueuers
    BY <2>1, <2>2, <2>3 DEF EnqueueInv, TypeOK
  <2>5. ASSUME NEW f \in Owners
        PROVE  Cardinality(Entering(f)') <= MaxPendingTasks + MaxEnqueuers - 1
    <3>1. Entering(f) \in SUBSET Tasks /\ Entering(f)' \in SUBSET Entering(f)
      BY <2>1 DEF Entering, TasksOf
    <3>2. Cardinality(Entering(f)) <= MaxPendingTasks + MaxEnqueuers - 1
      BY DEF EnqueueInv
    <3> QED
      BY <2>2, <2>3, <3>1, <3>2
  <2> QED
    BY <2>1, <2>4, <2>5 DEF EnqueueInv
<1> QED
  BY <1>1, <1>2

(* However many callers race through the unlocked limit check of              *)
(* enqueue_task, the tasks of a workflow they bring in overshoot the limit by *)
(* at most one for each caller but one.                                       *)
THEOREM OvershootIsBounded == Spec => []PendingOvershootBounded
<1>1. Init => EnqueueInv
  <2> SUFFICES ASSUME Init PROVE EnqueueInv
    OBVIOUS
  <2>1. admitted = {} /\ \A t \in Tasks : task[t].status = "absent"
    BY DEF Init, NewRow
  <2>2. \A f \in Owners : Entering(f) = {}
    BY <2>1 DEF Entering, TasksOf
  <2>3. Cardinality({}) = 0
    BY FS_EmptySet
  <2>4. 0 <= MaxEnqueuers /\ 0 <= MaxPendingTasks + MaxEnqueuers - 1
    BY TaskQueueAssumption
  <2>5. Cardinality(admitted) <= MaxEnqueuers
    BY <2>1, <2>3, <2>4
  <2>6. \A f \in Owners : Cardinality(Entering(f)) <= MaxPendingTasks + MaxEnqueuers - 1
    BY <2>2, <2>3, <2>4
  <2> QED
    BY <2>1, <2>5, <2>6 DEF EnqueueInv
<1>2. TypeOK /\ TypeOK' /\ ClaimInv /\ EnqueueInv /\ [Next]_vars => EnqueueInv'
  BY EnqueueInvStep
<1>3. TypeOK /\ ClaimInv /\ EnqueueInv => PendingOvershootBounded
  <2> SUFFICES ASSUME TypeOK, ClaimInv, EnqueueInv, NEW f \in Owners
               PROVE  Cardinality({t \in PendingOf(f) : task[t].attempt = 0})
                        + Cardinality(admitted \cap TasksOf(f))
                        <= MaxPendingTasks + MaxEnqueuers - 1
    BY DEF PendingOvershootBounded
  <2> DEFINE P == {t \in PendingOf(f) : task[t].attempt = 0}  A == admitted \cap TasksOf(f)
  <2>1. P \in SUBSET Tasks /\ A \in SUBSET Tasks
    BY DEF PendingOf, TasksOf
  <2>2. P \cup A = Entering(f)
    BY DEF PendingOf, Entering
  <2>3. P \cap A = {}
    BY DEF PendingOf, TasksOf, ClaimInv, Blank
  <2>4. Cardinality(P \cup A) <= MaxPendingTasks + MaxEnqueuers - 1
    BY <2>2 DEF EnqueueInv
  <2> HIDE DEF P, A
  <2>5. IsFiniteSet(P) /\ IsFiniteSet(A) /\ Cardinality(P) \in Nat /\ Cardinality(A) \in Nat
    BY <2>1, TaskSets
  <2>6. Cardinality(P \cup A) = Cardinality(P) + Cardinality(A) - Cardinality(P \cap A)
    BY <2>5, FS_Union
  <2>7. Cardinality(P \cap A) = 0
    BY <2>3, FS_EmptySet
  <2>8. Cardinality(P) + Cardinality(A) <= MaxPendingTasks + MaxEnqueuers - 1
    BY <2>4, <2>5, <2>6, <2>7
  <2> QED
    BY <2>8 DEF P, A
<1> QED
  BY <1>1, <1>2, <1>3, TypeCorrect, ClaimInvAlways, PTL DEF Spec

-----------------------------------------------------------------------------
(* What a single step may never do *)

(* How the status of a row can move in one step. *)
LEMMA StatusMoves ==
    ASSUME TypeOK, Blank, [Next]_vars, NEW t \in Tasks
    PROVE  \/ task'[t].status = task[t].status
           \/ task[t].status = "absent" /\ task'[t].status = "pending"
           \/ task[t].status = "pending" /\ task'[t].status \in {"claimed", "cancelled"}
           \/ task[t].status = "claimed" /\ task'[t].status \in {"pending", "dead"}
           \/ /\ task[t].status = "claimed" /\ task'[t].status = "completed"
              /\ \E e \in exec \ exec' : e.task = t /\ e.worker = task[t].claimedBy
<1>1. CASE QuietStep
  BY <1>1, QuietStepEffect DEF SameClaim
<1>2. ASSUME NEW u \in Tasks, CheckPendingLimit(u) PROVE task'[t].status = task[t].status
  BY <1>2 DEF CheckPendingLimit, store
<1>3. ASSUME NEW u \in Tasks, InsertTask(u)
      PROVE  \/ task'[t].status = task[t].status
             \/ task[t].status = "absent" /\ task'[t].status = "pending"
  <2>1. task[u].status = "absent"
    BY <1>3 DEF InsertTask, Blank
  <2> QED
    BY <1>3, <2>1, InsertEffect DEF SameClaim
<1>4. ASSUME NEW w \in Workers, DeregisterReclaim(w)
      PROVE  \/ task'[t].status = task[t].status
             \/ task[t].status = "claimed" /\ task'[t].status = "pending"
  BY <1>4, DeregisterEffect DEF SameClaim, Moves, Owns
<1>5. ASSUME NEW w \in Workers, NEW S \in SUBSET Tasks, ClaimTask(w, S)
      PROVE  \/ task'[t].status = task[t].status
             \/ task[t].status = "pending" /\ task'[t].status = "claimed"
  <2>1. t \in S => task[t].status = "pending"
    BY <1>5 DEF ClaimTask, Claimable
  <2> QED
    BY <1>5, <2>1, ClaimEffect DEF SameClaim
<1>6. ASSUME NEW e \in exec, CompleteTask(e)
      PROVE  \/ task'[t].status = task[t].status
             \/ /\ task[t].status = "claimed" /\ task'[t].status = "completed"
                /\ \E x \in exec \ exec' : x.task = t /\ x.worker = task[t].claimedBy
  <2>1. e \in exec \ exec'
    BY <1>6 DEF CompleteTask
  <2> QED
    BY <1>6, <2>1, CompleteEffect DEF SameClaim, Moves, Owns
<1>7. ASSUME NEW e \in exec, NEW r \in BOOLEAN, FailTask(e, r)
      PROVE  \/ task'[t].status = task[t].status
             \/ task[t].status = "claimed" /\ task'[t].status \in {"pending", "dead"}
  BY <1>7, FailEffect DEF SameClaim, Moves
<1>8. CASE ReclaimExhausted \/ ReclaimStale \/ \E f \in Workflows : CancelPending(f)
  BY <1>8, ExhaustedEffect, RecoverEffect, CancelEffect
     DEF Stale, PendingOf, SameClaim, Moves
<1> QED
  BY <1>1, <1>2, <1>3, <1>4, <1>5, <1>6, <1>7, <1>8, StepCases

(* For every instance: completed, dead and cancelled tasks stay so, whatever   *)
(* a late worker, a reclaim pass or a cancel still sends.                      *)
THEOREM StepsAreSafe == Spec => TerminalIsFinal
<1>1. TypeOK /\ ClaimInv /\ [Next]_vars =>
        [\A t \in Tasks : task[t].status \in Terminal => task'[t].status = task[t].status]_vars
  BY StatusMoves DEF ClaimInv, Terminal
<1> QED
  BY <1>1, TypeCorrect, ClaimInvAlways, PTL DEF Spec, TerminalIsFinal

(* For every instance: only the worker that holds the claim completes a task   *)
(* (complete_task looks at claimed_by), and its execution ends with it.        *)
THEOREM OwnersComplete == Spec => OnlyOwnerCompletes
<1>1. TypeOK /\ ClaimInv /\ [Next]_vars =>
        [\A t \in Tasks : task'[t].status = "completed" /\ task[t].status # "completed" =>
           \E e \in exec \ exec' : e.task = t /\ e.worker = task[t].claimedBy]_vars
  BY StatusMoves DEF ClaimInv
<1> QED
  BY <1>1, TypeCorrect, ClaimInvAlways, PTL DEF Spec, OnlyOwnerCompletes

-----------------------------------------------------------------------------
(* The forward-progress guard.  A recovery compares tokens; that this counts  *)
(* facts rests on the token of a workflow never passing its next sequence     *)
(* number, and on a task being fresh exactly when its token is behind.  Before *)
(* the first recovery there is no token, and the log is not empty because of  *)
(* a fact recorded since the insert or of one that was there before.          *)

TokenInv == \A f \in Workflows : events[f].token <= events[f].next

FreshAt(t) ==
    /\ task[t].progressToken = NullToken => quiet[t] = 0 /\ task[t].noProgress = 0
    /\ task[t].status = "absent" => t \notin preceded
    /\ WorkflowOf[t] # NoWorkflow /\ task[t].status # "absent" =>
         IF task[t].progressToken = NullToken
         THEN events[WorkflowOf[t]].token > 0 <=> t \in fresh \cup preceded
         ELSE /\ task[t].progressToken <= events[WorkflowOf[t]].token
              /\ t \in fresh <=> events[WorkflowOf[t]].token > task[t].progressToken

FreshInv == \A t \in Tasks : FreshAt(t)

(* NoProgressCountIsExact for one task. *)
ExactAt(t) ==
    /\ \/ quiet[t] = task[t].noProgress
       \/ quiet[t] = task[t].noProgress + 1 /\ t \in preceded
    /\ task[t].noProgress >= SealThreshold => task[t].status = "dead"

ProgressInv == TokenInv /\ FreshInv /\ \A t \in Tasks : ExactAt(t)

LEMMA TokenInvStep ==
    ASSUME TypeOK, TokenInv, [Next]_vars
    PROVE  TokenInv' /\ \A f \in Workflows : events'[f].token >= events[f].token
<1>1. ASSUME events' = events PROVE TokenInv' /\ \A f \in Workflows : events'[f].token >= events[f].token
  BY <1>1 DEF TokenInv, TypeOK
<1>2. ASSUME NEW f \in Workflows, AppendFact(f)
      PROVE  TokenInv' /\ \A g \in Workflows : events'[g].token >= events[g].token
  BY <1>2 DEF AppendFact, TokenInv, TypeOK
<1>3. ASSUME NEW w \in Workers, NEW S \in SUBSET Tasks, ClaimTask(w, S)
      PROVE  TokenInv' /\ \A g \in Workflows : events'[g].token >= events[g].token
  <2>1. \A g \in Workflows : Cardinality(FirstAttempts(S, g)) \in Nat
    BY FirstAttemptsCount
  <2>2. \A g \in Workflows : /\ events'[g].token = events[g].token
                             /\ events'[g].next = events[g].next
                                                  + Cardinality(FirstAttempts(S, g))
    BY <1>3 DEF ClaimTask, TypeOK
  <2> QED
    BY <2>1, <2>2 DEF TokenInv, TypeOK
<1>4. ASSUME NEW f \in Workflows, RecordActivityStarted(f)
      PROVE  TokenInv' /\ \A g \in Workflows : events'[g].token >= events[g].token
  BY <1>4 DEF RecordActivityStarted, TokenInv, TypeOK
<1> QED
  BY <1>1, <1>2, <1>3, <1>4
     DEF Next, EnqueueStep, ClockStep, WorkflowStep, WorkerStep, ExecutionStep, ReclaimStep,
         vars, store, CheckPendingLimit, InsertTask, BecomeVisible, BecomeStale, CancelPending,
         StartWorker, CrashWorker, ShutdownWorker, DeregisterReclaim, DeregisterStop,
         DrainWorker, ResumeWorker, StopStaleWorker, HeartbeatTask, CompleteTask, FailTask,
         ReclaimExhausted, ReclaimStale

(* Steps other than a recovery, an insertion or a new fact keep every part of *)
(* the count; they may move a task that is not dead.                          *)
LEMMA CountKept ==
    ASSUME TypeOK, Blank, [Next]_vars, ~ReclaimStale,
           ~\E t \in Tasks : InsertTask(t), ~\E f \in Workflows : AppendFact(f)
    PROVE  /\ quiet' = quiet /\ fresh' = fresh /\ preceded' = preceded
           /\ \A f \in Workflows : events'[f].token = events[f].token
           /\ \A t \in Tasks : /\ task'[t].noProgress = task[t].noProgress
                               /\ task'[t].progressToken = task[t].progressToken
<1>1. quiet' = quiet /\ fresh' = fresh /\ preceded' = preceded
  BY DEF Next, EnqueueStep, ClockStep, WorkflowStep, WorkerStep, ExecutionStep, ReclaimStep,
         vars, aux, CheckPendingLimit, BecomeVisible, BecomeStale, CancelPending,
         StartWorker, CrashWorker, ShutdownWorker, DeregisterReclaim, DeregisterStop,
         DrainWorker, ResumeWorker, StopStaleWorker, HeartbeatTask, CompleteTask, FailTask,
         ReclaimExhausted, ClaimTask, RecordActivityStarted
<1>2. \A f \in Workflows : events'[f].token = events[f].token
  <2>1. ASSUME NEW w \in Workers, NEW S \in SUBSET Tasks, ClaimTask(w, S), NEW f \in Workflows
        PROVE  events'[f].token = events[f].token
    BY <2>1 DEF ClaimTask, TypeOK
  <2>2. ASSUME NEW g \in Workflows, RecordActivityStarted(g), NEW f \in Workflows
        PROVE  events'[f].token = events[f].token
    BY <2>2 DEF RecordActivityStarted, TypeOK
  <2> QED
    BY <2>1, <2>2 DEF Next, EnqueueStep, ClockStep, WorkflowStep, WorkerStep, ExecutionStep,
         ReclaimStep, vars, store, CheckPendingLimit, InsertTask, BecomeVisible, BecomeStale,
         CancelPending, StartWorker, CrashWorker, ShutdownWorker, DeregisterReclaim,
         DeregisterStop, DrainWorker, ResumeWorker, StopStaleWorker, HeartbeatTask,
         CompleteTask, FailTask, ReclaimExhausted
<1>3. ASSUME NEW t \in Tasks PROVE Keeps(t)
  <2>1. CASE QuietStep
    BY <2>1, QuietStepEffect DEF SameClaim, Keeps
  <2>2. ASSUME NEW u \in Tasks, CheckPendingLimit(u) PROVE Keeps(t)
    BY <2>2 DEF CheckPendingLimit, store, Keeps
  <2>4. ASSUME NEW w \in Workers, \/ DeregisterReclaim(w)
                                  \/ \E S \in SUBSET Tasks : ClaimTask(w, S)
        PROVE  Keeps(t)
    BY <2>4, DeregisterEffect, ClaimEffect DEF SameClaim, Keeps
  <2>5. ASSUME NEW e \in exec, CompleteTask(e) \/ \E r \in BOOLEAN : FailTask(e, r)
        PROVE  Keeps(t)
    BY <2>5, CompleteEffect, FailEffect DEF SameClaim, Keeps
  <2>6. CASE ReclaimExhausted \/ \E f \in Workflows : CancelPending(f)
    BY <2>6, ExhaustedEffect, CancelEffect DEF SameClaim, Keeps
  <2> QED
    BY <2>1, <2>2, <2>4, <2>5, <2>6, StepCases
<1> QED
  BY <1>1, <1>2, <1>3 DEF Keeps

(* Only an insertion gives an identifier its row. *)
LEMMA AbsentStays ==
    ASSUME TypeOK, [Next]_vars, NEW t \in Tasks, ~InsertTask(t), task[t].status = "absent"
    PROVE  task'[t].status = "absent"
<1>1. CASE QuietStep
  BY <1>1, QuietStepEffect DEF SameClaim
<1>2. ASSUME NEW u \in Tasks, CheckPendingLimit(u) PROVE task'[t].status = "absent"
  BY <1>2 DEF CheckPendingLimit, store
<1>3. ASSUME NEW u \in Tasks, InsertTask(u) PROVE task'[t].status = "absent"
  BY <1>3, InsertEffect DEF SameClaim
<1>4. ASSUME NEW w \in Workers, DeregisterReclaim(w) PROVE task'[t].status = "absent"
  BY <1>4, DeregisterEffect DEF SameClaim, Owns
<1>5. ASSUME NEW w \in Workers, NEW S \in SUBSET Tasks, ClaimTask(w, S)
      PROVE  task'[t].status = "absent"
  BY <1>5 DEF ClaimTask, Claimable, UpdateRows
<1>6. ASSUME NEW e \in exec, CompleteTask(e) \/ \E r \in BOOLEAN : FailTask(e, r)
      PROVE  task'[t].status = "absent"
  BY <1>6 DEF CompleteTask, FailTask, Owns, TypeOK, Executions
<1>7. CASE ReclaimExhausted \/ ReclaimStale
  BY <1>7, RecoverEffect DEF ReclaimExhausted, UpdateRows, Stale, SameClaim
<1>8. CASE \E f \in Workflows : CancelPending(f)
  BY <1>8 DEF CancelPending, UpdateRows, PendingOf
<1> QED
  BY <1>1, <1>2, <1>3, <1>4, <1>5, <1>6, <1>7, <1>8, StepCases

LEMMA ProgressInvStep ==
    ASSUME TypeOK, Blank, ProgressInv, [Next]_vars
    PROVE  ProgressInv'
<1> USE DEF ProgressInv, FreshInv
<1>a. /\ \A t \in Tasks : /\ task[t].noProgress \in Nat
                          /\ task[t].progressToken \in Nat \cup {NullToken}
                          /\ quiet[t] \in Nat
                          /\ WorkflowOf[t] # NoWorkflow => WorkflowOf[t] \in Workflows
      /\ \A f \in Workflows : events[f].token \in Nat /\ events[f].next \in Nat
      /\ SealThreshold \in Nat \ {0}
  BY TaskQueueAssumption DEF TypeOK, Rows, Owners
<1>c. TokenInv'
  BY TokenInvStep
<1>d. ASSUME NEW t \in Tasks
      PROVE  /\ task[t].status = "dead" => task'[t].status = "dead"
             /\ task[t].status # "absent" => task'[t].status # "absent"
  BY <1>d, StatusMoves
<1> SUFFICES ASSUME NEW t \in Tasks PROVE FreshAt(t)' /\ ExactAt(t)'
  BY <1>c
<1>1. ASSUME ~ReclaimStale, ~\E u \in Tasks : InsertTask(u),
             ~\E f \in Workflows : AppendFact(f)
      PROVE  FreshAt(t)' /\ ExactAt(t)'
  <2>1. /\ quiet' = quiet /\ fresh' = fresh /\ preceded' = preceded
        /\ \A f \in Workflows : events'[f].token = events[f].token
        /\ task'[t].noProgress = task[t].noProgress
        /\ task'[t].progressToken = task[t].progressToken
    BY <1>1, CountKept
  <2>2. task[t].status = "absent" => task'[t].status = "absent"
    BY <1>1, AbsentStays
  <2>3. FreshAt(t)'
    BY <1>a, <1>d, <2>1, <2>2 DEF FreshAt
  <2>4. ExactAt(t)'
    BY <1>d, <2>1 DEF ExactAt
  <2> QED
    BY <2>3, <2>4
<1>2. ASSUME NEW f \in Workflows, AppendFact(f) PROVE FreshAt(t)' /\ ExactAt(t)'
  <2>1. /\ task' = task /\ quiet' = quiet /\ preceded' = preceded
        /\ fresh' = fresh \cup TasksOf(f)
        /\ events'[f].token = events[f].next + 1
        /\ \A g \in Workflows \ {f} : events'[g] = events[g]
    BY <1>2 DEF AppendFact, TypeOK
  <2>2. ExactAt(t)'
    BY <2>1 DEF ExactAt
  <2>3. CASE WorkflowOf[t] = f
    <3>1. t \in fresh' /\ f # NoWorkflow
      BY <2>1, <2>3, TaskQueueAssumption DEF TasksOf
    <3>2. events'[f].token > 0 /\ events'[f].token > events[f].token
      BY <1>a, <2>1 DEF TokenInv
    <3> QED
      BY <1>a, <2>1, <2>2, <2>3, <3>1, <3>2 DEF FreshAt
  <2>4. CASE WorkflowOf[t] # f
    <3>1. t \in fresh' <=> t \in fresh
      BY <2>1, <2>4 DEF TasksOf
    <3> QED
      BY <1>a, <2>1, <2>2, <2>4, <3>1 DEF FreshAt
  <2> QED
    BY <2>3, <2>4
<1>3. ASSUME NEW u \in Tasks, InsertTask(u) PROVE FreshAt(t)' /\ ExactAt(t)'
  <2>1. /\ events' = events /\ quiet' = quiet /\ fresh' = fresh \ {u}
        /\ preceded' = IF CurrentToken(u) > 0 THEN preceded \cup {u} ELSE preceded
    BY <1>3 DEF InsertTask
  <2>2. CASE t = u
    <3>1. /\ task[t].status = "absent"
          /\ task[t].noProgress = 0 /\ task[t].progressToken = NullToken
          /\ task'[t].noProgress = 0 /\ task'[t].progressToken = NullToken
          /\ task'[t].status = "pending"
      BY <1>3, <2>2, InsertEffect DEF InsertTask, Blank
    <3>2. quiet[t] = 0 /\ t \notin preceded
      BY <3>1 DEF FreshAt
    <3>3. ExactAt(t)'
      BY <1>a, <2>1, <3>1, <3>2 DEF ExactAt
    <3>4. FreshAt(t)'
      BY <1>a, <2>1, <2>2, <3>1, <3>2 DEF FreshAt, CurrentToken
    <3> QED
      BY <3>3, <3>4
  <2>3. CASE t # u
    <3>1. SameClaim(t) /\ (t \in fresh' <=> t \in fresh) /\ (t \in preceded' <=> t \in preceded)
      BY <1>3, <2>1, <2>3, InsertEffect
    <3> QED
      BY <1>a, <2>1, <3>1 DEF FreshAt, ExactAt, SameClaim
  <2> QED
    BY <2>2, <2>3
<1>4. CASE ReclaimStale
  <2>0. events' = events /\ preceded' = preceded
    BY <1>4 DEF ReclaimStale
  <2> DEFINE Hit == t \in Stale /\ task[t].attempt < MaxAttempts[t]
  <2>1. CASE ~Hit
    <3>1. SameClaim(t) /\ quiet'[t] = quiet[t] /\ (t \in fresh' <=> t \in fresh)
      <4>1. SameClaim(t)
        BY <1>4, <2>1, RecoverEffect
      <4>2. quiet'[t] = quiet[t] /\ (t \in fresh' <=> t \in fresh)
        BY <1>4, <2>1 DEF ReclaimStale, TypeOK
      <4> QED
        BY <4>1, <4>2
    <3> QED
      BY <1>a, <2>0, <3>1 DEF FreshAt, ExactAt, SameClaim
  <2>2. CASE Hit
    <3>1. /\ task'[t].status = IF NoProgressCount(t) >= SealThreshold THEN "dead" ELSE "pending"
          /\ task'[t].noProgress = NoProgressCount(t)
          /\ task'[t].progressToken = IF WorkflowOf[t] = NoWorkflow
                                      THEN NullToken ELSE CurrentToken(t)
      BY <1>4, <2>2, RecoverEffect DEF Moves
    <3>2. /\ quiet'[t] = IF WorkflowOf[t] = NoWorkflow \/ t \in fresh THEN 0 ELSE quiet[t] + 1
          /\ t \notin fresh'
      BY <1>4, <2>2 DEF ReclaimStale, TypeOK
    <3>3. task[t].status # "absent"
      BY <2>2 DEF Stale
    <3> HIDE DEF Hit
    <3>4. CASE WorkflowOf[t] = NoWorkflow
      <4>1. NoProgressCount(t) = 0
        BY <3>4 DEF NoProgressCount, Advanced
      <4> QED
        BY <1>a, <3>1, <3>2, <3>4, <4>1 DEF FreshAt, ExactAt
    <3>5. CASE WorkflowOf[t] # NoWorkflow
      <4>1. CurrentToken(t) = events[WorkflowOf[t]].token /\ CurrentToken(t) \in Nat
        BY <1>a, <3>5 DEF CurrentToken
      <4>2. FreshAt(t)'
        BY <1>a, <2>0, <3>1, <3>2, <3>5, <4>1 DEF FreshAt, NullToken
      <4>3. CASE t \in fresh
        <5>1. NoProgressCount(t) = 0
          BY <1>a, <3>3, <3>5, <4>1, <4>3 DEF NoProgressCount, Advanced, FreshAt
        <5> QED
          BY <1>a, <3>1, <3>2, <4>2, <4>3, <5>1 DEF ExactAt
      <4>4. CASE t \notin fresh /\ task[t].progressToken # NullToken
        <5>1. NoProgressCount(t) = task[t].noProgress + 1
          BY <1>a, <3>3, <3>5, <4>1, <4>4 DEF NoProgressCount, Advanced, FreshAt
        <5> QED
          BY <1>a, <2>0, <3>1, <3>2, <3>5, <4>2, <4>4, <5>1 DEF ExactAt
      <4>5. CASE t \notin fresh /\ task[t].progressToken = NullToken
        <5>1. /\ quiet[t] = 0 /\ task[t].noProgress = 0
              /\ events[WorkflowOf[t]].token > 0 <=> t \in preceded
          BY <3>3, <3>5, <4>5 DEF FreshAt
        <5>2. NoProgressCount(t) = IF t \in preceded THEN 0 ELSE 1
          BY <1>a, <3>5, <4>1, <4>5, <5>1 DEF NoProgressCount, Advanced
        <5> QED
          BY <1>a, <2>0, <3>1, <3>2, <3>5, <4>2, <4>5, <5>1, <5>2 DEF ExactAt
      <4> QED
        BY <4>3, <4>4, <4>5
    <3> QED
      BY <3>4, <3>5
  <2> QED
    BY <2>1, <2>2
<1> QED
  BY <1>1, <1>2, <1>3, <1>4

(* For every instance and every threshold, whether logs are empty or not:     *)
(* no_progress_count is the number of consecutive silent recoveries, less one *)
(* only if the log had facts before the task was inserted, and a task whose   *)
(* count reaches the threshold is dead.                                       *)
THEOREM SealIsExact == Spec => []NoProgressCountIsExact
<1>1. Init => ClaimInv /\ ProgressInv
  <2>1. Init => ClaimInv
    BY TaskQueueAssumption DEF Init, ClaimInv, Blank, ExecutionFence,
       ExhaustedOnlyByHandBack, NewRow
  <2>2. Init => ProgressInv
    BY TaskQueueAssumption
       DEF Init, ProgressInv, TokenInv, FreshInv, FreshAt, ExactAt, NewRow, Owners,
           StartedLog, EmptyLog
  <2> QED
    BY <2>1, <2>2
<1>2. TypeOK /\ ClaimInv /\ ProgressInv /\ [Next]_vars => ClaimInv' /\ ProgressInv'
  BY ClaimInvStep, ProgressInvStep DEF ClaimInv
<1>3. ProgressInv => NoProgressCountIsExact
  BY DEF ProgressInv, ExactAt, NoProgressCountIsExact
<1> QED
  BY <1>1, <1>2, <1>3, TypeCorrect, PTL DEF Spec

-----------------------------------------------------------------------------
(* Refinement *)

Phase == [t \in Tasks |-> task[t].status]
Starts == [t \in Tasks |-> task[t].attempt]

(* A step that leaves status and attempt of every row alone is a stutter. *)
LEMMA LifecycleStutter ==
    ASSUME \A t \in Tasks : SameClaim(t)
    PROVE  Phase' = Phase /\ Starts' = Starts
BY DEF Phase, Starts, SameClaim

(* A step that ends some claims is one Finish. *)
LEMMA LifecycleFinish ==
    ASSUME NEW S \in SUBSET Tasks, NEW to \in [S -> {"pending", "completed", "dead"}],
           \A t \in Tasks : IF t \in S
                            THEN /\ task[t].status = "claimed" /\ task'[t].status = to[t]
                                 /\ task'[t].attempt = task[t].attempt
                            ELSE SameClaim(t)
    PROVE  [Lifecycle!LNext]_<<Phase, Starts>>
<1>1. CASE S = {}
  BY <1>1, LifecycleStutter
<1>2. CASE S # {}
  <2>1. Lifecycle!Finish(S, to)
    BY <1>2 DEF Lifecycle!Finish, Lifecycle!In, Phase, Starts, SameClaim
  <2> QED
    BY <2>1 DEF Lifecycle!LNext, Lifecycle!Outcomes, Lifecycle!Finish
<1> QED
  BY <1>1, <1>2

LEMMA LifecycleStep ==
    ASSUME TypeOK, ClaimInv, [Next]_vars
    PROVE  [Lifecycle!LNext]_<<Phase, Starts>>
<1>1. CASE QuietStep
  BY <1>1, QuietStepEffect, LifecycleStutter
<1>2. ASSUME NEW t \in Tasks, CheckPendingLimit(t) PROVE [Lifecycle!LNext]_<<Phase, Starts>>
  BY <1>2 DEF CheckPendingLimit, store, Phase, Starts
<1>3. ASSUME NEW t \in Tasks, InsertTask(t) PROVE [Lifecycle!LNext]_<<Phase, Starts>>
  <2>1. task[t].status = "absent" /\ task[t].attempt = 0
    BY <1>3 DEF InsertTask, ClaimInv, Blank
  <2>2. Lifecycle!Submit(t)
    BY <1>3, <2>1, InsertEffect DEF Lifecycle!Submit, SameClaim
  <2> QED
    BY <2>2 DEF Lifecycle!LNext
<1>4. ASSUME NEW w \in Workers, DeregisterReclaim(w)
      PROVE  [Lifecycle!LNext]_<<Phase, Starts>>
  <2> DEFINE S == {t \in Tasks : Owns(w, t)}
             to == [t \in S |-> "pending"]
  <2>1. \A t \in Tasks : IF t \in S
                         THEN /\ task[t].status = "claimed" /\ task'[t].status = to[t]
                              /\ task'[t].attempt = task[t].attempt
                         ELSE SameClaim(t)
    BY <1>4, DeregisterEffect DEF Owns, Moves
  <2>2. S \in SUBSET Tasks /\ to \in [S -> {"pending", "completed", "dead"}]
    OBVIOUS
  <2> HIDE DEF S, to
  <2> QED
    BY <2>1, <2>2, LifecycleFinish
<1>5. ASSUME NEW w \in Workers, NEW S \in SUBSET Tasks, ClaimTask(w, S)
      PROVE  [Lifecycle!LNext]_<<Phase, Starts>>
  <2>1. S # {} /\ \A t \in S : task[t].status = "pending" /\ task[t].attempt < MaxAttempts[t]
    BY <1>5 DEF ClaimTask, Claimable
  <2>2. Lifecycle!Start(S)
    BY <1>5, <2>1, ClaimEffect DEF Lifecycle!Start, Lifecycle!In, Phase, Starts, SameClaim
  <2> QED
    BY <2>2 DEF Lifecycle!LNext, Lifecycle!Start
<1>6. ASSUME NEW e \in exec, CompleteTask(e) PROVE [Lifecycle!LNext]_<<Phase, Starts>>
  <2> DEFINE S == {t \in Tasks : t = e.task /\ Owns(e.worker, t)}
             to == [t \in S |-> "completed"]
  <2>1. \A t \in Tasks : IF t \in S
                         THEN /\ task[t].status = "claimed" /\ task'[t].status = to[t]
                              /\ task'[t].attempt = task[t].attempt
                         ELSE SameClaim(t)
    BY <1>6, CompleteEffect DEF Owns, Moves
  <2>2. S \in SUBSET Tasks /\ to \in [S -> {"pending", "completed", "dead"}]
    OBVIOUS
  <2> HIDE DEF S, to
  <2> QED
    BY <2>1, <2>2, LifecycleFinish
<1>7. ASSUME NEW e \in exec, NEW r \in BOOLEAN, FailTask(e, r)
      PROVE  [Lifecycle!LNext]_<<Phase, Starts>>
  <2> DEFINE S == {t \in Tasks : ~SameClaim(t)}
             to == [t \in S |-> task'[t].status]
  <2>1. \A t \in S : /\ task[t].status = "claimed" /\ task'[t].status \in {"pending", "dead"}
                     /\ task'[t].attempt = task[t].attempt
    BY <1>7, FailEffect DEF Moves
  <2>2. S \in SUBSET Tasks /\ to \in [S -> {"pending", "completed", "dead"}]
    BY <2>1
  <2>3. \A t \in Tasks : IF t \in S
                         THEN /\ task[t].status = "claimed" /\ task'[t].status = to[t]
                              /\ task'[t].attempt = task[t].attempt
                         ELSE SameClaim(t)
    BY <2>1
  <2> HIDE DEF S, to
  <2> QED
    BY <2>2, <2>3, LifecycleFinish
<1>8. CASE ReclaimExhausted \/ ReclaimStale
  <2> DEFINE S == {t \in Tasks : ~SameClaim(t)}
             to == [t \in S |-> task'[t].status]
  <2>1. \A t \in S : /\ task[t].status = "claimed" /\ task'[t].status \in {"pending", "dead"}
                     /\ task'[t].attempt = task[t].attempt
    BY <1>8, ExhaustedEffect, RecoverEffect DEF Moves, Stale
  <2>2. S \in SUBSET Tasks /\ to \in [S -> {"pending", "completed", "dead"}]
    BY <2>1
  <2>3. \A t \in Tasks : IF t \in S
                         THEN /\ task[t].status = "claimed" /\ task'[t].status = to[t]
                              /\ task'[t].attempt = task[t].attempt
                         ELSE SameClaim(t)
    BY <2>1
  <2> HIDE DEF S, to
  <2> QED
    BY <2>2, <2>3, LifecycleFinish
<1>9. ASSUME NEW f \in Workflows, CancelPending(f) PROVE [Lifecycle!LNext]_<<Phase, Starts>>
  <2>1. PendingOf(f) \in SUBSET Tasks /\ PendingOf(f) # {}
    BY <1>9 DEF CancelPending, PendingOf, TasksOf
  <2>2. ASSUME NEW S \in SUBSET Tasks, S = PendingOf(f)
        PROVE  [Lifecycle!LNext]_<<Phase, Starts>>
    <3>1. Lifecycle!Withdraw(S)
      BY <1>9, <2>1, <2>2, CancelEffect DEF Lifecycle!Withdraw, Lifecycle!In,
         Phase, Starts, SameClaim, Moves, PendingOf
    <3> QED
      BY <3>1 DEF Lifecycle!LNext, Lifecycle!Withdraw
  <2> QED
    BY <2>1, <2>2
<1> QED
  BY <1>1, <1>2, <1>3, <1>4, <1>5, <1>6, <1>7, <1>8, <1>9, StepCases

(* For every instance the task table implements the task lifecycle.          *)
THEOREM LifecycleRefinement == Spec => ImplementsLifecycle
<1>1. Init => ClaimInv /\ Lifecycle!LInit
  BY TaskQueueAssumption DEF Init, ClaimInv, Blank, ExecutionFence, ExhaustedOnlyByHandBack,
     NewRow, Lifecycle!LInit
<1>2. TypeOK /\ ClaimInv /\ [Next]_vars => ClaimInv'
  BY ClaimInvStep
<1>3. TypeOK /\ ClaimInv /\ [Next]_vars => [Lifecycle!LNext]_(Lifecycle!lvars)
  BY LifecycleStep DEF Lifecycle!lvars, Phase, Starts
<1> QED
  BY <1>1, <1>2, <1>3, TypeCorrect, PTL DEF Spec, ImplementsLifecycle, Lifecycle!LSpec
=============================================================================
