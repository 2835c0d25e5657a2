------------------------- MODULE TurnWorkflowProofs -------------------------
(***************************************************************************)
(* Theorems about TurnWorkflow for every number of workers, server         *)
(* replicas, messages, attempts, iterations and tasks, and wherever        *)
(* processes may be lost.                                                  *)
(***************************************************************************)
EXTENDS TurnWorkflow, FiniteSetTheorems, SequenceTheorems, TLAPS

(* Everything an execution may have at hand: the output of its activity, the  *)
(* plan made of it, or its failure.                                           *)
Outs == {"none"} \cup (UNION {Outcomes[k] : k \in Kinds}) \cup Plans \cup Failures
Pcs == BeforeEnd \cup AfterEnd

(* TypeOK is inductive only with RefInv: executions and the reaper refer to    *)
(* rows that exist, and a checkpoint names the turn that is resumed from it.   *)
RefInv ==
    /\ \A e \in exec : e.task \in Ids
    /\ \A r \in reaping : r.task \in Ids
    /\ saved.kind = "checkpoint" => saved.turn \in TaskIds
    /\ \A s \in Servers : call[s].step \in {"resume.reset", "resume.enqueue"} =>
                              call[s].from.turn \in TaskIds

TypeInv == TypeOK /\ RefInv

-----------------------------------------------------------------------------
(* What the steps do to the rows of the task table *)

(* Row i gets status st; what it stands for does not change. *)
Rewrites(i, st) ==
    /\ tasks' \in Seq(Rows) /\ Len(tasks') = Len(tasks)
    /\ \A j \in Ids \ {i} : tasks'[j] = tasks[j]
    /\ tasks'[i].status = st
    /\ tasks'[i].kind = tasks[i].kind /\ tasks'[i].parent = tasks[i].parent
    /\ tasks'[i].iteration = tasks[i].iteration
    /\ st = "pending" => tasks'[i].attempt = tasks[i].attempt

(* Row r is added at the end. *)
Adds(r) ==
    /\ tasks' \in Seq(Rows) /\ Len(tasks') = Len(tasks) + 1 /\ Len(tasks') <= MaxTasks
    /\ \A j \in Ids : tasks'[j] = tasks[j]
    /\ tasks'[Len(tasks) + 1] = r

(* Pending rows are cancelled. *)
Cancels ==
    /\ tasks' \in Seq(Rows) /\ Len(tasks') = Len(tasks)
    /\ \A j \in Ids : /\ tasks'[j].status = IF tasks[j].status = "pending"
                                            THEN "cancelled" ELSE tasks[j].status
                      /\ tasks'[j].kind = tasks[j].kind /\ tasks'[j].parent = tasks[j].parent

(* Claims are handed back. *)
Returns ==
    /\ tasks' \in Seq(Rows) /\ Len(tasks') = Len(tasks)
    /\ \A j \in Ids : /\ \/ tasks'[j].status = tasks[j].status
                         \/ tasks[j].status = "claimed" /\ tasks'[j].status = "pending"
                      /\ tasks'[j].kind = tasks[j].kind /\ tasks'[j].parent = tasks[j].parent
                      /\ tasks'[j].iteration = tasks[j].iteration
                      /\ tasks'[j].attempt = tasks[j].attempt

LEMMA RowTypes ==
    ASSUME TypeOK
    PROVE  /\ Len(tasks) \in 0..MaxTasks /\ MaxTasks \in Nat \ {0} /\ Ids \subseteq TaskIds
           /\ \A i \in Ids : tasks[i] \in Rows
BY TurnWorkflowAssumption DEF TypeOK, Ids, TaskIds

LEMMA RowRewritten ==
    ASSUME TypeOK, NEW i \in Ids, NEW r \in Rows,
           tasks' = [tasks EXCEPT ![i] = r],
           r.kind = tasks[i].kind, r.parent = tasks[i].parent, r.iteration = tasks[i].iteration,
           r.status = "pending" => r.attempt = tasks[i].attempt
    PROVE  Rewrites(i, r.status) /\ tasks'[i] = r
<1>1. tasks \in Seq(Rows) /\ i \in 1 .. Len(tasks)
  BY DEF TypeOK, Ids
<1>2. tasks' \in Seq(Rows) /\ Len(tasks') = Len(tasks)
  BY <1>1, ExceptSeq
<1>3. tasks'[i] = r /\ \A j \in Ids \ {i} : tasks'[j] = tasks[j]
  BY <1>1 DEF Ids
<1> QED
  BY <1>2, <1>3 DEF Rewrites

LEMMA RowAdded ==
    ASSUME TypeOK, NEW r \in Rows, Enqueue(r)
    PROVE  Adds(r)
<1>1. tasks \in Seq(Rows) /\ tasks' = Append(tasks, r) /\ Len(tasks) < MaxTasks
  BY DEF TypeOK, Enqueue
<1>2. Len(tasks) \in Nat /\ MaxTasks \in Nat
  BY RowTypes
<1>3. /\ tasks' \in Seq(Rows) /\ Len(tasks') = Len(tasks) + 1
      /\ tasks'[Len(tasks) + 1] = r
      /\ \A j \in 1 .. Len(tasks) : tasks'[j] = tasks[j]
  BY <1>1, AppendProperties
<1> QED
  BY <1>1, <1>2, <1>3 DEF Adds, Ids

LEMMA RowsCancelled ==
    ASSUME TypeOK, CancelPending
    PROVE  Cancels
<1>1. ASSUME NEW i \in Ids
      PROVE  /\ [tasks[i] EXCEPT !.status = "cancelled"] \in Rows
             /\ [tasks[i] EXCEPT !.status = "cancelled"].status = "cancelled"
             /\ [tasks[i] EXCEPT !.status = "cancelled"].kind = tasks[i].kind
             /\ [tasks[i] EXCEPT !.status = "cancelled"].parent = tasks[i].parent
             /\ tasks[i] \in Rows
  BY RowTypes DEF Rows
<1>2. /\ tasks' = [i \in Ids |-> tasks'[i]]
      /\ \A i \in Ids : tasks'[i] = IF tasks[i].status = "pending"
                                    THEN [tasks[i] EXCEPT !.status = "cancelled"]
                                    ELSE tasks[i]
  BY DEF CancelPending
<1>3. tasks' \in [1 .. Len(tasks) -> Rows] /\ Len(tasks) \in Nat
  BY <1>1, <1>2, RowTypes DEF Ids
<1>4. tasks' \in Seq(Rows) /\ Len(tasks') = Len(tasks)
  BY <1>3
<1> QED
  BY <1>1, <1>2, <1>4 DEF Cancels

(* A row that was just made. *)
LEMMA NewRows ==
    ASSUME NEW k \in Kinds, NEW p \in 0..MaxTasks, NEW t \in TaskIds, NEW n \in Nat
    PROVE  /\ NewTask(k, p, t, n) \in Rows
           /\ NewTask(k, p, t, n).status = "pending"
           /\ NewTask(k, p, t, n).parent = p /\ NewTask(k, p, t, n).attempt = 0
BY TurnWorkflowAssumption DEF NewTask, Rows, Kinds

-----------------------------------------------------------------------------
(* What the steps do to executions *)

LEMMA OutTypes ==
    /\ "none" \in Outs /\ Plans \subseteq Outs /\ Failures \subseteq Outs
    /\ \A k \in Kinds : Outcomes[k] \subseteq Outs
    /\ Executions = [task : TaskIds, worker : Workers, attempt : 1..MaxAttempts,
                     pc : Pcs, out : Outs, seen : SUBSET Messages]
<1>1. "none" \in Outs /\ Plans \subseteq Outs /\ Failures \subseteq Outs
  BY DEF Outs
<1>2. \A k \in Kinds : Outcomes[k] \subseteq Outs
  <2> DEFINE U == UNION {Outcomes[k] : k \in Kinds}
  <2>1. \A k \in Kinds : Outcomes[k] \subseteq U
    BY Zenon
  <2>2. U \subseteq Outs
    BY Zenon DEF Outs
  <2> QED
    BY <2>1, <2>2, Zenon
<1>3. Executions = [task : TaskIds, worker : Workers, attempt : 1..MaxAttempts,
                    pc : Pcs, out : Outs, seen : SUBSET Messages]
  BY Zenon DEF Outs, Pcs, Executions
<1> QED
  BY <1>1, <1>2, <1>3, Zenon

(* An execution that moves on remains an execution of its task. *)
LEMMA ExecMoved ==
    ASSUME NEW e \in Executions, NEW p \in Pcs
    PROVE  LET f == [e EXCEPT !.pc = p]
           IN  f \in Executions /\ f.pc = p /\ f.task = e.task /\ f.out = e.out
BY OutTypes

LEMMA ExecRead ==
    ASSUME NEW e \in Executions, NEW m \in SUBSET Messages
    PROVE  LET f == [e EXCEPT !.seen = m] IN f \in Executions /\ f.task = e.task
BY OutTypes

LEMMA ExecEnds ==
    ASSUME NEW e \in Executions, NEW p \in Pcs
    PROVE  LET f == [e EXCEPT !.pc = p, !.seen = {}]
           IN  f \in Executions /\ f.pc = p /\ f.task = e.task /\ f.out = e.out
BY OutTypes

LEMMA PlanTypes == \A i, out, wakes : Plan(i, out, wakes) \in Plans
BY DEF Plan, Plans

(* What the planner answers where it has a choice. *)
LEMMA PlanOf ==
    ASSUME NEW i, NEW out, NEW wakes
    PROVE  /\ tasks[i].kind = "process_input" => Plan(i, out, wakes) = "reason"
           /\ tasks[i].kind = "act" /\ out # "waiting" => Plan(i, out, wakes) \in {"reason", "blocked"}
           /\ tasks[i].kind = "reason" /\ out = "tools" /\ ~LastIteration(i) => Plan(i, out, wakes) = "act"
           /\ tasks[i].kind = "reason" /\ out = "final" /\ ~LastIteration(i) /\ wakes > 0
                 => Plan(i, out, wakes) = "reason"
           /\ tasks[i].kind = "reason" /\ out \notin {"tools", "final"} => Plan(i, out, wakes) = "failed"
<1>1. tasks[i].kind = "process_input" => Plan(i, out, wakes) = "reason"
  BY DEF Plan
<1>2. tasks[i].kind = "act" /\ out # "waiting" => Plan(i, out, wakes) \in {"reason", "blocked"}
  BY DEF Plan
<1>3. tasks[i].kind = "reason" /\ out = "tools" /\ ~LastIteration(i) => Plan(i, out, wakes) = "act"
  BY DEF Plan
<1>4. tasks[i].kind = "reason" /\ out = "final" /\ ~LastIteration(i) /\ wakes > 0
         => Plan(i, out, wakes) = "reason"
  BY DEF Plan
<1>5. tasks[i].kind = "reason" /\ out \notin {"tools", "final"} => Plan(i, out, wakes) = "failed"
  BY DEF Plan
<1> QED
  BY <1>1, <1>2, <1>3, <1>4, <1>5

-----------------------------------------------------------------------------
(* The rows each step leaves *)

LEMMA ClaimRows ==
    ASSUME TypeOK, NEW w \in Workers, NEW i \in Ids, ClaimTask(w, i)
    PROVE  /\ tasks[i].status = "pending" /\ Rewrites(i, "claimed")
           /\ tasks[i].attempt + 1 \in 1..MaxAttempts
<1> DEFINE r == [tasks[i] EXCEPT !.status = "claimed", !.owner = w, !.attempt = @ + 1]
<1>1. tasks[i] \in Rows /\ MaxAttempts \in Nat
  BY RowTypes, TurnWorkflowAssumption
<1>2. tasks[i].attempt + 1 \in 1..MaxAttempts
  BY <1>1 DEF ClaimTask, AttemptsLeft, Rows
<1>3. r \in Rows /\ r.status = "claimed"
      /\ r.kind = tasks[i].kind /\ r.parent = tasks[i].parent /\ r.iteration = tasks[i].iteration
  <2>1. tasks[i].attempt + 1 \in 0..MaxAttempts
    BY <1>1, <1>2
  <2>2. \A a \in 0..MaxAttempts :
            LET q == [tasks[i] EXCEPT !.status = "claimed", !.owner = w, !.attempt = a]
            IN  q \in Rows /\ q.status = "claimed" /\ q.kind = tasks[i].kind
                /\ q.parent = tasks[i].parent
    BY <1>1 DEF Rows
  <2>3. r.iteration = tasks[i].iteration
    BY <1>1 DEF Rows
  <2>4. r \in Rows /\ r.status = "claimed" /\ r.kind = tasks[i].kind /\ r.parent = tasks[i].parent
    BY <2>1, <2>2, Zenon
  <2> HIDE DEF r
  <2> QED
    BY <2>3, <2>4
<1>4. tasks' = [tasks EXCEPT ![i] = r] /\ tasks[i].status = "pending"
  BY <1>1 DEF ClaimTask, TypeOK, Ids
<1> HIDE DEF r
<1> QED
  BY <1>2, <1>3, <1>4, RowRewritten

(* The two ways a row is written when its claim ends. *)
LEMMA EndedRows ==
    ASSUME TypeOK, NEW i \in Ids, NEW st \in {"completed", "dead"}
    PROVE  /\ tasks' = [tasks EXCEPT ![i].status = st] => Rewrites(i, st)
           /\ tasks' = [tasks EXCEPT ![i].status = st, ![i].owner = NoWorker] => Rewrites(i, st)
<1>1. tasks[i] \in Rows
  BY RowTypes
<1>2. CASE tasks' = [tasks EXCEPT ![i].status = st]
  <2> DEFINE r == [tasks[i] EXCEPT !.status = st]
  <2>1. r \in Rows /\ r.status = st
      /\ r.kind = tasks[i].kind /\ r.parent = tasks[i].parent /\ r.iteration = tasks[i].iteration
    BY <1>1 DEF Rows
  <2>2. tasks' = [tasks EXCEPT ![i] = r]
    BY <1>2
  <2> HIDE DEF r
  <2> QED
    BY <2>1, <2>2, RowRewritten
<1>3. CASE tasks' = [tasks EXCEPT ![i].status = st, ![i].owner = NoWorker]
  <2> DEFINE r == [tasks[i] EXCEPT !.status = st, !.owner = NoWorker]
  <2>1. r \in Rows /\ r.status = st
      /\ r.kind = tasks[i].kind /\ r.parent = tasks[i].parent /\ r.iteration = tasks[i].iteration
    BY <1>1 DEF Rows
  <2>2. tasks' = [tasks EXCEPT ![i] = r]
    BY <1>1, <1>3 DEF TypeOK, Ids
  <2> HIDE DEF r
  <2> QED
    BY <2>1, <2>2, RowRewritten
<1> QED
  BY <1>2, <1>3

LEMMA RequeuedRows ==
    ASSUME TypeOK, NEW i \in Ids,
           tasks' = [tasks EXCEPT ![i].status = "pending", ![i].owner = NoWorker]
    PROVE  Rewrites(i, "pending")
<1> DEFINE r == [tasks[i] EXCEPT !.status = "pending", !.owner = NoWorker]
<1>1. tasks[i] \in Rows
  BY RowTypes
<1>2. r \in Rows /\ r.status = "pending" /\ r.attempt = tasks[i].attempt
      /\ r.kind = tasks[i].kind /\ r.parent = tasks[i].parent /\ r.iteration = tasks[i].iteration
  BY <1>1 DEF Rows
<1>3. tasks' = [tasks EXCEPT ![i] = r]
  BY <1>1 DEF TypeOK, Ids
<1> HIDE DEF r
<1> QED
  BY <1>2, <1>3, RowRewritten
-----------------------------------------------------------------------------
(* Types *)

(* What a step may do to the calls. *)
CallsTyped == /\ call' \in [Servers -> [step : Steps, from : Results]]
              /\ \A s \in Servers : call'[s].step \in {"resume.reset", "resume.enqueue"} =>
                                         call'[s].from.turn \in TaskIds

LEMMA CallMoved ==
    ASSUME TypeInv, NEW s \in Servers
    PROVE  /\ \A step \in Steps \ {"resume.reset", "resume.enqueue"} :
                 MoveCall(s, step) => CallsTyped
           /\ call[s].step = "resume.reset" /\ MoveCall(s, "resume.enqueue") => CallsTyped
           /\ EndCall(s) => CallsTyped
<1>1. /\ call \in [Servers -> [step : Steps, from : Results]]
      /\ \A t \in Servers : call[t].step \in {"resume.reset", "resume.enqueue"} =>
                                 call[t].from.turn \in TaskIds
  BY DEF TypeInv, TypeOK, RefInv
<1>2. Idle \in [step : Steps, from : Results] /\ Idle.step = "idle"
  BY TurnWorkflowAssumption DEF Idle, Steps, NoResult, Results
<1>3. ASSUME NEW step \in Steps, MoveCall(s, step)
      PROVE  /\ call' \in [Servers -> [step : Steps, from : Results]]
             /\ call'[s].step = step /\ call'[s].from = call[s].from
             /\ \A t \in Servers \ {s} : call'[t] = call[t]
  BY <1>1, <1>3 DEF MoveCall
<1>4. ASSUME EndCall(s)
      PROVE  /\ call' \in [Servers -> [step : Steps, from : Results]]
             /\ call'[s].step = "idle"
             /\ \A t \in Servers \ {s} : call'[t] = call[t]
  BY <1>1, <1>2, <1>4 DEF EndCall
<1>5. EndCall(s) => CallsTyped
  BY <1>1, <1>4 DEF CallsTyped
<1>6. ASSUME NEW step \in Steps \ {"resume.reset", "resume.enqueue"}, MoveCall(s, step)
      PROVE  CallsTyped
  BY <1>1, <1>3, <1>6 DEF CallsTyped
<1>7. ASSUME call[s].step = "resume.reset", MoveCall(s, "resume.enqueue") PROVE CallsTyped
  <2>1. "resume.enqueue" \in Steps
    BY DEF Steps
  <2> QED
    BY <1>1, <1>3, <1>7, <2>1 DEF CallsTyped
<1> QED
  BY <1>5, <1>6, <1>7

(* Executions are of rows that exist, also when one moves on, ends or is       *)
(* started and when rows are added.                                            *)
LEMMA ExecTyped ==
    ASSUME TypeInv, Len(tasks) <= Len(tasks'), Len(tasks') \in Nat,
           \A e \in exec' : e \in exec \/ (e \in Executions /\ e.task \in Ids)
    PROVE  exec' \subseteq Executions /\ \A e \in exec' : e.task \in 1 .. Len(tasks')
<1>1. Len(tasks) \in Nat
  BY RowTypes DEF TypeInv
<1> QED
  BY <1>1 DEF TypeInv, TypeOK, RefInv, Ids

(* The steps of the runner calls. *)
LEMMA CallTypes ==
    ASSUME TypeInv, NEW s \in Servers,
           \/ \E m \in Messages : SendMessage(s, m)
           \/ ResumeBegin(s) \/ CancelBegin(s)
           \/ CallStep(s) \/ CancelRunFails(s) \/ LoseCall(s)
    PROVE  TypeInv'
<1> USE DEF TypeInv
<1>a. Len(tasks) \in Nat /\ Len(tasks) <= MaxTasks /\ MaxTasks \in Nat
  BY RowTypes
<1>b. NoResult \in Results /\ CancelOutput \in Results
      /\ NoResult.kind = "none" /\ CancelOutput.kind = "output"
  BY <1>a DEF NoResult, CancelOutput, Results
<1>l. lost' \subseteq sent'
  BY DEF SendMessage, ResumeBegin, CancelBegin, CallStep, StartStep, StartClaim, StartEnqueue,
         StartCreate, StartSignal, ResumeStep, ResumeActivate, ResumeRead, ResumeReset,
         ResumeEnqueue, EnqueueFails, CancelStep, CancelTasks, CancelStatus, CancelSettle,
         CancelRunFails, LoseCall, Drop, TypeOK
<1>1. ASSUME NEW m \in Messages, SendMessage(s, m) PROVE TypeInv'
  <2>1. CallsTyped
    BY <1>1, CallMoved DEF SendMessage, Steps
  <2> QED
    BY <1>1, <2>1 DEF SendMessage, CallsTyped, TypeOK, RefInv, Ids
<1>2. CASE ResumeBegin(s) \/ CancelBegin(s) \/ ResumeActivate(s)
  <2>1. CallsTyped
    BY <1>2, CallMoved DEF ResumeBegin, CancelBegin, ResumeActivate, Steps
  <2> QED
    BY <1>2, <2>1 DEF ResumeBegin, CancelBegin, ResumeActivate, CallsTyped, TypeOK, RefInv, Ids
<1>3. CASE StartClaim(s)
  <2>1. CallsTyped
    BY <1>3, CallMoved DEF StartClaim, Steps
  <2>2. /\ tasks' \in Seq(Rows) /\ Len(tasks') = Len(tasks)
        /\ dropped' \in BOOLEAN /\ wf' \in WorkflowStatuses
        /\ saved' = saved \/ saved' = NoResult
    BY <1>3, RowsCancelled DEF StartClaim, Cancels, TypeOK, WorkflowStatuses
  <2>3. UNCHANGED <<session, signals, exec, reaping, sent, unread, ends>>
    BY <1>3 DEF StartClaim
  <2> QED
    BY <1>l, <1>b, <2>1, <2>2, <2>3 DEF CallsTyped, TypeOK, RefInv, Ids
<1>4. CASE StartEnqueue(s) \/ StartCreate(s) \/ ResumeEnqueue(s)
  <2>1. CallsTyped
    BY <1>4, CallMoved DEF StartEnqueue, StartCreate, ResumeEnqueue
  <2>2. ASSUME Len(tasks) < MaxTasks PROVE FirstTask \in Rows
    <3>1. Len(tasks) + 1 \in TaskIds /\ 0 \in 0..MaxTasks /\ 1 \in Nat
      BY <1>a, <2>2 DEF TaskIds
    <3> QED
      BY <3>1, NewRows DEF FirstTask, Kinds
  <2>3. CASE StartEnqueue(s)
    <3>1. Adds(FirstTask)
      BY <2>2, <2>3, RowAdded DEF StartEnqueue, Enqueue
    <3> QED
      BY <1>a, <2>1, <2>3, <3>1, ExecTyped
         DEF StartEnqueue, Adds, CallsTyped, TypeOK, RefInv, Ids
  <2>4. CASE StartCreate(s)
    <3>1. Adds(FirstTask) \/ tasks' = tasks
      BY <2>2, <2>4, RowAdded DEF StartCreate, Enqueue
    <3>2. /\ tasks' \in Seq(Rows) /\ Len(tasks') \in Nat /\ Len(tasks) <= Len(tasks')
          /\ Len(tasks') <= MaxTasks
      BY <1>a, <3>1 DEF Adds, TypeOK
    <3>3. /\ wf' \in WorkflowStatuses
          /\ UNCHANGED <<saved, session, signals, exec, reaping, sent, unread, ends, dropped>>
      BY <2>4 DEF StartCreate, TypeOK, WorkflowStatuses
    <3> QED
      BY <1>l, <1>a, <2>1, <3>2, <3>3 DEF CallsTyped, TypeOK, RefInv, Ids
  <2>5. CASE ResumeEnqueue(s)
    <3>1. call[s].from.turn \in TaskIds /\ call[s].from.iteration \in Nat
      BY <2>5 DEF ResumeEnqueue, TypeOK, RefInv, Results
    <3>2. NewTask("reason", 0, call[s].from.turn, call[s].from.iteration) \in Rows
      <4>1. "reason" \in Kinds /\ 0 \in 0..MaxTasks
        BY <1>a DEF Kinds
      <4> QED
        BY <3>1, <4>1, NewRows
    <3>3. Adds(NewTask("reason", 0, call[s].from.turn, call[s].from.iteration))
      BY <2>5, <3>2, RowAdded DEF ResumeEnqueue
    <3> QED
      BY <1>a, <2>1, <2>5, <3>3, ExecTyped
         DEF ResumeEnqueue, Adds, CallsTyped, TypeOK, RefInv, Ids
  <2> QED
    BY <1>4, <2>3, <2>4, <2>5
<1>5. CASE StartSignal(s)
  <2>1. CallsTyped
    BY <1>5, CallMoved DEF StartSignal
  <2> QED
    BY <1>5, <2>1 DEF StartSignal, CallsTyped, TypeOK, RefInv, Ids
<1>6. CASE ResumeRead(s)
  <2>1. saved \in Results /\ "resume.reset" \in Steps /\ "idle" \in Steps
    BY DEF TypeOK, Steps
  <2>2. [step |-> "resume.reset", from |-> saved] \in [step : Steps, from : Results]
        /\ Idle \in [step : Steps, from : Results]
    BY <1>b, <2>1 DEF Idle
  <2>3. CallsTyped
    BY <1>6, <2>2 DEF ResumeRead, CallsTyped, TypeOK, RefInv, Idle
  <2> QED
    BY <1>6, <2>3 DEF ResumeRead, CallsTyped, TypeOK, RefInv, Ids
<1>7. CASE ResumeReset(s)
  <2>1. CallsTyped
    BY <1>7, CallMoved DEF ResumeReset
  <2> QED
    BY <1>7, <1>b, <2>1 DEF ResumeReset, CallsTyped, TypeOK, RefInv, Ids, WorkflowStatuses
<1>8. CASE EnqueueFails(s)
  <2>1. CallsTyped
    BY <1>8, CallMoved DEF EnqueueFails
  <2>2. saved' \in Results /\ (saved'.kind = "checkpoint" => saved'.turn \in TaskIds)
    BY <1>8 DEF EnqueueFails, TypeOK, RefInv
  <2>3. /\ wf' \in WorkflowStatuses /\ unread' \subseteq sent
        /\ UNCHANGED <<session, tasks, signals, exec, reaping, sent, ends, dropped>>
    BY <1>8 DEF EnqueueFails, WorkflowStatuses
  <2> QED
    BY <1>l, <2>1, <2>2, <2>3 DEF CallsTyped, TypeOK, RefInv, Ids
<1>9. CASE CancelTasks(s)
  <2>1. CallsTyped
    BY <1>9, CallMoved DEF CancelTasks, Steps
  <2>2. tasks' \in Seq(Rows) /\ Len(tasks') = Len(tasks)
    BY <1>9, RowsCancelled DEF CancelTasks, Cancels
  <2> QED
    BY <1>9, <2>1, <2>2 DEF CancelTasks, CallsTyped, TypeOK, RefInv, Ids
<1>10. CASE CancelStatus(s)
  <2>1. CallsTyped
    BY <1>10, CallMoved DEF CancelStatus, Steps
  <2> QED
    BY <1>10, <1>b, <2>1 DEF CancelStatus, CallsTyped, TypeOK, RefInv, Ids, WorkflowStatuses
<1>11. CASE CancelRunFails(s) \/ LoseCall(s) \/ CancelSettle(s)
  <2>1. CallsTyped
    BY <1>11, CallMoved DEF CancelRunFails, LoseCall, CancelSettle, Steps
  <2>2. /\ dropped' \in BOOLEAN /\ unread' \subseteq sent
        /\ session' \in {"idle", "active", "waiting"}
    BY <1>11 DEF CancelRunFails, LoseCall, CancelSettle, Drop, TypeOK
  <2>3. UNCHANGED <<wf, saved, tasks, signals, exec, reaping, sent, ends>>
    BY <1>11 DEF CancelRunFails, LoseCall, CancelSettle
  <2> QED
    BY <1>l, <2>1, <2>2, <2>3 DEF CallsTyped, TypeOK, RefInv, Ids
<1> QED
  BY <1>1, <1>2, <1>3, <1>4, <1>5, <1>6, <1>7, <1>8, <1>9, <1>10, <1>11
     DEF CallStep, StartStep, ResumeStep, CancelStep

(* What each step of an execution makes of it: e goes on as f or ends. *)
Goes(e, f) == MoveExec(e, f) /\ f \in Executions /\ f.task = e.task

(* The activity: the execution goes on to complete or to fail its task. *)
LEMMA ActivityMoves ==
    ASSUME TypeInv, NEW e \in exec, RunActivity(e)
    PROVE  /\ e.pc = "run"
           /\ \E f \in Executions : Goes(e, f) /\ f.pc \in {"complete", "fail"}
           /\ session' \in {"idle", "active", "waiting"}
           /\ \/ ends' = ends
              \/ /\ "blocked" \in Outcomes[tasks[e.task].kind]
                 /\ ends' = [ends EXCEPT ![e.task] = @ + 1]
           /\ UNCHANGED <<wf, saved, tasks, signals, call, reaping, sent, unread, dropped, lost>>
<1> DEFINE kind == tasks[e.task].kind
           m == IF kind = "reason" THEN sent ELSE {}
           ran == [e EXCEPT !.seen = m]
<1>1. e \in Executions /\ kind \in Kinds /\ m \in SUBSET Messages
  BY RowTypes DEF TypeInv, TypeOK, RefInv, Rows
<1>2. "complete" \in Pcs /\ "fail" \in Pcs /\ "run" \in Pcs /\ "none" \in Outs
  BY OutTypes DEF Pcs, BeforeEnd
<1>3. ran \in Executions /\ ran.task = e.task
  BY <1>1, ExecRead
<1>5. /\ Outcomes[kind] \subseteq Outs /\ "retryable" \in Outs /\ "permanent" \in Outs
  BY <1>1, OutTypes DEF Failures
<1>6. \/ \E out \in Outcomes[kind] : MoveExec(e, [ran EXCEPT !.pc = "complete", !.out = out])
      \/ \E out \in {"retryable", "permanent"} : MoveExec(e, [ran EXCEPT !.pc = "fail", !.out = out])
      \/ /\ "blocked" \in Outcomes[kind]
         /\ MoveExec(e, [e EXCEPT !.pc = "complete", !.out = "blocked"])
  BY DEF RunActivity
<1>7. \E f \in Executions : Goes(e, f) /\ f.pc \in {"complete", "fail"}
  <2>1. ASSUME NEW g \in {e, ran}, NEW p \in {"complete", "fail"}, NEW out \in Outs,
               MoveExec(e, [g EXCEPT !.pc = p, !.out = out])
        PROVE  \E f \in Executions : Goes(e, f) /\ f.pc \in {"complete", "fail"}
    <3>1. g \in Executions /\ g.task = e.task
      BY <1>1, <1>3
    <3> HIDE DEF ran
    <3> DEFINE f == [g EXCEPT !.pc = p, !.out = out]
    <3>2. f \in Executions /\ f.task = e.task /\ f.pc = p
      BY <1>2, <3>1, OutTypes
    <3>3. MoveExec(e, f)
      BY <2>1
    <3> HIDE DEF f
    <3> QED
      BY <3>2, <3>3 DEF Goes
  <2> HIDE DEF ran, kind
  <2> QED
    BY <1>5, <1>6, <2>1
<1> QED
  BY <1>7 DEF RunActivity, TypeInv, TypeOK

(* The steps of executions, one clause for each. *)
LEMMA RunTypes ==
    ASSUME TypeInv, NEW e \in exec, RunStep(e)
    PROVE  TypeInv'
<1> USE DEF TypeInv
<1>a. e \in Executions /\ e.task \in Ids /\ e.task \in TaskIds
  BY RowTypes DEF TypeOK, RefInv
<1>b. Len(tasks) \in Nat /\ Len(tasks) <= MaxTasks
  BY RowTypes
<1>c. /\ "run" \in Pcs /\ "fail" \in Pcs /\ "drain" \in Pcs /\ "tryFail" \in Pcs /\ "announce" \in Pcs
      /\ "cancelled" \in Outs /\ "none" \in Outs /\ {} \in SUBSET Messages
  BY OutTypes DEF Pcs, BeforeEnd, AfterEnd, Failures
<1>d. ASSUME NEW f \in Executions, f.task = e.task,
             MoveExec(e, f) \/ EndExec(e), Len(tasks') = Len(tasks)
      PROVE  exec' \subseteq Executions /\ \A x \in exec' : x.task \in 1 .. Len(tasks')
  BY <1>a, <1>b, <1>d, ExecTyped DEF MoveExec, EndExec
<1>l. lost' \subseteq sent'
  BY DEF RunStep, CheckCancelled, RunActivity, CompleteTask, FailTask, TryFailWorkflow,
         AnnounceFailure, TypeOK
<1>1. CASE CheckCancelled(e)
  <2>1. \E f \in Executions : f.task = e.task /\ MoveExec(e, f)
    <3>1. MoveExec(e, [e EXCEPT !.pc = "fail", !.out = "cancelled"]) \/ MoveExec(e, [e EXCEPT !.pc = "run"])
      BY <1>1 DEF CheckCancelled
    <3>2. [e EXCEPT !.pc = "run"] \in Executions /\ [e EXCEPT !.pc = "run"].task = e.task
      BY <1>a, <1>c, ExecMoved, Zenon
    <3>3. /\ [e EXCEPT !.pc = "fail", !.out = "cancelled"] \in Executions
          /\ [e EXCEPT !.pc = "fail", !.out = "cancelled"].task = e.task
      BY <1>a, <1>c, OutTypes
    <3> QED
      BY <3>1, <3>2, <3>3, Zenon
  <2>2. UNCHANGED <<wf, saved, session, tasks, signals, call, reaping, sent, unread, ends, dropped>>
    BY <1>1 DEF CheckCancelled
  <2>3. exec' \subseteq Executions /\ \A x \in exec' : x.task \in 1 .. Len(tasks')
    BY <1>d, <2>1, <2>2
  <2> QED
    BY <1>l, <2>2, <2>3 DEF TypeOK, RefInv, Ids
<1>2. CASE RunActivity(e)
  <2>1. /\ \E f \in Executions : f.task = e.task /\ MoveExec(e, f)
        /\ session' \in {"idle", "active", "waiting"}
        /\ ends' = ends \/ ends' = [ends EXCEPT ![e.task] = @ + 1]
        /\ UNCHANGED <<wf, saved, tasks, signals, call, reaping, sent, unread, dropped>>
    BY <1>2, ActivityMoves DEF Goes
  <2>2. exec' \subseteq Executions /\ \A x \in exec' : x.task \in 1 .. Len(tasks')
    BY <1>d, <2>1
  <2>3. ends' \in [TaskIds -> Nat]
    BY <1>a, <2>1 DEF TypeOK
  <2> QED
    BY <1>l, <2>1, <2>2, <2>3 DEF TypeOK, RefInv, Ids
<1>3. CASE CompleteTask(e)
  <2>1. /\ tasks' \in Seq(Rows) /\ Len(tasks') = Len(tasks)
        /\ unread' \subseteq sent
        /\ UNCHANGED <<wf, saved, session, signals, call, reaping, sent, ends, dropped>>
    BY <1>3, <1>a, EndedRows DEF CompleteTask, Rewrites, TypeOK
  <2>2. \E f \in Executions : f.task = e.task /\ (MoveExec(e, f) \/ EndExec(e))
    BY <1>3, <1>a, <1>c, ExecEnds DEF CompleteTask
  <2>3. exec' \subseteq Executions /\ \A x \in exec' : x.task \in 1 .. Len(tasks')
    BY <1>d, <2>1, <2>2
  <2> QED
    BY <1>l, <2>1, <2>3 DEF TypeOK, RefInv, Ids
<1>4. CASE FailTask(e)
  <2>1. /\ tasks' \in Seq(Rows) /\ Len(tasks') = Len(tasks)
        /\ UNCHANGED <<wf, saved, session, signals, call, reaping, sent, unread, ends, dropped>>
    BY <1>4, <1>a, EndedRows, RequeuedRows DEF FailTask, Rewrites, TypeOK
  <2>2. \E f \in Executions : f.task = e.task /\ (MoveExec(e, f) \/ EndExec(e))
    BY <1>4, <1>a, <1>c, ExecEnds DEF FailTask
  <2>3. exec' \subseteq Executions /\ \A x \in exec' : x.task \in 1 .. Len(tasks')
    BY <1>d, <2>1, <2>2
  <2> QED
    BY <1>l, <2>1, <2>3 DEF TypeOK, RefInv, Ids
<1>5. CASE TryFailWorkflow(e)
  <2>1. /\ wf' \in WorkflowStatuses
        /\ UNCHANGED <<saved, session, tasks, signals, call, reaping, sent, unread, ends, dropped>>
    BY <1>5 DEF TryFailWorkflow, TypeOK, WorkflowStatuses
  <2>2. \E f \in Executions : f.task = e.task /\ (MoveExec(e, f) \/ EndExec(e))
    BY <1>5, <1>a, <1>c, ExecMoved DEF TryFailWorkflow
  <2>3. exec' \subseteq Executions /\ \A x \in exec' : x.task \in 1 .. Len(tasks')
    BY <1>d, <2>1, <2>2
  <2> QED
    BY <1>l, <2>1, <2>3 DEF TypeOK, RefInv, Ids
<1>6. CASE AnnounceFailure(e)
  <2>1. /\ EndExec(e) /\ unread' \subseteq sent
        /\ session' \in {"idle", "active", "waiting"} /\ ends' \in [TaskIds -> Nat]
        /\ UNCHANGED <<wf, saved, tasks, signals, call, reaping, sent, dropped>>
    BY <1>6, <1>a DEF AnnounceFailure, TypeOK
  <2>2. exec' \subseteq Executions /\ \A x \in exec' : x.task \in 1 .. Len(tasks')
    BY <1>a, <1>d, <2>1
  <2> QED
    BY <1>l, <2>1, <2>2 DEF TypeOK, RefInv, Ids
<1> QED
  BY <1>1, <1>2, <1>3, <1>4, <1>5, <1>6 DEF RunStep

(* The row that schedule_next_activity adds. *)
LEMMA NextRows ==
    ASSUME TypeInv, NEW e \in exec, ScheduleNext(e)
    PROVE  LET r == NewTask(e.out, e.task, tasks[e.task].turn, NextIteration(e.task, e.out))
           IN  IF e.out \in {"reason", "act"}
               THEN /\ Adds(r) /\ r.status = "pending" /\ r.parent = e.task /\ r.attempt = 0
                    /\ wf' = wf /\ saved' = saved
               ELSE /\ tasks' = tasks /\ wf' = "completed"
                    /\ saved' \in Results /\ saved'.turn \in TaskIds
<1> DEFINE n == NextIteration(e.task, e.out)
<1>1. tasks[e.task] \in Rows /\ e.task \in TaskIds /\ MaxTasks \in Nat
  BY RowTypes DEF TypeInv, RefInv
<1>2. tasks[e.task].turn \in TaskIds /\ n \in Nat /\ e.task \in 0..MaxTasks
  BY <1>1 DEF Rows, NextIteration, TaskIds
<1>3. CASE e.out \in {"reason", "act"}
  <2>1. e.out \in Kinds
    BY <1>3 DEF Kinds
  <2> DEFINE r == NewTask(e.out, e.task, tasks[e.task].turn, n)
  <2>2. r \in Rows /\ r.status = "pending" /\ r.parent = e.task /\ r.attempt = 0
    <3> HIDE DEF n
    <3> QED
      BY <1>2, <2>1, NewRows
  <2>3. Enqueue(r) /\ wf' = wf /\ saved' = saved
    BY <1>3 DEF ScheduleNext
  <2>4. Adds(r)
    <3> HIDE DEF r
    <3> QED
      BY <2>2, <2>3, RowAdded DEF TypeInv
  <2> QED
    BY <1>3, <2>2, <2>3, <2>4
<1>4. CASE e.out \notin {"reason", "act"}
  <2>1. wf' = "completed" /\ saved' = Checkpoint(tasks[e.task].turn, n) /\ tasks' = tasks
    BY <1>4 DEF ScheduleNext
  <2> HIDE DEF n
  <2>2. saved' \in Results /\ saved'.turn \in TaskIds
    BY <1>1, <1>2, <2>1 DEF Checkpoint, Results, TaskIds
  <2> QED
    BY <1>4, <2>1, <2>2
<1> QED
  BY <1>3, <1>4

LEMMA ScheduleTypes ==
    ASSUME TypeInv, NEW e \in exec, ScheduleStep(e) \/ LoseExecution(e)
    PROVE  TypeInv'
<1> USE DEF TypeInv
<1>a. e \in Executions /\ e.task \in Ids /\ e.task \in TaskIds
  BY RowTypes DEF TypeOK, RefInv
<1>b. Len(tasks) \in Nat /\ Len(tasks) <= MaxTasks /\ MaxTasks \in Nat
  BY RowTypes
<1>d. ASSUME NEW f \in Executions, f.task = e.task,
             MoveExec(e, f) \/ EndExec(e), Len(tasks') \in Nat, Len(tasks') >= Len(tasks)
      PROVE  exec' \subseteq Executions /\ \A x \in exec' : x.task \in 1 .. Len(tasks')
  BY <1>a, <1>b, <1>d, ExecTyped DEF MoveExec, EndExec
<1>l. lost' \subseteq sent'
  BY DEF ScheduleStep, DrainWakes, PerformEffects, ScheduleNext, LoseExecution, Drop, TypeOK
<1>1. CASE DrainWakes(e)
  <2>1. \E plan \in Plans : MoveExec(e, [e EXCEPT !.pc = "effects", !.out = plan])
    BY <1>1, PlanTypes DEF DrainWakes
  <2>2. "effects" \in Pcs /\ Plans \subseteq Outs
    BY OutTypes DEF Pcs, AfterEnd
  <2>3. \E f \in Executions : f.task = e.task /\ MoveExec(e, f)
    <3>1. PICK plan \in Plans : MoveExec(e, [e EXCEPT !.pc = "effects", !.out = plan])
      BY <2>1
    <3>2. /\ [e EXCEPT !.pc = "effects", !.out = plan] \in Executions
          /\ [e EXCEPT !.pc = "effects", !.out = plan].task = e.task
      BY <1>a, <2>2, OutTypes
    <3> QED
      BY <3>1, <3>2, Zenon
  <2>4. signals' \in Nat
    BY <1>1 DEF DrainWakes, TypeOK
  <2>5. /\ unread' \subseteq sent
        /\ UNCHANGED <<wf, saved, session, tasks, call, reaping, sent, ends, dropped>>
    BY <1>1 DEF DrainWakes, TypeOK
  <2>6. exec' \subseteq Executions /\ \A x \in exec' : x.task \in 1 .. Len(tasks')
    BY <1>b, <1>d, <2>3, <2>5
  <2> QED
    BY <1>l, <2>4, <2>5, <2>6 DEF TypeOK, RefInv, Ids
<1>2. CASE PerformEffects(e)
  <2>1. "schedule" \in Pcs
    BY DEF Pcs, AfterEnd
  <2>2. \E f \in Executions : f.task = e.task /\ MoveExec(e, f)
    BY <1>2, <1>a, <2>1, ExecMoved, OutTypes DEF PerformEffects
  <2>3. /\ session' \in {"idle", "active", "waiting"} /\ ends' \in [TaskIds -> Nat]
        /\ UNCHANGED <<wf, saved, tasks, signals, call, reaping, sent, unread, dropped>>
    BY <1>2, <1>a DEF PerformEffects, TypeOK
  <2>4. exec' \subseteq Executions /\ \A x \in exec' : x.task \in 1 .. Len(tasks')
    BY <1>b, <1>d, <2>2, <2>3
  <2> QED
    BY <1>l, <2>3, <2>4 DEF TypeOK, RefInv, Ids
<1>3. CASE ScheduleNext(e)
  <2>1. /\ tasks' \in Seq(Rows) /\ Len(tasks') \in Nat /\ Len(tasks') >= Len(tasks)
        /\ Len(tasks') <= MaxTasks /\ wf' \in WorkflowStatuses
        /\ saved' \in Results /\ (saved'.kind = "checkpoint" => saved'.turn \in TaskIds)
    BY <1>3, <1>b, NextRows DEF Adds, TypeOK, RefInv, WorkflowStatuses
  <2>2. /\ EndExec(e)
        /\ UNCHANGED <<session, signals, call, reaping, sent, unread, ends, dropped>>
    BY <1>3 DEF ScheduleNext
  <2>3. exec' \subseteq Executions /\ \A x \in exec' : x.task \in 1 .. Len(tasks')
    BY <1>a, <1>d, <2>1, <2>2
  <2> QED
    BY <1>l, <1>b, <2>1, <2>2, <2>3 DEF TypeOK, RefInv, Ids
<1>4. CASE LoseExecution(e)
  <2>1. /\ EndExec(e) /\ dropped' \in BOOLEAN
        /\ UNCHANGED <<wf, saved, session, tasks, signals, call, reaping, sent, unread, ends>>
    BY <1>4 DEF LoseExecution, Drop
  <2>2. exec' \subseteq Executions /\ \A x \in exec' : x.task \in 1 .. Len(tasks')
    BY <1>a, <1>b, <1>d, <2>1
  <2> QED
    BY <1>l, <2>1, <2>2 DEF TypeOK, RefInv, Ids
<1> QED
  BY <1>1, <1>2, <1>3, <1>4 DEF ScheduleStep

(* Claims, and what reclaim_stale_tasks and the reaper do. *)
LEMMA ReapMoves ==
    ASSUME TypeInv, NEW r \in reaping
    PROVE  /\ r \in Reaps
           /\ [r EXCEPT !.step = "reap.announce"] \in Reaps
           /\ [r EXCEPT !.step = "reap.announce"].task = r.task
           /\ [r EXCEPT !.step = "reap.announce"].step = "reap.announce"
BY DEF TypeInv, TypeOK, Reaps

LEMMA ReclaimDeadRows ==
    ASSUME TypeInv, NEW i \in Ids, NEW why \in {"exhausted", "sealed"}, ReclaimDead(i, why)
    PROVE  /\ tasks[i].status = "claimed" /\ Rewrites(i, "dead")
           /\ [task |-> i, why |-> why, step |-> "reap.status"] \in Reaps
<1>1. i \in TaskIds /\ tasks[i] \in Rows /\ tasks \in Seq(Rows) /\ i \in 1 .. Len(tasks)
  BY RowTypes DEF TypeInv, TypeOK, Ids
<1>2. \/ tasks' = [tasks EXCEPT ![i].status = "dead"]
      \/ tasks' = [tasks EXCEPT ![i].status = "dead", ![i].owner = NoWorker]
  <2>1. CASE why = "sealed"
    BY <2>1 DEF ReclaimDead
  <2>2. CASE why # "sealed"
    <3>1. tasks' = [tasks EXCEPT ![i].status = "dead", ![i].owner = @]
      BY <2>2 DEF ReclaimDead
    <3>2. [[tasks[i] EXCEPT !.status = "dead"] EXCEPT !.owner = @] = [tasks[i] EXCEPT !.status = "dead"]
      BY <1>1 DEF Rows
    <3> QED
      BY <1>1, <3>1, <3>2
  <2> QED
    BY <2>1, <2>2
<1>3. Rewrites(i, "dead")
  BY <1>2, EndedRows DEF TypeInv
<1> QED
  BY <1>1, <1>3 DEF ReclaimDead, Reaps

LEMMA HandBackRows ==
    ASSUME TypeOK, NEW w \in Workers, HandBack(w)
    PROVE  /\ Returns
           /\ \/ /\ UNCHANGED <<dropped, lost>>
                 /\ \A i \in Ids : tasks[i].status = "claimed" /\ tasks'[i].status # "claimed"
                                  => AttemptsLeft(i)
              \/ dropped' = TRUE /\ lost' = lost \cup unread
           /\ UNCHANGED <<wf, saved, session, signals, exec, call, reaping, sent, unread, ends>>
<1> DEFINE mine == {i \in WithStatus("claimed") : tasks[i].owner = w}
<1>1. ASSUME NEW i \in Ids
      PROVE  LET q == [tasks[i] EXCEPT !.status = "pending", !.owner = NoWorker]
             IN  /\ q \in Rows /\ tasks[i] \in Rows /\ q.status = "pending" /\ q.kind = tasks[i].kind
                 /\ q.parent = tasks[i].parent /\ q.iteration = tasks[i].iteration
                 /\ q.attempt = tasks[i].attempt
  BY RowTypes DEF Rows
<1>2. \A i \in Ids : tasks'[i] = IF i \in mine
                                 THEN [tasks[i] EXCEPT !.status = "pending", !.owner = NoWorker]
                                 ELSE tasks[i]
  BY DEF HandBack
<1>f. tasks' = [i \in Ids |-> tasks'[i]]
  BY DEF HandBack
<1>3. \A i \in mine : i \in Ids /\ tasks[i].status = "claimed"
  BY DEF WithStatus
<1>4. \/ dropped' = TRUE /\ lost' = lost \cup unread
      \/ UNCHANGED <<dropped, lost>> /\ \A i \in mine : AttemptsLeft(i)
  BY DEF HandBack, TypeOK
<1>5. UNCHANGED <<wf, saved, session, signals, exec, call, reaping, sent, unread, ends>>
  BY DEF HandBack
<1> HIDE DEF mine
<1>6. tasks' \in [1 .. Len(tasks) -> Rows] /\ Len(tasks) \in Nat
  <2>1. \A i \in Ids : tasks'[i] \in Rows
    BY <1>1, <1>2, Zenon
  <2> QED
    BY <1>f, <2>1, RowTypes DEF Ids
<1>7. tasks' \in Seq(Rows) /\ Len(tasks') = Len(tasks)
  BY <1>6
<1>8. Returns
  BY <1>1, <1>2, <1>3, <1>7 DEF Returns
<1>9. ASSUME NEW i \in Ids, tasks[i].status = "claimed", tasks'[i].status # "claimed"
      PROVE  i \in mine
  BY <1>2, <1>9
<1> QED
  BY <1>4, <1>5, <1>8, <1>9

LEMMA ReclaimTypes ==
    ASSUME TypeInv,
           \/ \E w \in Workers : HandBack(w) \/ \E i \in Ids : ClaimTask(w, i)
           \/ \E i \in Ids : Reclaim(i) \/ \E why \in {"exhausted", "sealed"} : ReclaimDead(i, why)
           \/ \E r \in reaping : ReapStep(r) \/ LoseReap(r)
    PROVE  TypeInv'
<1> USE DEF TypeInv
<1>b. Len(tasks) \in Nat /\ Len(tasks) <= MaxTasks /\ Ids \subseteq TaskIds
  BY RowTypes
<1>l. lost' \subseteq sent'
  <2>1. ASSUME NEW w \in Workers, HandBack(w) PROVE lost' \subseteq sent'
    BY <2>1, HandBackRows DEF TypeOK
  <2>2. ASSUME NEW w \in Workers, NEW i \in Ids, ClaimTask(w, i) PROVE lost' \subseteq sent'
    <3>1. lost' = lost /\ sent' = sent
      BY <2>2 DEF ClaimTask
    <3> QED
      BY <3>1 DEF TypeOK
  <2>3. ASSUME NEW r \in reaping, ReapStep(r) \/ LoseReap(r) PROVE lost' \subseteq sent'
    BY <2>3 DEF ReapStep, ReapStatus, ReapAnnounce, LoseReap, Drop, TypeOK
  <2> QED
    BY <2>1, <2>2, <2>3 DEF Reclaim, ReclaimDead, TypeOK
<1>1. ASSUME NEW w \in Workers, NEW i \in Ids, ClaimTask(w, i) PROVE TypeInv'
  <2> DEFINE f == [task |-> i, worker |-> w, attempt |-> tasks[i].attempt + 1,
                   pc |-> "check", out |-> "none", seen |-> {}]
  <2>1. Rewrites(i, "claimed") /\ tasks[i].attempt + 1 \in 1..MaxAttempts
    BY <1>1, ClaimRows
  <2>2. "check" \in Pcs /\ "none" \in Outs
    BY OutTypes DEF Pcs, BeforeEnd
  <2>3. f \in Executions /\ f.task = i
    BY <1>1, <1>b, <2>1, <2>2, OutTypes
  <2>4. exec' = exec \cup {f}
        /\ UNCHANGED <<wf, saved, session, signals, call, reaping, sent, unread, ends, dropped>>
    BY <1>1 DEF ClaimTask
  <2> HIDE DEF f
  <2>5. exec' \subseteq Executions /\ \A x \in exec' : x.task \in 1 .. Len(tasks')
    BY <1>1, <1>b, <2>1, <2>3, <2>4, ExecTyped DEF Rewrites
  <2> QED
    BY <1>l, <2>1, <2>4, <2>5 DEF Rewrites, TypeOK, RefInv, Ids
<1>2. ASSUME NEW i \in Ids, Reclaim(i) PROVE TypeInv'
  <2>1. /\ Rewrites(i, "pending")
        /\ UNCHANGED <<wf, saved, session, signals, exec, call, reaping, sent, unread, ends, dropped>>
    BY <1>2, RequeuedRows DEF Reclaim
  <2> QED
    BY <1>l, <2>1 DEF Rewrites, TypeOK, RefInv, Ids
<1>3. ASSUME NEW i \in Ids, NEW why \in {"exhausted", "sealed"}, ReclaimDead(i, why) PROVE TypeInv'
  <2> DEFINE r == [task |-> i, why |-> why, step |-> "reap.status"]
  <2>1. Rewrites(i, "dead") /\ r \in Reaps /\ r.task = i
    BY <1>3, ReclaimDeadRows
  <2>2. /\ reaping' = reaping \cup {r}
        /\ UNCHANGED <<wf, saved, session, signals, exec, call, sent, unread, ends, dropped>>
    BY <1>3 DEF ReclaimDead
  <2> HIDE DEF r
  <2> QED
    BY <1>l, <1>3, <2>1, <2>2 DEF Rewrites, TypeOK, RefInv, Ids
<1>4. ASSUME NEW r \in reaping, ReapStatus(r) \/ LoseReap(r) PROVE TypeInv'
  <2> DEFINE q == [r EXCEPT !.step = "reap.announce"]
  <2>1. q \in Reaps /\ q.task = r.task
    BY ReapMoves
  <2>2. /\ wf' \in WorkflowStatuses /\ dropped' \in BOOLEAN
        /\ reaping' \subseteq reaping \cup {q}
        /\ UNCHANGED <<saved, session, tasks, signals, exec, call, sent, unread, ends>>
    BY <1>4 DEF ReapStatus, LoseReap, Drop, TypeOK, WorkflowStatuses
  <2> HIDE DEF q
  <2> QED
    BY <1>l, <2>1, <2>2 DEF TypeOK, RefInv, Ids
<1>5. ASSUME NEW r \in reaping, ReapAnnounce(r) PROVE TypeInv'
  <2>1. r.task \in TaskIds
    BY <1>b DEF RefInv
  <2>2. /\ session' = "idle" /\ ends' \in [TaskIds -> Nat] /\ unread' = {}
        /\ reaping' \subseteq reaping
        /\ UNCHANGED <<wf, saved, tasks, signals, exec, call, sent, dropped>>
    BY <1>5, <2>1 DEF ReapAnnounce, TypeOK
  <2> QED
    BY <1>l, <2>2 DEF TypeOK, RefInv, Ids
<1>6. ASSUME NEW w \in Workers, HandBack(w) PROVE TypeInv'
  <2>1. /\ Returns /\ dropped' \in BOOLEAN
        /\ UNCHANGED <<wf, saved, session, signals, exec, call, reaping, sent, unread, ends>>
    BY <1>6, HandBackRows DEF TypeOK
  <2> QED
    BY <1>l, <2>1 DEF Returns, TypeOK, RefInv, Ids
<1> QED
  BY <1>1, <1>2, <1>3, <1>4, <1>5, <1>6 DEF ReapStep

LEMMA TypeInvAlways == Spec => []TypeInv
<1>1. Init => TypeInv
  <2> SUFFICES ASSUME Init PROVE TypeInv
    OBVIOUS
  <2>1. NoResult \in Results /\ Idle \in [step : Steps, from : Results] /\ Idle.step = "idle"
        /\ NoResult.kind = "none"
    BY TurnWorkflowAssumption DEF NoResult, Results, Idle, Steps
  <2>2. tasks \in Seq(Rows) /\ Len(tasks) = 0 /\ 0 <= MaxTasks
    BY TurnWorkflowAssumption DEF Init
  <2> QED
    BY <2>1, <2>2 DEF Init, TypeInv, TypeOK, RefInv, WorkflowStatuses
<1>2. TypeInv /\ [Next]_vars => TypeInv'
  <2> SUFFICES ASSUME TypeInv, [Next]_vars PROVE TypeInv'
    OBVIOUS
  <2>1. CASE UNCHANGED vars
    BY <2>1 DEF vars, TypeInv, TypeOK, RefInv, Ids
  <2> QED
    BY <2>1, CallTypes, RunTypes, ScheduleTypes, ReclaimTypes DEF Next
<1> QED
  BY <1>1, <1>2, PTL DEF Spec

(* Every reachable state is well typed: executions and the reaper never refer  *)
(* to a row that does not exist, and no retry, reclaim or resumed turn leaves  *)
(* the range of attempts or the table.                                         *)
THEOREM TurnTypeCorrect == Spec => []TypeOK
<1>1. TypeInv => TypeOK
  BY DEF TypeInv
<1> QED
  BY <1>1, TypeInvAlways, PTL

-----------------------------------------------------------------------------
(* Orphans.  What keeps a running workflow from being orphaned is narrower     *)
(* than LookedAfter: an execution or a reaper that only announces a failure    *)
(* looks after nothing, so the invariant must find somebody else.              *)

Guarding == {"drain", "effects", "schedule", "tryFail"}

Guarded == \/ \E i \in Ids : \/ tasks[i].status = "claimed"
                             \/ tasks[i].status = "pending" /\ AttemptsLeft(i)
           \/ \E e \in exec : e.pc \in Guarding
           \/ \E s \in Servers : call[s].step \in {"start.enqueue", "cancel.status"}
           \/ \E r \in reaping : r.step = "reap.status"

GuardInv == wf = "running" /\ ~dropped => Guarded

LEMMA CallEffect ==
    ASSUME TypeInv, NEW s \in Servers
    PROVE  /\ \A step : MoveCall(s, step) => /\ call'[s].step = step
                                             /\ \A t \in Servers \ {s} : call'[t] = call[t]
           /\ EndCall(s) => /\ call'[s].step = "idle"
                            /\ \A t \in Servers \ {s} : call'[t] = call[t]
BY DEF TypeInv, TypeOK, MoveCall, EndCall, Idle

(* The row that was written can be worked on, so the workflow is guarded. *)
LEMMA LiveGuards ==
    ASSUME TypeInv
    PROVE  /\ \A i \in Ids : Rewrites(i, "claimed") => Guarded'
           /\ \A i \in Ids : AttemptsLeft(i) /\ Rewrites(i, "pending") => Guarded'
           /\ \A r : r.status = "pending" /\ r.attempt = 0 /\ Adds(r) => Guarded'
<1>1. Len(tasks) \in Nat /\ 0 < MaxAttempts
  BY RowTypes, TurnWorkflowAssumption DEF TypeInv
<1>2. ASSUME NEW i \in Ids, Rewrites(i, "claimed") \/ (AttemptsLeft(i) /\ Rewrites(i, "pending"))
      PROVE  Guarded'
  BY <1>2 DEF Rewrites, Guarded, AttemptsLeft, Ids
<1>3. ASSUME NEW r, r.status = "pending", r.attempt = 0, Adds(r) PROVE Guarded'
  <2>1. Len(tasks) + 1 \in 1 .. Len(tasks')
    BY <1>1, <1>3 DEF Adds
  <2>2. tasks'[Len(tasks) + 1].status = "pending" /\ tasks'[Len(tasks) + 1].attempt < MaxAttempts
    BY <1>1, <1>3 DEF Adds
  <2> QED
    BY <2>1, <2>2 DEF Guarded, AttemptsLeft, Ids
<1> QED
  BY <1>2, <1>3

LEMMA CallsKeepGuard ==
    ASSUME TypeInv, GuardInv, NEW s \in Servers,
           \/ \E m \in Messages : SendMessage(s, m)
           \/ ResumeBegin(s) \/ CancelBegin(s)
           \/ CallStep(s) \/ CancelRunFails(s) \/ LoseCall(s)
    PROVE  GuardInv'
<1>a. dropped \in BOOLEAN
  BY DEF TypeInv, TypeOK
<1>1. ASSUME tasks' = tasks, exec' = exec, reaping' = reaping,
             wf' = wf \/ wf' # "running", dropped' = dropped,
             \A t \in Servers \ {s} : call'[t] = call[t],
             \/ call[s].step \notin {"start.enqueue", "cancel.status"}
             \/ call'[s].step \in {"start.enqueue", "cancel.status"}
             \/ wf' # "running"
      PROVE  GuardInv'
  <2>1. CASE wf' # "running" \/ dropped
    BY <1>1, <2>1 DEF GuardInv
  <2>2. CASE wf' = "running" /\ ~dropped
    <3>1. Guarded
      BY <1>1, <2>2 DEF GuardInv
    <3>2. \A t \in Servers : call[t].step \in {"start.enqueue", "cancel.status"}
                             => call'[t].step \in {"start.enqueue", "cancel.status"}
      BY <1>1, <2>2
    <3>3. Guarded'
      BY <1>1, <3>1, <3>2 DEF Guarded, AttemptsLeft, Ids
    <3> QED
      BY <3>3 DEF GuardInv
  <2> QED
    BY <1>a, <2>1, <2>2
<1>2. ASSUME NEW m \in Messages, SendMessage(s, m) PROVE GuardInv'
  BY <1>1, <1>2, CallEffect DEF SendMessage
<1>3. CASE ResumeBegin(s) \/ CancelBegin(s) \/ ResumeActivate(s) \/ ResumeReset(s)
  BY <1>1, <1>3, CallEffect DEF ResumeBegin, CancelBegin, ResumeActivate, ResumeReset
<1>4. CASE ResumeRead(s)
  <2>1. \A t \in Servers \ {s} : call'[t] = call[t]
    BY <1>4 DEF ResumeRead
  <2> QED
    BY <1>1, <1>4, <2>1 DEF ResumeRead
<1>5. CASE StartSignal(s) \/ CancelSettle(s) \/ EnqueueFails(s) \/ CancelStatus(s)
  BY <1>1, <1>5, CallEffect DEF StartSignal, CancelSettle, EnqueueFails, CancelStatus
<1>6. CASE StartClaim(s)
  <2>1. CASE /\ wf # "none" /\ ~TurnIsActive
             /\ MoveCall(s, "start.enqueue")
    BY <2>1, CallEffect DEF GuardInv, Guarded
  <2>2. CASE MoveCall(s, "start.create") \/ MoveCall(s, "start.signal")
    <3>1. UNCHANGED <<wf, tasks, dropped, exec, reaping>>
      BY <1>6, <2>2, CallEffect DEF StartClaim
    <3> QED
      BY <1>1, <1>6, <2>2, <3>1, CallEffect DEF StartClaim
  <2> QED
    BY <1>6, <2>1, <2>2 DEF StartClaim
<1>7. CASE StartEnqueue(s) \/ ResumeEnqueue(s)
  <2>1. \E r : r.status = "pending" /\ r.attempt = 0 /\ Adds(r)
    <3>1. CASE StartEnqueue(s)
      <4>1. Len(tasks) < MaxTasks /\ Len(tasks) \in Nat /\ MaxTasks \in Nat
        BY <3>1, RowTypes DEF StartEnqueue, Enqueue, TypeInv
      <4>2. Len(tasks) + 1 \in TaskIds /\ 0 \in 0..MaxTasks /\ "process_input" \in Kinds
        BY <4>1 DEF TaskIds, Kinds
      <4>3. FirstTask \in Rows /\ FirstTask.status = "pending" /\ FirstTask.attempt = 0
        BY <4>2, NewRows DEF FirstTask
      <4>4. Adds(FirstTask)
        BY <3>1, <4>3, RowAdded DEF StartEnqueue, TypeInv
      <4> QED
        BY <4>3, <4>4
    <3>2. CASE ResumeEnqueue(s)
      <4> DEFINE r == NewTask("reason", 0, call[s].from.turn, call[s].from.iteration)
      <4>1. call[s].from.turn \in TaskIds /\ call[s].from.iteration \in Nat
        BY <3>2 DEF ResumeEnqueue, TypeInv, TypeOK, RefInv, Results
      <4>2. 0 \in 0..MaxTasks /\ "reason" \in Kinds
        BY TurnWorkflowAssumption DEF Kinds
      <4>3. r \in Rows /\ r.status = "pending" /\ r.attempt = 0
        BY <4>1, <4>2, NewRows
      <4>4. Enqueue(r)
        BY <3>2 DEF ResumeEnqueue
      <4> HIDE DEF r
      <4> QED
        BY <4>3, <4>4, RowAdded DEF TypeInv
    <3> QED
      BY <1>7, <3>1, <3>2
  <2> QED
    BY <2>1, LiveGuards DEF GuardInv
<1>8. CASE StartCreate(s)
  <2>1. CASE wf = "none"
    <3>1. Enqueue(FirstTask) /\ Len(tasks) < MaxTasks /\ Len(tasks) \in Nat /\ MaxTasks \in Nat
      BY <1>8, <2>1, RowTypes DEF StartCreate, Enqueue, TypeInv
    <3>2. Len(tasks) + 1 \in TaskIds /\ 0 \in 0..MaxTasks /\ "process_input" \in Kinds
      BY <3>1 DEF TaskIds, Kinds
    <3>3. FirstTask \in Rows /\ FirstTask.status = "pending" /\ FirstTask.attempt = 0
      BY <3>2, NewRows DEF FirstTask
    <3>4. Guarded'
      BY <3>1, <3>3, RowAdded, LiveGuards DEF TypeInv
    <3> QED
      BY <3>4 DEF GuardInv
  <2>2. CASE wf # "none"
    BY <1>1, <1>8, <2>2, CallEffect DEF StartCreate
  <2> QED
    BY <2>1, <2>2
<1>9. CASE CancelTasks(s)
  BY <1>9, CallEffect DEF CancelTasks, GuardInv, Guarded
<1>10. CASE CancelRunFails(s) \/ LoseCall(s)
  <2>1. CASE call[s].step \in {"start.enqueue", "cancel.status"}
    <3>1. dropped' = TRUE
      BY <1>10, <2>1 DEF CancelRunFails, LoseCall, Drop, Vital
    <3> QED
      BY <3>1 DEF GuardInv
  <2>2. CASE call[s].step \notin {"start.enqueue", "cancel.status"}
    <3>1. CASE dropped'
      BY <3>1 DEF GuardInv
    <3>2. CASE ~dropped'
      <4>1. dropped' = dropped
        BY <1>10, <1>a, <3>2 DEF CancelRunFails, LoseCall, Drop
      <4>2. UNCHANGED <<wf, tasks, exec, reaping>> /\ \A t \in Servers \ {s} : call'[t] = call[t]
        BY <1>10, CallEffect DEF CancelRunFails, LoseCall
      <4> QED
        BY <1>1, <2>2, <4>1, <4>2
    <3> QED
      BY <3>1, <3>2
  <2> QED
    BY <2>1, <2>2
<1> QED
  BY <1>2, <1>3, <1>4, <1>5, <1>6, <1>7, <1>8, <1>9, <1>10
     DEF CallStep, StartStep, ResumeStep, CancelStep

LEMMA OthersKeepGuard ==
    ASSUME TypeInv, GuardInv, [Next]_vars,
           ~\E s \in Servers : \/ \E m \in Messages : SendMessage(s, m)
                               \/ ResumeBegin(s) \/ CancelBegin(s)
                               \/ CallStep(s) \/ CancelRunFails(s) \/ LoseCall(s)
    PROVE  GuardInv'
<1>a. dropped \in BOOLEAN
  BY DEF TypeInv, TypeOK
<1>b. \A e \in exec : e \in Executions /\ e.task \in Ids
  BY DEF TypeInv, TypeOK, RefInv
<1>1. ASSUME \/ tasks' = tasks
             \/ Guarded',
             call' = call, dropped' = dropped, wf' = wf \/ wf' # "running",
             \A r \in reaping : r.step = "reap.status" => r \in reaping' \/ wf' # "running",
             \/ \A e \in exec : e.pc \in Guarding => e \in exec'
             \/ \E e \in exec' : e.pc \in Guarding
             \/ wf' # "running"
      PROVE  GuardInv'
  BY <1>1, <1>a DEF GuardInv, Guarded, AttemptsLeft, Ids
<1>2. ASSUME NEW w \in Workers, NEW i \in Ids, ClaimTask(w, i) PROVE GuardInv'
  BY <1>2, ClaimRows, LiveGuards DEF GuardInv, TypeInv
<1>3. ASSUME NEW i \in Ids, Reclaim(i) PROVE GuardInv'
  BY <1>3, RequeuedRows, LiveGuards DEF Reclaim, GuardInv, TypeInv
<1>4. ASSUME NEW i \in Ids, NEW why \in {"exhausted", "sealed"}, ReclaimDead(i, why) PROVE GuardInv'
  <2>1. \E r \in reaping' : r.step = "reap.status"
    <3>1. [task |-> i, why |-> why, step |-> "reap.status"] \in reaping'
      BY <1>4 DEF ReclaimDead
    <3>2. [task |-> i, why |-> why, step |-> "reap.status"].step = "reap.status"
      OBVIOUS
    <3> QED
      BY <3>1, <3>2, Zenon
  <2> QED
    BY <2>1 DEF GuardInv, Guarded
<1>5. ASSUME NEW r \in reaping, ReapStatus(r) PROVE GuardInv'
  <2>1. /\ UNCHANGED <<tasks, call, dropped, exec>> /\ wf' # "running"
    BY <1>5 DEF ReapStatus
  <2> QED
    BY <2>1 DEF GuardInv
<1>6. ASSUME NEW r \in reaping, ReapAnnounce(r) PROVE GuardInv'
  BY <1>1, <1>6 DEF ReapAnnounce
<1>7. ASSUME NEW r \in reaping, LoseReap(r) PROVE GuardInv'
  <2>1. CASE r.step = "reap.status"
    BY <1>7, <2>1 DEF LoseReap, Drop, Vital, GuardInv
  <2>2. CASE r.step # "reap.status"
    <3>1. reaping' = reaping \ {r} /\ UNCHANGED <<wf, tasks, exec, call>>
      BY <1>7, <2>2 DEF LoseReap
    <3>2. dropped' = dropped \/ dropped' = TRUE
      BY <1>7, <1>a DEF LoseReap, Drop
    <3> QED
      BY <1>1, <2>2, <3>1, <3>2 DEF GuardInv
  <2> QED
    BY <2>1, <2>2
<1>8. ASSUME NEW e \in exec, CheckCancelled(e) \/ RunActivity(e) \/ AnnounceFailure(e) PROVE GuardInv'
  <2>1. /\ e.pc \in {"check", "run", "announce"} /\ exec \ {e} \subseteq exec'
        /\ UNCHANGED <<wf, tasks, call, reaping, dropped>>
    BY <1>8 DEF CheckCancelled, RunActivity, AnnounceFailure, MoveExec, EndExec
  <2>2. \A f \in exec : f.pc \in Guarding => f \in exec'
    BY <2>1 DEF Guarding
  <2> QED
    BY <1>1, <2>1, <2>2
<1>9. ASSUME NEW e \in exec, CompleteTask(e) PROVE GuardInv'
  <2>1. CASE Owns(e)
    <3>1. \E f \in exec' : f.pc = "drain"
      <4>1. [e EXCEPT !.pc = "drain", !.seen = {}].pc = "drain"
        BY <1>b DEF Executions
      <4>2. [e EXCEPT !.pc = "drain", !.seen = {}] \in exec'
        BY <1>9, <2>1 DEF CompleteTask, MoveExec
      <4> QED
        BY <4>1, <4>2
    <3> QED
      BY <3>1 DEF GuardInv, Guarded, Guarding
  <2>2. CASE ~Owns(e)
    <3>1. /\ e.pc = "complete" /\ exec \ {e} \subseteq exec'
          /\ UNCHANGED <<wf, tasks, call, reaping, dropped>>
      BY <1>9, <2>2 DEF CompleteTask, EndExec
    <3>2. \A f \in exec : f.pc \in Guarding => f \in exec'
      BY <3>1 DEF Guarding
    <3> QED
      BY <1>1, <3>1, <3>2
  <2> QED
    BY <2>1, <2>2
<1>10. ASSUME NEW e \in exec, FailTask(e) PROVE GuardInv'
  <2>1. CASE tasks' = tasks /\ EndExec(e)
    <3>1. /\ e.pc = "fail" /\ exec \ {e} \subseteq exec'
          /\ UNCHANGED <<wf, call, reaping, dropped>>
      BY <1>10, <2>1 DEF FailTask, EndExec
    <3>2. \A f \in exec : f.pc \in Guarding => f \in exec'
      BY <3>1 DEF Guarding
    <3> QED
      BY <1>1, <2>1, <3>1, <3>2
  <2>2. CASE /\ AttemptsLeft(e.task)
             /\ tasks' = [tasks EXCEPT ![e.task].status = "pending", ![e.task].owner = NoWorker]
    BY <1>b, <2>2, RequeuedRows, LiveGuards DEF GuardInv, TypeInv
  <2>3. CASE MoveExec(e, [e EXCEPT !.pc = "tryFail", !.seen = {}])
    <3>1. [e EXCEPT !.pc = "tryFail", !.seen = {}].pc = "tryFail"
      BY <1>b DEF Executions
    <3>2. [e EXCEPT !.pc = "tryFail", !.seen = {}] \in exec'
      BY <2>3 DEF MoveExec
    <3> QED
      BY <3>1, <3>2 DEF GuardInv, Guarded, Guarding
  <2> QED
    BY <1>10, <2>1, <2>2, <2>3 DEF FailTask
<1>11. ASSUME NEW e \in exec, TryFailWorkflow(e) PROVE GuardInv'
  BY <1>11 DEF TryFailWorkflow, GuardInv
<1>12. ASSUME NEW e \in exec, DrainWakes(e) PROVE GuardInv'
  <2>1. PICK plan : MoveExec(e, [e EXCEPT !.pc = "effects", !.out = plan])
    BY <1>12 DEF DrainWakes
  <2>2. [e EXCEPT !.pc = "effects", !.out = plan].pc = "effects"
    BY <1>b DEF Executions
  <2>3. [e EXCEPT !.pc = "effects", !.out = plan] \in exec'
    BY <2>1 DEF MoveExec
  <2> QED
    BY <2>2, <2>3 DEF GuardInv, Guarded, Guarding
<1>13. ASSUME NEW e \in exec, PerformEffects(e) PROVE GuardInv'
  <2>1. [e EXCEPT !.pc = "schedule"].pc = "schedule"
    BY <1>b DEF Executions
  <2>2. [e EXCEPT !.pc = "schedule"] \in exec'
    BY <1>13 DEF PerformEffects, MoveExec
  <2> QED
    BY <2>1, <2>2 DEF GuardInv, Guarded, Guarding
<1>14. ASSUME NEW e \in exec, ScheduleNext(e) PROVE GuardInv'
  <2>1. (\E r : r.status = "pending" /\ r.attempt = 0 /\ Adds(r)) \/ wf' = "completed"
    BY <1>14, NextRows
  <2> QED
    BY <2>1, LiveGuards DEF GuardInv
<1>15. ASSUME NEW e \in exec, LoseExecution(e) PROVE GuardInv'
  <2>1. CASE e.pc \in Guarding
    BY <1>15, <2>1 DEF LoseExecution, Drop, Vital, Guarding, GuardInv
  <2>2. CASE e.pc \notin Guarding
    <3>1. /\ exec' = exec \ {e} /\ UNCHANGED <<wf, tasks, reaping, call>>
          /\ dropped' = dropped \/ dropped' = TRUE
      BY <1>15, <1>a DEF LoseExecution, EndExec, Drop
    <3> QED
      BY <1>1, <2>2, <3>1 DEF GuardInv
  <2> QED
    BY <2>1, <2>2
<1>16. CASE UNCHANGED vars
  BY <1>1, <1>16 DEF vars
<1>17. ASSUME NEW w \in Workers, HandBack(w) PROVE GuardInv'
  <2>1. CASE dropped' = TRUE
    BY <2>1 DEF GuardInv
  <2>2. CASE dropped' # TRUE
    <3>1. /\ Returns /\ UNCHANGED <<wf, exec, call, reaping, dropped>>
          /\ \A i \in Ids : tasks[i].status = "claimed" /\ tasks'[i].status # "claimed"
                           => AttemptsLeft(i)
      BY <1>17, <2>2, HandBackRows DEF TypeInv
    <3>2. Guarded => Guarded'
      BY <3>1 DEF Returns, Guarded, AttemptsLeft, Ids
    <3> QED
      BY <3>1, <3>2 DEF GuardInv
  <2> QED
    BY <2>1, <2>2
<1> QED
  BY <1>2, <1>3, <1>4, <1>5, <1>6, <1>7, <1>8, <1>9, <1>10, <1>11, <1>12, <1>13, <1>14, <1>15,
     <1>16, <1>17 DEF Next, RunStep, ScheduleStep, ReapStep

(* A running workflow is orphaned only by a process lost at one of the vital   *)
(* steps of unified_worker.rs, durable_runner.rs and the reaper, or by a       *)
(* hand-back on the last attempt: however many replicas, workers, reclaims,    *)
(* cancels and resumed turns interleave, nothing else leaves it with nobody to *)
(* continue or end it.                                                         *)
THEOREM OrphansNeedADrop == Spec => []OrphanedOnlyByDrop
<1>1. Init => GuardInv
  BY DEF Init, GuardInv
<1>2. TypeInv /\ GuardInv /\ [Next]_vars => GuardInv'
  BY CallsKeepGuard, OthersKeepGuard
<1>3. GuardInv => OrphanedOnlyByDrop
  BY DEF GuardInv, Guarded, OrphanedOnlyByDrop, LookedAfter, Workable, WithStatus, Guarding, AfterEnd
<1> QED
  BY <1>1, <1>2, <1>3, TypeInvAlways, PTL DEF Spec

-----------------------------------------------------------------------------
(* One step at a time.  While clients only send messages, the right to go on   *)
(* with the turn is a token: a live task, an execution that has ended its task *)
(* and not yet said what follows, a call that has taken the turn and not yet   *)
(* enqueued, or a dead task the reaper has yet to act upon.  Nobody has it     *)
(* unless the workflow is running.                                             *)

Ending == {e \in exec : e.pc \in Guarding}
Starting == {s \in Servers : call[s].step = "start.enqueue"}
Dying == {r \in reaping : r.step = "reap.status"}

Nobody == Live = {} /\ Ending = {} /\ Starting = {} /\ Dying = {}
OneLive(i) == Live = {i} /\ Ending = {} /\ Starting = {} /\ Dying = {}
OneEnding(e) == Live = {} /\ Ending = {e} /\ Starting = {} /\ Dying = {}
OneStarting(s) == Live = {} /\ Ending = {} /\ Starting = {s} /\ Dying = {}
OneDying(r) == Live = {} /\ Ending = {} /\ Starting = {} /\ Dying = {r}

OnlyMessages == \A s \in Servers :
    call[s].step \in {"idle", "start.claim", "start.enqueue", "start.signal", "start.create"}

OneToken == \/ Nobody
            \/ /\ wf = "running"
               /\ \/ \E i : OneLive(i)
                  \/ \E e : OneEnding(e)
                  \/ \E s : OneStarting(s)
                  \/ \E r : OneDying(r)

TokenInv == OnlyMessages /\ OneToken

(* Whoever has the token is the only one. *)
LEMMA TokenHolder ==
    ASSUME OneToken
    PROVE  /\ \A i \in Live : OneLive(i) /\ wf = "running"
           /\ \A e \in Ending : OneEnding(e) /\ wf = "running"
           /\ \A s \in Starting : OneStarting(s) /\ wf = "running"
           /\ \A r \in Dying : OneDying(r) /\ wf = "running"
           /\ wf # "running" => Nobody
BY DEF OneToken, Nobody, OneLive, OneEnding, OneStarting, OneDying

(* A token that is kept where it is, or lost. *)
LEMMA TokenKept ==
    ASSUME OneToken, wf' = wf, Live' \subseteq Live, Ending' \subseteq Ending,
           Starting' \subseteq Starting, Dying' \subseteq Dying
    PROVE  OneToken'
<1>1. CASE Nobody
  <2>1. Nobody'
    BY <1>1 DEF Nobody
  <2> QED
    BY <2>1 DEF OneToken
<1>2. ASSUME NEW i, OneLive(i), wf = "running" PROVE OneToken'
  <2>1. OneLive(i)' \/ Nobody'
    BY <1>2 DEF OneLive, Nobody
  <2> QED
    BY <1>2, <2>1 DEF OneToken
<1>3. ASSUME NEW e, OneEnding(e), wf = "running" PROVE OneToken'
  <2>1. OneEnding(e)' \/ Nobody'
    BY <1>3 DEF OneEnding, Nobody
  <2> QED
    BY <1>3, <2>1 DEF OneToken
<1>4. ASSUME NEW s, OneStarting(s), wf = "running" PROVE OneToken'
  <2>1. OneStarting(s)' \/ Nobody'
    BY <1>4 DEF OneStarting, Nobody
  <2> QED
    BY <1>4, <2>1 DEF OneToken
<1>5. ASSUME NEW r, OneDying(r), wf = "running" PROVE OneToken'
  <2>1. OneDying(r)' \/ Nobody'
    BY <1>5 DEF OneDying, Nobody
  <2> QED
    BY <1>5, <2>1 DEF OneToken
<1> QED
  BY <1>1, <1>2, <1>3, <1>4, <1>5 DEF OneToken

(* The live tasks after a write to the table. *)
LEMMA LiveMoves ==
    ASSUME TypeInv
    PROVE  /\ tasks' = tasks => Live' = Live
           /\ Cancels => Live' \subseteq Live
           /\ Returns => Live' = Live
           /\ \A i \in Ids :
                 /\ Rewrites(i, "pending") \/ Rewrites(i, "claimed") => Live' = Live \cup {i}
                 /\ Rewrites(i, "completed") \/ Rewrites(i, "dead") => Live' = Live \ {i}
           /\ \A r : Adds(r) /\ r.status = "pending" => Live' = Live \cup {Len(tasks) + 1}
<1> USE DEF Live, WithStatus, Ids
<1>0. Len(tasks) \in Nat
  BY RowTypes DEF TypeInv
<1>1. tasks' = tasks => Live' = Live
  OBVIOUS
<1>2. Cancels => Live' \subseteq Live
  BY DEF Cancels
<1>6. Returns => Live' = Live
  BY DEF Returns
<1>3. ASSUME NEW i \in Ids, NEW st \in {"pending", "claimed"}, Rewrites(i, st) PROVE Live' = Live \cup {i}
  BY <1>3 DEF Rewrites
<1>4. ASSUME NEW i \in Ids, NEW st \in {"completed", "dead"}, Rewrites(i, st) PROVE Live' = Live \ {i}
  BY <1>4 DEF Rewrites
<1>5. ASSUME NEW r, Adds(r), r.status = "pending" PROVE Live' = Live \cup {Len(tasks) + 1}
  <2>1. 1 .. Len(tasks') = (1 .. Len(tasks)) \cup {Len(tasks) + 1} /\ Len(tasks) + 1 \notin 1 .. Len(tasks)
    BY <1>0, <1>5 DEF Adds
  <2>2. tasks'[Len(tasks) + 1].status = "pending" /\ \A j \in 1 .. Len(tasks) : tasks'[j] = tasks[j]
    BY <1>5 DEF Adds
  <2> QED
    BY <2>1, <2>2
<1> QED
  BY <1>1, <1>2, <1>3, <1>4, <1>5, <1>6

(* The executions with the token after one moved on. *)
LEMMA EndingMoves ==
    ASSUME NEW e \in exec
    PROVE  /\ EndExec(e) => Ending' = Ending \ {e}
           /\ \A f : MoveExec(e, f) => Ending' = IF f.pc \in Guarding THEN (Ending \ {e}) \cup {f}
                                                                     ELSE Ending \ {e}
BY DEF Ending, EndExec, MoveExec

(* The task a call starts a turn with. *)
LEMMA FirstRow ==
    ASSUME TypeInv, Enqueue(FirstTask)
    PROVE  Adds(FirstTask) /\ FirstTask.status = "pending" /\ FirstTask.parent = 0
<1>1. Len(tasks) < MaxTasks /\ Len(tasks) \in Nat /\ MaxTasks \in Nat
  BY RowTypes DEF Enqueue, TypeInv
<1>2. Len(tasks) + 1 \in TaskIds /\ 0 \in 0..MaxTasks /\ "process_input" \in Kinds
  BY <1>1 DEF TaskIds, Kinds
<1>3. FirstTask \in Rows /\ FirstTask.status = "pending" /\ FirstTask.parent = 0
  BY <1>2, NewRows DEF FirstTask
<1> QED
  BY <1>3, RowAdded DEF TypeInv

LEMMA CallsKeepToken ==
    ASSUME TypeInv, TokenInv, Commands \subseteq {"message"}, NEW s \in Servers,
           \/ \E m \in Messages : SendMessage(s, m)
           \/ ResumeBegin(s) \/ CancelBegin(s)
           \/ CallStep(s) \/ CancelRunFails(s) \/ LoseCall(s)
    PROVE  TokenInv'
<1> USE DEF TokenInv
<1>a. call[s].step \in {"idle", "start.claim", "start.enqueue", "start.signal", "start.create"}
  BY DEF OnlyMessages
<1>b. ASSUME NEW st \in {"idle", "start.claim", "start.enqueue", "start.signal", "start.create"},
             call'[s].step = st, \A t \in Servers \ {s} : call'[t] = call[t]
      PROVE  /\ OnlyMessages'
             /\ Starting' = IF st = "start.enqueue" THEN Starting \cup {s} ELSE Starting \ {s}
  BY <1>b DEF OnlyMessages, Starting
<1>1. ASSUME wf' = wf, tasks' = tasks, exec' = exec, reaping' = reaping, OnlyMessages',
             Starting' \subseteq Starting
      PROVE  TokenInv'
  BY <1>1, TokenKept, LiveMoves DEF Ending, Dying
<1>2. ASSUME NEW m \in Messages, SendMessage(s, m) PROVE TokenInv'
  <2>1. OnlyMessages' /\ Starting' = Starting \ {s}
    BY <1>2, <1>b, CallEffect DEF SendMessage
  <2> QED
    BY <1>1, <1>2, <2>1 DEF SendMessage
<1>3. ASSUME StartSignal(s) \/ LoseCall(s) PROVE TokenInv'
  <2>1. OnlyMessages' /\ Starting' = Starting \ {s}
    BY <1>3, <1>b, CallEffect DEF StartSignal, LoseCall
  <2> QED
    BY <1>1, <1>3, <2>1 DEF StartSignal, LoseCall
<1>4. CASE StartClaim(s)
  <2>1. CASE MoveCall(s, "start.create") \/ MoveCall(s, "start.signal")
    <3>1. OnlyMessages' /\ Starting' = Starting \ {s}
      BY <1>b, <2>1, CallEffect
    <3>2. UNCHANGED <<wf, tasks, exec, reaping>>
      BY <1>4, <2>1, CallEffect DEF StartClaim
    <3> QED
      BY <1>1, <3>1, <3>2
  <2>2. CASE ~TurnIsActive /\ MoveCall(s, "start.enqueue") /\ wf' = "running" /\ CancelPending
    <3>1. OnlyMessages' /\ Starting' = Starting \cup {s}
      BY <1>b, <2>2, CallEffect
    <3>2. Nobody
      BY <2>2, TokenHolder DEF TurnIsActive
    <3>3. Live' \subseteq Live /\ Ending' = Ending /\ Dying' = Dying
      BY <1>4, <2>2, RowsCancelled, LiveMoves DEF StartClaim, Ending, Dying, TypeInv
    <3>4. OneStarting(s)'
      BY <3>1, <3>2, <3>3 DEF Nobody, OneStarting
    <3> QED
      BY <2>2, <3>1, <3>4 DEF OneToken
  <2> QED
    BY <1>4, <2>1, <2>2 DEF StartClaim
<1>5. CASE StartEnqueue(s)
  <2>1. OnlyMessages' /\ Starting' = Starting \ {s}
    BY <1>5, <1>b, CallEffect DEF StartEnqueue
  <2>2. OneStarting(s) /\ wf = "running"
    BY <1>5, TokenHolder DEF StartEnqueue, Starting
  <2>3. Live' = Live \cup {Len(tasks) + 1} /\ Ending' = Ending /\ Dying' = Dying /\ wf' = wf
    BY <1>5, FirstRow, LiveMoves DEF StartEnqueue, Ending, Dying
  <2>4. \E i : Live' = {i} /\ Ending' = {} /\ Starting' = {} /\ Dying' = {}
    BY <2>1, <2>2, <2>3 DEF OneStarting
  <2> QED
    BY <2>1, <2>2, <2>3, <2>4 DEF OneToken, OneLive
<1>6. CASE StartCreate(s)
  <2>1. OnlyMessages' /\ Starting' = Starting \ {s}
    BY <1>6, <1>b, CallEffect DEF StartCreate
  <2>2. CASE wf = "none"
    <3>1. Nobody
      BY <2>2, TokenHolder
    <3>2. Live' = Live \cup {Len(tasks) + 1} /\ Ending' = Ending /\ Dying' = Dying /\ wf' = "running"
      BY <1>6, <2>2, FirstRow, LiveMoves DEF StartCreate, Ending, Dying
    <3>3. \E i : Live' = {i} /\ Ending' = {} /\ Starting' = {} /\ Dying' = {}
      BY <2>1, <3>1, <3>2 DEF Nobody
    <3> QED
      BY <2>1, <3>2, <3>3 DEF OneToken, OneLive
  <2>3. CASE wf # "none"
    BY <1>1, <1>6, <2>1, <2>3 DEF StartCreate
  <2> QED
    BY <2>2, <2>3
<1>7. CASE EnqueueFails(s)
  <2>1. OnlyMessages' /\ Starting' = Starting \ {s}
    BY <1>7, <1>b, CallEffect DEF EnqueueFails
  <2>2. OneStarting(s)
    BY <1>7, <1>a, TokenHolder DEF EnqueueFails, Starting
  <2>3. Live' = Live /\ Ending' = Ending /\ Dying' = Dying
    BY <1>7, LiveMoves DEF EnqueueFails, Ending, Dying
  <2> QED
    BY <2>1, <2>2, <2>3 DEF OneStarting, OneToken, Nobody
<1> QED
  BY <1>2, <1>3, <1>4, <1>5, <1>6, <1>7, <1>a
     DEF CallStep, StartStep, ResumeStep, CancelStep, ResumeBegin, CancelBegin, ResumeActivate,
         ResumeRead, ResumeReset, ResumeEnqueue, CancelTasks, CancelStatus, CancelSettle, CancelRunFails

LEMMA OthersKeepToken ==
    ASSUME TypeInv, TokenInv, [Next]_vars,
           ~\E s \in Servers : \/ \E m \in Messages : SendMessage(s, m)
                               \/ ResumeBegin(s) \/ CancelBegin(s)
                               \/ CallStep(s) \/ CancelRunFails(s) \/ LoseCall(s)
    PROVE  TokenInv'
<1> USE DEF TokenInv
<1>a. \A e \in exec : e \in Executions /\ e.task \in Ids
  BY DEF TypeInv, TypeOK, RefInv
<1>b. call' = call => OnlyMessages' /\ Starting' = Starting
  BY DEF OnlyMessages, Starting
<1>1. ASSUME call' = call, wf' = wf, Live' \subseteq Live, Ending' \subseteq Ending, Dying' \subseteq Dying
      PROVE  TokenInv'
  BY <1>1, <1>b, TokenKept
<1>2. ASSUME call' = call, Nobody' PROVE TokenInv'
  BY <1>2, <1>b DEF OneToken
<1>3. ASSUME NEW w \in Workers, NEW i \in Ids, ClaimTask(w, i) PROVE TokenInv'
  <2> DEFINE f == [task |-> i, worker |-> w, attempt |-> tasks[i].attempt + 1,
                   pc |-> "check", out |-> "none", seen |-> {}]
  <2>1. Rewrites(i, "claimed") /\ i \in Live
    BY <1>3, ClaimRows DEF TypeInv, Live, WithStatus
  <2>2. Live' = Live
    BY <2>1, LiveMoves
  <2>3. exec' = exec \cup {f} /\ f.pc = "check" /\ UNCHANGED <<call, wf, reaping>>
    BY <1>3 DEF ClaimTask
  <2> HIDE DEF f
  <2>4. Ending' = Ending /\ Dying' = Dying
    BY <2>3 DEF Ending, Dying, Guarding
  <2> QED
    BY <1>1, <2>2, <2>3, <2>4
<1>4. ASSUME NEW i \in Ids, Reclaim(i) PROVE TokenInv'
  <2>1. Rewrites(i, "pending") /\ i \in Live /\ UNCHANGED <<call, wf, exec, reaping>>
    BY <1>4, RequeuedRows DEF Reclaim, TypeInv, Live, WithStatus
  <2>2. Live' = Live
    BY <2>1, LiveMoves
  <2> QED
    BY <1>1, <2>1, <2>2 DEF Ending, Dying
<1>5. ASSUME NEW i \in Ids, NEW why \in {"exhausted", "sealed"}, ReclaimDead(i, why) PROVE TokenInv'
  <2> DEFINE r == [task |-> i, why |-> why, step |-> "reap.status"]
  <2>1. Rewrites(i, "dead") /\ i \in Live
    BY <1>5, ReclaimDeadRows DEF Live, WithStatus
  <2>2. reaping' = reaping \cup {r} /\ r.step = "reap.status" /\ UNCHANGED <<call, wf, exec>>
    BY <1>5 DEF ReclaimDead
  <2> HIDE DEF r
  <2>3. Live' = Live \ {i} /\ Ending' = Ending /\ Dying' = Dying \cup {r} /\ Starting' = Starting
    BY <2>1, <2>2, LiveMoves DEF Ending, Dying, Starting
  <2>4. OneLive(i) /\ wf = "running"
    BY <2>1, TokenHolder
  <2>5. \E q : Live' = {} /\ Ending' = {} /\ Starting' = {} /\ Dying' = {q}
    BY <2>3, <2>4 DEF OneLive
  <2> QED
    BY <1>b, <2>2, <2>4, <2>5 DEF OneToken, OneDying
<1>6. ASSUME NEW r \in reaping, ReapStatus(r) PROVE TokenInv'
  <2>1. r \in Dying
    BY <1>6 DEF ReapStatus, Dying
  <2>2. OneDying(r)
    BY <2>1, TokenHolder
  <2> DEFINE q == [r EXCEPT !.step = "reap.announce"]
  <2>3. q.step = "reap.announce"
    BY ReapMoves
  <2>4. reaping' \subseteq (reaping \ {r}) \cup {q} /\ UNCHANGED <<tasks, exec, call>>
    BY <1>6 DEF ReapStatus
  <2> HIDE DEF q
  <2>5. Live' = Live /\ Ending' = Ending /\ Dying' \subseteq Dying \ {r} /\ Starting' = Starting
    BY <2>3, <2>4, LiveMoves DEF Ending, Dying, Starting
  <2> QED
    BY <1>2, <2>2, <2>4, <2>5 DEF OneDying, Nobody
<1>7. ASSUME NEW r \in reaping, ReapAnnounce(r) PROVE TokenInv'
  BY <1>1, <1>7, LiveMoves DEF ReapAnnounce, Ending, Dying
<1>8. ASSUME NEW r \in reaping, LoseReap(r) PROVE TokenInv'
  <2> DEFINE q == [r EXCEPT !.step = "reap.announce"]
  <2>1. q.step = "reap.announce"
    BY ReapMoves
  <2>2. reaping' \subseteq reaping \cup {q} /\ UNCHANGED <<wf, tasks, exec, call>>
    BY <1>8 DEF LoseReap
  <2> HIDE DEF q
  <2>3. Live' = Live /\ Ending' = Ending /\ Dying' \subseteq Dying
    BY <2>1, <2>2, LiveMoves DEF Ending, Dying
  <2> QED
    BY <1>1, <2>2, <2>3
<1>9. ASSUME NEW e \in exec, CheckCancelled(e) \/ RunActivity(e) PROVE TokenInv'
  <2>1. /\ \E f : MoveExec(e, f) /\ f.pc \notin Guarding
        /\ UNCHANGED <<wf, tasks, call, reaping>>
    <3>1. CASE CheckCancelled(e)
      <4>1. /\ [e EXCEPT !.pc = "fail", !.out = "cancelled"].pc = "fail"
            /\ [e EXCEPT !.pc = "run"].pc = "run"
        BY <1>a DEF Executions
      <4>2. \/ MoveExec(e, [e EXCEPT !.pc = "fail", !.out = "cancelled"])
            \/ MoveExec(e, [e EXCEPT !.pc = "run"])
        BY <3>1 DEF CheckCancelled
      <4>3. UNCHANGED <<wf, tasks, call, reaping>>
        BY <3>1 DEF CheckCancelled
      <4>4. "fail" \notin Guarding /\ "run" \notin Guarding
        BY DEF Guarding
      <4> QED
        BY <4>1, <4>2, <4>3, <4>4, Zenon
    <3>2. CASE RunActivity(e)
      BY <3>2, ActivityMoves DEF Goes, Guarding
    <3> QED
      BY <1>9, <3>1, <3>2
  <2>2. Live' = Live /\ Ending' \subseteq Ending /\ Dying' = Dying
    BY <2>1, EndingMoves, LiveMoves DEF Dying
  <2> QED
    BY <1>1, <2>1, <2>2
<1>10. ASSUME NEW e \in exec, AnnounceFailure(e) \/ LoseExecution(e) PROVE TokenInv'
  <2>1. EndExec(e) /\ UNCHANGED <<wf, tasks, call, reaping>>
    BY <1>10 DEF AnnounceFailure, LoseExecution
  <2>2. Live' = Live /\ Ending' \subseteq Ending /\ Dying' = Dying
    BY <2>1, EndingMoves, LiveMoves DEF Dying
  <2> QED
    BY <1>1, <2>1, <2>2
<1>11. ASSUME NEW e \in exec, NEW f, MoveExec(e, f), f.pc \in Guarding, e.pc \notin Guarding,
              e.task \in Live, Live' = Live \ {e.task}, UNCHANGED <<wf, call, reaping>>
       PROVE  TokenInv'
  <2>1. OneLive(e.task) /\ wf = "running"
    BY <1>11, TokenHolder
  <2>2. Ending' = (Ending \ {e}) \cup {f} /\ Dying' = Dying /\ Starting' = Starting
    BY <1>11, EndingMoves DEF Dying, Starting
  <2>3. \E q : Live' = {} /\ Ending' = {q} /\ Starting' = {} /\ Dying' = {}
    BY <1>11, <2>1, <2>2 DEF OneLive
  <2> QED
    BY <1>11, <1>b, <2>1, <2>3 DEF OneToken, OneEnding
<1>12. ASSUME NEW e \in exec, CompleteTask(e) PROVE TokenInv'
  <2>1. CASE Owns(e)
    <3>1. [e EXCEPT !.pc = "drain", !.seen = {}].pc \in Guarding /\ e.pc \notin Guarding
      BY <1>a, <1>12 DEF Executions, Guarding, CompleteTask
    <3>2. /\ MoveExec(e, [e EXCEPT !.pc = "drain", !.seen = {}]) /\ Rewrites(e.task, "completed")
          /\ e.task \in Live /\ UNCHANGED <<wf, call, reaping>>
      BY <1>12, <1>a, <2>1, EndedRows DEF CompleteTask, Owns, Live, WithStatus, TypeInv
    <3>3. Live' = Live \ {e.task}
      BY <1>a, <3>2, LiveMoves
    <3> QED
      BY <1>11, <3>1, <3>2, <3>3
  <2>2. CASE ~Owns(e)
    <3>1. EndExec(e) /\ UNCHANGED <<wf, tasks, call, reaping>>
      BY <1>12, <2>2 DEF CompleteTask
    <3>2. Live' = Live /\ Ending' \subseteq Ending /\ Dying' = Dying
      BY <3>1, EndingMoves, LiveMoves DEF Dying
    <3> QED
      BY <1>1, <3>1, <3>2
  <2> QED
    BY <2>1, <2>2
<1>13. ASSUME NEW e \in exec, FailTask(e) PROVE TokenInv'
  <2>1. CASE MoveExec(e, [e EXCEPT !.pc = "tryFail", !.seen = {}])
             /\ tasks[e.task].status = "claimed"
             /\ tasks' = [tasks EXCEPT ![e.task].status = "dead"]
    <3>1. [e EXCEPT !.pc = "tryFail", !.seen = {}].pc \in Guarding /\ e.pc \notin Guarding
      BY <1>a, <1>13 DEF Executions, Guarding, FailTask
    <3>2. /\ Rewrites(e.task, "dead") /\ e.task \in Live /\ UNCHANGED <<wf, call, reaping>>
      BY <1>13, <1>a, <2>1, EndedRows DEF FailTask, Live, WithStatus, TypeInv
    <3>3. Live' = Live \ {e.task}
      BY <1>a, <3>2, LiveMoves
    <3> QED
      BY <1>11, <2>1, <3>1, <3>2, <3>3
  <2>2. CASE EndExec(e) /\ \/ tasks' = tasks
                           \/ /\ tasks[e.task].status = "claimed"
                              /\ tasks' = [tasks EXCEPT ![e.task].status = "pending",
                                                        ![e.task].owner = NoWorker]
    <3>1. Live' = Live
      <4>1. CASE tasks' = tasks
        BY <4>1, LiveMoves
      <4>2. CASE /\ tasks[e.task].status = "claimed"
                 /\ tasks' = [tasks EXCEPT ![e.task].status = "pending", ![e.task].owner = NoWorker]
        <5>1. Rewrites(e.task, "pending") /\ e.task \in Live
          BY <1>a, <4>2, RequeuedRows DEF TypeInv, Live, WithStatus
        <5> QED
          BY <1>a, <5>1, LiveMoves
      <4> QED
        BY <2>2, <4>1, <4>2
    <3>2. Ending' \subseteq Ending /\ Dying' = Dying /\ UNCHANGED <<wf, call>>
      BY <1>13, <2>2, EndingMoves DEF FailTask, Dying
    <3> QED
      BY <1>1, <3>1, <3>2
  <2> QED
    BY <1>13, <2>1, <2>2 DEF FailTask
<1>14. ASSUME NEW e \in exec, TryFailWorkflow(e) PROVE TokenInv'
  <2>1. OneEnding(e)
    BY <1>14, TokenHolder DEF TryFailWorkflow, Ending, Guarding
  <2>2. [e EXCEPT !.pc = "announce"].pc \notin Guarding
    BY <1>a DEF Executions, Guarding
  <2>3. Ending' = Ending \ {e}
    BY <1>14, <2>2, EndingMoves DEF TryFailWorkflow
  <2>4. Live' = Live /\ Dying' = Dying /\ Starting' = Starting /\ call' = call
    BY <1>14, LiveMoves DEF TryFailWorkflow, Dying, Starting
  <2> QED
    BY <1>2, <2>1, <2>3, <2>4 DEF OneEnding, Nobody
<1>15. ASSUME NEW e \in exec, DrainWakes(e) \/ PerformEffects(e) PROVE TokenInv'
  <2>1. PICK f : MoveExec(e, f) /\ f.pc \in Guarding
    <3>1. CASE DrainWakes(e)
      <4>1. PICK plan : MoveExec(e, [e EXCEPT !.pc = "effects", !.out = plan])
        BY <3>1 DEF DrainWakes
      <4>2. [e EXCEPT !.pc = "effects", !.out = plan].pc \in Guarding
        BY <1>a DEF Executions, Guarding
      <4> QED
        BY <4>1, <4>2, Zenon
    <3>2. CASE PerformEffects(e)
      <4>1. [e EXCEPT !.pc = "schedule"].pc \in Guarding
        BY <1>a DEF Executions, Guarding
      <4>2. MoveExec(e, [e EXCEPT !.pc = "schedule"])
        BY <3>2 DEF PerformEffects
      <4> QED
        BY <4>1, <4>2, Zenon
    <3> QED
      BY <1>15, <3>1, <3>2
  <2>2. OneEnding(e) /\ wf = "running"
    BY <1>15, TokenHolder DEF DrainWakes, PerformEffects, Ending, Guarding
  <2>3. UNCHANGED <<wf, tasks, call, reaping>>
    BY <1>15 DEF DrainWakes, PerformEffects
  <2>4. /\ Ending' = (Ending \ {e}) \cup {f} /\ Live' = Live /\ Dying' = Dying
        /\ Starting' = Starting
    BY <2>1, <2>3, EndingMoves, LiveMoves DEF Dying, Starting
  <2>5. \E q : Live' = {} /\ Ending' = {q} /\ Starting' = {} /\ Dying' = {}
    BY <2>2, <2>4 DEF OneEnding
  <2> QED
    BY <1>b, <2>2, <2>3, <2>5 DEF OneToken, OneEnding
<1>16. ASSUME NEW e \in exec, ScheduleNext(e) PROVE TokenInv'
  <2>1. OneEnding(e) /\ wf = "running"
    BY <1>16, TokenHolder DEF ScheduleNext, Ending, Guarding
  <2>2. Ending' = Ending \ {e} /\ Dying' = Dying /\ Starting' = Starting /\ call' = call
    BY <1>16, EndingMoves DEF ScheduleNext, Dying, Starting
  <2>3. CASE e.out \in {"reason", "act"}
    <3>1. \E i : Live' = Live \cup {i} /\ wf' = wf
      BY <1>16, <2>3, NextRows, LiveMoves
    <3>2. \E i : Live' = {i} /\ Ending' = {} /\ Starting' = {} /\ Dying' = {}
      BY <2>1, <2>2, <3>1 DEF OneEnding
    <3> QED
      BY <1>b, <2>1, <2>2, <3>1, <3>2 DEF OneToken, OneLive
  <2>4. CASE e.out \notin {"reason", "act"}
    <3>1. Live' = Live
      BY <1>16, <2>4, NextRows, LiveMoves
    <3> QED
      BY <1>2, <2>1, <2>2, <3>1 DEF OneEnding, Nobody
  <2> QED
    BY <2>3, <2>4
<1>17. CASE UNCHANGED vars
  BY <1>1, <1>17, LiveMoves DEF vars, Ending, Dying
<1>18. ASSUME NEW w \in Workers, HandBack(w) PROVE TokenInv'
  <2>1. Returns /\ UNCHANGED <<wf, exec, call, reaping>>
    BY <1>18, HandBackRows DEF TypeInv
  <2> QED
    BY <1>1, <2>1, LiveMoves DEF Ending, Dying
<1> QED
  BY <1>3, <1>4, <1>5, <1>6, <1>7, <1>8, <1>9, <1>10, <1>12, <1>13, <1>14, <1>15, <1>16,
     <1>17, <1>18 DEF Next, RunStep, ScheduleStep, ReapStep

LEMMA TokenInvAlways ==
    ASSUME Commands \subseteq {"message"}
    PROVE  Spec => []TokenInv
<1>1. Init => TokenInv
  <2> SUFFICES ASSUME Init PROVE TokenInv
    OBVIOUS
  <2>1. Live = {}
    BY DEF Init, Live, WithStatus, Ids
  <2>2. Ending = {} /\ Starting = {} /\ Dying = {} /\ OnlyMessages
    BY DEF Init, Ending, Starting, Dying, OnlyMessages, Idle
  <2> QED
    BY <2>1, <2>2 DEF TokenInv, OneToken, Nobody
<1>2. TypeInv /\ TokenInv /\ [Next]_vars => TokenInv'
  BY CallsKeepToken, OthersKeepToken
<1> QED
  BY <1>1, <1>2, TypeInvAlways, PTL DEF Spec

(* However many replicas take messages at once and wherever processes are      *)
(* lost, a session has one step of one turn in flight, as long as its clients  *)
(* only send messages (try_claim_workflow_for_new_turn and                     *)
(* start_workflow_with_task against the steps of workers and reaper).          *)
THEOREM TurnsDoNotOverlap ==
    ASSUME Commands \subseteq {"message"}
    PROVE  Spec => []OneTaskAtATime
<1>1. TokenInv => OneTaskAtATime
  <2> SUFFICES ASSUME TokenInv PROVE Cardinality(InFlight) <= 1
    BY DEF OneTaskAtATime
  <2>1. InFlight \subseteq Live \cup {e.task : e \in Ending}
    BY DEF InFlight, Ending, Guarding
  <2>2. InFlight = {} \/ \E x : InFlight = {x}
    <3>1. CASE Nobody
      BY <2>1, <3>1 DEF Nobody
    <3>2. ASSUME NEW i, OneLive(i) PROVE InFlight = {} \/ InFlight = {i}
      BY <2>1, <3>2 DEF OneLive
    <3>3. ASSUME NEW e, OneEnding(e) PROVE InFlight = {} \/ InFlight = {e.task}
      BY <2>1, <3>3 DEF OneEnding
    <3>4. ASSUME Live = {}, Ending = {} PROVE InFlight = {}
      BY <2>1, <3>4
    <3> QED
      BY <3>1, <3>2, <3>3, <3>4 DEF TokenInv, OneToken, OneStarting, OneDying
  <2>3. Cardinality({}) = 0 /\ \A x : Cardinality({x}) = 1
    BY FS_EmptySet, FS_Singleton
  <2>4. CASE InFlight = {}
    BY <2>3, <2>4
  <2>5. CASE \E x : InFlight = {x}
    <3>1. PICK x : InFlight = {x}
      BY <2>5
    <3>2. Cardinality(InFlight) = 1
      BY <2>3, <3>1, Zenon
    <3> QED
      BY <3>2
  <2> QED
    BY <2>2, <2>4, <2>5
<1> QED
  BY <1>1, TokenInvAlways, PTL

-----------------------------------------------------------------------------
(* One outcome.  Whoever gets past complete_task, fail_task or the reclaim of  *)
(* a task is the only one to handle it, until it ends the turn or schedules    *)
(* the next task; a task that has neither completed nor died has no handler    *)
(* and no outcome at all.                                                      *)

Ended == {"completed", "dead"}
Handler(e) == e.pc \in AfterEnd

(* Identifiers that were not given out have no trace. *)
FreshIds ==
    /\ \A j \in Ids : tasks[j].parent \in 0 .. Len(tasks)
    /\ \A i \in TaskIds \ Ids : ends[i] = 0

Untouched ==
    \A i \in Ids : tasks[i].status \notin Ended =>
        /\ ends[i] = 0
        /\ \A e \in exec : Handler(e) => e.task # i
        /\ \A r \in reaping : r.task # i
        /\ \A j \in Ids : tasks[j].parent # i

OneHandler ==
    /\ \A e, f \in exec : Handler(e) /\ Handler(f) /\ e.task = f.task => e = f
    /\ \A r, q \in reaping : r.task = q.task => r = q
    /\ \A e \in exec, r \in reaping : Handler(e) => e.task # r.task

OneSuccessor ==
    /\ \A j, k \in Ids : tasks[j].parent = tasks[k].parent /\ tasks[j].parent # 0 => j = k
    /\ \A e \in exec, j \in Ids : Handler(e) => tasks[j].parent # e.task
    /\ \A r \in reaping, j \in Ids : tasks[j].parent # r.task

OneEnd ==
    \A i \in Ids : ends[i] # 0 =>
        /\ ends[i] = 1
        /\ \A j \in Ids : tasks[j].parent # i
        /\ \A r \in reaping : r.task # i
        /\ \A e \in exec : Handler(e) /\ e.task = i => e.pc = "schedule" /\ e.out \notin {"reason", "act"}

OutcomeInv == FreshIds /\ Untouched /\ OneHandler /\ OneSuccessor /\ OneEnd

(* Rows get no new successor, and what has ended has ended. *)
RowsGoOn ==
    /\ Len(tasks') = Len(tasks)
    /\ \A j \in Ids : /\ tasks'[j].parent = tasks[j].parent
                      /\ tasks[j].status \in Ended => tasks'[j].status \in Ended

LEMMA RowsKeepParents ==
    ASSUME TypeInv
    PROVE  /\ tasks' = tasks => RowsGoOn
           /\ Cancels \/ Returns => RowsGoOn
           /\ \A i \in Ids : \A st : Rewrites(i, st) /\ (tasks[i].status \notin Ended \/ st \in Ended)
                                    => RowsGoOn
<1>1. tasks' = tasks => RowsGoOn
  BY DEF RowsGoOn
<1>2. Cancels \/ Returns => RowsGoOn
  BY DEF RowsGoOn, Cancels, Returns, Ended
<1>3. ASSUME NEW i \in Ids, NEW st, Rewrites(i, st), tasks[i].status \notin Ended \/ st \in Ended
      PROVE  RowsGoOn
  BY <1>3 DEF RowsGoOn, Rewrites
<1> QED
  BY <1>1, <1>2, <1>3

(* Steps that hand nothing over. *)
LEMMA OutcomesKept ==
    ASSUME TypeInv, OutcomeInv, RowsGoOn, ends' = ends, reaping' \subseteq reaping,
           \A e \in exec' : Handler(e) => e \in exec
    PROVE  OutcomeInv'
<1> USE DEF OutcomeInv
<1>1. /\ Len(tasks') = Len(tasks)
      /\ \A j \in Ids : /\ tasks'[j].parent = tasks[j].parent
                        /\ tasks[j].status \in Ended => tasks'[j].status \in Ended
  BY DEF RowsGoOn
<1>2. Ids' = Ids
  BY <1>1 DEF Ids
<1>3. FreshIds'
  BY <1>1, <1>2 DEF FreshIds
<1>4. Untouched'
  BY <1>1, <1>2 DEF Untouched, Handler
<1>5. OneHandler'
  BY DEF OneHandler, Handler
<1>6. OneSuccessor'
  BY <1>1, <1>2 DEF OneSuccessor, Handler
<1>7. OneEnd'
  BY <1>1, <1>2 DEF OneEnd, Handler
<1> QED
  BY <1>3, <1>4, <1>5, <1>6, <1>7

(* A runner call adds a task that continues none. *)
LEMMA OutcomesAtStart ==
    ASSUME TypeInv, OutcomeInv, NEW r, Adds(r), r.parent = 0,
           ends' = ends, reaping' = reaping, exec' = exec
    PROVE  OutcomeInv'
<1> USE DEF OutcomeInv
<1> DEFINE n == Len(tasks) + 1
<1>1. /\ Len(tasks) \in Nat /\ n \in TaskIds \ Ids /\ Ids \subseteq TaskIds
      /\ 1 .. Len(tasks') = Ids \cup {n}
  BY RowTypes, TurnWorkflowAssumption DEF TypeInv, Adds, Ids, TaskIds
<1>2. Len(tasks') = n /\ tasks'[n].parent = 0 /\ \A j \in Ids : tasks'[j] = tasks[j]
  BY DEF Adds
<1>3. Ids' = Ids \cup {n}
  BY <1>1 DEF Ids
<1>4. ends[n] = 0 /\ n # 0
  BY <1>1 DEF FreshIds
<1>5. (\A e \in exec : e.task # n /\ e.task # 0) /\ (\A q \in reaping : q.task # n /\ q.task # 0)
  BY <1>1 DEF TypeInv, RefInv, TaskIds
<1>6. \A j \in Ids : tasks[j].parent # n
  BY <1>1 DEF FreshIds
<1>7. \A i \in Ids : i # 0 /\ i # n
  BY <1>1 DEF TaskIds
<1>8. FreshIds'
  <2>1. \A j \in Ids : tasks[j].parent \in 0 .. n
    BY <1>1 DEF FreshIds
  <2>2. 0 \in 0 .. n
    BY <1>1
  <2> HIDE DEF n
  <2> QED
    BY <1>1, <1>2, <1>3, <2>1, <2>2 DEF FreshIds
<1> HIDE DEF n
<1>9. Untouched'
  BY <1>2, <1>3, <1>4, <1>5, <1>6, <1>7 DEF Untouched, Handler
<1>10. OneHandler'
  BY DEF OneHandler, Handler
<1>11. OneSuccessor'
  BY <1>2, <1>3, <1>5 DEF OneSuccessor, Handler
<1>12. OneEnd'
  BY <1>2, <1>3, <1>4, <1>7 DEF OneEnd, Handler
<1> QED
  BY <1>8, <1>9, <1>10, <1>11, <1>12

(* A claimed task ends: its execution, or the reaper, becomes its handler. *)
LEMMA OutcomesAtEnd ==
    ASSUME TypeInv, OutcomeInv, NEW i \in Ids, NEW st \in Ended, Rewrites(i, st),
           tasks[i].status = "claimed", ends' = ends,
           \/ \E f : /\ f.task = i /\ reaping' = reaping
                     /\ \A e \in exec' : Handler(e) => e \in exec \/ e = f
           \/ \E q : q.task = i /\ exec' = exec /\ reaping' = reaping \cup {q}
    PROVE  OutcomeInv'
<1> USE DEF OutcomeInv
<1>1. Ids' = Ids /\ \A j \in Ids : /\ tasks'[j].parent = tasks[j].parent
                                   /\ j # i => tasks'[j].status = tasks[j].status
  BY DEF Rewrites, Ids
<1>2. tasks'[i].status \in Ended /\ tasks[i].status \notin Ended
  BY DEF Rewrites, Ended
<1>3. /\ ends[i] = 0
      /\ \A e \in exec : Handler(e) => e.task # i
      /\ \A r \in reaping : r.task # i
      /\ \A j \in Ids : tasks[j].parent # i
  BY <1>2 DEF Untouched
<1>4. FreshIds'
  BY <1>1 DEF FreshIds, Rewrites
<1>5. Untouched'
  BY <1>1, <1>2 DEF Untouched, Handler
<1>6. OneHandler'
  BY <1>3 DEF OneHandler, Handler
<1>7. OneSuccessor'
  BY <1>1, <1>3 DEF OneSuccessor, Handler
<1>8. OneEnd'
  BY <1>1, <1>3 DEF OneEnd, Handler
<1> QED
  BY <1>4, <1>5, <1>6, <1>7, <1>8

(* The handler of a task moves on; it may end the turn for the user if it will *)
(* not schedule another task.                                                  *)
LEMMA OutcomesByExecution ==
    ASSUME TypeInv, OutcomeInv, NEW e \in exec, Handler(e), tasks' = tasks, reaping' = reaping,
           NEW f, f.task = e.task, exec' \subseteq (exec \ {e}) \cup {f},
           \/ ends' = ends /\ ends[e.task] = 0
           \/ /\ ends' = [ends EXCEPT ![e.task] = @ + 1] /\ ends[e.task] = 0
              /\ \/ f \notin exec'
                 \/ f.pc = "schedule" /\ f.out \notin {"reason", "act"}
    PROVE  OutcomeInv'
<1> USE DEF OutcomeInv
<1>1. Ids' = Ids /\ e.task \in Ids /\ Ids \subseteq TaskIds
  BY RowTypes DEF Ids, TypeInv, RefInv
<1>2. /\ \A r \in reaping : r.task # e.task
      /\ \A g \in exec \ {e} : Handler(g) => g.task # e.task
      /\ \A j \in Ids : tasks[j].parent # e.task
      /\ tasks[e.task].status \in Ended
  BY <1>1 DEF OneHandler, OneSuccessor, Untouched
<1>3. /\ \A i \in TaskIds \ {e.task} : ends'[i] = ends[i]
      /\ ends'[e.task] \in {0, 1}
      /\ ends'[e.task] = 1 => f \notin exec' \/ (f.pc = "schedule" /\ f.out \notin {"reason", "act"})
  BY <1>1 DEF TypeInv, TypeOK
<1>4. FreshIds'
  BY <1>1, <1>3 DEF FreshIds
<1>5. Untouched'
  BY <1>1, <1>2, <1>3 DEF Untouched, Handler
<1>6. OneHandler'
  BY <1>2 DEF OneHandler, Handler
<1>7. OneSuccessor'
  BY <1>1, <1>2 DEF OneSuccessor, Handler
<1>8. OneEnd'
  <2> SUFFICES ASSUME NEW i \in Ids, ends'[i] # 0
               PROVE  /\ ends'[i] = 1
                      /\ \A j \in Ids : tasks[j].parent # i
                      /\ \A r \in reaping : r.task # i
                      /\ \A g \in exec' : Handler(g) /\ g.task = i
                                          => g.pc = "schedule" /\ g.out \notin {"reason", "act"}
    BY <1>1 DEF OneEnd, Handler
  <2>1. CASE i = e.task
    BY <1>2, <1>3, <2>1
  <2>2. CASE i # e.task
    <3>1. ends[i] # 0 /\ ends'[i] = ends[i]
      BY <1>1, <1>3, <2>2
    <3>2. \A g \in exec' : g.task = i => g \in exec
      BY <2>2
    <3> QED
      BY <3>1, <3>2 DEF OneEnd
  <2> QED
    BY <2>1, <2>2
<1> QED
  BY <1>4, <1>5, <1>6, <1>7, <1>8

(* The reaper moves on; it may end the turn and be done. *)
LEMMA OutcomesByReaper ==
    ASSUME TypeInv, OutcomeInv, NEW r \in reaping, tasks' = tasks, exec' = exec,
           \/ /\ ends' = ends
              /\ \E q : q.task = r.task /\ reaping' \subseteq (reaping \ {r}) \cup {q}
           \/ ends' = [ends EXCEPT ![r.task] = @ + 1] /\ reaping' = reaping \ {r}
    PROVE  OutcomeInv'
<1> USE DEF OutcomeInv
<1>1. Ids' = Ids /\ r.task \in Ids /\ Ids \subseteq TaskIds
  BY RowTypes DEF Ids, TypeInv, RefInv
<1>2. /\ \A q \in reaping \ {r} : q.task # r.task
      /\ \A e \in exec : Handler(e) => e.task # r.task
      /\ \A j \in Ids : tasks[j].parent # r.task
      /\ tasks[r.task].status \in Ended
      /\ ends[r.task] = 0
  BY <1>1 DEF OneHandler, OneSuccessor, Untouched, OneEnd
<1>3. CASE /\ ends' = ends
           /\ \E q : q.task = r.task /\ reaping' \subseteq (reaping \ {r}) \cup {q}
  <2>1. PICK q : q.task = r.task /\ reaping' \subseteq (reaping \ {r}) \cup {q}
    BY <1>3
  <2>2. FreshIds'
    BY <1>1, <1>3 DEF FreshIds
  <2>3. Untouched'
    BY <1>1, <1>2, <1>3, <2>1 DEF Untouched, Handler
  <2>4. OneHandler'
    BY <1>2, <2>1 DEF OneHandler, Handler
  <2>5. OneSuccessor'
    BY <1>1, <1>2, <2>1 DEF OneSuccessor, Handler
  <2>6. OneEnd'
    BY <1>1, <1>2, <1>3, <2>1 DEF OneEnd, Handler
  <2> QED
    BY <2>2, <2>3, <2>4, <2>5, <2>6
<1>4. CASE ends' = [ends EXCEPT ![r.task] = @ + 1] /\ reaping' = reaping \ {r}
  <2>1. ends'[r.task] = 1 /\ \A i \in TaskIds \ {r.task} : ends'[i] = ends[i]
    BY <1>1, <1>2, <1>4 DEF TypeInv, TypeOK
  <2>2. FreshIds'
    BY <1>1, <2>1 DEF FreshIds
  <2>3. Untouched'
    BY <1>1, <1>2, <1>4, <2>1 DEF Untouched, Handler
  <2>4. OneHandler'
    BY <1>4 DEF OneHandler, Handler
  <2>5. OneSuccessor'
    BY <1>1, <1>4 DEF OneSuccessor, Handler
  <2>6. OneEnd'
    BY <1>1, <1>2, <1>4, <2>1 DEF OneEnd, Handler
  <2> QED
    BY <2>2, <2>3, <2>4, <2>5, <2>6
<1> QED
  BY <1>3, <1>4

(* schedule_next_activity: the handler leaves the next task behind. *)
LEMMA OutcomesBySchedule ==
    ASSUME TypeInv, OutcomeInv, NEW e \in exec, ScheduleNext(e)
    PROVE  OutcomeInv'
<1> USE DEF OutcomeInv
<1>a. Handler(e) /\ exec' = exec \ {e} /\ ends' = ends /\ reaping' = reaping
  BY DEF ScheduleNext, EndExec, Handler, AfterEnd
<1>1. CASE e.out \notin {"reason", "act"}
  <2>1. tasks' = tasks
    BY <1>1, NextRows
  <2> QED
    BY <1>a, <2>1, OutcomesKept, RowsKeepParents
<1>2. CASE e.out \in {"reason", "act"}
  <2>1. PICK r : Adds(r) /\ r.parent = e.task
    BY <1>2, NextRows
  <2> DEFINE n == Len(tasks) + 1
  <2>2. /\ Len(tasks) \in Nat /\ n \in TaskIds \ Ids /\ Ids \subseteq TaskIds
        /\ 1 .. Len(tasks') = Ids \cup {n}
    BY <2>1, RowTypes, TurnWorkflowAssumption DEF TypeInv, Adds, Ids, TaskIds
  <2>3. Len(tasks') = n /\ tasks'[n].parent = e.task /\ \A j \in Ids : tasks'[j] = tasks[j]
    BY <2>1 DEF Adds
  <2>4. Ids' = Ids \cup {n}
    BY <2>2 DEF Ids
  <2>5. ends[n] = 0 /\ e.task \in Ids /\ e.task # n /\ e.task # 0
    BY <2>2 DEF FreshIds, TypeInv, RefInv, TaskIds
  <2>6. (\A g \in exec : g.task # n) /\ (\A q \in reaping : q.task # n)
    BY <2>2 DEF TypeInv, RefInv
  <2>7. \A j \in Ids : tasks[j].parent # n
    BY <2>2 DEF FreshIds
  <2>8. /\ \A q \in reaping : q.task # e.task
        /\ \A g \in exec \ {e} : Handler(g) => g.task # e.task
        /\ \A j \in Ids : tasks[j].parent # e.task
        /\ tasks[e.task].status \in Ended
        /\ ends[e.task] = 0
    BY <1>a, <1>2, <2>5 DEF OneHandler, OneSuccessor, Untouched, OneEnd
  <2>9. FreshIds'
    <3>1. (\A j \in Ids : tasks[j].parent \in 0 .. n) /\ e.task \in 0 .. n
      BY <2>2, <2>5 DEF FreshIds, Ids
    <3> HIDE DEF n
    <3> QED
      BY <1>a, <2>2, <2>3, <2>4, <3>1 DEF FreshIds
  <2> HIDE DEF n
  <2>10. Untouched'
    BY <1>a, <2>3, <2>4, <2>5, <2>6, <2>7, <2>8 DEF Untouched, Handler
  <2>11. OneHandler'
    BY <1>a DEF OneHandler, Handler
  <2>12. OneSuccessor'
    BY <1>a, <2>3, <2>4, <2>8 DEF OneSuccessor, Handler
  <2>13. OneEnd'
    BY <1>a, <2>3, <2>4, <2>5, <2>8 DEF OneEnd, Handler
  <2> QED
    BY <2>9, <2>10, <2>11, <2>12, <2>13
<1> QED
  BY <1>1, <1>2

(* The steps of the runner calls hand nothing over. *)
LEMMA CallsKeepOutcomes ==
    ASSUME TypeInv, OutcomeInv, NEW s \in Servers,
           \/ \E m \in Messages : SendMessage(s, m)
           \/ ResumeBegin(s) \/ CancelBegin(s)
           \/ CallStep(s) \/ CancelRunFails(s) \/ LoseCall(s)
    PROVE  OutcomeInv'
<1>1. ASSUME RowsGoOn, UNCHANGED <<ends, reaping, exec>> PROVE OutcomeInv'
  BY <1>1, OutcomesKept
<1>2. ASSUME UNCHANGED <<tasks, ends, reaping, exec>> PROVE OutcomeInv'
  BY <1>1, <1>2, RowsKeepParents
<1>3. ASSUME NEW m \in Messages, SendMessage(s, m) PROVE OutcomeInv'
  BY <1>2, <1>3 DEF SendMessage
<1>4. CASE ResumeBegin(s) \/ CancelBegin(s) \/ ResumeActivate(s) \/ ResumeRead(s) \/ ResumeReset(s)
  BY <1>2, <1>4 DEF ResumeBegin, CancelBegin, ResumeActivate, ResumeRead, ResumeReset
<1>5. CASE StartSignal(s) \/ CancelSettle(s) \/ EnqueueFails(s) \/ CancelStatus(s)
  BY <1>2, <1>5 DEF StartSignal, CancelSettle, EnqueueFails, CancelStatus
<1>6. CASE CancelRunFails(s) \/ LoseCall(s)
  BY <1>2, <1>6 DEF CancelRunFails, LoseCall
<1>7. CASE StartClaim(s) \/ CancelTasks(s)
  <2>1. UNCHANGED <<ends, reaping, exec>> /\ (tasks' = tasks \/ CancelPending)
    BY <1>7 DEF StartClaim, CancelTasks
  <2> QED
    BY <1>1, <2>1, RowsCancelled, RowsKeepParents DEF TypeInv
<1>8. CASE StartEnqueue(s) \/ StartCreate(s)
  <2>1. UNCHANGED <<ends, reaping, exec>> /\ (tasks' = tasks \/ Enqueue(FirstTask))
    BY <1>8 DEF StartEnqueue, StartCreate
  <2>2. CASE tasks' = tasks
    BY <1>2, <2>1, <2>2
  <2>3. CASE Enqueue(FirstTask)
    BY <2>1, <2>3, FirstRow, OutcomesAtStart
  <2> QED
    BY <2>1, <2>2, <2>3
<1>9. CASE ResumeEnqueue(s)
  <2> DEFINE r == NewTask("reason", 0, call[s].from.turn, call[s].from.iteration)
  <2>1. call[s].from.turn \in TaskIds /\ call[s].from.iteration \in Nat
    BY <1>9 DEF ResumeEnqueue, TypeInv, TypeOK, RefInv, Results
  <2>2. 0 \in 0..MaxTasks /\ "reason" \in Kinds
    BY TurnWorkflowAssumption DEF Kinds
  <2>3. r \in Rows /\ r.parent = 0
    BY <2>1, <2>2, NewRows
  <2>4. Enqueue(r) /\ UNCHANGED <<ends, reaping, exec>>
    BY <1>9 DEF ResumeEnqueue
  <2> HIDE DEF r
  <2>5. Adds(r)
    BY <2>3, <2>4, RowAdded DEF TypeInv
  <2> QED
    BY <2>3, <2>4, <2>5, OutcomesAtStart
<1> QED
  BY <1>3, <1>4, <1>5, <1>6, <1>7, <1>8, <1>9
     DEF CallStep, StartStep, ResumeStep, CancelStep

(* An execution before the end of its task. *)
LEMMA RunsKeepOutcomes ==
    ASSUME TypeInv, OutcomeInv, "blocked" \notin Reports, NEW e \in exec,
           CheckCancelled(e) \/ RunActivity(e) \/ CompleteTask(e) \/ FailTask(e)
    PROVE  OutcomeInv'
<1>a. e \in Executions /\ e.task \in Ids /\ tasks[e.task] \in Rows
  BY RowTypes DEF TypeInv, TypeOK, RefInv
<1>b. "drain" \in Pcs /\ "tryFail" \in Pcs
  BY DEF Pcs, AfterEnd
<1>1. CASE CheckCancelled(e)
  <2>1. UNCHANGED <<tasks, ends, reaping>>
    BY <1>1 DEF CheckCancelled
  <2>2. \A g \in exec' : Handler(g) => g \in exec
    <3>1. \E f : MoveExec(e, f) /\ f.pc \in {"fail", "run"}
      <4>1. /\ [e EXCEPT !.pc = "fail", !.out = "cancelled"].pc = "fail"
            /\ [e EXCEPT !.pc = "run"].pc = "run"
        BY <1>a DEF Executions
      <4> QED
        BY <1>1, <4>1 DEF CheckCancelled
    <3> QED
      BY <3>1 DEF MoveExec, Handler, AfterEnd
  <2> QED
    BY <2>1, <2>2, OutcomesKept, RowsKeepParents
<1>2. CASE RunActivity(e)
  <2>1. PICK f \in Executions : Goes(e, f) /\ f.pc \in {"complete", "fail"}
    BY <1>2, ActivityMoves
  <2>2. "blocked" \notin Outcomes[tasks[e.task].kind]
    <3>1. tasks[e.task].kind \in Kinds
      BY <1>a DEF Rows
    <3> QED
      BY <3>1 DEF Outcomes, Kinds
  <2>3. UNCHANGED <<tasks, ends, reaping>>
    BY <1>2, <2>2, ActivityMoves
  <2>4. \A g \in exec' : Handler(g) => g \in exec
    BY <2>1 DEF Goes, MoveExec, Handler, AfterEnd
  <2> QED
    BY <2>3, <2>4, OutcomesKept, RowsKeepParents
<1>3. CASE CompleteTask(e)
  <2>1. CASE Owns(e)
    <3> DEFINE f == [e EXCEPT !.pc = "drain", !.seen = {}]
    <3>1. f.task = e.task
      BY <1>a, <1>b, OutTypes
    <3>2. exec' = (exec \ {e}) \cup {f} /\ UNCHANGED <<ends, reaping>>
      BY <1>3, <2>1 DEF CompleteTask, MoveExec
    <3>3. Rewrites(e.task, "completed") /\ tasks[e.task].status = "claimed"
      BY <1>a, <1>3, <2>1, EndedRows DEF CompleteTask, Owns, TypeInv
    <3> HIDE DEF f
    <3>4. \A g \in exec' : Handler(g) => g \in exec \/ g = f
      BY <3>2
    <3>5. "completed" \in Ended
      BY DEF Ended
    <3> QED
      BY <1>a, <3>1, <3>2, <3>3, <3>4, <3>5, OutcomesAtEnd
  <2>2. CASE ~Owns(e)
    <3>1. UNCHANGED <<tasks, ends, reaping>> /\ exec' = exec \ {e}
      BY <1>3, <2>2 DEF CompleteTask, EndExec
    <3> QED
      BY <3>1, OutcomesKept, RowsKeepParents
  <2> QED
    BY <2>1, <2>2
<1>4. CASE FailTask(e)
  <2>0. UNCHANGED <<ends, reaping>>
    BY <1>4 DEF FailTask
  <2>1. CASE tasks' = tasks /\ EndExec(e)
    <3>1. exec' = exec \ {e}
      BY <2>1 DEF EndExec
    <3> QED
      BY <2>0, <2>1, <3>1, OutcomesKept, RowsKeepParents
  <2>2. CASE /\ tasks[e.task].status = "claimed" /\ EndExec(e)
             /\ tasks' = [tasks EXCEPT ![e.task].status = "pending", ![e.task].owner = NoWorker]
    <3>1. exec' = exec \ {e} /\ tasks[e.task].status \notin Ended
      BY <2>2 DEF EndExec, Ended
    <3>2. Rewrites(e.task, "pending")
      BY <1>a, <2>2, RequeuedRows DEF TypeInv
    <3> QED
      BY <1>a, <2>0, <3>1, <3>2, OutcomesKept, RowsKeepParents
  <2>3. CASE /\ tasks[e.task].status = "claimed"
             /\ tasks' = [tasks EXCEPT ![e.task].status = "dead"]
             /\ MoveExec(e, [e EXCEPT !.pc = "tryFail", !.seen = {}])
    <3> DEFINE f == [e EXCEPT !.pc = "tryFail", !.seen = {}]
    <3>1. f.task = e.task
      BY <1>a, <1>b, OutTypes
    <3>2. exec' = (exec \ {e}) \cup {f}
      BY <2>3 DEF MoveExec
    <3>3. Rewrites(e.task, "dead")
      BY <1>a, <2>3, EndedRows DEF TypeInv
    <3> HIDE DEF f
    <3>4. \A g \in exec' : Handler(g) => g \in exec \/ g = f
      BY <3>2
    <3>5. "dead" \in Ended
      BY DEF Ended
    <3> QED
      BY <1>a, <2>0, <2>3, <3>1, <3>3, <3>4, <3>5, OutcomesAtEnd
  <2> QED
    BY <1>4, <2>1, <2>2, <2>3 DEF FailTask
<1> QED
  BY <1>1, <1>2, <1>3, <1>4

(* The execution that ended its task, on its way to the outcome. *)
LEMMA HandlersKeepOutcomes ==
    ASSUME TypeInv, OutcomeInv, NEW e \in exec,
           TryFailWorkflow(e) \/ AnnounceFailure(e) \/ DrainWakes(e) \/ PerformEffects(e)
    PROVE  OutcomeInv'
<1>a. e \in Executions /\ e.task \in Ids
  BY DEF TypeInv, TypeOK, RefInv
<1>b. "announce" \in Pcs /\ "schedule" \in Pcs
  BY DEF Pcs, AfterEnd
<1>c. Handler(e) /\ ends[e.task] = 0 /\ UNCHANGED <<tasks, reaping>>
  <2>1. e.pc \in AfterEnd /\ e.pc # "schedule" /\ UNCHANGED <<tasks, reaping>>
    BY DEF TryFailWorkflow, AnnounceFailure, DrainWakes, PerformEffects, AfterEnd
  <2> QED
    BY <1>a, <2>1 DEF OutcomeInv, OneEnd, Handler
<1>1. CASE TryFailWorkflow(e)
  <2> DEFINE f == [e EXCEPT !.pc = "announce"]
  <2>1. f.task = e.task
    BY <1>a, <1>b, ExecMoved
  <2>2. exec' \subseteq (exec \ {e}) \cup {f} /\ ends' = ends
    BY <1>1 DEF TryFailWorkflow, MoveExec, EndExec
  <2> HIDE DEF f
  <2> QED
    BY <1>c, <2>1, <2>2, OutcomesByExecution
<1>2. CASE AnnounceFailure(e)
  <2>1. exec' = exec \ {e}
    BY <1>2 DEF AnnounceFailure, EndExec
  <2>2. ends' = ends \/ ends' = [ends EXCEPT ![e.task] = @ + 1]
    BY <1>2 DEF AnnounceFailure
  <2>3. exec' \subseteq (exec \ {e}) \cup {e} /\ e \notin exec'
    BY <2>1
  <2> QED
    BY <1>c, <2>2, <2>3, OutcomesByExecution
<1>3. CASE DrainWakes(e)
  <2>1. PICK plan : MoveExec(e, [e EXCEPT !.pc = "effects", !.out = plan])
    BY <1>3, Zenon DEF DrainWakes
  <2> DEFINE f == [e EXCEPT !.pc = "effects", !.out = plan]
  <2>2. f.task = e.task
    BY <1>a DEF Executions
  <2>3. exec' \subseteq (exec \ {e}) \cup {f} /\ ends' = ends
    BY <1>3, <2>1 DEF DrainWakes, MoveExec
  <2> HIDE DEF f
  <2> QED
    BY <1>c, <2>2, <2>3, OutcomesByExecution
<1>4. CASE PerformEffects(e)
  <2> DEFINE f == [e EXCEPT !.pc = "schedule"]
  <2>1. f.task = e.task /\ f.pc = "schedule" /\ f.out = e.out
    BY <1>a, <1>b, ExecMoved
  <2>2. exec' \subseteq (exec \ {e}) \cup {f}
    BY <1>4 DEF PerformEffects, MoveExec
  <2>3. \/ ends' = ends
        \/ ends' = [ends EXCEPT ![e.task] = @ + 1] /\ e.out \notin {"reason", "act"}
    BY <1>4 DEF PerformEffects
  <2> HIDE DEF f
  <2> QED
    BY <1>c, <2>1, <2>2, <2>3, OutcomesByExecution
<1> QED
  BY <1>1, <1>2, <1>3, <1>4

(* Claims, reclaims, the reaper, and executions that are lost. *)
LEMMA OthersKeepOutcomes ==
    ASSUME TypeInv, OutcomeInv,
           \/ \E w \in Workers : HandBack(w) \/ \E i \in Ids : ClaimTask(w, i)
           \/ \E e \in exec : LoseExecution(e)
           \/ \E i \in Ids : Reclaim(i) \/ \E why \in {"exhausted", "sealed"} : ReclaimDead(i, why)
           \/ \E r \in reaping : ReapStep(r) \/ LoseReap(r)
    PROVE  OutcomeInv'
<1>1. ASSUME NEW w \in Workers, NEW i \in Ids, ClaimTask(w, i) PROVE OutcomeInv'
  <2> DEFINE f == [task |-> i, worker |-> w, attempt |-> tasks[i].attempt + 1,
                   pc |-> "check", out |-> "none", seen |-> {}]
  <2>1. f.pc = "check"
    OBVIOUS
  <2>2. exec' = exec \cup {f} /\ UNCHANGED <<ends, reaping>>
    BY <1>1, Zenon DEF ClaimTask
  <2> HIDE DEF f
  <2>3. \A g \in exec' : Handler(g) => g \in exec
    BY <2>1, <2>2 DEF Handler, AfterEnd
  <2>4. RowsGoOn
    BY <1>1, ClaimRows, RowsKeepParents DEF TypeInv, Ended
  <2> QED
    BY <2>2, <2>3, <2>4, OutcomesKept
<1>2. ASSUME NEW e \in exec, LoseExecution(e) PROVE OutcomeInv'
  <2>1. UNCHANGED <<tasks, ends, reaping>> /\ exec' = exec \ {e}
    BY <1>2 DEF LoseExecution, EndExec
  <2> QED
    BY <2>1, OutcomesKept, RowsKeepParents
<1>3. ASSUME NEW i \in Ids, Reclaim(i) PROVE OutcomeInv'
  <2>1. UNCHANGED <<ends, reaping, exec>> /\ tasks[i].status \notin Ended
    BY <1>3 DEF Reclaim, Ended
  <2>2. Rewrites(i, "pending")
    BY <1>3, RequeuedRows DEF Reclaim, TypeInv
  <2> QED
    BY <2>1, <2>2, OutcomesKept, RowsKeepParents
<1>4. ASSUME NEW i \in Ids, NEW why \in {"exhausted", "sealed"}, ReclaimDead(i, why) PROVE OutcomeInv'
  <2> DEFINE q == [task |-> i, why |-> why, step |-> "reap.status"]
  <2>1. q.task = i
    OBVIOUS
  <2>2. UNCHANGED <<ends, exec>> /\ reaping' = reaping \cup {q}
    BY <1>4 DEF ReclaimDead
  <2>3. tasks[i].status = "claimed" /\ Rewrites(i, "dead") /\ "dead" \in Ended
    BY <1>4, ReclaimDeadRows DEF Ended
  <2> HIDE DEF q
  <2> QED
    BY <2>1, <2>2, <2>3, OutcomesAtEnd
<1>5. ASSUME NEW r \in reaping, ReapStatus(r) \/ LoseReap(r) PROVE OutcomeInv'
  <2> DEFINE q == [r EXCEPT !.step = "reap.announce"]
  <2>1. q.task = r.task
    BY ReapMoves
  <2>2. UNCHANGED <<tasks, exec, ends>> /\ reaping' \subseteq (reaping \ {r}) \cup {q}
    BY <1>5 DEF ReapStatus, LoseReap
  <2> HIDE DEF q
  <2> QED
    BY <2>1, <2>2, OutcomesByReaper
<1>6. ASSUME NEW r \in reaping, ReapAnnounce(r) PROVE OutcomeInv'
  BY <1>6, OutcomesByReaper DEF ReapAnnounce
<1>7. ASSUME NEW w \in Workers, HandBack(w) PROVE OutcomeInv'
  <2>1. Returns /\ UNCHANGED <<ends, reaping, exec>>
    BY <1>7, HandBackRows DEF TypeInv
  <2> QED
    BY <2>1, OutcomesKept, RowsKeepParents
<1> QED
  BY <1>1, <1>2, <1>3, <1>4, <1>5, <1>6, <1>7 DEF ReapStep

(* A step of a turn has one outcome: however often its task is reclaimed,      *)
(* executed twice, failed late or cancelled, the task is continued by one      *)
(* successor or ends the turn for the user once, and nobody else is about to.  *)
(* Without the activities that tell the user themselves that the turn is       *)
(* blocked: they do so before complete_task, so a retry tells it again.        *)
THEOREM OutcomesAreUnique ==
    ASSUME "blocked" \notin Reports
    PROVE  Spec => []OneOutcomePerTask
<1>1. Init => OutcomeInv
  BY DEF Init, OutcomeInv, FreshIds, Untouched, OneHandler, OneSuccessor, OneEnd, Ids
<1>2. TypeInv /\ OutcomeInv /\ [Next]_vars => OutcomeInv'
  <2> SUFFICES ASSUME TypeInv, OutcomeInv, [Next]_vars PROVE OutcomeInv'
    OBVIOUS
  <2>1. ASSUME NEW e \in exec, RunStep(e) \/ ScheduleStep(e) PROVE OutcomeInv'
    BY <2>1, RunsKeepOutcomes, HandlersKeepOutcomes, OutcomesBySchedule DEF RunStep, ScheduleStep
  <2>2. CASE UNCHANGED vars
    <3>1. UNCHANGED <<tasks, ends, reaping, exec>>
      BY <2>2 DEF vars
    <3> QED
      BY <3>1, OutcomesKept, RowsKeepParents
  <2>3. CASE \/ \E w \in Workers : HandBack(w) \/ \E i \in Ids : ClaimTask(w, i)
             \/ \E e \in exec : LoseExecution(e)
             \/ \E i \in Ids : Reclaim(i) \/ \E why \in {"exhausted", "sealed"} : ReclaimDead(i, why)
             \/ \E r \in reaping : ReapStep(r) \/ LoseReap(r)
    BY <2>3, OthersKeepOutcomes
  <2> QED
    BY <2>1, <2>2, <2>3, CallsKeepOutcomes DEF Next
<1>3. TypeInv /\ OutcomeInv => OneOutcomePerTask
  <2> SUFFICES ASSUME TypeInv, OutcomeInv, NEW i \in Ids
               PROVE  /\ Cardinality(Successors(i)) + ends[i] <= 1
                      /\ Handling(i) + Cardinality(Successors(i)) <= 1
    BY DEF OneOutcomePerTask
  <2> DEFINE N == Successors(i)
             E == {e \in exec : e.task = i /\ e.pc \in AfterEnd}
             R == {r \in reaping : r.task = i}
  <2>1. i # 0 /\ ends[i] \in {0, 1}
    <3>1. i \in TaskIds /\ ends[i] \in Nat
      BY RowTypes DEF TypeInv, TypeOK
    <3> QED
      BY <3>1 DEF OutcomeInv, OneEnd, TaskIds
  <2>2. ASSUME NEW S, \A x, y \in S : x = y
        PROVE  Cardinality(S) \in {0, 1} /\ (S = {} => Cardinality(S) = 0)
    <3>1. S = {} \/ \E x : S = {x}
      BY <2>2
    <3> QED
      BY <3>1, FS_EmptySet, FS_Singleton
  <2>3. (\A x, y \in N : x = y) /\ (\A x, y \in E : x = y) /\ (\A x, y \in R : x = y)
    BY <2>1 DEF OutcomeInv, OneSuccessor, OneHandler, Successors, Handler
  <2>4. /\ N = {} \/ ends[i] = 0
        /\ N = {} \/ (E = {} /\ R = {})
        /\ E = {} \/ R = {}
    BY DEF OutcomeInv, OneSuccessor, OneHandler, OneEnd, Successors, Handler
  <2>5. Handling(i) = Cardinality(E) + Cardinality(R)
    BY DEF Handling
  <2> HIDE DEF N, E, R
  <2>6. /\ Cardinality(N) \in {0, 1} /\ (N = {} => Cardinality(N) = 0)
        /\ Cardinality(E) \in {0, 1} /\ (E = {} => Cardinality(E) = 0)
        /\ Cardinality(R) \in {0, 1} /\ (R = {} => Cardinality(R) = 0)
    BY <2>2, <2>3
  <2>7. Cardinality(N) + ends[i] <= 1 /\ Handling(i) + Cardinality(N) <= 1
    BY <2>1, <2>4, <2>5, <2>6
  <2> QED
    BY <2>7 DEF N
<1> QED
  BY <1>1, <1>2, <1>3, TypeInvAlways, PTL DEF Spec

-----------------------------------------------------------------------------
(* Wakes.  While some message is unread whose wake was not lost, somebody will *)
(* still see to it: a signal that waits for the next drain, a call on its way, *)
(* a task whose turn has a reason ahead that reads everything, an execution    *)
(* that goes on to such a task or gives the turn up, or the reaper that gives  *)
(* it up.  An act does not count: by then what is unread has a signal, which   *)
(* is what makes a pause harmless that drains nothing.                         *)

Owed == unread \ lost

(* If e completes its task and the turn goes on, nothing is left unread. *)
ReadsAll(e) == e.pc = "complete" /\ e.out \in {"tools", "final"} => unread \subseteq e.seen

WillRead(i) ==
    \/ tasks[i].kind = "process_input"
    \/ tasks[i].kind = "reason" /\ \A e \in exec : e.task = i => ReadsAll(e)

Continues(e) ==
    \/ e.pc \in {"tryFail", "announce"}
    \/ e.pc = "drain" /\ tasks[e.task].kind = "process_input"
    \/ e.pc = "drain" /\ tasks[e.task].kind = "reason" /\ e.out \notin {"tools", "final"}
    \/ e.pc \in {"effects", "schedule"} /\ e.out = "reason"

(* The loser of the race to create the workflow sends no signal, so its call   *)
(* counts only as long as there is no workflow.                                *)
Calling(s) == \/ call[s].step \in {"start.claim", "start.enqueue", "start.signal"}
              \/ call[s].step = "start.create" /\ wf = "none"

Called == \E s \in Servers : Calling(s)
ToBeRead == \E i \in Workable : WillRead(i)
Continued == \E e \in exec : Continues(e)

SeenTo == signals > 0 \/ Called \/ ToBeRead \/ Continued \/ reaping # {}

(* Nothing was cancelled. *)
PlainOuts == \A e \in exec : e.out # "cancelled"

WakeInv == wf # "cancelled" /\ PlainOuts /\ (Owed # {} => SeenTo)

(* The tasks that can be worked on after a write to the table. *)
LEMMA WorkableMoves ==
    ASSUME TypeInv
    PROVE  /\ Workable \subseteq Live
           /\ tasks' = tasks => Workable' = Workable
           /\ \A i \in Ids : Rewrites(i, "claimed") => Workable \subseteq Workable'
           /\ \A i \in Ids : Rewrites(i, "pending") /\ AttemptsLeft(i) => Workable \subseteq Workable'
           /\ \A r : Adds(r) /\ r.status = "pending" /\ r.attempt = 0 => Len(tasks) + 1 \in Workable'
<1> USE DEF Workable, WithStatus, AttemptsLeft, Ids
<1>0. Len(tasks) \in Nat /\ 0 < MaxAttempts
  BY RowTypes, TurnWorkflowAssumption DEF TypeInv
<1>1. Workable \subseteq Live
  BY DEF Live
<1>2. tasks' = tasks => Workable' = Workable
  OBVIOUS
<1>3. ASSUME NEW i \in Ids, Rewrites(i, "claimed") \/ (Rewrites(i, "pending") /\ AttemptsLeft(i))
      PROVE  Workable \subseteq Workable'
  BY <1>3 DEF Rewrites
<1>4. ASSUME NEW r, Adds(r), r.status = "pending", r.attempt = 0 PROVE Len(tasks) + 1 \in Workable'
  <2>1. Len(tasks) + 1 \in 1 .. Len(tasks')
    BY <1>0, <1>4 DEF Adds
  <2>2. tasks'[Len(tasks) + 1].status = "pending" /\ tasks'[Len(tasks) + 1].attempt < MaxAttempts
    BY <1>0, <1>4 DEF Adds
  <2> QED
    BY <2>1, <2>2
<1> QED
  BY <1>1, <1>2, <1>3, <1>4

(* What must not happen for a step to leave everything seen to. *)
LEMMA SeenToKept ==
    ASSUME Owed # {} => SeenTo, unread' \subseteq unread, lost \subseteq lost',
           \A i \in Workable : i \in Workable' /\ tasks'[i].kind = tasks[i].kind,
           \A e \in exec : tasks'[e.task].kind = tasks[e.task].kind,
           \A s \in Servers : Calling(s) => Calling(s)',
           signals > 0 => signals' > 0,
           reaping \subseteq reaping',
           \A e \in exec \ exec' : ~Continues(e),
           \A e \in exec' \ exec : tasks[e.task].kind # "reason" \/ ReadsAll(e)'
    PROVE  Owed' # {} => SeenTo'
<1> SUFFICES ASSUME Owed' # {} PROVE SeenTo'
  OBVIOUS
<1>0. SeenTo
  BY DEF Owed
<1>1. CASE signals > 0
  BY <1>1 DEF SeenTo
<1>2. CASE Called
  <2>1. Called'
    BY <1>2 DEF Called
  <2> QED
    BY <2>1 DEF SeenTo
<1>3. CASE ToBeRead
  <2>1. PICK i \in Workable : WillRead(i)
    BY <1>3 DEF ToBeRead
  <2>2. i \in Workable' /\ tasks'[i].kind = tasks[i].kind
    OBVIOUS
  <2>3. WillRead(i)'
    BY <2>1, <2>2 DEF WillRead, ReadsAll
  <2> QED
    BY <2>2, <2>3 DEF SeenTo, ToBeRead
<1>4. CASE Continued
  <2>1. PICK e \in exec : Continues(e)
    BY <1>4 DEF Continued
  <2>2. e \in exec' /\ Continues(e)'
    BY <2>1 DEF Continues
  <2> QED
    BY <2>2 DEF SeenTo, Continued
<1>5. CASE reaping # {}
  BY <1>5 DEF SeenTo
<1> QED
  BY <1>0, <1>1, <1>2, <1>3, <1>4, <1>5 DEF SeenTo

(* Rows keep the kind they were made with. *)
LEMMA RowsKeepKind ==
    ASSUME TypeInv, tasks' = tasks \/ Returns \/ (\E i \in Ids : \E st : Rewrites(i, st)) \/ (\E r : Adds(r))
    PROVE  \A i \in Ids : tasks'[i].kind = tasks[i].kind
BY DEF Rewrites, Adds, Returns

(* Nobody has executed a new task yet, so a reason that follows reads it all. *)
LEMMA NewTaskReads ==
    ASSUME TypeInv, NEW r, Adds(r), r.status = "pending", r.attempt = 0,
           r.kind \in {"process_input", "reason"}, exec' \subseteq exec
    PROVE  SeenTo'
<1> DEFINE n == Len(tasks) + 1
<1>1. n \notin Ids
  BY RowTypes DEF TypeInv, Ids
<1>2. \A e \in exec' : e.task # n
  BY <1>1 DEF TypeInv, RefInv
<1>3. n \in Workable' /\ tasks'[n].kind \in {"process_input", "reason"}
  BY WorkableMoves DEF Adds
<1>4. ASSUME NEW k, k \in Workable', tasks'[k].kind \in {"process_input", "reason"},
             \A e \in exec' : e.task # k
      PROVE  SeenTo'
  <2>1. WillRead(k)'
    BY <1>4 DEF WillRead
  <2> QED
    BY <1>4, <2>1 DEF SeenTo, ToBeRead
<1> HIDE DEF n
<1> QED
  BY <1>2, <1>3, <1>4

LEMMA CallsKeepWakes ==
    ASSUME TypeInv, TokenInv, WakeInv, Commands \subseteq {"message"}, NEW s \in Servers,
           \/ \E m \in Messages : SendMessage(s, m)
           \/ ResumeBegin(s) \/ CancelBegin(s)
           \/ CallStep(s) \/ CancelRunFails(s) \/ LoseCall(s)
    PROVE  WakeInv'
<1>a. call[s].step \in {"idle", "start.claim", "start.enqueue", "start.signal", "start.create"}
  BY DEF TokenInv, OnlyMessages
<1>b. ASSUME Calling(s)' PROVE SeenTo'
  BY <1>b DEF SeenTo, Called
<1>c. ASSUME exec' = exec, wf' # "cancelled", Owed' # {} => SeenTo' PROVE WakeInv'
  BY <1>c DEF WakeInv, PlainOuts
<1>d. wf # "cancelled"
  BY DEF WakeInv
<1>1. ASSUME NEW m \in Messages, SendMessage(s, m) PROVE WakeInv'
  <2>1. Calling(s)'
    BY <1>1, CallEffect DEF SendMessage, Calling
  <2> QED
    BY <1>1, <1>b, <1>c, <1>d, <2>1 DEF SendMessage
<1>2. CASE StartClaim(s)
  <2>1. Calling(s)'
    BY <1>2, CallEffect DEF StartClaim, Calling
  <2> QED
    BY <1>2, <1>b, <1>c, <1>d, <2>1 DEF StartClaim
<1>3. CASE StartEnqueue(s)
  <2>1. Enqueue(FirstTask) /\ exec' = exec /\ wf' = wf
    BY <1>3 DEF StartEnqueue
  <2>2. SeenTo'
    BY <2>1, FirstRow, NewTaskReads DEF FirstTask, NewTask
  <2> QED
    BY <1>c, <1>d, <2>1, <2>2
<1>4. CASE StartCreate(s)
  <2>1. CASE wf = "none"
    <3>1. Enqueue(FirstTask) /\ exec' = exec /\ wf' = "running"
      BY <1>4, <2>1 DEF StartCreate
    <3>2. SeenTo'
      BY <3>1, FirstRow, NewTaskReads DEF FirstTask, NewTask
    <3> QED
      BY <1>c, <3>1, <3>2
  <2>2. CASE wf # "none"
    <3>1. /\ UNCHANGED <<wf, tasks, signals, exec, reaping, unread, lost>> /\ EndCall(s)
          /\ call[s].step = "start.create"
      BY <1>4, <2>2 DEF StartCreate
    <3>2. \A t \in Servers : Calling(t) => Calling(t)'
      BY <2>2, <3>1, CallEffect DEF Calling
    <3>3. Workable' = Workable
      BY <3>1, WorkableMoves
    <3>4. Owed' # {} => SeenTo'
      BY <3>1, <3>2, <3>3, SeenToKept DEF WakeInv
    <3> QED
      BY <1>c, <1>d, <3>1, <3>4
  <2> QED
    BY <2>1, <2>2
<1>5. CASE StartSignal(s)
  <2>1. signals' > 0 /\ exec' = exec /\ wf' = wf
    BY <1>5 DEF StartSignal, TypeInv, TypeOK
  <2> QED
    BY <1>c, <1>d, <2>1 DEF SeenTo
<1>6. CASE EnqueueFails(s)
  BY <1>6, <1>c DEF EnqueueFails, Owed
<1>7. ~ResumeBegin(s) /\ ~CancelBegin(s)
  BY DEF ResumeBegin, CancelBegin
<1>8. /\ ~ResumeActivate(s) /\ ~ResumeRead(s) /\ ~ResumeReset(s) /\ ~ResumeEnqueue(s)
      /\ ~CancelStep(s)
  BY <1>a DEF ResumeActivate, ResumeRead, ResumeReset, ResumeEnqueue,
              CancelStep, CancelTasks, CancelStatus, CancelSettle
<1>9. ~CancelRunFails(s)
  BY <1>a DEF CancelRunFails
<1>10. CASE LoseCall(s)
  <2>1. lost' = lost \cup unread /\ UNCHANGED <<wf, exec, unread>>
    BY <1>10, <1>a DEF LoseCall, Drop, BeforeEnd
  <2> QED
    BY <1>c, <1>d, <2>1 DEF Owed
<1> QED
  BY <1>1, <1>2, <1>3, <1>4, <1>5, <1>6, <1>7, <1>8, <1>9, <1>10
     DEF CallStep, StartStep, ResumeStep

(* A step of one execution that goes on as f, or ends: it must not take away   *)
(* what it alone was going to do, and a reason must have read what is unread.  *)
LEMMA MovesKeepSeenTo ==
    ASSUME TypeInv, WakeInv, NEW e \in exec, ~Continues(e),
           NEW f, f.task = e.task, exec \ {e} \subseteq exec', exec' \subseteq (exec \ {e}) \cup {f},
           tasks[e.task].kind # "reason" \/ (unread' = unread /\ ReadsAll(f)) \/ f.pc # "complete",
           tasks' = tasks \/ (Rewrites(e.task, "pending") /\ AttemptsLeft(e.task)),
           call' = call, wf' = wf \/ wf # "none", reaping' = reaping,
           signals > 0 => signals' > 0, unread' \subseteq unread, lost \subseteq lost'
    PROVE  Owed' # {} => SeenTo'
<1>1. e.task \in Ids /\ \A g \in exec : g.task \in Ids
  BY DEF TypeInv, RefInv
<1>2. \A i \in Workable : i \in Workable' /\ tasks'[i].kind = tasks[i].kind
  <2>1. Workable \subseteq Workable'
    BY <1>1, WorkableMoves
  <2>2. \A i \in Ids : tasks'[i].kind = tasks[i].kind
    BY <1>1, RowsKeepKind
  <2> QED
    BY <2>1, <2>2 DEF Workable, WithStatus
<1>3. \A g \in exec : tasks'[g.task].kind = tasks[g.task].kind
  BY <1>1, RowsKeepKind
<1>4. \A s \in Servers : Calling(s) => Calling(s)'
  BY DEF Calling
<1>5. \A g \in exec \ exec' : ~Continues(g)
  OBVIOUS
<1>6. \A g \in exec' \ exec : tasks[g.task].kind # "reason" \/ ReadsAll(g)'
  BY DEF ReadsAll
<1> QED
  BY <1>2, <1>3, <1>4, <1>5, <1>6, SeenToKept DEF WakeInv

(* What an activity leaves: a reason that may be followed by another step has  *)
(* read every message sent so far.                                             *)
LEMMA ActivityReads ==
    ASSUME TypeInv, PlainOuts, NEW e \in exec, RunActivity(e)
    PROVE  \E f : /\ MoveExec(e, f) /\ f.task = e.task
                  /\ f.out # "cancelled"
                  /\ tasks[e.task].kind # "reason" \/ ReadsAll(f)
<1> DEFINE kind == tasks[e.task].kind
           m == IF kind = "reason" THEN sent ELSE {}
           ran == [e EXCEPT !.seen = m]
<1>1. e \in Executions /\ kind \in Kinds /\ m \in SUBSET Messages /\ unread \subseteq sent
  BY RowTypes DEF TypeInv, TypeOK, RefInv, Rows
<1>2. "complete" \in Pcs /\ "fail" \in Pcs
  BY DEF Pcs, BeforeEnd
<1>3. ran \in Executions /\ ran.task = e.task /\ ran.seen = m
  BY <1>1, OutTypes
<1>4. \A out \in Outcomes[kind] : out \in Outs /\ out # "cancelled"
  <2>1. \A out \in Outcomes[kind] : out # "cancelled"
    BY <1>1, TurnWorkflowAssumption DEF Outcomes, Kinds
  <2> QED
    BY <1>1, <2>1, OutTypes
<1>5. "retryable" \in Outs /\ "permanent" \in Outs
  BY OutTypes DEF Failures
<1>6. \/ \E out \in Outcomes[kind] : MoveExec(e, [ran EXCEPT !.pc = "complete", !.out = out])
      \/ \E out \in {"retryable", "permanent"} : MoveExec(e, [ran EXCEPT !.pc = "fail", !.out = out])
      \/ /\ "blocked" \in Outcomes[kind]
         /\ MoveExec(e, [e EXCEPT !.pc = "complete", !.out = "blocked"])
  BY Zenon DEF RunActivity
<1>7. \A g \in Executions, p \in Pcs, out \in Outs :
          LET f == [g EXCEPT !.pc = p, !.out = out]
          IN  f.task = g.task /\ f.pc = p /\ f.out = out /\ f.seen = g.seen
  BY OutTypes
<1>8. kind = "reason" => unread \subseteq m
  BY <1>1
<1> HIDE DEF m, ran
<1>9. CASE \E out \in Outcomes[kind] : MoveExec(e, [ran EXCEPT !.pc = "complete", !.out = out])
  <2>1. PICK out \in Outcomes[kind] : MoveExec(e, [ran EXCEPT !.pc = "complete", !.out = out])
    BY <1>9, Zenon
  <2> DEFINE f == [ran EXCEPT !.pc = "complete", !.out = out]
  <2>2. f.task = e.task /\ f.out = out /\ f.seen = m
    BY <1>2, <1>3, <1>4, <1>7
  <2> HIDE DEF f
  <2>3. f.out # "cancelled" /\ (kind # "reason" \/ ReadsAll(f))
    BY <1>4, <1>8, <2>2 DEF ReadsAll
  <2>4. MoveExec(e, f)
    BY <2>1 DEF f
  <2> QED
    BY <2>2, <2>3, <2>4
<1>10. CASE \E out \in {"retryable", "permanent"} : MoveExec(e, [ran EXCEPT !.pc = "fail", !.out = out])
  <2>1. PICK out \in {"retryable", "permanent"} : MoveExec(e, [ran EXCEPT !.pc = "fail", !.out = out])
    BY <1>10
  <2> DEFINE f == [ran EXCEPT !.pc = "fail", !.out = out]
  <2>2. f.task = e.task /\ f.out = out /\ f.pc = "fail"
    BY <1>2, <1>3, <1>5, <1>7
  <2>3. MoveExec(e, f)
    BY <2>1
  <2> HIDE DEF f
  <2>4. f.out # "cancelled" /\ ReadsAll(f)
    BY <2>2 DEF ReadsAll
  <2> QED
    BY <2>2, <2>3, <2>4
<1>11. CASE /\ "blocked" \in Outcomes[kind]
            /\ MoveExec(e, [e EXCEPT !.pc = "complete", !.out = "blocked"])
  <2> DEFINE f == [e EXCEPT !.pc = "complete", !.out = "blocked"]
  <2>1. f.task = e.task /\ f.out = "blocked"
    BY <1>1, <1>2, <1>4, <1>7, <1>11
  <2>2. MoveExec(e, f)
    BY <1>11
  <2> HIDE DEF f
  <2>3. f.out # "cancelled" /\ ReadsAll(f)
    BY <2>1 DEF ReadsAll
  <2> QED
    BY <2>1, <2>2, <2>3
<1> QED
  BY <1>6, <1>9, <1>10, <1>11, Zenon

(* The outs stay plain if the execution that moves has a plain one. *)
LEMMA WakesTogether ==
    ASSUME WakeInv, wf' # "cancelled", Owed' # {} => SeenTo',
           \A g \in exec' : g \in exec \/ g.out # "cancelled"
    PROVE  WakeInv'
BY DEF WakeInv, PlainOuts

(* An execution up to the end of its task, and when it is lost there. *)
LEMMA RunsKeepWakes ==
    ASSUME TypeInv, TokenInv, WakeInv, NEW e \in exec,
           \/ CheckCancelled(e) \/ RunActivity(e) \/ CompleteTask(e) \/ FailTask(e)
           \/ e.pc \in BeforeEnd /\ LoseExecution(e)
    PROVE  WakeInv'
<1>a. /\ e \in Executions /\ e.task \in Ids /\ wf # "cancelled"
      /\ e.out # "cancelled"
  BY DEF TypeInv, TypeOK, RefInv, WakeInv, PlainOuts
<1>b. e.pc \in BeforeEnd /\ ~Continues(e)
  <2>1. e.pc \in BeforeEnd
    BY ActivityMoves DEF CheckCancelled, CompleteTask, FailTask, LoseExecution, BeforeEnd
  <2> QED
    BY <2>1 DEF Continues, BeforeEnd
<1>c. /\ UNCHANGED <<wf, call, signals, reaping, lost>>
      /\ wf' # "cancelled" /\ (signals > 0 => signals' > 0)
  BY <1>a, ActivityMoves DEF CheckCancelled, CompleteTask, FailTask, LoseExecution, Drop
<1>d. \A pc \in {"drain", "tryFail"} :
          LET f == [e EXCEPT !.pc = pc, !.seen = {}]
          IN  f.task = e.task /\ f.pc = pc /\ f.out = e.out
  BY <1>a, OutTypes
<1>1. ASSUME exec' = exec \ {e}, unread' = unread,
             tasks' = tasks \/ (Rewrites(e.task, "pending") /\ AttemptsLeft(e.task))
      PROVE  WakeInv'
  <2>1. Owed' # {} => SeenTo'
    <3>1. PICK f : f.task = e.task /\ f.pc = "drain"
      <4> DEFINE f == [e EXCEPT !.pc = "drain", !.seen = {}]
      <4>1. f.task = e.task /\ f.pc = "drain"
        BY <1>d
      <4> HIDE DEF f
      <4> QED
        BY <4>1
    <3> QED
      BY <1>1, <1>b, <1>c, <3>1, MovesKeepSeenTo
  <2> QED
    BY <1>1, <1>c, <2>1, WakesTogether
<1>2. CASE CheckCancelled(e)
  <2> DEFINE f == [e EXCEPT !.pc = "run"]
  <2>1. MoveExec(e, f) /\ UNCHANGED <<tasks, unread>>
    BY <1>2, <1>a DEF CheckCancelled
  <2>2. f.task = e.task /\ f.pc = "run" /\ f.out = e.out
    BY <1>a, OutTypes
  <2> HIDE DEF f
  <2>3. exec' = (exec \ {e}) \cup {f}
    BY <2>1 DEF MoveExec
  <2>4. Owed' # {} => SeenTo'
    BY <1>b, <1>c, <2>1, <2>2, <2>3, MovesKeepSeenTo
  <2> QED
    BY <1>a, <1>c, <2>2, <2>3, <2>4, WakesTogether
<1>3. CASE RunActivity(e)
  <2>1. PICK f : /\ MoveExec(e, f) /\ f.task = e.task
                 /\ f.out # "cancelled"
                 /\ tasks[e.task].kind # "reason" \/ ReadsAll(f)
    BY <1>3, ActivityReads DEF WakeInv
  <2>2. exec' = (exec \ {e}) \cup {f} /\ UNCHANGED <<tasks, unread>>
    BY <1>3, <2>1, ActivityMoves DEF MoveExec
  <2>3. Owed' # {} => SeenTo'
    BY <1>b, <1>c, <2>1, <2>2, MovesKeepSeenTo
  <2> QED
    BY <1>c, <2>1, <2>2, <2>3, WakesTogether
<1>4. CASE CompleteTask(e)
  <2>1. CASE ~Owns(e)
    BY <1>1, <1>4, <2>1 DEF CompleteTask, EndExec
  <2>2. CASE Owns(e)
    <3> DEFINE f == [e EXCEPT !.pc = "drain", !.seen = {}]
    <3>1. f.task = e.task /\ f.pc = "drain" /\ f.out = e.out
      BY <1>d
    <3>2. /\ exec' = (exec \ {e}) \cup {f} /\ e.pc = "complete"
          /\ unread' = IF e.out \in {"unsuccessful", "blocked"} THEN unread ELSE unread \ e.seen
      BY <1>4, <2>2 DEF CompleteTask, MoveExec
    <3>3. Rewrites(e.task, "completed")
      BY <1>a, <1>4, <2>2, EndedRows DEF CompleteTask, TypeInv
    <3> HIDE DEF f
    <3>4. \A g \in exec : tasks'[g.task].kind = tasks[g.task].kind
      BY <1>a, <3>3, RowsKeepKind DEF TypeInv, RefInv
    <3>5. CASE \/ tasks[e.task].kind = "process_input"
               \/ tasks[e.task].kind = "reason" /\ e.out \notin {"tools", "final"}
      <4>1. f \in exec' /\ Continues(f)'
        BY <1>a, <3>1, <3>2, <3>4, <3>5 DEF Continues
      <4> QED
        BY <1>a, <1>c, <3>1, <3>2, <4>1, WakesTogether DEF SeenTo, Continued
    <3>6. CASE \/ tasks[e.task].kind = "act"
               \/ tasks[e.task].kind = "reason" /\ e.out \in {"tools", "final"}
      <4>1. unread' \subseteq unread /\ (tasks[e.task].kind = "reason" => unread' = unread \ e.seen)
        BY <3>2, <3>6
      <4>2. ASSUME Owed' # {} PROVE SeenTo'
        <5>1. SeenTo /\ (tasks[e.task].kind = "reason" => ~ReadsAll(e))
          BY <1>c, <3>2, <3>6, <4>1, <4>2 DEF ReadsAll, WakeInv, Owed
        <5>2. ~ToBeRead
          <6>1. e.task \in Live
            BY <1>a, <2>2 DEF Live, WithStatus, Owns
          <6>2. Workable \subseteq {e.task}
            BY <6>1, TokenHolder, WorkableMoves DEF TokenInv, OneLive
          <6>3. ~WillRead(e.task)
            BY <3>6, <5>1 DEF WillRead
          <6> QED
            BY <6>2, <6>3 DEF ToBeRead
        <5>3. Called => Called'
          BY <1>c DEF Called, Calling
        <5>4. Continued => Continued'
          <6>1. ASSUME NEW g \in exec, Continues(g) PROVE g \in exec' /\ Continues(g)'
            BY <1>b, <3>2, <3>4, <6>1 DEF Continues
          <6> QED
            BY <6>1 DEF Continued
        <5> QED
          BY <1>c, <5>1, <5>2, <5>3, <5>4 DEF SeenTo
      <4> QED
        BY <1>a, <1>c, <3>1, <3>2, <4>2, WakesTogether
    <3>7. tasks[e.task].kind \in Kinds
      BY <1>a, RowTypes DEF TypeInv, Rows
    <3> QED
      BY <3>5, <3>6, <3>7 DEF Kinds
  <2> QED
    BY <2>1, <2>2
<1>5. CASE FailTask(e)
  <2>0. unread' = unread
    BY <1>5 DEF FailTask
  <2>1. CASE tasks' = tasks /\ EndExec(e)
    BY <1>1, <2>0, <2>1 DEF EndExec
  <2>2. CASE /\ EndExec(e) /\ AttemptsLeft(e.task)
             /\ tasks' = [tasks EXCEPT ![e.task].status = "pending", ![e.task].owner = NoWorker]
    <3>1. Rewrites(e.task, "pending")
      BY <1>a, <2>2, RequeuedRows DEF TypeInv
    <3> QED
      BY <1>1, <2>0, <2>2, <3>1 DEF EndExec
  <2>3. CASE MoveExec(e, [e EXCEPT !.pc = "tryFail", !.seen = {}])
    <3> DEFINE f == [e EXCEPT !.pc = "tryFail", !.seen = {}]
    <3>1. f.pc = "tryFail" /\ f.out = e.out
      BY <1>d
    <3>2. exec' = (exec \ {e}) \cup {f}
      BY <2>3 DEF MoveExec
    <3> HIDE DEF f
    <3>3. f \in exec' /\ Continues(f)'
      BY <3>1, <3>2 DEF Continues
    <3> QED
      BY <1>a, <1>c, <3>1, <3>2, <3>3, WakesTogether DEF SeenTo, Continued
  <2> QED
    BY <1>5, <2>1, <2>2, <2>3 DEF FailTask
<1>6. CASE LoseExecution(e)
  BY <1>1, <1>6 DEF LoseExecution, EndExec
<1> QED
  BY <1>2, <1>3, <1>4, <1>5, <1>6

(* An execution after the end of its task. *)
LEMMA HandlersKeepWakes ==
    ASSUME TypeInv, TokenInv, WakeInv, NEW e \in exec,
           \/ TryFailWorkflow(e) \/ AnnounceFailure(e)
           \/ DrainWakes(e) \/ PerformEffects(e) \/ ScheduleNext(e)
    PROVE  WakeInv'
<1>a. /\ e \in Executions /\ e.task \in Ids /\ wf # "cancelled"
      /\ e.out # "cancelled" /\ tasks[e.task].kind \in Kinds
  BY RowTypes DEF TypeInv, TypeOK, RefInv, WakeInv, PlainOuts, Rows
<1>b. wf' # "cancelled" /\ UNCHANGED <<call, reaping>>
  BY <1>a, NextRows DEF TryFailWorkflow, AnnounceFailure, DrainWakes, PerformEffects, ScheduleNext
<1>c. ASSUME NEW f, f \in exec', Continues(f)' PROVE SeenTo'
  BY <1>c DEF SeenTo, Continued
<1>1. CASE TryFailWorkflow(e)
  <2> DEFINE f == [e EXCEPT !.pc = "announce"]
  <2>1. wf = "running"
    <3>1. e \in Ending
      BY <1>1 DEF TryFailWorkflow, Ending, Guarding
    <3> QED
      BY <3>1, TokenHolder DEF TokenInv
  <2>2. exec' = (exec \ {e}) \cup {f}
    BY <1>1, <1>a, <2>1 DEF TryFailWorkflow, MoveExec
  <2>3. f.pc = "announce" /\ f.out = e.out
    BY <1>a, OutTypes
  <2> HIDE DEF f
  <2>4. f \in exec' /\ Continues(f)'
    BY <2>2, <2>3 DEF Continues
  <2> QED
    BY <1>a, <1>b, <1>c, <2>2, <2>3, <2>4, WakesTogether
<1>2. CASE AnnounceFailure(e)
  <2>1. unread' = {} /\ exec' = exec \ {e}
    BY <1>2 DEF AnnounceFailure, EndExec
  <2> QED
    BY <1>b, <2>1, WakesTogether DEF Owed
<1>3. CASE DrainWakes(e)
  <2> DEFINE kind == tasks[e.task].kind
             drained == IF Drains(kind, e.out) THEN signals ELSE 0
             plan == Plan(e.task, e.out, drained)
             f == [e EXCEPT !.pc = "effects", !.out = plan]
  <2>1. /\ exec' = (exec \ {e}) \cup {f} /\ e.pc = "drain" /\ UNCHANGED <<wf, tasks>>
        /\ signals' = signals - drained
        /\ unread' = IF plan \in {"failed", "blocked"} THEN {} ELSE unread
        /\ lost' = IF drained > 0 /\ (plan = "wait" \/ (plan = "complete" /\ LastIteration(e.task)))
                   THEN lost \cup unread ELSE lost
    BY <1>3, Zenon DEF DrainWakes, MoveExec
  <2>2. plan \in Plans
    BY PlanTypes
  <2>3. /\ kind = "process_input" => plan = "reason"
        /\ kind = "reason" /\ e.out \notin {"tools", "final"} => plan = "failed"
    BY PlanOf
  <2>4. signals \in Nat /\ (drained = 0 \/ drained = signals)
        /\ (drained > 0 => plan # "act" /\ (plan = "complete" => LastIteration(e.task)))
    <3>1. signals \in Nat /\ (drained = 0 \/ drained = signals)
      BY DEF TypeInv, TypeOK
    <3>2. drained > 0 => Drains(kind, e.out)
      BY <3>1
    <3>3. Drains(kind, e.out) => plan # "act"
      BY DEF Drains, Plan
    <3>4. drained > 0 /\ plan = "complete" => LastIteration(e.task)
      BY <3>1, <3>2 DEF Drains, Plan
    <3> QED
      BY <3>1, <3>2, <3>3, <3>4
  <2> HIDE DEF plan, drained
  <2>5. f.task = e.task /\ f.pc = "effects" /\ f.out = plan
    <3>1. plan \in Outs /\ "effects" \in Pcs
      BY <2>2, OutTypes DEF Pcs, AfterEnd
    <3> QED
      BY <1>a, <3>1, OutTypes
  <2> HIDE DEF f
  <2>6. ASSUME plan = "reason" PROVE SeenTo'
    <3>1. f.pc = "effects" /\ f.out = "reason" /\ f \in exec'
      BY <2>1, <2>5, <2>6
    <3>2. ASSUME NEW g, g.pc = "effects", g.out = "reason", g \in exec' PROVE SeenTo'
      BY <1>c, <3>2 DEF Continues
    <3> QED
      BY <3>1, <3>2
  <2>7. ASSUME signals > 0 => signals' > 0, ~Continues(e), unread' = unread, lost' = lost
        PROVE  Owed' # {} => SeenTo'
    <3>1. ASSUME NEW g, g.task = e.task, g.pc = "effects", exec' = (exec \ {e}) \cup {g}
          PROVE  Owed' # {} => SeenTo'
      BY <1>b, <2>1, <2>7, <3>1, MovesKeepSeenTo
    <3> QED
      BY <2>1, <2>5, <3>1
  <2>8. Owed' # {} => SeenTo'
    <3>1. CASE plan \in {"failed", "blocked"}
      BY <2>1, <3>1 DEF Owed
    <3>2. CASE plan = "reason"
      BY <2>6, <3>2
    <3>3. CASE plan \notin {"failed", "blocked", "reason"}
      <4>1. CASE drained > 0
        <5>1. plan \in {"complete", "wait"}
          BY <2>2, <2>4, <3>3, <4>1 DEF Plans
        <5>2. lost' = lost \cup unread /\ unread' = unread
          BY <2>1, <2>4, <4>1, <5>1
        <5> QED
          BY <5>2 DEF Owed
      <4>2. CASE ~(drained > 0)
        <5>1. drained = 0 /\ signals' = signals /\ unread' = unread /\ lost' = lost
          BY <2>1, <2>4, <3>3, <4>2
        <5>2. ~Continues(e)
          BY <2>1, <2>3, <3>3 DEF Continues
        <5> QED
          BY <2>7, <5>1, <5>2
      <4> QED
        BY <4>1, <4>2
    <3> QED
      BY <3>1, <3>2, <3>3
  <2> QED
    BY <1>b, <2>1, <2>2, <2>5, <2>8, WakesTogether DEF Plans
<1>4. CASE PerformEffects(e)
  <2> DEFINE f == [e EXCEPT !.pc = "schedule"]
  <2>1. /\ exec' = (exec \ {e}) \cup {f} /\ e.pc = "effects"
        /\ UNCHANGED <<wf, tasks, signals, unread, lost>>
    BY <1>4 DEF PerformEffects, MoveExec
  <2>2. f.task = e.task /\ f.pc = "schedule" /\ f.out = e.out
    BY <1>a, OutTypes
  <2> HIDE DEF f
  <2>3. Owed' # {} => SeenTo'
    <3>1. CASE Continues(e)
      <4>1. f \in exec' /\ Continues(f)'
        BY <2>1, <2>2, <3>1 DEF Continues
      <4> QED
        BY <1>c, <4>1
    <3>2. CASE ~Continues(e)
      BY <1>b, <2>1, <2>2, <3>2, MovesKeepSeenTo
    <3> QED
      BY <3>1, <3>2
  <2> QED
    BY <1>a, <1>b, <2>1, <2>2, <2>3, WakesTogether
<1>5. CASE ScheduleNext(e)
  <2>1. exec' = exec \ {e} /\ e.pc = "schedule" /\ UNCHANGED <<signals, unread, lost>>
    BY <1>5 DEF ScheduleNext, EndExec
  <2>2. Owed' # {} => SeenTo'
    <3>1. CASE e.out = "reason"
      <4> DEFINE r == NewTask(e.out, e.task, tasks[e.task].turn, NextIteration(e.task, e.out))
      <4>1. Adds(r) /\ r.status = "pending" /\ r.attempt = 0
        BY <1>5, <3>1, NextRows
      <4>2. r.kind = "reason"
        BY <3>1 DEF NewTask
      <4> HIDE DEF r
      <4> QED
        BY <2>1, <4>1, <4>2, NewTaskReads
    <3>2. CASE e.out # "reason"
      <4>1. wf # "none"
        <5>1. e \in Ending
          BY <2>1 DEF Ending, Guarding
        <5> QED
          BY <5>1, TokenHolder DEF TokenInv
      <4>2. ~Continues(e)
        BY <2>1, <3>2 DEF Continues
      <4>3. tasks' = tasks \/ \E r : Adds(r)
        BY <1>5, NextRows
      <4>4. \A i \in Ids : tasks'[i].kind = tasks[i].kind
        BY <4>3, RowsKeepKind
      <4>5. Workable \subseteq Workable' /\ Workable \subseteq Ids
        BY <4>3, RowTypes DEF Workable, WithStatus, AttemptsLeft, Ids, Adds, TypeInv
      <4>6. \A s \in Servers : Calling(s) => Calling(s)'
        BY <1>b, <4>1 DEF Calling
      <4>7. \A g \in exec : tasks'[g.task].kind = tasks[g.task].kind
        BY <4>4 DEF TypeInv, RefInv
      <4> QED
        BY <1>b, <2>1, <4>2, <4>4, <4>5, <4>6, <4>7, SeenToKept DEF WakeInv
    <3> QED
      BY <3>1, <3>2
  <2> QED
    BY <1>b, <2>1, <2>2, WakesTogether
<1> QED
  BY <1>1, <1>2, <1>3, <1>4, <1>5

(* What is lost after a task has ended is in lost from then on. *)
LEMMA LossesKeepWakes ==
    ASSUME TypeInv, WakeInv, wf' = wf, unread' = unread, lost' = lost \cup unread, exec' \subseteq exec
    PROVE  WakeInv'
BY DEF WakeInv, PlainOuts, Owed

(* Claims, reclaims and the reaper. *)
LEMMA OthersKeepWakes ==
    ASSUME TypeInv, TokenInv, WakeInv,
           \/ \E w \in Workers : HandBack(w) \/ \E i \in Ids : ClaimTask(w, i)
           \/ \E i \in Ids : Reclaim(i) \/ \E why \in {"exhausted", "sealed"} : ReclaimDead(i, why)
           \/ \E r \in reaping : ReapStep(r) \/ LoseReap(r)
           \/ UNCHANGED vars
    PROVE  WakeInv'
<1>a. wf # "cancelled"
  BY DEF WakeInv
<1>1. ASSUME tasks' = tasks \/ Returns \/ \E i \in Ids : \E st : Rewrites(i, st),
             Workable \subseteq Workable',
             UNCHANGED <<wf, call, signals, reaping, unread, lost>>,
             exec \subseteq exec',
             \A g \in exec' \ exec : g.pc = "check" /\ g.out = "none"
      PROVE  WakeInv'
  <2>0. \A i \in Ids : tasks'[i].kind = tasks[i].kind
    BY <1>1, RowsKeepKind
  <2>1. \A i \in Workable : i \in Workable' /\ tasks'[i].kind = tasks[i].kind
    BY <1>1, <2>0 DEF Workable, WithStatus
  <2>2. \A g \in exec : tasks'[g.task].kind = tasks[g.task].kind
    BY <2>0 DEF TypeInv, RefInv
  <2>3. \A s \in Servers : Calling(s) => Calling(s)'
    BY <1>1 DEF Calling
  <2>4. \A g \in exec' \ exec : ReadsAll(g)'
    BY <1>1 DEF ReadsAll
  <2>5. Owed' # {} => SeenTo'
    BY <1>1, <2>1, <2>2, <2>3, <2>4, SeenToKept DEF WakeInv
  <2> QED
    BY <1>1, <1>a, <2>5, WakesTogether
<1>2. ASSUME NEW w \in Workers, NEW i \in Ids, ClaimTask(w, i) PROVE WakeInv'
  <2> DEFINE f == [task |-> i, worker |-> w, attempt |-> tasks[i].attempt + 1,
                   pc |-> "check", out |-> "none", seen |-> {}]
  <2>1. f.pc = "check" /\ f.out = "none"
    OBVIOUS
  <2>2. exec' = exec \cup {f} /\ UNCHANGED <<wf, call, signals, reaping, unread, lost>>
    BY <1>2, Zenon DEF ClaimTask
  <2>3. Rewrites(i, "claimed") /\ Workable \subseteq Workable'
    BY <1>2, ClaimRows, WorkableMoves DEF TypeInv
  <2> HIDE DEF f
  <2> QED
    BY <1>1, <2>1, <2>2, <2>3
<1>3. ASSUME NEW i \in Ids, Reclaim(i) PROVE WakeInv'
  <2>1. Rewrites(i, "pending") /\ Workable \subseteq Workable'
    BY <1>3, RequeuedRows, WorkableMoves DEF Reclaim, TypeInv
  <2>2. UNCHANGED <<wf, call, signals, reaping, unread, lost, exec>>
    BY <1>3 DEF Reclaim
  <2> QED
    BY <1>1, <2>1, <2>2
<1>4. ASSUME NEW i \in Ids, NEW why \in {"exhausted", "sealed"}, ReclaimDead(i, why) PROVE WakeInv'
  <2>1. reaping' # {} /\ exec' = exec /\ wf' = wf
    BY <1>4 DEF ReclaimDead
  <2> QED
    BY <1>a, <2>1, WakesTogether DEF SeenTo
<1>5. ASSUME NEW r \in reaping, ReapStatus(r) PROVE WakeInv'
  <2>1. wf = "running"
    <3>1. r \in Dying
      BY <1>5 DEF ReapStatus, Dying
    <3> QED
      BY <3>1, TokenHolder DEF TokenInv
  <2>2. reaping' # {} /\ exec' = exec /\ wf' = "failed"
    BY <1>5, <2>1 DEF ReapStatus
  <2> QED
    BY <2>2, WakesTogether DEF SeenTo
<1>6. ASSUME NEW r \in reaping, ReapAnnounce(r) PROVE WakeInv'
  BY <1>a, <1>6, WakesTogether DEF ReapAnnounce, Owed
<1>7. ASSUME NEW r \in reaping, LoseReap(r) PROVE WakeInv'
  <2>1. r.step \notin BeforeEnd
    BY ReapMoves DEF Reaps, BeforeEnd
  <2> QED
    BY <1>7, <2>1, LossesKeepWakes DEF LoseReap, Drop
<1>8. CASE UNCHANGED vars
  BY <1>1, <1>8, WorkableMoves DEF vars
<1>9. ASSUME NEW w \in Workers, HandBack(w) PROVE WakeInv'
  <2>1. Returns /\ UNCHANGED <<wf, call, signals, reaping, unread, exec>>
    BY <1>9, HandBackRows DEF TypeInv
  <2>2. CASE lost' = lost \cup unread
    BY <2>1, <2>2, LossesKeepWakes
  <2>3. CASE /\ lost' = lost
             /\ \A i \in Ids : tasks[i].status = "claimed" /\ tasks'[i].status # "claimed"
                              => AttemptsLeft(i)
    <3>1. Workable \subseteq Workable'
      BY <2>1, <2>3 DEF Returns, Workable, WithStatus, AttemptsLeft, Ids
    <3> QED
      BY <1>1, <2>1, <2>3, <3>1
  <2> QED
    BY <1>9, <2>2, <2>3, HandBackRows DEF TypeInv
<1> QED
  BY <1>2, <1>3, <1>4, <1>5, <1>6, <1>7, <1>8, <1>9 DEF ReapStep

(* No wake is lost for any other reason than the ones WakesAreKept names: when *)
(* all is quiet, an unread message whose wake was neither lost with a process  *)
(* nor drained in vain has a signal that the next turn will drain.  For any    *)
(* number of replicas, workers, retries, reclaims and pauses and wherever      *)
(* processes are lost, as long as clients only send messages.                  *)
THEOREM NoWakeIsLost ==
    ASSUME Commands \subseteq {"message"}
    PROVE  Spec => []WakesAreKept
<1>1. Init => WakeInv
  BY DEF Init, WakeInv, PlainOuts, Owed
<1>2. TypeInv /\ TokenInv /\ WakeInv /\ [Next]_vars => WakeInv'
  <2> SUFFICES ASSUME TypeInv, TokenInv, WakeInv, [Next]_vars PROVE WakeInv'
    OBVIOUS
  <2>1. ASSUME NEW e \in exec, LoseExecution(e), e.pc \notin BeforeEnd PROVE WakeInv'
    BY <2>1, LossesKeepWakes DEF LoseExecution, EndExec, Drop
  <2>2. ASSUME NEW e \in exec, RunStep(e) \/ ScheduleStep(e) \/ LoseExecution(e) PROVE WakeInv'
    BY <2>1, <2>2, RunsKeepWakes, HandlersKeepWakes DEF RunStep, ScheduleStep
  <2>3. CASE \/ \E w \in Workers : HandBack(w) \/ \E i \in Ids : ClaimTask(w, i)
             \/ \E i \in Ids : Reclaim(i) \/ \E why \in {"exhausted", "sealed"} : ReclaimDead(i, why)
             \/ \E r \in reaping : ReapStep(r) \/ LoseReap(r)
             \/ UNCHANGED vars
    BY <2>3, OthersKeepWakes
  <2> QED
    BY <2>2, <2>3, CallsKeepWakes DEF Next
<1>3. WakeInv => WakesAreKept
  BY DEF WakeInv, Owed, SeenTo, WakesAreKept, Quiet, Called, Calling, Idle, ToBeRead, Continued
<1> QED
  BY <1>1, <1>2, <1>3, TypeInvAlways, TokenInvAlways, PTL DEF Spec

=============================================================================
