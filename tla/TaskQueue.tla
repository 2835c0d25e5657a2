----------------------------- MODULE TaskQueue -----------------------------
(***************************************************************************)
(* The durable task queue of crates/durable (persistence/postgres.rs), the *)
(* worker processes that poll it (crates/worker/src/unified_worker.rs) and *)
(* the server's stale-task reclaim loop.                                   *)
(*                                                                         *)
(* One action is one SQL transaction or statement, so every interleaving   *)
(* of workers, server replicas and reclaim passes that row locking permits *)
(* is a behaviour.  Time is two fields of a row: visible says whether      *)
(* visible_at has passed, heartbeat whether heartbeat_at is older than the *)
(* stale threshold.                                                        *)
(* What a worker process believes it is running is the set exec: it is     *)
(* volatile and may disagree with the table, which is what the ownership   *)
(* checks of the store are for.                                            *)
(***************************************************************************)
EXTENDS Integers, FiniteSets

CONSTANTS
    Tasks,            \* identifiers that tasks can be given
    Workers,          \* worker ids
    Workflows,        \* workflow instances
    Unstarted,        \* the workflows whose log is still empty at first
    NoWorker,         \* claimed_by IS NULL
    NoWorkflow,       \* workflow_id IS NULL: a standalone task
    WorkflowOf,       \* WorkflowOf[t]: the workflow t belongs to, or NoWorkflow
    MaxAttempts,      \* MaxAttempts[t]: max_attempts of t's retry policy
    SealThreshold,    \* DURABLE_NO_PROGRESS_SEAL_THRESHOLD, coerced to at least 1
    ClaimBatch,       \* most tasks one claim_task call takes
    MaxPendingTasks,  \* pending tasks allowed per workflow, and of standalone tasks
    MaxEnqueuers,     \* bound: callers inside enqueue_task at a time
    MaxSeq            \* bound: append_event adds to a log up to this sequence number

Owners == Workflows \cup {NoWorkflow}

ASSUME TaskQueueAssumption ==
    /\ IsFiniteSet(Tasks)
    /\ NoWorker \notin Workers
    /\ NoWorkflow \notin Workflows
    /\ Unstarted \subseteq Workflows
    /\ WorkflowOf \in [Tasks -> Owners]
    /\ MaxAttempts \in [Tasks -> Nat \ {0}]
    /\ SealThreshold \in Nat \ {0}
    /\ ClaimBatch \in Nat \ {0}
    /\ MaxPendingTasks \in Nat \ {0}
    /\ MaxEnqueuers \in Nat \ {0}
    /\ MaxSeq \in Nat

VARIABLES
    task,        \* durable_task_queue: one row per task
    worker,      \* durable_workers.status
    events,      \* per workflow: next sequence number, and the progress token
    proc,        \* worker processes
    exec,        \* executions running inside worker processes
    admitted,    \* tasks whose enqueue_task call has passed the pending limit
    \* Auxiliary variables: history the code does not keep.
    handedBack,  \* tasks requeued by deregister_worker and not claimed since
    quiet,       \* consecutive recoveries of a task that found nothing recorded
    fresh,       \* tasks with a fact recorded since their insert or last recovery
    preceded     \* tasks whose workflow had facts when they were inserted

store == <<task, worker, events>>
aux == <<handedBack, quiet, fresh, preceded>>
vars == <<task, worker, events, proc, exec, admitted, handedBack, quiet, fresh, preceded>>

-----------------------------------------------------------------------------
(* State *)

Statuses == {"absent", "pending", "claimed", "completed", "dead", "cancelled"}

(* progress_token IS NULL: no reclaim has looked at the task yet. *)
NullToken == -1

Rows == [status : Statuses, claimedBy : Workers \cup {NoWorker}, attempt : Nat,
         visible : {"now", "later"}, heartbeat : {"fresh", "stale"},
         progressToken : Nat \cup {NullToken}, noProgress : Nat]

(* The row an INSERT creates; its status is absent until then. *)
NewRow == [status |-> "absent", claimedBy |-> NoWorker, attempt |-> 0,
           visible |-> "now", heartbeat |-> "fresh",
           progressToken |-> NullToken, noProgress |-> 0]

WorkerStatuses == {"unregistered", "active", "draining", "stopped"}

(* A process is down, polling, or in the two statements of deregister_worker. *)
ProcStates == {"down", "up", "stopping", "leaving"}

Executions == [task : Tasks, worker : Workers, attempt : Nat]

TypeOK ==
    /\ task \in [Tasks -> Rows]
    /\ worker \in [Workers -> WorkerStatuses]
    /\ events \in [Workflows -> [next : Nat, token : Nat]]
    /\ proc \in [Workers -> ProcStates]
    /\ exec \subseteq Executions
    /\ admitted \subseteq Tasks
    /\ handedBack \subseteq Tasks
    /\ quiet \in [Tasks -> Nat]
    /\ fresh \subseteq Tasks
    /\ preceded \subseteq Tasks

(* Event 0 is WorkflowStarted.  start_workflow_with_task inserts it together  *)
(* with the row; the executor appends it after create_workflow has made one.  *)
StartedLog == [next |-> 1, token |-> 1]
EmptyLog == [next |-> 0, token |-> 0]

Init ==
    /\ task = [t \in Tasks |-> NewRow]
    /\ worker = [w \in Workers |-> "unregistered"]
    /\ events = [f \in Workflows |-> IF f \in Unstarted THEN EmptyLog ELSE StartedLog]
    /\ proc = [w \in Workers |-> "down"]
    /\ exec = {}
    /\ admitted = {}
    /\ handedBack = {}
    /\ quiet = [t \in Tasks |-> 0]
    /\ fresh = {}
    /\ preceded = {}

TasksOf(f) == {t \in Tasks : WorkflowOf[t] = f}
PendingOf(f) == {t \in TasksOf(f) : task[t].status = "pending"}
ExecutionsOf(w) == {e \in exec : e.worker = w}

(* Replaces the rows of the tasks in S by Row(t). *)
UpdateRows(S, Row(_)) == task' = [t \in Tasks |-> IF t \in S THEN Row(t) ELSE task[t]]

-----------------------------------------------------------------------------
(* Enqueueing.  enqueue_task counts the pending tasks and inserts the row in *)
(* two statements without a transaction around them.                        *)

\* Mutant: off by one at the limit.
BugBelowPendingLimit(f) == Cardinality(PendingOf(f)) <= MaxPendingTasks

BelowPendingLimit(f) == Cardinality(PendingOf(f)) < MaxPendingTasks

CheckPendingLimit(t) ==
    /\ task[t].status = "absent" /\ t \notin admitted
    /\ Cardinality(admitted) < MaxEnqueuers
    /\ BelowPendingLimit(WorkflowOf[t])
    /\ admitted' = admitted \cup {t}
    /\ UNCHANGED <<store, proc, exec, aux>>

\* Mutant: ActivityStarted events count as progress.
BugCurrentToken(t) == IF WorkflowOf[t] = NoWorkflow THEN 0 ELSE events[WorkflowOf[t]].next

(* cur_token: one more than the sequence number of the latest fact. *)
CurrentToken(t) == IF WorkflowOf[t] = NoWorkflow THEN 0 ELSE events[WorkflowOf[t]].token

InsertTask(t) ==
    /\ t \in admitted
    /\ admitted' = admitted \ {t}
    /\ task' = [task EXCEPT ![t] = [NewRow EXCEPT !.status = "pending"]]
    /\ fresh' = fresh \ {t}
    /\ preceded' = IF CurrentToken(t) > 0 THEN preceded \cup {t} ELSE preceded
    /\ UNCHANGED <<worker, events, proc, exec, handedBack, quiet>>

(* A workflow fact is appended: any event but ActivityStarted, such as the   *)
(* ActivityScheduled before an enqueue or the ActivityCompleted after an     *)
(* execution.  Its sequence number plus one is the new progress token.       *)
AppendFact(f) ==
    /\ events[f].next <= MaxSeq
    /\ events' = [events EXCEPT ![f] = [next |-> @.next + 1, token |-> @.next + 1]]
    /\ fresh' = fresh \cup TasksOf(f)
    /\ UNCHANGED <<task, worker, proc, exec, admitted, handedBack, quiet, preceded>>

(* record_activity_started: a worker with the store in its own process adds  *)
(* an ActivityStarted for each attempt, which is no fact.                    *)
RecordActivityStarted(f) ==
    /\ events[f].next <= MaxSeq
    /\ \E e \in exec : WorkflowOf[e.task] = f
    /\ events' = [events EXCEPT ![f].next = @ + 1]
    /\ UNCHANGED <<task, worker, proc, exec, admitted, aux>>

-----------------------------------------------------------------------------
(* Worker processes and their registration *)

(* run() registers the worker and polls even if the registration failed. *)
StartWorker(w) ==
    /\ proc[w] = "down"
    /\ proc' = [proc EXCEPT ![w] = "up"]
    /\ \/ worker' = [worker EXCEPT ![w] = "active"]
       \/ UNCHANGED worker
    /\ UNCHANGED <<task, events, exec, admitted, aux>>

(* The process disappears; its executions go with it, its claims do not. *)
CrashWorker(w) ==
    /\ proc[w] # "down"
    /\ proc' = [proc EXCEPT ![w] = "down"]
    /\ exec' = exec \ ExecutionsOf(w)
    /\ UNCHANGED <<store, admitted, aux>>

(* The end of run(): executions are aborted, then the worker deregisters. *)
ShutdownWorker(w) ==
    /\ proc[w] = "up"
    /\ proc' = [proc EXCEPT ![w] = "stopping"]
    /\ exec' = exec \ ExecutionsOf(w)
    /\ UNCHANGED <<store, admitted, aux>>

(* First statement of deregister_worker: every claim of w is handed back. *)
DeregisterReclaim(w) ==
    LET mine == {t \in Tasks : task[t].status = "claimed" /\ task[t].claimedBy = w}
    IN  /\ proc[w] = "stopping"
        /\ proc' = [proc EXCEPT ![w] = "leaving"]
        /\ UpdateRows(mine, LAMBDA t : [task[t] EXCEPT !.status = "pending",
                                                       !.claimedBy = NoWorker])
        /\ handedBack' = handedBack \cup mine
        /\ UNCHANGED <<worker, events, exec, admitted, quiet, fresh, preceded>>

(* Second statement of deregister_worker. *)
DeregisterStop(w) ==
    /\ proc[w] = "leaving"
    /\ proc' = [proc EXCEPT ![w] = "down"]
    /\ worker' = [worker EXCEPT ![w] = IF @ = "unregistered" THEN @ ELSE "stopped"]
    /\ UNCHANGED <<task, events, exec, admitted, aux>>

DrainWorker(w) ==
    /\ worker[w] \in {"active", "stopped"}
    /\ worker' = [worker EXCEPT ![w] = "draining"]
    /\ UNCHANGED <<task, events, proc, exec, admitted, aux>>

ResumeWorker(w) ==
    /\ worker[w] = "draining"
    /\ worker' = [worker EXCEPT ![w] = "active"]
    /\ UNCHANGED <<task, events, proc, exec, admitted, aux>>

-----------------------------------------------------------------------------
(* Claiming and executing *)

\* Mutant: the attempt check of the claim query is missing.
BugClaimable == {t \in Tasks : task[t].status = "pending" /\ task[t].visible = "now"}

Claimable == {t \in Tasks : /\ task[t].status = "pending"
                            /\ task[t].visible = "now"
                            /\ task[t].attempt < MaxAttempts[t]}

\* Mutant: the claim does not count as an attempt.
BugClaimedRow(w, t) == [task[t] EXCEPT !.status = "claimed", !.claimedBy = w,
                                       !.heartbeat = "fresh"]

ClaimedRow(w, t) == [task[t] EXCEPT !.status = "claimed", !.claimedBy = w,
                                    !.attempt = @ + 1, !.heartbeat = "fresh"]

(* The first-attempt tasks of workflow f in S: each gets an ActivityStarted. *)
FirstAttempts(S, f) == {t \in S : WorkflowOf[t] = f /\ task[t].attempt = 0}

(* One transaction of claim_task.  ORDER BY priority and SKIP LOCKED leave   *)
(* the choice among the claimable tasks open.  A worker marked stopped may   *)
(* still claim; a draining or unregistered one may not.  If the reply is     *)
(* lost after the commit, nobody executes what was claimed.                  *)
ClaimTask(w, S) ==
    /\ proc[w] = "up"
    /\ worker[w] \notin {"unregistered", "draining"}
    /\ S # {} /\ Cardinality(S) <= ClaimBatch
    /\ S \subseteq Claimable
    /\ UpdateRows(S, LAMBDA t : ClaimedRow(w, t))
    /\ events' = [f \in Workflows |->
                    [events[f] EXCEPT !.next = @ + Cardinality(FirstAttempts(S, f))]]
    /\ \/ exec' = exec \cup {[task |-> t, worker |-> w, attempt |-> task[t].attempt + 1] : t \in S}
       \/ UNCHANGED exec
    /\ handedBack' = handedBack \ S
    /\ UNCHANGED <<worker, proc, admitted, quiet, fresh, preceded>>

\* Mutants: one of the two ownership conditions is missing.
BugOwnsAnyStatus(w, t) == task[t].claimedBy = w
BugOwnsAnyWorker(w, t) == task[t].status = "claimed"

Owns(w, t) == task[t].status = "claimed" /\ task[t].claimedBy = w

(* A refused heartbeat changes nothing in the store: it asks the execution   *)
(* to stop, which then fails or completes like any other.                    *)
HeartbeatTask(e) ==
    /\ Owns(e.worker, e.task) /\ task[e.task].heartbeat = "stale"
    /\ task' = [task EXCEPT ![e.task].heartbeat = "fresh"]
    /\ UNCHANGED <<worker, events, proc, exec, admitted, aux>>

(* complete_task checks the claiming worker, not the attempt. *)
CompleteTask(e) ==
    /\ exec' = exec \ {e}
    /\ task' = IF Owns(e.worker, e.task)
               THEN [task EXCEPT ![e.task].status = "completed"]
               ELSE task
    /\ UNCHANGED <<worker, events, proc, admitted, aux>>

\* Mutant: retries are not bounded by the policy.
BugMayRetry(t, retryable) == retryable

MayRetry(t, retryable) == retryable /\ task[t].attempt < MaxAttempts[t]

(* fail_task_with_retry checks that the task is claimed, not by whom. *)
FailTask(e, retryable) ==
    LET row == task[e.task]
    IN  /\ exec' = exec \ {e}
        /\ task' = [task EXCEPT ![e.task] =
                      IF row.status # "claimed" THEN row
                      ELSE IF MayRetry(e.task, retryable)
                           THEN [row EXCEPT !.status = "pending", !.claimedBy = NoWorker,
                                            !.visible = "later", !.heartbeat = "fresh"]
                           ELSE [row EXCEPT !.status = "dead"]]
        /\ UNCHANGED <<worker, events, proc, admitted, aux>>

(* The retry delay of a failed task has passed. *)
BecomeVisible(t) ==
    /\ task[t].visible = "later"
    /\ task' = [task EXCEPT ![t].visible = "now"]
    /\ UNCHANGED <<worker, events, proc, exec, admitted, aux>>

(* No heartbeat for t within the stale threshold: its worker died or is slow. *)
BecomeStale(t) ==
    /\ task[t].status = "claimed" /\ task[t].heartbeat = "fresh"
    /\ task' = [task EXCEPT ![t].heartbeat = "stale"]
    /\ UNCHANGED <<worker, events, proc, exec, admitted, aux>>

-----------------------------------------------------------------------------
(* reclaim_stale_tasks: three statements.  A row SKIP LOCKED passes over is   *)
(* being heartbeaten, ended or handed back: that step comes first here, and   *)
(* the row is no longer stale.                                                *)

Stale == {t \in Tasks : task[t].status = "claimed" /\ task[t].heartbeat = "stale"}

\* Mutant: off by one at the last attempt.
BugExhausted(t) == task[t].attempt > MaxAttempts[t]

Exhausted(t) == task[t].attempt >= MaxAttempts[t]

(* Stale tasks with no attempt left are marked dead. *)
ReclaimExhausted ==
    LET S == {t \in Stale : Exhausted(t)}
    IN  /\ S # {}
        /\ UpdateRows(S, LAMBDA t : [task[t] EXCEPT !.status = "dead"])
        /\ UNCHANGED <<worker, events, proc, exec, admitted, aux>>

(* A NULL token counts as 0. *)
Advanced(t) == \/ WorkflowOf[t] = NoWorkflow
               \/ CurrentToken(t) > (IF task[t].progressToken = NullToken
                                     THEN 0 ELSE task[t].progressToken)

\* Mutant: progress pays back one recovery instead of resetting the count.
BugNoProgressCount(t) == IF Advanced(t) THEN task[t].noProgress - 1 ELSE task[t].noProgress + 1

NoProgressCount(t) == IF Advanced(t) THEN 0 ELSE task[t].noProgress + 1

(* The forward-progress guard: a recovery that finds no fact beyond the token *)
(* of the last one, or beyond an empty log if it is the first, is counted, and *)
(* SealThreshold of them in a row seal the task.                             *)
Recovered(t) ==
    [task[t] EXCEPT !.status = IF NoProgressCount(t) >= SealThreshold
                               THEN "dead" ELSE "pending",
                    !.claimedBy = NoWorker,
                    !.progressToken = IF WorkflowOf[t] = NoWorkflow
                                      THEN NullToken ELSE CurrentToken(t),
                    !.noProgress = NoProgressCount(t)]

ReclaimStale ==
    LET S == {t \in Stale : task[t].attempt < MaxAttempts[t]}
    IN  /\ S # {}
        /\ UpdateRows(S, Recovered)
        /\ quiet' = [t \in Tasks |-> IF t \notin S THEN quiet[t]
                                     ELSE IF WorkflowOf[t] = NoWorkflow \/ t \in fresh
                                     THEN 0 ELSE quiet[t] + 1]
        /\ fresh' = fresh \ S
        /\ UNCHANGED <<worker, events, proc, exec, admitted, handedBack, preceded>>

(* Workers whose own heartbeat is old are marked stopped; the heartbeat may  *)
(* be late although the process is alive.                                    *)
StopStaleWorker(w) ==
    /\ worker[w] = "active"
    /\ worker' = [worker EXCEPT ![w] = "stopped"]
    /\ UNCHANGED <<task, events, proc, exec, admitted, aux>>

(* cancel_pending_tasks_for_workflow: claimed tasks are left alone. *)
CancelPending(f) ==
    /\ PendingOf(f) # {}
    /\ UpdateRows(PendingOf(f), LAMBDA t : [task[t] EXCEPT !.status = "cancelled"])
    /\ UNCHANGED <<worker, events, proc, exec, admitted, aux>>

-----------------------------------------------------------------------------
EnqueueStep == \E t \in Tasks : CheckPendingLimit(t) \/ InsertTask(t)
ClockStep == \E t \in Tasks : BecomeVisible(t) \/ BecomeStale(t)
WorkflowStep == \E f \in Workflows : 
    AppendFact(f) \/ RecordActivityStarted(f) \/ CancelPending(f)
WorkerStep == \E w \in Workers :
    \/ StartWorker(w) \/ CrashWorker(w) \/ ShutdownWorker(w)
    \/ DeregisterReclaim(w) \/ DeregisterStop(w)
    \/ DrainWorker(w) \/ ResumeWorker(w) \/ StopStaleWorker(w)
    \/ \E S \in SUBSET Tasks : ClaimTask(w, S)
ExecutionStep == \E e \in exec :
    HeartbeatTask(e) \/ CompleteTask(e) \/ \E r \in BOOLEAN : FailTask(e, r)
ReclaimStep == ReclaimExhausted \/ ReclaimStale

Next == EnqueueStep \/ ClockStep \/ WorkflowStep \/ WorkerStep \/ ExecutionStep \/ ReclaimStep

Spec == Init /\ [][Next]_vars

(* A worker that is up, registered and not draining polls the queue. *)
CanPoll(w) == proc[w] = "up" /\ worker[w] \in {"active", "stopped"}

(* Nobody sends heartbeats for t under its present owner. *)
Abandoned(t) == ~\E e \in exec : e.task = t /\ e.worker = task[t].claimedBy

FinishExecution(w) ==
    \E e \in exec : /\ e.worker = w
                    /\ CompleteTask(e) \/ \E r \in BOOLEAN : FailTask(e, r)

(* Every activity returns.  Nothing in the worker enforces it: the timeouts of *)
(* a task are only stored, and execute_task awaits the activity while it sends *)
(* heartbeats.  It is therefore a hypothesis of the property that needs it.    *)
ActivitiesReturn == \A w \in Workers : WF_vars(FinishExecution(w))

(* The poll loop keeps claiming, clocks advance and the reclaim loop ticks    *)
(* every ten seconds.                                                         *)
Fairness ==
    /\ \A w \in Workers : WF_vars(\E S \in SUBSET Tasks : ClaimTask(w, S))
    /\ \A t \in Tasks : /\ WF_vars(BecomeVisible(t))
                        /\ WF_vars(BecomeStale(t) /\ Abandoned(t))
    /\ WF_vars(ReclaimExhausted)
    /\ WF_vars(ReclaimStale)

FairSpec == Spec /\ Fairness

-----------------------------------------------------------------------------
(* Properties *)

Terminal == {"completed", "dead", "cancelled"}

(* Attempt numbers fence executions, although no call carries one: two       *)
(* executions of a task never run under the same attempt, none runs ahead of *)
(* the row, and the execution of the row's present attempt belongs to the    *)
(* worker that holds the claim.  (claim_task's increment against requeueing  *)
(* by fail_task, reclaim_stale_tasks and deregister_worker.)                 *)
ExecutionFence ==
    /\ \A e1, e2 \in exec : e1.task = e2.task /\ e1.attempt = e2.attempt => e1 = e2
    /\ \A e \in exec : /\ e.attempt <= task[e.task].attempt
                       /\ \/ task[e.task].status # "claimed"
                          \/ e.attempt < task[e.task].attempt
                          \/ e.worker = task[e.task].claimedBy

(* The only pending tasks that no worker can ever claim are those that        *)
(* deregister_worker handed back: every other requeue leaves an attempt.      *)
ExhaustedOnlyByHandBack ==
    \A t \in Tasks : task[t].status = "pending" /\ Exhausted(t) => t \in handedBack

(* no_progress_count against the recoveries in a row that found nothing but   *)
(* ActivityStarted recorded since the task was inserted or last recovered: it *)
(* is their number, except that the first recovery is spared when the log had *)
(* facts before the task, since it compares with an empty log (the COALESCE   *)
(* of reclaim_stale_tasks).  So a task is never sealed before SealThreshold   *)
(* such recoveries, and always after one more.                                *)
NoProgressCountIsExact ==
    \A t \in Tasks : /\ \/ quiet[t] = task[t].noProgress
                        \/ quiet[t] = task[t].noProgress + 1 /\ t \in preceded
                     /\ task[t].noProgress >= SealThreshold => task[t].status = "dead"

(* Callers racing through the unlocked limit check of enqueue_task overshoot  *)
(* the pending limit by at most one task for each caller but one.             *)
PendingOvershootBounded ==
    \A f \in Owners :
        Cardinality({t \in PendingOf(f) : task[t].attempt = 0})
          + Cardinality(admitted \cap TasksOf(f)) <= MaxPendingTasks + MaxEnqueuers - 1

(* A task that is completed, dead or cancelled never changes status again,    *)
(* whatever late workers, reclaim passes and shutdowns still do to it.        *)
TerminalIsFinal ==
    [][\A t \in Tasks : task[t].status \in Terminal => task'[t].status = task[t].status]_vars

(* A task is completed only by an execution of the worker that holds the      *)
(* claim at that moment: a late worker whose task was reclaimed gets          *)
(* TaskNotOwned (complete_task).                                              *)
OnlyOwnerCompletes ==
    [][\A t \in Tasks : task'[t].status = "completed" /\ task[t].status # "completed" =>
          \E e \in exec \ exec' : e.task = t /\ e.worker = task[t].claimedBy]_vars

(* Seen from outside, the table is the task lifecycle of TaskLifecycle.       *)
Lifecycle == INSTANCE TaskLifecycle WITH limit <- MaxAttempts,
                 phase <- [t \in Tasks |-> task[t].status],
                 starts <- [t \in Tasks |-> task[t].attempt]
ImplementsLifecycle == Lifecycle!LSpec

(* If activities return and some worker eventually stays up, every task that  *)
(* entered the queue reaches a terminal status, whatever crashes on the way:  *)
(* the exception is a task handed back by deregister_worker on its last       *)
(* attempt.                                                                   *)
EventuallySettled ==
    ActivitiesReturn /\ (\E w \in Workers : <>[]CanPoll(w)) =>
        \A t \in Tasks : task[t].status = "pending" ~>
            \/ task[t].status \in Terminal
            \/ task[t].status = "pending" /\ t \in handedBack /\ Exhausted(t)
=============================================================================
