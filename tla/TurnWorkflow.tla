---------------------------- MODULE TurnWorkflow ----------------------------
(***************************************************************************)
(* The durable turn of one session: the workflow row of the session, its   *)
(* tasks process_input -> reason -> act -> reason -> ..., the workers that *)
(* run them and schedule the next one (unified_worker.rs), the runner calls *)
(* of the server replicas (durable_runner.rs: start_run, cancel_run,       *)
(* resume_after_tool_results) and the reaper that ends dead turns          *)
(* (app_builder.rs).                                                       *)
(*                                                                         *)
(* Every call that reads or writes the database is a step of its own, so   *)
(* that a step of another process may come in between.  Tasks follow the   *)
(* lifecycle that TaskQueue implements: a claimed task may be reclaimed at *)
(* any time, because its worker may be slow or gone.  A runner holds a     *)
(* mutex for the length of a call: each server has one call in progress.   *)
(***************************************************************************)
EXTENDS Integers, Sequences, FiniteSets

CONSTANTS
    Workers,        \* worker ids
    NoWorker,       \* claimed_by IS NULL
    Servers,        \* server replicas, each with its own runner
    Messages,       \* user messages and task wakes that may be sent
    MaxAttempts,    \* max_attempts of the default retry policy
    MaxIterations,  \* max_iterations of the agent
    MaxTasks,       \* bound: tasks the workflow is given in all
    Commands,       \* what clients do: message, resume, cancel
    Reports,        \* what happens inside activities: results, blocked, waiting
    CrashPoints     \* where an execution, a call or the reaper may be lost

ASSUME TurnWorkflowAssumption ==
    /\ NoWorker \notin Workers
    /\ MaxAttempts \in Nat \ {0}
    /\ MaxIterations \in Nat \ {0}
    /\ MaxTasks \in Nat \ {0}
    /\ Commands \subseteq {"message", "resume", "cancel"}
    /\ Reports \subseteq {"results", "blocked", "waiting"}

VARIABLES
    wf,        \* durable_workflow_instances.status, or none
    saved,     \* durable_workflow_instances.result
    session,   \* status of the session
    tasks,     \* the workflow's rows of durable_task_queue, in order of creation
    signals,   \* unprocessed USER_MESSAGE rows of durable_signals
    exec,      \* executions inside worker processes
    call,      \* the runner call each server is in
    reaping,   \* dead tasks the reaper has yet to act upon
    sent,      \* messages persisted
    \* Auxiliary variables: history the code does not keep.
    unread,    \* messages that no completed reason has read, of turns not given up
    ends,      \* how often each task's failure or completion ended its turn for the user
    dropped,   \* a process was lost after it ended a task or took a turn, before the step that follows
    lost       \* messages whose wake was lost with a process or drained in vain

vars == <<wf, saved, session, tasks, signals, exec, call, reaping, sent, unread, ends, dropped,
          lost>>

-----------------------------------------------------------------------------
(* State *)

TaskIds == 1..MaxTasks
Kinds == {"process_input", "reason", "act"}

(* parent is the task whose completion scheduled this one, 0 for a task of   *)
(* the runner; turn is the process_input task the turn began with.           *)
Rows == [kind : Kinds, status : {"pending", "claimed", "completed", "dead", "cancelled"},
         attempt : 0..MaxAttempts, owner : Workers \cup {NoWorker},
         parent : 0..MaxTasks, turn : TaskIds, iteration : Nat]

WorkflowStatuses == {"none", "pending", "running", "completed", "failed", "cancelled"}

(* The result column: nothing, the output of a cancelled turn, or the        *)
(* checkpoint (DurableTurnInput) a paused or finished turn leaves.           *)
NoResult == [kind |-> "none", turn |-> 0, iteration |-> 0]
CancelOutput == [NoResult EXCEPT !.kind = "output"]
Checkpoint(turn, n) == [kind |-> "checkpoint", turn |-> turn, iteration |-> n]
Results == [kind : {"none", "output", "checkpoint"}, turn : 0..MaxTasks, iteration : Nat]

(* Where an execution is: before complete_task or fail_task, and after. *)
BeforeEnd == {"check", "run", "complete", "fail"}
AfterEnd == {"drain", "effects", "schedule", "tryFail", "announce"}

(* What an activity returned, then what the planner made of it.  blocked: the *)
(* agent or harness is archived, or a hook blocks the prompt.                *)
Outcomes == [process_input |-> {"ok"},
             reason |-> {"tools", "final", "unsuccessful"} \cup (Reports \cap {"blocked"}),
             act |-> Reports]
Plans == {"reason", "act", "complete", "failed", "blocked", "wait"}
Failures == {"retryable", "permanent", "cancelled"}

Executions == [task : TaskIds, worker : Workers, attempt : 1..MaxAttempts,
               pc : BeforeEnd \cup AfterEnd,
               out : {"none"} \cup (UNION {Outcomes[k] : k \in Kinds}) \cup Plans \cup Failures,
               seen : SUBSET Messages]

Steps == {"idle", "start.claim", "start.enqueue", "start.signal", "start.create",
          "resume.activate", "resume.read", "resume.reset", "resume.enqueue",
          "cancel.tasks", "cancel.status", "cancel.settle"}
Idle == [step |-> "idle", from |-> NoResult]

Reaps == [task : TaskIds, why : {"exhausted", "sealed"}, step : {"reap.status", "reap.announce"}]

TypeOK ==
    /\ wf \in WorkflowStatuses
    /\ saved \in Results
    /\ session \in {"idle", "active", "waiting"}
    /\ tasks \in Seq(Rows) /\ Len(tasks) <= MaxTasks
    /\ signals \in Nat
    /\ exec \subseteq Executions
    /\ call \in [Servers -> [step : Steps, from : Results]]
    /\ reaping \subseteq Reaps
    /\ sent \subseteq Messages
    /\ unread \subseteq sent
    /\ ends \in [TaskIds -> Nat]
    /\ dropped \in BOOLEAN
    /\ lost \subseteq sent

Init ==
    /\ wf = "none" /\ saved = NoResult /\ session = "idle"
    /\ tasks = <<>> /\ signals = 0 /\ exec = {} /\ reaping = {}
    /\ call = [s \in Servers |-> Idle]
    /\ sent = {} /\ unread = {}
    /\ ends = [i \in TaskIds |-> 0]
    /\ dropped = FALSE /\ lost = {}

Ids == 1..Len(tasks)
WithStatus(st) == {i \in Ids : tasks[i].status = st}
Live == WithStatus("pending") \cup WithStatus("claimed")

NewTask(kind, parent, turn, n) ==
    [kind |-> kind, status |-> "pending", attempt |-> 0, owner |-> NoWorker,
     parent |-> parent, turn |-> turn, iteration |-> n]

Enqueue(row) == Len(tasks) < MaxTasks /\ tasks' = Append(tasks, row)

(* The process_input task a new turn begins with. *)
FirstTask == NewTask("process_input", 0, Len(tasks) + 1, 1)

(* UPDATE ... SET status = 'cancelled' WHERE status = 'pending' *)
CancelPending == tasks' = [i \in Ids |-> IF tasks[i].status = "pending"
                                         THEN [tasks[i] EXCEPT !.status = "cancelled"]
                                         ELSE tasks[i]]

MoveCall(s, step) == call' = [call EXCEPT ![s].step = step]
EndCall(s) == call' = [call EXCEPT ![s] = Idle]
MoveExec(e, f) == exec' = (exec \ {e}) \cup {f}
EndExec(e) == exec' = exec \ {e}

(* The steps at which a running workflow has nobody else to look after it. *)
Vital == {"drain", "effects", "schedule", "tryFail", "start.enqueue", "cancel.status", "reap.status"}

(* A process is lost at a step.  Until it has ended its task the reclaim loop *)
(* replaces it; afterwards nobody knows of the messages it was to see to.     *)
Drop(step) ==
    /\ dropped' = (dropped \/ step \in Vital)
    /\ lost' = IF step \in BeforeEnd THEN lost ELSE lost \cup unread

-----------------------------------------------------------------------------
(* start_run: the message is persisted and the session marked active before  *)
(* the runner is called.                                                     *)

SendMessage(s, m) ==
    /\ "message" \in Commands /\ call[s].step = "idle" /\ m \notin sent
    /\ sent' = sent \cup {m} /\ unread' = unread \cup {m}
    /\ session' = "active"
    /\ MoveCall(s, "start.claim")
    /\ UNCHANGED <<wf, saved, tasks, signals, exec, reaping, ends, dropped, lost>>

\* Mutant: only a claimed task holds a new turn back.
BugTurnIsActive == WithStatus("claimed") # {}

TurnIsActive == wf = "running" \/ WithStatus("claimed") # {}

(* try_claim_workflow_for_new_turn: one transaction. *)
StartClaim(s) ==
    /\ call[s].step = "start.claim"
    /\ \/ /\ wf = "none"
          /\ MoveCall(s, "start.create")
          /\ UNCHANGED <<wf, saved, tasks, dropped>>
       \/ /\ wf # "none" /\ TurnIsActive
          /\ MoveCall(s, "start.signal")
          /\ UNCHANGED <<wf, saved, tasks, dropped>>
       \/ /\ wf # "none" /\ ~TurnIsActive
          /\ MoveCall(s, "start.enqueue")
          /\ wf' = "running" /\ saved' = NoResult
          /\ CancelPending /\ dropped' = FALSE
    /\ UNCHANGED <<session, signals, exec, reaping, sent, unread, ends, lost>>

StartEnqueue(s) ==
    /\ call[s].step = "start.enqueue"
    /\ Enqueue(FirstTask)
    /\ EndCall(s)
    /\ UNCHANGED <<wf, saved, session, signals, exec, reaping, sent, unread, ends, dropped, lost>>

(* start_workflow_with_task: the loser of a race reuses the winner's task. *)
StartCreate(s) ==
    /\ call[s].step = "start.create"
    /\ EndCall(s)
    /\ \/ wf = "none" /\ wf' = "running" /\ Enqueue(FirstTask)
       \/ wf # "none" /\ UNCHANGED <<wf, tasks>>
    /\ UNCHANGED <<saved, session, signals, exec, reaping, sent, unread, ends, dropped, lost>>

StartSignal(s) ==
    /\ call[s].step = "start.signal"
    /\ signals' = signals + 1
    /\ EndCall(s)
    /\ UNCHANGED <<wf, saved, session, tasks, exec, reaping, sent, unread, ends, dropped, lost>>

-----------------------------------------------------------------------------
(* resume_after_tool_results: tool results arrive, or the wait times out, for *)
(* a session that waits for them.  The status is read first and written later. *)

ResumeBegin(s) ==
    /\ "resume" \in Commands /\ call[s].step = "idle" /\ session = "waiting"
    /\ MoveCall(s, "resume.activate")
    /\ UNCHANGED <<wf, saved, session, tasks, signals, exec, reaping, sent, unread, ends, dropped, lost>>

ResumeActivate(s) ==
    /\ call[s].step = "resume.activate"
    /\ session' = "active"
    /\ MoveCall(s, "resume.read")
    /\ UNCHANGED <<wf, saved, tasks, signals, exec, reaping, sent, unread, ends, dropped, lost>>

ResumeRead(s) ==
    /\ call[s].step = "resume.read"
    /\ call' = [call EXCEPT ![s] = IF wf = "completed" /\ saved.kind = "checkpoint"
                                   THEN [step |-> "resume.reset", from |-> saved]
                                   ELSE Idle]
    /\ UNCHANGED <<wf, saved, session, tasks, signals, exec, reaping, sent, unread, ends, dropped, lost>>

ResumeReset(s) ==
    /\ call[s].step = "resume.reset"
    /\ wf' = "pending" /\ saved' = NoResult
    /\ MoveCall(s, "resume.enqueue")
    /\ UNCHANGED <<session, tasks, signals, exec, reaping, sent, unread, ends, dropped, lost>>

ResumeEnqueue(s) ==
    /\ call[s].step = "resume.enqueue"
    /\ Enqueue(NewTask("reason", 0, call[s].from.turn, call[s].from.iteration))
    /\ EndCall(s)
    /\ UNCHANGED <<wf, saved, session, signals, exec, reaping, sent, unread, ends, dropped, lost>>

\* Mutant: the refused enqueue is reported to the caller and nothing is undone.
BugEnqueueFails(s) ==
    /\ call[s].step \in {"start.enqueue", "resume.enqueue"}
    /\ EndCall(s)
    /\ UNCHANGED <<wf, saved, session, tasks, signals, exec, reaping, sent, unread, ends, dropped, lost>>

(* The compensation of start_run and resume_after_tool_results when the      *)
(* enqueue is refused.                                                       *)
EnqueueFails(s) ==
    /\ call[s].step \in {"start.enqueue", "resume.enqueue"}
    /\ wf' = "completed"
    /\ saved' = IF call[s].step = "resume.enqueue" THEN call[s].from ELSE saved
    /\ unread' = {}
    /\ EndCall(s)
    /\ UNCHANGED <<session, tasks, signals, exec, reaping, sent, ends, dropped, lost>>

-----------------------------------------------------------------------------
(* The cancel command: cancel_run, then the session is settled even if         *)
(* cancel_run returned an error.                                              *)

CancelBegin(s) ==
    /\ "cancel" \in Commands /\ call[s].step = "idle" /\ session = "active"
    /\ MoveCall(s, "cancel.tasks")
    /\ UNCHANGED <<wf, saved, session, tasks, signals, exec, reaping, sent, unread, ends, dropped, lost>>

CancelTasks(s) ==
    /\ call[s].step = "cancel.tasks"
    /\ CancelPending
    /\ MoveCall(s, "cancel.status")
    /\ UNCHANGED <<wf, saved, session, signals, exec, reaping, sent, unread, ends, dropped, lost>>

CancelStatus(s) ==
    /\ call[s].step = "cancel.status"
    /\ IF wf = "none" THEN UNCHANGED <<wf, saved>>
                      ELSE wf' = "cancelled" /\ saved' = CancelOutput
    /\ MoveCall(s, "cancel.settle")
    /\ UNCHANGED <<session, tasks, signals, exec, reaping, sent, unread, ends, dropped, lost>>

CancelRunFails(s) ==
    /\ call[s].step \in {"cancel.tasks", "cancel.status"} \cap CrashPoints
    /\ MoveCall(s, "cancel.settle")
    /\ Drop(call[s].step)
    /\ UNCHANGED <<wf, saved, session, tasks, signals, exec, reaping, sent, unread, ends>>

CancelSettle(s) ==
    /\ call[s].step = "cancel.settle"
    /\ session' = "idle"
    /\ unread' = {}
    /\ EndCall(s)
    /\ UNCHANGED <<wf, saved, tasks, signals, exec, reaping, sent, ends, dropped, lost>>

-----------------------------------------------------------------------------
(* execute_task on a worker, up to the end of the task *)

\* Mutant: the last attempt is retried once more.
BugAttemptsLeft(i) == tasks[i].attempt <= MaxAttempts

AttemptsLeft(i) == tasks[i].attempt < MaxAttempts

ClaimTask(w, i) ==
    /\ tasks[i].status = "pending" /\ AttemptsLeft(i)
    /\ tasks' = [tasks EXCEPT ![i].status = "claimed", ![i].owner = w, ![i].attempt = @ + 1]
    /\ exec' = exec \cup {[task |-> i, worker |-> w, attempt |-> tasks[i].attempt + 1,
                           pc |-> "check", out |-> "none", seen |-> {}]}
    /\ UNCHANGED <<wf, saved, session, signals, call, reaping, sent, unread, ends, dropped, lost>>

(* A task of a cancelled workflow is failed instead of executed, unless the   *)
(* status cannot be read.                                                    *)
CheckCancelled(e) ==
    /\ e.pc = "check"
    /\ \/ wf = "cancelled" /\ MoveExec(e, [e EXCEPT !.pc = "fail", !.out = "cancelled"])
       \/ /\ wf # "cancelled" \/ "check" \in CrashPoints
          /\ MoveExec(e, [e EXCEPT !.pc = "run"])
    /\ UNCHANGED <<wf, saved, session, tasks, signals, call, reaping, sent, unread, ends, dropped, lost>>

(* The activity: process_input marks the session active, reason reads all     *)
(* messages so far, and an activity that is blocked ends the turn for the     *)
(* user (dependency_blocked, user_prompt_blocked) before it returns.          *)
RunActivity(e) ==
    LET kind == tasks[e.task].kind
        ran == [e EXCEPT !.seen = IF kind = "reason" THEN sent ELSE {}]
    IN  /\ e.pc = "run"
        /\ \/ \E out \in Outcomes[kind] \ {"blocked"} :
                /\ MoveExec(e, [ran EXCEPT !.pc = "complete", !.out = out])
                /\ session' = IF kind = "process_input" THEN "active" ELSE session
                /\ UNCHANGED ends
           \/ \E out \in {"retryable", "permanent"} :
                /\ MoveExec(e, [ran EXCEPT !.pc = "fail", !.out = out])
                /\ session' = IF kind = "process_input" THEN "active" ELSE session
                /\ UNCHANGED ends
           \/ /\ "blocked" \in Outcomes[kind]
              /\ MoveExec(e, [e EXCEPT !.pc = "complete", !.out = "blocked"])
              /\ session' = "idle"
              /\ ends' = [ends EXCEPT ![e.task] = @ + 1]
        /\ UNCHANGED <<wf, saved, tasks, signals, call, reaping, sent, unread, dropped, lost>>

\* Mutant: completes a task whoever has claimed it by now.
BugOwns(e) == tasks[e.task].owner = e.worker

Owns(e) == tasks[e.task].status = "claimed" /\ tasks[e.task].owner = e.worker

(* complete_task; an execution that is refused schedules nothing. *)
CompleteTask(e) ==
    /\ e.pc = "complete"
    /\ IF Owns(e)
       THEN /\ tasks' = [tasks EXCEPT ![e.task].status = "completed"]
            /\ MoveExec(e, [e EXCEPT !.pc = "drain", !.seen = {}])
            /\ unread' = IF e.out \in {"unsuccessful", "blocked"} THEN unread ELSE unread \ e.seen
       ELSE EndExec(e) /\ UNCHANGED <<tasks, unread>>
    /\ UNCHANGED <<wf, saved, session, signals, call, reaping, sent, ends, dropped, lost>>

(* fail_task_with_retry: any execution may fail a claimed task. *)
FailTask(e) ==
    LET row == tasks[e.task]
    IN  /\ e.pc = "fail"
        /\ \/ row.status # "claimed" /\ EndExec(e) /\ UNCHANGED tasks
           \/ /\ row.status = "claimed" /\ e.out = "retryable" /\ AttemptsLeft(e.task)
              /\ tasks' = [tasks EXCEPT ![e.task].status = "pending", ![e.task].owner = NoWorker]
              /\ EndExec(e)
           \/ /\ row.status = "claimed" /\ (e.out # "retryable" \/ ~AttemptsLeft(e.task))
              /\ tasks' = [tasks EXCEPT ![e.task].status = "dead"]
              /\ MoveExec(e, [e EXCEPT !.pc = "tryFail", !.seen = {}])
        /\ UNCHANGED <<wf, saved, session, signals, call, reaping, sent, unread, ends, dropped, lost>>

\* Mutant: the failure is announced and the workflow left running.
BugTryFailWorkflow(e) ==
    /\ e.pc = "tryFail"
    /\ IF wf = "running" /\ e.out # "cancelled"
       THEN MoveExec(e, [e EXCEPT !.pc = "announce"])
       ELSE EndExec(e)
    /\ UNCHANGED <<wf, saved, session, tasks, signals, call, reaping, sent, unread, ends, dropped, lost>>

(* try_fail_workflow.  The result of failing the task of a cancelled          *)
(* workflow is ignored.                                                       *)
TryFailWorkflow(e) ==
    /\ e.pc = "tryFail"
    /\ wf' = IF wf = "running" THEN "failed" ELSE wf
    /\ IF wf = "running" /\ e.out # "cancelled"
       THEN MoveExec(e, [e EXCEPT !.pc = "announce"])
       ELSE EndExec(e)
    /\ UNCHANGED <<saved, session, tasks, signals, call, reaping, sent, unread, ends, dropped, lost>>

(* terminalize_failed_turn: the input of process_input has no turn_id yet, so *)
(* the failure of that task is not announced.                                *)
AnnounceFailure(e) ==
    /\ e.pc = "announce"
    /\ IF tasks[e.task].kind = "process_input"
       THEN UNCHANGED <<session, ends>>
       ELSE session' = "idle" /\ ends' = [ends EXCEPT ![e.task] = @ + 1]
    /\ unread' = {}
    /\ EndExec(e)
    /\ UNCHANGED <<wf, saved, tasks, signals, call, reaping, sent, dropped, lost>>

-----------------------------------------------------------------------------
(* schedule_next_activity *)

(* drains_wake_signals_after *)
Drains(kind, out) == kind = "act" \/ (kind = "reason" /\ out = "final")

LastIteration(i) == tasks[i].iteration >= MaxIterations

\* Mutant: wakes that were drained do not continue the turn.
BugPlan(i, out, wakes) ==
    LET kind == tasks[i].kind
    IN  CASE kind = "process_input" -> "reason"
          [] kind = "reason" /\ out = "tools" -> IF LastIteration(i) THEN "complete" ELSE "act"
          [] kind = "reason" /\ out = "final" -> "complete"
          [] kind = "reason" /\ out \notin {"tools", "final"} -> "failed"
          [] kind = "act" /\ out = "blocked" -> "blocked"
          [] kind = "act" /\ out = "waiting" -> "wait"
          [] OTHER -> "reason"

(* plan_next_turn of the engine; waiting stands for a pause the client can    *)
(* answer.                                                                   *)
Plan(i, out, wakes) ==
    LET kind == tasks[i].kind
    IN  CASE kind = "process_input" -> "reason"
          [] kind = "reason" /\ out = "tools" -> IF LastIteration(i) THEN "complete" ELSE "act"
          [] kind = "reason" /\ out = "final" -> IF wakes > 0 /\ ~LastIteration(i) THEN "reason" ELSE "complete"
          [] kind = "reason" /\ out \notin {"tools", "final"} -> "failed"
          [] kind = "act" /\ out = "blocked" -> "blocked"
          [] kind = "act" /\ out = "waiting" -> "wait"
          [] OTHER -> "reason"

\* Mutant: an act hands the iteration on as it is.
BugNextIteration(i, plan) ==
    CASE tasks[i].kind = "process_input" -> 1
      [] tasks[i].kind = "reason" /\ plan = "reason" -> tasks[i].iteration + 1
      [] OTHER -> tasks[i].iteration

(* The iteration of the task or checkpoint that follows. *)
NextIteration(i, plan) ==
    CASE tasks[i].kind = "process_input" -> 1
      [] tasks[i].kind # "process_input" /\ plan \in {"reason", "wait"} -> tasks[i].iteration + 1
      [] OTHER -> tasks[i].iteration

(* count_drained_wakes, then the planner decides. *)
DrainWakes(e) ==
    LET drained == IF Drains(tasks[e.task].kind, e.out) THEN signals ELSE 0
        plan == Plan(e.task, e.out, drained)
    IN  /\ e.pc = "drain"
        /\ signals' = signals - drained
        /\ MoveExec(e, [e EXCEPT !.pc = "effects", !.out = plan])
        /\ unread' = IF plan \in {"failed", "blocked"} THEN {} ELSE unread
        /\ lost' = IF drained > 0 /\ (plan = "wait" \/ (plan = "complete" /\ LastIteration(e.task)))
                   THEN lost \cup unread ELSE lost
        /\ UNCHANGED <<wf, saved, session, tasks, call, reaping, sent, ends, dropped>>

(* perform_effects: what the user is told comes before the workflow row. *)
PerformEffects(e) ==
    /\ e.pc = "effects"
    /\ session' = CASE e.out \in {"complete", "failed"} -> "idle"
                    [] e.out = "wait" -> "waiting"
                    [] OTHER -> session
    /\ ends' = IF e.out \in {"complete", "failed"} THEN [ends EXCEPT ![e.task] = @ + 1] ELSE ends
    /\ MoveExec(e, [e EXCEPT !.pc = "schedule"])
    /\ UNCHANGED <<wf, saved, tasks, signals, call, reaping, sent, unread, dropped, lost>>

(* The next task is enqueued, or complete_workflow writes the row whatever    *)
(* its status is.                                                            *)
ScheduleNext(e) ==
    LET row == tasks[e.task]
        n == NextIteration(e.task, e.out)
    IN  /\ e.pc = "schedule"
        /\ IF e.out \in {"reason", "act"}
           THEN Enqueue(NewTask(e.out, e.task, row.turn, n)) /\ UNCHANGED <<wf, saved>>
           ELSE wf' = "completed" /\ saved' = Checkpoint(row.turn, n) /\ UNCHANGED tasks
        /\ EndExec(e)
        /\ UNCHANGED <<session, signals, call, reaping, sent, unread, ends, dropped, lost>>

(* The process crashes, shuts down, or a call of the execution returns an     *)
(* error that is only logged.                                                *)
LoseExecution(e) ==
    /\ e.pc \in CrashPoints
    /\ EndExec(e)
    /\ Drop(e.pc)
    /\ UNCHANGED <<wf, saved, session, tasks, signals, call, reaping, sent, unread, ends>>

(* The server crashes, or a call of the runner or the reaper returns an error. *)
LoseCall(s) ==
    /\ call[s].step \in CrashPoints
    /\ EndCall(s)
    /\ Drop(call[s].step)
    /\ UNCHANGED <<wf, saved, session, tasks, signals, exec, reaping, sent, unread, ends>>

(* The reaper goes on when it cannot write the status of a sealed turn. *)
LoseReap(r) ==
    /\ r.step \in CrashPoints
    /\ \/ reaping' = reaping \ {r}
       \/ /\ r.why = "sealed" /\ r.step = "reap.status"
          /\ reaping' = (reaping \ {r}) \cup {[r EXCEPT !.step = "reap.announce"]}
    /\ Drop(r.step)
    /\ UNCHANGED <<wf, saved, session, tasks, signals, exec, call, sent, unread, ends>>

-----------------------------------------------------------------------------
(* reclaim_stale_tasks and what the reaper does with its result *)

Reclaim(i) ==
    /\ tasks[i].status = "claimed" /\ AttemptsLeft(i)
    /\ tasks' = [tasks EXCEPT ![i].status = "pending", ![i].owner = NoWorker]
    /\ UNCHANGED <<wf, saved, session, signals, exec, call, reaping, sent, unread, ends, dropped, lost>>

(* deregister_worker: a worker that shuts down has aborted its executions and *)
(* hands back every claim it holds, whether or not an attempt is left.        *)
HandBack(w) ==
    LET mine == {i \in WithStatus("claimed") : tasks[i].owner = w}
        strands == \E i \in mine : ~AttemptsLeft(i)
    IN  /\ mine # {}
        /\ ~\E e \in exec : e.worker = w
        /\ tasks' = [i \in Ids |-> IF i \in mine
                                   THEN [tasks[i] EXCEPT !.status = "pending", !.owner = NoWorker]
                                   ELSE tasks[i]]
        /\ dropped' = (dropped \/ strands)
        /\ lost' = IF strands THEN lost \cup unread ELSE lost
        /\ UNCHANGED <<wf, saved, session, signals, exec, call, reaping, sent, unread, ends>>

(* No attempt is left, or the forward-progress guard seals the task. *)
ReclaimDead(i, why) ==
    /\ tasks[i].status = "claimed"
    /\ why = IF AttemptsLeft(i) THEN "sealed" ELSE "exhausted"
    /\ tasks' = [tasks EXCEPT ![i].status = "dead",
                              ![i].owner = IF why = "sealed" THEN NoWorker ELSE @]
    /\ reaping' = reaping \cup {[task |-> i, why |-> why, step |-> "reap.status"]}
    /\ UNCHANGED <<wf, saved, session, signals, exec, call, sent, unread, ends, dropped, lost>>

(* An exhausted turn fails its workflow if it is running and announces it if   *)
(* it did; a sealed turn does both whatever the status is.                    *)
ReapStatus(r) ==
    LET wins == r.why = "sealed" \/ wf = "running"
    IN  /\ r.step = "reap.status"
        /\ wf' = IF wins THEN "failed" ELSE wf
        /\ reaping' = (reaping \ {r}) \cup
                         (IF wins THEN {[r EXCEPT !.step = "reap.announce"]} ELSE {})
        /\ UNCHANGED <<saved, session, tasks, signals, exec, call, sent, unread, ends, dropped, lost>>

ReapAnnounce(r) ==
    /\ r.step = "reap.announce"
    /\ session' = "idle"
    /\ ends' = [ends EXCEPT ![r.task] = @ + 1]
    /\ unread' = {}
    /\ reaping' = reaping \ {r}
    /\ UNCHANGED <<wf, saved, tasks, signals, exec, call, sent, dropped, lost>>

-----------------------------------------------------------------------------
StartStep(s) == StartClaim(s) \/ StartEnqueue(s) \/ StartCreate(s) \/ StartSignal(s)
ResumeStep(s) == ResumeActivate(s) \/ ResumeRead(s) \/ ResumeReset(s) \/ ResumeEnqueue(s) \/ EnqueueFails(s)
CancelStep(s) == CancelTasks(s) \/ CancelStatus(s) \/ CancelSettle(s)
CallStep(s) == StartStep(s) \/ ResumeStep(s) \/ CancelStep(s)

RunStep(e) == \/ CheckCancelled(e) \/ RunActivity(e) \/ CompleteTask(e)
              \/ FailTask(e) \/ TryFailWorkflow(e) \/ AnnounceFailure(e)
ScheduleStep(e) == DrainWakes(e) \/ PerformEffects(e) \/ ScheduleNext(e)
ReapStep(r) == ReapStatus(r) \/ ReapAnnounce(r)

Next ==
    \/ \E s \in Servers : \/ \E m \in Messages : SendMessage(s, m)
                          \/ ResumeBegin(s) \/ CancelBegin(s)
                          \/ CallStep(s) \/ CancelRunFails(s) \/ LoseCall(s)
    \/ \E w \in Workers : HandBack(w) \/ \E i \in Ids : ClaimTask(w, i)
    \/ \E e \in exec : RunStep(e) \/ ScheduleStep(e) \/ LoseExecution(e)
    \/ \E i \in Ids : Reclaim(i) \/ \E why \in {"exhausted", "sealed"} : ReclaimDead(i, why)
    \/ \E r \in reaping : ReapStep(r) \/ LoseReap(r)

Spec == Init /\ [][Next]_vars

(* Nobody executes task i under its present claim. *)
Abandoned(i) == ~\E e \in exec : e.task = i /\ e.worker = tasks[i].owner

(* Every activity returns.  The worker enforces no timeout and heartbeats for *)
(* as long as the activity runs, so this is a hypothesis of RunningEnds.      *)
ActivitiesReturn == \A w \in Workers : WF_vars(\E e \in exec : e.worker = w /\ RunActivity(e))

(* Calls return, workers poll and go on after each call, and the reclaim loop *)
(* finds the claims nobody heartbeats for.                                    *)
Fairness ==
    /\ \A s \in Servers : WF_vars(CallStep(s))
    /\ \A w \in Workers : /\ WF_vars(\E i \in Ids : ClaimTask(w, i))
                          /\ WF_vars(\E e \in exec : /\ e.worker = w /\ e.pc # "run"
                                                     /\ RunStep(e) \/ ScheduleStep(e))
    /\ WF_vars(\E i \in Ids : /\ Abandoned(i)
                              /\ Reclaim(i) \/ ReclaimDead(i, "exhausted"))
    /\ WF_vars(\E r \in reaping : ReapStep(r))

FairSpec == Spec /\ Fairness

-----------------------------------------------------------------------------
(* Properties *)

Successors(i) == {j \in Ids : tasks[j].parent = i}
Handling(i) == Cardinality({e \in exec : e.task = i /\ e.pc \in AfterEnd})
                 + Cardinality({r \in reaping : r.task = i})

(* A step of a turn is continued by one task or ends the turn for the user    *)
(* once, never both, and nobody else is still about to do either: however     *)
(* often the task was reclaimed, executed twice or failed late, only one      *)
(* execution or the reaper gets past complete_task, fail_task or reclaim.     *)
OneOutcomePerTask ==
    \A i \in Ids : /\ Cardinality(Successors(i)) + ends[i] <= 1
                   /\ Handling(i) + Cardinality(Successors(i)) <= 1

(* The tasks that a worker has claimed or can still claim. *)
Workable == WithStatus("claimed") \cup {i \in WithStatus("pending") : AttemptsLeft(i)}

(* A task somebody works on or can claim, an execution on its way to the next *)
(* task or the end, the runner call that will enqueue or cancel, or the       *)
(* reaper looks after the workflow.                                           *)
LookedAfter == \/ Workable # {}
               \/ \E e \in exec : e.pc \in AfterEnd
               \/ \E s \in Servers : call[s].step \in {"start.enqueue", "cancel.status"}
               \/ reaping # {}

(* A running workflow is orphaned only if a worker is lost between complete_task *)
(* or fail_task and what must follow, a server between try_claim_workflow_for_   *)
(* new_turn and enqueue_task or between the two steps of cancel_run, the reaper  *)
(* before try_fail_workflow, or if a worker that shuts down hands back a task on *)
(* its last attempt (deregister_worker).  No other loss, retry or reclaim        *)
(* orphans it.                                                                   *)
OrphanedOnlyByDrop == wf = "running" /\ ~dropped => LookedAfter

(* The tasks that are live or whose successor is being scheduled. *)
InFlight == Live \cup {e.task : e \in {f \in exec : f.pc \in {"drain", "effects", "schedule"}}}

(* However many replicas take messages at once, a session has one step of one *)
(* turn in flight: a message starts a turn only when nothing is in flight     *)
(* (try_claim_workflow_for_new_turn, start_workflow_with_task).  Holds as     *)
(* long as nobody cancels and no paused turn is resumed.                      *)
OneTaskAtATime == Cardinality(InFlight) <= 1

Quiet == /\ exec = {} /\ Workable = {} /\ reaping = {}
         /\ \A s \in Servers : call[s] = Idle

(* However sends, drains, the end of a turn and the start of the next one     *)
(* interleave, a message is read by a reason that completes after it was sent *)
(* or its signal is still there for the next turn.  Only these take a wake    *)
(* away: a process lost in start_run, or after it ended a task and so also    *)
(* between the destructive drain of schedule_next_activity and the enqueue    *)
(* that follows; a hand-back on the last attempt; signals drained by a turn   *)
(* that then pauses, or is at its iteration limit.  Holds as long as nobody   *)
(* cancels and no paused turn is resumed.                                     *)
WakesAreKept == Quiet /\ unread \ lost # {} => signals > 0

(* If activities return, every started workflow leaves the status running or   *)
(* was orphaned by one of the losses that OrphanedOnlyByDrop names.            *)
RunningEnds == ActivitiesReturn => (wf = "running" ~> (wf # "running" \/ dropped))
=============================================================================
