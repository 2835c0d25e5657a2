# Verification of the Everruns durable execution core

This directory holds TLA+ modules, TLC configurations and TLAPS proofs for the
part of Everruns that makes agent work survive crashes: the durable task
queue, the event log of workflows, the workers, the workflow that one turn
of a session is, the journal of a turn with provider-native asynchronous tools,
background tasks with their reaper, and the schedule dispatcher. Every definition is
translated from the Rust and SQL source; `PROJECT.json` names the lines.

## 1. Inventory

| Component | State | Operations | Interacts with |
|---|---|---|---|
| Durable task queue (`durable/src/persistence/postgres.rs`) | `durable_task_queue`, `durable_workers` | enqueue, claim, heartbeat, complete, fail with retry, reclaim stale, cancel pending, register, drain, deregister | workers call it; the reaper and the runner call it |
| Workflow event log (`postgres.rs`, `task_events.rs`) | `durable_workflow_events`, locks on `durable_workflow_instances` | `append_event`, the `ActivityStarted` inserts of `claim_task` | its latest fact is the progress token of the queue's forward-progress guard |
| Worker process (`worker/src/unified_worker.rs`) | executions in memory | poll, execute, heartbeat, complete or fail, schedule the next activity | queue, event log, workflow row, session |
| Durable runner (`worker/src/durable_runner.rs`) | none of its own, a mutex around a call | `start_run`, `resume_after_tool_results`, `cancel_run` | called by the session commands, writes workflow row and queue |
| Turn planner (`engine/src/turn.rs`, `host/src/turn_strategy.rs`) | the checkpoint that travels with the tasks | `plan_next_turn`, `perform_effects` | called by the worker after each activity |
| Session commands (`server/src/domains/...`, `tool_result_timeout.rs`) | session status | create a message, submit tool results, time out, cancel | runner |
| Stale-task reaper (`server/src/app_builder.rs`, `durable_failure.rs`, `durable_seal.rs`) | none | reclaim pass, fail dead workflows, announce sealed turns | queue, workflow row, session |
| Native async turn machine (`provider`, `engine`, `host` `/src/native_async.rs`, `engine/src/execution/reason.rs`, `server/src/storage/native_async_store.rs`) | the journal row with its lease, a checkpoint and jobs in memory | acquire, load, recover, register and launch calls, settle, deliver, stream, commit, release, cancel | provider, transcript of the session, tools |
| Session tasks and background runs (`core/src/session_task.rs`, `platform/src/background_run.rs`, `server/src/storage/session_task_store.rs`) | `session_tasks` row, detached runs | create, update, cancel, heartbeat, poll for cancel, finish, notify | observers of the task, reaper |
| Session-task reaper (`worker/src/session_task_reaper.rs`) | none | scan for stale heartbeats, re-attach, fail, prune | session tasks; is itself a scheduled task |
| Schedule dispatcher (`durable/src/scheduler/mod.rs`, `server/src/domains/schedules/commands.rs`) | `durable_schedules`, `durable_schedule_executions` | claim, count, create the record, trigger, settle, advance; pause, resume, enable, trigger, delete | queue and workflows are its targets |

Not modelled yet: circuit breakers, the workflow executor with replay and
snapshots, the worker pool with its backpressure, the organisation-wide limit of
active turns, the arithmetic of retry delays. Not planned: API, authorisation,
providers, MCP, integrations, CLI, UI (requests and data, no protocol of their
own). They are most of the 600,000 lines of the repository; what is modelled is
where several processes write the same rows. The full list with reasons is
under `components` in `PROJECT.json`.

What is hard here. No call of the task queue carries a fencing token: a worker that was slow may
complete, fail or heartbeat a task that has been reclaimed and claimed again.
Nothing spans two statements of the turn: between the end of a task and the
enqueue of the next one, between the check and the update of a session, between
the claim of a workflow and its first task, any process may crash or another
may step in. The journal of a native turn does have a fence, but the lease may
lapse under an owner that goes on talking to the provider. A session task is
fenced only where the caller asks for it, and a schedule's claim not at all
after thirty seconds. No activity runs under a timeout: one that hangs is heartbeated
for ever. Two kinds of writers number the events of one workflow by
different rules. `hazards` in `PROJECT.json` lists these places line by line.

What makes the parts correct:

- queue: one live claim per attempt, terminal is final, every task settles if
  activities return, the forward-progress guard counts what its token can tell;
- event log: numbers without gaps, a claim never conflicts, retries mean
  progress, no deadlock among claims;
- turn: one outcome per task, a running workflow has somebody responsible, one
  step in flight, wakes are lost only in named ways, turns end if activities return;
- native async turn: unsafe tools start once, one owner submits an output, the
  journal moves forward, a completed turn left nothing behind, attempts end;
- session task: finished is final and is reported, attempts are bounded, orphans
  end;
- schedule: one target per occurrence unless clocks or claims fail, a bounded
  overshoot of the limit, what is due is served while there are occurrences to come.

## 2. Modules

| Module | What it is |
|---|---|
| `TaskLifecycle` | abstract specification: what the queue promises about a task |
| `TaskQueue` | the queue, workers and reclaim passes; implements `TaskLifecycle` |
| `TaskQueueProofs` | theorems about `TaskQueue` |
| `EventLog` | the writers of a workflow's events, at the level of row locks |
| `EventLogProofs` | theorems about `EventLog` |
| `TurnWorkflow` | the turn of one session: workflow row, tasks, workers, runner calls, reaper |
| `TurnWorkflowProofs` | theorems about `TurnWorkflow` |
| `NativeAsync` | the journal of one turn with native asynchronous calls, its lease, and the attempts that work from it |
| `NativeAsyncProofs` | theorems about `NativeAsync` |
| `SessionTasks` | one background tool run, its row and the reaper passes |
| `SessionTasksProofs` | theorems about `SessionTasks` |
| `Scheduler` | one schedule, the instances that dispatch it, the client that edits it |
| `SchedulerProofs` | theorems about `Scheduler` |
| `MC...` | instances for TLC |

### TaskQueue

One action is one SQL statement or transaction. `task` is the table, `exec` what
worker processes believe they run, `proc` the processes, `worker` their
registration, `events` the next number and the progress token of each workflow.
Time is two fields of a row: `visible` (has `visible_at` passed) and `heartbeat`
(is `heartbeat_at` older than the threshold). `enqueue_task` and
`deregister_worker` are two statements without a transaction, hence two actions.
A claim whose reply is lost, a worker that crashes, a worker marked stopped that
is alive, and executions that outlive their claim are all behaviours. Four
auxiliary variables keep history the code does not keep: `handedBack`; `quiet`, the
recoveries in a row that found nothing new; `fresh`, the tasks that have seen a fact
since they were inserted or recovered; `preceded`, those whose log had facts before
them. `events` abstracts `EventLog`: a fact is any event except `ActivityStarted`. A
workflow in `Unstarted` has an empty log at first, which is what the executor leaves
between `create_workflow` and the append of its start event.

### EventLog

`append_event` is count, insert (up to the unique index), then foreign-key check
and commit; `claim_task` locks the workflows in order, reads the maxima, inserts
and commits. PostgreSQL is external: uncommitted rows are invisible, an insert
at an uncommitted number waits, the foreign-key check waits for a `FOR UPDATE`
lock, errors roll back.

### TurnWorkflow

Each database call of an execution, a runner call or the reaper is a step, so
that anything may come in between; `pc` and `step` say where it is. Tasks follow
the lifecycle that `TaskQueue` implements; `Reclaim` may happen at any time
because a worker may be slow or gone, and `HandBack` is the shutdown of a worker,
which requeues its claims whether or not an attempt is left. Simplifications: a message's reserved
slot and its persisted event are one step; a refused enqueue and the write that
compensates for it are one step; a "server" is one client command in progress,
which is how much the mutex of a runner lets happen. `waiting` stands for a pause
the client can answer, `blocked` for an archived agent or a hook that blocks.
`CrashPoints` names the steps at which an execution, a call or the reaper may be
lost, so that a run says which losses it assumes. The auxiliary variable
`dropped` records that one was lost at a step where nobody else looks after the
workflow (`Vital`), or that a task was handed back on its last attempt; a new turn
resets it. `OrphanedOnlyByDrop` says that these seven steps and the hand-back are the
only ones: a loss anywhere else is repaired by a retry, the reaper or the next
message. A pending task counts as looked after only while an attempt is left
(`Workable`). `lost` records the messages whose wake is gone: lost with a process, stranded
by a hand-back, or drained by a turn that reads nothing afterwards.

### NativeAsync

Every attempt of the reason activity is an owner with its own lease token. `journal`
is the row in the database, `chk` the checkpoint in an owner's memory, and every
save is one step that is applied, refused by the fence, or applied with its reply
lost (`Saved`, `NotSaved`, `Save`). `LeaseLapses` may happen at any time, which is
what the database clock allows against a slow process; `Crash` ends an owner
between any two steps; `Interrupt` is a cancelled turn or a lease that could not be
renewed. `Opening`, `Rounds` and `Ending` are the parts of `execute_reason`; jobs take
the lock of their concurrency class, then a permit, then run (`JobLock`,
`JobStart`, `JobFinish`). The states of a call are those of `PendingCallState`, with
`Ready` split by what the output says, since recovery and cancellation write
outputs of their own. Act emits the result of a tool to the transcript and goes on when
that fails (`EmitCompleted`). One number names a request, its response and its message.
`emitted`, `runs`, `sentBy` and `unlogged` (results that could not be emitted) are history the code does not keep. The standalone loop
of the coordinator (`pump`) repeats steps that are modelled and is left out.

### SessionTasks

The row, the update rule `apply_task_update` (terminal is final, `expected_attempt`
is a fence, a bump restarts), the registry that reads the prior state in a separate
call, commits, and tells waker and observers in a step after the commit (`Finish`, `Tells`,
`Told`), the detached run with heartbeat and cancel
watch, and the reaper, call by call: scan, get, supersede and start, or fail, then
retention. A run is named by the attempt it was started for and by who started it, so
that two executors of one attempt are two runs. Only background tools are modelled:
they ask for no input, so `awaiting_input` and the messages of a task are left out.
`flagged` is what the task's spec says of re-attachment, `safe` what the tool's hints
say. `notified` (how often the end was reported), `blind` (the update that ended the task
could not read it first) and `missed` (a process was lost between the commit and the
report) are history.

### Scheduler

Time is counted in occurrences of the cron expression, by the clock of the database,
which the claims use. The next trigger is calculated from the clock of the process,
which may be off by `MaxSkew` (`ProcessClocks`), and there is none after `LastOccurrence`,
which a cron expression with a year field has (`CalculateFails`). An instance claims a due row,
counts running records, creates its own, makes the target, settles the record and
advances the trigger, one call each; `Abort` is a call that fails or an instance that
is lost, `TriggerFails` a target that cannot be made, `Lapse` the end of the thirty
seconds of a claim, under a live instance too. `pause` and `resume` are two updates
each, the second of which may fail unnoticed. The limit is always set (a schedule
without one skips the count), and the registration and heartbeats of instances are
left out because no claim consults them. `disturbed` records that a claim was taken
over, that a client moved the trigger, or that an instance calculated a trigger which is
not after the occurrence it served: the three events after which an occurrence may get
a second target.

## 3. Runs

Passing:

| Run | Shows | Distinct states |
|---|---|---|
| `TaskQueueSafety` | claims are fenced, terminal is final, only the owner completes, the overshoot of the pending limit is bounded | 1.5 M |
| `TaskQueueLive` | the lifecycle is implemented, every task settles if activities return; what the forward-progress guard counts, for a task inserted into an empty and into a started log; a standalone task is exempt from it | 0.5 M |
| `EventLogRaces` | dense numbers, no claim conflicts, conflicts mean progress, claims do not deadlock, every call ends | 0.25 M |
| `TurnRetry` | two workers with retries and hand-backs, processes lost at any step: one outcome per task, orphaned only by a loss at a vital step or a hand-back on the last attempt | 1.1 M |
| `TurnCommands` | the same orphan property with all client commands, pauses and losses at every step | 3.1 M |
| `TurnWakes` | one step in flight, wakes lost only in the named ways, and turns leave the status running if activities return, or were orphaned; with two replicas, all kinds of reports and losses at every step | 0.13 M |
| `NativeAsyncFence` | two overlapping attempts: unsafe tools start once, one owner submits, errors and emitted results are recorded before they are submitted, completion is total, the journal moves forward | 2.3 M |
| `NativeAsyncLive` | an attempt that loaded the journal ends, with two calls of one class and one permit | 0.2 M |
| `SessionTasks` | finished is final, reported unless a read or a process failed, never falsely marked orphaned; attempts bounded; orphans end | 34 k |
| `Scheduler` | one target per occurrence but for the three exceptions, bounded overshoot, due schedules are served | 1.1 M |

Bounds. Two workers are what a race for a claim needs, and three tasks with
two callers what an overshoot of a limit of one needs; two attempts for one of
them give one retry and a last attempt; a seal threshold of two
distinguishes counting from resetting, and needs the four attempts of `TaskQueueLive`,
whose workflow starts with an empty log: the one fact may come before the task or
between two recoveries; a standalone task runs beside it. `MaxSeq` bounds events appended outside
claims, `MaxEnqueuers` the callers inside `enqueue_task`. Two workflows and two
claims are enough for a cycle of locks, three appends on two workflows for a
conflict beside an unrelated writer. In `TurnWorkflow`, `MaxTasks` bounds the
rows of the session: `TurnWakes`, which checks liveness, has room for every task its
turns can make, `TurnCommands` for a pause and what follows it, and `TurnRetry` stops at
the act of a turn, where every kind of task has been retried.
`TurnWakes` has two messages, so that the second meets the first one's turn at every
step or starts a turn of its own, and room for the tasks of both turns. It has one
attempt per task, because that a task with more attempts settles is what
`EventuallySettled` shows of the queue; what `RunningEnds` adds is that the chain of
tasks ends at the iteration limit and that whoever is lost is replaced. `TurnRetry` has the
second worker and the second attempt.
`NativeAsyncFence` has two owners, since a takeover needs a second one, and an
asynchronous and a synchronous call; owners are symmetric, which is sound because the
run checks no liveness. Three requests leave room for one continuation on each side
of a takeover. `NativeAsyncLive` trades the second owner for a third call, so that two
jobs wait for one lock and one permit. `SessionTasks` has one
reaper, as its recurring schedule does, and two runs at once come from a superseded run that
is still alive; overlapping passes are in `SessionTasksDoubleReap`, and the theorems of
section 5 are about any number of them. Two attempts give one re-attachment and a last
attempt.
`Scheduler` needs two instances for a takeover and two occurrences for a trigger that
moves; the second is the last of its cron expression, so that one is followed by another
and one by none. `MaxFaults` bounds lost instances, failed calls and lapses of a live claim,
`MaxCommands` the client. `MaxRecords` bounds what would go on for ever: as long as fewer
records exist clocks may be off by one occurrence and a schedule without an upcoming
occurrence is given up to be claimed again. With three records everything holds as
well (2.9 M states), which takes more time than a run should.
Deadlock is checked in `SessionTasks`, whose reaper always has a next pass. The other
systems may stop when there is no work left or a bound is reached.

Fairness. Workers keep polling and go on after each call; the reclaim loop ticks every ten seconds under a supervisor
that restarts it; calls of a live server return. Fairness is never assumed for
crashes, shutdowns, messages or commands. That an activity returns is not part of
it: the timeouts of a task are only stored (`postgres.rs:227`, 796), and `execute_task`
(`unified_worker.rs:1035-1129`) awaits the activity while a task beside it sends heartbeats. It is
a hypothesis of the two properties that need it, `ActivitiesReturn` in `EventuallySettled`
and in `RunningEnds`; `EventuallySettled` also assumes in the formula that some worker
eventually stays up. In `NativeAsync` a live
process goes on, its jobs get scheduled and its tools return; leases, crashes and
interruptions are not fair. In `SessionTasks` tools return, a row nobody heartbeats
for goes stale, and the reaper is a recurring schedule that runs again after every
failure: a step it gets to again and again is taken (strong fairness), or a pass that
is always lost at the same call would refute everything. In `Scheduler` every instance
polls each second and its calls return, and a claim nobody renews lapses; the clock,
the client and the faults are not fair. In `EventLog`, PostgreSQL
aborts one side of a deadlock; without that assumption `EverythingEnds` fails,
so the deadlock between an append and a claim is real, and `append_event` does
not retry the error.

Violations. These runs state what a comment or a document says, and TLC finds a
behaviour of the code that does otherwise (`findings` quotes the lines):

| Run | What TLC finds |
|---|---|
| `SessionTasksDoubleReap` | Of two overlapping reaper passes, the one whose supersede update was ignored by the fence reads back the attempt that the other one set, takes it for its own and starts a second executor of the same attempt. |
| `SchedulerClocks` | Without any fault, an instance whose clock is behind the database's calculates the occurrence it has just served, and it is triggered again. |

## 4. Divergences seen with the model, without a run of their own

The actions of the modules contain these behaviours as the code has them; they came
up while the model was built, and no run is kept for them. They explain why the
properties above have the form they have.

Queue and turn:

- A task handed back by `deregister_worker` on its last attempt stays pending for ever
  (`postgres.rs:1996`), against the comment above it, "This allows immediate task
  reassignment instead of waiting for heartbeat timeout". `ExhaustedOnlyByHandBack`
  and `EventuallySettled` name the exception. A turn whose task it is stays running
  for ever; `OrphanedOnlyByDrop` and `RunningEnds` name it too.
- The first silent recovery of a task is not counted when its workflow had facts before
  it: a missing token is read as 0 (`postgres.rs:1549`), so `WorkflowStarted` and the work of
  earlier tasks pass for progress. The comment says "a turn that records nothing on its first
  attempt already counts as no-progress" (`postgres.rs:1543`), which is so only for a task
  of an empty log, and the test at `postgres_integration_test.rs:1824` has one.
  `NoProgressCountIsExact` says for which task the count may be one behind.
- An activity that hangs is never ended: no timeout is enforced and its heartbeats keep
  the reclaim away (`unified_worker.rs:1035-1129`).
- A late worker fails another worker's claim: `fail_task_with_retry` looks whether the
  task is claimed, not by whom (`postgres.rs:1177`; the comment at 1153).
- A worker lost after `complete_task` and before the next enqueue leaves a running
  workflow without a task (`unified_worker.rs:1160`), against `agentic-loop.md:55`.
  `OrphanedOnlyByDrop` names the steps.
- After a cancel, two turns of a session can run (`unified_worker.rs:1159`), against
  `a2a-channel.md:267`, "runs at most one durable turn at a time". `OneTaskAtATime`
  is therefore about sessions nobody cancels.
- A resumed turn that fails is ended by nobody, because its workflow is pending
  (`durable_runner.rs:775`), against `durable-execution-engine.md:173`.
- A cancelled workflow can become completed. `complete_workflow` writes the
  status without looking at it (`unified_worker.rs:433`); `a2a-channel.md:258`
  says what a cancel is to mean.
- A failed `process_input` leaves the session active (`unified_worker.rs:1233`),
  against `durable-execution-engine.md:176`.
- A blocked reason ends its turn twice: once in the host (`host.rs:1288`), once
  when the task is settled, against `session-counts.md:25`.
- A drained wake is not always read. A turn at its iteration limit drains the signals after
  its last answer and ends (`unified_worker.rs:1464`), against "being destructive, gives
  exactly-once delivery" (1460) and "max-iterations leave undrained wakes in the
  queue for the next turn" (`session-tasks.md:392`); a worker lost between the drain and the
  enqueue of the next task takes the wake with it, and so does a turn that pauses after the
  drain. `WakesAreKept` names all the ways; the message stays in the history and is
  read by whatever turn comes next.
- Two submissions of tool results are both accepted, because the check and the
  update of the session are two statements (`tool_results/commands.rs:51`),
  against `client-side-tools.md:82`.
- Results that arrive before the worker has recorded the pause are not used to
  resume (`durable_runner.rs:759`), against `client-side-tools.md:68`.

Native async turn:

- Act logs a `tool.completed` event it cannot emit and returns the result as a success
  (`act.rs:1710`), and `persist_terminal_errors` writes outputs with an error only: the
  output is delivered and the transcript never has it, against "A completed Act result
  already has its canonical event" (`host/src/native_async.rs:241`). `DeliveredAreRecorded`
  names the exception.
- The request's intent is recorded after the stream was opened: `begin_response` says
  "Record request intent before a host opens its provider HTTP stream"
  (`engine/src/native_async.rs:314`), `reason.rs` opens the stream at 1468 and records
  at 1597. A crash in between leaves a submission the journal does not know as begun;
  the delivery in the journal is what `OneOwnerSubmits` rests on.
- A stalled stream and a transient error before the stream send the same delivery
  again (`reason.rs:1679`), where `provider/src/native_async.rs:3` and
  `native-async-tools.md` say that an ambiguous delivery is never retried. It is the
  same owner, so `OneOwnerSubmits` holds; after a stall the second begin is refused and
  the attempt fails.

Session tasks:

- A superseded run still ends the task: `mirror_task` sends no `expected_attempt`,
  against `session-tasks.md:410`. The state it writes is final all the same.
- An end may be reported by nobody: the process is lost between the commit and
  `notify_transition`, where the snapshot event and the wake are awaited, or the update that
  ended the task could not read it first (`session_task_store.rs:272`, 288). A later update
  reads an ended task and stays silent. `EndsAreReported` names both.
- An end may be reported twice: two updates that have both read a live task get a terminal
  row back, the ignored one too, and both notify, against "Each observer receives every real
  transition [...] once" (`session_task_store.rs:91`).
- A supersede update names no state, so the rule that protects finished tasks lets it
  through: a task that ended after the pass read it gets a new attempt and is executed
  once more, though its state stays.
- A run lost before its first heartbeat leaves `heartbeat_at` NULL, which the scan never
  selects (`repositories/session_tasks.rs:433`). `OrphansEnd` is about tasks that had
  one.

Schedules:

- `TriggerSchedule` of the API inserts a running record, makes no target and never
  settles the record (`schedules/commands.rs:431`); with a limit of one every later
  occurrence is skipped. The record of a lost instance has the same effect, against
  "Instance failure causes no duplicate or missed triggers" (TC008). `DueIsServed` counts a
  skip as service and does not see it.
- An instance that needs more than the thirty seconds of its claim and the one that takes over
  both make the target of the occurrence (`postgres.rs:3236`), against "Multiple control-plane
  instances can run without duplicate triggers" (`scheduled-tasks.md:21`). `TriggeredOnce`
  names it.
- `update_next_trigger` is not fenced: after a takeover the first instance clears the claim of
  the second.
- An instance whose clock is ahead advances past an occurrence that is still to come, and
  nobody triggers it.
- A cron expression with a year field has a last occurrence. Once it is served,
  `calculate_next_trigger` fails (`scheduler/mod.rs:402`) and neither the trigger nor the claim is
  written, against "Still update next trigger time" (281): the schedule stays due and is
  triggered again about every thirty seconds, until a client disables it. `DueIsServed`
  therefore ends with the last occurrence.
- Enabling a schedule by an update after it was created disabled or paused leaves its
  trigger out of reach (`schedules/commands.rs:250`); `resume` writes a trigger it
  calculated before (383).
- The catch-up of missed occurrences (`scheduled-tasks.md:128`) is not implemented: an
  instance advances to the first occurrence after the present.

## 5. Proofs

Every invariant and action property that a run checks, except the ones about
liveness, is also proved, for every value of the constants that satisfies the named
assumptions of the modules (`TaskQueueAssumption`, `EventLogAssumption`,
`TurnWorkflowAssumption`, `NativeAsyncAssumption`, `SessionTasksAssumption`,
`SchedulerAssumption`). They say that limits are numbers, most of them at least one,
that the sets that are counted are finite, and that null is not a member of what it
stands in for. Three theorems about the turn
(`TurnsDoNotOverlap`, `OutcomesAreUnique`, `NoWakeIsLost`) have a hypothesis on what clients or
activities do; section 4 says what happens without it. None has one on where processes
are lost.

Task queue:

- `TypeCorrect`: by induction, action by action.
- `ClaimsAreFenced` (`ExecutionFence`) and `ExhaustionIsHandBack`
  (`ExhaustedOnlyByHandBack`): from `ClaimInv`, which adds `Blank`: an identifier that is
  being enqueued has never had an attempt, or a new row would start below an old
  execution. Steps are first classified by what they do to claims (`StepCases`), so each
  conjunct is argued once per kind of step.
- `StepsAreSafe` (`TerminalIsFinal`) and `OwnersComplete` (`OnlyOwnerCompletes`): from the
  moves a status can make (`StatusMoves`).
- `OvershootIsBounded` (`PendingOvershootBounded`): `EnqueueInv` counts a task from the
  check of the limit until its first claim, as one set, whether its row is inserted or
  not. Then only the check adds to the set, and it does so below the limit and below the
  number of callers.
- `SealIsExact` (`NoProgressCountIsExact`), for started and for empty logs: the guard compares
  tokens, the property speaks of facts. The link is an invariant on tokens: a recovered
  task has seen a new fact exactly when its token is behind the workflow's, a task that was
  never recovered has none, and only a task whose log had facts before it may be ahead by
  the one silent recovery that was spared.
- `LifecycleRefinement`: every step maps to a step of `TaskLifecycle` or stutters.

Event log:

- `LogTypeCorrect`, `NumbersHaveNoGaps`, `ClaimsAreSafe`: from `LogInv`. Gaps are
  excluded because every uncommitted row has the next number (`AppendSeqs`),
  hence there is at most one writer with such rows per workflow (`OnePending`),
  and nobody commits between the maximum and the commit of a claim
  (`LocksHeld`).
- `ConflictsMeanProgress`: from `LagInv`, which bounds how far the log has grown
  past the number a call has counted.
- `ClaimsNeverDeadlock` (`ClaimsDoNotDeadlock`): `LockInv` says that a claim which still
  locks holds a prefix of its workflows. In a circle of waiting claims take the largest
  workflow one of them waits for (`Largest`, by well-foundedness): its holder waits for a
  larger one.

Turn:

- `TurnTypeCorrect`: with `RefInv`, that executions, reaps, checkpoints and calls name
  tasks that exist.
- `OrphansNeedADrop` (`OrphanedOnlyByDrop`), with all client commands and losses: by
  `GuardInv`, which is narrower than the property. An execution that only announces a
  failure, or a reap that does, no longer guards the workflow, because it has ended it.
- `TurnsDoNotOverlap` (`OneTaskAtATime`), if clients only send messages: by `TokenInv`. The
  right to go on with a turn is a token that is a live task, an execution between the
  end of its task and what follows, a call between the claim of the workflow and the
  enqueue, or a reap before the status is written; there is at most one, and none unless
  the workflow is running.
- `OutcomesAreUnique` (`OneOutcomePerTask`), if no activity announces a block itself, with
  all client commands and losses: by `OutcomeInv`. A task that has not ended has no
  handler and no outcome (`Untouched`); one that has ended has at most one handler, an
  execution or the reaper (`OneHandler`), which has no successor yet (`OneSuccessor`) and,
  once it has told the user, will schedule none (`OneEnd`). Each of the ways in which a
  handler appears, moves on or leaves a task behind is a lemma (`OutcomesAtEnd`,
  `OutcomesByExecution`, `OutcomesByReaper`, `OutcomesBySchedule`).
- `NoWakeIsLost` (`WakesAreKept`), if clients only send messages, wherever processes are lost:
  by `WakeInv`. While a message is unread and not `lost` there is a signal, a call on its way, a
  task some worker can claim after which everything will be read, an execution that goes
  on to such a task or gives the turn up, or the reaper. The loser of the race to create
  the workflow sends no signal; its call counts only until the workflow exists, when the
  winner's first task takes over. `TokenInv` is needed to know that the execution that
  completes a reason was the one task in flight.

Native async turn:

- `NativeTypeCorrect`: with `StageInv`, that a message is made of a response that has a name.
- `JournalGoesForward` (`JournalMovesForward`): by `SyncInv`. The owner of a live lease has
  the journal's checkpoint in memory, or is cancelling with one that is ahead of it by a
  save whose reply was lost. Steps are classified as local, loading, releasing,
  recovering or writing (`StepKinds`), and every write moves forward (`Advances`).
- `UnsafeToolsRunOnce` (`UnsafeRunsOnce`): by `RunsInv`, a job of such a call exists only
  after the journal has taken the call off the queue, and the journal never goes back.
- `OutputsHaveOneSubmitter` (`OneOwnerSubmits`): by `DeliveryInv`, an owner that submits, or is
  on its way to, has its calls covered by the journal's delivery, and two owners never
  carry the same call.
- `OutputsAreRecordedFirst` (`DeliveredAreRecorded`): by `RecordedInv`, which follows results
  from the jobs through checkpoints to the delivery, and keeps those that could not be
  emitted apart from the errors the host writes.
- `OutcomesAreTotal` (`CompletionIsTotal`): `OutcomeInv`, an outcome closes the journal, and
  `Books`: completed responses, messages and summaries agree but for one response that
  is owed, and as long as a response is uncertain no other owner gets into the
  conversation (`ExchangeInv`), so that numbers do not clash (`NumberInv`).

Session tasks:

- `TaskTypeCorrect`, `ReapingIsSafe` (`AttemptsBounded`) and `OrphansAreReal`
  (`NoFalseOrphan`): for any
  number of overlapping reaper passes, by `TaskInv`. Bounding attempts needs `SnapInv`:
  a pass about to re-attach holds a snapshot below the limit, and since its update is
  fenced on that snapshot, the row it bumps is below the limit too. `OrphanInv` says that
  the orphaned mark comes with the state failed, because both are written together and
  only to a row that has not ended.
- `FinishedStays` (`FinishedIsFinal`): every update of the row is one of those of
  `apply_task_update` (`UpdatesOfModel`, `ApplyMoves`), and none moves a finished row.
- `EndsReported` (`EndsAreReported`): `PriorInv` says that an update which read an ended
  task still finds it ended or gone, so the update that makes it end has read a live
  task, or none, and then is about to report or is `blind`; whoever is about to report does
  so, or is lost and leaves `missed`.

Schedules:

- `SchedulerTypeCorrect`: with `RecordInv`, that whoever settles a record has one.
- `OccurrencesTriggerOnce` (`TriggeredOnce`): while nothing is `disturbed`, by `HolderInv` (one
  instance works, and nobody else can get the claim), `BehindInv` (an occurrence with a
  target is behind the trigger, or the row is still claimed) and `PositionInv` (an instance
  before its trigger works on an occurrence without a target, no later occurrence has one,
  and the trigger it calculates is past all that have). It holds for every skew of the
  clocks and every last occurrence.
- `OvershootIsBounded` (`OvershootBounded`): running records and instances about to create one
  are counted together; only the count adds to them, and an instance that counts is not
  yet among them.

Only model-checked: liveness (`EventuallySettled`, `RunningEnds`, `EverythingEnds`,
`EveryAttemptEnds`, `OrphansEnd`, `DueIsServed`), which rests on fairness and `ENABLED`.
The prover also looks closer than TLC at one thing: a `CASE` whose guards overlap has
a value for TLC, which takes the first, and none in the logic. `Plan` and `NextIteration` are
written with guards that exclude each other, so that both read them alike.

## 6. Plan

1. Extend the model: `CircuitBreaker` (permits, probes and their expiry between
   replicas), `ActiveTurnSlots` (the organisation-wide limit of `MessageService::create`
   and its release), `WorkflowExecutor` (replay against the log, `continue_as_new`),
   retry delays as pure operators, the housekeeping of leased resources.
2. Compose: `TurnWorkflow`'s tasks as an instance of `TaskLifecycle`; the reaper of
   `SessionTasks` as a target of `Scheduler`.
3. Prove: the refinement of `TaskLifecycle` by the tasks of `TurnWorkflow` once they are
   composed; what `OneOutcomePerTask` leaves of its claim when an activity announces a
   block (one successor, one handler); action properties of `TurnWorkflow` and `Scheduler`.
