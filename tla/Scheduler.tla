----------------------------- MODULE Scheduler ------------------------------
(***************************************************************************)
(* One durable schedule, the scheduler instances that dispatch it           *)
(* (durable/src/scheduler/mod.rs) over the rows of durable_schedules and    *)
(* durable_schedule_executions (durable/src/persistence/postgres.rs), and   *)
(* the client commands on it (server/src/domains/schedules/commands.rs).    *)
(*                                                                         *)
(* Time is counted in occurrences of the cron expression: occurrence n is   *)
(* due from time n on by the clock of the database, which the claims use.   *)
(* The next trigger is calculated from the clock of the process, which may   *)
(* be behind or ahead of it.  A cron expression with a year field has a last *)
(* occurrence.                                                               *)
(* A claim may lapse (30 seconds) while its instance is at work, and every   *)
(* call of an instance may fail or be its last.                              *)
(* An instance triggers the schedules of a batch one after the other, so a   *)
(* second schedule shows here only as delay.                                 *)
(***************************************************************************)
EXTENDS Integers, Sequences, FiniteSets

CONSTANTS
    Instances,      \* scheduler instances, one per control-plane process
    NoInstance,     \* claimed_by IS NULL
    MaxConcurrent,  \* max_concurrent of the schedule
    LastOccurrence, \* of the cron expression; beyond MaxTime when it recurs for ever
    MaxSkew,        \* how far the clock of a process may be off, in occurrences
    MaxTime,        \* bound: the last occurrence that comes due
    MaxFaults,      \* bound: lost instances, failed calls and lapses of a live claim
    MaxCommands,    \* bound: commands of the client
    MaxRecords      \* bound: records after which clocks are right, and a schedule
                    \* without an upcoming occurrence is given up no more

ASSUME SchedulerAssumption ==
    /\ NoInstance \notin Instances /\ IsFiniteSet(Instances) /\ Instances # {}
    /\ MaxConcurrent \in Nat /\ LastOccurrence \in Nat \ {0} /\ MaxSkew \in Nat
    /\ MaxTime \in Nat \ {0} /\ MaxFaults \in Nat /\ MaxCommands \in Nat /\ MaxRecords \in Nat

VARIABLES
    now,        \* the clock of the database
    row,        \* the row of durable_schedules
    execs,      \* the rows of durable_schedule_executions
    targets,    \* workflows or tasks made for each occurrence
    inst,       \* where each instance is
    client,     \* where the client command is
    \* Auxiliary variables: history the code does not keep.
    faults, commands,
    disturbed   \* a claim was taken over, a client moved next_trigger_at, or an instance
                \* calculated a trigger that is not after the occurrence it has served

vars == <<now, row, execs, targets, inst, client, faults, commands, disturbed>>

-----------------------------------------------------------------------------
(* State *)

(* next_trigger_at is NULL, or a hundred years from now. *)
Never == MaxTime + 2
Occurrences == 1..MaxTime
Triggers == 1..MaxTime + 1 \cup {Never}

Rows == [exists : BOOLEAN, enabled : BOOLEAN, next : Triggers,
         by : Instances \cup {NoInstance}, lapsed : BOOLEAN]
Unclaimed(r) == [r EXCEPT !.by = NoInstance, !.lapsed = FALSE]

(* kind tells a record made for a target from one made to record a skip. *)
Executions == [kind : {"dispatch", "skip", "manual"},
               status : {"running", "completed", "failed", "skipped"}]

(* at is next_trigger_at of the claimed row, exec the id of the record, next   *)
(* the time calculated for the update.                                        *)
InstanceStates == [pc : {"idle", "count", "create", "trigger", "reply", "settle", "calculate",
                         "advance"},
                   at : Occurrences, kind : {"dispatch", "skip"}, exec : Nat,
                   result : {"completed", "failed", "skipped"}, next : Triggers]
IdleInstance == [pc |-> "idle", at |-> 1, kind |-> "dispatch", exec |-> 0,
                 result |-> "completed", next |-> 1]

ClientStates == [pc : {"idle", "enable", "move"}, next : Triggers]
IdleClient == [pc |-> "idle", next |-> 1]

TypeOK ==
    /\ now \in 0..MaxTime
    /\ row \in Rows
    /\ execs \in Seq(Executions)
    /\ targets \in [Occurrences -> Nat]
    /\ inst \in [Instances -> InstanceStates]
    /\ \A i \in Instances : inst[i].pc = "settle" /\ row.exists => inst[i].exec \in DOMAIN execs
    /\ client \in ClientStates
    /\ faults \in 0..MaxFaults /\ commands \in 0..MaxCommands /\ disturbed \in BOOLEAN

(* Utc::now of a process. *)
ProcessClocks ==
    {t \in 0..MaxTime : \/ t = now
                        \/ Len(execs) < MaxRecords /\ t <= now + MaxSkew /\ now <= t + MaxSkew}

(* calculate_next_trigger at process time t: the first occurrence after t,     *)
(* whatever was missed, or none.                                               *)
NextTrigger(t) == IF t < LastOccurrence THEN t + 1 ELSE Never

(* A schedule that is created disabled has no next_trigger_at. *)
Init ==
    /\ now = 0
    /\ execs = <<>>
    /\ \E b \in BOOLEAN, t \in ProcessClocks :
           row = [exists |-> TRUE, enabled |-> b, next |-> IF b THEN NextTrigger(t) ELSE Never,
                  by |-> NoInstance, lapsed |-> FALSE]
    /\ targets = [n \in Occurrences |-> 0]
    /\ inst = [i \in Instances |-> IdleInstance]
    /\ client = IdleClient
    /\ faults = 0 /\ commands = 0 /\ disturbed = FALSE

-----------------------------------------------------------------------------
(* The store *)

Due == row.exists /\ row.enabled /\ row.next <= now

Running == {x \in DOMAIN execs : execs[x].status = "running"}

(* update_next_trigger sets the time and clears whatever claim there is. *)
UpdateNextTrigger(next) == row' = [Unclaimed(row) EXCEPT !.next = next]

(* create_schedule_execution: a new record is running. *)
CreateExecution(kind) == execs' = Append(execs, [kind |-> kind, status |-> "running"])

Tick ==
    /\ now < MaxTime
    /\ now' = now + 1
    /\ UNCHANGED <<row, execs, targets, inst, client, faults, commands, disturbed>>

(* The claim gets older than 30 seconds, though its instance may be at work. *)
Lapse ==
    /\ row.exists /\ row.by # NoInstance /\ ~row.lapsed
    /\ \/ inst[row.by].pc = "idle" /\ UNCHANGED faults
       \/ inst[row.by].pc # "idle" /\ faults < MaxFaults /\ faults' = faults + 1
    /\ row' = [row EXCEPT !.lapsed = TRUE]
    /\ UNCHANGED <<now, execs, targets, inst, client, commands, disturbed>>

-----------------------------------------------------------------------------
(* A scheduler instance *)

(* Mutant: claims are not looked at. *)
BugClaim(i) ==
    /\ inst[i].pc = "idle" /\ Due
    /\ inst' = [inst EXCEPT ![i].pc = "count", ![i].at = row.next]
    /\ row' = [row EXCEPT !.by = i, !.lapsed = FALSE]
    /\ disturbed' = (disturbed \/ row.lapsed)
    /\ UNCHANGED <<now, execs, targets, client, faults, commands>>
(* Mutant: a claim holds until its instance clears it. *)
BugClaimForGood(i) ==
    /\ inst[i].pc = "idle" /\ Due
    /\ row.by = NoInstance
    /\ inst' = [inst EXCEPT ![i].pc = "count", ![i].at = row.next]
    /\ row' = [row EXCEPT !.by = i]
    /\ UNCHANGED <<now, execs, targets, client, faults, commands, disturbed>>
(* claim_due_schedules stamps a due row that nobody claimed in the last 30     *)
(* seconds.                                                                   *)
Claim(i) ==
    /\ inst[i].pc = "idle" /\ Due
    /\ row.by = NoInstance \/ row.lapsed
    /\ inst' = [inst EXCEPT ![i].pc = "count", ![i].at = row.next]
    /\ row' = [row EXCEPT !.by = i, !.lapsed = FALSE]
    /\ disturbed' = (disturbed \/ row.lapsed)
    /\ UNCHANGED <<now, execs, targets, client, faults, commands>>

(* Mutant: the limit is off by one. *)
BugCount(i) ==
    /\ inst[i].pc = "count"
    /\ inst' = [inst EXCEPT ![i].pc = "create",
                            ![i].kind = IF Cardinality(Running) > MaxConcurrent THEN "skip"
                                        ELSE "dispatch"]
    /\ UNCHANGED <<now, row, execs, targets, client, faults, commands, disturbed>>
(* count_running_executions decides whether this occurrence is skipped. *)
Count(i) ==
    /\ inst[i].pc = "count"
    /\ inst' = [inst EXCEPT ![i].pc = "create",
                            ![i].kind = IF Cardinality(Running) >= MaxConcurrent THEN "skip"
                                        ELSE "dispatch"]
    /\ UNCHANGED <<now, row, execs, targets, client, faults, commands, disturbed>>

(* Mutant: the id of the new record is not kept. *)
BugCreate(i) ==
    /\ inst[i].pc = "create" /\ row.exists
    /\ CreateExecution(inst[i].kind)
    /\ inst' = [inst EXCEPT ![i].result = "skipped",
                            ![i].pc = IF inst[i].kind = "skip" THEN "settle" ELSE "trigger"]
    /\ UNCHANGED <<now, row, targets, client, faults, commands, disturbed>>
(* create_schedule_execution makes the record of a dispatch or of a skip. *)
Create(i) ==
    /\ inst[i].pc = "create" /\ row.exists
    /\ CreateExecution(inst[i].kind)
    /\ inst' = [inst EXCEPT ![i].exec = Len(execs) + 1,
                            ![i].result = "skipped",
                            ![i].pc = IF inst[i].kind = "skip" THEN "settle" ELSE "trigger"]
    /\ UNCHANGED <<now, row, targets, client, faults, commands, disturbed>>

(* trigger_workflow creates the workflow, trigger_activity enqueues the task,  *)
(* with an id of its own: nothing in the store knows the occurrence.           *)
Trigger(i) ==
    /\ inst[i].pc = "trigger"
    /\ targets' = [targets EXCEPT ![inst[i].at] = @ + 1]
    /\ inst' = [inst EXCEPT ![i].pc = "reply"]
    /\ UNCHANGED <<now, row, execs, client, faults, commands, disturbed>>

(* The start event is appended, or the reply to the enqueue arrives. *)
TriggerReturns(i) ==
    /\ inst[i].pc = "reply"
    /\ inst' = [inst EXCEPT ![i].pc = "settle", ![i].result = "completed"]
    /\ UNCHANGED <<now, row, execs, targets, client, faults, commands, disturbed>>

(* An error of the trigger is caught, though the target may have been made. *)
TriggerFails(i) ==
    /\ inst[i].pc \in {"trigger", "reply"} /\ faults < MaxFaults
    /\ faults' = faults + 1
    /\ inst' = [inst EXCEPT ![i].pc = "settle", ![i].result = "failed"]
    /\ UNCHANGED <<now, row, execs, targets, client, commands, disturbed>>

(* complete_, fail_ or skip_schedule_execution; the record goes with the       *)
(* schedule.                                                                  *)
Settle(i) ==
    /\ inst[i].pc = "settle" /\ row.exists
    /\ execs' = [execs EXCEPT ![inst[i].exec].status = inst[i].result]
    /\ inst' = [inst EXCEPT ![i] = [IdleInstance EXCEPT !.pc = "calculate", !.at = inst[i].at]]
    /\ UNCHANGED <<now, row, targets, client, faults, commands, disturbed>>

Calculate(i) ==
    /\ inst[i].pc = "calculate"
    /\ \E t \in ProcessClocks :
           /\ NextTrigger(t) # Never
           /\ inst' = [inst EXCEPT ![i].pc = "advance", ![i].next = NextTrigger(t)]
           /\ disturbed' = (disturbed \/ NextTrigger(t) <= inst[i].at)
    /\ UNCHANGED <<now, row, execs, targets, client, faults, commands>>

(* No upcoming occurrence is an error: next_trigger_at and the claim stay, and *)
(* once the claim lapses the occurrence that was served is served again.       *)
CalculateFails(i) ==
    /\ inst[i].pc = "calculate" /\ Len(execs) < MaxRecords
    /\ \E t \in ProcessClocks : NextTrigger(t) = Never
    /\ inst' = [inst EXCEPT ![i] = IdleInstance]
    /\ UNCHANGED <<now, row, execs, targets, client, faults, commands, disturbed>>

Advance(i) ==
    /\ inst[i].pc = "advance" /\ row.exists
    /\ UpdateNextTrigger(inst[i].next)
    /\ inst' = [inst EXCEPT ![i] = IdleInstance]
    /\ UNCHANGED <<now, execs, targets, client, faults, commands, disturbed>>

(* The instance is lost, or a call of it fails: the occurrence is given up,    *)
(* the claim and a running record stay.                                       *)
Abort(i) ==
    /\ inst[i].pc # "idle"
    /\ \/ faults < MaxFaults /\ faults' = faults + 1
       \/ ~row.exists /\ inst[i].pc \in {"create", "settle", "advance"} /\ UNCHANGED faults
    /\ inst' = [inst EXCEPT ![i] = IdleInstance]
    /\ UNCHANGED <<now, row, execs, targets, client, commands, disturbed>>

Dispatch(i) ==
    \/ Count(i) \/ Create(i) \/ Trigger(i) \/ TriggerReturns(i) \/ Settle(i) \/ Calculate(i)
    \/ CalculateFails(i) \/ Advance(i)

-----------------------------------------------------------------------------
(* The client *)

Command ==
    /\ client.pc = "idle" /\ row.exists /\ commands < MaxCommands
    /\ commands' = commands + 1

(* update_schedule with enabled: next_trigger_at is left as it is. *)
SetEnabled(b) ==
    /\ Command
    /\ row' = [row EXCEPT !.enabled = b]
    /\ UNCHANGED <<now, execs, targets, inst, client, faults, disturbed>>

(* pause_schedule: two updates, the second moves the trigger out of reach. *)
Pause ==
    /\ Command
    /\ row' = [row EXCEPT !.enabled = FALSE]
    /\ client' = [pc |-> "move", next |-> Never]
    /\ UNCHANGED <<now, execs, targets, inst, faults, disturbed>>

(* resume_schedule calculates the next trigger before it enables the schedule, *)
(* and leaves next_trigger_at as it is when there is none.                     *)
Resume ==
    /\ Command
    /\ \E t \in ProcessClocks : client' = [pc |-> "enable", next |-> NextTrigger(t)]
    /\ UNCHANGED <<now, row, execs, targets, inst, faults, disturbed>>

ResumeEnable ==
    /\ client.pc = "enable"
    /\ row' = [row EXCEPT !.enabled = TRUE]
    /\ client' = IF client.next = Never THEN IdleClient ELSE [client EXCEPT !.pc = "move"]
    /\ UNCHANGED <<now, execs, targets, inst, faults, commands, disturbed>>

Move ==
    /\ client.pc = "move"
    /\ UpdateNextTrigger(client.next)
    /\ disturbed' = (disturbed \/ client.next # Never)
    /\ client' = IdleClient
    /\ UNCHANGED <<now, execs, targets, inst, faults, commands>>

(* The second update of a command fails, and its error is ignored. *)
MoveFails ==
    /\ client.pc = "move"
    /\ client' = IdleClient
    /\ UNCHANGED <<now, row, execs, targets, inst, faults, commands, disturbed>>

(* trigger_schedule of the API makes a running record and no target. *)
ManualTrigger ==
    /\ Command
    /\ CreateExecution("manual")
    /\ UNCHANGED <<now, row, targets, inst, client, faults, disturbed>>

(* delete_schedule; the executions are deleted in cascade. *)
Delete ==
    /\ Command
    /\ row' = [Unclaimed(row) EXCEPT !.exists = FALSE]
    /\ execs' = <<>>
    /\ UNCHANGED <<now, targets, inst, client, faults, disturbed>>

-----------------------------------------------------------------------------
(* Specification *)

Next ==
    \/ Tick \/ Lapse
    \/ \E i \in Instances : Claim(i) \/ Dispatch(i) \/ TriggerFails(i) \/ Abort(i)
    \/ \E b \in BOOLEAN : SetEnabled(b)
    \/ Pause \/ Resume \/ ResumeEnable \/ Move \/ MoveFails \/ ManualTrigger \/ Delete

Spec == Init /\ [][Next]_vars

(* Every instance polls once a second and its calls return; a claim nobody     *)
(* renews lapses.  The clock, the client and the faults are not fair.          *)
Fairness ==
    /\ \A i \in Instances : WF_vars(Claim(i)) /\ WF_vars(Dispatch(i))
    /\ WF_vars(Lapse)

FairSpec == Spec /\ Fairness

-----------------------------------------------------------------------------
(* Properties *)

(* With any number of instances, and whatever fails, an occurrence makes one   *)
(* workflow or task, with three exceptions: a lapsed claim was taken over      *)
(* (claim_due_schedules: its instance was lost, slow, or found no upcoming      *)
(* occurrence); a resume wrote a trigger it had calculated before; or an        *)
(* instance whose clock is behind the occurrence it served calculated the same  *)
(* one again (calculate_next_trigger uses the clock of the process).            *)
TriggeredOnce == ~disturbed => \A n \in Occurrences : targets[n] <= 1

(* "Multiple control-plane instances can run without duplicate triggers"       *)
(* (knowledge/operations/scheduled-tasks.md:21), "Each schedule gets exactly 1  *)
(* execution per minute (no duplicates)" (TC008_horizontal_scaling.md:81).      *)
NoDuplicateTriggers == \A n \in Occurrences : targets[n] <= 1

(* max_concurrent is read before the record is made: overlapping instances     *)
(* may all pass the check, so the limit is exceeded by at most one record for   *)
(* every other instance, even after instances are lost and manual triggers.    *)
OvershootBounded ==
    Cardinality({x \in Running : execs[x].kind = "dispatch"})
        + Cardinality({i \in Instances : inst[i].pc = "create" /\ inst[i].kind = "dispatch"})
      <= MaxConcurrent + Cardinality(Instances) - 1

(* A schedule that is due does not stay due while its cron expression has an    *)
(* occurrence to come: some instance moves next_trigger_at past the present,    *)
(* though claims lapse, instances are lost and clocks are off now and then      *)
(* (trigger_schedule).  Skipping the occurrence at the limit counts as serving  *)
(* it (skip_and_update_next).                                                  *)
DueIsServed == Due /\ now < LastOccurrence ~> ~Due \/ now >= LastOccurrence

=============================================================================
