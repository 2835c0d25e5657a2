-------------------------- MODULE SchedulerProofs ---------------------------
(***************************************************************************)
(* Theorems about Scheduler for every set of instances, every limit on the  *)
(* concurrent executions, every cron expression, every skew of the clocks    *)
(* and every number of commands and faults.                                  *)
(***************************************************************************)
EXTENDS Scheduler, FiniteSetTheorems, TLAPS

-----------------------------------------------------------------------------
(* Types *)

(* Whoever is going to settle a record holds the number of one, as long as    *)
(* the schedule exists.                                                        *)
RecordInv ==
    \A i \in Instances : inst[i].pc \in {"trigger", "reply", "settle"} /\ row.exists
                         => inst[i].exec \in DOMAIN execs

TypeInv == TypeOK /\ RecordInv

LEMMA Numbers ==
    /\ MaxTime \in Nat /\ MaxTime > 0 /\ Never = MaxTime + 2
    /\ Never \in Triggers /\ Triggers \subseteq Nat
    /\ 1 \in Triggers /\ 1 \in Occurrences
    /\ \A n \in Triggers : n <= MaxTime => n \in Occurrences
    /\ \A n \in Occurrences : n \in Nat /\ n < Never
    /\ \A t \in 0..MaxTime : NextTrigger(t) \in Triggers
BY SchedulerAssumption DEF Never, Triggers, Occurrences, NextTrigger

LEMMA IdleTyped ==
    /\ IdleInstance \in InstanceStates
    /\ \A n \in Occurrences :
           [IdleInstance EXCEPT !.pc = "calculate", !.at = n] \in InstanceStates
    /\ IdleClient \in ClientStates
BY Numbers DEF IdleInstance, InstanceStates, IdleClient, ClientStates

LEMMA InitTyped == Init => TypeInv
<1> SUFFICES ASSUME Init PROVE TypeInv
  OBVIOUS
<1>1. row \in Rows
  BY Numbers, SchedulerAssumption DEF Init, Rows, ProcessClocks
<1>2. execs \in Seq(Executions)
  BY DEF Init
<1>3. inst \in [Instances -> InstanceStates] /\ \A i \in Instances : inst[i].pc = "idle"
  BY IdleTyped DEF Init, IdleInstance
<1>4. now \in 0..MaxTime /\ faults \in 0..MaxFaults /\ commands \in 0..MaxCommands
  BY SchedulerAssumption DEF Init
<1>5. targets \in [Occurrences -> Nat] /\ client \in ClientStates /\ disturbed \in BOOLEAN
  BY IdleTyped DEF Init
<1> QED
  BY <1>1, <1>2, <1>3, <1>4, <1>5 DEF TypeInv, TypeOK, RecordInv

(* What the steps of an instance leave alone. *)
LEMMA DispatchTyped ==
    ASSUME TypeInv, NEW i \in Instances,
           Claim(i) \/ Dispatch(i) \/ TriggerFails(i) \/ Abort(i)
    PROVE  TypeInv'
<1> USE DEF TypeInv, TypeOK
<1>0. inst[i] \in InstanceStates /\ now \in Nat
  BY SchedulerAssumption
<1>1. CASE Claim(i)
  <2>1. row.next \in Occurrences
    BY <1>1, Numbers DEF Claim, Due, Rows
  <2>2. row' \in Rows
    BY <1>1 DEF Claim, Rows
  <2>3. /\ inst' \in [Instances -> InstanceStates]
        /\ inst'[i].pc = "count" /\ \A j \in Instances \ {i} : inst'[j] = inst[j]
    BY <1>0, <1>1, <2>1 DEF Claim, InstanceStates
  <2>4. row'.exists = row.exists
    BY <1>1 DEF Claim, Rows
  <2>5. /\ execs' = execs /\ now' = now /\ targets' = targets /\ client' = client
        /\ faults' = faults /\ commands' = commands /\ disturbed' \in BOOLEAN
    BY <1>1 DEF Claim
  <2> QED
    BY <2>2, <2>3, <2>4, <2>5 DEF RecordInv
<1>2. CASE Count(i)
  <2>1. /\ inst' \in [Instances -> InstanceStates]
        /\ inst'[i].pc = "create" /\ \A j \in Instances \ {i} : inst'[j] = inst[j]
    BY <1>0, <1>2 DEF Count, InstanceStates
  <2> QED
    BY <1>2, <2>1 DEF Count, RecordInv
<1>3. CASE Create(i)
  <2>1. inst[i].kind \in {"dispatch", "skip"} /\ Len(execs) \in Nat
    BY <1>0 DEF InstanceStates
  <2>2. [kind |-> inst[i].kind, status |-> "running"] \in Executions
    BY <2>1 DEF Executions
  <2>3. execs' \in Seq(Executions) /\ Len(execs') = Len(execs) + 1
    BY <1>3, <2>2 DEF Create, CreateExecution
  <2>4. DOMAIN execs \subseteq DOMAIN execs' /\ Len(execs) + 1 \in DOMAIN execs'
    BY <2>1, <2>3
  <2>5. /\ inst' \in [Instances -> InstanceStates]
        /\ inst'[i].exec = Len(execs) + 1 /\ \A j \in Instances \ {i} : inst'[j] = inst[j]
    BY <1>0, <1>3, <2>1 DEF Create, InstanceStates
  <2> QED
    BY <1>3, <2>3, <2>4, <2>5 DEF Create, RecordInv
<1>4. CASE Trigger(i)
  <2>1. /\ inst' \in [Instances -> InstanceStates]
        /\ inst'[i].exec = inst[i].exec /\ \A j \in Instances \ {i} : inst'[j] = inst[j]
    BY <1>0, <1>4 DEF Trigger, InstanceStates
  <2>2. targets' \in [Occurrences -> Nat]
    BY <1>0, <1>4 DEF Trigger, InstanceStates
  <2> QED
    BY <1>4, <2>1, <2>2 DEF Trigger, RecordInv
<1>5. CASE TriggerReturns(i) \/ TriggerFails(i)
  <2>1. /\ inst' \in [Instances -> InstanceStates]
        /\ inst[i].pc \in {"trigger", "reply"}
        /\ inst'[i].exec = inst[i].exec /\ \A j \in Instances \ {i} : inst'[j] = inst[j]
    <3>1. ASSUME NEW r \in {"completed", "failed"},
                 inst' = [inst EXCEPT ![i].pc = "settle", ![i].result = r]
          PROVE  /\ inst' \in [Instances -> InstanceStates]
                 /\ inst'[i].exec = inst[i].exec /\ \A j \in Instances \ {i} : inst'[j] = inst[j]
      BY <1>0, <3>1 DEF InstanceStates
    <3> QED
      BY <1>5, <3>1 DEF TriggerReturns, TriggerFails
  <2>2. faults' \in 0..MaxFaults
    BY <1>5, SchedulerAssumption DEF TriggerReturns, TriggerFails
  <2> QED
    BY <1>5, <2>1, <2>2 DEF TriggerReturns, TriggerFails, RecordInv
<1>6. CASE Settle(i)
  <2>1. inst[i].exec \in DOMAIN execs /\ inst[i].result \in {"completed", "failed", "skipped"}
    BY <1>0, <1>6 DEF Settle, RecordInv, InstanceStates
  <2>2. execs' \in Seq(Executions) /\ DOMAIN execs' = DOMAIN execs
    <3>1. \A x \in Executions : [x EXCEPT !.status = inst[i].result] \in Executions
      BY <2>1 DEF Executions
    <3>2. execs' = [execs EXCEPT ![inst[i].exec] = [execs[inst[i].exec] EXCEPT !.status = inst[i].result]]
      BY <1>6 DEF Settle
    <3> QED
      BY <2>1, <3>1, <3>2
  <2>3. /\ inst' \in [Instances -> InstanceStates]
        /\ inst'[i].pc = "calculate" /\ \A j \in Instances \ {i} : inst'[j] = inst[j]
    <3>1. inst[i].at \in Occurrences
      BY <1>0 DEF InstanceStates
    <3> QED
      BY <1>6, <3>1, IdleTyped DEF Settle, IdleInstance
  <2> QED
    BY <1>6, <2>2, <2>3 DEF Settle, RecordInv
<1>7. CASE Calculate(i)
  <2>1. /\ inst' \in [Instances -> InstanceStates]
        /\ inst'[i].pc = "advance" /\ \A j \in Instances \ {i} : inst'[j] = inst[j]
    <3>1. PICK t \in 0..MaxTime : inst' = [inst EXCEPT ![i].pc = "advance", ![i].next = NextTrigger(t)]
      BY <1>7 DEF Calculate, ProcessClocks
    <3>2. NextTrigger(t) \in Triggers
      BY Numbers
    <3> QED
      BY <1>0, <3>1, <3>2 DEF InstanceStates
  <2>2. disturbed' \in BOOLEAN
    BY <1>7 DEF Calculate
  <2> QED
    BY <1>7, <2>1, <2>2 DEF Calculate, RecordInv
<1>8. CASE Advance(i)
  <2>1. row' \in Rows /\ row'.exists = row.exists
    BY <1>0, <1>8 DEF Advance, UpdateNextTrigger, Unclaimed, Rows, InstanceStates
  <2>2. /\ inst' \in [Instances -> InstanceStates]
        /\ inst'[i].pc = "idle" /\ \A j \in Instances \ {i} : inst'[j] = inst[j]
    BY <1>8, IdleTyped DEF Advance, IdleInstance
  <2> QED
    BY <1>8, <2>1, <2>2 DEF Advance, RecordInv
<1>9. CASE Abort(i) \/ CalculateFails(i)
  <2>1. /\ inst' \in [Instances -> InstanceStates]
        /\ inst'[i].pc = "idle" /\ \A j \in Instances \ {i} : inst'[j] = inst[j]
    <3>1. inst' = [inst EXCEPT ![i] = IdleInstance]
      BY <1>9 DEF Abort, CalculateFails
    <3> QED
      BY <3>1, IdleTyped DEF IdleInstance
  <2>2. faults' \in 0..MaxFaults
    BY <1>9, SchedulerAssumption DEF Abort, CalculateFails
  <2> QED
    BY <1>9, <2>1, <2>2 DEF Abort, CalculateFails, RecordInv
<1> QED
  BY <1>1, <1>2, <1>3, <1>4, <1>5, <1>6, <1>7, <1>8, <1>9 DEF Dispatch


ClockStep == Tick \/ Lapse
ClientStep ==
    \/ \E b \in BOOLEAN : SetEnabled(b)
    \/ Pause \/ Resume \/ ResumeEnable \/ Move \/ MoveFails \/ ManualTrigger \/ Delete
InstanceStep(i) == Claim(i) \/ Dispatch(i) \/ TriggerFails(i) \/ Abort(i)

(* Every step is one of the clock, of an instance or of the client. *)
LEMMA StepKinds == Next => ClockStep \/ ClientStep \/ \E i \in Instances : InstanceStep(i)
BY DEF Next, ClockStep, ClientStep, InstanceStep

LEMMA ClockTyped ==
    ASSUME TypeInv, ClockStep
    PROVE  TypeInv'
<1> USE DEF TypeInv, TypeOK
<1>1. CASE Tick
  <2>1. now' \in 0..MaxTime
    BY <1>1, SchedulerAssumption DEF Tick
  <2> QED
    BY <1>1, <2>1 DEF Tick, RecordInv
<1>2. CASE Lapse
  <2>1. row' \in Rows /\ row'.exists = row.exists
    BY <1>2 DEF Lapse, Rows
  <2>2. faults' \in 0..MaxFaults
    BY <1>2, SchedulerAssumption DEF Lapse
  <2> QED
    BY <1>2, <2>1, <2>2 DEF Lapse, RecordInv
<1> QED
  BY <1>1, <1>2 DEF ClockStep

(* What the client does to the rows. *)
LEMMA ClientTyped ==
    ASSUME TypeInv, ClientStep
    PROVE  TypeInv'
<1> USE DEF TypeInv, TypeOK
<1>0. Command => commands' \in 0..MaxCommands
  BY SchedulerAssumption DEF Command
<1>1. CASE \E b \in BOOLEAN : SetEnabled(b)
  <2>1. row' \in Rows /\ row'.exists = row.exists
    BY <1>1 DEF SetEnabled, Rows
  <2> QED
    BY <1>0, <1>1, <2>1 DEF SetEnabled, RecordInv
<1>2. CASE Pause
  <2>1. row' \in Rows /\ row'.exists = row.exists
    BY <1>2 DEF Pause, Rows
  <2>2. client' \in ClientStates
    BY <1>2, Numbers DEF Pause, ClientStates
  <2> QED
    BY <1>0, <1>2, <2>1, <2>2 DEF Pause, RecordInv
<1>3. CASE Resume
  <2>1. client' \in ClientStates
    BY <1>3, Numbers DEF Resume, ClientStates, ProcessClocks
  <2> QED
    BY <1>0, <1>3, <2>1 DEF Resume, RecordInv
<1>4. CASE ResumeEnable
  <2>1. row' \in Rows /\ row'.exists = row.exists
    BY <1>4 DEF ResumeEnable, Rows
  <2>2. client' \in ClientStates
    BY <1>4, IdleTyped DEF ResumeEnable, ClientStates
  <2> QED
    BY <1>4, <2>1, <2>2 DEF ResumeEnable, RecordInv
<1>5. CASE Move \/ MoveFails
  <2>1. row' \in Rows /\ row'.exists = row.exists
    BY <1>5 DEF Move, MoveFails, UpdateNextTrigger, Unclaimed, Rows, ClientStates
  <2>2. client' \in ClientStates /\ disturbed' \in BOOLEAN
    BY <1>5, IdleTyped DEF Move, MoveFails
  <2> QED
    BY <1>5, <2>1, <2>2 DEF Move, MoveFails, RecordInv
<1>6. CASE ManualTrigger
  <2>1. [kind |-> "manual", status |-> "running"] \in Executions
    BY DEF Executions
  <2>2. execs' \in Seq(Executions) /\ DOMAIN execs \subseteq DOMAIN execs'
    BY <1>6, <2>1 DEF ManualTrigger, CreateExecution
  <2> QED
    BY <1>0, <1>6, <2>2 DEF ManualTrigger, RecordInv
<1>7. CASE Delete
  <2>1. row' \in Rows /\ ~row'.exists
    BY <1>7 DEF Delete, Unclaimed, Rows
  <2>2. execs' \in Seq(Executions)
    BY <1>7 DEF Delete
  <2> QED
    BY <1>0, <1>7, <2>1, <2>2 DEF Delete, RecordInv
<1> QED
  BY <1>1, <1>2, <1>3, <1>4, <1>5, <1>6, <1>7 DEF ClientStep

LEMMA NextTyped == TypeInv /\ [Next]_vars => TypeInv'
<1>1. ASSUME TypeInv, UNCHANGED vars PROVE TypeInv'
  BY <1>1 DEF vars, TypeInv, TypeOK, RecordInv
<1> QED
  BY <1>1, StepKinds, ClockTyped, ClientTyped, DispatchTyped DEF InstanceStep

LEMMA TypeInvariant == Spec => []TypeInv
BY InitTyped, NextTyped, PTL DEF Spec

(* Rows, records and positions keep their types; in particular an instance    *)
(* that settles a record has the number of one, although the client may       *)
(* delete the schedule with its records at any time.                          *)
THEOREM SchedulerTypeCorrect == Spec => []TypeOK
<1>1. TypeInv => TypeOK
  BY DEF TypeInv
<1> QED
  BY <1>1, TypeInvariant, PTL

-----------------------------------------------------------------------------
(* One target for an occurrence *)

Busy(i) == inst[i].pc # "idle"

(* A working instance has the claim, or the trigger is out of reach, or the   *)
(* schedule is gone: nobody else can get a claim.                              *)
HolderInv ==
    /\ row.lapsed => row.by # NoInstance
    /\ \A i \in Instances : Busy(i) /\ row.exists => row.by = i \/ row.next = Never
    /\ \A i, j \in Instances : Busy(i) /\ Busy(j) => i = j

(* An occurrence that has its target is behind the trigger, or the row is     *)
(* still claimed by the instance that made it.                                *)
BehindInv ==
    row.exists => \A n \in Occurrences : targets[n] > 0 => n < row.next \/ row.by # NoInstance

(* An instance before its trigger works on an occurrence without a target and *)
(* none after it has one; one that advances leaves every occurrence with a     *)
(* target behind.                                                              *)
PositionInv ==
    \A i \in Instances :
        /\ inst[i].pc \in {"count", "create", "trigger"} => targets[inst[i].at] = 0
        /\ inst[i].pc \notin {"idle", "advance"}
           => \A n \in Occurrences : targets[n] > 0 => n <= inst[i].at
        /\ inst[i].pc = "advance"
           => \A n \in Occurrences : targets[n] > 0 => n < inst[i].next

OnceInv == ~disturbed => HolderInv /\ BehindInv /\ PositionInv /\ \A n \in Occurrences : targets[n] <= 1

Others(i) == \A j \in Instances \ {i} : inst'[j] = inst[j]

LEMMA OnceInit == Init => OnceInv
<1> SUFFICES ASSUME Init PROVE OnceInv
  OBVIOUS
<1>1. \A i \in Instances : inst[i].pc = "idle"
  BY DEF Init, IdleInstance
<1>2. ~row.lapsed /\ \A n \in Occurrences : targets[n] = 0
  BY DEF Init
<1> QED
  BY <1>1, <1>2 DEF OnceInv, HolderInv, BehindInv, PositionInv, Busy

LEMMA OnceClock ==
    ASSUME TypeInv, OnceInv, ClockStep
    PROVE  OnceInv'
<1>1. CASE Tick
  <2>1. now \in Nat /\ now' = now + 1
    BY <1>1, SchedulerAssumption DEF Tick, TypeInv, TypeOK
  <2>2. \A n : n \in Occurrences => n \in Nat
    BY Numbers
  <2>3. \A i \in Instances : inst[i].at \in Nat
    BY <2>2 DEF TypeInv, TypeOK, InstanceStates
  <2>4. UNCHANGED <<row, targets, inst, disturbed>>
    BY <1>1 DEF Tick
  <2> QED
    BY <2>1, <2>2, <2>3, <2>4 DEF OnceInv, HolderInv, BehindInv, PositionInv, Busy
<1>2. CASE Lapse
  <2>1. /\ row'.by = row.by /\ row'.next = row.next /\ row'.exists = row.exists
        /\ row.by # NoInstance
    BY <1>2 DEF Lapse, TypeInv, TypeOK, Rows
  <2>2. UNCHANGED <<now, targets, inst, disturbed>>
    BY <1>2 DEF Lapse
  <2> QED
    BY <2>1, <2>2 DEF OnceInv, HolderInv, BehindInv, PositionInv, Busy
<1> QED
  BY <1>1, <1>2 DEF ClockStep

(* The client either leaves trigger and claim alone, or moves the trigger out *)
(* of reach, or disturbs, or deletes the schedule.                            *)
LEMMA OnceClient ==
    ASSUME TypeInv, OnceInv, ClientStep
    PROVE  OnceInv'
<1>0. row \in Rows
  BY DEF TypeInv, TypeOK
<1>1. CASE \/ (\E b \in BOOLEAN : SetEnabled(b)) \/ Pause \/ Resume \/ ResumeEnable
           \/ MoveFails \/ ManualTrigger
  <2>1. /\ row'.by = row.by /\ row'.next = row.next /\ row'.exists = row.exists
        /\ row'.lapsed = row.lapsed
    BY <1>0, <1>1 DEF SetEnabled, Pause, Resume, ResumeEnable, MoveFails, ManualTrigger, Rows
  <2>2. UNCHANGED <<now, targets, inst, disturbed>>
    BY <1>1 DEF SetEnabled, Pause, Resume, ResumeEnable, MoveFails, ManualTrigger
  <2> QED
    BY <2>1, <2>2 DEF OnceInv, HolderInv, BehindInv, PositionInv, Busy
<1>2. CASE Move
  <2>1. /\ row'.by = NoInstance /\ row'.next = client.next /\ ~row'.lapsed
        /\ UNCHANGED <<now, targets, inst>>
        /\ ~disturbed' => ~disturbed /\ client.next = Never
    BY <1>0, <1>2 DEF Move, UpdateNextTrigger, Unclaimed, Rows
  <2> QED
    BY <2>1, Numbers DEF OnceInv, HolderInv, BehindInv, PositionInv, Busy
<1>3. CASE Delete
  <2>1. ~row'.exists /\ ~row'.lapsed /\ UNCHANGED <<now, targets, inst, disturbed>>
    BY <1>0, <1>3 DEF Delete, Unclaimed, Rows
  <2> QED
    BY <2>1 DEF OnceInv, HolderInv, BehindInv, PositionInv, Busy
<1> QED
  BY <1>1, <1>2, <1>3 DEF ClientStep

(* A claim that takes over nothing is the only one, and the trigger it finds  *)
(* is that of an occurrence without a target.                                 *)
LEMMA OnceClaim ==
    ASSUME TypeInv, OnceInv, NEW i \in Instances, Claim(i)
    PROVE  OnceInv'
<1>1. CASE disturbed'
  BY <1>1 DEF OnceInv
<1>2. CASE ~disturbed'
  <2>1. ~disturbed /\ ~row.lapsed /\ row.by = NoInstance
    BY <1>2 DEF Claim
  <2>2. row.exists /\ row.next <= now /\ row.next \in Triggers /\ now \in 0..MaxTime
    BY DEF Claim, Due, TypeInv, TypeOK, Rows
  <2>3. row.next \in Occurrences /\ row.next # Never
    BY <2>2, SchedulerAssumption DEF Occurrences, Triggers, Never
  <2>4. \A j \in Instances : ~Busy(j)
    BY <2>1, <2>2, <2>3, SchedulerAssumption DEF OnceInv, HolderInv
  <2>5. targets[row.next] = 0
    <3>1. ~(targets[row.next] > 0)
      BY <2>1, <2>2, <2>3, Numbers DEF OnceInv, BehindInv
    <3> QED
      BY <2>3, <3>1 DEF TypeInv, TypeOK
  <2>6. /\ row'.by = i /\ row'.next = row.next /\ ~row'.lapsed
        /\ inst'[i].pc = "count" /\ inst'[i].at = row.next /\ Others(i)
        /\ UNCHANGED <<now, targets>>
    BY DEF Claim, TypeInv, TypeOK, Rows, InstanceStates, Others
  <2>7. HolderInv'
    BY <2>4, <2>6, SchedulerAssumption DEF HolderInv, Others, Busy
  <2>8. BehindInv'
    BY <2>1, <2>6, SchedulerAssumption DEF OnceInv, BehindInv
  <2>9. PositionInv'
    <3>1. \A n \in Occurrences : targets[n] > 0 => n <= row.next
      BY <2>1, <2>2, <2>3, Numbers DEF OnceInv, BehindInv
    <3> QED
      BY <2>4, <2>5, <2>6, <3>1 DEF PositionInv, Others, Busy
  <2> QED
    BY <2>1, <2>6, <2>7, <2>8, <2>9 DEF OnceInv
<1> QED
  BY <1>1, <1>2

LEMMA OnceDispatch ==
    ASSUME TypeInv, OnceInv, NEW i \in Instances, Dispatch(i) \/ TriggerFails(i) \/ Abort(i)
    PROVE  OnceInv'
<1> SUFFICES ASSUME ~disturbed'
             PROVE  HolderInv' /\ BehindInv' /\ PositionInv' /\ \A n \in Occurrences : targets'[n] <= 1
  BY DEF OnceInv
<1>d. ~disturbed
  BY DEF Dispatch, Count, Create, Trigger, TriggerReturns, Settle, Calculate, CalculateFails,
         Advance, TriggerFails, Abort
<1>0. HolderInv /\ BehindInv /\ PositionInv /\ \A n \in Occurrences : targets[n] <= 1
  BY <1>d DEF OnceInv
<1>t. /\ inst \in [Instances -> InstanceStates] /\ inst[i] \in InstanceStates /\ row \in Rows
      /\ inst[i].at \in Occurrences /\ targets \in [Occurrences -> Nat]
  BY DEF TypeInv, TypeOK, InstanceStates
<1>1. CASE \/ Count(i) \/ Create(i) \/ TriggerReturns(i) \/ Settle(i) \/ TriggerFails(i)
           \/ CalculateFails(i) \/ Abort(i)
  <2>1. UNCHANGED <<now, row, targets>> /\ Busy(i) /\ Others(i)
    BY <1>1 DEF Count, Create, TriggerReturns, Settle, TriggerFails, CalculateFails, Abort, Busy,
                Others, TypeInv, TypeOK
  <2>2. \/ inst'[i].pc = "idle"
        \/ /\ inst[i].pc \in {"count", "create"} /\ inst'[i].at = inst[i].at
           /\ inst'[i].pc \in {"create", "trigger", "settle"}
        \/ /\ inst[i].pc \in {"trigger", "reply", "settle"} /\ inst'[i].at = inst[i].at
           /\ inst'[i].pc \in {"settle", "calculate"}
    <3>1. CASE Count(i)
      BY <1>t, <3>1 DEF Count, InstanceStates
    <3>2. CASE Create(i)
      BY <1>t, <3>2 DEF Create, InstanceStates
    <3>3. CASE TriggerReturns(i) \/ TriggerFails(i)
      BY <1>t, <3>3 DEF TriggerReturns, TriggerFails, InstanceStates
    <3>4. CASE Settle(i)
      BY <1>t, <3>4 DEF Settle, IdleInstance
    <3>5. CASE CalculateFails(i) \/ Abort(i)
      BY <1>t, <3>5 DEF CalculateFails, Abort, IdleInstance
    <3> QED
      BY <1>1, <3>1, <3>2, <3>3, <3>4, <3>5
  <2>3. HolderInv'
    BY <1>0, <2>1 DEF HolderInv, Others, Busy
  <2>4. BehindInv'
    BY <1>0, <2>1 DEF BehindInv
  <2>5. PositionInv'
    BY <1>0, <2>1, <2>2 DEF PositionInv, Others
  <2> QED
    BY <1>0, <2>1, <2>3, <2>4, <2>5
<1>2. CASE Trigger(i)
  <2>1. /\ UNCHANGED <<now, row>> /\ Others(i) /\ Busy(i)
        /\ inst[i].pc = "trigger" /\ inst'[i].pc = "reply"
        /\ targets' = [targets EXCEPT ![inst[i].at] = targets[inst[i].at] + 1]
    BY <1>2, <1>t DEF Trigger, Busy, Others, InstanceStates
  <2>2. /\ targets[inst[i].at] = 0 /\ inst'[i].at = inst[i].at
        /\ \A n \in Occurrences : targets[n] > 0 => n <= inst[i].at
    BY <1>0, <1>t, <1>2, <2>1 DEF PositionInv, Trigger, InstanceStates
  <2>3. targets'[inst[i].at] = 1 /\ \A n \in Occurrences : n # inst[i].at => targets'[n] = targets[n]
    BY <1>t, <2>1, <2>2
  <2>4. \A j \in Instances : j # i => inst'[j].pc = "idle"
    BY <1>0, <2>1 DEF HolderInv, Busy, Others
  <2>5. HolderInv'
    BY <1>0, <2>1 DEF HolderInv, Others, Busy
  <2>6. BehindInv'
    <3>1. row.exists => row.by # NoInstance \/ row.next = Never
      BY <1>0, <2>1, SchedulerAssumption DEF HolderInv
    <3> QED
      BY <1>0, <1>t, <2>1, <2>2, <2>3, <3>1, Numbers DEF BehindInv
  <2>7. PositionInv'
    <3>1. \A n \in Occurrences : targets'[n] > 0 => n <= inst[i].at
      BY <1>t, <2>2, <2>3, Numbers
    <3> QED
      BY <2>1, <2>2, <2>4, <3>1 DEF PositionInv
  <2> QED
    BY <1>0, <2>3, <2>5, <2>6, <2>7
<1>3. CASE Calculate(i)
  <2>1. /\ UNCHANGED <<now, row, targets>> /\ Others(i) /\ Busy(i)
        /\ inst[i].pc = "calculate" /\ inst'[i].pc = "advance" /\ inst'[i].next \in Triggers
        /\ ~(inst'[i].next <= inst[i].at)
    <3>1. PICK t \in 0..MaxTime :
              /\ inst' = [inst EXCEPT ![i].pc = "advance", ![i].next = NextTrigger(t)]
              /\ disturbed' = (disturbed \/ NextTrigger(t) <= inst[i].at)
      BY <1>3 DEF Calculate, ProcessClocks
    <3>2. inst'[i].pc = "advance" /\ inst'[i].next = NextTrigger(t) /\ Others(i)
      BY <1>t, <3>1 DEF InstanceStates, Others
    <3>3. NextTrigger(t) \in Triggers /\ ~(NextTrigger(t) <= inst[i].at)
      BY <3>1, Numbers
    <3> QED
      BY <1>3, <3>2, <3>3 DEF Calculate, Busy
  <2>2. \A n \in Occurrences : targets[n] > 0 => n < inst'[i].next
    <3>1. \A n \in Occurrences : targets[n] > 0 => n <= inst[i].at
      BY <1>0, <2>1 DEF PositionInv
    <3>2. inst[i].at \in Nat /\ inst'[i].next \in Nat /\ Occurrences \subseteq Nat
      BY <1>t, <2>1, Numbers
    <3>3. inst[i].at < inst'[i].next
      BY <2>1, <3>2
    <3> QED
      BY <3>1, <3>2, <3>3
  <2>3. HolderInv'
    BY <1>0, <2>1 DEF HolderInv, Others, Busy
  <2>4. BehindInv'
    BY <1>0, <2>1 DEF BehindInv
  <2>5. PositionInv'
    BY <1>0, <2>1, <2>2 DEF PositionInv, Others
  <2> QED
    BY <1>0, <2>1, <2>3, <2>4, <2>5
<1>4. CASE Advance(i)
  <2>1. /\ UNCHANGED <<now, targets>> /\ Others(i) /\ Busy(i)
        /\ inst[i].pc = "advance" /\ inst'[i].pc = "idle"
        /\ row'.next = inst[i].next /\ row'.by = NoInstance /\ ~row'.lapsed
    BY <1>4, <1>t DEF Advance, UpdateNextTrigger, Unclaimed, Rows, IdleInstance, Busy, Others
  <2>2. \A j \in Instances : inst'[j].pc = "idle"
    BY <1>0, <2>1 DEF HolderInv, Busy, Others
  <2>3. BehindInv'
    BY <1>0, <2>1 DEF BehindInv, PositionInv
  <2> QED
    BY <1>0, <2>1, <2>2, <2>3 DEF HolderInv, PositionInv, Busy
<1> QED
  BY <1>1, <1>2, <1>3, <1>4 DEF Dispatch

(* However many instances poll, and whatever fails, an occurrence makes one   *)
(* workflow or task as long as no claim was taken over after it lapsed, no    *)
(* resume moved the trigger and no instance calculated from a clock behind    *)
(* the occurrence it had served: the claim keeps other instances away until   *)
(* the trigger is past every occurrence that has its target.                  *)
THEOREM OccurrencesTriggerOnce == Spec => []TriggeredOnce
<1>1. TypeInv /\ OnceInv /\ [Next]_vars => OnceInv'
  <2>1. ASSUME OnceInv, UNCHANGED vars PROVE OnceInv'
    BY <2>1 DEF vars, OnceInv, HolderInv, BehindInv, PositionInv, Busy
  <2> QED
    BY <2>1, StepKinds, OnceClock, OnceClient, OnceClaim, OnceDispatch DEF InstanceStep
<1>2. OnceInv => TriggeredOnce
  BY DEF OnceInv, TriggeredOnce
<1> QED
  BY <1>1, <1>2, OnceInit, TypeInvariant, PTL DEF Spec

-----------------------------------------------------------------------------
(* The limit on concurrent executions *)

Dispatched == {x \in Running : execs[x].kind = "dispatch"}
Creating == {i \in Instances : inst[i].pc = "create" /\ inst[i].kind = "dispatch"}

LEMMA FiniteCounts ==
    ASSUME TypeInv
    PROVE  /\ IsFiniteSet(Running) /\ IsFiniteSet(Dispatched) /\ IsFiniteSet(Creating)
           /\ Cardinality(Running) \in Nat /\ Cardinality(Dispatched) \in Nat
           /\ Cardinality(Creating) \in Nat /\ Cardinality(Instances) \in Nat
           /\ Cardinality(Instances) > 0
           /\ Cardinality(Creating) <= Cardinality(Instances)
           /\ Cardinality(Dispatched) <= Cardinality(Running)
<1>1. IsFiniteSet(DOMAIN execs)
  <2>1. DOMAIN execs = 1..Len(execs) /\ Len(execs) \in Nat
    BY DEF TypeInv, TypeOK
  <2> QED
    BY <2>1, FS_Interval
<1>2. IsFiniteSet(Running) /\ IsFiniteSet(Dispatched) /\ Cardinality(Dispatched) <= Cardinality(Running)
  <2>1. Running \in SUBSET DOMAIN execs /\ Dispatched \in SUBSET Running
    BY DEF Running, Dispatched
  <2>2. IsFiniteSet(Running)
    BY <1>1, <2>1, FS_Subset
  <2> QED
    BY <2>1, <2>2, FS_Subset
<1>3. IsFiniteSet(Creating) /\ Cardinality(Creating) <= Cardinality(Instances)
  <2>1. Creating \in SUBSET Instances
    BY DEF Creating
  <2> QED
    BY <2>1, FS_Subset, SchedulerAssumption
<1>4. /\ Cardinality(Running) \in Nat /\ Cardinality(Dispatched) \in Nat
      /\ Cardinality(Creating) \in Nat /\ Cardinality(Instances) \in Nat
  BY <1>2, <1>3, FS_CardinalityType, SchedulerAssumption
<1>5. Cardinality(Instances) # 0
  BY FS_EmptySet, SchedulerAssumption
<1> QED
  BY <1>2, <1>3, <1>4, <1>5

(* A step that adds neither a dispatched record nor an instance that is about *)
(* to make one keeps within the limit.                                        *)
LEMMA FewerCounts ==
    ASSUME TypeInv, OvershootBounded, TypeInv',
           Dispatched' \subseteq Dispatched, Creating' \subseteq Creating
    PROVE  OvershootBounded'
<1>1. Cardinality(Dispatched') <= Cardinality(Dispatched)
  BY FiniteCounts, FS_Subset
<1>2. Cardinality(Creating') <= Cardinality(Creating)
  BY FiniteCounts, FS_Subset
<1>3. /\ Cardinality(Dispatched) \in Nat /\ Cardinality(Creating) \in Nat
      /\ Cardinality(Instances) \in Nat /\ MaxConcurrent \in Nat
  BY FiniteCounts, SchedulerAssumption
<1>4. Cardinality(Dispatched') \in Nat /\ Cardinality(Creating') \in Nat
  <2>1. IsFiniteSet(Dispatched') /\ IsFiniteSet(Creating')
    BY FiniteCounts, FS_Subset
  <2> QED
    BY <2>1, FS_CardinalityType
<1>5. Cardinality(Dispatched) + Cardinality(Creating) <= MaxConcurrent + Cardinality(Instances) - 1
  BY DEF OvershootBounded, Dispatched, Creating
<1>6. Cardinality(Dispatched') + Cardinality(Creating') <= MaxConcurrent + Cardinality(Instances) - 1
  BY <1>1, <1>2, <1>3, <1>4, <1>5
<1> QED
  BY <1>6 DEF OvershootBounded, Dispatched, Creating

(* An instance counts fewer than the limit before it may make a record, so    *)
(* the limit is exceeded at most by the others that have counted.             *)
LEMMA OvershootCount ==
    ASSUME TypeInv, OvershootBounded, NEW i \in Instances, Count(i), TypeInv'
    PROVE  OvershootBounded'
<1>1. /\ execs' = execs /\ Others(i) /\ inst[i].pc = "count"
      /\ inst'[i].kind = (IF Cardinality(Running) >= MaxConcurrent THEN "skip" ELSE "dispatch")
  BY DEF Count, TypeInv, TypeOK, InstanceStates, Others
<1>2. Dispatched' = Dispatched
  BY <1>1 DEF Dispatched, Running
<1>3. CASE Cardinality(Running) >= MaxConcurrent
  <2>1. Creating' \subseteq Creating
    BY <1>1, <1>3 DEF Creating, Others
  <2> QED
    BY <1>2, <2>1, FewerCounts
<1>4. CASE ~(Cardinality(Running) >= MaxConcurrent)
  <2>1. Cardinality(Dispatched') < MaxConcurrent
    BY <1>2, <1>4, FiniteCounts, SchedulerAssumption
  <2>2. Creating' \in SUBSET Instances
    BY DEF Creating
  <2>3. IsFiniteSet(Creating') /\ Cardinality(Creating') <= Cardinality(Instances)
    BY <2>2, FS_Subset, SchedulerAssumption
  <2>4. Cardinality(Creating') \in Nat
    BY <2>3, FS_CardinalityType
  <2>5. Cardinality(Dispatched') \in Nat /\ Cardinality(Instances) \in Nat /\ MaxConcurrent \in Nat
    BY <1>2, FiniteCounts, SchedulerAssumption
  <2>6. Cardinality(Dispatched') + Cardinality(Creating') <= MaxConcurrent + Cardinality(Instances) - 1
    BY <2>1, <2>3, <2>4, <2>5
  <2> QED
    BY <2>6 DEF OvershootBounded, Dispatched, Creating
<1> QED
  BY <1>3, <1>4

(* The record takes the place of the instance that was about to make it. *)
LEMMA OvershootCreate ==
    ASSUME TypeInv, OvershootBounded, NEW i \in Instances, Create(i), TypeInv'
    PROVE  OvershootBounded'
<1> DEFINE new == Len(execs) + 1
<1>1. /\ execs \in Seq(Executions) /\ new \in Nat /\ new \notin DOMAIN execs
      /\ execs' = Append(execs, [kind |-> inst[i].kind, status |-> "running"])
      /\ inst[i].pc = "create" /\ inst'[i].pc # "create" /\ Others(i)
  BY DEF Create, CreateExecution, TypeInv, TypeOK, InstanceStates, Others
<1>2. /\ DOMAIN execs' = DOMAIN execs \cup {new}
      /\ \A x \in DOMAIN execs : execs'[x] = execs[x]
      /\ execs'[new].kind = inst[i].kind
  BY <1>1
<1>3. Creating' = Creating \ {i}
  BY <1>1 DEF Creating, Others
<1>4. CASE inst[i].kind # "dispatch"
  <2>1. Dispatched' \subseteq Dispatched
    BY <1>2, <1>4 DEF Dispatched, Running
  <2> QED
    BY <1>3, <2>1, FewerCounts
<1>5. CASE inst[i].kind = "dispatch"
  <2>1. Dispatched' \subseteq Dispatched \cup {new} /\ new \notin Dispatched
    BY <1>1, <1>2 DEF Dispatched, Running
  <2>2. i \in Creating
    BY <1>1, <1>5 DEF Creating
  <2>3. Cardinality(Creating') = Cardinality(Creating) - 1
    BY <1>3, <2>2, FiniteCounts, FS_RemoveElement
  <2>4. /\ IsFiniteSet(Dispatched \cup {new})
        /\ Cardinality(Dispatched \cup {new}) = Cardinality(Dispatched) + 1
    BY <2>1, FiniteCounts, FS_AddElement
  <2>5. IsFiniteSet(Dispatched') /\ Cardinality(Dispatched') <= Cardinality(Dispatched) + 1
    BY <2>1, <2>4, FS_Subset
  <2>6. Cardinality(Dispatched') \in Nat
    BY <2>5, FS_CardinalityType
  <2>7. /\ Cardinality(Dispatched) \in Nat /\ Cardinality(Creating) \in Nat
        /\ Cardinality(Instances) \in Nat /\ MaxConcurrent \in Nat
    BY FiniteCounts, SchedulerAssumption
  <2>8. Cardinality(Dispatched) + Cardinality(Creating) <= MaxConcurrent + Cardinality(Instances) - 1
    BY DEF OvershootBounded, Dispatched, Creating
  <2>9. Cardinality(Dispatched') + Cardinality(Creating') <= MaxConcurrent + Cardinality(Instances) - 1
    BY <2>3, <2>5, <2>6, <2>7, <2>8
  <2> QED
    BY <2>9 DEF OvershootBounded, Dispatched, Creating
<1> QED
  BY <1>4, <1>5

LEMMA OvershootInstance ==
    ASSUME TypeInv, OvershootBounded, NEW i \in Instances, InstanceStep(i), TypeInv'
    PROVE  OvershootBounded'
<1>1. CASE \/ Claim(i) \/ Trigger(i) \/ TriggerReturns(i) \/ Calculate(i) \/ CalculateFails(i)
           \/ Advance(i) \/ TriggerFails(i) \/ Abort(i)
  <2>1. execs' = execs /\ Others(i)
    BY <1>1 DEF Claim, Trigger, TriggerReturns, Calculate, CalculateFails, Advance, TriggerFails,
                Abort, Others, TypeInv, TypeOK
  <2>2. inst'[i].pc # "create"
    <3>1. CASE Claim(i) \/ Trigger(i) \/ Calculate(i)
      BY <3>1 DEF Claim, Trigger, Calculate, TypeInv, TypeOK, InstanceStates
    <3>2. CASE TriggerReturns(i) \/ TriggerFails(i)
      BY <3>2 DEF TriggerReturns, TriggerFails, TypeInv, TypeOK, InstanceStates
    <3>3. CASE CalculateFails(i) \/ Advance(i) \/ Abort(i)
      BY <3>3 DEF CalculateFails, Advance, Abort, IdleInstance, TypeInv, TypeOK
    <3> QED
      BY <1>1, <3>1, <3>2, <3>3
  <2>3. Dispatched' \subseteq Dispatched /\ Creating' \subseteq Creating
    BY <2>1, <2>2 DEF Dispatched, Running, Creating, Others
  <2> QED
    BY <2>3, FewerCounts
<1>2. CASE Settle(i)
  <2>1. inst[i].exec \in DOMAIN execs /\ inst[i].result # "running"
    BY <1>2 DEF Settle, TypeInv, TypeOK, RecordInv, InstanceStates
  <2>2. /\ DOMAIN execs' = DOMAIN execs /\ execs'[inst[i].exec].status # "running"
        /\ \A x \in DOMAIN execs : x # inst[i].exec => execs'[x] = execs[x]
    <3>1. execs \in Seq(Executions)
      BY DEF TypeInv, TypeOK
    <3>2. execs' = [execs EXCEPT ![inst[i].exec] = [execs[inst[i].exec] EXCEPT !.status = inst[i].result]]
      BY <1>2 DEF Settle
    <3>3. execs[inst[i].exec] \in Executions
      BY <2>1, <3>1
    <3>4. [execs[inst[i].exec] EXCEPT !.status = inst[i].result].status = inst[i].result
      BY <3>3 DEF Executions
    <3> QED
      BY <2>1, <3>1, <3>2, <3>4
  <2>3. inst'[i].pc # "create" /\ Others(i)
    BY <1>2 DEF Settle, IdleInstance, TypeInv, TypeOK, Others
  <2>4. Dispatched' \subseteq Dispatched /\ Creating' \subseteq Creating
    BY <2>2, <2>3 DEF Dispatched, Running, Creating, Others
  <2> QED
    BY <2>4, FewerCounts
<1> QED
  BY <1>1, <1>2, OvershootCount, OvershootCreate DEF InstanceStep, Dispatch

LEMMA OvershootOthers ==
    ASSUME TypeInv, OvershootBounded, ClockStep \/ ClientStep \/ UNCHANGED vars, TypeInv'
    PROVE  OvershootBounded'
<1>1. inst' = inst
  BY DEF ClockStep, ClientStep, Tick, Lapse, SetEnabled, Pause, Resume, ResumeEnable, Move,
         MoveFails, ManualTrigger, Delete, vars
<1>2. Dispatched' \subseteq Dispatched
  <2>1. CASE Delete
    BY <2>1 DEF Delete, Dispatched, Running
  <2>2. CASE ManualTrigger
    <3>1. execs \in Seq(Executions) /\ execs' = Append(execs, [kind |-> "manual", status |-> "running"])
      BY <2>2 DEF ManualTrigger, CreateExecution, TypeInv, TypeOK
    <3>2. \A x \in DOMAIN execs' : \/ x \in DOMAIN execs /\ execs'[x] = execs[x]
                                   \/ execs'[x].kind = "manual"
      BY <3>1
    <3> QED
      BY <3>2 DEF Dispatched, Running
  <2>3. CASE ~Delete /\ ~ManualTrigger
    <3>1. execs' = execs
      BY <2>3 DEF ClockStep, ClientStep, Tick, Lapse, SetEnabled, Pause, Resume, ResumeEnable,
                  Move, MoveFails, vars
    <3> QED
      BY <3>1 DEF Dispatched, Running
  <2> QED
    BY <2>1, <2>2, <2>3
<1>3. Creating' \subseteq Creating
  BY <1>1 DEF Creating
<1> QED
  BY <1>2, <1>3, FewerCounts

(* Though the count and the record are two calls, the records made for        *)
(* targets, with those about to be made, exceed max_concurrent by at most one  *)
(* for every other instance: lost instances and manual triggers only leave     *)
(* fewer.                                                                      *)
THEOREM OvershootIsBounded == Spec => []OvershootBounded
<1>1. Init => OvershootBounded
  <2> SUFFICES ASSUME Init PROVE OvershootBounded
    OBVIOUS
  <2>1. Dispatched = {} /\ Creating = {}
    BY DEF Init, Dispatched, Running, Creating, IdleInstance
  <2>2. Cardinality(Instances) \in Nat /\ Cardinality(Instances) > 0
    BY InitTyped, FiniteCounts
  <2>3. Cardinality(Dispatched) + Cardinality(Creating) <= MaxConcurrent + Cardinality(Instances) - 1
    BY <2>1, <2>2, FS_EmptySet, SchedulerAssumption
  <2> QED
    BY <2>3 DEF OvershootBounded, Dispatched, Creating
<1>2. TypeInv /\ TypeInv' /\ OvershootBounded /\ [Next]_vars => OvershootBounded'
  BY StepKinds, OvershootInstance, OvershootOthers
<1> QED
  BY <1>1, <1>2, TypeInvariant, PTL DEF Spec

=============================================================================
