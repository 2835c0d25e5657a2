------------------------------ MODULE EventLog ------------------------------
(***************************************************************************)
(* How the events of a workflow get their sequence numbers.  Two kinds of  *)
(* writers append to durable_workflow_events, and they find the next       *)
(* number in different ways:                                               *)
(*   - append_event (task_events.rs) counts the events, inserts one row at *)
(*     that number without a lock, and starts again on a unique violation, *)
(*     at most MAX_RETRY_ATTEMPTS times;                                   *)
(*   - claim_task (postgres.rs) locks the rows of all workflows involved,  *)
(*     takes MAX(sequence_num) + 1 of each and inserts the ActivityStarted *)
(*     events of the tasks it claims for the first time.                   *)
(*                                                                         *)
(* PostgreSQL is modelled at the level of its locks: an inserted row is    *)
(* invisible until its transaction commits, an insert at a number that an  *)
(* uncommitted row holds waits for that transaction, the foreign key check *)
(* at the end of an insert waits for a FOR UPDATE lock on the workflow,    *)
(* and a transaction that is part of a deadlock is aborted.                *)
(***************************************************************************)
EXTENDS Integers, FiniteSets, FiniteSetsExt

CONSTANTS
    Flows,       \* workflow ids: FOR UPDATE locks them in this order
    Appends,     \* calls of append_event
    Claims,      \* transactions of claim_task
    FlowOf,      \* FlowOf[a]: the workflow a appends to
    Started,     \* Started[c][f]: the tasks of f that c claims for the first time
    NoClaim,     \* nobody holds the FOR UPDATE lock
    MaxTries     \* MAX_RETRY_ATTEMPTS

ASSUME EventLogAssumption ==
    /\ Flows \subseteq Nat
    /\ FlowOf \in [Appends -> Flows]
    /\ Started \in [Claims -> [Flows -> Nat]]
    /\ NoClaim \notin Claims
    /\ MaxTries \in Nat \ {0}

VARIABLES
    log,      \* log[f]: the sequence numbers of f's committed events
    append,   \* where each call of append_event is
    claim,    \* where each claim_task transaction is
    holder,   \* holder[f]: the transaction that has f FOR UPDATE
    rivals    \* auxiliary: events others committed to the workflow of a call since it began

vars == <<log, append, claim, holder, rivals>>

-----------------------------------------------------------------------------
(* State *)

(* check: the row is inserted and the foreign key check is due. *)
AppendStates == {"count", "insert", "check", "done", "lost", "error"}
ClaimStates == {"lock", "read", "write", "done", "error"}

TypeOK ==
    /\ log \in [Flows -> SUBSET Nat]
    /\ append \in [Appends -> [pc : AppendStates, seq : Nat, tries : 0..MaxTries]]
    /\ claim \in [Claims -> [pc : ClaimStates, next : [Flows -> Nat], written : SUBSET Flows]]
    /\ holder \in [Flows -> Claims \cup {NoClaim}]
    /\ rivals \in [Appends -> Nat]

(* start_workflow_with_task: WorkflowStarted is event 0, ActivityScheduled 1. *)
Init ==
    /\ log = [f \in Flows |-> {0, 1}]
    /\ append = [a \in Appends |-> [pc |-> "count", seq |-> 0, tries |-> 0]]
    /\ claim = [c \in Claims |-> [pc |-> "lock", next |-> [f \in Flows |-> 0], written |-> {}]]
    /\ holder = [f \in Flows |-> NoClaim]
    /\ rivals = [a \in Appends |-> 0]

FlowsOf(c) == {f \in Flows : Started[c][f] > 0}
Held(c) == {f \in Flows : holder[f] = c}

(* A row of f that is inserted and not committed: by an append, by a claim. *)
PendingAppend(a, f) == FlowOf[a] = f /\ append[a].pc = "check"
PendingClaim(c, f) == claim[c].pc = "write" /\ f \in claim[c].written

(* The numbers of the rows that claim c inserts for f. *)
StartedSeqs(c, f) == claim[c].next[f] .. (claim[c].next[f] + Started[c][f] - 1)

(* The end of a transaction releases its locks. *)
Unlock(c) == holder' = [f \in Flows |-> IF holder[f] = c THEN NoClaim ELSE holder[f]]

-----------------------------------------------------------------------------
(* append_event *)

\* Mutant: the next number is counted from one.
BugNextByCount(f) == Cardinality(log[f]) + 1

(* count_events *)
NextByCount(f) == Cardinality(log[f])

Count(a) ==
    /\ append[a].pc = "count"
    /\ append' = [append EXCEPT ![a].pc = "insert", ![a].seq = NextByCount(FlowOf[a])]
    /\ UNCHANGED <<log, claim, holder, rivals>>

(* The rows somebody else has inserted at number n of f and not committed. *)
Occupied(a, f, n) == \/ \E b \in Appends \ {a} : PendingAppend(b, f) /\ append[b].seq = n
                     \/ \E c \in Claims : PendingClaim(c, f) /\ n \in StartedSeqs(c, f)

\* Mutants: the retry uses the old number, and never gives up; or only the latter.
BugRetryAtSameNumber(a) == [append[a] EXCEPT !.tries = Min({@ + 1, MaxTries})]
BugRetryForEver(a) == [append[a] EXCEPT !.pc = "count", !.tries = @ + 1]

(* A ConcurrencyConflict: count again, unless the tries are used up. *)
AfterConflict(a) ==
    [append[a] EXCEPT !.pc = IF append[a].tries + 1 < MaxTries THEN "count" ELSE "lost",
                      !.tries = @ + 1]

(* append_events up to the unique index. *)
Insert(a) ==
    LET f == FlowOf[a]
        n == append[a].seq
    IN  /\ append[a].pc = "insert"
        /\ ~Occupied(a, f, n)
        /\ append' = [append EXCEPT ![a] = IF n \in log[f] THEN AfterConflict(a)
                                           ELSE [append[a] EXCEPT !.pc = "check"]]
        /\ UNCHANGED <<log, claim, holder, rivals>>

(* The foreign key check and the commit. *)
Commit(a) ==
    LET f == FlowOf[a]
    IN  /\ append[a].pc = "check"
        /\ holder[f] = NoClaim
        /\ log' = [log EXCEPT ![f] = @ \cup {append[a].seq}]
        /\ append' = [append EXCEPT ![a].pc = "done"]
        /\ rivals' = [b \in Appends |-> IF b # a /\ FlowOf[b] = f THEN rivals[b] + 1 ELSE rivals[b]]
        /\ UNCHANGED <<claim, holder>>

(* Any other database error is returned to the caller without a retry. *)
AppendFails(a) ==
    /\ append[a].pc \in {"count", "insert", "check"}
    /\ append' = [append EXCEPT ![a].pc = "error"]
    /\ UNCHANGED <<log, claim, holder, rivals>>

-----------------------------------------------------------------------------
(* claim_task *)

\* Mutant: the workflows are locked in the order of a hash map.
BugNextToLock(c) == FlowsOf(c) \ Held(c)

(* SELECT ... ORDER BY id FOR UPDATE *)
NextToLock(c) == {f \in FlowsOf(c) \ Held(c) : \A g \in FlowsOf(c) \ Held(c) : f <= g}

Lock(c, f) ==
    /\ claim[c].pc = "lock" /\ f \in NextToLock(c)
    /\ holder[f] = NoClaim
    /\ holder' = [holder EXCEPT ![f] = c]
    /\ UNCHANGED <<log, append, claim, rivals>>

\* Mutant: the locks are not waited for.
BugLocked(c) == claim[c].pc = "lock"

Locked(c) == claim[c].pc = "lock" /\ FlowsOf(c) \subseteq Held(c)

AllLocked(c) ==
    /\ Locked(c)
    /\ claim' = [claim EXCEPT ![c].pc = "read"]
    /\ UNCHANGED <<log, append, holder, rivals>>

(* COALESCE(MAX(sequence_num) + 1, 0) *)
NextByMax(f) == IF log[f] = {} THEN 0 ELSE Max(log[f]) + 1

ReadMax(c) ==
    /\ claim[c].pc = "read"
    /\ claim' = [claim EXCEPT ![c].pc = "write", ![c].next = [f \in Flows |-> NextByMax(f)]]
    /\ UNCHANGED <<log, append, holder, rivals>>

(* The rows of the multi-row INSERT that go to f; f is not yet written. *)
InsertStarted(c, f) ==
    /\ claim[c].pc = "write" /\ f \in FlowsOf(c) \ claim[c].written
    /\ ~\E a \in Appends : PendingAppend(a, f) /\ append[a].seq \in StartedSeqs(c, f)
    /\ IF StartedSeqs(c, f) \cap log[f] = {}
       THEN claim' = [claim EXCEPT ![c].written = @ \cup {f}] /\ UNCHANGED holder
       ELSE claim' = [claim EXCEPT ![c].pc = "error"] /\ Unlock(c)
    /\ UNCHANGED <<log, append, rivals>>

CommitClaim(c) ==
    /\ claim[c].pc = "write" /\ claim[c].written = FlowsOf(c)
    /\ log' = [f \in Flows |-> IF f \in FlowsOf(c) THEN log[f] \cup StartedSeqs(c, f) ELSE log[f]]
    /\ claim' = [claim EXCEPT ![c].pc = "done"]
    /\ Unlock(c)
    /\ rivals' = [a \in Appends |-> rivals[a] + Started[c][FlowOf[a]]]
    /\ UNCHANGED append

(* A database error or a lost connection rolls the claim back. *)
ClaimFails(c) ==
    /\ claim[c].pc \in {"lock", "read", "write"}
    /\ claim' = [claim EXCEPT ![c].pc = "error"]
    /\ Unlock(c)
    /\ UNCHANGED <<log, append, rivals>>

-----------------------------------------------------------------------------
AppendStep(a) == Count(a) \/ Insert(a) \/ Commit(a)
ClaimStep(c) == \/ AllLocked(c) \/ ReadMax(c) \/ CommitClaim(c)
                \/ \E f \in Flows : Lock(c, f) \/ InsertStarted(c, f)

Next == \/ \E a \in Appends : AppendStep(a) \/ AppendFails(a)
        \/ \E c \in Claims : ClaimStep(c) \/ ClaimFails(c)

Spec == Init /\ [][Next]_vars

-----------------------------------------------------------------------------
(* Who waits for whom *)

(* claim c waits for the lock of claim d. *)
LockWait(c, d) == claim[c].pc = "lock" /\ \E f \in NextToLock(c) : holder[f] = d

(* append a waits for the lock of claim c, and c for the row of a. *)
Deadlocked(a, c) ==
    LET f == FlowOf[a]
    IN  /\ PendingAppend(a, f) /\ holder[f] = c
        /\ claim[c].pc = "write" /\ f \in FlowsOf(c) \ claim[c].written
        /\ append[a].seq \in StartedSeqs(c, f)

(* Statements return, and PostgreSQL aborts one side of a deadlock. *)
Fairness ==
    /\ \A a \in Appends : WF_vars(AppendStep(a))
    /\ \A c \in Claims : WF_vars(ClaimStep(c))
    /\ \A a \in Appends, c \in Claims : WF_vars(Deadlocked(a, c) /\ (AppendFails(a) \/ ClaimFails(c)))

FairSpec == Spec /\ Fairness

-----------------------------------------------------------------------------
(* Properties *)

(* The numbers of a workflow's events are 0, 1, 2, ... without a gap, so that *)
(* the two ways to find the next one agree: the COUNT of count_events and     *)
(* MAX(sequence_num) + 1 of claim_task.  With a gap every append_event would  *)
(* count to a number that is taken, for ever.                                 *)
LogIsSequence == \A f \in Flows : log[f] = 0 .. (Cardinality(log[f]) - 1)

(* claim_task treats a unique violation as a database error and rolls the     *)
(* claim back.  It never gets one: from its FOR UPDATE lock on, nobody else   *)
(* can commit an event of the workflow.                                       *)
ClaimNeverConflicts ==
    \A c \in Claims, f \in Flows :
        claim[c].pc = "write" /\ f \in FlowsOf(c) => claim[c].next[f] = Cardinality(log[f])

(* Every try that append_event loses to a conflict was lost to an event that  *)
(* somebody else committed meanwhile: a call that gives up has seen MaxTries  *)
(* other events go in.                                                        *)
ConflictMeansProgress == \A a \in Appends : append[a].tries <= rivals[a]

(* Claims alone never deadlock, because all lock the workflows in the order   *)
(* of their ids: in every set of claims one waits for nobody in the set.      *)
ClaimsDoNotDeadlock ==
    \A S \in (SUBSET Claims) \ {{}} : \E c \in S : \A d \in S : ~LockWait(c, d)

(* Every append and every claim ends, although an append that has inserted    *)
(* its row and a claim that has locked the workflow wait for each other.      *)
EverythingEnds == <>(/\ \A a \in Appends : append[a].pc \in {"done", "lost", "error"}
                     /\ \A c \in Claims : claim[c].pc \in {"done", "error"})
=============================================================================
