---------------------------- MODULE SessionTasks ----------------------------
(***************************************************************************)
(* One background tool run and the session task that tracks it: the row of *)
(* session_tasks and its update rules (core/src/session_task.rs), the      *)
(* registry that tells observers of transitions                             *)
(* (server/src/storage/session_task_store.rs), the detached run with its    *)
(* heartbeat and cancel watch (platform/src/background_run.rs) and the      *)
(* reaper that re-attaches or fails runs whose heartbeat went stale         *)
(* (worker/src/session_task_reaper.rs).                                     *)
(*                                                                         *)
(* Reaper passes overlap, every process may be lost between two database   *)
(* calls, and a heartbeat may go stale while its run is still alive.        *)
(* Updates of a background tool carry no input request, so awaiting_input   *)
(* and the messages of a task are left out.                                 *)
(***************************************************************************)
EXTENDS Integers, FiniteSets

CONSTANTS
    Reapers,      \* reaper passes that may overlap
    Spawner,      \* the worker that executed spawn_background
    MaxAttempts   \* max_attempts of SessionTaskReaperInput

ASSUME SessionTasksAssumption == Spawner \notin Reapers /\ MaxAttempts \in Nat \ {0}

VARIABLES
    row,        \* the row of session_tasks
    run,        \* the detached runs, by the attempt they were started for and their starter
    reaper,     \* where each reaper pass is
    flagged,    \* spec["reattachable"] of the task
    safe,       \* the tool's hints say idempotent or readonly
    \* Auxiliary variables: history the code does not keep.
    notified,   \* how often observers were told of the terminal transition
    blind,      \* the update that ended the task had read no prior snapshot
    missed      \* an update was to tell the observers and its process was lost

vars == <<row, run, reaper, flagged, safe, notified, blind, missed>>
history == <<notified, blind, missed>>

-----------------------------------------------------------------------------
(* State *)

Terminal == {"succeeded", "failed", "canceled"}
Rows == [state : {"absent", "running", "pruned"} \cup Terminal, attempt : 1..MaxAttempts + 1,
         beat : {"null", "fresh", "stale"}, cancel : BOOLEAN,
         error : {"none", "error", "orphaned"}]

Runs == [attempt : 1..MaxAttempts, by : Reapers \cup {Spawner}]
Priors == {"live", "ended", "unknown"}
RunStates == [pc : {"none", "beat", "poll", "ended", "mirror", "notify", "over"},
              outcome : Terminal \cup {"none"}, prior : Priors]
NoRun == [pc |-> "none", outcome |-> "none", prior |-> "unknown"]
Over == [NoRun EXCEPT !.pc = "over"]

(* bump tells the failure of an orphan, which supersedes its attempt, from   *)
(* the failure of a re-attached attempt that did not start.                  *)
ReaperStates == [pc : {"idle", "get", "supersede", "start", "fail", "commit", "notify", "retain"},
                 snap : 0..MaxAttempts + 1, bump : BOOLEAN, prior : Priors]
IdleReaper == [pc |-> "idle", snap |-> 0, bump |-> FALSE, prior |-> "unknown"]
Retaining == [IdleReaper EXCEPT !.pc = "retain"]

TypeOK ==
    /\ row \in Rows
    /\ run \in [Runs -> RunStates]
    /\ reaper \in [Reapers -> ReaperStates]
    /\ flagged \in BOOLEAN /\ safe \in BOOLEAN
    /\ notified \in Nat /\ blind \in BOOLEAN /\ missed \in BOOLEAN

NoRow == [state |-> "absent", attempt |-> 1, beat |-> "null", cancel |-> FALSE,
          error |-> "none"]

Init ==
    /\ row = NoRow
    /\ run = [k \in Runs |-> NoRun]
    /\ reaper = [p \in Reapers |-> IdleReaper]
    /\ flagged = FALSE /\ safe \in BOOLEAN
    /\ notified = 0 /\ blind = FALSE /\ missed = FALSE

-----------------------------------------------------------------------------
(* The registry *)

(* A SessionTaskUpdate: "none" and 0 stand for None. *)
NoUpdate == [state |-> "none", error |-> "none", expected |-> 0, bump |-> FALSE, beat |-> FALSE]

Present == row.state \notin {"absent", "pruned"}

(* Mutant: a terminal task takes whatever the update carries. *)
BugApply(t, u) ==
    IF u.expected \notin {0, t.attempt} THEN t
    ELSE [t EXCEPT !.attempt = @ + (IF u.bump THEN 1 ELSE 0),
                   !.state = IF u.state = "none" THEN @ ELSE u.state,
                   !.error = IF u.error = "none" THEN @ ELSE u.error,
                   !.beat = IF u.beat THEN "fresh" ELSE @]
(* Mutant: only the state of a terminal task is final. *)
BugApplyContent(t, u) ==
    IF u.expected \notin {0, t.attempt} THEN t
    ELSE [t EXCEPT !.attempt = @ + (IF u.bump THEN 1 ELSE 0),
                   !.state = IF u.state = "none" \/ t.state \in Terminal THEN @ ELSE u.state,
                   !.error = IF u.error = "none" THEN @ ELSE u.error,
                   !.beat = IF u.beat THEN "fresh" ELSE @]
(* apply_task_update: fenced updates of another attempt and updates that ask  *)
(* a terminal task for another state are ignored as a whole.                  *)
Apply(t, u) ==
    IF \/ u.expected \notin {0, t.attempt}
       \/ t.state \in Terminal /\ u.state \notin {"none", t.state}
    THEN t
    ELSE [t EXCEPT !.attempt = @ + (IF u.bump THEN 1 ELSE 0),
                   !.state = IF u.state = "none" THEN @ ELSE u.state,
                   !.error = IF u.error = "none" THEN @ ELSE u.error,
                   !.beat = IF u.beat THEN "fresh" ELSE @]

(* The read of update() before its transaction; it is best effort. *)
Prior == {"unknown"} \cup (IF ~Present THEN {} ELSE
                            IF row.state \in Terminal THEN {"ended"} ELSE {"live"})

(* The transaction of update(); an update of a task that is gone does nothing. *)
Write(u) == row' = IF Present THEN Apply(row, u) ELSE row

(* Mutant: the first state that was read decides whom the end belongs to. *)
BugTells(prior) == Present /\ prior = "ended" /\ row'.state \in Terminal
(* An update that asks for a terminal state is to tell the waker and the      *)
(* observers when it read a live task before its transaction and gets a       *)
(* terminal one back, whoever ended it.                                       *)
Tells(prior) == Present /\ prior = "live" /\ row'.state \in Terminal

(* The update up to the commit; it says whether the read before was in vain. *)
Finish(u, prior) ==
    /\ Write(u)
    /\ blind' = (blind \/ (prior = "unknown" /\ row.state \notin Terminal /\ row'.state \in Terminal))
    /\ UNCHANGED <<notified, missed>>

(* The snapshot event and the wake are awaited between the commit and the     *)
(* observers: the process may be lost there, and so may the commit's reply.   *)
Told == notified' = notified + 1 /\ UNCHANGED <<blind, missed>>
Untold(pending) == missed' = (missed \/ pending) /\ UNCHANGED <<notified, blind>>

(* The client: cancel records an intent, at any time and on any task. *)
RequestCancel ==
    /\ Present /\ ~row.cancel
    /\ row' = [row EXCEPT !.cancel = TRUE]
    /\ UNCHANGED <<run, reaper, flagged, safe, history>>

(* Time passes without a heartbeat the database has seen. *)
GoStale ==
    /\ Present /\ row.beat = "fresh"
    /\ row' = [row EXCEPT !.beat = "stale"]
    /\ UNCHANGED <<run, reaper, flagged, safe, history>>

-----------------------------------------------------------------------------
(* A background run *)

Alive(k) == run[k].pc \notin {"none", "over"}

(* spawn_background creates the task in state running, with the flag the     *)
(* tool's hints give; the row may also come from an API that sets the flag.   *)
Spawn ==
    /\ row.state = "absent"
    /\ row' = [row EXCEPT !.state = "running"]
    /\ flagged' \in {TRUE, safe}
    /\ run' = [run EXCEPT ![[attempt |-> 1, by |-> Spawner]].pc = "beat"]
    /\ UNCHANGED <<reaper, safe, history>>

(* The watch loop: a heartbeat fenced on the run's attempt, then a look at    *)
(* the cancel intent; an error of either is ignored.                          *)
Heartbeat(k) ==
    /\ run[k].pc = "beat"
    /\ Write([NoUpdate EXCEPT !.beat = TRUE, !.expected = k.attempt]) \/ UNCHANGED row
    /\ run' = [run EXCEPT ![k].pc = "poll"]
    /\ UNCHANGED <<reaper, flagged, safe, history>>

PollCancel(k) ==
    /\ run[k].pc = "poll"
    /\ \/ /\ Present /\ row.cancel
          /\ run' = [run EXCEPT ![k].pc = "ended", ![k].outcome = "canceled"]
       \/ run' = [run EXCEPT ![k].pc = "beat"]
    /\ UNCHANGED <<row, reaper, flagged, safe, history>>

(* The tool returns first and the watch is dropped. *)
ToolEnds(k) ==
    /\ run[k].pc \in {"beat", "poll"}
    /\ \E o \in {"succeeded", "failed"} :
           run' = [run EXCEPT ![k].pc = "ended", ![k].outcome = o]
    /\ UNCHANGED <<row, reaper, flagged, safe, history>>

(* finalize writes the log and the result file, then begins the update. *)
WriteArtifacts(k) ==
    /\ run[k].pc = "ended"
    /\ \E p \in Prior : run' = [run EXCEPT ![k].pc = "mirror", ![k].prior = p]
    /\ UNCHANGED <<row, reaper, flagged, safe, history>>

(* mirror_task: the final update names no attempt. *)
Mirror(k) ==
    /\ run[k].pc = "mirror"
    /\ Finish([NoUpdate EXCEPT !.state = run[k].outcome,
                               !.error = IF run[k].outcome = "failed" THEN "error" ELSE "none"],
              run[k].prior)
    /\ run' = [run EXCEPT ![k] = IF Tells(run[k].prior) THEN [@ EXCEPT !.pc = "notify"] ELSE Over]
    /\ UNCHANGED <<reaper, flagged, safe>>

MirrorNotifies(k) ==
    /\ run[k].pc = "notify"
    /\ Told
    /\ run' = [run EXCEPT ![k] = Over]
    /\ UNCHANGED <<row, reaper, flagged, safe>>

(* The worker or the server at work for it is lost, a file is not written, or  *)
(* the update fails: the run is over and the row or the observers do not know. *)
LoseRun(k) ==
    /\ Alive(k)
    /\ Untold(run[k].pc = "notify")
    /\ run' = [run EXCEPT ![k] = Over]
    /\ UNCHANGED <<row, reaper, flagged, safe>>

-----------------------------------------------------------------------------
(* A reaper pass *)

(* list_orphaned_session_task_ids: a task that never had a heartbeat is not    *)
(* a candidate.                                                               *)
Candidate == row.state = "running" /\ row.beat = "stale"

Scan(p) ==
    /\ reaper[p].pc = "idle" /\ row.state # "absent"
    /\ reaper' = [reaper EXCEPT ![p].pc = IF Candidate THEN "get" ELSE "retain"]
    /\ UNCHANGED <<row, run, flagged, safe, history>>

(* Mutant: the limit on attempts is off by one. *)
BugReattachable == flagged /\ row.attempt <= MaxAttempts
(* can_reattach_task and the limit on attempts, on the snapshot of the pass. *)
Reattachable == flagged /\ row.attempt < MaxAttempts

(* reconcile_orphans reads the task: a terminal one is skipped. *)
Get(p) ==
    /\ reaper[p].pc = "get"
    /\ reaper' = [reaper EXCEPT ![p] =
           IF ~Present \/ row.state \in Terminal THEN Retaining
           ELSE [@ EXCEPT !.snap = row.attempt, !.bump = ~Reattachable,
                          !.pc = IF Reattachable THEN "supersede" ELSE "fail"]]
    /\ UNCHANGED <<row, run, flagged, safe, history>>

(* The attempt is superseded; the pass goes on when the row it gets back has  *)
(* the new attempt, whoever set it.                                           *)
Supersede(p) ==
    /\ reaper[p].pc = "supersede"
    /\ Write([NoUpdate EXCEPT !.expected = reaper[p].snap, !.bump = TRUE, !.beat = TRUE])
    /\ reaper' = [reaper EXCEPT ![p] =
           IF Present /\ row'.attempt = reaper[p].snap + 1 THEN [@ EXCEPT !.pc = "start"]
           ELSE Retaining]
    /\ UNCHANGED <<run, flagged, safe, history>>

(* reattach_background_run checks the hints of the tool again. *)
Start(p) ==
    /\ reaper[p].pc = "start" /\ safe
    /\ run' = [run EXCEPT ![[attempt |-> reaper[p].snap + 1, by |-> p]].pc = "beat"]
    /\ reaper' = [reaper EXCEPT ![p] = Retaining]
    /\ UNCHANGED <<row, flagged, safe, history>>

(* The tool is unknown or unsafe, or the permits of the worker or the session *)
(* are taken: the task fails under its new attempt.                           *)
StartFails(p) ==
    /\ reaper[p].pc = "start"
    /\ reaper' = [reaper EXCEPT ![p].pc = "fail", ![p].snap = @ + 1, ![p].bump = FALSE]
    /\ UNCHANGED <<row, run, flagged, safe, history>>

(* Mutant: the state that was read is not classified. *)
BugBeginFail(p) ==
    /\ reaper[p].pc = "fail"
    /\ reaper' = [reaper EXCEPT ![p].pc = "commit", ![p].prior = row.state]
    /\ UNCHANGED <<row, run, flagged, safe, history>>
BeginFail(p) ==
    /\ reaper[p].pc = "fail"
    /\ \E q \in Prior : reaper' = [reaper EXCEPT ![p].pc = "commit", ![p].prior = q]
    /\ UNCHANGED <<row, run, flagged, safe, history>>

(* Mutant: the fence expects the attempt that the update is to make. *)
BugFailOrphan(p) ==
    /\ reaper[p].pc = "commit"
    /\ Finish([NoUpdate EXCEPT !.state = "failed", !.error = "orphaned",
                               !.expected = reaper[p].snap + 1, !.bump = reaper[p].bump],
              reaper[p].prior)
    /\ reaper' = [reaper EXCEPT ![p] = IF Tells(@.prior) THEN [@ EXCEPT !.pc = "notify"] ELSE Retaining]
    /\ UNCHANGED <<run, flagged, safe>>
(* The task is failed as orphaned, if it still has the attempt the pass saw. *)
FailOrphan(p) ==
    /\ reaper[p].pc = "commit"
    /\ Finish([NoUpdate EXCEPT !.state = "failed", !.error = "orphaned",
                               !.expected = reaper[p].snap, !.bump = reaper[p].bump],
              reaper[p].prior)
    /\ reaper' = [reaper EXCEPT ![p] = IF Tells(@.prior) THEN [@ EXCEPT !.pc = "notify"] ELSE Retaining]
    /\ UNCHANGED <<run, flagged, safe>>

FailNotifies(p) ==
    /\ reaper[p].pc = "notify"
    /\ Told
    /\ reaper' = [reaper EXCEPT ![p] = Retaining]
    /\ UNCHANGED <<row, run, flagged, safe>>

(* The retention pass deletes a terminal task that is old enough. *)
Retain(p) ==
    /\ reaper[p].pc = "retain"
    /\ \/ row.state \in Terminal /\ row' = [NoRow EXCEPT !.state = "pruned"]
       \/ UNCHANGED row
    /\ reaper' = [reaper EXCEPT ![p] = IdleReaper]
    /\ UNCHANGED <<run, flagged, safe, history>>

(* The pass is lost, or a call of it fails and it skips the task. *)
LoseReaper(p) ==
    /\ reaper[p].pc # "idle"
    /\ Untold(reaper[p].pc = "notify")
    /\ reaper' = [reaper EXCEPT ![p] = IdleReaper]
    /\ UNCHANGED <<row, run, flagged, safe>>

-----------------------------------------------------------------------------
(* Specification *)

Next ==
    \/ Spawn \/ RequestCancel \/ GoStale
    \/ \E k \in Runs : \/ Heartbeat(k) \/ PollCancel(k) \/ ToolEnds(k) \/ WriteArtifacts(k)
                       \/ Mirror(k) \/ MirrorNotifies(k) \/ LoseRun(k)
    \/ \E p \in Reapers : \/ Scan(p) \/ Get(p) \/ Supersede(p) \/ Start(p) \/ StartFails(p)
                          \/ BeginFail(p) \/ FailOrphan(p) \/ FailNotifies(p) \/ Retain(p)
                          \/ LoseReaper(p)

Spec == Init /\ [][Next]_vars

(* Tools return; a row nobody heartbeats for goes stale; and the reaper, a    *)
(* recurring schedule, is run again after every failure, so a step it can     *)
(* take again and again is taken.                                             *)
Fairness ==
    /\ \A k \in Runs : WF_vars(ToolEnds(k)) /\ WF_vars(WriteArtifacts(k)) /\ WF_vars(Mirror(k))
    /\ WF_vars(GoStale /\ ~\E k \in Runs : Alive(k) /\ k.attempt = row.attempt)
    /\ \A p \in Reapers : /\ WF_vars(Scan(p)) /\ WF_vars(Retain(p))
                          /\ SF_vars(Get(p)) /\ SF_vars(Supersede(p))
                          /\ SF_vars(Start(p) \/ StartFails(p))
                          /\ SF_vars(BeginFail(p)) /\ SF_vars(FailOrphan(p))

FairSpec == Spec /\ Fairness

-----------------------------------------------------------------------------
(* Properties *)

(* However late a run, its superseded predecessor or an overlapping reaper     *)
(* reports, a finished task keeps its state until retention removes it, and a  *)
(* removed task does not come back (apply_task_update: "terminal states are    *)
(* final").                                                                    *)
FinishedIsFinal ==
    [][row.state \in Terminal \cup {"pruned"} => row'.state \in {row.state, "pruned"}]_vars

(* A task that succeeded or was canceled is not also marked orphaned, however   *)
(* late a reaper that lost the race against the run fails it                    *)
(* (apply_task_update: "so its content fields (error, summary) cannot corrupt   *)
(* the terminal record").                                                       *)
NoFalseOrphan == row.state \in {"succeeded", "canceled"} => row.error # "orphaned"

(* Re-attaching stops at max_attempts, whatever passes are lost or come late,   *)
(* and the attempt beyond it is that of a failed task.                          *)
AttemptsBounded == row.attempt > MaxAttempts => row.state = "failed"

(* An end is not forgotten while every process survives: observers have been    *)
(* told of a task that ended, or an update that found it ended is on its way    *)
(* to them.  The exceptions are an end whose update could not read the task     *)
(* first, and a process lost between its commit and its notification.           *)
EndsAreReported ==
    row.state \in Terminal =>
        \/ notified > 0 \/ blind \/ missed
        \/ \E k \in Runs : run[k].pc = "notify"
        \/ \E p \in Reapers : reaper[p].pc = "notify"

(* A task that had a heartbeat does not run for ever: its run ends it, or      *)
(* the reaper re-attaches it until the attempts are used up and fails it.      *)
OrphansEnd == row.state = "running" /\ row.beat # "null" ~> row.state \in Terminal

-----------------------------------------------------------------------------
(* What a comment of the repository says and the code does not do *)

(* reconcile_orphans: the supersede update is to "Atomically guard against     *)
(* double-reap: only apply if the attempt hasn't already been bumped by        *)
(* another worker"; so an attempt has one executor.                            *)
OneRunPerAttempt ==
    \A j, k \in Runs : j.attempt = k.attempt /\ run[j].pc # "none" /\ run[k].pc # "none"
                       => j = k

=============================================================================
