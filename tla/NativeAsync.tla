----------------------------- MODULE NativeAsync -----------------------------
(***************************************************************************)
(* Provider-native asynchronous tool calls of one turn: the checkpoint in  *)
(* the shared journal (provider/src/native_async.rs), the database-clock   *)
(* lease that fences it (server/src/storage/native_async_store.rs), the    *)
(* coordinator that streams responses while jobs run                       *)
(* (engine/src/native_async.rs) and the Reason activity that drives it     *)
(* through provider continuations (host/src/native_async.rs and the native *)
(* hooks of engine/src/execution/reason.rs).                               *)
(*                                                                         *)
(* Every attempt of the activity is an owner with a fencing token of its   *)
(* own.  A lease may lapse at any time while its owner keeps going, an      *)
(* owner may crash between any two steps, and every write to the journal    *)
(* may fail after it was applied.  One number names a provider request, the *)
(* response it opens and the assistant message made of it.                  *)
(***************************************************************************)
EXTENDS Integers, FiniteSets

CONSTANTS
    Owners,          \* lease tokens: one for each attempt of the activity
    NoOwner,         \* the journal row has no owner yet
    Calls,           \* call ids the provider may use
    Async,           \* calls flagged async by the provider
    ReplaySafe,      \* calls whose tool is Pure or Idempotent
    Serial,          \* calls of one concurrency class
    MaxConcurrency,  \* permits of the job semaphore
    MaxResponses,    \* max_iterations of the agent
    MaxRequests      \* bound: provider requests in all

ASSUME NativeAsyncAssumption ==
    /\ NoOwner \notin Owners
    /\ Async \subseteq Calls /\ ReplaySafe \subseteq Calls /\ Serial \subseteq Calls
    /\ MaxConcurrency \in Nat \ {0}
    /\ MaxResponses \in Nat \ {0}
    /\ MaxRequests \in Nat \ {0}

VARIABLES
    journal,    \* native_async_checkpoints.payload of the turn
    lease,      \* its owner, and whether lease_until is in the future
    pc,         \* where each owner is in execute_reason
    chk,        \* the checkpoint in each owner's memory
    resp,       \* the request whose stream each owner reads
    jobs,       \* tool jobs each owner has spawned
    requests,   \* requests the provider has been sent
    messages,   \* assistant messages in the session's transcript
    recorded,   \* calls with a canonical tool result in the transcript
    \* Auxiliary variables: history the code does not keep.
    emitted,    \* calls the provider has streamed
    runs,       \* how often the tool of each call was started
    sentBy,     \* owners that submitted the output of each call
    unlogged    \* calls whose Act returned a result it could not record

vars == <<journal, lease, pc, chk, resp, jobs, requests, messages, recorded,
          emitted, runs, sentBy, unlogged>>
history == <<emitted, runs, sentBy, unlogged>>

-----------------------------------------------------------------------------
(* State *)

(* PendingCallState, with Ready split by what the output says. *)
Ready == {"result", "error", "interrupted", "cancelled"}
TerminalErrors == Ready \ {"result"}
CallStates == {"none", "queued", "running", "delivered"} \cup Ready

(* delivery holds the call ids of the Delivery, {} for None; 0 is None for   *)
(* latest_response_id and transcript_message_id.                             *)
Checkpoints == [calls : [Calls -> CallStates], latest : 0..MaxRequests,
                transcript : 0..MaxRequests, inFlight : BOOLEAN, completed : Nat,
                summaries : Nat, delivery : SUBSET Calls, outcome : BOOLEAN]
DefaultCheckpoint == [calls |-> [c \in Calls |-> "none"], latest |-> 0, transcript |-> 0,
                      inFlight |-> FALSE, completed |-> 0, summaries |-> 0,
                      delivery |-> {}, outcome |-> FALSE]

(* Opening happens before the select! that a cancellation or a lost lease   *)
(* interrupts, Ending after it.                                             *)
Opening == {"load", "reconcile", "progress", "open", "restart"}
Rounds == {"round", "waitOne", "again", "persist", "submit", "begin", "stream", "streamed",
           "launch", "syncs", "stage", "emit", "commit", "check", "finish"}
Ending == {"return", "cancel", "errors"}
Halted == {"ended", "done"}

JobStates == {"none", "spawned", "locked", "executing", "result", "error"}

TypeOK ==
    /\ journal \in Checkpoints
    /\ lease \in [owner : Owners \cup {NoOwner}, live : BOOLEAN]
    /\ pc \in [Owners -> {"idle"} \cup Opening \cup Rounds \cup Ending \cup Halted]
    /\ chk \in [Owners -> Checkpoints]
    /\ resp \in [Owners -> 0..MaxRequests]
    /\ jobs \in [Owners -> [Calls -> JobStates]]
    /\ requests \in 0..MaxRequests
    /\ messages \subseteq 1..MaxRequests
    /\ recorded \subseteq Calls
    /\ emitted \subseteq Calls
    /\ runs \in [Calls -> Nat]
    /\ sentBy \in [Calls -> SUBSET Owners]
    /\ unlogged \subseteq Calls

Init ==
    /\ journal = DefaultCheckpoint
    /\ lease = [owner |-> NoOwner, live |-> FALSE]
    /\ pc = [o \in Owners |-> "idle"]
    /\ chk = [o \in Owners |-> DefaultCheckpoint]
    /\ resp = [o \in Owners |-> 0]
    /\ jobs = [o \in Owners |-> [c \in Calls |-> "none"]]
    /\ requests = 0 /\ messages = {} /\ recorded = {} /\ emitted = {}
    /\ runs = [c \in Calls |-> 0]
    /\ sentBy = [c \in Calls |-> {}]
    /\ unlogged = {}

-----------------------------------------------------------------------------
(* The checkpoint (NativeAsyncCheckpoint) *)

In(k, states) == {c \in Calls : k.calls[c] \in states}

CanComplete(k) ==
    /\ k.transcript = 0 /\ ~k.inFlight /\ k.delivery = {}
    /\ In(k, {"none", "delivered"}) = Calls

(* recover refuses a checkpoint whose provider exchange is uncertain. *)
Recoverable(k) == k.transcript = 0 /\ k.delivery = {} /\ ~k.inFlight

(* Running calls are queued again when that is safe, else answered as interrupted. *)
Recovered(k) ==
    [k EXCEPT !.calls = [c \in Calls |->
        IF k.calls[c] # "running" THEN k.calls[c]
        ELSE IF c \in ReplaySafe THEN "queued" ELSE "interrupted"]]

(* First result wins. *)
Settled(k, c, output) ==
    IF k.calls[c] \in {"queued", "running"} THEN [k EXCEPT !.calls[c] = output] ELSE k

Cancelled(k) ==
    [k EXCEPT !.calls = [c \in Calls |->
        IF k.calls[c] \in {"queued", "running"} THEN "cancelled" ELSE k.calls[c]]]

(* A completed response acknowledges the delivery its request carried. *)
Responded(k, id) ==
    [k EXCEPT !.calls = [c \in Calls |-> IF c \in k.delivery THEN "delivered" ELSE k.calls[c]],
              !.delivery = {}, !.latest = id, !.completed = @ + 1, !.inFlight = FALSE]

-----------------------------------------------------------------------------
(* The journal and its lease *)

(* Mutant: the journal does not check who writes. *)
BugHolds(o) == TRUE
Holds(o) == lease.owner = o /\ lease.live

(* The write of k was acknowledged; the owner goes on. *)
Saved(o, k, next) ==
    /\ Holds(o)
    /\ journal' = k
    /\ chk' = [chk EXCEPT ![o] = k]
    /\ pc' = [pc EXCEPT ![o] = next]

(* The write was refused by the fence, or its reply was lost, which poisons  *)
(* the coordinator; or the turn was cancelled while it was under way.        *)
NotSaved(o, k) ==
    /\ journal' \in {journal} \cup {x \in {k} : Holds(o)}
    /\ \/ /\ pc' = [pc EXCEPT ![o] = "ended"]
          /\ chk' = [chk EXCEPT ![o] = DefaultCheckpoint]
       \/ /\ pc[o] \in Rounds
          /\ pc' = [pc EXCEPT ![o] = "cancel"]
          /\ chk' = [chk EXCEPT ![o] = k]

Save(o, k, next) ==
    /\ Saved(o, k, next) \/ NotSaved(o, k)
    /\ UNCHANGED <<lease, jobs>>

(* start the call, save, and only then spawn its job. *)
Launch(o, c, next) ==
    LET k == [chk[o] EXCEPT !.calls[c] = "running"] IN
    /\ \/ Saved(o, k, next) /\ jobs' = [jobs EXCEPT ![o][c] = "spawned"]
       \/ NotSaved(o, k) /\ UNCHANGED jobs
    /\ UNCHANGED <<lease, resp, requests, messages, recorded, history>>

Goto(o, next) == pc' = [pc EXCEPT ![o] = next] /\ UNCHANGED chk

(* The attempt fails before or without a coordinator to cancel. *)
End(o) ==
    /\ pc' = [pc EXCEPT ![o] = "ended"]
    /\ chk' = [chk EXCEPT ![o] = DefaultCheckpoint]

Quiet == UNCHANGED <<journal, lease, jobs, resp, requests, messages, recorded, history>>

(* The row is inserted, or taken over once its lease has lapsed. *)
Acquire(o) ==
    /\ pc[o] = "idle"
    /\ ~lease.live
    /\ lease' = [owner |-> o, live |-> TRUE]
    /\ Goto(o, "load")
    /\ UNCHANGED <<journal, jobs, resp, requests, messages, recorded, history>>

(* lease_until passes without a renewal: the owner is slow, paused or gone. *)
LeaseLapses ==
    /\ lease.live
    /\ lease' = [lease EXCEPT !.live = FALSE]
    /\ UNCHANGED <<journal, pc, chk, resp, jobs, requests, messages, recorded, history>>

-----------------------------------------------------------------------------
(* Opening the conversation: execute_reason up to NativeAsyncCoordinator::open *)

Load(o) ==
    /\ pc[o] = "load"
    /\ \/ /\ Holds(o)
          /\ chk' = [chk EXCEPT ![o] = journal]
          /\ pc' = [pc EXCEPT ![o] = "reconcile"]
       \/ End(o)
    /\ Quiet

(* A response whose message reached the transcript, with its summary saved, *)
(* is committed after the fact.                                             *)
Reconcile(o) ==
    LET k == chk[o]
        committed == /\ k.transcript # 0 /\ ~k.inFlight
                     /\ k.transcript \in messages /\ k.transcript = k.latest
                     /\ k.summaries = k.completed
    IN
    /\ pc[o] = "reconcile"
    /\ \/ ~committed /\ Goto(o, "progress") /\ UNCHANGED <<journal, lease, jobs>>
       \/ committed /\ Save(o, [k EXCEPT !.transcript = 0], "progress")
    /\ UNCHANGED <<resp, requests, messages, recorded, history>>

(* recover_host_progress, and the return of an outcome that is already there. *)
Progress(o) ==
    LET k == chk[o]
        final == ~k.outcome /\ CanComplete(k) /\ k.summaries > 0
    IN
    /\ pc[o] = "progress"
    /\ \/ k.transcript = 0 /\ k.summaries # k.completed /\ End(o) /\ Quiet
       \/ /\ k.transcript = 0 => k.summaries = k.completed
          /\ \/ /\ final
                /\ Save(o, [k EXCEPT !.outcome = TRUE], "return")
             \/ /\ ~final
                /\ Goto(o, IF k.outcome THEN "return" ELSE "open")
                /\ UNCHANGED <<journal, lease, jobs>>
          /\ UNCHANGED <<resp, requests, messages, recorded, history>>

(* NativeAsyncCoordinator::open loads again, recovers and saves. *)
Open(o) ==
    /\ pc[o] = "open"
    /\ \/ ~Holds(o) /\ End(o) /\ Quiet
       \/ ~Recoverable(journal) /\ End(o) /\ Quiet
       \/ /\ Holds(o) /\ Recoverable(journal)
          /\ Save(o, Recovered(journal), "restart")
          /\ UNCHANGED <<resp, requests, messages, recorded, history>>

(* Queued calls are authorized and launched again, then the rounds begin. *)
Restart(o) ==
    /\ pc[o] = "restart"
    /\ \/ \E c \in In(chk[o], {"queued"}) : Launch(o, c, "restart")
       \/ In(chk[o], {"queued"}) # {} /\ End(o) /\ Quiet
       \/ In(chk[o], {"queued"}) = {} /\ Goto(o, "round") /\ Quiet

-----------------------------------------------------------------------------
(* One round: deliver what is ready, stream a response, commit its message *)

Unsettled(k) == In(k, {"queued", "running"})
Live(o) == {c \in Calls : jobs[o][c] # "none"}

(* What NativeAsyncCheckpoint::prepare_delivery refuses to go on from. *)
DeliveryPossible(k) == ~k.inFlight /\ k.delivery = {} /\ (In(k, Ready) = {} \/ k.latest # 0)

(* The response budget is spent, or an activity error: the round fails. *)
Fail(o) ==
    /\ \/ pc[o] = "round" /\ chk[o].completed >= MaxResponses
       \/ pc[o] \in {"round", "again"} /\ ~DeliveryPossible(chk[o])
       \/ pc[o] \in {"round", "again"} /\ ~(Unsettled(chk[o]) \subseteq Async) /\ Live(o) = {}
       \/ pc[o] = "begin" /\ (chk[o].transcript # 0 \/ chk[o].inFlight)
       \/ pc[o] = "stage" /\ chk[o].summaries + 1 # chk[o].completed
       \/ pc[o] \in {"persist", "submit", "emit"}
    /\ Goto(o, "cancel")
    /\ Quiet

(* Mutant: the request goes out before its delivery is saved. *)
BugPrepareDelivery(o) ==
    LET k == [chk[o] EXCEPT !.delivery = In(chk[o], Ready)] IN
    /\ pc[o] \in {"round", "again"}
    /\ pc[o] = "round" => chk[o].completed < MaxResponses
    /\ DeliveryPossible(chk[o])
    /\ Unsettled(chk[o]) \subseteq Async
    /\ chk' = [chk EXCEPT ![o] = k]
    /\ pc' = [pc EXCEPT ![o] = IF pc[o] = "round" /\ k.delivery = {} /\ k.latest # 0 /\ ~CanComplete(k)
                               THEN "waitOne" ELSE "persist"]
    /\ Quiet
(* Synchronous calls have settled; every ready output goes into the delivery. *)
PrepareDelivery(o) ==
    LET k == [chk[o] EXCEPT !.delivery = In(chk[o], Ready)]
        wait == pc[o] = "round" /\ k.delivery = {} /\ k.latest # 0 /\ ~CanComplete(k)
    IN
    /\ pc[o] \in {"round", "again"}
    /\ pc[o] = "round" => chk[o].completed < MaxResponses
    /\ DeliveryPossible(chk[o])
    /\ Unsettled(chk[o]) \subseteq Async
    /\ Save(o, k, IF wait THEN "waitOne" ELSE "persist")
    /\ UNCHANGED <<resp, requests, messages, recorded, history>>

(* Mutant: the synthesized errors are delivered and not recorded. *)
BugPersistTerminalErrors(o) ==
    /\ pc[o] \in {"persist", "errors"}
    /\ IF pc[o] = "persist" THEN Goto(o, "submit") ELSE End(o)
    /\ UNCHANGED <<journal, lease, jobs, resp, requests, messages, recorded, history>>
(* persist_terminal_errors: errors no Act recorded become tool results. *)
PersistTerminalErrors(o) ==
    /\ pc[o] \in {"persist", "errors"}
    /\ recorded' = recorded \cup In(chk[o], TerminalErrors)
    /\ IF pc[o] = "persist" THEN Goto(o, "submit") ELSE End(o)
    /\ UNCHANGED <<journal, lease, jobs, resp, requests, messages, history>>

(* chat_completion_stream sends the request.  A transient failure before the *)
(* stream is open is retried; the provider may have taken the request then.  *)
Submit(o) ==
    /\ pc[o] = "submit"
    /\ requests < MaxRequests
    /\ requests' = requests + 1
    /\ resp' = [resp EXCEPT ![o] = requests + 1]
    /\ sentBy' = [c \in Calls |-> IF c \in chk[o].delivery THEN sentBy[c] \cup {o} ELSE sentBy[c]]
    /\ \E next \in {"begin", "submit", "cancel"} : Goto(o, next)
    /\ UNCHANGED <<journal, lease, jobs, messages, recorded, emitted, runs, unlogged>>

(* Mutant: the response is named after the request to come. *)
BugBeginResponse(o) ==
    /\ pc[o] = "begin"
    /\ chk[o].transcript = 0 /\ ~chk[o].inFlight
    /\ Save(o, [chk[o] EXCEPT !.transcript = requests + 1, !.inFlight = TRUE], "stream")
    /\ UNCHANGED <<resp, requests, messages, recorded, history>>
(* begin_transcript_response, then begin_response. *)
BeginResponse(o) ==
    /\ pc[o] = "begin"
    /\ chk[o].transcript = 0 /\ ~chk[o].inFlight
    /\ Save(o, [chk[o] EXCEPT !.transcript = resp[o], !.inFlight = TRUE], "stream")
    /\ UNCHANGED <<resp, requests, messages, recorded, history>>

(* A complete call arrives on the stream: register, and launch it if async. *)
Register(o, c) ==
    /\ pc[o] \in {"stream", "streamed"}
    /\ chk[o].calls[c] = "none"
    /\ emitted' = emitted \cup {c}
    /\ Save(o, [chk[o] EXCEPT !.calls[c] = "queued"], IF c \in Async THEN "launch" ELSE "streamed")
    /\ UNCHANGED <<resp, requests, messages, recorded, runs, sentBy, unlogged>>

LaunchAsync(o) ==
    /\ pc[o] = "launch"
    /\ \E c \in In(chk[o], {"queued"}) \cap Async : Launch(o, c, "streamed")

(* Done: the response is accepted with everything its request delivered. *)
ResponseDone(o) ==
    /\ pc[o] \in {"stream", "streamed"}
    /\ Save(o, Responded(chk[o], resp[o]), "syncs")
    /\ UNCHANGED <<resp, requests, messages, recorded, history>>

(* The stream breaks or ends early, a call is refused, or the coordinator's *)
(* own heartbeat fails: the coordinator is poisoned.                        *)
Poison(o) ==
    /\ pc[o] \in {"stream", "streamed", "launch", "syncs", "waitOne"}
    /\ End(o)
    /\ Quiet

(* No token within the liveness window.  Before any call came the request is *)
(* sent again; afterwards the round fails.                                   *)
Stall(o) ==
    /\ pc[o] \in {"stream", "streamed"}
    /\ \/ pc[o] = "stream" /\ Goto(o, "submit")
       \/ Goto(o, "cancel")
    /\ Quiet

(* launch_synchronous_calls, once the response is accepted. *)
LaunchSynchronous(o) ==
    /\ pc[o] = "syncs"
    /\ \/ \E c \in In(chk[o], {"queued"}) \ Async : Launch(o, c, "syncs")
       \/ In(chk[o], {"queued"}) \subseteq Async /\ Goto(o, "stage") /\ Quiet

StageResult(o) ==
    /\ pc[o] = "stage"
    /\ ~chk[o].inFlight /\ chk[o].transcript # 0
    /\ chk[o].summaries + 1 = chk[o].completed
    /\ Save(o, [chk[o] EXCEPT !.summaries = @ + 1], "emit")
    /\ UNCHANGED <<resp, requests, messages, recorded, history>>

(* output.message.completed; the reply may be lost. *)
EmitMessage(o) ==
    /\ pc[o] = "emit"
    /\ messages' = messages \cup {chk[o].transcript}
    /\ \E next \in {"commit", "cancel"} : Goto(o, next)
    /\ UNCHANGED <<journal, lease, jobs, resp, requests, recorded, history>>

TranscriptCommitted(o) ==
    /\ pc[o] = "commit"
    /\ Save(o, [chk[o] EXCEPT !.transcript = 0], "check")
    /\ UNCHANGED <<resp, requests, messages, recorded, history>>

(* Mutant: a response without new calls ends the turn. *)
BugCheckComplete(o) ==
    /\ pc[o] = "check"
    /\ Save(o, [chk[o] EXCEPT !.outcome = TRUE], "finish")
    /\ UNCHANGED <<resp, requests, messages, recorded, history>>
(* persist_host_outcome once nothing is pending; else another round. *)
CheckComplete(o) ==
    /\ pc[o] = "check"
    /\ \/ CanComplete(chk[o]) /\ Save(o, [chk[o] EXCEPT !.outcome = TRUE], "finish")
       \/ ~CanComplete(chk[o]) /\ Goto(o, "round") /\ UNCHANGED <<journal, lease, jobs>>
    /\ UNCHANGED <<resp, requests, messages, recorded, history>>

(* The lease is given back and the activity returns its outcome. *)
Release(o) ==
    /\ pc[o] \in {"finish", "return"}
    /\ \/ /\ Holds(o)
          /\ lease' = [lease EXCEPT !.live = FALSE]
          /\ Goto(o, "done")
       \/ /\ lease' \in {lease} \cup {[l EXCEPT !.live = FALSE] : l \in {x \in {lease} : Holds(o)}}
          /\ IF pc[o] = "return" THEN End(o) ELSE Goto(o, "cancel")
    /\ UNCHANGED <<journal, jobs, resp, requests, messages, recorded, history>>

-----------------------------------------------------------------------------
(* Jobs *)

(* Mutant: jobs are not driven while synchronous calls are waited for. *)
BugSettle(o, c) ==
    /\ pc[o] \in {"stream", "streamed", "waitOne"}
    /\ jobs[o][c] \in {"result", "error"}
    /\ LET k == Settled(chk[o], c, jobs[o][c]) IN
       Saved(o, k, IF pc[o] = "waitOne" THEN "again" ELSE pc[o]) \/ NotSaved(o, k)
    /\ jobs' = [jobs EXCEPT ![o][c] = "none"]
    /\ UNCHANGED <<lease, resp, requests, messages, recorded, history>>
(* jobs.next() while a stream is read or the coordinator waits; wait_next is  *)
(* not reached without a job, because every unsettled call has one by then.   *)
Settle(o, c) ==
    /\ pc[o] \in {"stream", "streamed", "round", "again", "waitOne"}
    /\ pc[o] \in {"round", "again"} => ~(Unsettled(chk[o]) \subseteq Async)
    /\ jobs[o][c] \in {"result", "error"}
    /\ LET k == Settled(chk[o], c, jobs[o][c]) IN
       Saved(o, k, IF pc[o] = "waitOne" THEN "again" ELSE pc[o]) \/ NotSaved(o, k)
    /\ jobs' = [jobs EXCEPT ![o][c] = "none"]
    /\ UNCHANGED <<lease, resp, requests, messages, recorded, history>>

(* A job takes the lock of its class, then a permit, then runs its tool. *)
JobLock(o, c) ==
    /\ jobs[o][c] = "spawned"
    /\ c \in Serial => \A d \in Serial : jobs[o][d] \notin {"locked", "executing"}
    /\ jobs' = [jobs EXCEPT ![o][c] = "locked"]
    /\ UNCHANGED <<journal, lease, pc, chk, resp, requests, messages, recorded, history>>

JobStart(o, c) ==
    /\ jobs[o][c] = "locked"
    /\ Cardinality({d \in Calls : jobs[o][d] = "executing"}) < MaxConcurrency
    /\ jobs' = [jobs EXCEPT ![o][c] = "executing"]
    /\ runs' = [runs EXCEPT ![c] = @ + 1]
    /\ UNCHANGED <<journal, lease, pc, chk, resp, requests, messages, recorded, emitted, sentBy, unlogged>>

(* Act emits tool.completed, whose failure is only logged. *)
EmitCompleted(c) ==
    /\ recorded' \in {recorded, recorded \cup {c}}
    /\ unlogged' = IF c \in recorded' THEN unlogged ELSE unlogged \cup {c}

(* Mutant: a job whose Act failed is tried again. *)
BugJobFinish(o, c) ==
    /\ jobs[o][c] = "executing"
    /\ \/ jobs' = [jobs EXCEPT ![o][c] = "result"] /\ EmitCompleted(c)
       \/ /\ jobs' = [jobs EXCEPT ![o][c] = "spawned"]
          /\ recorded' \in {recorded, recorded \cup {c}} /\ UNCHANGED unlogged
    /\ UNCHANGED <<journal, lease, pc, chk, resp, requests, messages, emitted, runs, sentBy>>
(* The tool's result comes back whether or not Act could record it; when Act *)
(* itself fails the host answers the call with an error.                     *)
JobFinish(o, c) ==
    /\ jobs[o][c] = "executing"
    /\ \/ jobs' = [jobs EXCEPT ![o][c] = "result"] /\ EmitCompleted(c)
       \/ /\ jobs' = [jobs EXCEPT ![o][c] = "error"]
          /\ recorded' \in {recorded, recorded \cup {c}} /\ UNCHANGED unlogged
    /\ UNCHANGED <<journal, lease, pc, chk, resp, requests, messages, emitted, runs, sentBy>>

(* The jobs of an attempt that ended are aborted, at their next await. *)
JobAborted(o, c) ==
    /\ pc[o] \in Halted /\ jobs[o][c] # "none"
    /\ jobs' = [jobs EXCEPT ![o][c] = "none"]
    /\ UNCHANGED <<journal, lease, pc, chk, resp, requests, messages, recorded, history>>

-----------------------------------------------------------------------------
(* Failure *)

(* The turn is cancelled, or maintain_lease cannot renew the lease. *)
Interrupt(o) ==
    /\ pc[o] \in Rounds
    /\ Goto(o, "cancel")
    /\ Quiet

(* cancel aborts and joins the jobs, keeps the results of those that were    *)
(* done, answers the other calls as cancelled, and saves.                    *)
Cancel(o) ==
    LET done == [c \in Calls |-> IF jobs[o][c] \in {"result", "error"}
                                 THEN Settled(chk[o], c, jobs[o][c]).calls[c] ELSE chk[o].calls[c]]
    IN
    /\ pc[o] = "cancel"
    /\ Saved(o, Cancelled([chk[o] EXCEPT !.calls = done]), "errors")
       \/ NotSaved(o, Cancelled([chk[o] EXCEPT !.calls = done]))
    /\ jobs' = [jobs EXCEPT ![o] = [c \in Calls |-> "none"]]
    /\ UNCHANGED <<lease, resp, requests, messages, recorded, history>>

(* The worker process dies, its jobs with it. *)
Crash(o) ==
    /\ pc[o] \notin {"idle"} \cup Halted
    /\ End(o)
    /\ jobs' = [jobs EXCEPT ![o] = [c \in Calls |-> "none"]]
    /\ UNCHANGED <<journal, lease, resp, requests, messages, recorded, history>>

-----------------------------------------------------------------------------

Step(o) ==
    \/ Load(o) \/ Reconcile(o) \/ Progress(o) \/ Open(o) \/ Restart(o)
    \/ PrepareDelivery(o) \/ PersistTerminalErrors(o) \/ Submit(o) \/ BeginResponse(o)
    \/ (\E c \in Calls : Register(o, c)) \/ LaunchAsync(o) \/ ResponseDone(o)
    \/ Poison(o) \/ Stall(o) \/ LaunchSynchronous(o) \/ StageResult(o) \/ EmitMessage(o)
    \/ TranscriptCommitted(o) \/ CheckComplete(o) \/ Release(o) \/ Fail(o)
    \/ (\E c \in Calls : Settle(o, c)) \/ Cancel(o)

Job(o, c) == JobLock(o, c) \/ JobStart(o, c) \/ JobFinish(o, c)

Next ==
    \/ LeaseLapses
    \/ \E o \in Owners :
        \/ Acquire(o) \/ Step(o) \/ Interrupt(o) \/ Crash(o)
        \/ \E c \in Calls : Job(o, c) \/ JobAborted(o, c)

Spec == Init /\ [][Next]_vars

(* A live process goes on, its jobs get scheduled, and its tools return. *)
FairSpec ==
    /\ Spec
    /\ \A o \in Owners : WF_vars(Step(o)) /\ \A c \in Calls : WF_vars(Job(o, c))

-----------------------------------------------------------------------------
(* Properties *)

(* A tool that is not safe to replay is started at most once, whichever      *)
(* owners crash, lose their lease or recover the turn: the journal holds     *)
(* Running before the job is spawned, and recovery answers such a call       *)
(* instead of starting it.                                                   *)
UnsafeRunsOnce == \A c \in Calls \ ReplaySafe : runs[c] <= 1

(* The output of a call is never submitted by two owners: the delivery is    *)
(* journaled before the request and recovery refuses to go on from it.       *)
OneOwnerSubmits == \A c \in Calls : Cardinality(sentBy[c]) <= 1

(* What an owner is about to submit is in the transcript, whichever owner    *)
(* ran, lost or recovered the call: an error synthesized for it always, so    *)
(* that later history cannot read the call as unanswered and retry it; and a  *)
(* tool's own result unless Act could not emit it.                            *)
DeliveredAreRecorded ==
    \A o \in Owners : pc[o] = "submit" =>
        \A c \in chk[o].delivery : c \in recorded \/ (chk[o].calls[c] = "result" /\ c \in unlogged)

(* An activity that returns its outcome leaves nothing behind: every call    *)
(* the provider streamed has its output delivered, and every completed       *)
(* response has its summary and its message in the transcript.               *)
CompletionIsTotal ==
    \A o \in Owners : pc[o] = "done" =>
        /\ journal.outcome /\ CanComplete(journal)
        /\ emitted \subseteq In(journal, {"delivered"})
        /\ Cardinality(messages) = journal.completed
        /\ journal.summaries = journal.completed

Rank(state) == CASE state = "none" -> 0 [] state = "queued" -> 1 [] state = "running" -> 2
                 [] state \in Ready -> 3 [] state = "delivered" -> 4

(* The journal never takes a call back, whoever writes it: the first output  *)
(* of a call stays, a delivered call stays delivered, and only recovery may   *)
(* queue a running call again, if its tool is safe to replay.                 *)
JournalMovesForward ==
    [][\A c \in Calls :
        LET old == journal.calls[c] new == journal'.calls[c] IN
        \/ new = old
        \/ Rank(old) < Rank(new)
        \/ c \in ReplaySafe /\ old = "running" /\ new = "queued"]_journal

(* An attempt that got the lease returns or fails; it does not wait forever  *)
(* for a job, a lock, a permit, the provider or the journal.                 *)
EveryAttemptEnds == \A o \in Owners : pc[o] = "load" ~> pc[o] \in Halted

=============================================================================
