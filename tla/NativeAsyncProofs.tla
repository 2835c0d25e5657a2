-------------------------- MODULE NativeAsyncProofs --------------------------
(***************************************************************************)
(* Theorems about NativeAsync for every set of attempts and calls, however  *)
(* the calls are classified, and every limit.                               *)
(***************************************************************************)
EXTENDS NativeAsync, FiniteSetTheorems, TLAPS

-----------------------------------------------------------------------------
(* Checkpoints *)
(* No call is taken back, what is part of a delivery stays so until it is     *)
(* delivered, and an outcome stays.                                           *)
Advances(j, k) ==
    /\ \A c \in Calls : k.calls[c] = j.calls[c] \/ Rank(j.calls[c]) < Rank(k.calls[c])
    /\ \A c \in j.delivery : c \in k.delivery \/ k.calls[c] = "delivered"
    /\ j.outcome => k.outcome

(* The calls whose output the provider may have. *)
Covered(k) == k.delivery \cup In(k, {"delivered"})

LEMMA Ranks ==
    /\ \A s \in CallStates : Rank(s) \in 0..4
    /\ \A s \in CallStates : /\ Rank(s) = 0 <=> s = "none"
                             /\ Rank(s) = 1 <=> s = "queued"
                             /\ Rank(s) = 2 <=> s = "running"
                             /\ Rank(s) = 3 <=> s \in Ready
                             /\ Rank(s) = 4 <=> s = "delivered"
BY DEF CallStates, Ready, Rank

LEMMA DefaultTyped == DefaultCheckpoint \in Checkpoints
BY NativeAsyncAssumption DEF DefaultCheckpoint, Checkpoints, CallStates

LEMMA AdvancesReflexive == \A k \in Checkpoints : Advances(k, k)
BY DEF Advances, Checkpoints

LEMMA AdvancesTransitive ==
    ASSUME NEW i \in Checkpoints, NEW j \in Checkpoints, NEW k \in Checkpoints,
           Advances(i, j), Advances(j, k)
    PROVE  Advances(i, k)
<1>1. ASSUME NEW c \in Calls
      PROVE  k.calls[c] = i.calls[c] \/ Rank(i.calls[c]) < Rank(k.calls[c])
  <2>1. /\ i.calls[c] \in CallStates /\ j.calls[c] \in CallStates /\ k.calls[c] \in CallStates
        /\ j.calls[c] = i.calls[c] \/ Rank(i.calls[c]) < Rank(j.calls[c])
        /\ k.calls[c] = j.calls[c] \/ Rank(j.calls[c]) < Rank(k.calls[c])
    BY DEF Advances, Checkpoints
  <2> QED
    BY <2>1, Ranks
<1>2. ASSUME NEW c \in i.delivery
      PROVE  c \in k.delivery \/ k.calls[c] = "delivered"
  <2>1. /\ c \in Calls /\ k.calls[c] \in CallStates
        /\ c \in j.delivery \/ j.calls[c] = "delivered"
    BY DEF Advances, Checkpoints
  <2>2. CASE j.calls[c] = "delivered"
    <3>1. k.calls[c] = j.calls[c] \/ Rank(j.calls[c]) < Rank(k.calls[c])
      BY <2>1 DEF Advances
    <3>2. Rank(j.calls[c]) = 4 /\ Rank(k.calls[c]) \in 0..4
      BY <2>1, <2>2, Ranks DEF CallStates
    <3> QED
      BY <2>2, <3>1, <3>2
  <2> QED
    BY <2>1, <2>2 DEF Advances
<1> QED
  BY <1>1, <1>2 DEF Advances

(* A call that moves on leaves the rest of the checkpoint alone. *)
LEMMA CallMoves ==
    ASSUME NEW k \in Checkpoints, NEW c \in Calls, NEW s \in CallStates,
           Rank(k.calls[c]) < Rank(s)
    PROVE  /\ [k EXCEPT !.calls[c] = s] \in Checkpoints
           /\ Advances(k, [k EXCEPT !.calls[c] = s])
BY DEF Checkpoints, Advances

LEMMA LaunchMoves ==
    ASSUME NEW k \in Checkpoints, NEW c \in In(k, {"queued"})
    PROVE  /\ [k EXCEPT !.calls[c] = "running"] \in Checkpoints
           /\ Advances(k, [k EXCEPT !.calls[c] = "running"])
<1>1. c \in Calls /\ "running" \in CallStates /\ Rank(k.calls[c]) < Rank("running")
  BY Ranks DEF In, CallStates, Rank, Ready
<1> QED
  BY <1>1, CallMoves

LEMMA RegisterMoves ==
    ASSUME NEW k \in Checkpoints, NEW c \in Calls, k.calls[c] = "none"
    PROVE  /\ [k EXCEPT !.calls[c] = "queued"] \in Checkpoints
           /\ Advances(k, [k EXCEPT !.calls[c] = "queued"])
<1>1. "queued" \in CallStates /\ Rank(k.calls[c]) < Rank("queued")
  BY DEF CallStates, Rank, Ready
<1> QED
  BY <1>1, CallMoves

LEMMA SettleMoves ==
    ASSUME NEW k \in Checkpoints, NEW c \in Calls, NEW s \in {"result", "error"}
    PROVE  Settled(k, c, s) \in Checkpoints /\ Advances(k, Settled(k, c, s))
<1>1. CASE k.calls[c] \in {"queued", "running"}
  <2>1. s \in CallStates /\ Rank(k.calls[c]) < Rank(s)
    BY <1>1 DEF CallStates, Rank, Ready
  <2> QED
    BY <1>1, <2>1, CallMoves DEF Settled
<1>2. CASE k.calls[c] \notin {"queued", "running"}
  BY <1>2, AdvancesReflexive DEF Settled
<1> QED
  BY <1>1, <1>2

LEMMA RecoverTyped == \A k \in Checkpoints : Recovered(k) \in Checkpoints
BY DEF Recovered, Checkpoints, CallStates, Ready

(* Calls that all move on, with nothing else changed. *)
LEMMA CallsMove ==
    ASSUME NEW k \in Checkpoints, NEW f \in [Calls -> CallStates],
           \A c \in Calls : f[c] = k.calls[c] \/ Rank(k.calls[c]) < Rank(f[c])
    PROVE  [k EXCEPT !.calls = f] \in Checkpoints /\ Advances(k, [k EXCEPT !.calls = f])
BY DEF Checkpoints, Advances

(* What Cancel writes: the results of jobs that were done, then cancellations. *)
Joined(o) ==
    Cancelled([chk[o] EXCEPT !.calls =
        [c \in Calls |-> IF jobs[o][c] \in {"result", "error"}
                         THEN Settled(chk[o], c, jobs[o][c]).calls[c] ELSE chk[o].calls[c]]])

LEMMA JoinMoves ==
    ASSUME TypeOK, NEW o \in Owners
    PROVE  Joined(o) \in Checkpoints /\ Advances(chk[o], Joined(o))
<1> DEFINE k == chk[o]
           f == [c \in Calls |-> IF jobs[o][c] \in {"result", "error"}
                                 THEN Settled(k, c, jobs[o][c]).calls[c] ELSE k.calls[c]]
           g == [c \in Calls |-> IF f[c] \in {"queued", "running"} THEN "cancelled" ELSE f[c]]
           j == [k EXCEPT !.calls = f]
<1>1. k \in Checkpoints
  BY DEF TypeOK
<1>2. ASSUME NEW c \in Calls
      PROVE  f[c] \in CallStates /\ (f[c] = k.calls[c] \/ Rank(k.calls[c]) < Rank(f[c]))
  <2>1. CASE jobs[o][c] \in {"result", "error"}
    <3> DEFINE n == Settled(k, c, jobs[o][c])
    <3>1. n \in Checkpoints /\ Advances(k, n)
      BY <1>1, <2>1, SettleMoves
    <3>2. f[c] = n.calls[c]
      BY <2>1
    <3> HIDE DEF n, f, k
    <3> QED
      BY <3>1, <3>2 DEF Checkpoints, Advances
  <2>2. CASE jobs[o][c] \notin {"result", "error"}
    BY <1>1, <2>2 DEF Checkpoints
  <2> QED
    BY <2>1, <2>2
<1>3. f \in [Calls -> CallStates]
  BY <1>2
<1>4. j \in Checkpoints /\ Advances(k, j) /\ j.calls = f
  <2>1. j.calls = f
    BY <1>1 DEF Checkpoints
  <2> HIDE DEF k, f
  <2> QED
    BY <1>1, <1>2, <1>3, <2>1, CallsMove
<1>5. ASSUME NEW c \in Calls
      PROVE  g[c] \in CallStates /\ (g[c] = f[c] \/ Rank(f[c]) < Rank(g[c]))
  <2> HIDE DEF f
  <2> QED
    BY <1>3 DEF CallStates, Rank, Ready
<1>6. [j EXCEPT !.calls = g] \in Checkpoints /\ Advances(j, [j EXCEPT !.calls = g])
  <2>1. g \in [Calls -> CallStates]
    BY <1>5
  <2> HIDE DEF f, g, j
  <2> QED
    BY <1>4, <1>5, <2>1, CallsMove
<1>7. Joined(o) = [j EXCEPT !.calls = g]
  BY <1>4 DEF Joined, Cancelled
<1> HIDE DEF k, j, g
<1>8. Advances(k, [j EXCEPT !.calls = g])
  BY <1>1, <1>4, <1>6, AdvancesTransitive
<1> QED
  BY <1>6, <1>7, <1>8 DEF k

LEMMA DeliverMoves ==
    ASSUME NEW k \in Checkpoints, k.delivery = {}
    PROVE  /\ [k EXCEPT !.delivery = In(k, Ready)] \in Checkpoints
           /\ Advances(k, [k EXCEPT !.delivery = In(k, Ready)])
BY DEF Checkpoints, Advances, In

LEMMA BeginMoves ==
    ASSUME NEW k \in Checkpoints, NEW n \in 0..MaxRequests
    PROVE  /\ [k EXCEPT !.transcript = n, !.inFlight = TRUE] \in Checkpoints
           /\ Advances(k, [k EXCEPT !.transcript = n, !.inFlight = TRUE])
BY DEF Checkpoints, Advances

LEMMA RespondMoves ==
    ASSUME NEW k \in Checkpoints, NEW n \in 0..MaxRequests
    PROVE  Responded(k, n) \in Checkpoints /\ Advances(k, Responded(k, n))
<1> DEFINE f == [c \in Calls |-> IF c \in k.delivery THEN "delivered" ELSE k.calls[c]]
<1>1. f \in [Calls -> CallStates]
  BY DEF Checkpoints, CallStates
<1>2. ASSUME NEW c \in Calls
      PROVE  f[c] = k.calls[c] \/ Rank(k.calls[c]) < Rank(f[c])
  BY DEF Checkpoints, CallStates, Rank, Ready
<1>3. \A c \in k.delivery : f[c] = "delivered"
  BY DEF Checkpoints
<1>4. Responded(k, n) = [k EXCEPT !.calls = f, !.delivery = {}, !.latest = n,
                                  !.completed = @ + 1, !.inFlight = FALSE]
  BY DEF Responded
<1>5. k.completed + 1 \in Nat
  BY DEF Checkpoints
<1> HIDE DEF f
<1>6. Responded(k, n) \in Checkpoints
  BY <1>1, <1>4, <1>5 DEF Checkpoints
<1>7. Responded(k, n).calls = f /\ Responded(k, n).outcome = k.outcome
  BY <1>4 DEF Checkpoints
<1> QED
  BY <1>2, <1>3, <1>6, <1>7 DEF Advances

LEMMA StageMoves ==
    ASSUME NEW k \in Checkpoints
    PROVE  /\ [k EXCEPT !.summaries = @ + 1] \in Checkpoints
           /\ Advances(k, [k EXCEPT !.summaries = @ + 1])
BY DEF Checkpoints, Advances

LEMMA CommitMoves ==
    ASSUME NEW k \in Checkpoints
    PROVE  /\ [k EXCEPT !.transcript = 0] \in Checkpoints
           /\ Advances(k, [k EXCEPT !.transcript = 0])
BY NativeAsyncAssumption DEF Checkpoints, Advances

LEMMA FinishMoves ==
    ASSUME NEW k \in Checkpoints
    PROVE  /\ [k EXCEPT !.outcome = TRUE] \in Checkpoints
           /\ Advances(k, [k EXCEPT !.outcome = TRUE])
BY DEF Checkpoints, Advances

-----------------------------------------------------------------------------
(* What the owner of the lease knows of the journal *)

Synced == {"reconcile", "progress", "open", "restart", "return", "errors"} \cup Rounds

(* The owner's checkpoint is the journal's, except that a write whose reply   *)
(* was lost may not have reached the journal.                                 *)
SyncInv ==
    \A o \in Owners : Holds(o) => /\ pc[o] \in Synced => chk[o] = journal
                                  /\ pc[o] = "cancel" => Advances(journal, chk[o])

-----------------------------------------------------------------------------
(* Kinds of steps *)

Places == {"idle"} \cup Opening \cup Rounds \cup Ending \cup Halted

OthersStay(o) == /\ pc' \in [Owners -> Places] /\ chk' \in [Owners -> Checkpoints]
                 /\ \A p \in Owners \ {o} : pc'[p] = pc[p] /\ chk'[p] = chk[p]

(* The attempt goes on, or ends, without a write. *)
Local(o) ==
    /\ journal' = journal /\ lease' = lease /\ OthersStay(o)
    /\ \/ pc'[o] = "ended" /\ chk'[o] = DefaultCheckpoint
       \/ pc[o] \in Synced /\ pc'[o] \in Synced \cup {"cancel"} /\ chk'[o] = chk[o]

(* k is written, or not, or nobody knows. *)
Attempt(o, k, next) ==
    /\ lease' = lease /\ OthersStay(o)
    /\ \/ Holds(o) /\ journal' = k /\ chk'[o] = k /\ pc'[o] = next
       \/ /\ journal' = journal \/ (Holds(o) /\ journal' = k)
          /\ \/ pc'[o] = "ended" /\ chk'[o] = DefaultCheckpoint
             \/ pc[o] \in Rounds /\ pc'[o] = "cancel" /\ chk'[o] = k

(* A write that moves the owner's checkpoint forward. *)
Write(o) ==
    \E k \in Checkpoints, next \in Synced :
        /\ pc[o] \in (Synced \ {"open"}) \cup {"cancel"}
        /\ Advances(chk[o], k) /\ Attempt(o, k, next)

LEMMA Typed ==
    ASSUME TypeOK, NEW o \in Owners
    PROVE  /\ journal \in Checkpoints /\ chk[o] \in Checkpoints
           /\ pc[o] \in Places /\ resp[o] \in 0..MaxRequests
BY DEF TypeOK, Places

LEMMA PlacesNamed ==
    /\ Synced \subseteq Places /\ Rounds \subseteq Synced
    /\ {"idle", "load", "cancel", "ended", "done"} \subseteq Places
BY DEF Places, Synced, Opening, Rounds, Ending, Halted

LEMMA GotoStays ==
    ASSUME TypeOK, NEW o \in Owners, NEW next \in Places, Goto(o, next)
    PROVE  OthersStay(o) /\ pc'[o] = next /\ chk'[o] = chk[o]
BY DEF TypeOK, Goto, OthersStay, Places

LEMMA EndStays ==
    ASSUME TypeOK, NEW o \in Owners, End(o)
    PROVE  OthersStay(o) /\ pc'[o] = "ended" /\ chk'[o] = DefaultCheckpoint
<1>1. pc \in [Owners -> Places] /\ chk \in [Owners -> Checkpoints] /\ "ended" \in Places
  BY PlacesNamed DEF TypeOK, Places
<1> QED
  BY <1>1, DefaultTyped DEF End, OthersStay

LEMMA EndIsLocal ==
    ASSUME TypeOK, NEW o \in Owners, End(o), journal' = journal, lease' = lease
    PROVE  Local(o)
BY EndStays DEF Local

LEMMA GotoIsLocal ==
    ASSUME TypeOK, NEW o \in Owners, NEW next \in Synced \cup {"cancel"}, Goto(o, next),
           pc[o] \in Synced, journal' = journal, lease' = lease
    PROVE  Local(o) /\ pc'[o] = next /\ chk'[o] = chk[o]
BY GotoStays, PlacesNamed DEF Local

LEMMA SaveIsAttempt ==
    ASSUME TypeOK, NEW o \in Owners, NEW k \in Checkpoints, NEW next \in Places,
           Saved(o, k, next) \/ NotSaved(o, k), lease' = lease
    PROVE  Attempt(o, k, next)
<1>1. pc \in [Owners -> Places] /\ chk \in [Owners -> Checkpoints]
  BY DEF TypeOK, Places
<1>2. CASE Saved(o, k, next)
  BY <1>1, <1>2 DEF Saved, Attempt, OthersStay
<1>3. CASE NotSaved(o, k)
  <2>1. journal' = journal \/ (Holds(o) /\ journal' = k)
    BY <1>3 DEF NotSaved, Holds
  <2>2. CASE pc' = [pc EXCEPT ![o] = "ended"] /\ chk' = [chk EXCEPT ![o] = DefaultCheckpoint]
    BY <1>1, <2>1, <2>2, DefaultTyped, PlacesNamed DEF Attempt, OthersStay
  <2>3. CASE pc[o] \in Rounds /\ pc' = [pc EXCEPT ![o] = "cancel"] /\ chk' = [chk EXCEPT ![o] = k]
    BY <1>1, <2>1, <2>3, PlacesNamed DEF Attempt, OthersStay
  <2> QED
    BY <1>3, <2>2, <2>3 DEF NotSaved
<1> QED
  BY <1>2, <1>3

LEMMA LaunchAttempts ==
    ASSUME TypeOK, NEW o \in Owners, NEW c \in In(chk[o], {"queued"}), NEW next \in Synced,
           Launch(o, c, next)
    PROVE  Attempt(o, [chk[o] EXCEPT !.calls[c] = "running"], next)
<1>1. [chk[o] EXCEPT !.calls[c] = "running"] \in Checkpoints
  BY Typed, LaunchMoves
<1> QED
  BY <1>1, SaveIsAttempt, PlacesNamed DEF Launch

LEMMA LaunchIsWrite ==
    ASSUME TypeOK, NEW o \in Owners, NEW c \in In(chk[o], {"queued"}), NEW next \in Synced,
           Launch(o, c, next), pc[o] \in Synced \ {"open"}
    PROVE  Write(o)
BY Typed, LaunchMoves, LaunchAttempts DEF Write

LEMMA SaveIsWrite ==
    ASSUME TypeOK, NEW o \in Owners, NEW k \in Checkpoints, NEW next \in Synced,
           Advances(chk[o], k), Saved(o, k, next) \/ NotSaved(o, k), lease' = lease,
           pc[o] \in (Synced \ {"open"}) \cup {"cancel"}
    PROVE  Write(o) /\ Attempt(o, k, next)
BY SaveIsAttempt, PlacesNamed DEF Write

(* What a step of an attempt does to the journal, the lease and checkpoints. *)
LEMMA StepKinds ==
    ASSUME TypeOK, NEW o \in Owners, Step(o) \/ Interrupt(o) \/ Crash(o)
    PROVE  \/ Local(o)
           \/ Load(o) \/ Release(o)
           \/ /\ pc[o] = "open" /\ Holds(o) /\ Recoverable(journal)
              /\ Attempt(o, Recovered(journal), "restart")
           \/ Write(o)
<1> USE DEF Synced, Rounds
<1>0. chk[o] \in Checkpoints /\ journal \in Checkpoints /\ resp[o] \in 0..MaxRequests
  BY Typed
<1>1. CASE Reconcile(o)
  <2>1. CASE Goto(o, "progress") /\ journal' = journal /\ lease' = lease
    BY <1>1, <2>1, GotoIsLocal DEF Reconcile
  <2>2. CASE Save(o, [chk[o] EXCEPT !.transcript = 0], "progress")
    BY <1>0, <1>1, <2>2, CommitMoves, SaveIsWrite DEF Reconcile, Save
  <2> QED
    BY <1>1, <2>1, <2>2 DEF Reconcile
<1>2. CASE Progress(o)
  <2>1. CASE End(o) /\ Quiet
    BY <2>1, EndIsLocal DEF Quiet
  <2>2. CASE Save(o, [chk[o] EXCEPT !.outcome = TRUE], "return")
    BY <1>0, <1>2, <2>2, FinishMoves, SaveIsWrite DEF Progress, Save
  <2>3. CASE /\ Goto(o, IF chk[o].outcome THEN "return" ELSE "open")
             /\ journal' = journal /\ lease' = lease
    BY <1>2, <2>3, GotoIsLocal DEF Progress
  <2> QED
    BY <1>2, <2>1, <2>2, <2>3 DEF Progress
<1>3. CASE Open(o)
  <2>1. CASE End(o) /\ Quiet
    BY <2>1, EndIsLocal DEF Quiet
  <2>2. CASE Holds(o) /\ Recoverable(journal) /\ Save(o, Recovered(journal), "restart")
    BY <1>0, <1>3, <2>2, RecoverTyped, SaveIsAttempt, PlacesNamed DEF Open, Save
  <2> QED
    BY <1>3, <2>1, <2>2 DEF Open
<1>4. CASE Restart(o)
  <2>1. CASE End(o) /\ Quiet
    BY <2>1, EndIsLocal DEF Quiet
  <2>2. CASE Goto(o, "round") /\ Quiet
    BY <1>4, <2>2, GotoIsLocal DEF Quiet, Restart
  <2>3. CASE \E c \in In(chk[o], {"queued"}) : Launch(o, c, "restart")
    BY <1>4, <2>3, LaunchIsWrite DEF Restart
  <2> QED
    BY <1>4, <2>1, <2>2, <2>3 DEF Restart
<1>5. CASE PrepareDelivery(o)
  <2>1. chk[o].delivery = {}
    BY <1>5 DEF PrepareDelivery, DeliveryPossible
  <2>2. \E next \in {"waitOne", "persist"} : Save(o, [chk[o] EXCEPT !.delivery = In(chk[o], Ready)], next)
    BY <1>5 DEF PrepareDelivery
  <2> QED
    BY <1>0, <1>5, <2>1, <2>2, DeliverMoves, SaveIsWrite DEF PrepareDelivery, Save
<1>6. CASE PersistTerminalErrors(o)
  <2>1. CASE End(o)
    BY <1>6, <2>1, EndIsLocal DEF PersistTerminalErrors
  <2>2. CASE pc[o] = "persist" /\ Goto(o, "submit")
    BY <1>6, <2>2, GotoIsLocal DEF PersistTerminalErrors
  <2> QED
    BY <1>6, <2>1, <2>2 DEF PersistTerminalErrors
<1>7. CASE Submit(o)
  BY <1>7, GotoIsLocal DEF Submit
<1>8. CASE BeginResponse(o)
  BY <1>0, <1>8, BeginMoves, SaveIsWrite DEF BeginResponse, Save
<1>9. ASSUME NEW c \in Calls, Register(o, c) PROVE Write(o)
  <2>1. \E next \in {"launch", "streamed"} : Save(o, [chk[o] EXCEPT !.calls[c] = "queued"], next)
    BY <1>9 DEF Register
  <2> QED
    BY <1>0, <1>9, <2>1, RegisterMoves, SaveIsWrite DEF Register, Save
<1>10. CASE LaunchAsync(o)
  BY <1>10, LaunchIsWrite DEF LaunchAsync
<1>11. CASE ResponseDone(o)
  BY <1>0, <1>11, RespondMoves, SaveIsWrite DEF ResponseDone, Save
<1>12. CASE Poison(o)
  BY <1>12, EndIsLocal DEF Poison, Quiet
<1>13. CASE Stall(o)
  BY <1>13, GotoIsLocal DEF Stall, Quiet
<1>14. CASE LaunchSynchronous(o)
  BY <1>14, LaunchIsWrite, GotoIsLocal DEF LaunchSynchronous, Quiet
<1>15. CASE StageResult(o)
  BY <1>0, <1>15, StageMoves, SaveIsWrite DEF StageResult, Save
<1>16. CASE EmitMessage(o)
  BY <1>16, GotoIsLocal DEF EmitMessage
<1>17. CASE TranscriptCommitted(o)
  BY <1>0, <1>17, CommitMoves, SaveIsWrite DEF TranscriptCommitted, Save
<1>18. CASE CheckComplete(o)
  BY <1>0, <1>18, FinishMoves, SaveIsWrite, GotoIsLocal DEF CheckComplete, Save
<1>19. CASE Fail(o)
  BY <1>19, GotoIsLocal DEF Fail, Quiet
<1>20. ASSUME NEW c \in Calls, Settle(o, c) PROVE Write(o)
  <2> DEFINE k == Settled(chk[o], c, jobs[o][c])
  <2>1. k \in Checkpoints /\ Advances(chk[o], k)
    BY <1>0, <1>20, SettleMoves DEF Settle
  <2>2. PICK next \in {"again", "stream", "streamed", "round"} : Saved(o, k, next) \/ NotSaved(o, k)
    BY <1>20 DEF Settle
  <2>3. lease' = lease /\ pc[o] \in Synced \ {"open"}
    BY <1>20 DEF Settle
  <2> HIDE DEF k
  <2> QED
    BY <2>1, <2>2, <2>3, SaveIsWrite
<1>21. CASE Cancel(o)
  <2>1. Saved(o, Joined(o), "errors") \/ NotSaved(o, Joined(o))
    BY <1>21 DEF Cancel, Joined
  <2> QED
    BY <1>21, <2>1, JoinMoves, SaveIsWrite DEF Cancel
<1>22. CASE Interrupt(o)
  BY <1>22, GotoIsLocal DEF Interrupt, Quiet
<1>23. CASE Crash(o)
  BY <1>23, EndIsLocal DEF Crash
<1> QED
  BY <1>1, <1>2, <1>3, <1>4, <1>5, <1>6, <1>7, <1>8, <1>9, <1>10, <1>11, <1>12, <1>13, <1>14,
     <1>15, <1>16, <1>17, <1>18, <1>19, <1>20, <1>21, <1>22, <1>23 DEF Step

(* A step of o writes the journal only if o holds the lease, and gives the     *)
(* lease to nobody else.                                                       *)
LEMMA HolderWrites ==
    ASSUME TypeOK, NEW o \in Owners, Step(o) \/ Interrupt(o) \/ Crash(o)
    PROVE  /\ journal' # journal => Holds(o)
           /\ \A p \in Owners : Holds(p)' => Holds(p)
           /\ \A p \in Owners \ {o} : Holds(p)' => journal' = journal
<1>1. journal' # journal => Holds(o)
  BY StepKinds DEF Local, Load, Quiet, Release, Attempt, Write
<1>2. lease' = lease \/ lease' = [lease EXCEPT !.live = FALSE]
  BY StepKinds DEF Local, Load, Quiet, Release, Attempt, Write
<1>3. \A p \in Owners : Holds(p)' => Holds(p)
  BY <1>2 DEF TypeOK, Holds
<1> QED
  BY <1>1, <1>3 DEF Holds

-----------------------------------------------------------------------------
(* Types *)

LEMMA KindsTyped ==
    ASSUME TypeOK, NEW o \in Owners,
           \/ Local(o) \/ Write(o) \/ Load(o) \/ Release(o) \/ Acquire(o)
           \/ Attempt(o, Recovered(journal), "restart")
    PROVE  /\ journal' \in Checkpoints /\ OthersStay(o)
           /\ lease' \in [owner : Owners \cup {NoOwner}, live : BOOLEAN]
<1>0. journal \in Checkpoints /\ lease \in [owner : Owners \cup {NoOwner}, live : BOOLEAN]
  BY DEF TypeOK
<1>1. CASE Local(o)
  BY <1>0, <1>1 DEF Local
<1>2. CASE Write(o)
  BY <1>0, <1>2 DEF Write, Attempt
<1>3. CASE Attempt(o, Recovered(journal), "restart")
  BY <1>0, <1>3, RecoverTyped DEF Attempt
<1>4. CASE Load(o)
  <2>1. CASE End(o)
    BY <1>0, <1>4, <2>1, EndStays DEF Load, Quiet
  <2>2. CASE /\ chk' = [chk EXCEPT ![o] = journal]
             /\ pc' = [pc EXCEPT ![o] = "reconcile"]
    <3>1. "reconcile" \in Places
      BY DEF Places, Opening
    <3> QED
      BY <1>0, <1>4, <2>2, <3>1 DEF Load, Quiet, TypeOK, OthersStay, Places
  <2> QED
    BY <1>4, <2>1, <2>2 DEF Load
<1>5. CASE Release(o)
  <2>1. lease' = lease \/ lease' = [lease EXCEPT !.live = FALSE]
    BY <1>5 DEF Release
  <2>2. OthersStay(o)
    BY <1>5, EndStays, GotoStays, PlacesNamed DEF Release
  <2> QED
    BY <1>0, <1>5, <2>1, <2>2 DEF Release
<1>6. CASE Acquire(o)
  BY <1>0, <1>6, GotoStays, PlacesNamed DEF Acquire
<1> QED
  BY <1>1, <1>2, <1>3, <1>4, <1>5, <1>6

(* A message is made of a response that has a name. *)
StageInv == \A o \in Owners : pc[o] = "emit" => chk[o].transcript # 0

TypeInv == TypeOK /\ StageInv

LEMMA InitTyped == Init => TypeInv
<1> SUFFICES ASSUME Init PROVE TypeInv
  OBVIOUS
<1>1. TypeOK
  BY DefaultTyped, NativeAsyncAssumption DEF Init, TypeOK, JobStates
<1>2. StageInv
  BY DEF Init, StageInv
<1> QED
  BY <1>1, <1>2 DEF TypeInv

(* Only StageResult leads to the emission of a message. *)
LEMMA StageStep ==
    ASSUME TypeInv, NEW o \in Owners,
           Step(o) \/ Interrupt(o) \/ Crash(o) \/ Acquire(o), pc'[o] = "emit"
    PROVE  chk'[o].transcript # 0
<1>0. pc \in [Owners -> Places] /\ chk \in [Owners -> Checkpoints]
  BY DEF TypeInv, TypeOK, Places
<1>1. ASSUME NEW next, pc' = [pc EXCEPT ![o] = next] PROVE next = "emit"
  BY <1>0, <1>1
<1>2. StageResult(o)
  <2> USE DEF Goto, End, Save, Saved, NotSaved, Launch
  <2>1. ~(Load(o) \/ Reconcile(o) \/ Progress(o) \/ Open(o) \/ Restart(o))
    BY <1>1 DEF Load, Reconcile, Progress, Open, Restart
  <2>2. ~(PrepareDelivery(o) \/ PersistTerminalErrors(o) \/ Submit(o) \/ BeginResponse(o))
    BY <1>1 DEF PrepareDelivery, PersistTerminalErrors, Submit, BeginResponse
  <2>3. ~(\E c \in Calls : Register(o, c)) /\ ~LaunchAsync(o) /\ ~ResponseDone(o)
    BY <1>1 DEF Register, LaunchAsync, ResponseDone
  <2>4. ~(Poison(o) \/ Stall(o) \/ LaunchSynchronous(o) \/ EmitMessage(o))
    BY <1>1 DEF Poison, Stall, LaunchSynchronous, EmitMessage
  <2>5. ~(TranscriptCommitted(o) \/ CheckComplete(o) \/ Release(o) \/ Fail(o) \/ Cancel(o))
    BY <1>1 DEF TranscriptCommitted, CheckComplete, Release, Fail, Cancel
  <2>6. ~(\E c \in Calls : Settle(o, c))
    BY <1>1 DEF Settle
  <2>7. ~(Interrupt(o) \/ Crash(o) \/ Acquire(o))
    BY <1>1 DEF Interrupt, Crash, Acquire
  <2> QED
    BY <2>1, <2>2, <2>3, <2>4, <2>5, <2>6, <2>7 DEF Step
<1>3. chk' = [chk EXCEPT ![o] = [chk[o] EXCEPT !.summaries = @ + 1]]
  BY <1>1, <1>2 DEF StageResult, Save, Saved, NotSaved
<1> QED
  BY <1>0, <1>2, <1>3 DEF StageResult, Checkpoints

(* The rest of the state, action by action. *)
RestOK ==
    /\ resp \in [Owners -> 0..MaxRequests]
    /\ jobs \in [Owners -> [Calls -> JobStates]]
    /\ requests \in 0..MaxRequests
    /\ messages \subseteq 1..MaxRequests
    /\ recorded \subseteq Calls
    /\ emitted \subseteq Calls
    /\ runs \in [Calls -> Nat]
    /\ sentBy \in [Calls -> SUBSET Owners]
    /\ unlogged \subseteq Calls

LEMMA LaunchRest ==
    ASSUME TypeOK, NEW o \in Owners, NEW c \in Calls, NEW next \in Synced, Launch(o, c, next)
    PROVE  RestOK'
<1>1. jobs' = jobs \/ jobs' = [jobs EXCEPT ![o] = [jobs[o] EXCEPT ![c] = "spawned"]]
  BY DEF Launch
<1>2. jobs' \in [Owners -> [Calls -> JobStates]]
  <2>1. jobs \in [Owners -> [Calls -> JobStates]] /\ "spawned" \in JobStates
    BY DEF TypeOK, JobStates
  <2>2. [jobs[o] EXCEPT ![c] = "spawned"] \in [Calls -> JobStates]
    BY <2>1
  <2> QED
    BY <1>1, <2>1, <2>2
<1> QED
  BY <1>2 DEF Launch, TypeOK, RestOK, history

LEMMA JobsRest ==
    ASSUME TypeOK, NEW o \in Owners, NEW c \in Calls,
           Job(o, c) \/ JobAborted(o, c) \/ Settle(o, c)
    PROVE  RestOK'
<1> USE DEF TypeOK, RestOK, history, JobStates
<1>1. CASE JobLock(o, c)
  BY <1>1 DEF JobLock
<1>2. CASE JobStart(o, c)
  BY <1>2 DEF JobStart
<1>3. CASE JobFinish(o, c)
  <2>1. \E s \in {"result", "error"} : jobs' = [jobs EXCEPT ![o][c] = s]
    BY <1>3 DEF JobFinish
  <2>2. jobs' \in [Owners -> [Calls -> JobStates]]
    BY <2>1
  <2>3. recorded' \subseteq Calls /\ unlogged' \subseteq Calls
    BY <1>3 DEF JobFinish, EmitCompleted
  <2> QED
    BY <1>3, <2>2, <2>3 DEF JobFinish
<1>4. CASE JobAborted(o, c)
  BY <1>4 DEF JobAborted
<1>5. CASE Settle(o, c)
  BY <1>5 DEF Settle
<1> QED
  BY <1>1, <1>2, <1>3, <1>4, <1>5 DEF Job

LEMMA StepRest ==
    ASSUME TypeInv, NEW o \in Owners,
           Step(o) \/ Interrupt(o) \/ Crash(o) \/ Acquire(o)
    PROVE  RestOK'
<1>0. RestOK /\ TypeOK
  BY DEF TypeInv, TypeOK, RestOK
<1>1. CASE UNCHANGED <<jobs, resp, requests, messages, recorded, history>>
  BY <1>0, <1>1 DEF RestOK, history
<1>2. CASE \E c \in Calls : Launch(o, c, "restart") \/ Launch(o, c, "syncs") \/ Launch(o, c, "streamed")
  BY <1>0, <1>2, LaunchRest DEF Synced, Rounds
<1>3. CASE \E c \in Calls : Settle(o, c)
  BY <1>0, <1>3, JobsRest
<1>4. CASE PersistTerminalErrors(o)
  BY <1>0, <1>4 DEF PersistTerminalErrors, RestOK, history, In
<1>5. CASE Submit(o)
  <2>1. requests + 1 \in 0..MaxRequests
    BY <1>0, <1>5, NativeAsyncAssumption DEF Submit, RestOK
  <2>2. sentBy' \in [Calls -> SUBSET Owners]
    BY <1>0, <1>5 DEF Submit, RestOK
  <2> QED
    BY <1>0, <1>5, <2>1, <2>2 DEF Submit, RestOK
<1>6. CASE \E c \in Calls : Register(o, c)
  BY <1>0, <1>6 DEF Register, Save, RestOK
<1>7. CASE EmitMessage(o)
  <2>1. chk[o].transcript \in 1..MaxRequests
    BY <1>0, <1>7, Typed, NativeAsyncAssumption DEF TypeInv, StageInv, EmitMessage, Checkpoints
  <2> QED
    BY <1>0, <1>7, <2>1 DEF EmitMessage, RestOK, history
<1>8. CASE Cancel(o) \/ Crash(o)
  BY <1>0, <1>8 DEF Cancel, Crash, RestOK, history, JobStates
<1>9. CASE \/ Load(o) \/ Reconcile(o) \/ Progress(o) \/ Open(o) \/ Restart(o)
           \/ PrepareDelivery(o) \/ BeginResponse(o) \/ LaunchAsync(o) \/ ResponseDone(o)
  BY <1>1, <1>2, <1>9 DEF Load, Reconcile, Progress, Open, Restart, PrepareDelivery, BeginResponse,
     LaunchAsync, ResponseDone, Save, Quiet, In, history
<1>10. CASE \/ Poison(o) \/ Stall(o) \/ LaunchSynchronous(o) \/ StageResult(o)
            \/ TranscriptCommitted(o) \/ CheckComplete(o) \/ Release(o) \/ Fail(o)
            \/ Interrupt(o) \/ Acquire(o)
  BY <1>1, <1>2, <1>10 DEF Poison, Stall, LaunchSynchronous, StageResult, TranscriptCommitted,
     CheckComplete, Release, Fail, Interrupt, Acquire, Save, Quiet, In, history
<1> QED
  BY <1>3, <1>4, <1>5, <1>6, <1>7, <1>8, <1>9, <1>10 DEF Step

(* The steps that leave every checkpoint and place alone. *)
Aside(o) == \E c \in Calls : Job(o, c) \/ JobAborted(o, c)

LEMMA AsideStays ==
    ASSUME NEW o \in Owners, Aside(o)
    PROVE  UNCHANGED <<journal, lease, pc, chk, resp, requests, messages, emitted, sentBy>>
BY DEF Aside, Job, JobLock, JobStart, JobFinish, JobAborted, history

LEMMA NextKinds ==
    Next => \/ LeaseLapses
            \/ \E o \in Owners : \/ Acquire(o) \/ Step(o) \/ Interrupt(o) \/ Crash(o)
                                \/ Aside(o)
BY DEF Next, Aside

LEMMA AllTyped ==
    ASSUME RestOK', journal' \in Checkpoints, pc' \in [Owners -> Places],
           chk' \in [Owners -> Checkpoints],
           lease' \in [owner : Owners \cup {NoOwner}, live : BOOLEAN]
    PROVE  TypeOK'
BY DEF RestOK, TypeOK, Places

LEMMA NextTyped == TypeInv /\ [Next]_vars => TypeInv'
<1> SUFFICES ASSUME TypeInv, [Next]_vars PROVE TypeInv'
  OBVIOUS
<1>0. TypeOK /\ StageInv
  BY DEF TypeInv
<1>1. ASSUME NEW o \in Owners, Acquire(o) \/ Step(o) \/ Interrupt(o) \/ Crash(o)
      PROVE  TypeInv'
  <2>1. journal' \in Checkpoints /\ OthersStay(o)
        /\ lease' \in [owner : Owners \cup {NoOwner}, live : BOOLEAN]
    BY <1>0, <1>1, StepKinds, KindsTyped
  <2>2. TypeOK'
    BY <1>1, <2>1, StepRest, AllTyped DEF OthersStay
  <2>3. StageInv'
    BY <1>0, <1>1, <2>1, StageStep DEF StageInv, OthersStay
  <2> QED
    BY <2>2, <2>3 DEF TypeInv
<1>2. ASSUME NEW o \in Owners, Aside(o) PROVE TypeInv'
  <2>1. RestOK'
    BY <1>0, <1>2, JobsRest DEF Aside
  <2> QED
    BY <1>0, <1>2, <2>1, AsideStays, AllTyped DEF TypeInv, TypeOK, StageInv, Places
<1>3. CASE LeaseLapses
  BY <1>0, <1>3 DEF LeaseLapses, TypeInv, TypeOK, StageInv, history
<1>4. CASE UNCHANGED vars
  BY <1>0, <1>4 DEF vars, TypeInv, TypeOK, StageInv
<1> QED
  BY <1>1, <1>2, <1>3, <1>4, NextKinds

LEMMA TypeInvariant == Spec => []TypeInv
BY InitTyped, NextTyped, PTL DEF Spec

(* Whatever attempts crash, stall or lose their lease, the journal, the       *)
(* checkpoints and the transcript keep to their types; in particular no       *)
(* message is made of a response without a name.                              *)
THEOREM NativeTypeCorrect == Spec => []TypeOK
BY TypeInvariant, PTL DEF TypeInv

-----------------------------------------------------------------------------
(* Who writes the journal, and what *)

LEMMA Apart ==
    ASSUME NEW o \in Owners, NEW p \in Owners, Holds(o), Holds(p) PROVE o = p
BY DEF Holds

LEMMA SyncAttempt ==
    ASSUME TypeOK, SyncInv, NEW o \in Owners, NEW k \in Checkpoints, NEW next \in Synced,
           Attempt(o, k, next), pc[o] \in Rounds => Advances(chk[o], k)
    PROVE  SyncInv'
<1>1. ASSUME NEW p \in Owners, p # o, Holds(p)'
      PROVE  (pc[p] \in Synced => chk[p] = journal)' /\ (pc[p] = "cancel" => Advances(journal, chk[p]))'
  <2>1. Holds(p) /\ ~Holds(o)
    BY <1>1, Apart DEF Attempt, Holds
  <2>2. journal' = journal /\ pc'[p] = pc[p] /\ chk'[p] = chk[p]
    BY <1>1, <2>1 DEF Attempt, OthersStay
  <2> QED
    BY <2>1, <2>2 DEF SyncInv
<1>2. ASSUME Holds(o)'
      PROVE  (pc[o] \in Synced => chk[o] = journal)' /\ (pc[o] = "cancel" => Advances(journal, chk[o]))'
  <2>1. Holds(o)
    BY <1>2 DEF Attempt, Holds
  <2>2. CASE journal' = k /\ chk'[o] = k /\ pc'[o] = next
    BY <2>2, AdvancesReflexive
  <2>3. CASE pc'[o] = "ended"
    BY <2>3 DEF Synced, Rounds
  <2>4. CASE pc[o] \in Rounds /\ pc'[o] = "cancel" /\ chk'[o] = k /\ journal' \in {journal, k}
    <3>1. chk[o] = journal /\ Advances(journal, k)
      BY <2>1, <2>4, PlacesNamed DEF SyncInv
    <3>2. pc'[o] \notin Synced
      BY <2>4 DEF Synced, Rounds
    <3> QED
      BY <2>4, <3>1, <3>2, AdvancesReflexive
  <2> QED
    BY <2>2, <2>3, <2>4 DEF Attempt
<1> QED
  BY <1>1, <1>2 DEF SyncInv

LEMMA SyncStep ==
    ASSUME TypeInv, SyncInv, NEW o \in Owners,
           Acquire(o) \/ Step(o) \/ Interrupt(o) \/ Crash(o)
    PROVE  SyncInv'
<1>0. TypeOK /\ journal \in Checkpoints /\ Recovered(journal) \in Checkpoints
  BY RecoverTyped DEF TypeInv, TypeOK
<1>1. CASE Local(o)
  <2>1. \A p \in Owners : Holds(p)' = Holds(p)
    BY <1>1 DEF Local, Holds
  <2>2. ASSUME NEW p \in Owners, Holds(p)
        PROVE  (pc[p] \in Synced => chk[p] = journal)' /\ (pc[p] = "cancel" => Advances(journal, chk[p]))'
    <3>1. CASE p # o \/ pc'[p] = "ended"
      BY <1>1, <2>2, <3>1 DEF Local, OthersStay, SyncInv, Synced, Rounds
    <3>2. CASE p = o /\ pc'[p] # "ended"
      <4>1. chk'[o] = chk[o] /\ journal' = journal /\ pc[o] \in Synced
        BY <1>1, <3>2 DEF Local
      <4> QED
        BY <1>0, <2>2, <3>2, <4>1, AdvancesReflexive DEF SyncInv
    <3> QED
      BY <3>1, <3>2
  <2> QED
    BY <2>1, <2>2 DEF SyncInv
<1>2. CASE Write(o)
  <2>1. PICK k \in Checkpoints, next \in Synced : Advances(chk[o], k) /\ Attempt(o, k, next)
    BY <1>2 DEF Write
  <2> QED
    BY <1>0, <2>1, SyncAttempt
<1>3. CASE pc[o] = "open" /\ Attempt(o, Recovered(journal), "restart")
  BY <1>0, <1>3, SyncAttempt DEF Synced, Rounds
<1>4. CASE Load(o)
  <2>1. OthersStay(o)
    BY <1>0, <1>4, KindsTyped
  <2>2. journal' = journal /\ \A p \in Owners : Holds(p)' = Holds(p)
    BY <1>4 DEF Load, Quiet, Holds
  <2>3. pc'[o] = "ended" \/ (pc'[o] = "reconcile" /\ chk'[o] = journal)
    BY <1>0, <1>4, EndStays DEF Load, TypeOK
  <2> QED
    BY <2>1, <2>2, <2>3 DEF SyncInv, OthersStay, Synced, Rounds
<1>5. CASE Release(o)
  <2>1. OthersStay(o)
    BY <1>0, <1>5, KindsTyped
  <2>2. journal' = journal /\ \A p \in Owners : Holds(p)' => Holds(p)
    <3>1. lease' = lease \/ lease' = [lease EXCEPT !.live = FALSE]
      BY <1>5 DEF Release
    <3> QED
      BY <1>0, <1>5, <3>1 DEF Release, Holds, TypeOK
  <2>3. \/ pc'[o] \in {"ended", "done"}
        \/ pc[o] \in Synced /\ pc'[o] = "cancel" /\ chk'[o] = chk[o]
    BY <1>0, <1>5, EndStays, GotoStays, PlacesNamed DEF Release, Synced, Rounds
  <2>4. {"ended", "done", "cancel"} \cap Synced = {}
    BY DEF Synced, Rounds
  <2> QED
    BY <1>0, <2>1, <2>2, <2>3, <2>4, AdvancesReflexive DEF SyncInv, OthersStay
<1>6. CASE Acquire(o)
  <2>1. OthersStay(o) /\ pc'[o] = "load"
    BY <1>0, <1>6, GotoStays, PlacesNamed DEF Acquire
  <2>2. \A p \in Owners : Holds(p)' => p = o
    BY <1>6 DEF Acquire, Holds
  <2> QED
    BY <2>1, <2>2 DEF SyncInv, Synced, Rounds
<1> QED
  BY <1>0, <1>1, <1>2, <1>3, <1>4, <1>5, <1>6, StepKinds

(* The steps that change neither the journal nor who may write it, or only     *)
(* take the lease away.                                                        *)
LEMMA SyncRest ==
    ASSUME TypeInv, SyncInv, LeaseLapses \/ (\E o \in Owners : Aside(o)) \/ UNCHANGED vars
    PROVE  SyncInv'
<1>1. /\ journal' = journal /\ pc' = pc /\ chk' = chk
      /\ lease' = lease \/ lease' = [lease EXCEPT !.live = FALSE]
  BY AsideStays DEF LeaseLapses, vars
<1>2. \A p \in Owners : Holds(p)' => Holds(p)
  BY <1>1 DEF Holds, TypeInv, TypeOK
<1> QED
  BY <1>1, <1>2 DEF SyncInv

LEMMA SyncInvariant == Spec => [](TypeInv /\ SyncInv)
<1>1. Init => SyncInv
  BY DEF Init, SyncInv, Holds
<1>2. TypeInv /\ SyncInv /\ [Next]_vars => SyncInv'
  BY SyncStep, SyncRest, NextKinds
<1> QED
  BY <1>1, <1>2, InitTyped, NextTyped, PTL DEF Spec

(* How one write may change the journal. *)
LEMMA JournalStep ==
    ASSUME TypeInv, SyncInv, [Next]_vars
    PROVE  \/ Advances(journal, journal')
           \/ /\ Recoverable(journal) /\ journal' = Recovered(journal)
              /\ \E o \in Owners : pc[o] = "open" /\ Holds(o)
<1>0. TypeOK /\ journal \in Checkpoints /\ Advances(journal, journal)
  BY AdvancesReflexive DEF TypeInv, TypeOK
<1>1. ASSUME NEW o \in Owners, Step(o) \/ Interrupt(o) \/ Crash(o), journal' # journal
      PROVE  \/ Advances(journal, journal')
             \/ Recoverable(journal) /\ journal' = Recovered(journal) /\ pc[o] = "open" /\ Holds(o)
  <2>1. CASE Write(o)
    <3>1. PICK k \in Checkpoints, next \in Synced :
              /\ Advances(chk[o], k) /\ Attempt(o, k, next)
              /\ pc[o] \in Synced \cup {"cancel"}
      BY <2>1 DEF Write
    <3>2. journal' = k /\ Holds(o)
      BY <1>1, <3>1 DEF Attempt
    <3>3. Advances(journal, chk[o])
      BY <1>0, <3>1, <3>2 DEF SyncInv
    <3> QED
      BY <1>0, <3>1, <3>2, <3>3, AdvancesTransitive, Typed
  <2>2. CASE /\ pc[o] = "open" /\ Holds(o) /\ Recoverable(journal)
             /\ Attempt(o, Recovered(journal), "restart")
    BY <1>1, <2>2 DEF Attempt
  <2>3. ~(Local(o) \/ Load(o) \/ Release(o))
    BY <1>1 DEF Local, Load, Release, Quiet
  <2> QED
    BY <1>0, <1>1, <2>1, <2>2, <2>3, StepKinds
<1>2. CASE UNCHANGED journal
  BY <1>0, <1>2
<1>3. LeaseLapses \/ (\E o \in Owners : Acquire(o) \/ Aside(o)) \/ UNCHANGED vars => UNCHANGED journal
  BY AsideStays DEF LeaseLapses, Acquire, vars
<1> QED
  BY <1>1, <1>2, <1>3, NextKinds

(* The journal never takes a call back, whichever attempts write it and       *)
(* whichever writes are lost or done twice: an attempt that lost its lease is *)
(* fenced off, and one that holds it has read what it overwrites.             *)
THEOREM JournalGoesForward == Spec => JournalMovesForward
<1>1. TypeInv /\ SyncInv /\ [Next]_vars =>
        [\A c \in Calls :
            LET old == journal.calls[c] new == journal'.calls[c] IN
            \/ new = old
            \/ Rank(old) < Rank(new)
            \/ c \in ReplaySafe /\ old = "running" /\ new = "queued"]_journal
  <2> SUFFICES ASSUME TypeInv, SyncInv, [Next]_vars, NEW c \in Calls
               PROVE  \/ journal'.calls[c] = journal.calls[c]
                      \/ Rank(journal.calls[c]) < Rank(journal'.calls[c])
                      \/ c \in ReplaySafe /\ journal.calls[c] = "running" /\ journal'.calls[c] = "queued"
    OBVIOUS
  <2>1. CASE Advances(journal, journal')
    BY <2>1 DEF Advances
  <2>2. CASE journal' = Recovered(journal)
    <3>1. journal'.calls[c] = IF journal.calls[c] # "running" THEN journal.calls[c]
                              ELSE IF c \in ReplaySafe THEN "queued" ELSE "interrupted"
      BY <2>2 DEF Recovered, TypeInv, TypeOK, Checkpoints
    <3>2. Rank("running") < Rank("interrupted")
      BY DEF Rank, Ready
    <3> QED
      BY <3>1, <3>2
  <2> QED
    BY <2>1, <2>2, JournalStep
<1> QED
  BY <1>1, SyncInvariant, PTL DEF Spec, JournalMovesForward

-----------------------------------------------------------------------------
(* Tools *)

Waiting == {"spawned", "locked"}

(* A call that is not safe to replay has left the queue in the journal before *)
(* its one job is spawned.                                                    *)
RunsInv ==
    \A c \in Calls \ ReplaySafe :
        /\ runs[c] <= 1
        /\ runs[c] > 0 => journal.calls[c] \notin {"none", "queued"}
        /\ \A o \in Owners : jobs[o][c] # "none" => journal.calls[c] \notin {"none", "queued"}
        /\ \A o \in Owners : jobs[o][c] \in Waiting => runs[c] = 0
        /\ \A o, p \in Owners : jobs[o][c] \in Waiting /\ jobs[p][c] \in Waiting => o = p

LEMMA PastStays ==
    ASSUME TypeInv, SyncInv, [Next]_vars, NEW c \in Calls \ ReplaySafe,
           journal.calls[c] \notin {"none", "queued"}
    PROVE  journal'.calls[c] \notin {"none", "queued"}
<1>0. journal \in Checkpoints /\ journal.calls[c] \in CallStates
  BY DEF TypeInv, TypeOK, Checkpoints
<1>1. CASE journal' = Recovered(journal)
  BY <1>0, <1>1 DEF Recovered, Checkpoints
<1>2. CASE Advances(journal, journal')
  <2>1. journal'.calls[c] = journal.calls[c] \/ Rank(journal.calls[c]) < Rank(journal'.calls[c])
    BY <1>2 DEF Advances
  <2>2. Rank(journal.calls[c]) \in 2..4
    BY <1>0, Ranks
  <2>3. Rank("none") = 0 /\ Rank("queued") = 1
    BY DEF Rank, Ready
  <2> QED
    BY <1>0, <2>1, <2>2, <2>3
<1> QED
  BY <1>1, <1>2, JournalStep

(* A job is spawned only by an owner whose write took its call off the queue. *)
Spawns(o) ==
    \E c \in Calls : /\ Holds(o) /\ journal.calls[c] = "queued" /\ journal'.calls[c] = "running"
                     /\ jobs' = [jobs EXCEPT ![o] = [jobs[o] EXCEPT ![c] = "spawned"]]

LEMMA LaunchSpawns ==
    ASSUME TypeInv, SyncInv, NEW o \in Owners, NEW c \in In(chk[o], {"queued"}), NEW next,
           Launch(o, c, next), pc[o] \in Synced
    PROVE  Spawns(o) \/ jobs' = jobs
<1>0. c \in Calls /\ chk[o].calls[c] = "queued" /\ chk[o] \in Checkpoints
  BY Typed DEF In, TypeInv
<1>1. CASE Saved(o, [chk[o] EXCEPT !.calls[c] = "running"], next) /\ jobs' = [jobs EXCEPT ![o][c] = "spawned"]
  <2>1. Holds(o) /\ journal = chk[o] /\ journal'.calls[c] = "running"
    BY <1>0, <1>1 DEF Saved, SyncInv, Checkpoints
  <2> QED
    BY <1>0, <1>1, <2>1 DEF Spawns
<1> QED
  BY <1>1 DEF Launch

LEMMA JobsStep ==
    ASSUME TypeInv, SyncInv, NEW o \in Owners,
           Acquire(o) \/ Step(o) \/ Interrupt(o) \/ Crash(o)
    PROVE  /\ runs' = runs
           /\ \/ Spawns(o)
              \/ \A p \in Owners, c \in Calls : jobs'[p][c] \in {jobs[p][c], "none"}
<1> DEFINE Fewer == \A p \in Owners, c \in Calls : jobs'[p][c] \in {jobs[p][c], "none"}
<1>0. TypeOK /\ jobs \in [Owners -> [Calls -> JobStates]]
  BY DEF TypeInv, TypeOK
<1>1. ASSUME jobs' = jobs PROVE Fewer
  BY <1>1
<1>2. ASSUME NEW c \in In(chk[o], {"queued"}), NEW next, Launch(o, c, next), pc[o] \in Synced
      PROVE  runs' = runs /\ (Spawns(o) \/ Fewer)
  BY <1>1, <1>2, LaunchSpawns DEF Launch, history
<1>3. ASSUME NEW c \in Calls, Settle(o, c) PROVE runs' = runs /\ Fewer
  BY <1>0, <1>3 DEF Settle, history
<1>4. CASE Cancel(o) \/ Crash(o)
  BY <1>0, <1>4 DEF Cancel, Crash, history
<1>5. CASE Restart(o)
  <2>1. pc[o] \in Synced
    BY <1>5 DEF Restart, Synced
  <2> QED
    BY <1>1, <1>2, <1>5, <2>1 DEF Restart, Quiet, history
<1>6. CASE LaunchAsync(o) \/ LaunchSynchronous(o)
  <2>1. pc[o] \in Synced
    BY <1>6 DEF LaunchAsync, LaunchSynchronous, Synced, Rounds
  <2> QED
    BY <1>1, <1>2, <1>6, <2>1 DEF LaunchAsync, LaunchSynchronous, Quiet, history
<1>7. CASE \/ Load(o) \/ Reconcile(o) \/ Progress(o) \/ Open(o) \/ PrepareDelivery(o)
           \/ PersistTerminalErrors(o) \/ Submit(o) \/ BeginResponse(o)
           \/ (\E c \in Calls : Register(o, c)) \/ ResponseDone(o) \/ Poison(o) \/ Stall(o)
  BY <1>1, <1>7 DEF Load, Reconcile, Progress, Open, PrepareDelivery, PersistTerminalErrors, Submit,
     BeginResponse, Register, ResponseDone, Poison, Stall, Save, Quiet, history
<1>8. CASE \/ StageResult(o) \/ EmitMessage(o) \/ TranscriptCommitted(o) \/ CheckComplete(o)
           \/ Release(o) \/ Fail(o) \/ Interrupt(o) \/ Acquire(o)
  BY <1>1, <1>8 DEF StageResult, EmitMessage, TranscriptCommitted, CheckComplete, Release, Fail,
     Interrupt, Acquire, Save, Quiet, history
<1> QED
  BY <1>3, <1>4, <1>5, <1>6, <1>7, <1>8 DEF Step

LEMMA RunsJobs ==
    ASSUME TypeInv, RunsInv, NEW o \in Owners, Aside(o) PROVE RunsInv'
<1>0. jobs \in [Owners -> [Calls -> JobStates]] /\ runs \in [Calls -> Nat] /\ journal' = journal
  BY AsideStays DEF TypeInv, TypeOK
<1> SUFFICES ASSUME NEW d \in Calls \ ReplaySafe
             PROVE  /\ runs'[d] <= 1
                    /\ runs'[d] > 0 => journal.calls[d] \notin {"none", "queued"}
                    /\ \A p \in Owners : jobs'[p][d] # "none" => journal.calls[d] \notin {"none", "queued"}
                    /\ \A p \in Owners : jobs'[p][d] \in Waiting => runs'[d] = 0
                    /\ \A p, q \in Owners : jobs'[p][d] \in Waiting /\ jobs'[q][d] \in Waiting => p = q
  BY <1>0 DEF RunsInv
<1>1. PICK c \in Calls : Job(o, c) \/ JobAborted(o, c)
  BY DEF Aside
<1>2. CASE JobStart(o, c)
  <2>1. /\ jobs[o][c] = "locked" /\ jobs' = [jobs EXCEPT ![o][c] = "executing"]
        /\ runs' = [runs EXCEPT ![c] = runs[c] + 1]
    BY <1>2 DEF JobStart
  <2>2. CASE c = d
    <3>1. runs[d] = 0 /\ runs'[d] = 1 /\ journal.calls[d] \notin {"none", "queued"}
      BY <1>0, <2>1, <2>2 DEF RunsInv, Waiting
    <3>2. \A p \in Owners : jobs'[p][d] \notin Waiting
      BY <1>0, <2>1, <2>2 DEF RunsInv, Waiting
    <3> QED
      BY <3>1, <3>2
  <2>3. CASE c # d
    <3>1. runs'[d] = runs[d] /\ \A p \in Owners : jobs'[p][d] = jobs[p][d]
      BY <1>0, <2>1, <2>3
    <3> QED
      BY <3>1 DEF RunsInv
  <2> QED
    BY <2>2, <2>3
<1>3. CASE JobLock(o, c) \/ JobFinish(o, c) \/ JobAborted(o, c)
  <2>1. runs' = runs
    BY <1>3 DEF JobLock, JobFinish, JobAborted, history
  <2>2. \A p \in Owners : /\ jobs'[p][d] # "none" => jobs[p][d] # "none"
                          /\ jobs'[p][d] \in Waiting => jobs[p][d] \in Waiting
    BY <1>0, <1>3 DEF JobLock, JobFinish, JobAborted, Waiting
  <2> QED
    BY <2>1, <2>2 DEF RunsInv
<1> QED
  BY <1>1, <1>2, <1>3 DEF Job

LEMMA RunsStep ==
    ASSUME TypeInv, SyncInv, RunsInv, [Next]_vars, NEW o \in Owners,
           Acquire(o) \/ Step(o) \/ Interrupt(o) \/ Crash(o)
    PROVE  RunsInv'
<1>0. jobs \in [Owners -> [Calls -> JobStates]] /\ runs \in [Calls -> Nat]
  BY DEF TypeInv, TypeOK
<1>1. runs' = runs
  BY JobsStep
<1> SUFFICES ASSUME NEW d \in Calls \ ReplaySafe
             PROVE  /\ runs[d] <= 1
                    /\ runs[d] > 0 => journal'.calls[d] \notin {"none", "queued"}
                    /\ \A p \in Owners : jobs'[p][d] # "none" => journal'.calls[d] \notin {"none", "queued"}
                    /\ \A p \in Owners : jobs'[p][d] \in Waiting => runs[d] = 0
                    /\ \A p, q \in Owners : jobs'[p][d] \in Waiting /\ jobs'[q][d] \in Waiting => p = q
  BY <1>1 DEF RunsInv
<1>2. runs[d] <= 1 /\ (runs[d] > 0 => journal'.calls[d] \notin {"none", "queued"})
  BY PastStays DEF RunsInv
<1>3. CASE \A p \in Owners, c \in Calls : jobs'[p][c] \in {jobs[p][c], "none"}
  <2>1. \A p \in Owners : /\ jobs'[p][d] # "none" => jobs[p][d] # "none"
                          /\ jobs'[p][d] \in Waiting => jobs[p][d] \in Waiting
    BY <1>3 DEF Waiting
  <2> QED
    BY <1>2, <2>1, PastStays DEF RunsInv
<1>4. CASE Spawns(o)
  <2>1. PICK c \in Calls : /\ journal.calls[c] = "queued" /\ journal'.calls[c] = "running"
                           /\ jobs' = [jobs EXCEPT ![o] = [jobs[o] EXCEPT ![c] = "spawned"]]
    BY <1>4 DEF Spawns
  <2>2. CASE c = d
    <3>1. \A p \in Owners : jobs[p][d] = "none"
      BY <2>1, <2>2 DEF RunsInv
    <3>2. runs[d] = 0
      BY <1>0, <2>1, <2>2 DEF RunsInv
    <3>3. \A p \in Owners \ {o} : jobs'[p][d] = "none"
      BY <1>0, <2>1, <3>1
    <3> QED
      BY <1>2, <2>1, <2>2, <3>2, <3>3 DEF Waiting
  <2>3. CASE c # d
    <3>1. \A p \in Owners : jobs'[p][d] = jobs[p][d]
      BY <1>0, <2>1, <2>3
    <3> QED
      BY <1>2, <3>1, PastStays DEF RunsInv
  <2> QED
    BY <2>2, <2>3
<1> QED
  BY <1>3, <1>4, JobsStep

(* A tool that is not safe to replay runs at most once, however many attempts *)
(* the activity has: the inductive invariant ties every job to a journal      *)
(* that has left the queue for that call, and the journal never goes back.    *)
THEOREM UnsafeToolsRunOnce == Spec => []UnsafeRunsOnce
<1>1. Init => RunsInv
  BY DEF Init, RunsInv, Waiting
<1>2. TypeInv /\ SyncInv /\ RunsInv /\ [Next]_vars => RunsInv'
  <2> SUFFICES ASSUME TypeInv, SyncInv, RunsInv, [Next]_vars PROVE RunsInv'
    OBVIOUS
  <2>1. CASE LeaseLapses \/ UNCHANGED vars
    BY <2>1 DEF LeaseLapses, vars, RunsInv, history
  <2> QED
    BY <2>1, RunsStep, RunsJobs, NextKinds
<1>3. RunsInv => UnsafeRunsOnce
  BY DEF RunsInv, UnsafeRunsOnce
<1> QED
  BY <1>1, <1>2, <1>3, SyncInvariant, PTL DEF Spec

-----------------------------------------------------------------------------
(* Deliveries *)

Carrying == {"persist", "submit", "begin", "stream", "streamed", "launch"}

(* o has submitted the output of c, or is on its way to. *)
Carries(o, c) == o \in sentBy[c] \/ (pc[o] \in Carrying /\ c \in chk[o].delivery)

DeliveryInv ==
    \A c \in Calls : /\ \A o \in Owners : Carries(o, c) => c \in Covered(journal)
                     /\ \A o, p \in Owners : Carries(o, c) /\ Carries(p, c) => o = p

LEMMA CoveredStays ==
    ASSUME TypeInv, SyncInv, [Next]_vars, NEW c \in Covered(journal)
    PROVE  c \in Covered(journal')
<1>0. TypeOK /\ TypeOK' /\ journal \in Checkpoints /\ journal' \in Checkpoints /\ c \in Calls
  BY NextTyped DEF TypeInv, TypeOK, Covered, In, Checkpoints
<1>1. CASE journal' = Recovered(journal)
  BY <1>0, <1>1 DEF Recovered, Checkpoints, Covered, In
<1>2. CASE Advances(journal, journal')
  <2>1. CASE c \in journal.delivery
    BY <1>0, <1>2, <2>1 DEF Advances, Covered, In
  <2>2. CASE journal.calls[c] = "delivered"
    <3>1. Rank("delivered") = 4 /\ Rank(journal'.calls[c]) \in 0..4
      BY <1>0, Ranks DEF CallStates, Checkpoints
    <3>2. journal'.calls[c] = "delivered"
      BY <1>0, <1>2, <2>2, <3>1 DEF Advances
    <3> QED
      BY <1>0, <3>2 DEF Covered, In
  <2> QED
    BY <2>1, <2>2 DEF Covered, In
<1> QED
  BY <1>1, <1>2, JournalStep

(* k has the outputs that m has. *)
SameOutputs(k, m) == \A c \in In(m, Ready) : k.calls[c] = m.calls[c]

(* o goes on with the delivery it had. *)
Keeps(o) ==
    pc'[o] \in Carrying => /\ pc[o] \in Carrying /\ chk'[o].delivery = chk[o].delivery
                           /\ SameOutputs(chk'[o], chk[o])
                           /\ pc'[o] # "persist"
                           /\ pc[o] = "persist" => PersistTerminalErrors(o)

LEMMA KeepsSave ==
    ASSUME TypeOK, NEW o \in Owners, NEW k, NEW next, Saved(o, k, next) \/ NotSaved(o, k),
           next \in Carrying => /\ pc[o] \in Carrying \ {"persist"} /\ next # "persist"
                                /\ k.delivery = chk[o].delivery /\ SameOutputs(k, chk[o])
    PROVE  Keeps(o)
<1>0. pc \in [Owners -> Places] /\ DOMAIN chk = Owners /\ "ended" \notin Carrying /\ "cancel" \notin Carrying
  BY DEF TypeOK, Places, Carrying
<1>1. CASE Saved(o, k, next)
  BY <1>0, <1>1 DEF Saved, Keeps
<1>2. CASE NotSaved(o, k)
  BY <1>0, <1>2 DEF NotSaved, Keeps
<1> QED
  BY <1>1, <1>2

LEMMA KeepsGoto ==
    ASSUME TypeOK, NEW o \in Owners, NEW next, Goto(o, next),
           next \in Carrying => /\ pc[o] \in Carrying /\ next # "persist"
                                /\ pc[o] = "persist" => PersistTerminalErrors(o)
    PROVE  Keeps(o)
BY DEF TypeOK, Goto, Keeps, SameOutputs

LEMMA KeepsEnd ==
    ASSUME TypeOK, NEW o \in Owners, End(o) PROVE Keeps(o)
BY DEF TypeOK, End, Keeps, Carrying

LEMMA KeepsStep ==
    ASSUME TypeOK, NEW o \in Owners,
           Acquire(o) \/ Step(o) \/ Interrupt(o) \/ Crash(o), ~PrepareDelivery(o)
    PROVE  Keeps(o)
<1>0. chk[o] \in Checkpoints
  BY Typed
<1> USE DEF Carrying
<1>1. ASSUME NEW c \in Calls, NEW next, Launch(o, c, next), chk[o].calls[c] = "queued",
             next \in Carrying => pc[o] \in Carrying \ {"persist"} /\ next # "persist"
      PROVE  Keeps(o)
  <2> DEFINE k == [chk[o] EXCEPT !.calls[c] = "running"]
  <2>1. k.delivery = chk[o].delivery /\ SameOutputs(k, chk[o])
    BY <1>0, <1>1 DEF Checkpoints, SameOutputs, In, Ready
  <2> QED
    BY <1>1, <2>1, KeepsSave DEF Launch
<1>2. CASE Load(o)
  BY <1>2, KeepsEnd DEF Load, TypeOK, Keeps
<1>3. CASE Reconcile(o) \/ Progress(o) \/ Open(o)
  BY <1>3, KeepsEnd, KeepsGoto, KeepsSave DEF Reconcile, Progress, Open, Save
<1>4. CASE Restart(o) \/ LaunchAsync(o) \/ LaunchSynchronous(o)
  BY <1>1, <1>4, KeepsEnd, KeepsGoto DEF Restart, LaunchAsync, LaunchSynchronous, In
<1>5. CASE PersistTerminalErrors(o) \/ Submit(o)
  BY <1>5, KeepsEnd, KeepsGoto DEF PersistTerminalErrors, Submit
<1>6. CASE BeginResponse(o)
  <2> DEFINE k == [chk[o] EXCEPT !.transcript = resp[o], !.inFlight = TRUE]
  <2>1. k.delivery = chk[o].delivery /\ SameOutputs(k, chk[o])
    BY <1>0 DEF Checkpoints, SameOutputs
  <2> QED
    BY <1>6, <2>1, KeepsSave DEF BeginResponse, Save
<1>7. ASSUME NEW c \in Calls, Register(o, c) PROVE Keeps(o)
  <2> DEFINE k == [chk[o] EXCEPT !.calls[c] = "queued"]
  <2>1. k.delivery = chk[o].delivery /\ SameOutputs(k, chk[o])
    BY <1>0, <1>7 DEF Checkpoints, SameOutputs, Register, In, Ready
  <2> QED
    BY <1>7, <2>1, KeepsSave DEF Register, Save
<1>8. CASE ResponseDone(o) \/ StageResult(o) \/ TranscriptCommitted(o) \/ CheckComplete(o)
  BY <1>8, KeepsSave, KeepsGoto DEF ResponseDone, StageResult, TranscriptCommitted, CheckComplete, Save
<1>9. CASE Poison(o) \/ Stall(o) \/ EmitMessage(o) \/ Release(o) \/ Fail(o)
  BY <1>9, KeepsEnd, KeepsGoto DEF Poison, Stall, EmitMessage, Release, Fail
<1>10. ASSUME NEW c \in Calls, Settle(o, c) PROVE Keeps(o)
  <2> DEFINE k == Settled(chk[o], c, jobs[o][c])
  <2>1. k.delivery = chk[o].delivery /\ SameOutputs(k, chk[o])
    BY <1>0 DEF Settled, Checkpoints, SameOutputs, In, Ready
  <2> QED
    BY <1>10, <2>1, KeepsSave DEF Settle
<1>11. CASE Cancel(o)
  BY <1>11, KeepsSave DEF Cancel
<1>12. CASE Interrupt(o) \/ Crash(o) \/ Acquire(o)
  BY <1>12, KeepsEnd, KeepsGoto DEF Interrupt, Crash, Acquire
<1> QED
  BY <1>2, <1>3, <1>4, <1>5, <1>6, <1>7, <1>8, <1>9, <1>10, <1>11, <1>12 DEF Step

LEMMA SentStep ==
    ASSUME TypeOK, NEW o \in Owners,
           Acquire(o) \/ Step(o) \/ Interrupt(o) \/ Crash(o), ~Submit(o)
    PROVE  sentBy' = sentBy
<1>1. CASE \/ Load(o) \/ Reconcile(o) \/ Progress(o) \/ Open(o) \/ Restart(o) \/ LaunchAsync(o)
           \/ LaunchSynchronous(o) \/ PrepareDelivery(o) \/ PersistTerminalErrors(o)
           \/ BeginResponse(o) \/ ResponseDone(o) \/ Poison(o) \/ Stall(o)
  BY <1>1 DEF Load, Reconcile, Progress, Open, Restart, LaunchAsync, LaunchSynchronous, Launch,
     PrepareDelivery, PersistTerminalErrors, BeginResponse, ResponseDone, Poison, Stall, Quiet, history
<1>2. CASE \/ StageResult(o) \/ EmitMessage(o) \/ TranscriptCommitted(o) \/ CheckComplete(o)
           \/ Release(o) \/ Fail(o) \/ Cancel(o) \/ Interrupt(o) \/ Acquire(o) \/ Crash(o)
           \/ \E c \in Calls : Register(o, c) \/ Settle(o, c)
  BY <1>2 DEF StageResult, EmitMessage, TranscriptCommitted, CheckComplete, Release, Fail, Cancel,
     Interrupt, Acquire, Crash, Register, Settle, Quiet, history
<1> QED
  BY <1>1, <1>2 DEF Step

(* Only PrepareDelivery takes on a call, one that nothing covered. *)
LEMMA CarriesStep ==
    ASSUME TypeInv, SyncInv, NEW o \in Owners,
           Acquire(o) \/ Step(o) \/ Interrupt(o) \/ Crash(o),
           NEW p \in Owners, NEW c \in Calls, Carries(p, c)'
    PROVE  \/ Carries(p, c)
           \/ p = o /\ c \notin Covered(journal) /\ c \in Covered(journal')
<1>0. TypeOK /\ chk[o] \in Checkpoints /\ pc \in [Owners -> Places] /\ chk \in [Owners -> Checkpoints]
  BY Typed DEF TypeInv, TypeOK, Places
<1>1. OthersStay(o)
  BY <1>0, StepKinds, KindsTyped
<1>2. CASE PrepareDelivery(o)
  <2> DEFINE k == [chk[o] EXCEPT !.delivery = In(chk[o], Ready)]
  <2>1. sentBy' = sentBy
    BY <1>2 DEF PrepareDelivery, history
  <2>2. CASE p # o \/ pc'[o] \notin Carrying
    BY <1>1, <2>1, <2>2 DEF Carries, OthersStay
  <2>3. CASE p = o /\ pc'[o] \in Carrying /\ p \notin sentBy[c]
    <3>1. Holds(o) /\ journal' = k /\ chk' = [chk EXCEPT ![o] = k]
      <4>1. PICK next \in {"waitOne", "persist"} : Saved(o, k, next) \/ NotSaved(o, k)
        BY <1>2 DEF PrepareDelivery, Save
      <4>2. ~NotSaved(o, k)
        BY <1>0, <2>3 DEF NotSaved, Carrying
      <4> QED
        BY <4>1, <4>2 DEF Saved
    <3>2. chk[o] = journal
      BY <1>2, <3>1 DEF PrepareDelivery, SyncInv, Synced, Rounds
    <3>3. journal.delivery = {} /\ journal'.delivery = In(journal, Ready)
      BY <1>0, <1>2, <3>1, <3>2 DEF PrepareDelivery, DeliveryPossible, Checkpoints
    <3>4. c \in In(journal, Ready)
      <4>1. c \in chk'[o].delivery
        BY <2>1, <2>3 DEF Carries
      <4>2. chk'[o] = journal'
        BY <1>0, <3>1
      <4> QED
        BY <3>3, <4>1, <4>2
    <3> QED
      BY <2>3, <3>3, <3>4 DEF Covered, In, Ready
  <2> QED
    BY <2>1, <2>2, <2>3 DEF Carries
<1>3. CASE Submit(o)
  <2>1. pc[o] \in Carrying
    BY <1>3 DEF Submit, Carrying
  <2>2. \A q \in Owners : q \in sentBy'[c] => q \in sentBy[c] \/ (q = o /\ c \in chk[o].delivery)
    BY <1>3 DEF Submit
  <2>3. Keeps(o)
    BY <1>0, <1>3, KeepsGoto DEF Submit, Carrying
  <2> QED
    BY <1>1, <2>1, <2>2, <2>3 DEF Carries, Keeps, OthersStay
<1>4. CASE ~PrepareDelivery(o) /\ ~Submit(o)
  <2>1. Keeps(o) /\ sentBy' = sentBy
    BY <1>0, <1>4, KeepsStep, SentStep
  <2> QED
    BY <1>1, <2>1 DEF Carries, Keeps, OthersStay
<1> QED
  BY <1>2, <1>3, <1>4

LEMMA DeliveryStep ==
    ASSUME TypeInv, SyncInv, DeliveryInv, [Next]_vars PROVE DeliveryInv'
<1>1. CASE LeaseLapses \/ (\E o \in Owners : Aside(o)) \/ UNCHANGED vars
  <2>1. journal' = journal /\ pc' = pc /\ chk' = chk /\ sentBy' = sentBy
    BY <1>1, AsideStays DEF LeaseLapses, vars, history
  <2> QED
    BY <2>1 DEF DeliveryInv, Carries, Covered, In
<1>2. ASSUME NEW o \in Owners, Acquire(o) \/ Step(o) \/ Interrupt(o) \/ Crash(o),
             NEW c \in Calls
      PROVE  /\ \A p \in Owners : Carries(p, c)' => c \in Covered(journal')
             /\ \A p, q \in Owners : Carries(p, c)' /\ Carries(q, c)' => p = q
  BY <1>2, CarriesStep, CoveredStays DEF DeliveryInv
<1>3. ASSUME NEW o \in Owners, Acquire(o) \/ Step(o) \/ Interrupt(o) \/ Crash(o) PROVE DeliveryInv'
  <2>1. \A c \in Calls :
          /\ \A p \in Owners : Carries(p, c)' => c \in Covered(journal)'
          /\ \A p, q \in Owners : Carries(p, c)' /\ Carries(q, c)' => p = q
    <3>1. Covered(journal)' = Covered(journal')
      BY DEF Covered, In
    <3> QED
      BY <1>2, <1>3, <3>1
  <2> QED
    BY <2>1 DEF DeliveryInv
<1> QED
  BY <1>1, <1>3, NextKinds

LEMMA DeliveryInvariant == Spec => [](TypeInv /\ SyncInv /\ DeliveryInv)
<1>1. Init => DeliveryInv
  BY DEF Init, DeliveryInv, Carries, Carrying
<1> QED
  BY <1>1, DeliveryStep, SyncInvariant, PTL DEF Spec

(* The output of a call is submitted by one attempt only: the journal covers  *)
(* the call from the moment an attempt takes it on, and no attempt takes on a *)
(* call that the journal covers.                                              *)
THEOREM OutputsHaveOneSubmitter == Spec => []OneOwnerSubmits
<1>1. TypeInv /\ DeliveryInv => OneOwnerSubmits
  <2> SUFFICES ASSUME TypeInv, DeliveryInv, NEW c \in Calls PROVE Cardinality(sentBy[c]) <= 1
    BY DEF OneOwnerSubmits
  <2>1. sentBy[c] \subseteq Owners /\ \A o, p \in sentBy[c] : o = p
    BY DEF TypeInv, TypeOK, DeliveryInv, Carries
  <2>2. CASE sentBy[c] = {}
    BY <2>2, FS_EmptySet
  <2>3. CASE sentBy[c] # {}
    <3>1. PICK o : sentBy[c] = {o}
      BY <2>1, <2>3
    <3>2. Cardinality({o}) = 1
      BY FS_Singleton, Zenon
    <3> QED
      BY <3>1, <3>2
  <2> QED
    BY <2>2, <2>3
<1> QED
  BY <1>1, DeliveryInvariant, PTL

(* Calls whose result Act has recorded, or tried to. *)
Reported == recorded \cup unlogged

(* A delivery consists of outputs, and its errors are in the transcript once  *)
(* they have been made tool results.                                          *)
Prepared(o) ==
    /\ pc[o] \in Carrying => chk[o].delivery \subseteq In(chk[o], Ready)
    /\ pc[o] \in Carrying \ {"persist"} =>
          chk[o].delivery \cap In(chk[o], TerminalErrors) \subseteq recorded

(* A result in a checkpoint was reported by the Act that made it. *)
RecordedInv ==
    /\ In(journal, {"result"}) \subseteq Reported
    /\ \A o \in Owners : /\ In(chk[o], {"result"}) \subseteq Reported
                         /\ \A c \in Calls : jobs[o][c] = "result" => c \in Reported
                         /\ Prepared(o)

LEMMA RecordedGrows ==
    ASSUME TypeOK, [Next]_vars PROVE recorded \subseteq recorded' /\ unlogged \subseteq unlogged'
<1>1. ASSUME NEW o \in Owners, Aside(o) PROVE recorded \subseteq recorded' /\ unlogged \subseteq unlogged'
  BY <1>1 DEF Aside, Job, JobLock, JobStart, JobFinish, JobAborted, EmitCompleted, history
<1>2. ASSUME NEW o \in Owners,
             \/ Load(o) \/ Reconcile(o) \/ Progress(o) \/ Open(o) \/ Restart(o) \/ LaunchAsync(o)
             \/ LaunchSynchronous(o) \/ PrepareDelivery(o) \/ PersistTerminalErrors(o) \/ Submit(o)
             \/ BeginResponse(o) \/ ResponseDone(o) \/ Poison(o) \/ Stall(o)
      PROVE  recorded \subseteq recorded' /\ unlogged \subseteq unlogged'
  BY <1>2 DEF Load, Reconcile, Progress, Open, Restart, LaunchAsync, LaunchSynchronous, Launch,
     PrepareDelivery, PersistTerminalErrors, Submit, BeginResponse, ResponseDone, Poison, Stall, Quiet, history
<1>3. ASSUME NEW o \in Owners,
             \/ StageResult(o) \/ EmitMessage(o) \/ TranscriptCommitted(o) \/ CheckComplete(o)
             \/ Release(o) \/ Fail(o) \/ Cancel(o) \/ Interrupt(o) \/ Acquire(o) \/ Crash(o)
             \/ \E c \in Calls : Register(o, c) \/ Settle(o, c)
      PROVE  recorded \subseteq recorded' /\ unlogged \subseteq unlogged'
  BY <1>3 DEF StageResult, EmitMessage, TranscriptCommitted, CheckComplete, Release, Fail, Cancel,
     Interrupt, Acquire, Crash, Register, Settle, Quiet, history
<1>4. CASE LeaseLapses \/ UNCHANGED vars
  BY <1>4 DEF LeaseLapses, vars, history
<1> QED
  BY <1>1, <1>2, <1>3, <1>4, NextKinds DEF Step

(* Every result in k was reported. *)
Known(k) == In(k, {"result"}) \subseteq Reported

LEMMA KnownSave ==
    ASSUME TypeOK, NEW o \in Owners, NEW k, NEW next, Saved(o, k, next) \/ NotSaved(o, k),
           Known(journal), Known(k)
    PROVE  In(journal', {"result"}) \subseteq Reported /\ In(chk'[o], {"result"}) \subseteq Reported
<1>1. chk'[o] \in {k, DefaultCheckpoint} /\ journal' \in {journal, k}
  BY DEF Saved, NotSaved, TypeOK
<1>2. In(DefaultCheckpoint, {"result"}) = {}
  BY DEF In, DefaultCheckpoint
<1> QED
  BY <1>1, <1>2 DEF Known

LEMMA KnownGoto ==
    ASSUME TypeOK, NEW o \in Owners, Known(journal), Known(chk[o]), journal' = journal,
           chk' = chk \/ chk' = [chk EXCEPT ![o] = DefaultCheckpoint] \/ chk' = [chk EXCEPT ![o] = journal]
    PROVE  In(journal', {"result"}) \subseteq Reported /\ In(chk'[o], {"result"}) \subseteq Reported
<1>1. chk'[o] \in {chk[o], DefaultCheckpoint, journal}
  BY DEF TypeOK
<1>2. In(DefaultCheckpoint, {"result"}) = {}
  BY DEF In, DefaultCheckpoint
<1> QED
  BY <1>1, <1>2 DEF Known

LEMMA KnownStep ==
    ASSUME TypeOK, NEW o \in Owners, Known(journal), Known(chk[o]),
           \A c \in Calls : jobs[o][c] = "result" => c \in Reported,
           Acquire(o) \/ Step(o) \/ Interrupt(o) \/ Crash(o)
    PROVE  In(journal', {"result"}) \subseteq Reported /\ In(chk'[o], {"result"}) \subseteq Reported
<1>0. chk[o] \in Checkpoints /\ journal \in Checkpoints
  BY Typed
<1>1. ASSUME NEW c \in Calls, NEW s \in {"queued", "running"}
      PROVE  Known([chk[o] EXCEPT !.calls[c] = s])
  BY <1>0, <1>1 DEF Known, In, Checkpoints
<1>2. CASE Reconcile(o) \/ TranscriptCommitted(o)
  <2>1. Known([chk[o] EXCEPT !.transcript = 0])
    BY <1>0 DEF Known, In, Checkpoints
  <2> QED
    BY <1>2, <2>1, KnownGoto, KnownSave DEF Reconcile, TranscriptCommitted, Goto, Save
<1>3. CASE Progress(o) \/ CheckComplete(o)
  <2>1. Known([chk[o] EXCEPT !.outcome = TRUE])
    BY <1>0 DEF Known, In, Checkpoints
  <2> QED
    BY <1>3, <2>1, KnownGoto, KnownSave DEF Progress, CheckComplete, Goto, End, Save, Quiet
<1>4. CASE Open(o)
  <2>1. Known(Recovered(journal))
    BY <1>0 DEF Known, In, Checkpoints, Recovered
  <2> QED
    BY <1>4, <2>1, KnownGoto, KnownSave DEF Open, End, Save, Quiet
<1>5. CASE Restart(o) \/ LaunchAsync(o) \/ LaunchSynchronous(o)
  <2>1. ASSUME NEW c \in Calls, NEW next, Launch(o, c, next)
        PROVE  In(journal', {"result"}) \subseteq Reported /\ In(chk'[o], {"result"}) \subseteq Reported
    BY <1>1, <2>1, KnownSave DEF Launch
  <2> QED
    BY <1>5, <2>1, KnownGoto DEF Restart, LaunchAsync, LaunchSynchronous, In, Goto, End, Quiet
<1>6. CASE PrepareDelivery(o)
  <2>1. Known([chk[o] EXCEPT !.delivery = In(chk[o], Ready)])
    BY <1>0 DEF Known, In, Checkpoints
  <2> QED
    BY <1>6, <2>1, KnownSave DEF PrepareDelivery, Save
<1>7. CASE BeginResponse(o)
  <2>1. Known([chk[o] EXCEPT !.transcript = resp[o], !.inFlight = TRUE])
    BY <1>0 DEF Known, In, Checkpoints
  <2> QED
    BY <1>7, <2>1, KnownSave DEF BeginResponse, Save
<1>8. CASE \E c \in Calls : Register(o, c)
  BY <1>1, <1>8, KnownSave DEF Register, Save
<1>9. CASE ResponseDone(o)
  <2>1. Known(Responded(chk[o], resp[o]))
    BY <1>0 DEF Known, In, Checkpoints, Responded
  <2> QED
    BY <1>9, <2>1, KnownSave DEF ResponseDone, Save
<1>10. CASE StageResult(o)
  <2>1. Known([chk[o] EXCEPT !.summaries = @ + 1])
    BY <1>0 DEF Known, In, Checkpoints
  <2> QED
    BY <1>10, <2>1, KnownSave DEF StageResult, Save
<1>11. ASSUME NEW c \in Calls, Settle(o, c)
       PROVE  In(journal', {"result"}) \subseteq Reported /\ In(chk'[o], {"result"}) \subseteq Reported
  <2>1. Known(Settled(chk[o], c, jobs[o][c]))
    BY <1>0 DEF Known, In, Checkpoints, Settled
  <2> QED
    BY <1>11, <2>1, KnownSave DEF Settle
<1>12. CASE Cancel(o)
  <2>1. Known(Joined(o))
    <3>1. ASSUME NEW c \in Calls, jobs[o][c] # "result", Settled(chk[o], c, jobs[o][c]).calls[c] = "result"
          PROVE  chk[o].calls[c] = "result"
      BY <1>0, <3>1 DEF Settled, Checkpoints
    <3>2. ASSUME NEW c \in Calls, Joined(o).calls[c] = "result"
          PROVE  chk[o].calls[c] = "result" \/ jobs[o][c] = "result"
      BY <1>0, <3>1, <3>2 DEF Joined, Cancelled, Checkpoints
    <3> QED
      BY <3>2 DEF Known, In
  <2> QED
    BY <1>12, <2>1, KnownSave DEF Cancel, Joined
<1>13. CASE \/ Load(o) \/ PersistTerminalErrors(o) \/ Submit(o) \/ Poison(o) \/ Stall(o) \/ EmitMessage(o)
            \/ Release(o) \/ Fail(o) \/ Interrupt(o) \/ Crash(o) \/ Acquire(o)
  BY <1>13, KnownGoto DEF Load, PersistTerminalErrors, Submit, Poison, Stall, EmitMessage, Release, Fail,
     Interrupt, Crash, Acquire, Goto, End, Quiet
<1> QED
  BY <1>2, <1>3, <1>4, <1>5, <1>6, <1>7, <1>8, <1>9, <1>10, <1>11, <1>12, <1>13 DEF Step

LEMMA PreparedStep ==
    ASSUME TypeInv, NEW o \in Owners, Prepared(o), [Next]_vars,
           Acquire(o) \/ Step(o) \/ Interrupt(o) \/ Crash(o)
    PROVE  Prepared(o)'
<1>0. TypeOK /\ chk[o] \in Checkpoints /\ recorded \subseteq recorded'
  BY Typed, RecordedGrows DEF TypeInv
<1>1. CASE PrepareDelivery(o)
  <2> DEFINE k == [chk[o] EXCEPT !.delivery = In(chk[o], Ready)]
  <2>1. k.delivery \subseteq In(k, Ready)
    BY <1>0 DEF In, Checkpoints
  <2>2. PICK next \in {"waitOne", "persist"} : Saved(o, k, next) \/ NotSaved(o, k)
    BY <1>1 DEF PrepareDelivery, Save
  <2> HIDE DEF k
  <2>3. pc'[o] \in {"waitOne", "ended", "cancel"} \/ (pc'[o] = "persist" /\ chk'[o] = k)
    BY <1>0, <2>2 DEF Saved, NotSaved, TypeOK
  <2> QED
    BY <2>1, <2>3 DEF Prepared, Carrying, In
<1>2. CASE ~PrepareDelivery(o) /\ pc'[o] \in Carrying
  <2>1. /\ pc[o] \in Carrying /\ chk'[o].delivery = chk[o].delivery
        /\ SameOutputs(chk'[o], chk[o]) /\ pc'[o] # "persist"
        /\ pc[o] = "persist" => PersistTerminalErrors(o)
    BY <1>0, <1>2, KeepsStep DEF Keeps
  <2>2. chk[o].delivery \subseteq In(chk[o], Ready)
    BY <2>1 DEF Prepared
  <2>3. ASSUME NEW c \in chk[o].delivery
        PROVE  /\ chk'[o].calls[c] = chk[o].calls[c] /\ chk[o].calls[c] \in Ready
               /\ chk[o].calls[c] \in TerminalErrors => c \in recorded'
    <3>1. c \in Calls /\ chk[o].calls[c] \in Ready
      BY <2>2 DEF In
    <3>2. chk'[o].calls[c] = chk[o].calls[c]
      BY <2>1, <2>2 DEF SameOutputs
    <3>3. CASE pc[o] = "persist"
      BY <2>1, <3>1, <3>2, <3>3 DEF PersistTerminalErrors, In
    <3>4. CASE pc[o] # "persist"
      BY <1>0, <2>1, <3>1, <3>2, <3>4 DEF Prepared, In
    <3> QED
      BY <3>1, <3>2, <3>3, <3>4
  <2> QED
    BY <2>1, <2>2, <2>3 DEF Prepared, In
<1>3. CASE pc'[o] \notin Carrying
  BY <1>3 DEF Prepared
<1> QED
  BY <1>1, <1>2, <1>3

LEMMA RecordedStep ==
    ASSUME TypeInv, SyncInv, RecordedInv, [Next]_vars PROVE RecordedInv'
<1>0. TypeOK /\ recorded \subseteq recorded' /\ Reported \subseteq Reported'
  BY RecordedGrows DEF TypeInv, Reported
<1>1. CASE LeaseLapses \/ UNCHANGED vars
  BY <1>1 DEF LeaseLapses, vars, history, RecordedInv, Prepared, Reported, In
<1>2. ASSUME NEW o \in Owners, Aside(o) PROVE RecordedInv'
  <2>1. journal' = journal /\ pc' = pc /\ chk' = chk
    BY <1>2, AsideStays
  <2>2. \A p \in Owners, c \in Calls : jobs'[p][c] = "result" => c \in Reported'
    <3>1. PICK d \in Calls : Job(o, d) \/ JobAborted(o, d)
      BY <1>2 DEF Aside
    <3>2. \/ jobs' = [jobs EXCEPT ![o][d] = "result"] /\ d \in Reported'
          \/ \E s \in JobStates \ {"result"} : jobs' = [jobs EXCEPT ![o][d] = s]
      BY <3>1 DEF Job, JobLock, JobStart, JobFinish, JobAborted, JobStates, EmitCompleted, Reported
    <3> QED
      BY <1>0, <3>2 DEF RecordedInv, TypeOK
  <2> QED
    BY <1>0, <2>1, <2>2 DEF RecordedInv, Prepared, In
<1>3. ASSUME NEW o \in Owners, Acquire(o) \/ Step(o) \/ Interrupt(o) \/ Crash(o) PROVE RecordedInv'
  <2>1. In(journal', {"result"}) \subseteq Reported /\ In(chk'[o], {"result"}) \subseteq Reported
    BY <1>0, <1>3, KnownStep DEF RecordedInv, Known
  <2>2. Prepared(o)'
    BY <1>3, PreparedStep DEF RecordedInv
  <2>3. OthersStay(o)
    BY <1>0, <1>3, StepKinds, KindsTyped
  <2>4. \A p \in Owners, c \in Calls : jobs'[p][c] = "result" => c \in Reported
    <3>1. CASE Spawns(o)
      BY <1>0, <3>1 DEF Spawns, RecordedInv, TypeOK
    <3> QED
      BY <1>3, <3>1, JobsStep DEF RecordedInv
  <2>5. ASSUME NEW p \in Owners
        PROVE  /\ In(chk'[p], {"result"}) \subseteq Reported' /\ Prepared(p)'
               /\ \A c \in Calls : jobs'[p][c] = "result" => c \in Reported'
    <3>1. CASE p = o
      BY <1>0, <2>1, <2>2, <2>4, <3>1
    <3>2. CASE p # o
      <4>1. chk'[p] = chk[p] /\ pc'[p] = pc[p]
        BY <2>3, <3>2 DEF OthersStay
      <4> QED
        BY <1>0, <2>4, <4>1 DEF RecordedInv, Prepared, In
    <3> QED
      BY <3>1, <3>2
  <2> QED
    BY <1>0, <2>1, <2>5 DEF RecordedInv, In
<1> QED
  BY <1>1, <1>2, <1>3, NextKinds

(* What an owner is about to submit is in the transcript, but for a tool's    *)
(* own result that its Act could not emit: Act reports a result before a      *)
(* checkpoint can hold it, errors become tool results between the delivery's   *)
(* write and its request, and neither changes while the request is retried.    *)
THEOREM OutputsAreRecordedFirst == Spec => []DeliveredAreRecorded
<1>1. Init => RecordedInv
  BY DEF Init, RecordedInv, Prepared, In, DefaultCheckpoint, Carrying
<1>2. RecordedInv => DeliveredAreRecorded
  <2> SUFFICES ASSUME RecordedInv, NEW o \in Owners, pc[o] = "submit", NEW c \in chk[o].delivery
               PROVE  c \in recorded \/ (chk[o].calls[c] = "result" /\ c \in unlogged)
    BY DEF DeliveredAreRecorded
  <2>1. c \in Calls /\ chk[o].calls[c] \in Ready
    BY DEF RecordedInv, Prepared, Carrying, In
  <2>2. CASE chk[o].calls[c] = "result"
    BY <2>1, <2>2 DEF RecordedInv, Reported, In
  <2>3. CASE chk[o].calls[c] \in TerminalErrors
    BY <2>1, <2>3 DEF RecordedInv, Prepared, Carrying, In
  <2> QED
    BY <2>1, <2>2, <2>3 DEF TerminalErrors
<1> QED
  BY <1>1, <1>2, RecordedStep, SyncInvariant, PTL DEF Spec

-----------------------------------------------------------------------------
(* Outcomes *)

Working == {"open", "restart"} \cup (Rounds \ {"finish"})

(* An outcome closes the journal. *)
Closed(o) ==
    /\ pc[o] \in {"finish", "return", "done"} => journal.outcome
    /\ pc[o] \in {"reconcile", "progress"} /\ chk[o].outcome => journal.outcome
    /\ journal.outcome /\ Holds(o) => pc[o] \notin Working

OutcomeInv == \A o \in Owners : Closed(o)

LEMMA OutcomeStays ==
    ASSUME TypeInv, SyncInv, [Next]_vars, journal.outcome PROVE journal'.outcome
<1>1. CASE journal' = Recovered(journal)
  BY <1>1 DEF Recovered, TypeInv, TypeOK, Checkpoints
<1> QED
  BY <1>1, JournalStep DEF Advances

LEMMA ClosedAttempt ==
    ASSUME TypeOK, SyncInv, NEW o \in Owners, Closed(o), NEW k \in Checkpoints, NEW next,
           Attempt(o, k, next), pc[o] \in Working \ {"open"}, next \in Working,
           k.outcome = chk[o].outcome
    PROVE  Closed(o)'
<1>1. pc'[o] \in Working \cup {"ended", "cancel"}
  BY DEF Attempt
<1>2. ASSUME Holds(o)' PROVE ~journal'.outcome
  <2>1. Holds(o) /\ ~journal.outcome /\ chk[o] = journal
    BY <1>2 DEF Attempt, Holds, Closed, SyncInv, Working, Synced
  <2> QED
    BY <2>1 DEF Attempt
<1> QED
  BY <1>1, <1>2 DEF Closed, Working, Rounds

LEMMA ClosedLocal ==
    ASSUME TypeOK, NEW o \in Owners, Closed(o), journal' = journal, lease' = lease,
           \/ pc'[o] \in {"ended", "cancel", "errors"}
           \/ pc[o] \in Working /\ pc'[o] \in Working
    PROVE  Closed(o)'
BY DEF Closed, Holds, Working, Rounds

LEMMA ClosedStep ==
    ASSUME TypeInv, SyncInv, NEW o \in Owners, Closed(o),
           Step(o) \/ Interrupt(o) \/ Crash(o)
    PROVE  Closed(o)'
<1>0. TypeOK /\ chk[o] \in Checkpoints /\ journal \in Checkpoints /\ resp[o] \in 0..MaxRequests
  BY Typed DEF TypeInv
<1>1. CASE Load(o)
  <2>1. \/ pc'[o] = "ended"
        \/ pc'[o] = "reconcile" /\ chk'[o] = journal
    BY <1>0, <1>1, EndStays DEF Load, TypeOK
  <2> QED
    BY <1>1, <2>1 DEF Load, Quiet, Closed, Working, Rounds
<1>2. CASE Reconcile(o)
  <2>1. CASE Goto(o, "progress") /\ journal' = journal
    <3>1. pc'[o] = "progress" /\ chk'[o] = chk[o]
      BY <1>0, <2>1, GotoStays DEF Places, Opening
    <3> QED
      BY <1>2, <2>1, <3>1 DEF Reconcile, Closed, Working, Rounds
  <2>2. CASE Save(o, [chk[o] EXCEPT !.transcript = 0], "progress")
    <3> DEFINE k == [chk[o] EXCEPT !.transcript = 0]
    <3>1. k \in Checkpoints /\ k.outcome = chk[o].outcome
      BY <1>0, CommitMoves DEF Checkpoints
    <3>2. Attempt(o, k, "progress")
      BY <1>0, <2>2, <3>1, SaveIsAttempt DEF Save, Places, Opening
    <3> HIDE DEF k
    <3>3. pc'[o] = "ended" \/ (pc'[o] = "progress" /\ chk'[o] = k /\ journal' = k)
      BY <1>2, <3>2 DEF Attempt, Reconcile, Rounds
    <3> QED
      BY <3>1, <3>3 DEF Closed, Working, Rounds
  <2> QED
    BY <1>2, <2>1, <2>2 DEF Reconcile
<1>3. CASE Progress(o)
  <2>1. CASE End(o) /\ Quiet
    BY <1>0, <2>1, EndStays, ClosedLocal DEF Quiet
  <2>2. CASE Save(o, [chk[o] EXCEPT !.outcome = TRUE], "return")
    <3> DEFINE k == [chk[o] EXCEPT !.outcome = TRUE]
    <3>1. k \in Checkpoints /\ k.outcome
      BY <1>0, FinishMoves DEF Checkpoints
    <3>2. Attempt(o, k, "return")
      BY <1>0, <2>2, <3>1, SaveIsAttempt DEF Save, Places, Ending
    <3> HIDE DEF k
    <3>3. pc'[o] = "ended" \/ (pc'[o] = "return" /\ journal' = k)
      BY <1>3, <3>2 DEF Attempt, Progress, Rounds
    <3> QED
      BY <3>1, <3>3 DEF Closed, Working, Rounds
  <2>3. CASE Goto(o, IF chk[o].outcome THEN "return" ELSE "open") /\ UNCHANGED <<journal, lease>>
    <3>1. pc'[o] = IF chk[o].outcome THEN "return" ELSE "open"
      BY <1>0, <2>3, GotoStays DEF Places, Opening, Ending
    <3>2. Holds(o) => chk[o] = journal
      BY <1>3 DEF Progress, SyncInv, Synced
    <3> QED
      BY <1>3, <2>3, <3>1, <3>2 DEF Progress, Closed, Holds, Working, Rounds
  <2> QED
    BY <1>3, <2>1, <2>2, <2>3 DEF Progress
<1>4. CASE Open(o)
  <2>1. CASE End(o) /\ Quiet
    BY <1>0, <2>1, EndStays, ClosedLocal DEF Quiet
  <2>2. CASE Holds(o) /\ Save(o, Recovered(journal), "restart")
    <3>1. Attempt(o, Recovered(journal), "restart")
      BY <1>0, <2>2, RecoverTyped, SaveIsAttempt DEF Save, Places, Opening
    <3>2. Recovered(journal).outcome = journal.outcome
      BY <1>0 DEF Recovered, Checkpoints
    <3>3. ~journal.outcome
      BY <1>4, <2>2 DEF Open, Closed, Working
    <3>4. pc'[o] \in {"restart", "ended"} /\ ~journal'.outcome
      BY <1>4, <3>1, <3>2, <3>3 DEF Attempt, Open, Rounds
    <3> QED
      BY <3>4 DEF Closed
  <2> QED
    BY <1>4, <2>1, <2>2 DEF Open
<1>5. ASSUME NEW c \in In(chk[o], {"queued"}), NEW next \in Working \cap Synced, Launch(o, c, next),
             pc[o] \in Working \ {"open"}
      PROVE  Closed(o)'
  <2>1. [chk[o] EXCEPT !.calls[c] = "running"].outcome = chk[o].outcome
    BY <1>0 DEF Checkpoints
  <2> QED
    BY <1>0, <1>5, <2>1, LaunchAttempts, LaunchMoves, ClosedAttempt
<1>6. CASE Restart(o) \/ LaunchAsync(o) \/ LaunchSynchronous(o)
  <2>1. CASE End(o) /\ Quiet
    BY <1>0, <2>1, EndStays, ClosedLocal DEF Quiet
  <2>2. CASE /\ Goto(o, "round") \/ Goto(o, "stage")
             /\ Quiet /\ pc[o] \in {"restart", "syncs"}
    <3>1. pc'[o] \in {"round", "stage"}
      BY <1>0, <2>2, GotoStays DEF Places, Rounds
    <3> QED
      BY <1>0, <2>2, <3>1, ClosedLocal DEF Quiet, Working, Rounds
  <2> QED
    BY <1>5, <1>6, <2>1, <2>2 DEF Restart, LaunchAsync, LaunchSynchronous, Working, Synced, Rounds
<1>7. ASSUME NEW k \in Checkpoints, NEW next \in Working, k.outcome = chk[o].outcome, lease' = lease,
             Saved(o, k, next) \/ NotSaved(o, k), pc[o] \in Working \ {"open"}
      PROVE  Closed(o)'
  <2>1. next \in Places
    BY DEF Working, Places, Opening
  <2> QED
    BY <1>0, <1>7, <2>1, SaveIsAttempt, ClosedAttempt
<1>8. CASE PrepareDelivery(o)
  <2>1. [chk[o] EXCEPT !.delivery = In(chk[o], Ready)].outcome = chk[o].outcome
    BY <1>0 DEF Checkpoints
  <2>2. chk[o].delivery = {} /\ pc[o] \in Working \ {"open"}
    BY <1>8 DEF PrepareDelivery, DeliveryPossible, Working, Rounds
  <2>3. {"waitOne", "persist"} \subseteq Working
    BY DEF Working, Rounds
  <2> QED
    BY <1>0, <1>7, <1>8, <2>1, <2>2, <2>3, DeliverMoves DEF PrepareDelivery, Save
<1>9. CASE BeginResponse(o)
  <2>1. [chk[o] EXCEPT !.transcript = resp[o], !.inFlight = TRUE].outcome = chk[o].outcome
    BY <1>0 DEF Checkpoints
  <2> QED
    BY <1>0, <1>7, <1>9, <2>1, BeginMoves DEF BeginResponse, Save, Working, Rounds
<1>10. ASSUME NEW c \in Calls, Register(o, c) PROVE Closed(o)'
  <2>1. [chk[o] EXCEPT !.calls[c] = "queued"].outcome = chk[o].outcome
    BY <1>0 DEF Checkpoints
  <2>2. {"launch", "streamed", "stream"} \subseteq Working \ {"open"}
    BY DEF Working, Rounds
  <2> QED
    BY <1>0, <1>7, <1>10, <2>1, <2>2, RegisterMoves DEF Register, Save
<1>11. CASE ResponseDone(o)
  <2>1. Responded(chk[o], resp[o]).outcome = chk[o].outcome
    BY <1>0 DEF Checkpoints, Responded
  <2> QED
    BY <1>0, <1>7, <1>11, <2>1, RespondMoves DEF ResponseDone, Save, Working, Rounds
<1>12. CASE StageResult(o)
  <2>1. [chk[o] EXCEPT !.summaries = @ + 1].outcome = chk[o].outcome
    BY <1>0 DEF Checkpoints
  <2> QED
    BY <1>0, <1>7, <1>12, <2>1, StageMoves DEF StageResult, Save, Working, Rounds
<1>13. CASE TranscriptCommitted(o)
  <2>1. [chk[o] EXCEPT !.transcript = 0].outcome = chk[o].outcome
    BY <1>0 DEF Checkpoints
  <2> QED
    BY <1>0, <1>7, <1>13, <2>1, CommitMoves DEF TranscriptCommitted, Save, Working, Rounds
<1>14. CASE CheckComplete(o)
  <2>1. CASE Save(o, [chk[o] EXCEPT !.outcome = TRUE], "finish")
    <3> DEFINE k == [chk[o] EXCEPT !.outcome = TRUE]
    <3>1. k \in Checkpoints /\ k.outcome
      BY <1>0, FinishMoves DEF Checkpoints
    <3>2. Attempt(o, k, "finish")
      BY <1>0, <2>1, <3>1, SaveIsAttempt DEF Save, Places, Rounds
    <3> HIDE DEF k
    <3>3. pc'[o] \in {"ended", "cancel"} \/ (pc'[o] = "finish" /\ journal' = k)
      BY <3>2 DEF Attempt
    <3> QED
      BY <3>1, <3>3 DEF Closed, Working, Rounds
  <2>2. CASE Goto(o, "round") /\ UNCHANGED <<journal, lease>>
    <3>1. pc'[o] = "round"
      BY <1>0, <2>2, GotoStays DEF Places, Rounds
    <3> QED
      BY <1>0, <1>14, <2>2, <3>1, ClosedLocal DEF CheckComplete, Working, Rounds
  <2> QED
    BY <1>14, <2>1, <2>2 DEF CheckComplete
<1>15. ASSUME NEW c \in Calls, Settle(o, c) PROVE Closed(o)'
  <2> DEFINE k == Settled(chk[o], c, jobs[o][c])
  <2>1. k \in Checkpoints /\ k.outcome = chk[o].outcome
    BY <1>0, <1>15, SettleMoves DEF Settle, Settled, Checkpoints
  <2>2. PICK next \in {"again", "stream", "streamed", "round"} : Saved(o, k, next) \/ NotSaved(o, k)
    BY <1>15 DEF Settle
  <2>3. lease' = lease /\ pc[o] \in Working \ {"open"} /\ next \in Working
    BY <1>15 DEF Settle, Working, Rounds
  <2> HIDE DEF k
  <2> QED
    BY <1>7, <2>1, <2>2, <2>3
<1>16. CASE Cancel(o)
  <2>1. Attempt(o, Joined(o), "errors")
    BY <1>0, <1>16, JoinMoves, SaveIsAttempt DEF Cancel, Joined, Places, Ending
  <2>2. pc'[o] \in {"ended", "errors"}
    BY <1>16, <2>1 DEF Attempt, Cancel, Rounds
  <2> QED
    BY <2>2 DEF Closed, Working, Rounds
<1>17. CASE Release(o)
  <2>1. pc'[o] \in {"done", "ended", "cancel"}
    BY <1>0, <1>17, EndStays, GotoStays, PlacesNamed DEF Release
  <2> QED
    BY <1>17, <2>1 DEF Release, Closed, Working, Rounds
<1>18. CASE PersistTerminalErrors(o) \/ Submit(o) \/ Poison(o) \/ Stall(o) \/ EmitMessage(o)
            \/ Fail(o) \/ Interrupt(o) \/ Crash(o)
  <2>1. UNCHANGED <<journal, lease>>
    BY <1>18 DEF PersistTerminalErrors, Submit, Poison, Stall, EmitMessage, Fail, Interrupt, Crash, Quiet
  <2>2. \/ End(o) \/ Goto(o, "cancel")
        \/ /\ pc[o] \in {"persist", "submit", "stream", "emit"}
           /\ \E next \in {"submit", "begin", "commit"} : Goto(o, next)
    BY <1>18 DEF PersistTerminalErrors, Submit, Poison, Stall, EmitMessage, Fail, Interrupt, Crash
  <2>3. \/ pc'[o] \in {"ended", "cancel"}
        \/ pc[o] \in {"persist", "submit", "stream", "emit"} /\ pc'[o] \in {"submit", "begin", "commit"}
    BY <1>0, <2>2, EndStays, GotoStays DEF Places, Rounds, Ending
  <2> QED
    BY <1>0, <2>1, <2>3, ClosedLocal DEF Working, Rounds
<1> QED
  BY <1>1, <1>2, <1>3, <1>4, <1>6, <1>8, <1>9, <1>10, <1>11, <1>12, <1>13, <1>14, <1>15, <1>16,
     <1>17, <1>18 DEF Step

LEMMA OutcomeStep ==
    ASSUME TypeInv, SyncInv, OutcomeInv, [Next]_vars PROVE OutcomeInv'
<1>0. TypeOK
  BY DEF TypeInv
<1>1. ASSUME NEW p \in Owners, pc'[p] = pc[p], chk'[p] = chk[p],
             Holds(p)' => Holds(p) /\ journal' = journal
      PROVE  Closed(p)'
  <2>1. Closed(p) /\ (journal.outcome => journal'.outcome)
    BY OutcomeStays DEF OutcomeInv
  <2> QED
    BY <1>1, <2>1 DEF Closed
<1>2. CASE LeaseLapses \/ (\E o \in Owners : Aside(o)) \/ UNCHANGED vars
  <2>1. /\ journal' = journal /\ pc' = pc /\ chk' = chk
        /\ lease' = lease \/ lease' = [lease EXCEPT !.live = FALSE]
    BY <1>2, AsideStays DEF LeaseLapses, vars
  <2>2. \A p \in Owners : Holds(p)' => Holds(p)
    BY <1>0, <2>1 DEF Holds, TypeOK
  <2> QED
    BY <1>1, <2>1, <2>2 DEF OutcomeInv
<1>3. ASSUME NEW o \in Owners, Acquire(o) PROVE OutcomeInv'
  <2>1. OthersStay(o) /\ pc'[o] = "load"
    BY <1>0, <1>3, GotoStays, PlacesNamed DEF Acquire
  <2>2. \A p \in Owners : Holds(p)' => p = o
    BY <1>3 DEF Acquire, Holds
  <2>3. Closed(o)'
    BY <2>1 DEF Closed, Working, Rounds
  <2> QED
    BY <1>1, <2>1, <2>2, <2>3 DEF OutcomeInv, OthersStay
<1>4. ASSUME NEW o \in Owners, Step(o) \/ Interrupt(o) \/ Crash(o) PROVE OutcomeInv'
  <2>1. OthersStay(o)
    BY <1>0, <1>4, StepKinds, KindsTyped
  <2>2. ASSUME NEW p \in Owners \ {o}, Holds(p)' PROVE Holds(p) /\ journal' = journal
    BY <1>0, <1>4, <2>2, HolderWrites
  <2>3. Closed(o)'
    BY <1>4, ClosedStep DEF OutcomeInv
  <2> QED
    BY <1>1, <2>1, <2>2, <2>3 DEF OutcomeInv, OthersStay
<1> QED
  BY <1>2, <1>3, <1>4, NextKinds

-----------------------------------------------------------------------------
(* Responses and their messages *)

Streaming == {"stream", "streamed", "launch"}
Uncertain == Streaming \cup {"syncs", "stage", "emit"}
Inside == {"restart", "return", "cancel", "errors"} \cup Rounds

(* No other attempt has an exchange under way. *)
Alone(o) == \A p \in Owners \ {o} : pc[p] \notin Uncertain

(* What an owner at pc knows of the checkpoint k it has just read or written. *)
Exchanging(k, at, msgs, streamed) ==
    /\ k.transcript # 0 /\ k.transcript \notin msgs
    /\ k.inFlight <=> at \in Streaming
    /\ at = "emit" => k.summaries = k.completed
    /\ at \in Streaming => \A c \in streamed : k.calls[c] # "none"

(* A response whose message is not in the transcript belongs to one owner; no *)
(* other owner gets past the opening of the conversation, so that the journal *)
(* says what its owner knows even after the lease was lost.                   *)
ExchangeInv ==
    \A o \in Owners : pc[o] \in Uncertain =>
        /\ journal.transcript = chk[o].transcript
        /\ Exchanging(journal, pc[o], messages, emitted)
        /\ Alone(o)
        /\ \A p \in Owners \ {o} : Holds(p) => pc[p] \notin Inside

(* A message is committed once it is in the transcript. *)
CommitInv == \A o \in Owners : pc[o] = "commit" => chk[o].transcript \in messages

(* A request names a response that no other request, message or journal names. *)
NumberInv ==
    /\ messages \subseteq 1..requests /\ journal.transcript <= requests
    /\ \A o \in Owners :
        /\ resp[o] <= requests
        /\ pc[o] = "begin" => /\ resp[o] # 0 /\ resp[o] \notin messages
                              /\ resp[o] # journal.transcript
        /\ pc[o] = "cancel" /\ Holds(o) => chk[o].transcript \in {0, journal.transcript, resp[o]}
    /\ \A o, p \in Owners : resp[o] = resp[p] /\ resp[o] # 0 => o = p

Owed(k, msgs) == k.transcript # 0 /\ ~k.inFlight /\ k.transcript \notin msgs

(* The books of a checkpoint: every completed response has its message, but   *)
(* for one that is owed, and its summary; nothing is pending with an outcome; *)
(* every call that was streamed is known, unless a stream is uncertain.       *)
Booked(k, msgs, streamed) ==
    /\ k.completed = Cardinality(msgs) + (IF Owed(k, msgs) THEN 1 ELSE 0)
    /\ ~Owed(k, msgs) => k.summaries = k.completed
    /\ k.outcome => CanComplete(k)
    /\ \A c \in streamed : k.calls[c] = "none" => k.inFlight

BookInv ==
    /\ Booked(journal, messages, emitted)
    /\ \A o \in Owners : Holds(o) /\ pc[o] = "cancel" => Booked(chk[o], messages, emitted)

Books == ExchangeInv /\ CommitInv /\ NumberInv /\ BookInv

LEMMA Counts ==
    ASSUME TypeOK
    PROVE  IsFiniteSet(messages) /\ Cardinality(messages) \in Nat
<1>1. IsFiniteSet(1..MaxRequests)
  BY NativeAsyncAssumption, FS_Interval
<1>2. IsFiniteSet(messages)
  BY <1>1, FS_Subset DEF TypeOK
<1> QED
  BY <1>2, FS_CardinalityType

(* A step after which o has no exchange under way. *)
LEMMA OutsideStep ==
    ASSUME TypeOK, Books, NEW o \in Owners, OthersStay(o), resp' = resp, requests' = requests,
           \A p \in Owners : Holds(p)' => Holds(p),
           journal' # journal => /\ Holds(o) /\ Alone(o)
                                 /\ journal'.transcript \in {0, journal.transcript, resp[o]},
           pc'[o] \notin Uncertain \cup {"begin"},
           pc'[o] = "commit" => chk'[o].transcript \in messages',
           Holds(o) /\ pc'[o] \in Inside => Alone(o),
           messages \subseteq messages', messages' \subseteq messages \cup ({journal.transcript} \ {0}),
           UNCHANGED <<messages, emitted>> \/ pc[o] \in Uncertain,
           Booked(journal', messages', emitted'),
           Holds(o)' /\ pc'[o] = "cancel" =>
               Booked(chk'[o], messages', emitted') /\ chk'[o].transcript \in {0, journal'.transcript, resp[o]}
    PROVE  Books'
<1>0. /\ journal.transcript \in Nat /\ requests \in Nat
      /\ \A p \in Owners : resp[p] \in Nat /\ chk[p].transcript \in Nat
  BY DEF TypeOK, Checkpoints
<1>1. ExchangeInv'
  <2> SUFFICES ASSUME NEW p \in Owners, pc'[p] \in Uncertain
               PROVE  /\ journal'.transcript = chk'[p].transcript
                      /\ Exchanging(journal', pc'[p], messages', emitted')
                      /\ Alone(p)'
                      /\ \A q \in Owners \ {p} : Holds(q)' => pc'[q] \notin Inside
    BY DEF ExchangeInv
  <2>1. p # o /\ pc[p] \in Uncertain /\ pc'[p] = pc[p] /\ chk'[p] = chk[p]
    BY DEF OthersStay
  <2>2. journal' = journal /\ UNCHANGED <<messages, emitted>>
    BY <2>1 DEF Alone, Books, ExchangeInv
  <2>3. Exchanging(journal', pc'[p], messages', emitted') /\ journal'.transcript = chk'[p].transcript
    BY <2>1, <2>2 DEF Exchanging, Books, ExchangeInv
  <2>4. Alone(p)'
    BY <2>1 DEF Alone, OthersStay, Books, ExchangeInv
  <2>5. ASSUME NEW q \in Owners \ {p}, Holds(q)' PROVE pc'[q] \notin Inside
    <3>1. CASE q = o
      BY <2>1, <2>5, <3>1 DEF Alone
    <3>2. CASE q # o
      BY <2>1, <2>5, <3>2 DEF OthersStay, Books, ExchangeInv
    <3> QED
      BY <3>1, <3>2
  <2> QED
    BY <2>3, <2>4, <2>5
<1>2. CommitInv'
  BY DEF Books, CommitInv, OthersStay
<1>3. NumberInv'
  <2>1. messages' \subseteq 1..requests /\ journal'.transcript <= requests
    BY <1>0 DEF Books, NumberInv
  <2>2. ASSUME NEW p \in Owners, pc'[p] = "begin"
        PROVE  resp[p] # 0 /\ resp[p] \notin messages' /\ resp[p] # journal'.transcript
    <3>1. p # o /\ pc[p] = "begin"
      BY <2>2 DEF OthersStay
    <3>2. resp[p] # 0 /\ resp[p] \notin messages /\ resp[p] # journal.transcript
      BY <3>1 DEF Books, NumberInv
    <3>3. resp[p] # resp[o]
      BY <3>1, <3>2 DEF Books, NumberInv
    <3> QED
      BY <3>2, <3>3
  <2>3. ASSUME NEW p \in Owners, pc'[p] = "cancel", Holds(p)'
        PROVE  chk'[p].transcript \in {0, journal'.transcript, resp[p]}
    <3>1. CASE p # o
      <4>1. Holds(p) /\ journal' = journal /\ pc[p] = "cancel" /\ chk'[p] = chk[p]
        BY <2>3, <3>1, Apart DEF OthersStay
      <4> QED
        BY <4>1 DEF Books, NumberInv
    <3> QED
      BY <2>3, <3>1
  <2> QED
    BY <2>1, <2>2, <2>3 DEF Books, NumberInv
<1>4. BookInv'
  <2> SUFFICES ASSUME NEW p \in Owners, Holds(p)', pc'[p] = "cancel" PROVE Booked(chk'[p], messages', emitted')
    BY DEF BookInv
  <2>1. CASE p # o
    <3>1. Holds(p) /\ pc[p] = "cancel" /\ chk'[p] = chk[p]
      BY <2>1 DEF OthersStay
    <3>2. UNCHANGED <<messages, emitted>>
      BY <2>1, <3>1 DEF Books, ExchangeInv, Inside
    <3> QED
      BY <3>1, <3>2 DEF Books, BookInv
  <2> QED
    BY <2>1
<1> QED
  BY <1>1, <1>2, <1>3, <1>4 DEF Books

(* A step without a write. *)
LEMMA LocalOutside ==
    ASSUME TypeOK, SyncInv, Books, NEW o \in Owners, OthersStay(o),
           UNCHANGED <<journal, resp, requests, messages, emitted>>,
           \A p \in Owners : Holds(p)' => Holds(p),
           pc'[o] \notin Uncertain \cup {"begin", "commit"},
           Holds(o) /\ pc'[o] \in Inside => pc[o] \in Inside \/ journal.transcript = 0,
           pc'[o] = "cancel" => pc[o] \in Synced /\ chk'[o] = chk[o]
    PROVE  Books'
<1>2. Holds(o) /\ pc'[o] \in Inside => Alone(o)
  BY DEF Alone, Books, ExchangeInv, Exchanging
<1>3. Booked(journal', messages', emitted')
  BY DEF Books, BookInv
<1>4. ASSUME Holds(o)', pc'[o] = "cancel" PROVE chk'[o] = journal'
  BY <1>4 DEF SyncInv
<1>5. Holds(o)' /\ pc'[o] = "cancel" =>
          Booked(chk'[o], messages', emitted') /\ chk'[o].transcript \in {0, journal'.transcript, resp[o]}
  <2> SUFFICES ASSUME Holds(o)', pc'[o] = "cancel"
               PROVE  Booked(chk'[o], messages', emitted') /\ chk'[o].transcript \in {0, journal'.transcript, resp[o]}
    OBVIOUS
  <2> QED
    BY <1>3, <1>4
<1> QED
  BY <1>2, <1>3, <1>5, OutsideStep

(* A write whose reply was lost, or that was refused. *)
LEMMA LostWrite ==
    ASSUME TypeOK, Books, NEW o \in Owners, NEW k \in Checkpoints, OthersStay(o), lease' = lease,
           UNCHANGED <<resp, requests, messages>>, emitted' = emitted \/ pc[o] \in Uncertain,
           journal' = journal \/ (Holds(o) /\ journal' = k),
           pc'[o] = "ended" \/ (pc'[o] = "cancel" /\ chk'[o] = k),
           Booked(journal', messages', emitted'), Holds(o) => Booked(chk'[o], messages', emitted') \/ pc'[o] = "ended",
           Holds(o) => Alone(o) /\ k.transcript \in {0, journal.transcript, resp[o]}
    PROVE  Books'
<1>1. \A p \in Owners : Holds(p)' <=> Holds(p)
  BY DEF Holds
<1>2. Holds(o)' /\ pc'[o] = "cancel" =>
          Booked(chk'[o], messages', emitted') /\ chk'[o].transcript \in {0, journal'.transcript, resp[o]}
  <2> SUFFICES ASSUME Holds(o), pc'[o] = "cancel"
               PROVE  Booked(chk'[o], messages', emitted') /\ chk'[o].transcript \in {0, journal'.transcript, resp[o]}
    BY <1>1
  <2> QED
    OBVIOUS
<1>3. pc'[o] \notin Uncertain \cup {"begin", "commit"}
  BY DEF Uncertain, Streaming
<1> QED
  BY <1>1, <1>2, <1>3, OutsideStep

(* What a write must keep of the books. *)
Fits(o, k, streamed) ==
    Alone(o) /\ Booked(k, messages, streamed) /\ k.transcript \in {0, journal.transcript, resp[o]}

(* A write after which o has no exchange under way. *)
LEMMA WriteOutside ==
    ASSUME TypeOK, Books, NEW o \in Owners, NEW k \in Checkpoints, NEW next, Attempt(o, k, next),
           UNCHANGED <<resp, requests, messages, emitted>>,
           next \notin Uncertain \cup {"begin", "commit", "cancel"},
           Holds(o) => Fits(o, k, emitted)
    PROVE  Books'
<1>1. \A p \in Owners : Holds(p)' <=> Holds(p)
  BY DEF Attempt, Holds
<1>2. Booked(journal, messages, emitted)
  BY DEF Books, BookInv
<1>3. CASE Holds(o) /\ journal' = k /\ chk'[o] = k /\ pc'[o] = next
  BY <1>1, <1>2, <1>3, OutsideStep DEF Attempt, Fits
<1>4. CASE /\ journal' = journal \/ (Holds(o) /\ journal' = k)
           /\ \/ pc'[o] = "ended" /\ chk'[o] = DefaultCheckpoint
              \/ pc[o] \in Rounds /\ pc'[o] = "cancel" /\ chk'[o] = k
  BY <1>2, <1>4, LostWrite DEF Attempt, Fits
<1> QED
  BY <1>3, <1>4 DEF Attempt

(* A write with which o's exchange begins or goes on. *)
LEMMA WriteInside ==
    ASSUME TypeOK, Books, NEW o \in Owners, NEW k \in Checkpoints, NEW next \in Uncertain,
           Attempt(o, k, next), UNCHANGED <<resp, requests, messages>>,
           emitted' = emitted \/ pc[o] \in Uncertain,
           Booked(journal, messages, emitted'),
           Holds(o) => Fits(o, k, emitted') /\ Exchanging(k, next, messages, emitted')
    PROVE  Books'
<1>0. /\ journal.transcript \in Nat /\ requests \in Nat
      /\ \A p \in Owners : resp[p] \in Nat /\ chk[p].transcript \in Nat
  BY DEF TypeOK, Checkpoints
<1>1. \A p \in Owners : Holds(p)' <=> Holds(p)
  BY DEF Attempt, Holds
<1>2. CASE /\ journal' = journal \/ (Holds(o) /\ journal' = k)
           /\ \/ pc'[o] = "ended" /\ chk'[o] = DefaultCheckpoint
              \/ pc[o] \in Rounds /\ pc'[o] = "cancel" /\ chk'[o] = k
  BY <1>2, LostWrite DEF Attempt, Fits
<1>3. CASE Holds(o) /\ journal' = k /\ chk'[o] = k /\ pc'[o] = next
  <2>0. OthersStay(o) /\ Alone(o) /\ \A p \in Owners \ {o} : ~Holds(p)
    BY <1>3, Apart DEF Attempt, Fits
  <2>1. ExchangeInv'
    BY <1>1, <1>3, <2>0 DEF ExchangeInv, OthersStay, Alone
  <2>2. CommitInv'
    BY <1>3, <2>0 DEF Books, CommitInv, OthersStay, Uncertain, Streaming
  <2>3. NumberInv'
    <3>1. messages' \subseteq 1..requests /\ journal'.transcript <= requests
      BY <1>0, <1>3 DEF Books, NumberInv, Fits
    <3>2. ASSUME NEW p \in Owners, pc'[p] = "begin"
          PROVE  resp[p] # 0 /\ resp[p] \notin messages' /\ resp[p] # journal'.transcript
      <4>1. p # o /\ pc[p] = "begin"
        BY <1>3, <2>0, <3>2 DEF OthersStay, Uncertain, Streaming
      <4>2. resp[p] # 0 /\ resp[p] \notin messages /\ resp[p] # journal.transcript /\ resp[p] # resp[o]
        BY <4>1 DEF Books, NumberInv
      <4> QED
        BY <1>3, <4>2 DEF Fits
    <3>3. ASSUME NEW p \in Owners, pc'[p] = "cancel", Holds(p)' PROVE FALSE
      BY <1>1, <1>3, <2>0, <3>3 DEF Uncertain, Streaming
    <3> QED
      BY <3>1, <3>2, <3>3 DEF Books, NumberInv
  <2>4. BookInv'
    <3>1. ASSUME NEW p \in Owners, pc'[p] = "cancel", Holds(p)' PROVE FALSE
      BY <1>1, <1>3, <2>0, <3>1 DEF Uncertain, Streaming
    <3> QED
      BY <1>3, <3>1 DEF BookInv, Fits
  <2> QED
    BY <2>1, <2>2, <2>3, <2>4 DEF Books
<1> QED
  BY <1>2, <1>3 DEF Attempt

LEMMA Knows ==
    ASSUME TypeOK, SyncInv, OutcomeInv, Books, NEW o \in Owners, Holds(o), pc[o] \in Synced
    PROVE  /\ chk[o] = journal /\ Booked(chk[o], messages, emitted)
           /\ pc[o] \in Inside \/ journal.transcript = 0 \/ journal.transcript \in messages => Alone(o)
           /\ pc[o] \in Working => ~chk[o].outcome
           /\ pc[o] \in Uncertain => Exchanging(chk[o], pc[o], messages, emitted)
<1>1. chk[o] = journal
  BY DEF SyncInv
<1>2. pc[o] \in Inside \/ journal.transcript = 0 \/ journal.transcript \in messages => Alone(o)
  BY DEF Alone, Books, ExchangeInv, Exchanging
<1> QED
  BY <1>1, <1>2 DEF Books, BookInv, ExchangeInv, OutcomeInv, Closed

(* Calls that move on do not change the books. *)
LEMMA BookedCalls ==
    ASSUME NEW j \in Checkpoints, NEW k \in Checkpoints, NEW msgs, NEW streamed,
           streamed \subseteq Calls, Booked(j, msgs, streamed), ~j.outcome,
           /\ k.completed = j.completed /\ k.summaries = j.summaries /\ k.outcome = j.outcome
           /\ k.transcript = j.transcript /\ k.inFlight = j.inFlight,
           \A c \in Calls : k.calls[c] = "none" => j.calls[c] = "none"
    PROVE  Booked(k, msgs, streamed)
BY DEF Booked, Owed

LEMMA BooksOpening ==
    ASSUME TypeOK, SyncInv, OutcomeInv, Books, NEW o \in Owners,
           Load(o) \/ Reconcile(o) \/ Progress(o) \/ Open(o)
    PROVE  Books'
<1>0. /\ chk[o] \in Checkpoints /\ journal \in Checkpoints /\ emitted \subseteq Calls
      /\ UNCHANGED <<resp, requests, messages, emitted>> /\ lease' = lease
  BY Typed DEF TypeOK, Load, Reconcile, Progress, Open, Quiet, Save, history
<1> USE DEF Places, Opening, Ending
<1>1. ASSUME pc'[o] \in {"ended", "reconcile", "progress", "open"}, OthersStay(o), journal' = journal
      PROVE  Books'
  BY <1>0, <1>1, LocalOutside DEF Uncertain, Streaming, Inside, Rounds, Holds
<1>2. ASSUME End(o), journal' = journal PROVE Books'
  BY <1>1, <1>2, EndStays
<1>3. CASE Load(o)
  <2>1. pc'[o] \in {"ended", "reconcile"} /\ OthersStay(o)
    BY <1>3, EndStays, KindsTyped DEF Load, TypeOK
  <2> QED
    BY <1>1, <1>3, <2>1 DEF Load, Quiet
<1>4. CASE Reconcile(o)
  <2>1. CASE Goto(o, "progress") /\ journal' = journal
    BY <1>1, <2>1, GotoStays
  <2>2. CASE /\ Save(o, [chk[o] EXCEPT !.transcript = 0], "progress")
             /\ chk[o].transcript # 0 /\ chk[o].transcript \in messages
    <3> DEFINE k == [chk[o] EXCEPT !.transcript = 0]
    <3>1. k \in Checkpoints
      BY <1>0, CommitMoves
    <3>2. Attempt(o, k, "progress")
      BY <2>2, <3>1, SaveIsAttempt DEF Save
    <3>3. ASSUME Holds(o) PROVE Fits(o, k, emitted)
      <4>1. chk[o] = journal /\ Booked(chk[o], messages, emitted) /\ Alone(o)
        BY <1>4, <2>2, <3>3, Knows DEF Reconcile, Synced
      <4>2. Booked(k, messages, emitted)
        BY <1>0, <2>2, <4>1 DEF Booked, Owed, CanComplete, Checkpoints
      <4> QED
        BY <1>0, <4>1, <4>2 DEF Fits, Checkpoints
    <3> QED
      BY <1>0, <3>1, <3>2, <3>3, WriteOutside DEF Uncertain, Streaming
  <2> QED
    BY <1>4, <2>1, <2>2 DEF Reconcile
<1>5. CASE Progress(o)
  <2>1. CASE End(o) /\ Quiet
    BY <1>2, <2>1 DEF Quiet
  <2>2. CASE CanComplete(chk[o]) /\ Save(o, [chk[o] EXCEPT !.outcome = TRUE], "return")
    <3> DEFINE k == [chk[o] EXCEPT !.outcome = TRUE]
    <3>1. k \in Checkpoints
      BY <1>0, FinishMoves
    <3>2. Attempt(o, k, "return")
      BY <2>2, <3>1, SaveIsAttempt DEF Save
    <3>3. ASSUME Holds(o) PROVE Fits(o, k, emitted)
      <4>1. chk[o] = journal /\ Booked(chk[o], messages, emitted) /\ Alone(o)
        BY <1>5, <2>2, <3>3, Knows DEF Progress, Synced, CanComplete
      <4>2. Booked(k, messages, emitted)
        BY <1>0, <2>2, <4>1 DEF Booked, Owed, CanComplete, In, Checkpoints
      <4> QED
        BY <1>0, <4>1, <4>2 DEF Fits, Checkpoints
    <3> QED
      BY <1>0, <3>1, <3>2, <3>3, WriteOutside DEF Uncertain, Streaming
  <2>3. CASE Goto(o, IF chk[o].outcome THEN "return" ELSE "open") /\ journal' = journal
    <3>1. CASE ~chk[o].outcome
      BY <1>1, <2>3, <3>1, GotoStays
    <3>2. CASE chk[o].outcome
      <4>1. OthersStay(o) /\ pc'[o] = "return"
        BY <2>3, <3>2, GotoStays
      <4>2. Holds(o) => journal.transcript = 0
        BY <1>5, <3>2, Knows DEF Progress, Synced, Booked, CanComplete
      <4> QED
        BY <1>0, <2>3, <4>1, <4>2, LocalOutside DEF Uncertain, Streaming, Holds
    <3> QED
      BY <3>1, <3>2
  <2> QED
    BY <1>5, <2>1, <2>2, <2>3 DEF Progress
<1>6. CASE Open(o)
  <2>1. CASE End(o) /\ Quiet
    BY <1>2, <2>1 DEF Quiet
  <2>2. CASE Holds(o) /\ Recoverable(journal) /\ Save(o, Recovered(journal), "restart")
    <3> DEFINE k == Recovered(journal)
    <3>1. k \in Checkpoints
      BY <1>0, RecoverTyped
    <3>2. Attempt(o, k, "restart")
      BY <2>2, <3>1, SaveIsAttempt DEF Save
    <3>3. /\ chk[o] = journal /\ Booked(journal, messages, emitted)
          /\ ~journal.outcome /\ Alone(o)
      BY <1>6, <2>2, Knows DEF Open, Synced, Working, Recoverable
    <3>4. /\ k.completed = journal.completed /\ k.summaries = journal.summaries
          /\ k.outcome = journal.outcome /\ k.transcript = journal.transcript
          /\ k.inFlight = journal.inFlight
          /\ \A c \in Calls : k.calls[c] = "none" => journal.calls[c] = "none"
      BY <1>0 DEF Recovered, Checkpoints
    <3> HIDE DEF k
    <3>5. Booked(k, messages, emitted)
      BY <1>0, <3>1, <3>3, <3>4, BookedCalls
    <3> QED
      BY <1>0, <3>1, <3>2, <3>3, <3>4, <3>5, WriteOutside DEF Uncertain, Streaming, Fits
  <2> QED
    BY <1>6, <2>1, <2>2 DEF Open
<1> QED
  BY <1>3, <1>4, <1>5, <1>6

(* Steps that only go on, or give up, with what the attempt knows. *)
LEMMA BooksLocal ==
    ASSUME TypeOK, SyncInv, Books, NEW o \in Owners, OthersStay(o), pc[o] \in Synced \cap Inside,
           UNCHANGED <<journal, resp, requests, messages, emitted>>,
           \A p \in Owners : Holds(p)' => Holds(p),
           pc'[o] \in {"ended", "done", "cancel", "round", "submit"}, pc'[o] = "cancel" => chk'[o] = chk[o]
    PROVE  Books'
BY LocalOutside DEF Uncertain, Streaming

(* Writes that only move calls on. *)
LEMMA BooksCalls ==
    ASSUME TypeOK, SyncInv, OutcomeInv, Books, NEW o \in Owners, NEW k \in Checkpoints, NEW next,
           Attempt(o, k, next), UNCHANGED <<resp, requests, messages, emitted>>,
           pc[o] \in Synced \cap Inside \cap Working,
           /\ k.completed = chk[o].completed /\ k.summaries = chk[o].summaries
           /\ k.outcome = chk[o].outcome /\ k.transcript = chk[o].transcript
           /\ k.inFlight = chk[o].inFlight,
           \A c \in Calls : k.calls[c] = "none" => chk[o].calls[c] = "none",
           \/ pc[o] \notin Uncertain /\ next \notin Uncertain \cup {"begin", "commit", "cancel"}
           \/ /\ pc[o] \in Uncertain /\ next \in Uncertain \ {"emit"}
              /\ pc[o] \in Streaming <=> next \in Streaming
    PROVE  Books'
<1>0. chk[o] \in Checkpoints /\ emitted \subseteq Calls /\ Booked(journal, messages, emitted)
  BY Typed DEF TypeOK, Books, BookInv
<1>1. ASSUME Holds(o) PROVE Fits(o, k, emitted)
  <2>1. chk[o] = journal /\ Booked(chk[o], messages, emitted) /\ Alone(o) /\ ~chk[o].outcome
    BY <1>1, Knows
  <2>2. Booked(k, messages, emitted)
    BY <1>0, <2>1, BookedCalls
  <2> QED
    BY <2>1, <2>2 DEF Fits
<1>2. CASE pc[o] \notin Uncertain /\ next \notin Uncertain \cup {"begin", "commit", "cancel"}
  BY <1>1, <1>2, WriteOutside
<1>3. CASE /\ pc[o] \in Uncertain /\ next \in Uncertain \ {"emit"}
           /\ pc[o] \in Streaming <=> next \in Streaming
  <2>1. ASSUME Holds(o) PROVE Exchanging(k, next, messages, emitted)
    <3>1. Exchanging(chk[o], pc[o], messages, emitted)
      BY <1>3, <2>1, Knows
    <3> QED
      BY <1>0, <1>3, <3>1 DEF Exchanging
  <2> QED
    BY <1>0, <1>1, <1>3, <2>1, WriteInside
<1> QED
  BY <1>2, <1>3

LEMMA BooksLaunch ==
    ASSUME TypeOK, SyncInv, OutcomeInv, Books, NEW o \in Owners, NEW c \in In(chk[o], {"queued"}),
           NEW next \in Synced, Launch(o, c, next),
           \/ pc[o] = "restart" /\ next = "restart"
           \/ pc[o] = "launch" /\ next = "streamed"
           \/ pc[o] = "syncs" /\ next = "syncs"
    PROVE  Books'
<1> DEFINE k == [chk[o] EXCEPT !.calls[c] = "running"]
<1>1. k \in Checkpoints /\ Attempt(o, k, next) /\ chk[o] \in Checkpoints
  BY Typed, LaunchMoves, LaunchAttempts
<1>2. /\ k.completed = chk[o].completed /\ k.summaries = chk[o].summaries
      /\ k.outcome = chk[o].outcome /\ k.transcript = chk[o].transcript
      /\ k.inFlight = chk[o].inFlight
      /\ \A d \in Calls : k.calls[d] = "none" => chk[o].calls[d] = "none"
  BY <1>1 DEF Checkpoints
<1>3. UNCHANGED <<resp, requests, messages, emitted>>
  BY DEF Launch, history
<1>4. pc[o] \in Synced \cap Inside \cap Working
  BY DEF Synced, Inside, Working, Rounds
<1>5. \/ pc[o] \notin Uncertain /\ next \notin Uncertain \cup {"begin", "commit", "cancel"}
      \/ /\ pc[o] \in Uncertain /\ next \in Uncertain \ {"emit"}
         /\ pc[o] \in Streaming <=> next \in Streaming
  BY DEF Uncertain, Streaming
<1> HIDE DEF k
<1> QED
  BY <1>1, <1>2, <1>3, <1>4, <1>5, BooksCalls

LEMMA BooksSettle ==
    ASSUME TypeOK, SyncInv, OutcomeInv, Books, NEW o \in Owners, NEW c \in Calls, Settle(o, c)
    PROVE  Books'
<1> DEFINE k == Settled(chk[o], c, jobs[o][c])
<1>0. chk[o] \in Checkpoints
  BY Typed
<1>1. k \in Checkpoints
  BY <1>0, SettleMoves DEF Settle
<1>2. /\ k.completed = chk[o].completed /\ k.summaries = chk[o].summaries
      /\ k.outcome = chk[o].outcome /\ k.transcript = chk[o].transcript
      /\ k.inFlight = chk[o].inFlight
      /\ \A d \in Calls : k.calls[d] = "none" => chk[o].calls[d] = "none"
  BY <1>0 DEF Checkpoints, Settle, Settled
<1>3. UNCHANGED <<resp, requests, messages, emitted, lease>>
  BY DEF Settle, history
<1>4. PICK next \in {"again", "stream", "streamed", "round"} :
          /\ Saved(o, k, next) \/ NotSaved(o, k)
          /\ next = pc[o] \/ (pc[o] = "waitOne" /\ next = "again")
  BY DEF Settle
<1>5. /\ pc[o] \in Synced \cap Inside \cap Working
      /\ pc[o] \in {"stream", "streamed", "round", "again", "waitOne"}
  BY DEF Settle, Synced, Inside, Working, Rounds
<1>6. \/ pc[o] \notin Uncertain /\ next \notin Uncertain \cup {"begin", "commit", "cancel"}
      \/ /\ pc[o] \in Uncertain /\ next \in Uncertain \ {"emit"}
         /\ pc[o] \in Streaming <=> next \in Streaming
  BY <1>4, <1>5 DEF Uncertain, Streaming
<1> HIDE DEF k
<1>7. Attempt(o, k, next)
  BY <1>1, <1>3, <1>4, SaveIsAttempt DEF Places, Rounds
<1> QED
  BY <1>1, <1>2, <1>3, <1>5, <1>6, <1>7, BooksCalls

LEMMA BooksDeliver ==
    ASSUME TypeOK, SyncInv, OutcomeInv, Books, NEW o \in Owners, PrepareDelivery(o)
    PROVE  Books'
<1> DEFINE k == [chk[o] EXCEPT !.delivery = In(chk[o], Ready)]
<1>1. k \in Checkpoints /\ chk[o] \in Checkpoints
  BY Typed, DeliverMoves DEF PrepareDelivery, DeliveryPossible
<1>2. /\ k.completed = chk[o].completed /\ k.summaries = chk[o].summaries
      /\ k.outcome = chk[o].outcome /\ k.transcript = chk[o].transcript
      /\ k.inFlight = chk[o].inFlight
      /\ \A d \in Calls : k.calls[d] = "none" => chk[o].calls[d] = "none"
  BY <1>1 DEF Checkpoints
<1>3. UNCHANGED <<resp, requests, messages, emitted>>
  BY DEF PrepareDelivery, history
<1>4. PICK next \in {"waitOne", "persist"} : Save(o, k, next)
  BY DEF PrepareDelivery
<1>5. pc[o] \in Synced \cap Inside \cap Working /\ pc[o] \in {"round", "again"}
  BY DEF PrepareDelivery, Synced, Inside, Working, Rounds
<1>6. pc[o] \notin Uncertain /\ next \notin Uncertain \cup {"begin", "commit", "cancel"}
  BY <1>5 DEF Uncertain, Streaming
<1> HIDE DEF k
<1>7. Attempt(o, k, next)
  BY <1>1, <1>4, SaveIsAttempt DEF Places, Rounds, Save
<1> QED
  BY <1>1, <1>2, <1>3, <1>5, <1>6, <1>7, BooksCalls

LEMMA BooksBegin ==
    ASSUME TypeOK, SyncInv, OutcomeInv, Books, NEW o \in Owners, BeginResponse(o)
    PROVE  Books'
<1> DEFINE k == [chk[o] EXCEPT !.transcript = resp[o], !.inFlight = TRUE]
<1>1. k \in Checkpoints /\ chk[o] \in Checkpoints
  BY Typed, BeginMoves
<1>2. Attempt(o, k, "stream") /\ UNCHANGED <<resp, requests, messages, emitted>>
  BY <1>1, SaveIsAttempt DEF BeginResponse, Save, Places, Rounds, history
<1>3. Booked(journal, messages, emitted)
  BY DEF Books, BookInv
<1>4. ASSUME Holds(o) PROVE Fits(o, k, emitted) /\ Exchanging(k, "stream", messages, emitted)
  <2>1. /\ chk[o] = journal /\ Booked(chk[o], messages, emitted) /\ ~chk[o].outcome /\ Alone(o)
        /\ chk[o].transcript = 0 /\ ~chk[o].inFlight
    BY <1>4, Knows DEF BeginResponse, Synced, Inside, Working, Rounds
  <2>2. resp[o] # 0 /\ resp[o] \notin messages
    BY DEF Books, NumberInv, BeginResponse
  <2>3. /\ k.completed = chk[o].completed /\ k.summaries = chk[o].summaries /\ k.calls = chk[o].calls
        /\ k.outcome = chk[o].outcome /\ k.transcript = resp[o] /\ k.inFlight
    BY <1>1 DEF Checkpoints
  <2>4. Booked(k, messages, emitted)
    BY <2>1, <2>3 DEF Booked, Owed
  <2>5. Exchanging(k, "stream", messages, emitted)
    BY <2>1, <2>2, <2>3 DEF Exchanging, Booked, Streaming
  <2> QED
    BY <2>1, <2>3, <2>4, <2>5 DEF Fits
<1> HIDE DEF k
<1> QED
  BY <1>1, <1>2, <1>3, <1>4, WriteInside DEF Uncertain, Streaming

LEMMA BooksRegister ==
    ASSUME TypeOK, SyncInv, OutcomeInv, Books, NEW o \in Owners, NEW c \in Calls, Register(o, c)
    PROVE  Books'
<1> DEFINE k == [chk[o] EXCEPT !.calls[c] = "queued"]
<1>1. k \in Checkpoints /\ chk[o] \in Checkpoints /\ emitted \subseteq Calls
  BY Typed, RegisterMoves DEF Register, TypeOK
<1>2. PICK next \in {"launch", "streamed"} : Save(o, k, next)
  BY DEF Register
<1>3. /\ pc[o] \in {"stream", "streamed"} /\ UNCHANGED <<resp, requests, messages>>
      /\ emitted' = emitted \cup {c}
  BY DEF Register
<1>4. pc[o] \in Uncertain \cap Streaming /\ next \in Uncertain \cap Streaming /\ next # "emit"
  BY <1>3 DEF Uncertain, Streaming
<1>5. Booked(journal, messages, emitted')
  <2>1. journal.inFlight /\ Booked(journal, messages, emitted)
    BY <1>4 DEF Books, BookInv, ExchangeInv, Exchanging
  <2> QED
    BY <1>3, <2>1 DEF Booked
<1>6. /\ k.completed = chk[o].completed /\ k.summaries = chk[o].summaries
      /\ k.outcome = chk[o].outcome /\ k.transcript = chk[o].transcript
      /\ k.inFlight = chk[o].inFlight
      /\ k.calls[c] = "queued" /\ \A d \in Calls \ {c} : k.calls[d] = chk[o].calls[d]
  BY <1>1 DEF Checkpoints
<1> HIDE DEF k
<1>7. Attempt(o, k, next)
  BY <1>1, <1>2, SaveIsAttempt DEF Places, Rounds, Save
<1>8. ASSUME Holds(o) PROVE Fits(o, k, emitted') /\ Exchanging(k, next, messages, emitted')
  <2>1. /\ chk[o] = journal /\ Booked(chk[o], messages, emitted) /\ ~chk[o].outcome /\ Alone(o)
        /\ Exchanging(chk[o], pc[o], messages, emitted)
    BY <1>3, <1>4, <1>8, Knows DEF Synced, Inside, Working, Rounds
  <2>2. chk[o].inFlight /\ chk[o].transcript # 0 /\ chk[o].transcript \notin messages
        /\ \A d \in emitted : chk[o].calls[d] # "none"
    BY <1>4, <2>1 DEF Exchanging
  <2>3. Exchanging(k, next, messages, emitted')
    BY <1>1, <1>3, <1>4, <1>6, <2>2 DEF Exchanging
  <2>4. Booked(k, messages, emitted')
    BY <1>6, <2>1, <2>2 DEF Booked, Owed
  <2> QED
    BY <1>6, <2>1, <2>3, <2>4 DEF Fits
<1> QED
  BY <1>1, <1>3, <1>4, <1>5, <1>7, <1>8, WriteInside

LEMMA BooksRespond ==
    ASSUME TypeOK, SyncInv, OutcomeInv, Books, NEW o \in Owners, ResponseDone(o)
    PROVE  Books'
<1> DEFINE k == Responded(chk[o], resp[o])
<1>1. k \in Checkpoints /\ chk[o] \in Checkpoints /\ emitted \subseteq Calls
  BY Typed, RespondMoves DEF TypeOK
<1>2. Attempt(o, k, "syncs") /\ UNCHANGED <<resp, requests, messages, emitted>>
  BY <1>1, SaveIsAttempt DEF ResponseDone, Save, Places, Rounds, history
<1>3. Booked(journal, messages, emitted)
  BY DEF Books, BookInv
<1>4. ASSUME Holds(o) PROVE Fits(o, k, emitted) /\ Exchanging(k, "syncs", messages, emitted)
  <2>0. pc[o] \in Streaming \cap Uncertain \cap Synced \cap Inside \cap Working
    BY DEF ResponseDone, Streaming, Uncertain, Synced, Inside, Working, Rounds
  <2>1. /\ chk[o] = journal /\ Booked(chk[o], messages, emitted) /\ ~chk[o].outcome /\ Alone(o)
        /\ Exchanging(chk[o], pc[o], messages, emitted)
    BY <1>4, <2>0, Knows
  <2>2. /\ chk[o].inFlight /\ chk[o].transcript # 0 /\ chk[o].transcript \notin messages
        /\ \A d \in emitted : chk[o].calls[d] # "none"
    BY <2>0, <2>1 DEF Exchanging
  <2>3. /\ k.completed = chk[o].completed + 1 /\ k.summaries = chk[o].summaries
        /\ k.outcome = chk[o].outcome /\ k.transcript = chk[o].transcript /\ ~k.inFlight
        /\ \A d \in Calls : k.calls[d] = "none" => chk[o].calls[d] = "none"
    BY <1>1 DEF Checkpoints, Responded
  <2> HIDE DEF k
  <2>4. Owed(k, messages) /\ ~Owed(chk[o], messages)
    BY <2>2, <2>3 DEF Owed
  <2>5. Booked(k, messages, emitted)
    <3>1. chk[o].completed = Cardinality(messages) + 0
      BY <2>1, <2>4 DEF Booked
    <3>2. Cardinality(messages) \in Nat
      BY Counts
    <3> QED
      BY <1>1, <2>1, <2>2, <2>3, <2>4, <3>1, <3>2 DEF Booked
  <2>6. Exchanging(k, "syncs", messages, emitted)
    BY <2>2, <2>3 DEF Exchanging, Streaming
  <2> QED
    BY <2>1, <2>3, <2>5, <2>6 DEF Fits
<1> HIDE DEF k
<1> QED
  BY <1>1, <1>2, <1>3, <1>4, WriteInside DEF Uncertain, Streaming

LEMMA BooksStage ==
    ASSUME TypeOK, SyncInv, OutcomeInv, Books, NEW o \in Owners, StageResult(o)
    PROVE  Books'
<1> DEFINE k == [chk[o] EXCEPT !.summaries = @ + 1]
<1>1. k \in Checkpoints /\ chk[o] \in Checkpoints
  BY Typed, StageMoves
<1>2. Attempt(o, k, "emit") /\ UNCHANGED <<resp, requests, messages, emitted>>
  BY <1>1, SaveIsAttempt DEF StageResult, Save, Places, Rounds, history
<1>3. Booked(journal, messages, emitted)
  BY DEF Books, BookInv
<1>4. ASSUME Holds(o) PROVE Fits(o, k, emitted) /\ Exchanging(k, "emit", messages, emitted)
  <2>0. pc[o] \in Uncertain \cap Synced \cap Inside \cap Working
    BY DEF StageResult, Uncertain, Synced, Inside, Working, Rounds
  <2>1. /\ chk[o] = journal /\ Booked(chk[o], messages, emitted) /\ ~chk[o].outcome /\ Alone(o)
        /\ Exchanging(chk[o], pc[o], messages, emitted)
    BY <1>4, <2>0, Knows
  <2>2. /\ ~chk[o].inFlight /\ chk[o].transcript # 0 /\ chk[o].transcript \notin messages
        /\ chk[o].summaries + 1 = chk[o].completed
    BY <2>1 DEF Exchanging, StageResult
  <2>3. /\ k.completed = chk[o].completed /\ k.summaries = chk[o].summaries + 1
        /\ k.outcome = chk[o].outcome /\ k.transcript = chk[o].transcript
        /\ k.inFlight = chk[o].inFlight /\ k.calls = chk[o].calls
    BY <1>1 DEF Checkpoints
  <2> HIDE DEF k
  <2>4. Booked(k, messages, emitted)
    BY <2>1, <2>2, <2>3 DEF Booked, Owed
  <2>5. Exchanging(k, "emit", messages, emitted)
    BY <2>2, <2>3 DEF Exchanging, Streaming
  <2> QED
    BY <2>1, <2>3, <2>4, <2>5 DEF Fits
<1> HIDE DEF k
<1> QED
  BY <1>1, <1>2, <1>3, <1>4, WriteInside DEF Uncertain, Streaming

LEMMA BooksEmit ==
    ASSUME TypeOK, SyncInv, Books, NEW o \in Owners, EmitMessage(o)
    PROVE  Books'
<1>0. /\ pc[o] = "emit" /\ pc[o] \in Uncertain /\ pc[o] \in Synced
      /\ messages' = messages \cup {chk[o].transcript}
      /\ UNCHANGED <<journal, lease, resp, requests, emitted>>
  BY DEF EmitMessage, Uncertain, Synced, Rounds, history
<1>1. OthersStay(o) /\ pc'[o] \in {"commit", "cancel"} /\ chk'[o] = chk[o]
  BY GotoStays DEF EmitMessage, Places, Rounds, Ending
<1>2. /\ chk[o].transcript = journal.transcript /\ Alone(o)
      /\ Exchanging(journal, "emit", messages, emitted)
  BY <1>0 DEF Books, ExchangeInv
<1>3. /\ journal.transcript # 0 /\ journal.transcript \notin messages /\ ~journal.inFlight
      /\ journal.summaries = journal.completed
  BY <1>2 DEF Exchanging, Streaming
<1>4. Cardinality(messages') = Cardinality(messages) + 1
  <2>1. Cardinality(messages \cup {chk[o].transcript}) = Cardinality(messages) + 1
    BY <1>2, <1>3, Counts, FS_AddElement
  <2> QED
    BY <1>0, <2>1
<1>5. Booked(journal', messages', emitted')
  <2>1. Owed(journal, messages) /\ ~Owed(journal', messages')
    BY <1>0, <1>2, <1>3 DEF Owed
  <2>2. journal.completed = Cardinality(messages) + 1
    BY <2>1 DEF Books, BookInv, Booked
  <2>3. journal'.completed = Cardinality(messages') + 0
    BY <1>0, <1>4, <2>2, Counts
  <2> QED
    BY <1>0, <1>3, <2>1, <2>3 DEF Books, BookInv, Booked
<1>6. \A p \in Owners : Holds(p)' <=> Holds(p)
  BY <1>0 DEF Holds
<1>7. Holds(o) => chk[o] = journal
  BY <1>0 DEF SyncInv
<1>8. Holds(o)' /\ pc'[o] = "cancel" =>
          Booked(chk'[o], messages', emitted') /\ chk'[o].transcript \in {0, journal'.transcript, resp[o]}
  BY <1>0, <1>1, <1>5, <1>6, <1>7
<1>9. pc'[o] \notin Uncertain \cup {"begin"}
  BY <1>1 DEF Uncertain, Streaming
<1>10. messages \subseteq messages' /\ messages' \subseteq messages \cup ({journal.transcript} \ {0})
  BY <1>0, <1>2, <1>3
<1>11. pc'[o] = "commit" => chk'[o].transcript \in messages'
  BY <1>0, <1>1
<1> QED
  BY <1>0, <1>1, <1>2, <1>5, <1>6, <1>8, <1>9, <1>10, <1>11, OutsideStep

LEMMA BooksCommit ==
    ASSUME TypeOK, SyncInv, OutcomeInv, Books, NEW o \in Owners, TranscriptCommitted(o)
    PROVE  Books'
<1> DEFINE k == [chk[o] EXCEPT !.transcript = 0]
<1>1. k \in Checkpoints /\ chk[o] \in Checkpoints
  BY Typed, CommitMoves
<1>2. Attempt(o, k, "check") /\ UNCHANGED <<resp, requests, messages, emitted>>
  BY <1>1, SaveIsAttempt DEF TranscriptCommitted, Save, Places, Rounds, history
<1>3. ASSUME Holds(o) PROVE Fits(o, k, emitted)
  <2>1. /\ chk[o] = journal /\ Booked(chk[o], messages, emitted) /\ ~chk[o].outcome /\ Alone(o)
        /\ chk[o].transcript \in messages
    BY <1>3, Knows DEF TranscriptCommitted, Synced, Inside, Working, Rounds, Books, CommitInv
  <2>2. /\ k.completed = chk[o].completed /\ k.summaries = chk[o].summaries
        /\ k.outcome = chk[o].outcome /\ k.transcript = 0
        /\ k.inFlight = chk[o].inFlight /\ k.calls = chk[o].calls
    BY <1>1 DEF Checkpoints
  <2>3. Booked(k, messages, emitted)
    BY <2>1, <2>2 DEF Booked, Owed
  <2> QED
    BY <2>1, <2>2, <2>3 DEF Fits
<1> HIDE DEF k
<1> QED
  BY <1>1, <1>2, <1>3, WriteOutside DEF Uncertain, Streaming

LEMMA BooksCheck ==
    ASSUME TypeOK, SyncInv, OutcomeInv, Books, NEW o \in Owners, CheckComplete(o)
    PROVE  Books'
<1>0. UNCHANGED <<resp, requests, messages, emitted, lease>>
  BY DEF CheckComplete, Save, history
<1>1. CASE CanComplete(chk[o]) /\ Save(o, [chk[o] EXCEPT !.outcome = TRUE], "finish")
  <2> DEFINE k == [chk[o] EXCEPT !.outcome = TRUE]
  <2>1. k \in Checkpoints /\ chk[o] \in Checkpoints
    BY Typed, FinishMoves
  <2>2. Attempt(o, k, "finish")
    BY <1>1, <2>1, SaveIsAttempt DEF Save, Places, Rounds
  <2>3. ASSUME Holds(o) PROVE Fits(o, k, emitted)
    <3>1. chk[o] = journal /\ Booked(chk[o], messages, emitted) /\ Alone(o)
      BY <2>3, Knows DEF CheckComplete, Synced, Inside, Rounds
    <3>2. Booked(k, messages, emitted) /\ k.transcript = chk[o].transcript
      BY <1>1, <2>1, <3>1 DEF Booked, Owed, CanComplete, In, Checkpoints
    <3> QED
      BY <3>1, <3>2 DEF Fits
  <2> HIDE DEF k
  <2> QED
    BY <1>0, <2>1, <2>2, <2>3, WriteOutside DEF Uncertain, Streaming
<1>2. CASE Goto(o, "round") /\ journal' = journal
  <2>1. OthersStay(o) /\ pc'[o] = "round"
    BY <1>2, GotoStays DEF Places, Rounds
  <2> QED
    BY <1>0, <1>2, <2>1, BooksLocal DEF CheckComplete, Synced, Inside, Rounds, Holds
<1> QED
  BY <1>1, <1>2 DEF CheckComplete

LEMMA BooksSubmit ==
    ASSUME TypeOK, SyncInv, Books, NEW o \in Owners, Submit(o)
    PROVE  Books'
<1>0. /\ pc[o] = "submit" /\ requests \in Nat /\ requests' = requests + 1
      /\ resp \in [Owners -> 0..MaxRequests] /\ resp' = [resp EXCEPT ![o] = requests + 1]
      /\ journal.transcript \in Nat /\ UNCHANGED <<journal, lease, messages, emitted>>
  BY DEF Submit, TypeOK, Checkpoints
<1>1. OthersStay(o) /\ pc'[o] \in {"begin", "submit", "cancel"} /\ chk'[o] = chk[o]
  BY GotoStays DEF Submit, Places, Rounds, Ending
<1>2. \A p \in Owners : Holds(p)' <=> Holds(p)
  BY <1>0 DEF Holds
<1>3. pc[o] \notin Uncertain /\ pc[o] \in Inside /\ pc[o] \in Synced /\ pc'[o] \notin Uncertain
  BY <1>0, <1>1 DEF Uncertain, Streaming, Inside, Synced, Rounds
<1>4. Holds(o) => chk[o] = journal
  BY <1>3 DEF SyncInv
<1>5. ExchangeInv'
  BY <1>0, <1>1, <1>2, <1>3 DEF Books, ExchangeInv, OthersStay, Alone
<1>6. CommitInv'
  BY <1>0, <1>1 DEF Books, CommitInv, OthersStay
<1>7. NumberInv'
  <2>1. messages' \subseteq 1..requests' /\ journal'.transcript <= requests'
    BY <1>0 DEF Books, NumberInv
  <2>2. resp'[o] = requests + 1 /\ \A p \in Owners \ {o} : resp'[p] = resp[p] /\ resp[p] <= requests
    BY <1>0 DEF Books, NumberInv
  <2>3. requests + 1 # 0 /\ requests + 1 \notin messages /\ requests + 1 # journal.transcript
    BY <1>0 DEF Books, NumberInv
  <2>4. \A p \in Owners : resp'[p] <= requests'
    BY <1>0, <2>2
  <2>5. \A p, q \in Owners : resp'[p] = resp'[q] /\ resp'[p] # 0 => p = q
    BY <1>0, <2>2 DEF Books, NumberInv
  <2>6. ASSUME NEW p \in Owners, pc'[p] = "begin"
        PROVE  resp'[p] # 0 /\ resp'[p] \notin messages' /\ resp'[p] # journal'.transcript
    BY <1>0, <1>1, <2>2, <2>3, <2>6 DEF Books, NumberInv, OthersStay
  <2>7. ASSUME NEW p \in Owners, pc'[p] = "cancel", Holds(p)'
        PROVE  chk'[p].transcript \in {0, journal'.transcript, resp'[p]}
    BY <1>0, <1>1, <1>2, <1>4, <2>2, <2>7 DEF Books, NumberInv, OthersStay
  <2> QED
    BY <2>1, <2>4, <2>5, <2>6, <2>7 DEF NumberInv
<1>8. BookInv'
  BY <1>0, <1>1, <1>2, <1>4 DEF Books, BookInv, OthersStay
<1> QED
  BY <1>5, <1>6, <1>7, <1>8 DEF Books

(* The synchronous calls of a response have been launched. *)
LEMMA BooksSynchronous ==
    ASSUME TypeOK, SyncInv, Books, NEW o \in Owners, pc[o] = "syncs", Goto(o, "stage"), Quiet
    PROVE  Books'
<1>0. UNCHANGED <<journal, lease, resp, requests, messages, emitted>>
  BY DEF Quiet, history
<1>1. OthersStay(o) /\ pc'[o] = "stage" /\ chk'[o] = chk[o]
  BY GotoStays DEF Places, Rounds
<1>2. \A p \in Owners : Holds(p)' <=> Holds(p)
  BY <1>0 DEF Holds
<1>3. ExchangeInv'
  <2>1. pc[o] \in Uncertain \ Streaming /\ pc'[o] \in Uncertain \ Streaming
    BY <1>1 DEF Uncertain, Streaming
  <2>2. /\ journal.transcript = chk[o].transcript /\ Alone(o)
        /\ Exchanging(journal, "syncs", messages, emitted)
        /\ \A p \in Owners \ {o} : Holds(p) => pc[p] \notin Inside
    BY <2>1 DEF Books, ExchangeInv
  <2>3. Exchanging(journal, "stage", messages, emitted)
    BY <2>2 DEF Exchanging, Streaming
  <2> QED
    BY <1>0, <1>1, <1>2, <2>2, <2>3 DEF ExchangeInv, OthersStay, Alone
<1>4. CommitInv' /\ NumberInv' /\ BookInv'
  BY <1>0, <1>1, <1>2 DEF Books, CommitInv, NumberInv, BookInv, OthersStay
<1> QED
  BY <1>3, <1>4 DEF Books

LEMMA JoinedFields ==
    ASSUME TypeOK, NEW o \in Owners
    PROVE  /\ Joined(o).completed = chk[o].completed /\ Joined(o).summaries = chk[o].summaries
           /\ Joined(o).outcome = chk[o].outcome /\ Joined(o).transcript = chk[o].transcript
           /\ Joined(o).inFlight = chk[o].inFlight /\ Joined(o).delivery = chk[o].delivery
           /\ \A c \in Calls : Joined(o).calls[c] = "none" <=> chk[o].calls[c] = "none"
           /\ \A c \in Calls : chk[o].calls[c] = "delivered" => Joined(o).calls[c] = "delivered"
<1>0. chk[o] \in Checkpoints
  BY Typed
<1>1. /\ Joined(o).completed = chk[o].completed /\ Joined(o).summaries = chk[o].summaries
      /\ Joined(o).outcome = chk[o].outcome /\ Joined(o).transcript = chk[o].transcript
      /\ Joined(o).inFlight = chk[o].inFlight /\ Joined(o).delivery = chk[o].delivery
  BY <1>0 DEF Joined, Cancelled, Checkpoints
<1>2. ASSUME NEW c \in Calls
      PROVE  /\ Joined(o).calls[c] = "none" <=> chk[o].calls[c] = "none"
             /\ chk[o].calls[c] = "delivered" => Joined(o).calls[c] = "delivered"
  <2>1. /\ Settled(chk[o], c, jobs[o][c]).calls[c] = "none" /\ jobs[o][c] \in {"result", "error"}
           => chk[o].calls[c] = "none"
        /\ chk[o].calls[c] \in {"none", "delivered"}
           => Settled(chk[o], c, jobs[o][c]).calls[c] = chk[o].calls[c]
    BY <1>0 DEF Settled, Checkpoints
  <2> QED
    BY <1>0, <2>1 DEF Joined, Cancelled, Checkpoints
<1> QED
  BY <1>1, <1>2

LEMMA BooksCancel ==
    ASSUME TypeOK, SyncInv, Books, NEW o \in Owners, Cancel(o)
    PROVE  Books'
<1> DEFINE k == Joined(o)
<1>1. k \in Checkpoints /\ emitted \subseteq Calls
  BY JoinMoves DEF TypeOK
<1>2. Attempt(o, k, "errors") /\ UNCHANGED <<resp, requests, messages, emitted>>
  BY <1>1, SaveIsAttempt DEF Cancel, Joined, Places, Ending, history
<1>3. ASSUME Holds(o) PROVE Fits(o, k, emitted)
  <2>1. /\ Booked(chk[o], messages, emitted) /\ Alone(o)
        /\ chk[o].transcript \in {0, journal.transcript, resp[o]}
    BY <1>3 DEF Cancel, Books, BookInv, NumberInv, ExchangeInv, Alone, Inside
  <2>2. /\ k.completed = chk[o].completed /\ k.summaries = chk[o].summaries
        /\ k.outcome = chk[o].outcome /\ k.transcript = chk[o].transcript
        /\ k.inFlight = chk[o].inFlight /\ k.delivery = chk[o].delivery
        /\ \A c \in Calls : k.calls[c] = "none" <=> chk[o].calls[c] = "none"
        /\ \A c \in Calls : chk[o].calls[c] = "delivered" => k.calls[c] = "delivered"
    BY JoinedFields
  <2> HIDE DEF k
  <2>3. CanComplete(chk[o]) => CanComplete(k)
    BY <2>2 DEF CanComplete, In
  <2>4. Booked(k, messages, emitted)
    BY <1>1, <2>1, <2>2, <2>3 DEF Booked, Owed
  <2> QED
    BY <2>1, <2>2, <2>4 DEF Fits
<1> HIDE DEF k
<1> QED
  BY <1>1, <1>2, <1>3, WriteOutside DEF Uncertain, Streaming

LEMMA BooksStep ==
    ASSUME TypeOK, SyncInv, OutcomeInv, Books, NEW o \in Owners,
           Step(o) \/ Interrupt(o) \/ Crash(o)
    PROVE  Books'
<1>0. OthersStay(o) /\ \A p \in Owners : Holds(p)' => Holds(p)
  BY StepKinds, KindsTyped, HolderWrites
<1> USE DEF Synced, Inside, Rounds
<1>1. CASE Restart(o) \/ LaunchAsync(o) \/ LaunchSynchronous(o)
  <2>1. CASE Restart(o)
    <3>1. CASE (End(o) \/ Goto(o, "round")) /\ Quiet
      <4>1. pc'[o] \in {"ended", "round"} /\ UNCHANGED <<journal, resp, requests, messages, emitted>>
        BY <3>1, EndStays, GotoStays DEF Places, Quiet, history
      <4> QED
        BY <1>0, <2>1, <4>1, BooksLocal DEF Restart
    <3> QED
      BY <2>1, <3>1, BooksLaunch DEF Restart
  <2>2. CASE LaunchAsync(o)
    BY <2>2, BooksLaunch DEF LaunchAsync
  <2>3. CASE LaunchSynchronous(o)
    BY <2>3, BooksLaunch, BooksSynchronous DEF LaunchSynchronous
  <2> QED
    BY <1>1, <2>1, <2>2, <2>3
<1>2. CASE \/ PersistTerminalErrors(o) \/ Poison(o) \/ Stall(o) \/ Fail(o) \/ Interrupt(o) \/ Release(o)
  <2>1. UNCHANGED <<journal, resp, requests, messages, emitted>>
    BY <1>2 DEF PersistTerminalErrors, Poison, Stall, Fail, Interrupt, Release, Quiet, history
  <2>2. /\ pc[o] \in Synced \cap Inside
        /\ End(o) \/ Goto(o, "cancel") \/ Goto(o, "submit") \/ Goto(o, "done")
    BY <1>2 DEF PersistTerminalErrors, Poison, Stall, Fail, Interrupt, Release
  <2>3. /\ pc'[o] \in {"ended", "done", "cancel", "submit"}
        /\ pc'[o] = "cancel" => chk'[o] = chk[o]
    BY <2>2, EndStays, GotoStays DEF Places, Ending, Halted
  <2> QED
    BY <1>0, <2>1, <2>2, <2>3, BooksLocal
<1>3. CASE Crash(o)
  <2>1. UNCHANGED <<journal, resp, requests, messages, emitted>> /\ pc'[o] = "ended"
    BY <1>3, EndStays DEF Crash, history
  <2> QED
    BY <1>0, <2>1, LocalOutside DEF Uncertain, Streaming
<1> QED
  BY <1>1, <1>2, <1>3, BooksOpening, BooksDeliver, BooksSubmit, BooksBegin, BooksRegister, BooksRespond,
     BooksStage, BooksEmit, BooksCommit, BooksCheck, BooksSettle, BooksCancel DEF Step

LEMMA BooksRest ==
    ASSUME TypeOK, Books, LeaseLapses \/ (\E o \in Owners : Acquire(o) \/ Aside(o)) \/ UNCHANGED vars
    PROVE  Books'
<1>1. CASE LeaseLapses \/ (\E o \in Owners : Aside(o)) \/ UNCHANGED vars
  <2>1. /\ UNCHANGED <<journal, pc, chk, resp, requests, messages, emitted>>
        /\ lease' = lease \/ lease' = [lease EXCEPT !.live = FALSE]
    BY <1>1, AsideStays DEF LeaseLapses, vars, history
  <2>2. \A p \in Owners : Holds(p)' => Holds(p)
    BY <2>1 DEF Holds, TypeOK
  <2> QED
    BY <2>1, <2>2 DEF Books, ExchangeInv, CommitInv, NumberInv, BookInv, Alone
<1>2. ASSUME NEW o \in Owners, Acquire(o) PROVE Books'
  <2>1. /\ OthersStay(o) /\ pc'[o] = "load"
        /\ UNCHANGED <<journal, resp, requests, messages, emitted>>
    BY <1>2, GotoStays, PlacesNamed DEF Acquire, history
  <2>2. \A p \in Owners : Holds(p)' => p = o
    BY <1>2 DEF Acquire, Holds
  <2>3. "load" \notin Uncertain \cup Inside \cup {"cancel", "commit", "begin"}
    BY DEF Uncertain, Streaming, Inside, Rounds
  <2> QED
    BY <2>1, <2>2, <2>3 DEF Books, ExchangeInv, CommitInv, NumberInv, BookInv, Alone, OthersStay
<1> QED
  BY <1>1, <1>2

LEMMA BooksInvariant == Spec => [](OutcomeInv /\ Books)
<1>1. Init => OutcomeInv
  BY DEF Init, OutcomeInv, Closed, Holds
<1>2. Init => Books
  <2> SUFFICES ASSUME Init PROVE Books
    OBVIOUS
  <2>1. ExchangeInv /\ CommitInv
    BY DEF Init, ExchangeInv, CommitInv, Uncertain, Streaming
  <2>2. NumberInv
    BY DEF Init, NumberInv, DefaultCheckpoint
  <2>3. Booked(journal, messages, emitted)
    BY FS_EmptySet DEF Init, Booked, Owed, DefaultCheckpoint
  <2> QED
    BY <2>1, <2>2, <2>3 DEF Init, Books, BookInv
<1>3. TypeInv /\ SyncInv /\ OutcomeInv /\ Books /\ [Next]_vars => OutcomeInv' /\ Books'
  <2> SUFFICES ASSUME TypeInv, SyncInv, OutcomeInv, Books, [Next]_vars PROVE OutcomeInv' /\ Books'
    OBVIOUS
  <2>1. TypeOK
    BY DEF TypeInv
  <2> QED
    BY <2>1, OutcomeStep, BooksStep, BooksRest, NextKinds
<1> QED
  BY <1>1, <1>2, <1>3, SyncInvariant, PTL DEF Spec

(* An activity that returns its outcome leaves nothing behind, however many   *)
(* attempts it took: while a response is uncertain one attempt alone may      *)
(* continue it, every other is stopped at the opening of the conversation,    *)
(* and the journal's counts stay those of the transcript.                     *)
THEOREM OutcomesAreTotal == Spec => []CompletionIsTotal
<1>1. TypeInv /\ OutcomeInv /\ Books => CompletionIsTotal
  <2> SUFFICES ASSUME TypeInv, OutcomeInv, Books, NEW o \in Owners, pc[o] = "done"
               PROVE  /\ journal.outcome /\ CanComplete(journal)
                      /\ emitted \subseteq In(journal, {"delivered"})
                      /\ Cardinality(messages) = journal.completed
                      /\ journal.summaries = journal.completed
    BY DEF CompletionIsTotal
  <2>1. journal.outcome /\ Booked(journal, messages, emitted)
    BY DEF OutcomeInv, Closed, Books, BookInv
  <2>2. CanComplete(journal)
    BY <2>1 DEF Booked
  <2>3. ~Owed(journal, messages) /\ Cardinality(messages) \in Nat
    BY <2>2, Counts DEF CanComplete, Owed, TypeInv
  <2>4. Cardinality(messages) = journal.completed /\ journal.summaries = journal.completed
    BY <2>1, <2>3 DEF Booked
  <2>5. emitted \subseteq In(journal, {"delivered"})
    BY <2>1, <2>2 DEF Booked, CanComplete, In, TypeInv, TypeOK
  <2> QED
    BY <2>1, <2>2, <2>4, <2>5
<1> QED
  BY <1>1, BooksInvariant, TypeInvariant, PTL

=============================================================================
