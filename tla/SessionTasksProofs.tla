------------------------- MODULE SessionTasksProofs -------------------------
(***************************************************************************)
(* Theorems about SessionTasks for every set of reaper passes that overlap *)
(* and every limit on the attempts.                                         *)
(***************************************************************************)
EXTENDS SessionTasks, TLAPS

-----------------------------------------------------------------------------
(* What an update does to a row *)

Updates == [state : Terminal \cup {"none"}, error : {"none", "error", "orphaned"},
            expected : 0..MaxAttempts + 1, bump : BOOLEAN, beat : BOOLEAN]

(* The updates of the model. *)
Beating(k) == [NoUpdate EXCEPT !.beat = TRUE, !.expected = k.attempt]
Mirroring(k) == [NoUpdate EXCEPT !.state = run[k].outcome,
                                 !.error = IF run[k].outcome = "failed" THEN "error" ELSE "none"]
Superseding(p) == [NoUpdate EXCEPT !.expected = reaper[p].snap, !.bump = TRUE, !.beat = TRUE]
Failing(p) == [NoUpdate EXCEPT !.state = "failed", !.error = "orphaned",
                               !.expected = reaper[p].snap, !.bump = reaper[p].bump]

LEMMA UpdatesOfModel ==
    ASSUME TypeOK
    PROVE  /\ \A k \in Runs : /\ Beating(k) \in Updates
                              /\ Beating(k).state = "none" /\ Beating(k).error = "none"
                              /\ ~Beating(k).bump
                              /\ Mirroring(k) \in Updates
                              /\ Mirroring(k).state = run[k].outcome
                              /\ Mirroring(k).error # "orphaned"
                              /\ Mirroring(k).error = "error" => Mirroring(k).state = "failed"
                              /\ ~Mirroring(k).bump
           /\ \A p \in Reapers : /\ Superseding(p) \in Updates
                                 /\ Superseding(p).state = "none" /\ Superseding(p).error = "none"
                                 /\ Superseding(p).expected = reaper[p].snap
                                 /\ Superseding(p).bump
                                 /\ Failing(p) \in Updates
                                 /\ Failing(p).state = "failed" /\ Failing(p).error = "orphaned"
                                 /\ Failing(p).expected = reaper[p].snap
<1>1. ASSUME NEW k \in Runs
      PROVE  /\ Beating(k) \in Updates
             /\ Beating(k).state = "none" /\ Beating(k).error = "none"
             /\ ~Beating(k).bump
  <2>1. k.attempt \in 0..MaxAttempts + 1
    BY SessionTasksAssumption DEF Runs
  <2> QED
    BY <2>1 DEF Beating, NoUpdate, Updates
<1>2. ASSUME NEW k \in Runs
      PROVE  /\ Mirroring(k) \in Updates
             /\ Mirroring(k).state = run[k].outcome
             /\ Mirroring(k).error # "orphaned"
             /\ Mirroring(k).error = "error" => Mirroring(k).state = "failed"
             /\ ~Mirroring(k).bump
  <2>1. run[k].outcome \in Terminal \cup {"none"}
    BY DEF TypeOK, RunStates
  <2>2. ASSUME NEW o \in Terminal \cup {"none"}, NEW e \in {"none", "error"}
        PROVE  LET m == [NoUpdate EXCEPT !.state = o, !.error = e] IN
               m \in Updates /\ m.state = o /\ m.error = e /\ ~m.bump
    <3> DEFINE m == [NoUpdate EXCEPT !.state = o, !.error = e]
    <3>1. m \in Updates
      <4>1. NoUpdate \in Updates
        BY SessionTasksAssumption DEF NoUpdate, Updates
      <4>2. \A u \in Updates : [u EXCEPT !.state = o, !.error = e] \in Updates
        BY DEF Updates
      <4> QED
        BY <4>1, <4>2
    <3>2. m.state = o /\ m.error = e
      BY DEF NoUpdate
    <3>3. ~m.bump
      BY DEF NoUpdate
    <3> QED
      BY <3>1, <3>2, <3>3
  <2>3. CASE run[k].outcome = "failed"
    BY <2>1, <2>2, <2>3 DEF Mirroring
  <2>4. CASE run[k].outcome # "failed"
    BY <2>1, <2>2, <2>4 DEF Mirroring
  <2> QED
    BY <2>3, <2>4
<1>3. ASSUME NEW p \in Reapers
      PROVE  /\ Superseding(p) \in Updates
             /\ Superseding(p).state = "none" /\ Superseding(p).error = "none"
             /\ Superseding(p).expected = reaper[p].snap
             /\ Superseding(p).bump
             /\ Failing(p) \in Updates
             /\ Failing(p).state = "failed" /\ Failing(p).error = "orphaned"
             /\ Failing(p).expected = reaper[p].snap
  <2>1. reaper[p].snap \in 0..MaxAttempts + 1 /\ reaper[p].bump \in BOOLEAN
    BY DEF TypeOK, ReaperStates
  <2> QED
    BY <2>1 DEF Superseding, Failing, NoUpdate, Updates, Terminal
<1> QED
  BY <1>1, <1>2, <1>3

(* An update is ignored, or it names no attempt or the right one and leaves    *)
(* a terminal state as it is.                                                  *)
LEMMA ApplyMoves ==
    ASSUME NEW t \in Rows, NEW u \in Updates
    PROVE  LET s == Apply(t, u) IN
           \/ s = t
           \/ /\ u.expected \in {0, t.attempt}
              /\ t.state \in Terminal => u.state \in {"none", t.state}
              /\ s.attempt = t.attempt + (IF u.bump THEN 1 ELSE 0)
              /\ s.state = (IF u.state = "none" THEN t.state ELSE u.state)
              /\ s.error = (IF u.error = "none" THEN t.error ELSE u.error)
              /\ s.attempt \in 1..MaxAttempts + 1 => s \in Rows
<1> DEFINE s == Apply(t, u)
<1>1. CASE u.expected \notin {0, t.attempt} \/ (t.state \in Terminal /\ u.state \notin {"none", t.state})
  BY <1>1 DEF Apply
<1>2. CASE ~(u.expected \notin {0, t.attempt} \/ (t.state \in Terminal /\ u.state \notin {"none", t.state}))
  <2>1. s = [t EXCEPT !.attempt = t.attempt + (IF u.bump THEN 1 ELSE 0),
                   !.state = IF u.state = "none" THEN t.state ELSE u.state,
                   !.error = IF u.error = "none" THEN t.error ELSE u.error,
                   !.beat = IF u.beat THEN "fresh" ELSE t.beat]
    BY <1>2 DEF Apply, Rows
  <2>2. /\ s.attempt = t.attempt + (IF u.bump THEN 1 ELSE 0)
        /\ s.state = (IF u.state = "none" THEN t.state ELSE u.state)
        /\ s.error = (IF u.error = "none" THEN t.error ELSE u.error)
    BY <2>1 DEF Rows
  <2>3. s.attempt \in 1..MaxAttempts + 1 => s \in Rows
    <3>1. /\ (IF u.state = "none" THEN t.state ELSE u.state)
                 \in {"absent", "running", "pruned"} \cup Terminal
          /\ (IF u.error = "none" THEN t.error ELSE u.error) \in {"none", "error", "orphaned"}
          /\ (IF u.beat THEN "fresh" ELSE t.beat) \in {"null", "fresh", "stale"}
      BY DEF Rows, Updates
    <3> QED
      BY <2>1, <2>2, <3>1 DEF Rows
  <2> QED
    BY <1>2, <2>2, <2>3
<1> QED
  BY <1>1, <1>2

-----------------------------------------------------------------------------
(* The row, and what the reapers remember of it *)

(* A task is marked orphaned only by the update that fails it. *)
OrphanInv == row.error = "orphaned" => row.state = "failed"

(* A pass supersedes an attempt below the limit, and fails one within it: the  *)
(* snapshot was taken of a task that had not ended.                            *)
SnapInv ==
    \A p \in Reapers :
        /\ reaper[p].pc \in {"supersede", "start"} => reaper[p].snap \in 1..MaxAttempts - 1
        /\ reaper[p].pc \in {"fail", "commit"} => reaper[p].snap \in 1..MaxAttempts

RowInv == AttemptsBounded /\ OrphanInv

TaskInv == TypeOK /\ RowInv /\ SnapInv

(* What the write of an update keeps, when it marks as orphaned only what it   *)
(* fails and bumps only attempts within the limit.                             *)
LEMMA WriteKeeps ==
    ASSUME row \in Rows, RowInv,
           NEW u \in Updates, Write(u),
           u.error = "orphaned" => u.state = "failed",
           u.bump => /\ u.expected \in 1..MaxAttempts
                     /\ \/ u.state = "none" /\ u.expected < MaxAttempts
                        \/ u.state = "failed"
    PROVE  /\ row' \in Rows
           /\ RowInv'
           /\ row.state \in Terminal \cup {"absent", "pruned"} => row'.state = row.state
           /\ row'.state = row.state \/ (row'.state \in Terminal /\ row'.state = u.state)
<1> USE SessionTasksAssumption
<1>1. CASE row' = row
  BY <1>1 DEF RowInv, AttemptsBounded, OrphanInv
<1>2. CASE row' # row
  <2>1. Present /\ row' = Apply(row, u)
    BY <1>2 DEF Write
  <2>2. /\ u.expected \in {0, row.attempt}
        /\ row.state \in Terminal => u.state \in {"none", row.state}
        /\ row'.attempt = row.attempt + (IF u.bump THEN 1 ELSE 0)
        /\ row'.state = (IF u.state = "none" THEN row.state ELSE u.state)
        /\ row'.error = (IF u.error = "none" THEN row.error ELSE u.error)
        /\ row'.attempt \in 1..MaxAttempts + 1 => row' \in Rows
    BY <1>2, <2>1, ApplyMoves
  <2>3. /\ row.attempt \in 1..MaxAttempts + 1
        /\ u.state \in Terminal \cup {"none"}
        /\ u.expected \in 0..MaxAttempts + 1
    BY DEF Rows, Updates
  <2>4. /\ row'.attempt \in 1..MaxAttempts + 1
        /\ AttemptsBounded'
    <3>1. CASE u.bump
      BY <3>1, <2>2, <2>3 DEF RowInv, AttemptsBounded, Terminal
    <3>2. CASE ~u.bump
      BY <3>2, <2>2, <2>3 DEF RowInv, AttemptsBounded, Terminal
    <3> QED
      BY <3>1, <3>2
  <2>5. OrphanInv'
    BY <2>2, <2>3 DEF RowInv, OrphanInv, Terminal
  <2>6. /\ row.state \in Terminal \cup {"absent", "pruned"} => row'.state = row.state
        /\ row'.state = row.state \/ (row'.state \in Terminal /\ row'.state = u.state)
    BY <2>1, <2>2, <2>3 DEF Present
  <2> QED
    BY <2>2, <2>4, <2>5, <2>6 DEF RowInv
<1> QED
  BY <1>1, <1>2

(* Every step of the model keeps the row within its limits; a task that ended  *)
(* stays ended, or is removed.                                                 *)
LEMMA RowMoves ==
    ASSUME TaskInv, Next
    PROVE  /\ row' \in Rows
           /\ RowInv'
           /\ row.state \in Terminal \cup {"pruned"} => row'.state \in {row.state, "pruned"}
<1> USE SessionTasksAssumption
<1>0. row \in Rows /\ RowInv
  BY DEF TaskInv, TypeOK
<1>1. CASE UNCHANGED row
  BY <1>0, <1>1 DEF RowInv, AttemptsBounded, OrphanInv
<1>2. CASE Spawn
  <2>1. row.state = "absent" /\ row' = [row EXCEPT !.state = "running"]
    BY <1>2 DEF Spawn
  <2>2. row' \in Rows /\ row'.attempt = row.attempt /\ row'.error = row.error
    BY <2>1, <1>0 DEF Rows
  <2> QED
    BY <2>1, <2>2, <1>0 DEF RowInv, AttemptsBounded, OrphanInv, Terminal
<1>3. CASE RequestCancel \/ GoStale
  <2>1. row' = [row EXCEPT !.cancel = TRUE] \/ row' = [row EXCEPT !.beat = "stale"]
    BY <1>3 DEF RequestCancel, GoStale
  <2>2. row' \in Rows /\ row'.attempt = row.attempt /\ row'.error = row.error /\ row'.state = row.state
    BY <2>1, <1>0 DEF Rows
  <2> QED
    BY <2>2, <1>0 DEF RowInv, AttemptsBounded, OrphanInv
<1>4. ASSUME NEW k \in Runs, Write(Beating(k))
      PROVE  row' \in Rows /\ RowInv' /\ (row.state \in Terminal \cup {"pruned"} => row'.state = row.state)
  BY <1>4, <1>0, UpdatesOfModel, WriteKeeps DEF TaskInv
<1>5. ASSUME NEW k \in Runs, Mirror(k)
      PROVE  row' \in Rows /\ RowInv' /\ (row.state \in Terminal \cup {"pruned"} => row'.state = row.state)
  <2>1. Write(Mirroring(k))
    BY <1>5 DEF Mirror, Finish, Mirroring
  <2> QED
    BY <2>1, <1>0, UpdatesOfModel, WriteKeeps DEF TaskInv
<1>6. ASSUME NEW p \in Reapers, Supersede(p)
      PROVE  row' \in Rows /\ RowInv' /\ (row.state \in Terminal \cup {"pruned"} => row'.state = row.state)
  <2>1. Write(Superseding(p)) /\ reaper[p].snap \in 1..MaxAttempts - 1
    BY <1>6 DEF Supersede, Superseding, TaskInv, SnapInv
  <2>2. reaper[p].snap \in 1..MaxAttempts /\ reaper[p].snap < MaxAttempts
    BY <2>1
  <2> QED
    BY <2>1, <2>2, <1>0, UpdatesOfModel, WriteKeeps DEF TaskInv
<1>7. ASSUME NEW p \in Reapers, FailOrphan(p)
      PROVE  row' \in Rows /\ RowInv' /\ (row.state \in Terminal \cup {"pruned"} => row'.state = row.state)
  <2>1. Write(Failing(p)) /\ reaper[p].snap \in 1..MaxAttempts
    BY <1>7 DEF FailOrphan, Finish, Failing, TaskInv, SnapInv
  <2> QED
    BY <2>1, <1>0, UpdatesOfModel, WriteKeeps DEF TaskInv
<1>8. ASSUME NEW p \in Reapers, Retain(p)
      PROVE  /\ row' \in Rows
             /\ RowInv'
             /\ row.state \in Terminal \cup {"pruned"} => row'.state \in {row.state, "pruned"}
  <2>1. CASE row' = [NoRow EXCEPT !.state = "pruned"]
    <3>1. row' = [state |-> "pruned", attempt |-> 1, beat |-> "null", cancel |-> FALSE, error |-> "none"]
      BY <2>1 DEF NoRow
    <3>2. 1 \in 1..MaxAttempts + 1 /\ ~(1 > MaxAttempts)
      OBVIOUS
    <3>3. row' \in Rows
      BY <3>1, <3>2 DEF Rows
    <3>4. row'.state = "pruned" /\ row'.attempt = 1 /\ row'.error = "none"
      BY <3>1
    <3> QED
      BY <3>2, <3>3, <3>4 DEF RowInv, AttemptsBounded, OrphanInv
  <2>2. CASE UNCHANGED row
    BY <2>2, <1>1
  <2> QED
    BY <1>8, <2>1, <2>2 DEF Retain
<1>9. UNCHANGED row \/ Spawn \/ RequestCancel \/ GoStale
      \/ (\E k \in Runs : Write(Beating(k)) \/ Mirror(k))
      \/ (\E p \in Reapers : Supersede(p) \/ FailOrphan(p) \/ Retain(p))
  BY DEF Next, Heartbeat, Beating, PollCancel, ToolEnds, WriteArtifacts, MirrorNotifies, LoseRun, Scan,
         Get, Start, StartFails, BeginFail, FailNotifies, LoseReaper
<1> QED
  BY <1>1, <1>2, <1>3, <1>4, <1>5, <1>6, <1>7, <1>8, <1>9

-----------------------------------------------------------------------------
(* The runs and the reapers *)

(* Every run a step starts, moves or ends is one the model has. *)
LEMMA RunTyped ==
    ASSUME TaskInv, Next
    PROVE  run' \in [Runs -> RunStates]
<1> USE SessionTasksAssumption
<1>0. run \in [Runs -> RunStates]
  BY DEF TaskInv, TypeOK
<1>1. /\ \A s \in RunStates : \A c \in {"beat", "poll", "ended", "notify"} : [s EXCEPT !.pc = c] \in RunStates
      /\ \A s \in RunStates : \A o \in Terminal :
             [s EXCEPT !.pc = "ended", !.outcome = o] \in RunStates
      /\ \A s \in RunStates : \A q \in Priors :
             [s EXCEPT !.pc = "mirror", !.prior = q] \in RunStates
      /\ Over \in RunStates
  BY DEF RunStates, Over, NoRun, Priors
<1>2. CASE UNCHANGED run
  BY <1>0, <1>2
<1>3. CASE Spawn
  <2>1. [attempt |-> 1, by |-> Spawner] \in Runs
    BY DEF Runs
  <2> QED
    BY <1>3, <1>0, <1>1, <2>1 DEF Spawn
<1>4. ASSUME NEW k \in Runs, Heartbeat(k) \/ PollCancel(k) \/ ToolEnds(k)
      PROVE  run' \in [Runs -> RunStates]
  <2>1. \/ \E c \in {"beat", "poll"} : run' = [run EXCEPT ![k].pc = c]
        \/ \E o \in Terminal : run' = [run EXCEPT ![k].pc = "ended", ![k].outcome = o]
    BY <1>4 DEF Heartbeat, PollCancel, ToolEnds, Terminal
  <2>2. run[k] \in RunStates
    BY <1>0
  <2>3. \/ \E c \in {"beat", "poll"} : run' = [run EXCEPT ![k] = [run[k] EXCEPT !.pc = c]]
        \/ \E o \in Terminal : run' = [run EXCEPT ![k] = [run[k] EXCEPT !.pc = "ended", !.outcome = o]]
    BY <2>1, <1>0
  <2> QED
    BY <1>0, <1>1, <2>2, <2>3
<1>5. ASSUME NEW k \in Runs, WriteArtifacts(k)
      PROVE  run' \in [Runs -> RunStates]
  <2>1. \E q \in Priors : run' = [run EXCEPT ![k] = [run[k] EXCEPT !.pc = "mirror", !.prior = q]]
    BY <1>0, <1>5 DEF WriteArtifacts, Prior, Priors
  <2>2. PICK q \in Priors : run' = [run EXCEPT ![k] = [run[k] EXCEPT !.pc = "mirror", !.prior = q]]
    BY <2>1
  <2>3. [run[k] EXCEPT !.pc = "mirror", !.prior = q] \in RunStates
    BY <1>0, <1>1
  <2> QED
    BY <1>0, <2>2, <2>3
<1>6. ASSUME NEW k \in Runs, Mirror(k) \/ MirrorNotifies(k) \/ LoseRun(k)
      PROVE  run' \in [Runs -> RunStates]
  <2>1. run' = [run EXCEPT ![k] = Over] \/ run' = [run EXCEPT ![k] = [run[k] EXCEPT !.pc = "notify"]]
    BY <1>0, <1>6 DEF Mirror, MirrorNotifies, LoseRun
  <2> QED
    BY <1>0, <1>1, <2>1
<1>7. ASSUME NEW p \in Reapers, Start(p)
      PROVE  run' \in [Runs -> RunStates]
  <2>1. reaper[p].snap \in 1..MaxAttempts - 1
    BY <1>7 DEF Start, TaskInv, SnapInv
  <2>2. [attempt |-> reaper[p].snap + 1, by |-> p] \in Runs
    BY <2>1 DEF Runs
  <2> QED
    BY <1>7, <1>0, <1>1, <2>2 DEF Start
<1> QED
  BY <1>2, <1>3, <1>4, <1>5, <1>6, <1>7
  DEF Next, RequestCancel, GoStale, Scan, Get, Supersede, StartFails, BeginFail, FailOrphan, FailNotifies,
      Retain, LoseReaper

(* A pass moves within its states, and acts on a snapshot within the limits. *)
LEMMA ReaperTyped ==
    ASSUME TaskInv, Next
    PROVE  reaper' \in [Reapers -> ReaperStates] /\ SnapInv'
<1> USE SessionTasksAssumption
<1> DEFINE Sound(s) == /\ s \in ReaperStates
                       /\ s.pc \in {"supersede", "start"} => s.snap \in 1..MaxAttempts - 1
                       /\ s.pc \in {"fail", "commit"} => s.snap \in 1..MaxAttempts
<1>0. reaper \in [Reapers -> ReaperStates] /\ \A p \in Reapers : Sound(reaper[p])
  BY DEF TaskInv, TypeOK, SnapInv
<1>1. IdleReaper \in ReaperStates /\ Sound(IdleReaper) /\ Retaining \in ReaperStates /\ Sound(Retaining)
  <2>1. 0 \in 0..MaxAttempts + 1
    OBVIOUS
  <2> QED
    BY <2>1 DEF IdleReaper, Retaining, ReaperStates, Priors
<1>2. ASSUME NEW p \in Reapers, NEW s, Sound(s), reaper' = [reaper EXCEPT ![p] = s]
      PROVE  reaper' \in [Reapers -> ReaperStates] /\ SnapInv'
  <2>1. reaper' \in [Reapers -> ReaperStates]
    BY <1>0, <1>2
  <2>2. \A q \in Reapers : Sound(reaper'[q])
    BY <1>0, <1>2
  <2> QED
    BY <2>1, <2>2 DEF SnapInv
<1>3. CASE UNCHANGED reaper
  BY <1>0, <1>3 DEF SnapInv
<1>4. ASSUME NEW p \in Reapers, Retain(p) \/ LoseReaper(p) \/ Start(p) \/ FailOrphan(p)
                                \/ FailNotifies(p)
      PROVE  reaper' \in [Reapers -> ReaperStates] /\ SnapInv'
  <2>1. \/ reaper' = [reaper EXCEPT ![p] = IdleReaper] \/ reaper' = [reaper EXCEPT ![p] = Retaining]
        \/ reaper' = [reaper EXCEPT ![p] = [reaper[p] EXCEPT !.pc = "notify"]]
    BY <1>0, <1>4 DEF Retain, LoseReaper, Start, FailOrphan, FailNotifies
  <2>2. Sound([reaper[p] EXCEPT !.pc = "notify"])
    BY <1>0 DEF ReaperStates
  <2> QED
    BY <1>1, <1>2, <2>1, <2>2
<1>5. ASSUME NEW p \in Reapers, Scan(p)
      PROVE  reaper' \in [Reapers -> ReaperStates] /\ SnapInv'
  <2>1. PICK c \in {"get", "retain"} : reaper' = [reaper EXCEPT ![p] = [reaper[p] EXCEPT !.pc = c]]
    BY <1>5, <1>0 DEF Scan
  <2>2. Sound([reaper[p] EXCEPT !.pc = c])
    BY <1>0 DEF ReaperStates
  <2> QED
    BY <1>2, <2>1, <2>2
<1>6. ASSUME NEW p \in Reapers, Get(p)
      PROVE  reaper' \in [Reapers -> ReaperStates] /\ SnapInv'
  <2> DEFINE g == [reaper[p] EXCEPT !.snap = row.attempt, !.bump = ~Reattachable,
                                    !.pc = IF Reattachable THEN "supersede" ELSE "fail"]
  <2>1. reaper' = [reaper EXCEPT ![p] = IF ~Present \/ row.state \in Terminal THEN Retaining ELSE g]
    BY <1>6, <1>0 DEF Get
  <2>2. CASE ~Present \/ row.state \in Terminal
    BY <1>1, <1>2, <2>1, <2>2
  <2>3. CASE ~(~Present \/ row.state \in Terminal)
    <3>1. row.attempt \in 1..MaxAttempts
      BY <2>3 DEF TaskInv, TypeOK, Rows, RowInv, AttemptsBounded, Terminal
    <3>2. Reattachable => row.attempt \in 1..MaxAttempts - 1
      BY <3>1 DEF Reattachable
    <3>3. row.attempt \in 0..MaxAttempts + 1
      BY <3>1
    <3>4. CASE Reattachable
      <4>1. g = [reaper[p] EXCEPT !.snap = row.attempt, !.bump = FALSE, !.pc = "supersede"]
        BY <3>4
      <4>2. g \in ReaperStates /\ g.pc = "supersede" /\ g.snap = row.attempt
        BY <4>1, <3>3, <1>0 DEF ReaperStates
      <4> QED
        BY <1>2, <2>1, <2>3, <3>2, <3>4, <4>2
    <3>5. CASE ~Reattachable
      <4>1. g = [reaper[p] EXCEPT !.snap = row.attempt, !.bump = TRUE, !.pc = "fail"]
        BY <3>5
      <4>2. g \in ReaperStates /\ g.pc = "fail" /\ g.snap = row.attempt
        BY <4>1, <3>3, <1>0 DEF ReaperStates
      <4> QED
        BY <1>2, <2>1, <2>3, <3>1, <3>5, <4>2
    <3> QED
      BY <3>4, <3>5
  <2> QED
    BY <2>2, <2>3
<1>7. ASSUME NEW p \in Reapers, Supersede(p)
      PROVE  reaper' \in [Reapers -> ReaperStates] /\ SnapInv'
  <2>1. \/ reaper' = [reaper EXCEPT ![p] = Retaining]
        \/ reaper' = [reaper EXCEPT ![p] = [reaper[p] EXCEPT !.pc = "start"]]
    BY <1>7, <1>0 DEF Supersede
  <2>2. reaper[p].pc = "supersede"
    BY <1>7 DEF Supersede
  <2>3. Sound([reaper[p] EXCEPT !.pc = "start"])
    BY <1>0, <2>2 DEF ReaperStates
  <2> QED
    BY <1>1, <1>2, <2>1, <2>3
<1>8. ASSUME NEW p \in Reapers, StartFails(p)
      PROVE  reaper' \in [Reapers -> ReaperStates] /\ SnapInv'
  <2> DEFINE f == [reaper[p] EXCEPT !.pc = "fail", !.snap = reaper[p].snap + 1, !.bump = FALSE]
  <2>1. reaper' = [reaper EXCEPT ![p] = f]
    BY <1>8, <1>0 DEF StartFails
  <2>2. reaper[p].snap \in 1..MaxAttempts - 1
    BY <1>8, <1>0 DEF StartFails
  <2>3. reaper[p].snap + 1 \in 1..MaxAttempts /\ reaper[p].snap + 1 \in 0..MaxAttempts + 1
    BY <2>2
  <2>4. f \in ReaperStates /\ f.pc = "fail" /\ f.snap = reaper[p].snap + 1
    BY <1>0, <2>3 DEF ReaperStates
  <2> QED
    BY <1>2, <2>1, <2>3, <2>4
<1>9. ASSUME NEW p \in Reapers, BeginFail(p)
      PROVE  reaper' \in [Reapers -> ReaperStates] /\ SnapInv'
  <2>1. PICK q \in Priors : reaper' = [reaper EXCEPT ![p] = [reaper[p] EXCEPT !.pc = "commit", !.prior = q]]
    BY <1>9, <1>0 DEF BeginFail, Prior, Priors
  <2>2. reaper[p].pc = "fail"
    BY <1>9 DEF BeginFail
  <2>3. Sound([reaper[p] EXCEPT !.pc = "commit", !.prior = q])
    BY <1>0, <2>2 DEF ReaperStates
  <2> QED
    BY <1>2, <2>1, <2>3
<1> QED
  BY <1>3, <1>4, <1>5, <1>6, <1>7, <1>8, <1>9
  DEF Next, Spawn, RequestCancel, GoStale, Heartbeat, PollCancel, ToolEnds, WriteArtifacts, Mirror,
      MirrorNotifies, LoseRun

LEMMA FlagsTyped ==
    ASSUME TaskInv, Next
    PROVE  flagged' \in BOOLEAN /\ safe' = safe
<1>0. flagged \in BOOLEAN /\ safe \in BOOLEAN
  BY DEF TaskInv, TypeOK
<1>1. flagged' = flagged \/ flagged' \in {TRUE, safe}
  BY DEF Next, Spawn, RequestCancel, GoStale, Heartbeat, PollCancel, ToolEnds, WriteArtifacts, Mirror,
         MirrorNotifies, LoseRun, Scan, Get, Supersede, Start, StartFails, BeginFail, FailOrphan,
         FailNotifies, Retain, LoseReaper
<1>2. safe' = safe
  BY DEF Next, Spawn, RequestCancel, GoStale, Heartbeat, PollCancel, ToolEnds, WriteArtifacts, Mirror,
         MirrorNotifies, LoseRun, Scan, Get, Supersede, Start, StartFails, BeginFail, FailOrphan,
         FailNotifies, Retain, LoseReaper
<1>3. flagged' \in BOOLEAN
  BY <1>0, <1>1, Zenon
<1> QED
  BY <1>2, <1>3

(* What is written down of the reports: only the end of an update, the report  *)
(* itself and a loss change it, and nothing takes it back.                     *)
LEMMA HistoryMoves ==
    ASSUME Next
    PROVE  \/ UNCHANGED history
           \/ Told
           \/ \E b : Untold(b)
           \/ notified' = notified /\ missed' = missed /\ \E b : blind' = (blind \/ b)
BY DEF Next, Spawn, RequestCancel, GoStale, Heartbeat, PollCancel, ToolEnds, WriteArtifacts, Mirror,
       MirrorNotifies, LoseRun, Scan, Get, Supersede, Start, StartFails, BeginFail, FailOrphan,
       FailNotifies, Retain, LoseReaper, Finish

LEMMA HistoryTyped ==
    ASSUME TaskInv, Next
    PROVE  /\ notified' \in Nat /\ blind' \in BOOLEAN /\ missed' \in BOOLEAN
           /\ notified' >= notified /\ (blind => blind') /\ (missed => missed')
<1>0. notified \in Nat /\ blind \in BOOLEAN /\ missed \in BOOLEAN
  BY DEF TaskInv, TypeOK
<1>1. notified' \in {notified, notified + 1}
  BY HistoryMoves DEF history, Told, Untold
<1>2. \/ blind' = blind
      \/ \E b : blind' = (blind \/ b)
  BY HistoryMoves DEF history, Told, Untold
<1>3. blind' \in BOOLEAN /\ (blind => blind')
  BY <1>0, <1>2, Zenon
<1>4. \/ missed' = missed
      \/ \E b : missed' = (missed \/ b)
  BY HistoryMoves DEF history, Told, Untold
<1>5. missed' \in BOOLEAN /\ (missed => missed')
  BY <1>0, <1>4, Zenon
<1> QED
  BY <1>0, <1>1, <1>3, <1>5

LEMMA TaskInvInit == Init => TaskInv
<1> USE SessionTasksAssumption
<1> SUFFICES ASSUME Init PROVE TaskInv
  OBVIOUS
<1>1. 1 \in 1..MaxAttempts + 1 /\ 0 \in 0..MaxAttempts + 1 /\ ~(1 > MaxAttempts)
  OBVIOUS
<1>2. row \in Rows /\ RowInv
  BY <1>1 DEF Init, NoRow, Rows, RowInv, AttemptsBounded, OrphanInv
<1>3. run \in [Runs -> RunStates]
  BY DEF Init, NoRun, RunStates, Priors
<1>4. reaper \in [Reapers -> ReaperStates] /\ SnapInv
  BY <1>1 DEF Init, IdleReaper, ReaperStates, Priors, SnapInv
<1>5. flagged \in BOOLEAN /\ safe \in BOOLEAN /\ blind \in BOOLEAN /\ missed \in BOOLEAN
  BY Zenon DEF Init
<1>6. notified \in Nat
  BY DEF Init
<1> QED
  BY <1>2, <1>3, <1>4, <1>5, <1>6 DEF TaskInv, TypeOK

LEMMA TaskInvNext == TaskInv /\ [Next]_vars => TaskInv'
<1> SUFFICES ASSUME TaskInv, [Next]_vars PROVE TaskInv'
  OBVIOUS
<1>1. CASE Next
  <2>1. safe' \in BOOLEAN
    BY <1>1, FlagsTyped DEF TaskInv, TypeOK
  <2> QED
    BY <1>1, <2>1, RowMoves, RunTyped, ReaperTyped, FlagsTyped, HistoryTyped DEF TaskInv, TypeOK
<1>2. CASE UNCHANGED vars
  BY <1>2 DEF vars, TaskInv, TypeOK, RowInv, AttemptsBounded, OrphanInv, SnapInv
<1> QED
  BY <1>1, <1>2

LEMMA TaskInvAlways == Spec => []TaskInv
<1> QED
  BY TaskInvInit, TaskInvNext, PTL DEF Spec

(* Every reachable state is well typed: no sequence of losses and re-attached  *)
(* attempts, by however many overlapping passes, takes the attempt of a task   *)
(* or the snapshot of a pass out of its range.                                 *)
THEOREM TaskTypeCorrect == Spec => []TypeOK
<1>1. TaskInv => TypeOK
  BY DEF TaskInv
<1> QED
  BY <1>1, TaskInvAlways, PTL

(* Re-attaching stops at max_attempts: an attempt beyond it belongs to a task  *)
(* that failed (session_task_reaper.rs, the check of the attempt limit and     *)
(* the fences of the two updates).                                             *)
THEOREM ReapingIsSafe == Spec => []AttemptsBounded
<1>1. TaskInv => AttemptsBounded
  BY DEF TaskInv, RowInv, AttemptsBounded
<1> QED
  BY <1>1, TaskInvAlways, PTL

(* The reaper never marks as orphaned a task that succeeded or was canceled,   *)
(* although its passes decide on a snapshot that the run and the client may    *)
(* overtake before the update (session_task_reaper.rs).                        *)
THEOREM OrphansAreReal == Spec => []NoFalseOrphan
<1>1. TaskInv => NoFalseOrphan
  BY DEF TaskInv, RowInv, OrphanInv, NoFalseOrphan
<1> QED
  BY <1>1, TaskInvAlways, PTL

(* A finished task stays finished until retention removes it, and a removed    *)
(* task does not come back: the fence and the terminal check of                *)
(* apply_task_update against every update the code sends.                      *)
THEOREM FinishedStays == Spec => FinishedIsFinal
<1>1. TaskInv /\ [Next]_vars
      => [row.state \in Terminal \cup {"pruned"} => row'.state \in {row.state, "pruned"}]_vars
  <2> SUFFICES ASSUME TaskInv, Next
               PROVE  row.state \in Terminal \cup {"pruned"} => row'.state \in {row.state, "pruned"}
    OBVIOUS
  <2> QED
    BY RowMoves
<1> QED
  BY <1>1, TaskInvAlways, PTL DEF Spec, FinishedIsFinal

-----------------------------------------------------------------------------
(* Reports *)

(* An update that read an ended task before its transaction still finds it     *)
(* ended, or gone.                                                             *)
PriorInv ==
    /\ \A k \in Runs : run[k].pc = "mirror" /\ run[k].prior = "ended"
                       => row.state \in Terminal \cup {"pruned"}
    /\ \A p \in Reapers : reaper[p].pc = "commit" /\ reaper[p].prior = "ended"
                          => row.state \in Terminal \cup {"pruned"}

LEMMA PriorStep == TaskInv /\ PriorInv /\ [Next]_vars => PriorInv'
<1> SUFFICES ASSUME TaskInv, PriorInv, [Next]_vars PROVE PriorInv'
  OBVIOUS
<1> SUFFICES ASSUME Next PROVE PriorInv'
  <2>1. UNCHANGED vars => PriorInv'
    BY DEF vars, PriorInv
  <2> QED
    BY <2>1
<1>0. run \in [Runs -> RunStates] /\ reaper \in [Reapers -> ReaperStates]
  BY DEF TaskInv, TypeOK
<1>1. row.state \in Terminal \cup {"pruned"} => row'.state \in Terminal \cup {"pruned"}
  BY RowMoves
<1>2. ASSUME NEW j \in Runs, run'[j].pc = "mirror", run'[j].prior = "ended"
      PROVE  row'.state \in Terminal \cup {"pruned"}
  <2>1. CASE run'[j] = run[j]
    BY <1>1, <1>2, <2>1 DEF PriorInv
  <2>2. CASE run'[j] # run[j]
    <3>1. CASE WriteArtifacts(j)
      <4>1. PICK q \in Prior : run' = [run EXCEPT ![j].pc = "mirror", ![j].prior = q]
        BY <3>1 DEF WriteArtifacts
      <4>2. q = "ended"
        BY <1>0, <1>2, <4>1 DEF RunStates
      <4>3. row.state \in Terminal
        BY <4>1, <4>2 DEF Prior
      <4> QED
        BY <1>1, <4>3
    <3>2. ~WriteArtifacts(j) => run'[j].pc # "mirror"
      <4>1. ASSUME NEW k \in Runs, \/ Heartbeat(k) \/ PollCancel(k) \/ ToolEnds(k) \/ Mirror(k)
                                   \/ MirrorNotifies(k) \/ LoseRun(k)
            PROVE  run'[j].pc # "mirror"
        <5>1. \E c, o : /\ c # "mirror"
                        /\ \/ run' = [run EXCEPT ![k].pc = c]
                           \/ run' = [run EXCEPT ![k].pc = c, ![k].outcome = o]
                           \/ run' = [run EXCEPT ![k] = Over]
          BY <1>0, <4>1 DEF Heartbeat, PollCancel, ToolEnds, Mirror, MirrorNotifies, LoseRun
        <5>2. Over.pc = "over"
          BY DEF Over, NoRun
        <5>3. j = k
          BY <1>0, <2>2, <5>1
        <5> QED
          BY <1>0, <5>1, <5>2, <5>3 DEF RunStates
      <4>2. ASSUME NEW k \in Runs, k # j, WriteArtifacts(k) PROVE FALSE
        BY <1>0, <2>2, <4>2 DEF WriteArtifacts
      <4>3. CASE Spawn \/ \E p \in Reapers : Start(p)
        <5>1. PICK k : run' = [run EXCEPT ![k].pc = "beat"]
          BY <4>3 DEF Spawn, Start
        <5>2. j = k
          BY <1>0, <2>2, <5>1
        <5> QED
          BY <1>0, <5>1, <5>2 DEF RunStates
      <4> QED
        BY <2>2, <4>1, <4>2, <4>3
        DEF Next, RequestCancel, GoStale, Scan, Get, Supersede, StartFails, BeginFail, FailOrphan,
            FailNotifies, Retain, LoseReaper
    <3> QED
      BY <1>2, <3>1, <3>2
  <2> QED
    BY <2>1, <2>2
<1>3. ASSUME NEW r \in Reapers, reaper'[r].pc = "commit", reaper'[r].prior = "ended"
      PROVE  row'.state \in Terminal \cup {"pruned"}
  <2>1. CASE reaper'[r] = reaper[r]
    BY <1>1, <1>3, <2>1 DEF PriorInv
  <2>2. CASE reaper'[r] # reaper[r]
    <3>1. CASE BeginFail(r)
      <4>1. PICK q \in Prior : reaper' = [reaper EXCEPT ![r].pc = "commit", ![r].prior = q]
        BY <3>1 DEF BeginFail
      <4>2. q = "ended"
        BY <1>0, <1>3, <4>1 DEF ReaperStates
      <4>3. row.state \in Terminal
        BY <4>1, <4>2 DEF Prior
      <4> QED
        BY <1>1, <4>3
    <3>2. ASSUME NEW p \in Reapers, BeginFail(p), p # r PROVE FALSE
      BY <1>0, <2>2, <3>2 DEF BeginFail
    <3>3. ASSUME NEW p \in Reapers, \/ Scan(p) \/ Get(p) \/ Supersede(p) \/ Start(p) \/ StartFails(p)
                                    \/ FailOrphan(p) \/ FailNotifies(p) \/ Retain(p)
                                    \/ LoseReaper(p)
          PROVE  reaper'[r].pc # "commit"
      <4>1. PICK s : reaper' = [reaper EXCEPT ![p] = s]
        BY <1>0, <3>3
        DEF Scan, Get, Supersede, Start, StartFails, FailOrphan, FailNotifies, Retain, LoseReaper
      <4>2. p = r
        BY <1>0, <2>2, <4>1
      <4>3. IdleReaper.pc = "idle" /\ Retaining.pc = "retain"
        BY DEF IdleReaper, Retaining
      <4>4. Scan(r) => reaper'[r].pc # "commit"
        BY <1>0 DEF Scan, ReaperStates
      <4>5. Get(r) => reaper'[r].pc # "commit"
        BY <1>0, <4>3 DEF Get, ReaperStates
      <4>6. Supersede(r) => reaper'[r].pc # "commit"
        BY <1>0, <4>3 DEF Supersede, ReaperStates
      <4>7. StartFails(r) => reaper'[r].pc # "commit"
        BY <1>0 DEF StartFails, ReaperStates
      <4>8. Start(r) \/ FailNotifies(r) \/ Retain(r) \/ LoseReaper(r) => reaper'[r].pc # "commit"
        BY <1>0, <4>3 DEF Start, FailNotifies, Retain, LoseReaper
      <4>9. FailOrphan(r) => reaper'[r].pc # "commit"
        BY <1>0, <4>3 DEF FailOrphan, ReaperStates
      <4> QED
        BY <3>3, <4>2, <4>4, <4>5, <4>6, <4>7, <4>8, <4>9
    <3> QED
      BY <1>3, <2>2, <3>1, <3>2, <3>3
      DEF Next, Spawn, RequestCancel, GoStale, Heartbeat, PollCancel, ToolEnds, WriteArtifacts, Mirror,
          MirrorNotifies, LoseRun
  <2> QED
    BY <2>1, <2>2
<1> QED
  BY <1>2, <1>3 DEF PriorInv

-----------------------------------------------------------------------------
(* A pass starts a run of its own only once *)

FreshInv ==
    /\ \A k \in Runs : run[k].pc # "none" /\ row.state # "pruned" => k.attempt <= row.attempt
    /\ \A p \in Reapers :
          /\ reaper[p].pc \in {"supersede", "start"} =>
                \A k \in Runs : k.by = p /\ k.attempt > reaper[p].snap => run[k].pc = "none"
          /\ reaper[p].pc = "start" /\ row.state # "pruned" => reaper[p].snap + 1 <= row.attempt

(* While a task is there its attempt only grows. *)
LEMMA AttemptGrows ==
    ASSUME TaskInv, Next, row'.state # "pruned"
    PROVE  row.state # "pruned" /\ row.attempt <= row'.attempt
<1>0. row \in Rows /\ row.attempt \in Int
  BY SessionTasksAssumption DEF TaskInv, TypeOK, Rows
<1>1. row.state # "pruned"
  BY RowMoves
<1>2. ASSUME NEW u \in Updates, Write(u) PROVE row.attempt <= row'.attempt
  <2>1. row' = row \/ row' = Apply(row, u)
    BY <1>2 DEF Write
  <2>2. row' = row \/ row'.attempt = row.attempt + (IF u.bump THEN 1 ELSE 0)
    BY <1>0, <2>1, ApplyMoves
  <2> QED
    BY <1>0, <2>2
<1>3. CASE UNCHANGED row
  BY <1>0, <1>3
<1>4. CASE Spawn \/ RequestCancel \/ GoStale
  <2>1. row'.attempt = row.attempt
    BY <1>0, <1>4 DEF Spawn, RequestCancel, GoStale, Rows
  <2> QED
    BY <1>0, <1>1, <2>1
<1>5. ASSUME NEW k \in Runs, Write(Beating(k)) \/ Mirror(k) PROVE row.attempt <= row'.attempt
  <2>1. Write(Beating(k)) \/ Write(Mirroring(k))
    BY <1>5 DEF Mirror, Finish, Mirroring
  <2> QED
    BY <1>2, <2>1, UpdatesOfModel DEF TaskInv
<1>6. ASSUME NEW p \in Reapers, Supersede(p) \/ FailOrphan(p) PROVE row.attempt <= row'.attempt
  <2>1. Write(Superseding(p)) \/ Write(Failing(p))
    BY <1>6 DEF Supersede, Superseding, FailOrphan, Finish, Failing
  <2> QED
    BY <1>2, <2>1, UpdatesOfModel DEF TaskInv
<1>7. ASSUME NEW p \in Reapers, Retain(p) PROVE UNCHANGED row
  BY <1>7 DEF Retain, NoRow
<1>8. UNCHANGED row \/ Spawn \/ RequestCancel \/ GoStale
      \/ (\E k \in Runs : Write(Beating(k)) \/ Mirror(k))
      \/ (\E p \in Reapers : Supersede(p) \/ FailOrphan(p) \/ Retain(p))
  BY DEF Next, Heartbeat, Beating, PollCancel, ToolEnds, WriteArtifacts, MirrorNotifies, LoseRun, Scan,
         Get, Start, StartFails, BeginFail, FailNotifies, LoseReaper
<1> QED
  BY <1>1, <1>3, <1>4, <1>5, <1>6, <1>7, <1>8

(* Which steps move a run, and which a pass. *)
LEMMA RunMoves ==
    ASSUME TaskInv, Next, NEW j \in Runs, run'[j] # run[j]
    PROVE  \/ Spawn /\ j = [attempt |-> 1, by |-> Spawner]
           \/ \E p \in Reapers : Start(p) /\ j = [attempt |-> reaper[p].snap + 1, by |-> p]
           \/ /\ run[j].pc # "none"
              /\ \/ Heartbeat(j) \/ PollCancel(j) \/ ToolEnds(j) \/ WriteArtifacts(j)
                 \/ Mirror(j) \/ MirrorNotifies(j) \/ LoseRun(j)
<1>0. run \in [Runs -> RunStates]
  BY DEF TaskInv, TypeOK
<1>1. CASE Spawn
  <2>1. PICK s : run' = [run EXCEPT ![[attempt |-> 1, by |-> Spawner]] = s]
    BY <1>0, <1>1 DEF Spawn
  <2> QED
    BY <1>0, <1>1, <2>1
<1>2. ASSUME NEW p \in Reapers, Start(p) PROVE j = [attempt |-> reaper[p].snap + 1, by |-> p]
  <2>1. PICK s : run' = [run EXCEPT ![[attempt |-> reaper[p].snap + 1, by |-> p]] = s]
    BY <1>0, <1>2 DEF Start
  <2> QED
    BY <1>0, <2>1
<1>3. ASSUME NEW k \in Runs, \/ Heartbeat(k) \/ PollCancel(k) \/ ToolEnds(k) \/ WriteArtifacts(k)
                             \/ Mirror(k) \/ MirrorNotifies(k) \/ LoseRun(k)
      PROVE  j = k /\ run[k].pc # "none"
  <2>1. \E s : run' = [run EXCEPT ![k] = s]
    BY <1>0, <1>3
    DEF Heartbeat, PollCancel, ToolEnds, WriteArtifacts, Mirror, MirrorNotifies, LoseRun
  <2>2. run[k].pc # "none"
    BY <1>3 DEF Heartbeat, PollCancel, ToolEnds, WriteArtifacts, Mirror, MirrorNotifies, LoseRun, Alive
  <2> QED
    BY <1>0, <2>1, <2>2
<1>4. UNCHANGED run \/ Spawn \/ (\E p \in Reapers : Start(p))
      \/ \E k \in Runs : \/ Heartbeat(k) \/ PollCancel(k) \/ ToolEnds(k) \/ WriteArtifacts(k)
                         \/ Mirror(k) \/ MirrorNotifies(k) \/ LoseRun(k)
  BY DEF Next, RequestCancel, GoStale, Scan, Get, Supersede, StartFails, BeginFail, FailOrphan,
         FailNotifies, Retain, LoseReaper
<1> QED
  BY <1>1, <1>2, <1>3, <1>4

LEMMA ReaperMoves ==
    ASSUME TaskInv, Next, NEW r \in Reapers, reaper'[r] # reaper[r]
    PROVE  \/ Scan(r) \/ Get(r) \/ Supersede(r) \/ Start(r) \/ StartFails(r) \/ BeginFail(r)
           \/ FailOrphan(r) \/ FailNotifies(r) \/ Retain(r) \/ LoseReaper(r)
<1>0. reaper \in [Reapers -> ReaperStates]
  BY DEF TaskInv, TypeOK
<1>1. ASSUME NEW p \in Reapers,
             \/ Scan(p) \/ Get(p) \/ Supersede(p) \/ Start(p) \/ StartFails(p) \/ BeginFail(p)
             \/ FailOrphan(p) \/ FailNotifies(p) \/ Retain(p) \/ LoseReaper(p)
      PROVE  p = r
  <2>1. \E s : reaper' = [reaper EXCEPT ![p] = s]
    BY <1>0, <1>1 DEF Scan, Get, Supersede, Start, StartFails, BeginFail, FailOrphan, FailNotifies,
       Retain, LoseReaper
  <2> QED
    BY <1>0, <2>1
<1>2. \/ UNCHANGED reaper
      \/ \E p \in Reapers : \/ Scan(p) \/ Get(p) \/ Supersede(p) \/ Start(p) \/ StartFails(p)
                            \/ BeginFail(p) \/ FailOrphan(p) \/ FailNotifies(p) \/ Retain(p)
                            \/ LoseReaper(p)
  BY DEF Next, Spawn, RequestCancel, GoStale, Heartbeat, PollCancel, ToolEnds, WriteArtifacts, Mirror,
         MirrorNotifies, LoseRun
<1> QED
  BY <1>1, <1>2

LEMMA FreshStep == TaskInv /\ FreshInv /\ [Next]_vars => FreshInv'
<1> USE SessionTasksAssumption
<1> SUFFICES ASSUME TaskInv, FreshInv, [Next]_vars PROVE FreshInv'
  OBVIOUS
<1> SUFFICES ASSUME Next PROVE FreshInv'
  <2>1. UNCHANGED vars => FreshInv'
    BY DEF vars, FreshInv
  <2> QED
    BY <2>1
<1>0. /\ row \in Rows /\ row.attempt \in Nat /\ row.attempt >= 1 /\ row'.attempt \in Nat
      /\ run \in [Runs -> RunStates] /\ reaper \in [Reapers -> ReaperStates]
      /\ \A p \in Reapers : reaper[p].snap \in Nat
      /\ \A k \in Runs : k.attempt \in Nat
  BY RowMoves DEF TaskInv, TypeOK, Rows, ReaperStates, Runs
<1>1. ASSUME NEW j \in Runs, run[j].pc = "none", run'[j].pc # "none"
      PROVE  \/ Spawn /\ j = [attempt |-> 1, by |-> Spawner]
             \/ \E p \in Reapers : Start(p) /\ j = [attempt |-> reaper[p].snap + 1, by |-> p]
  BY <1>1, RunMoves
<1>2. ASSUME NEW j \in Runs, run'[j].pc # "none", row'.state # "pruned"
      PROVE  j.attempt <= row'.attempt
  <2>1. row.state # "pruned" /\ row.attempt <= row'.attempt
    BY <1>2, AttemptGrows
  <2>2. CASE run[j].pc # "none"
    BY <1>0, <2>1, <2>2 DEF FreshInv
  <2>3. CASE run[j].pc = "none"
    <3>1. j.attempt <= row.attempt
      <4>1. CASE j = [attempt |-> 1, by |-> Spawner]
        BY <1>0, <4>1
      <4>2. ASSUME NEW p \in Reapers, Start(p), j = [attempt |-> reaper[p].snap + 1, by |-> p]
            PROVE  j.attempt <= row.attempt
        BY <2>1, <4>2 DEF Start, FreshInv
      <4> QED
        BY <1>1, <1>2, <2>3, <4>1, <4>2
    <3> QED
      BY <1>0, <2>1, <3>1
  <2> QED
    BY <2>2, <2>3
<1>3. ASSUME NEW r \in Reapers, reaper'[r].pc \in {"supersede", "start"}, reaper'[r] # reaper[r]
      PROVE  \/ Get(r) /\ Present /\ reaper'[r].snap = row.attempt /\ reaper'[r].pc = "supersede"
             \/ Supersede(r) /\ reaper'[r].snap = reaper[r].snap /\ reaper'[r].pc = "start"
                /\ row'.attempt = reaper[r].snap + 1
  <2>1. IdleReaper.pc = "idle" /\ Retaining.pc = "retain"
    BY DEF IdleReaper, Retaining
  <2>2. CASE Get(r)
    <3>1. Present /\ row.state \notin Terminal
      BY <1>0, <1>3, <2>1, <2>2 DEF Get
    <3>2. reaper'[r] = [reaper[r] EXCEPT !.snap = row.attempt, !.bump = ~Reattachable,
                                         !.pc = IF Reattachable THEN "supersede" ELSE "fail"]
      BY <1>0, <2>2, <3>1 DEF Get
    <3>3. reaper'[r].snap = row.attempt /\ reaper'[r].pc \in {"supersede", "fail"}
      BY <1>0, <3>2 DEF ReaperStates
    <3> QED
      BY <1>3, <2>2, <3>1, <3>3
  <2>3. CASE Supersede(r)
    <3>1. row'.attempt = reaper[r].snap + 1 /\ reaper'[r] = [reaper[r] EXCEPT !.pc = "start"]
      BY <1>0, <1>3, <2>1, <2>3 DEF Supersede
    <3> QED
      BY <1>0, <2>3, <3>1 DEF ReaperStates
  <2>4. Scan(r) => reaper'[r].pc \in {"get", "retain"}
    BY <1>0 DEF Scan, ReaperStates
  <2>5. StartFails(r) \/ BeginFail(r) => reaper'[r].pc \in {"fail", "commit"}
    BY <1>0 DEF StartFails, BeginFail, ReaperStates
  <2>6. Start(r) \/ FailNotifies(r) \/ Retain(r) \/ LoseReaper(r) => reaper'[r].pc \in {"idle", "retain"}
    BY <1>0, <2>1 DEF Start, FailNotifies, Retain, LoseReaper
  <2>7. FailOrphan(r) => reaper'[r].pc \in {"notify", "retain"}
    BY <1>0, <2>1 DEF FailOrphan, ReaperStates
  <2> QED
    BY <1>3, <2>2, <2>3, <2>4, <2>5, <2>6, <2>7, ReaperMoves
<1>4. ASSUME NEW r \in Reapers, reaper'[r].pc = "start", row'.state # "pruned"
      PROVE  reaper'[r].snap + 1 <= row'.attempt
  <2>1. row.state # "pruned" /\ row.attempt <= row'.attempt
    BY <1>4, AttemptGrows
  <2>2. CASE reaper'[r] = reaper[r]
    BY <1>0, <1>4, <2>1, <2>2 DEF FreshInv
  <2>3. CASE reaper'[r] # reaper[r]
    BY <1>0, <1>3, <1>4, <2>3
  <2> QED
    BY <2>2, <2>3
<1>5. ASSUME NEW r \in Reapers, reaper'[r].pc \in {"supersede", "start"},
             NEW j \in Runs, j.by = r, j.attempt > reaper'[r].snap
      PROVE  run'[j].pc = "none"
  <2>1. run[j].pc = "none"
    <3>1. CASE reaper'[r] = reaper[r]
      BY <1>5, <3>1 DEF FreshInv
    <3>2. CASE Get(r) /\ Present /\ reaper'[r].snap = row.attempt
      BY <1>0, <1>5, <3>2 DEF FreshInv, Present
    <3>3. CASE Supersede(r) /\ reaper'[r].snap = reaper[r].snap
      BY <1>5, <3>3 DEF FreshInv, Supersede
    <3> QED
      BY <1>3, <1>5, <3>1, <3>2, <3>3
  <2>2. j # [attempt |-> 1, by |-> Spawner]
    BY <1>5
  <2>3. ASSUME NEW p \in Reapers, Start(p), j = [attempt |-> reaper[p].snap + 1, by |-> p] PROVE FALSE
    <3>1. p = r
      BY <1>5, <2>3
    <3>2. reaper'[r].pc = "retain"
      BY <1>0, <2>3, <3>1 DEF Start, Retaining, IdleReaper
    <3> QED
      BY <1>5, <3>2
  <2> QED
    BY <1>1, <2>1, <2>2, <2>3
<1> QED
  BY <1>2, <1>4, <1>5 DEF FreshInv

-----------------------------------------------------------------------------
(* Whoever is to report an end does, or is lost *)

LEMMA NotifierStays ==
    ASSUME TaskInv, FreshInv, Next, row.state # "absent"
    PROVE  /\ \A j \in Runs : run[j].pc = "notify" => \/ run'[j].pc = "notify"
                                                      \/ notified' = notified + 1 \/ missed'
           /\ \A r \in Reapers : reaper[r].pc = "notify" => \/ reaper'[r].pc = "notify"
                                                            \/ notified' = notified + 1 \/ missed'
<1>1. ASSUME NEW j \in Runs, run[j].pc = "notify", run'[j].pc # "notify"
      PROVE  notified' = notified + 1 \/ missed'
  <2>1. ~Spawn
    BY DEF Spawn
  <2>2. ASSUME NEW p \in Reapers, Start(p), j = [attempt |-> reaper[p].snap + 1, by |-> p] PROVE FALSE
    <3>1. reaper[p].snap \in Nat
      BY DEF TaskInv, TypeOK, ReaperStates
    <3>2. j.by = p /\ j.attempt > reaper[p].snap /\ reaper[p].pc = "start"
      BY <2>2, <3>1 DEF Start
    <3> QED
      BY <1>1, <3>2 DEF FreshInv
  <2>3. MirrorNotifies(j) \/ LoseRun(j)
    BY <1>1, <2>1, <2>2, RunMoves DEF Heartbeat, PollCancel, ToolEnds, WriteArtifacts, Mirror
  <2> QED
    BY <1>1, <2>3 DEF MirrorNotifies, LoseRun, Told, Untold
<1>2. ASSUME NEW r \in Reapers, reaper[r].pc = "notify", reaper'[r].pc # "notify"
      PROVE  notified' = notified + 1 \/ missed'
  <2>1. FailNotifies(r) \/ LoseReaper(r)
    BY <1>2, ReaperMoves DEF Scan, Get, Supersede, Start, StartFails, BeginFail, FailOrphan, Retain
  <2> QED
    BY <1>2, <2>1 DEF FailNotifies, LoseReaper, Told, Untold
<1> QED
  BY <1>1, <1>2

(* The update that ends a task is to report it, or read nothing before. *)
LEMMA EnderReports ==
    ASSUME TaskInv, PriorInv, Next, row.state \notin Terminal, row'.state \in Terminal
    PROVE  \/ blind'
           \/ \E k \in Runs : run'[k].pc = "notify"
           \/ \E p \in Reapers : reaper'[p].pc = "notify"
<1> USE SessionTasksAssumption
<1>0. /\ row \in Rows /\ RowInv
      /\ run \in [Runs -> RunStates] /\ reaper \in [Reapers -> ReaperStates]
  BY DEF TaskInv, TypeOK
<1>1. ASSUME NEW k \in Runs, Mirror(k) PROVE blind' \/ run'[k].pc = "notify"
  <2>1. Present
    BY <1>1 DEF Mirror, Finish, Write
  <2>2. run[k].prior # "ended"
    BY <1>1, <2>1 DEF Mirror, PriorInv, Present
  <2>3. CASE run[k].prior = "unknown"
    BY <1>1, <2>3 DEF Mirror, Finish
  <2>4. CASE run[k].prior = "live"
    <3>1. Tells(run[k].prior)
      BY <2>1, <2>4 DEF Tells
    <3>2. run'[k] = [run[k] EXCEPT !.pc = "notify"]
      BY <1>0, <1>1, <3>1 DEF Mirror
    <3> QED
      BY <1>0, <3>2 DEF RunStates
  <2> QED
    BY <1>0, <2>2, <2>3, <2>4 DEF RunStates, Priors
<1>2. ASSUME NEW p \in Reapers, FailOrphan(p) PROVE blind' \/ reaper'[p].pc = "notify"
  <2>1. Present
    BY <1>2 DEF FailOrphan, Finish, Write
  <2>2. reaper[p].prior # "ended"
    BY <1>2, <2>1 DEF FailOrphan, PriorInv, Present
  <2>3. CASE reaper[p].prior = "unknown"
    BY <1>2, <2>3 DEF FailOrphan, Finish
  <2>4. CASE reaper[p].prior = "live"
    <3>1. Tells(reaper[p].prior)
      BY <2>1, <2>4 DEF Tells
    <3>2. reaper'[p] = [reaper[p] EXCEPT !.pc = "notify"]
      BY <1>0, <1>2, <3>1 DEF FailOrphan
    <3> QED
      BY <1>0, <3>2 DEF ReaperStates
  <2> QED
    BY <1>0, <2>2, <2>3, <2>4 DEF ReaperStates, Priors
<1>3. ASSUME NEW k \in Runs, Write(Beating(k)) PROVE FALSE
  BY <1>0, <1>3, UpdatesOfModel, WriteKeeps DEF TaskInv, Terminal
<1>4. ASSUME NEW p \in Reapers, Supersede(p) PROVE FALSE
  <2>1. Write(Superseding(p)) /\ reaper[p].snap \in 1..MaxAttempts - 1
    BY <1>4 DEF Supersede, Superseding, TaskInv, SnapInv
  <2>2. reaper[p].snap \in 1..MaxAttempts /\ reaper[p].snap < MaxAttempts
    BY <2>1
  <2> QED
    BY <2>1, <2>2, <1>0, UpdatesOfModel, WriteKeeps DEF TaskInv, Terminal
<1>5. ~(Spawn \/ RequestCancel \/ GoStale \/ \E p \in Reapers : Retain(p))
  BY <1>0 DEF Spawn, RequestCancel, GoStale, Retain, Rows, NoRow, Terminal
<1>6. ~UNCHANGED row
  OBVIOUS
<1>7. UNCHANGED row \/ Spawn \/ RequestCancel \/ GoStale
      \/ (\E k \in Runs : Write(Beating(k)) \/ Mirror(k))
      \/ (\E p \in Reapers : Supersede(p) \/ FailOrphan(p) \/ Retain(p))
  BY DEF Next, Heartbeat, Beating, PollCancel, ToolEnds, WriteArtifacts, MirrorNotifies, LoseRun, Scan,
         Get, Start, StartFails, BeginFail, FailNotifies, LoseReaper
<1> QED
  BY <1>1, <1>2, <1>3, <1>4, <1>5, <1>6, <1>7

LEMMA ReportsStep ==
    TaskInv /\ PriorInv /\ FreshInv /\ EndsAreReported /\ [Next]_vars => EndsAreReported'
<1> SUFFICES ASSUME TaskInv, PriorInv, FreshInv, EndsAreReported, [Next]_vars PROVE EndsAreReported'
  OBVIOUS
<1>1. CASE UNCHANGED vars
  BY <1>1 DEF vars, EndsAreReported
<1>2. CASE Next /\ row'.state \in Terminal /\ row.state \notin Terminal
  BY <1>2, EnderReports DEF EndsAreReported
<1>3. CASE Next /\ row.state \in Terminal
  <2>1. notified \in Nat /\ notified' \in Nat /\ notified' >= notified
        /\ (blind => blind') /\ (missed => missed')
    BY <1>3, HistoryTyped DEF TaskInv, TypeOK
  <2>2. CASE notified > 0 \/ blind \/ missed
    BY <2>1, <2>2 DEF EndsAreReported
  <2>3. CASE \/ \E k \in Runs : run[k].pc = "notify"
             \/ \E p \in Reapers : reaper[p].pc = "notify"
    <3>1. \/ notified' = notified + 1 \/ missed'
          \/ \E k \in Runs : run'[k].pc = "notify"
          \/ \E p \in Reapers : reaper'[p].pc = "notify"
      BY <1>3, <2>3, NotifierStays DEF Terminal
    <3>2. notified + 1 > 0
      BY <2>1
    <3> QED
      BY <3>1, <3>2 DEF EndsAreReported
  <2> QED
    BY <1>3, <2>2, <2>3 DEF EndsAreReported
<1>4. CASE row'.state \notin Terminal
  BY <1>4 DEF EndsAreReported
<1> QED
  BY <1>1, <1>2, <1>3, <1>4

(* Whichever update ends a task, a run's own or a reaper's, its observers are  *)
(* told or about to be told, unless that update could not read the task before *)
(* its transaction (session_task_store.rs: that read is best effort) or a      *)
(* process was lost between the commit and the notification.                   *)
THEOREM EndsReported == Spec => []EndsAreReported
<1>1. Init => PriorInv /\ FreshInv /\ EndsAreReported
  BY DEF Init, PriorInv, FreshInv, EndsAreReported, NoRow, NoRun, IdleReaper, Terminal
<1> QED
  BY <1>1, PriorStep, FreshStep, ReportsStep, TaskInvAlways, PTL DEF Spec

=============================================================================
