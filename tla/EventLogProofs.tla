--------------------------- MODULE EventLogProofs ---------------------------
(***************************************************************************)
(* Theorems about EventLog for every number of workflows, appends, claims, *)
(* claimed tasks and tries.                                                *)
(***************************************************************************)
EXTENDS EventLog, FiniteSetTheorems, WellFoundedInduction, TLAPS

(* The two ways to find the number after 0 .. n-1. *)
LEMMA IntervalCount ==
    ASSUME NEW n \in Nat
    PROVE  Cardinality(0 .. (n - 1)) = n
<1>1. Cardinality(0 .. (n - 1)) = IF 0 > n - 1 THEN 0 ELSE (n - 1) - 0 + 1
  BY FS_Interval
<1> QED
  BY <1>1

LEMMA IntervalMax ==
    ASSUME NEW n \in Nat \ {0}
    PROVE  Max(0 .. (n - 1)) = n - 1
<1> DEFINE S == 0 .. (n - 1)
<1>1. n - 1 \in S /\ \A y \in S : n - 1 >= y
  OBVIOUS
<1>2. Max(S) \in S /\ \A y \in S : Max(S) >= y
  BY <1>1 DEF Max
<1> QED
  BY <1>1, <1>2

-----------------------------------------------------------------------------
(* The inductive invariant.  LogIsSequence depends on every uncommitted row    *)
(* having the next number, hence on there being one per workflow at most, and  *)
(* on nobody committing between a claim's MAX and its commit, hence on locks.  *)

N(f) == Cardinality(log[f])

Dense == \A f \in Flows : N(f) \in Nat /\ log[f] = 0 .. (N(f) - 1)

AppendSeqs == \A a \in Appends :
    /\ append[a].pc = "insert" => append[a].seq <= N(FlowOf[a])
    /\ append[a].pc = "check" => append[a].seq = N(FlowOf[a])

OnePending == \A f \in Flows :
    /\ \A a, b \in Appends : PendingAppend(a, f) /\ PendingAppend(b, f) => a = b
    /\ \A a \in Appends, c \in Claims : ~(PendingAppend(a, f) /\ PendingClaim(c, f))

LocksHeld == \A c \in Claims :
    /\ claim[c].pc \in {"read", "write"} => \A f \in FlowsOf(c) : holder[f] = c
    /\ claim[c].written \subseteq FlowsOf(c)
    /\ claim[c].pc \in {"lock", "read"} => claim[c].written = {}

TriesLeft == \A a \in Appends :
    append[a].pc \in {"count", "insert", "check"} => append[a].tries < MaxTries

LogInv == TypeOK /\ Dense /\ AppendSeqs /\ OnePending /\ LocksHeld /\ TriesLeft /\ ClaimNeverConflicts

LEMMA LogInvInit == Init => LogInv
<1> SUFFICES ASSUME Init PROVE LogInv
  OBVIOUS
<1>1. TypeOK
  BY EventLogAssumption DEF Init, TypeOK, AppendStates, ClaimStates
<1>2. Dense
  <2>1. 0 .. (2 - 1) = {0, 1}
    OBVIOUS
  <2>2. Cardinality({0, 1}) = 2
    BY <2>1, IntervalCount
  <2>3. \A f \in Flows : log[f] = {0, 1} /\ N(f) = 2
    BY <2>2 DEF Init, N
  <2>4. ASSUME NEW f \in Flows PROVE log[f] = 0 .. (N(f) - 1)
    <3>1. N(f) - 1 = 1 /\ 0 .. 1 = {0, 1}
      BY <2>3
    <3> QED
      BY <2>3, <3>1, Zenon
  <2> QED
    BY <2>3, <2>4 DEF Dense
<1>3. AppendSeqs /\ OnePending /\ LocksHeld /\ TriesLeft /\ ClaimNeverConflicts
  BY EventLogAssumption
     DEF Init, AppendSeqs, OnePending, LocksHeld, TriesLeft, ClaimNeverConflicts,
         PendingAppend, PendingClaim
<1> QED
  BY <1>1, <1>2, <1>3 DEF LogInv

(* Constants and the types of what the proofs compute with. *)
LEMMA Types ==
    ASSUME LogInv
    PROVE  /\ \A a \in Appends : /\ FlowOf[a] \in Flows
                                 /\ append[a].seq \in Nat
                                 /\ append[a].tries \in 0..MaxTries
           /\ \A c \in Claims, f \in Flows : /\ Started[c][f] \in Nat
                                             /\ claim[c].next[f] \in Nat
                                             /\ f \in FlowsOf(c) => Started[c][f] > 0
           /\ \A f \in Flows : N(f) \in Nat
           /\ MaxTries \in Nat \ {0}
BY EventLogAssumption DEF LogInv, TypeOK, Dense, FlowsOf

(* Where the invariant has f's log end. *)
LEMMA NotInLog ==
    ASSUME LogInv, NEW f \in Flows, NEW n \in Nat
    PROVE  n \in log[f] <=> n < N(f)
BY Types DEF LogInv, Dense

(* An append or a claim commits k >= 0 events from the next number on. *)
LEMMA DenseGrows ==
    ASSUME LogInv, NEW f \in Flows, NEW k \in Nat,
           NEW T, T = log[f] \cup (N(f) .. (N(f) + k - 1))
    PROVE  T = 0 .. (N(f) + k - 1) /\ Cardinality(T) = N(f) + k
<1>1. N(f) \in Nat /\ log[f] = 0 .. (N(f) - 1)
  BY DEF LogInv, Dense
<1>2. T = 0 .. (N(f) + k - 1)
  BY <1>1
<1>3. N(f) + k \in Nat /\ (N(f) + k) - 1 = N(f) + k - 1
  BY <1>1
<1>4. Cardinality(0 .. ((N(f) + k) - 1)) = N(f) + k
  BY <1>3, IntervalCount
<1> QED
  BY <1>2, <1>3, <1>4, Zenon

(* A step of one call leaves the others alone. *)
OnlyAppend(a) == \A b \in Appends \ {a} : append'[b] = append[b]

-----------------------------------------------------------------------------
(* append_event *)

LEMMA CountStep ==
    ASSUME LogInv, NEW a \in Appends, Count(a)
    PROVE  LogInv'
<1> USE DEF LogInv
<1>1. /\ log' = log /\ claim' = claim /\ holder' = holder /\ rivals' = rivals
      /\ append[a].pc = "count"
  BY DEF Count
<1>2. /\ append'[a].pc = "insert" /\ append'[a].seq = N(FlowOf[a])
      /\ append'[a].tries = append[a].tries
      /\ OnlyAppend(a)
  BY DEF Count, NextByCount, N, TypeOK, OnlyAppend
<1>4. N(FlowOf[a]) \in Nat
  BY Types
<1>5. TypeOK'
  BY ZenonT(60), <1>1, <1>4 DEF TypeOK, AppendStates, Count, NextByCount, N
<1>3. Dense' /\ AppendSeqs' /\ OnePending' /\ LocksHeld' /\ TriesLeft' /\ ClaimNeverConflicts'
  BY <1>1, <1>2, <1>4 DEF OnlyAppend, Dense, AppendSeqs, OnePending, LocksHeld, TriesLeft,
     ClaimNeverConflicts, PendingAppend, PendingClaim, FlowsOf, N
<1> QED
  BY <1>3, <1>5

(* An insert that does not conflict has the next number, and is alone. *)
LEMMA InsertIsNext ==
    ASSUME LogInv, NEW a \in Appends, Insert(a), append[a].seq \notin log[FlowOf[a]]
    PROVE  /\ append[a].seq = N(FlowOf[a])
           /\ \A b \in Appends : ~PendingAppend(b, FlowOf[a])
           /\ \A c \in Claims : ~PendingClaim(c, FlowOf[a])
<1> DEFINE f == FlowOf[a]
<1>0. f \in Flows /\ append[a].seq \in Nat /\ N(f) \in Nat
  BY Types
<1>1. append[a].seq = N(f)
  <2>1. append[a].seq <= N(f)
    BY DEF LogInv, AppendSeqs, Insert
  <2> QED
    BY <1>0, <2>1, NotInLog
<1>2. ~Occupied(a, f, append[a].seq) /\ append[a].pc = "insert"
  BY DEF Insert
<1>3. ASSUME NEW b \in Appends, PendingAppend(b, f) PROVE FALSE
  <2>1. append[b].seq = N(f)
    BY <1>3 DEF LogInv, AppendSeqs, PendingAppend
  <2>2. b # a
    BY <1>2, <1>3 DEF PendingAppend
  <2> QED
    BY <1>1, <1>2, <1>3, <2>1, <2>2 DEF Occupied
<1>4. ASSUME NEW c \in Claims, PendingClaim(c, f) PROVE FALSE
  <2>1. f \in FlowsOf(c)
    BY <1>4 DEF LogInv, LocksHeld, PendingClaim
  <2>2. claim[c].next[f] = N(f)
    BY <1>0, <1>4, <2>1 DEF LogInv, ClaimNeverConflicts, PendingClaim, N
  <2>3. N(f) \in StartedSeqs(c, f)
    BY <1>0, <2>1, <2>2, Types DEF StartedSeqs
  <2> QED
    BY <1>1, <1>2, <1>4, <2>3 DEF Occupied
<1> QED
  BY <1>1, <1>3, <1>4

LEMMA InsertStep ==
    ASSUME LogInv, NEW a \in Appends, Insert(a)
    PROVE  LogInv'
<1> USE DEF LogInv
<1>0. append[a].pc = "insert" /\ append[a].tries < MaxTries
  BY DEF Insert, TriesLeft
<1>1. /\ log' = log /\ claim' = claim /\ holder' = holder /\ rivals' = rivals
      /\ Dense' /\ LocksHeld' /\ ClaimNeverConflicts'
  BY DEF Insert, Dense, LocksHeld, ClaimNeverConflicts, FlowsOf, N
<1>2. CASE append[a].seq \in log[FlowOf[a]]
  <2>1. append' = [append EXCEPT ![a] = AfterConflict(a)]
    BY <1>2 DEF Insert
  <2>2. AfterConflict(a) \in [pc : AppendStates, seq : Nat, tries : 0..MaxTries]
    <3>1. append[a].tries + 1 \in 0..MaxTries
      BY <1>0, Types
    <3> QED
      BY ZenonT(60), <3>1 DEF AfterConflict, TypeOK, AppendStates
  <2>3. /\ append'[a].pc \in {"count", "lost"}
        /\ append'[a].tries = append[a].tries + 1
        /\ append'[a].pc = "count" => append[a].tries + 1 < MaxTries
        /\ OnlyAppend(a)
    BY <2>1 DEF AfterConflict, TypeOK, OnlyAppend
  <2>4. TypeOK'
    BY <1>1, <2>1, <2>2 DEF TypeOK
  <2>5. AppendSeqs' /\ OnePending' /\ TriesLeft'
    BY <1>1, <2>3 DEF OnlyAppend, AppendSeqs, OnePending, TriesLeft, PendingAppend,
       PendingClaim, N
  <2> QED
    BY <1>1, <2>4, <2>5
<1>3. CASE append[a].seq \notin log[FlowOf[a]]
  <2>1. append' = [append EXCEPT ![a] = [append[a] EXCEPT !.pc = "check"]]
    BY <1>3 DEF Insert
  <2>2. TypeOK'
    BY <1>1, <2>1 DEF TypeOK, AppendStates
  <2>3. /\ append'[a].pc = "check" /\ append'[a].seq = append[a].seq
        /\ append'[a].tries = append[a].tries /\ OnlyAppend(a)
    BY <2>1 DEF TypeOK, OnlyAppend
  <2>4. AppendSeqs' /\ TriesLeft'
    BY <1>0, <1>1, <1>3, <2>3, InsertIsNext DEF OnlyAppend, AppendSeqs, TriesLeft, N
  <2>5. OnePending'
    <3>1. /\ \A b \in Appends : ~PendingAppend(b, FlowOf[a])
          /\ \A c \in Claims : ~PendingClaim(c, FlowOf[a])
      BY <1>3, InsertIsNext
    <3> QED
      BY <1>1, <2>3, <3>1 DEF OnlyAppend, OnePending, PendingAppend, PendingClaim
  <2> QED
    BY <1>1, <2>2, <2>4, <2>5
<1> QED
  BY <1>2, <1>3

(* An append that commits adds one event to its workflow. *)
LEMMA CommitGrows ==
    ASSUME LogInv, NEW a \in Appends, Commit(a)
    PROVE  /\ log'[FlowOf[a]] = 0 .. (N(FlowOf[a]) + 1 - 1)
           /\ N(FlowOf[a])' = N(FlowOf[a]) + 1
           /\ \A g \in Flows \ {FlowOf[a]} : N(g)' = N(g)
<1> DEFINE f == FlowOf[a]
<1>0. f \in Flows /\ append[a].seq = N(f) /\ N(f) \in Nat
  BY Types DEF Commit, AppendSeqs, LogInv
<1>1. log'[f] = log[f] \cup {N(f)}
  BY <1>0 DEF Commit, TypeOK, LogInv
<1>2. log'[f] = log[f] \cup (N(f) .. (N(f) + 1 - 1))
  <2>1. N(f) .. (N(f) + 1 - 1) = {N(f)}
    BY <1>0
  <2> QED
    BY <1>1, <2>1, Zenon
<1>3. log'[f] = 0 .. (N(f) + 1 - 1) /\ N(f)' = N(f) + 1
  BY <1>0, <1>2, DenseGrows DEF N
<1>4. \A g \in Flows \ {f} : N(g)' = N(g)
  BY DEF Commit, TypeOK, LogInv, N
<1> QED
  BY <1>3, <1>4

(* While an append's row is inserted nobody else has one, and if the workflow *)
(* is not locked, no claim is between its MAX and its commit there.           *)
LEMMA CommitStep ==
    ASSUME LogInv, NEW a \in Appends, Commit(a)
    PROVE  LogInv'
<1> DEFINE f == FlowOf[a]
<1> USE DEF LogInv
<1>0. /\ f \in Flows /\ append[a].pc = "check" /\ holder[f] = NoClaim
      /\ append[a].seq = N(f) /\ N(f) \in Nat
  BY Types DEF Commit, AppendSeqs
<1>1. /\ claim' = claim /\ holder' = holder /\ LocksHeld'
      /\ append'[a].pc = "done" /\ OnlyAppend(a)
      /\ \A g \in Flows \ {f} : log'[g] = log[g]
  BY DEF Commit, LocksHeld, OnlyAppend, TypeOK, FlowsOf
<1>3. log'[f] = 0 .. (N(f) + 1 - 1) /\ N(f)' = N(f) + 1
  BY CommitGrows
<1>4. \A g \in Flows \ {f} : N(g)' = N(g)
  BY CommitGrows
<1>5. TypeOK'
  BY <1>0, Types DEF TypeOK, Commit, AppendStates
<1>6. Dense'
  <2>1. log'[f] = 0 .. (N(f)' - 1) /\ N(f)' \in Nat
    BY <1>0, <1>3
  <2> QED
    BY <1>1, <1>4, <2>1 DEF Dense
<1>7. AppendSeqs'
  BY <1>0, <1>1, <1>3, <1>4, Types DEF OnlyAppend, AppendSeqs, OnePending, PendingAppend
<1>8. OnePending' /\ TriesLeft'
  BY <1>0, <1>1 DEF OnlyAppend, OnePending, TriesLeft, PendingAppend, PendingClaim
<1>9. ClaimNeverConflicts'
  <2>1. \A c \in Claims : claim[c].pc = "write" => f \notin FlowsOf(c)
    BY <1>0, EventLogAssumption DEF LocksHeld
  <2> QED
    BY <1>1, <1>4, <2>1 DEF ClaimNeverConflicts, FlowsOf, N
<1> QED
  BY <1>1, <1>5, <1>6, <1>7, <1>8, <1>9

LEMMA AppendFailsStep ==
    ASSUME LogInv, NEW a \in Appends, AppendFails(a)
    PROVE  LogInv'
<1> USE DEF LogInv
<1>1. /\ log' = log /\ claim' = claim /\ holder' = holder
      /\ append'[a].pc = "error" /\ OnlyAppend(a)
  BY DEF AppendFails, OnlyAppend, TypeOK
<1>2. TypeOK'
  BY DEF AppendFails, TypeOK, AppendStates
<1>3. Dense' /\ AppendSeqs' /\ OnePending' /\ LocksHeld' /\ TriesLeft' /\ ClaimNeverConflicts'
  BY <1>1 DEF OnlyAppend, Dense, AppendSeqs, OnePending, LocksHeld, TriesLeft,
     ClaimNeverConflicts, PendingAppend, PendingClaim, FlowsOf, N
<1> QED
  BY <1>2, <1>3

-----------------------------------------------------------------------------
(* claim_task *)

(* A step of one claim leaves the others alone. *)
OnlyClaim(c) == \A d \in Claims \ {c} : claim'[d] = claim[d]

LEMMA LockStep ==
    ASSUME LogInv, NEW c \in Claims, NEW f \in Flows, Lock(c, f)
    PROVE  LogInv'
<1> USE DEF LogInv
<1>1. /\ log' = log /\ append' = append /\ claim' = claim /\ rivals' = rivals
      /\ claim[c].pc = "lock" /\ holder[f] = NoClaim
      /\ holder' = [holder EXCEPT ![f] = c]
  BY DEF Lock
<1>2. TypeOK'
  BY <1>1 DEF TypeOK
<1>3. LocksHeld'
  BY <1>1, EventLogAssumption DEF LocksHeld, FlowsOf, TypeOK
<1>4. Dense' /\ AppendSeqs' /\ OnePending' /\ TriesLeft' /\ ClaimNeverConflicts'
  BY <1>1 DEF Dense, AppendSeqs, OnePending, TriesLeft, ClaimNeverConflicts, PendingAppend,
     PendingClaim, FlowsOf, N
<1> QED
  BY <1>2, <1>3, <1>4

LEMMA AllLockedStep ==
    ASSUME LogInv, NEW c \in Claims, AllLocked(c)
    PROVE  LogInv'
<1> USE DEF LogInv
<1>1. /\ log' = log /\ append' = append /\ holder' = holder /\ rivals' = rivals
      /\ claim[c].pc = "lock" /\ FlowsOf(c) \subseteq Held(c)
      /\ claim'[c].pc = "read" /\ claim'[c].written = claim[c].written /\ OnlyClaim(c)
  BY DEF AllLocked, Locked, OnlyClaim, TypeOK
<1>2. TypeOK'
  BY ZenonT(60) DEF AllLocked, TypeOK, ClaimStates
<1>3. LocksHeld' /\ OnePending' /\ ClaimNeverConflicts'
  BY <1>1 DEF OnlyClaim, LocksHeld, Held, OnePending, ClaimNeverConflicts, PendingAppend,
     PendingClaim, FlowsOf, N
<1>4. Dense' /\ AppendSeqs' /\ TriesLeft'
  BY <1>1 DEF Dense, AppendSeqs, TriesLeft, N
<1> QED
  BY <1>2, <1>3, <1>4

(* In a log without gaps MAX + 1 is the count. *)
LEMMA NextByMaxIsCount ==
    ASSUME LogInv, NEW f \in Flows
    PROVE  NextByMax(f) = N(f)
<1>1. N(f) \in Nat /\ log[f] = 0 .. (N(f) - 1)
  BY DEF LogInv, Dense
<1>2. CASE N(f) = 0
  <2>1. 0 .. (N(f) - 1) = {}
    BY <1>2
  <2>2. log[f] = {}
    BY <1>1, <2>1, Zenon
  <2> QED
    BY <1>2, <2>2 DEF NextByMax
<1>3. CASE N(f) # 0
  <2>1. 0 \in log[f]
    BY <1>1, <1>3
  <2>2. Max(0 .. (N(f) - 1)) = N(f) - 1
    BY <1>1, <1>3, IntervalMax
  <2>3. Max(log[f]) = N(f) - 1
    BY <1>1, <2>2, Zenon
  <2> QED
    BY <1>1, <2>1, <2>3 DEF NextByMax
<1> QED
  BY <1>2, <1>3

LEMMA ReadMaxStep ==
    ASSUME LogInv, NEW c \in Claims, ReadMax(c)
    PROVE  LogInv'
<1> USE DEF LogInv
<1>1. /\ log' = log /\ append' = append /\ holder' = holder /\ rivals' = rivals
      /\ claim[c].pc = "read"
  BY DEF ReadMax
<1>2. [f \in Flows |-> NextByMax(f)] \in [Flows -> Nat]
  BY NextByMaxIsCount DEF Dense
<1>3. /\ claim'[c].pc = "write" /\ claim'[c].written = claim[c].written
      /\ claim'[c].next = [f \in Flows |-> NextByMax(f)]
      /\ OnlyClaim(c)
  BY DEF ReadMax, OnlyClaim, TypeOK
<1>4. TypeOK'
  BY ZenonT(60), <1>1, <1>2 DEF ReadMax, TypeOK, ClaimStates
<1>5. LocksHeld' /\ Dense' /\ AppendSeqs' /\ TriesLeft'
  BY <1>1, <1>3 DEF OnlyClaim, LocksHeld, FlowsOf, Dense, AppendSeqs, TriesLeft, N
<1>6. ClaimNeverConflicts'
  <2>1. \A f \in Flows : claim'[c].next[f] = N(f)
    BY <1>3, NextByMaxIsCount
  <2> QED
    BY <1>1, <1>3, <2>1 DEF OnlyClaim, ClaimNeverConflicts, FlowsOf, N
<1>7. OnePending'
  <2>1. claim[c].written = {}
    BY <1>1 DEF LocksHeld
  <2> QED
    BY <1>1, <1>3, <2>1 DEF OnlyClaim, OnePending, PendingAppend, PendingClaim
<1> QED
  BY <1>4, <1>5, <1>6, <1>7

(* The rows a claim is about to insert are the next ones: no conflict. *)
LEMMA StartedAreNext ==
    ASSUME LogInv, NEW c \in Claims, NEW f \in Flows, claim[c].pc = "write", f \in FlowsOf(c)
    PROVE  /\ claim[c].next[f] = N(f)
           /\ N(f) \in StartedSeqs(c, f)
           /\ StartedSeqs(c, f) \cap log[f] = {}
           /\ StartedSeqs(c, f) = N(f) .. (N(f) + Started[c][f] - 1)
<1>1. claim[c].next[f] = N(f)
  BY DEF LogInv, ClaimNeverConflicts, N
<1>2. N(f) \in Nat /\ Started[c][f] \in Nat /\ Started[c][f] > 0
  BY Types
<1>3. StartedSeqs(c, f) = N(f) .. (N(f) + Started[c][f] - 1)
  BY <1>1 DEF StartedSeqs
<1>4. log[f] = 0 .. (N(f) - 1)
  BY DEF LogInv, Dense
<1> QED
  BY <1>1, <1>2, <1>3, <1>4

LEMMA InsertStartedStep ==
    ASSUME LogInv, NEW c \in Claims, NEW f \in Flows, InsertStarted(c, f)
    PROVE  LogInv'
<1> USE DEF LogInv
<1>0. claim[c].pc = "write" /\ f \in FlowsOf(c)
  BY DEF InsertStarted
<1>1. StartedSeqs(c, f) \cap log[f] = {} /\ N(f) \in StartedSeqs(c, f)
  BY <1>0, StartedAreNext
<1>2. /\ log' = log /\ append' = append /\ rivals' = rivals /\ holder' = holder
      /\ claim' = [claim EXCEPT ![c].written = @ \cup {f}]
  BY <1>1 DEF InsertStarted
<1>3. /\ claim'[c].pc = "write" /\ claim'[c].written = claim[c].written \cup {f}
      /\ claim'[c].next = claim[c].next
      /\ OnlyClaim(c)
  BY <1>0, <1>2 DEF OnlyClaim, TypeOK
<1>4. TypeOK'
  BY <1>2 DEF TypeOK
<1>5. \A a \in Appends : ~PendingAppend(a, f)
  BY <1>1 DEF InsertStarted, AppendSeqs, PendingAppend
<1>6. OnePending'
  BY <1>0, <1>2, <1>3, <1>5 DEF OnlyClaim, OnePending, PendingAppend, PendingClaim
<1>7. LocksHeld' /\ Dense' /\ AppendSeqs' /\ TriesLeft' /\ ClaimNeverConflicts'
  BY <1>0, <1>2, <1>3 DEF OnlyClaim, LocksHeld, FlowsOf, Dense, AppendSeqs, TriesLeft,
     ClaimNeverConflicts, N
<1> QED
  BY <1>4, <1>6, <1>7

(* A claim that commits adds an event for each task it starts. *)
LEMMA CommitClaimGrows ==
    ASSUME LogInv, NEW c \in Claims, CommitClaim(c), NEW f \in FlowsOf(c)
    PROVE  /\ log'[f] = 0 .. (N(f)' - 1)
           /\ N(f)' \in Nat /\ N(f)' = N(f) + Started[c][f]
<1>0. f \in Flows /\ N(f) \in Nat /\ Started[c][f] \in Nat
  BY Types DEF FlowsOf
<1>1. log'[f] = log[f] \cup StartedSeqs(c, f)
  BY <1>0 DEF CommitClaim, LogInv, TypeOK
<1>2. StartedSeqs(c, f) = N(f) .. (N(f) + Started[c][f] - 1)
  BY <1>0, StartedAreNext DEF CommitClaim
<1>3. log'[f] = log[f] \cup (N(f) .. (N(f) + Started[c][f] - 1))
  BY <1>1, <1>2, Zenon
<1>4. log'[f] = 0 .. (N(f) + Started[c][f] - 1) /\ N(f)' = N(f) + Started[c][f]
  BY <1>0, <1>3, DenseGrows DEF N
<1> QED
  BY <1>0, <1>4

(* While a claim has its rows inserted nobody else has one in those workflows *)
(* and no other claim is past their locks.                                    *)
LEMMA CommitClaimStep ==
    ASSUME LogInv, NEW c \in Claims, CommitClaim(c)
    PROVE  LogInv'
<1> USE DEF LogInv
<1>0. claim[c].pc = "write" /\ claim[c].written = FlowsOf(c) /\ append' = append
  BY DEF CommitClaim
<1>1. /\ claim'[c].pc = "done" /\ claim'[c].written = claim[c].written /\ OnlyClaim(c)
      /\ \A f \in Flows : holder[f] # c => holder'[f] = holder[f]
      /\ \A f \in Flows \ FlowsOf(c) : log'[f] = log[f]
  BY DEF CommitClaim, Unlock, OnlyClaim, TypeOK
<1>2. \A f \in FlowsOf(c) : /\ log'[f] = 0 .. (N(f)' - 1)
                            /\ N(f)' \in Nat /\ N(f)' = N(f) + Started[c][f]
  BY CommitClaimGrows
<1>3. \A f \in Flows \ FlowsOf(c) : N(f)' = N(f)
  BY <1>1 DEF N
<1>4. TypeOK'
  <2>1. log' \in [Flows -> SUBSET Nat]
    <3>1. \A f \in FlowsOf(c) : StartedSeqs(c, f) \subseteq Nat
      BY Types DEF StartedSeqs, FlowsOf
    <3> QED
      BY <3>1 DEF CommitClaim, TypeOK
  <2>2. rivals' \in [Appends -> Nat]
    BY Types DEF CommitClaim, TypeOK
  <2>3. claim' \in [Claims -> [pc : ClaimStates, next : [Flows -> Nat], written : SUBSET Flows]]
    BY DEF CommitClaim, TypeOK, ClaimStates
  <2> QED
    BY <1>0, <2>1, <2>2, <2>3 DEF CommitClaim, Unlock, TypeOK
<1>5. Dense'
  BY <1>1, <1>2, <1>3 DEF Dense
<1>6. \A a \in Appends : append[a].pc = "check" => FlowOf[a] \notin FlowsOf(c)
  BY <1>0, Types DEF OnePending, PendingAppend, PendingClaim
<1>7. AppendSeqs' /\ TriesLeft'
  BY <1>0, <1>2, <1>3, <1>6, Types DEF AppendSeqs, TriesLeft
<1>8. OnePending'
  BY <1>0, <1>1 DEF OnlyClaim, OnePending, PendingAppend, PendingClaim
<1>9. LocksHeld'
  BY <1>0, <1>1 DEF OnlyClaim, LocksHeld, FlowsOf
<1>10. ClaimNeverConflicts'
  <2>1. \A d \in Claims \ {c}, f \in FlowsOf(c) : claim[d].pc = "write" => f \notin FlowsOf(d)
    BY <1>0 DEF LocksHeld
  <2> QED
    BY <1>1, <1>3, <2>1 DEF OnlyClaim, ClaimNeverConflicts, FlowsOf, N
<1> QED
  BY <1>4, <1>5, <1>7, <1>8, <1>9, <1>10

LEMMA ClaimFailsStep ==
    ASSUME LogInv, NEW c \in Claims, ClaimFails(c)
    PROVE  LogInv'
<1> USE DEF LogInv
<1>1. /\ log' = log /\ append' = append /\ rivals' = rivals
      /\ claim'[c].pc = "error" /\ claim'[c].written = claim[c].written /\ OnlyClaim(c)
      /\ \A f \in Flows : holder[f] # c => holder'[f] = holder[f]
  BY DEF ClaimFails, Unlock, OnlyClaim, TypeOK
<1>2. TypeOK'
  BY ZenonT(60), <1>1 DEF ClaimFails, Unlock, TypeOK, ClaimStates
<1>3. LocksHeld' /\ OnePending' /\ ClaimNeverConflicts'
  BY <1>1 DEF OnlyClaim, LocksHeld, OnePending, ClaimNeverConflicts, PendingAppend,
     PendingClaim, FlowsOf, N
<1>4. Dense' /\ AppendSeqs' /\ TriesLeft'
  BY <1>1 DEF Dense, AppendSeqs, TriesLeft, N
<1> QED
  BY <1>2, <1>3, <1>4

-----------------------------------------------------------------------------
LEMMA LogInvStep == LogInv /\ [Next]_vars => LogInv'
<1> SUFFICES ASSUME LogInv, [Next]_vars PROVE LogInv'
  OBVIOUS
<1>1. CASE UNCHANGED vars
  BY <1>1 DEF vars, LogInv, TypeOK, Dense, AppendSeqs, OnePending, LocksHeld, TriesLeft,
     ClaimNeverConflicts, PendingAppend, PendingClaim, FlowsOf, N
<1>2. ASSUME NEW a \in Appends, AppendStep(a) \/ AppendFails(a) PROVE LogInv'
  BY <1>2, CountStep, InsertStep, CommitStep, AppendFailsStep DEF AppendStep
<1>3. ASSUME NEW c \in Claims, ClaimStep(c) \/ ClaimFails(c) PROVE LogInv'
  BY <1>3, LockStep, AllLockedStep, ReadMaxStep, InsertStartedStep, CommitClaimStep,
     ClaimFailsStep DEF ClaimStep
<1> QED
  BY <1>1, <1>2, <1>3 DEF Next

LEMMA LogInvariant == Spec => []LogInv
BY LogInvInit, LogInvStep, PTL DEF Spec

(* Type correctness of the writers and the log.  It needs LogInv: MAX is a   *)
(* number only because the log is finite.                                    *)
THEOREM LogTypeCorrect == Spec => []TypeOK
<1>1. LogInv => TypeOK
  BY DEF LogInv
<1> QED
  BY <1>1, LogInvariant, PTL

(* Sequence numbers have no gaps, whoever writes, fails or is aborted: the    *)
(* COUNT of append_event and the MAX + 1 of claim_task are the same number.   *)
THEOREM NumbersHaveNoGaps == Spec => []LogIsSequence
<1>1. LogInv => LogIsSequence
  BY DEF LogInv, Dense, LogIsSequence, N
<1> QED
  BY <1>1, LogInvariant, PTL

(* claim_task never meets a unique violation. *)
THEOREM ClaimsAreSafe == Spec => []ClaimNeverConflicts
<1>1. LogInv => ClaimNeverConflicts
  BY DEF LogInv
<1> QED
  BY <1>1, LogInvariant, PTL

-----------------------------------------------------------------------------
(* Why a conflict means progress: between the COUNT and the INSERT of a call,  *)
(* the log has grown by no more than what the others committed since.          *)

Lag(a) == N(FlowOf[a]) - append[a].seq

LagInv == \A a \in Appends :
    /\ append[a].tries <= rivals[a]
    /\ append[a].pc = "insert" => append[a].tries + Lag(a) <= rivals[a]

LEMMA LagInvAppend ==
    ASSUME LogInv, LagInv, NEW a \in Appends, AppendStep(a) \/ AppendFails(a)
    PROVE  LagInv'
<1> USE Types
<1>0. \A b \in Appends : rivals[b] \in Nat
  BY DEF LogInv, TypeOK
<1>1. CASE Count(a)
  <2>1. /\ log' = log /\ rivals' = rivals /\ OnlyAppend(a)
        /\ append'[a].seq = N(FlowOf[a]) /\ append'[a].tries = append[a].tries
    BY <1>1 DEF Count, NextByCount, N, LogInv, TypeOK, OnlyAppend
  <2> QED
    BY <1>0, <2>1 DEF LagInv, Lag, N, OnlyAppend
<1>2. CASE Insert(a)
  <2>1. log' = log /\ rivals' = rivals /\ OnlyAppend(a) /\ append[a].pc = "insert"
    BY <1>2 DEF Insert, OnlyAppend, LogInv, TypeOK
  <2>2. CASE append[a].seq \in log[FlowOf[a]]
    <3>1. append'[a].pc # "insert" /\ append'[a].tries = append[a].tries + 1
      BY <1>2, <2>2 DEF Insert, AfterConflict, LogInv, TypeOK
    <3>2. append[a].seq < N(FlowOf[a])
      BY <2>2, NotInLog
    <3>3. append[a].tries + 1 <= rivals[a]
      BY <1>0, <2>1, <3>2 DEF LagInv, Lag
    <3> QED
      BY <2>1, <3>1, <3>3 DEF LagInv, Lag, N, OnlyAppend
  <2>3. CASE append[a].seq \notin log[FlowOf[a]]
    <3>1. append'[a].pc = "check" /\ append'[a].tries = append[a].tries
      BY <1>2, <2>3 DEF Insert, LogInv, TypeOK
    <3> QED
      BY <2>1, <3>1 DEF LagInv, Lag, N, OnlyAppend
  <2> QED
    BY <2>2, <2>3
<1>3. CASE Commit(a)
  <2>1. /\ append'[a].pc = "done" /\ append'[a].tries = append[a].tries /\ OnlyAppend(a)
        /\ rivals'[a] = rivals[a]
        /\ \A b \in Appends \ {a} : rivals'[b] = IF FlowOf[b] = FlowOf[a] THEN rivals[b] + 1 ELSE rivals[b]
    BY <1>3 DEF Commit, LogInv, TypeOK, OnlyAppend
  <2>2. \A b \in Appends : N(FlowOf[b])' = IF FlowOf[b] = FlowOf[a] THEN N(FlowOf[b]) + 1
                                            ELSE N(FlowOf[b])
    BY <1>3, CommitGrows
  <2> QED
    BY <1>0, <2>1, <2>2 DEF LagInv, Lag, OnlyAppend
<1>4. CASE AppendFails(a)
  <2>1. /\ log' = log /\ rivals' = rivals /\ OnlyAppend(a)
        /\ append'[a].pc = "error" /\ append'[a].tries = append[a].tries
    BY <1>4 DEF AppendFails, LogInv, TypeOK, OnlyAppend
  <2> QED
    BY <2>1 DEF LagInv, Lag, N, OnlyAppend
<1> QED
  BY <1>1, <1>2, <1>3, <1>4 DEF AppendStep

LEMMA LagInvClaim ==
    ASSUME LogInv, LagInv, NEW c \in Claims, ClaimStep(c) \/ ClaimFails(c)
    PROVE  LagInv'
<1>1. CASE CommitClaim(c)
  <2>1. /\ append' = append
        /\ \A a \in Appends : rivals'[a] = rivals[a] + Started[c][FlowOf[a]]
    BY <1>1 DEF CommitClaim
  <2>2. \A a \in Appends : N(FlowOf[a])' = N(FlowOf[a]) + Started[c][FlowOf[a]]
    <3> SUFFICES ASSUME NEW a \in Appends
                 PROVE  N(FlowOf[a])' = N(FlowOf[a]) + Started[c][FlowOf[a]]
      OBVIOUS
    <3>1. CASE FlowOf[a] \in FlowsOf(c)
      BY <1>1, <3>1, CommitClaimGrows
    <3>2. CASE FlowOf[a] \notin FlowsOf(c)
      <4>1. Started[c][FlowOf[a]] = 0 /\ FlowOf[a] \in Flows /\ N(FlowOf[a]) \in Nat
        BY <3>2, Types DEF FlowsOf
      <4>2. log'[FlowOf[a]] = log[FlowOf[a]]
        BY <1>1, <3>2, <4>1 DEF CommitClaim
      <4> QED
        BY <4>1, <4>2 DEF N
    <3> QED
      BY <3>1, <3>2
  <2>3. \A a \in Appends : /\ Started[c][FlowOf[a]] \in Nat /\ rivals[a] \in Nat
                           /\ append[a].seq \in Nat /\ append[a].tries \in Nat
                           /\ N(FlowOf[a]) \in Nat
    BY Types DEF LogInv, TypeOK
  <2> QED
    BY <2>1, <2>2, <2>3 DEF LagInv, Lag
<1>2. CASE ~CommitClaim(c)
  <2>1. log' = log /\ append' = append /\ rivals' = rivals
    BY <1>2 DEF ClaimStep, ClaimFails, Lock, AllLocked, ReadMax, InsertStarted
  <2> QED
    BY <2>1 DEF LagInv, Lag, N
<1> QED
  BY <1>1, <1>2

(* A call of append_event loses a try only to an event of somebody else: one  *)
(* that gives up has seen MaxTries of them committed.                         *)
THEOREM ConflictsMeanProgress == Spec => []ConflictMeansProgress
<1>1. Init => LagInv
  <2> SUFFICES ASSUME Init PROVE LagInv
    OBVIOUS
  <2> QED
    BY DEF Init, LagInv
<1>2. LogInv /\ LagInv /\ [Next]_vars => LagInv'
  <2>1. ASSUME LagInv, UNCHANGED vars PROVE LagInv'
    BY <2>1 DEF vars, LagInv, Lag, N
  <2> QED
    BY <2>1, LagInvAppend, LagInvClaim DEF Next
<1>3. LagInv => ConflictMeansProgress
  BY DEF LagInv, ConflictMeansProgress
<1> QED
  BY <1>1, <1>2, <1>3, LogInvariant, PTL DEF Spec

-----------------------------------------------------------------------------
(* Claims wait for claims only.  A claim that still locks holds a prefix of    *)
(* its workflows, so whoever it waits for waits, if at all, for a larger       *)
(* workflow; and only finitely many workflows are locked at a time, which      *)
(* LockInv has as a bound on their ids.                                        *)

Prefix == \A c \in Claims : claim[c].pc = "lock" =>
              \A f \in Flows : holder[f] = c =>
                  f \in FlowsOf(c) /\ \A g \in FlowsOf(c) : holder[g] # c => f < g

Bounded == \E b \in Nat : \A f \in Flows : holder[f] # NoClaim => f <= b

Ended == \A c \in Claims : claim[c].pc \in {"done", "error"} => \A f \in Flows : holder[f] # c

LockInv == Prefix /\ Bounded /\ Ended

LEMMA LockInvStep ==
    ASSUME LogInv, LockInv, [Next]_vars
    PROVE  LockInv'
<1>a. Flows \subseteq Nat /\ NoClaim \notin Claims
  BY EventLogAssumption
<1>b. holder \in [Flows -> Claims \cup {NoClaim}]
  BY DEF LogInv, TypeOK
<1>c. PICK b \in Nat : \A f \in Flows : holder[f] # NoClaim => f <= b
  BY DEF LockInv, Bounded
<1>1. CASE UNCHANGED <<claim, holder>>
  BY <1>1 DEF LockInv, Prefix, Bounded, Ended, FlowsOf
<1>2. ASSUME NEW c \in Claims, NEW f \in Flows, Lock(c, f) PROVE LockInv'
  <2>1. /\ claim' = claim /\ claim[c].pc = "lock" /\ holder[f] = NoClaim
        /\ holder' = [holder EXCEPT ![f] = c]
        /\ f \in FlowsOf(c)
        /\ \A g \in FlowsOf(c) : holder[g] # c => f <= g
    BY <1>2 DEF Lock, NextToLock, Held, FlowsOf
  <2>2. /\ \A g \in Flows : holder'[g] = IF g = f THEN c ELSE holder[g]
        /\ \A d \in Claims : FlowsOf(d) \subseteq Flows
    BY <1>b, <2>1 DEF FlowsOf
  <2>3. Prefix'
    <3> SUFFICES ASSUME NEW d \in Claims, claim[d].pc = "lock", NEW h \in Flows, holder'[h] = d
                 PROVE  h \in FlowsOf(d) /\ \A g \in FlowsOf(d) : holder'[g] # d => h < g
      BY <2>1 DEF Prefix, FlowsOf
    <3>1. CASE h = f
      <4>1. d = c
        BY <2>2, <3>1
      <4>2. ASSUME NEW g \in FlowsOf(d), holder'[g] # d PROVE h < g
        <5>1. g # f /\ holder[g] # c /\ f <= g /\ g \in Nat /\ f \in Nat
          BY <1>a, <2>1, <2>2, <4>1, <4>2
        <5> QED
          BY <3>1, <5>1
      <4> QED
        BY <2>1, <3>1, <4>1, <4>2
    <3>2. CASE h # f
      <4>1. holder[h] = d
        BY <2>2, <3>2
      <4>2. \A g \in FlowsOf(d) : holder'[g] # d => holder[g] # d
        BY <1>a, <2>1, <2>2
      <4> QED
        BY <4>1, <4>2 DEF LockInv, Prefix
    <3> QED
      BY <3>1, <3>2
  <2>4. Bounded'
    <3> DEFINE m == IF f <= b THEN b ELSE f
    <3>1. m \in Nat /\ f <= m /\ b <= m /\ f \in Nat
      BY <1>a
    <3>2. ASSUME NEW g \in Flows, holder'[g] # NoClaim PROVE g <= m
      <4>1. g = f \/ g <= b
        BY <1>c, <2>2, <3>2
      <4>2. g \in Nat
        BY <1>a
      <4> QED
        BY <3>1, <4>1, <4>2
    <3> QED
      BY <3>1, <3>2 DEF Bounded
  <2>5. Ended'
    BY <2>1, <2>2 DEF LockInv, Ended
  <2> QED
    BY <2>3, <2>4, <2>5 DEF LockInv
<1>3. ASSUME NEW c \in Claims,
             claim'[c].pc # "lock", \A d \in Claims \ {c} : claim'[d] = claim[d],
             \/ Unlock(c)
             \/ holder' = holder /\ claim'[c].pc \notin {"done", "error"}
      PROVE  LockInv'
  <2>1. ASSUME NEW g \in Flows
        PROVE  /\ holder'[g] \in {holder[g], NoClaim}
               /\ \A d \in Claims \ {c} : holder'[g] = d <=> holder[g] = d
    BY <1>3, <1>a, <1>b DEF Unlock
  <2>2. Prefix'
    <3> SUFFICES ASSUME NEW d \in Claims, claim'[d].pc = "lock", NEW h \in Flows, holder'[h] = d
                 PROVE  h \in FlowsOf(d) /\ \A g \in FlowsOf(d) : holder'[g] # d => h < g
      BY DEF Prefix, FlowsOf
    <3>1. d # c /\ claim[d].pc = "lock" /\ holder[h] = d
      BY <1>3, <2>1
    <3>2. \A g \in FlowsOf(d) : holder'[g] # d => holder[g] # d
      BY <2>1, <3>1 DEF FlowsOf
    <3> QED
      BY <3>1, <3>2 DEF LockInv, Prefix
  <2>3. Bounded'
    BY <1>c, <2>1 DEF Bounded
  <2>4. Ended'
    <3>1. claim'[c].pc \in {"done", "error"} => \A f \in Flows : holder'[f] # c
      BY <1>3, <1>a, <1>b DEF Unlock
    <3>2. ASSUME NEW d \in Claims \ {c}, claim'[d].pc \in {"done", "error"}, NEW f \in Flows
          PROVE  holder'[f] # d
      BY <1>3, <2>1, <3>2 DEF LockInv, Ended
    <3> QED
      BY <3>1, <3>2 DEF Ended
  <2> QED
    BY <2>2, <2>3, <2>4 DEF LockInv
<1>4. ASSUME NEW c \in Claims, AllLocked(c) \/ ReadMax(c) PROVE LockInv'
  <2>1. /\ holder' = holder /\ claim'[c].pc \in {"read", "write"}
        /\ \A d \in Claims \ {c} : claim'[d] = claim[d]
    BY <1>4 DEF AllLocked, ReadMax, LogInv, TypeOK
  <2> QED
    BY <1>3, <2>1
<1>5. ASSUME NEW c \in Claims, NEW f \in Flows, InsertStarted(c, f) PROVE LockInv'
  <2>1. /\ \/ holder' = holder /\ claim'[c].pc = "write"
           \/ Unlock(c) /\ claim'[c].pc = "error"
        /\ \A d \in Claims \ {c} : claim'[d] = claim[d]
    BY <1>5 DEF InsertStarted, LogInv, TypeOK
  <2> QED
    BY <1>3, <2>1
<1>6. ASSUME NEW c \in Claims, CommitClaim(c) \/ ClaimFails(c) PROVE LockInv'
  <2>1. /\ Unlock(c) /\ claim'[c].pc \in {"done", "error"}
        /\ \A d \in Claims \ {c} : claim'[d] = claim[d]
    BY <1>6 DEF CommitClaim, ClaimFails, LogInv, TypeOK
  <2> QED
    BY <1>3, <2>1
<1>7. ASSUME NEW a \in Appends, AppendStep(a) \/ AppendFails(a) PROVE LockInv'
  BY <1>1, <1>7 DEF AppendStep, Count, Insert, Commit, AppendFails
<1>8. CASE UNCHANGED vars
  BY <1>1, <1>8 DEF vars
<1> QED
  BY <1>2, <1>4, <1>5, <1>6, <1>7, <1>8 DEF Next, ClaimStep

(* A nonempty set of numbers with a bound has a largest one. *)
LEMMA Largest ==
    ASSUME NEW W \in SUBSET Nat, W # {}, NEW b \in Nat, \A n \in W : n <= b
    PROVE  \E n \in W : \A m \in W : m <= n
<1> DEFINE R == OpToRel(<, Nat)
           T == {b - n : n \in W}
<1>1. T \subseteq Nat /\ T # {}
  <2>1. T \subseteq Nat
    OBVIOUS
  <2>2. PICK n \in W : TRUE
    OBVIOUS
  <2>3. b - n \in T
    OBVIOUS
  <2> QED
    BY <2>1, <2>3, Zenon
<1>2. IsWellFoundedOn(R, Nat)
  BY NatLessThanWellFounded
<1>3. PICK x \in T : \A y \in T : <<y, x>> \notin R
  <2> HIDE DEF R, T
  <2> QED
    BY <1>1, <1>2, WFMin
<1>4. ASSUME NEW y \in T PROVE ~(y < x)
  BY <1>1, <1>3, <1>4 DEF OpToRel
<1>5. PICK n \in W : x = b - n
  BY <1>3
<1>6. ASSUME NEW m \in W PROVE m <= n
  <2>1. ~(b - m < b - n)
    BY <1>4, <1>5, <1>6
  <2> QED
    BY <2>1
<1> QED
  BY <1>5, <1>6

(* Whatever the number of claims and workflows, in every set of claims one     *)
(* waits for nobody in the set: the ORDER BY id of the FOR UPDATE query in     *)
(* claim_task keeps claims from deadlocking among themselves.                  *)
THEOREM ClaimsNeverDeadlock == Spec => []ClaimsDoNotDeadlock
<1>1. Init => LockInv
  <2> SUFFICES ASSUME Init PROVE LockInv
    OBVIOUS
  <2>1. \A f \in Flows : holder[f] = NoClaim
    BY DEF Init
  <2> QED
    BY <2>1, EventLogAssumption DEF LockInv, Prefix, Bounded, Ended
<1>2. LogInv /\ LockInv /\ [Next]_vars => LockInv'
  BY LockInvStep
<1>3. LogInv /\ LockInv => ClaimsDoNotDeadlock
  <2> SUFFICES ASSUME LogInv, LockInv, NEW S \in (SUBSET Claims) \ {{}}
               PROVE  \E c \in S : \A d \in S : ~LockWait(c, d)
    BY Zenon DEF ClaimsDoNotDeadlock
  <2> SUFFICES ASSUME \A c \in S : \E d \in S : LockWait(c, d)
               PROVE  FALSE
    BY Zenon
  <2>0. S \in SUBSET Claims /\ S # {}
    OBVIOUS
  <2>a. Flows \subseteq Nat /\ NoClaim \notin Claims
    BY EventLogAssumption
  <2> DEFINE W == {f \in Flows : \E c, d \in S : /\ claim[c].pc = "lock" /\ f \in NextToLock(c)
                                                 /\ holder[f] = d}
  <2>1. W \in SUBSET Nat /\ W # {}
    <3>1. PICK c \in S : TRUE
      BY <2>0
    <3>2. PICK d \in S : LockWait(c, d)
      OBVIOUS
    <3>3. PICK f \in NextToLock(c) : claim[c].pc = "lock" /\ holder[f] = d
      BY <3>2 DEF LockWait
    <3>4. f \in Flows
      BY <3>3 DEF NextToLock, FlowsOf
    <3>5. f \in W
      BY <3>3, <3>4
    <3> QED
      BY <2>a, <3>5
  <2>2. PICK b \in Nat : \A f \in Flows : holder[f] # NoClaim => f <= b
    BY DEF LockInv, Bounded
  <2>3. \A f \in W : f <= b
    BY <2>a, <2>2
  <2>4. PICK f \in W : \A g \in W : g <= f
    <3> HIDE DEF W
    <3> QED
      BY <2>1, <2>3, Largest
  <2>5. PICK d \in S : holder[f] = d
    BY <2>4
  <2>6. PICK e \in S : LockWait(d, e)
    OBVIOUS
  <2>7. PICK g \in NextToLock(d) : claim[d].pc = "lock" /\ holder[g] = e
    BY <2>6 DEF LockWait
  <2>8. g \in W /\ g \in FlowsOf(d) /\ holder[g] # d /\ g \in Nat
    BY <2>7, <2>a DEF NextToLock, FlowsOf, Held
  <2>9. f < g
    BY <2>4, <2>5, <2>7, <2>8 DEF LockInv, Prefix
  <2>10. g <= f /\ f \in Nat
    BY <2>1, <2>4, <2>8
  <2> QED
    BY <2>8, <2>9, <2>10
<1> QED
  BY <1>1, <1>2, <1>3, LogInvariant, PTL DEF Spec
=============================================================================
