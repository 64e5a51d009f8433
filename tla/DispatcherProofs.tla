------------------------- MODULE DispatcherProofs -------------------------
(***************************************************************************)
(* What holds of the dispatcher for every number of workers and tasks, and *)
(* for every bound.  Of all tasks: the types, no row that no claim can     *)
(* take, one worker per resource, the two ways a canceled task comes back, *)
(* the coherence of the rate-limit row and the one way its probe is lost.  *)
(* Of the tasks that a lease or a resource key guards: one worker each,    *)
(* dead letters that were earned, bounces below their cap, successes that  *)
(* stay, and the abstract queue of TaskQueue.                              *)
(***************************************************************************)
EXTENDS DispatcherProperties, FiniteSetTheorems, TLAPS

-----------------------------------------------------------------------------
\* The operators on rows keep their types.

LEMMA NewRowTypes == NoRow \in Row(Workers) /\ EnqueuedRow \in Row(Workers)
  BY DEF EnqueuedRow, NoRow, Row, Status, Lease

LEMMA RowTypes ==
  ASSUME NEW r \in Row(Workers), NEW w \in Workers
  PROVE  /\ Claimed(r, w) \in Row(Workers)
         /\ \A s \in Status : Unleased(r, s) \in Row(Workers)
<1>3. Claimed(r, w) \in Row(Workers)
  <2> DEFINE n == r.attempts + 1
  <2>1. n \in Nat
    BY DEF Row
  <2>2. Claimed(r, w) =
          [r EXCEPT !.status = "running", !.lease_holder = w,
                    !.lease = "future", !.attempts = n]
    BY DEF Claimed, Row
  <2> HIDE DEF n
  <2>3. QED
    BY <2>1, <2>2 DEF Row, Status, Lease
<1>4. ASSUME NEW s \in Status PROVE Unleased(r, s) \in Row(Workers)
  BY DEF Unleased, Row, Lease
<1>5. QED
  BY <1>3, <1>4

LEMMA SettledRowTypes ==
  ASSUME NEW r \in Row(Workers)
  PROVE  /\ MarkSuccess(r) \in Row(Workers)
         /\ MarkPartial(r) \in Row(Workers)
         /\ MarkDeadLetter(r) \in Row(Workers)
         /\ RequeueOnRateLimit(r) \in Row(Workers)
         /\ ReleaseTask(r) \in Row(Workers)
         /\ RetryScheduled(r) \in Row(Workers)
         /\ CancelIfLive(r) \in Row(Workers)
         /\ CancelIfBegun(r) \in Row(Workers)
         /\ StopIfQueued(r) \in Row(Workers)
         /\ ReviveStopped(r) \in Row(Workers)
         /\ \A b \in BOOLEAN : DeadLetterRequeued(r, b) \in Row(Workers)
<1> DEFINE n == Decremented(r.attempts)
<1>1. n \in Nat
  BY DEF Decremented, Row
<1>2. \A s \in Status : /\ Unleased(r, s) \in Row(Workers)
                        /\ UnleasedWithError(r, s) \in Row(Workers)
  BY DEF Unleased, UnleasedWithError, Row, Lease
<1>3. MarkFailed(r) \in Row(Workers)
  BY <1>2 DEF MarkFailed, Status
<1>4. RetryScheduled(r) \in Row(Workers)
  BY <1>3 DEF RetryScheduled, UnleasedWithError, Unleased, Row, Lease, Status
<1>5. RequeueOnRateLimit(r) \in Row(Workers)
  <2> DEFINE m == r.rate_limit_bounces + 1
             u == Unleased(r, "queued")
  <2>1. /\ m \in Nat
        /\ u \in Row(Workers)
        /\ u.attempts = r.attempts
        /\ u.rate_limit_bounces = r.rate_limit_bounces
    BY <1>2 DEF Unleased, Row, Status
  <2>2. RequeueOnRateLimit(r) =
          [u EXCEPT !.rate_limit_bounces = m, !.attempts = n]
    BY <2>1 DEF RequeueOnRateLimit, Row
  <2> HIDE DEF m, n, u
  <2>3. QED
    BY <2>1, <2>2, <1>1 DEF Row, Lease, Status
<1>6. ReleaseTask(r) \in Row(Workers)
  <2> HIDE DEF n
  <2>1. ReleaseTask(r) =
          IF r.status = "running"
          THEN [r EXCEPT !.status = "queued", !.lease_holder = NoWorker,
                         !.lease = "future", !.attempts = n]
          ELSE r
    BY DEF ReleaseTask, n, Row
  <2>2. QED
    BY <2>1, <1>1 DEF Row, Lease, Status
<1>7. \A b \in BOOLEAN : DeadLetterRequeued(r, b) \in Row(Workers)
  BY DEF DeadLetterRequeued, UnleasedWithError, Unleased, Row, Lease, Status
<1>8. StopIfQueued(r) \in Row(Workers) /\ ReviveStopped(r) \in Row(Workers)
  BY DEF StopIfQueued, ReviveStopped, Unleased, Row, Lease, Status
<1>9. QED
  BY <1>2, <1>4, <1>5, <1>6, <1>7, <1>8
     DEF MarkSuccess, MarkPartial, MarkDeadLetter, CancelIfLive, CancelIfBegun,
         Status

LEMMA RateLimitTypes ==
  ASSUME NEW s \in RLState
  PROVE  /\ RLInit \in RLState
         /\ RecordHit(s) \in RLState
         /\ TransitionToProbing(s) \in RLState
         /\ Cleared(s) \in RLState
         /\ ResetConsecutiveHits(s) \in RLState
<1>1. HitCap \in Nat /\ 0 \in 0..HitCap
  BY HitCapAssumption
<1>2. OneMoreHit(s.consecutive_hits) \in 0..HitCap
  BY <1>1 DEF OneMoreHit, RLState
<1>3. RLInit \in RLState
  BY <1>1 DEF RLInit, RLState
<1>4. RecordHit(s) \in RLState
  BY <1>2 DEF RecordHit, RLState
<1>5. TransitionToProbing(s) \in RLState
  BY DEF TransitionToProbing, RLState
<1>6. Cleared(s) \in RLState
  BY <1>1 DEF Cleared, RLState
<1>7. ResetConsecutiveHits(s) \in RLState
  BY <1>1 DEF ResetConsecutiveHits, RLState
<1>8. QED
  BY <1>3, <1>4, <1>5, <1>6, <1>7

\* The loop over the free slots is bounded by the size of the pool.
LEMMA FreeSlots ==
  ASSUME NEW S \in SUBSET Workers
  PROVE  /\ Cardinality(Workers) \in Nat
         /\ Cardinality(S) \in 0..Cardinality(Workers)
         /\ 1 <= Cardinality(Workers)
<1>1. IsFiniteSet(Workers) /\ Workers # {}
  BY PoolAssumption
<1>2. Cardinality(Workers) \in Nat /\ Cardinality(Workers) # 0
  BY <1>1, FS_CardinalityType, FS_EmptySet
<1>3. Cardinality(S) \in Nat /\ Cardinality(S) <= Cardinality(Workers)
  BY <1>1, FS_Subset, FS_CardinalityType
<1>4. QED
  BY <1>2, <1>3

\* Writing a row of the right type keeps the type of the table.
LEMMA SetRowType ==
  ASSUME tasks \in [Tasks -> Row(Workers)],
         NEW t \in Tasks, NEW r \in Row(Workers), SetRow(t, r)
  PROVE  tasks' \in [Tasks -> Row(Workers)]
  BY DEF SetRow

LEMMA BusyWorkerType ==
  ASSUME pool \in [Workers -> Worker], NEW w \in Workers,
         pool[w].phase # "idle"
  PROVE  /\ pool[w] \in [task : Tasks, phase : {"running", "settling"},
                         attempts : Nat, bounces : Nat, stop : BOOLEAN,
                         outcome : Outcomes \union {"none"}]
         /\ pool[w].task \in Tasks
  BY DEF Worker, IdleWorker

LEMMA LeaveType ==
  ASSUME pool \in [Workers -> Worker], tick \in Tick,
         cancel_calls \in [CancelTargets -> CancelCall],
         faults \in 0..MaxFaults, NEW w \in Workers, Leave(w)
  PROVE  /\ pool' \in [Workers -> Worker]
         /\ tick' \in Tick
         /\ cancel_calls' \in [CancelTargets -> CancelCall]
         /\ faults' \in 0..MaxFaults
  BY DEF Leave, Worker

LEMMA TickTypes ==
  /\ AtLaunch \in Tick
  /\ \A k \in Tick : /\ [k EXCEPT !.pc = "gate"] \in Tick
                     /\ [k EXCEPT !.pc = "draining"] \in Tick
                     /\ [k EXCEPT !.pc = "down"] \in Tick
<1>1. 0 \in 0..Cardinality(Workers)
  BY FreeSlots
<1>2. QED
  BY <1>1 DEF AtLaunch, Tick

\* Type correctness: every transaction writes rows, counters and statuses of
\* the tables' types, and the tick never claims more than the pool holds.
THEOREM TypeCorrect == Spec => []TypeOK
<1>1. Init => TypeOK
  <2> SUFFICES ASSUME Init PROVE TypeOK
    OBVIOUS
  <2>1. NoRow \in Row(Workers)
    BY NewRowTypes
  <2>2. RLInit \in RLState
    BY HitCapAssumption DEF RLInit, RLState
  <2>3. IdleWorker \in Worker /\ NoCall \in CancelCall /\ 0 \in 0..MaxFaults
    BY PoolAssumption DEF Worker, NoCall, CancelCall
  <2>4. QED
    BY <2>1, <2>2, <2>3, TickTypes DEF Init, TypeOK
<1>2. TypeOK /\ [Next]_vars => TypeOK'
  <2> SUFFICES ASSUME TypeOK, [Next]_vars PROVE TypeOK'
    OBVIOUS
  <2> USE DEF TypeOK
  <2>1. ASSUME NEW t \in Tasks, Enqueue(t) PROVE TypeOK'
    BY <2>1, NewRowTypes DEF Enqueue
  <2>2. ASSUME LaunchProbe PROVE TypeOK'
    <3>1. tick' \in Tick
      BY <2>2, TickTypes DEF LaunchProbe
    <3>2. rate_limit' \in RLState
      BY <2>2, RateLimitTypes DEF LaunchProbe
    <3>3. tasks' \in [Tasks -> Row(Workers)]
      BY <2>2, NewRowTypes, TaskAssumption DEF LaunchProbe
    <3>4. QED
      BY <2>2, <3>1, <3>2, <3>3 DEF LaunchProbe
  <2>3. ASSUME NoProbeToLaunch PROVE TypeOK'
    <3>1. tick' \in Tick
      BY <2>3, TickTypes DEF NoProbeToLaunch
    <3>2. QED
      BY <2>3, <3>1 DEF NoProbeToLaunch
  <2>4. ASSUME Gate PROVE TypeOK'
    <3>1. Cardinality(Workers \ Busy) \in 0..Cardinality(Workers)
      BY FreeSlots
    <3>2. 1 \in 0..Cardinality(Workers)
      BY FreeSlots
    <3>3. tick' \in Tick
      BY <2>4, <3>1, <3>2, TickTypes DEF Gate, Tick
    <3>4. QED
      BY <2>4, <3>3 DEF Gate
  <2>5. ASSUME NEW w \in Workers, NEW t \in Tasks, Claim(w, t) PROVE TypeOK'
    <3>1. Claimed(tasks[t], w) \in Row(Workers)
      BY RowTypes
    <3>2. tasks' \in [Tasks -> Row(Workers)]
      BY <2>5, <3>1 DEF Claim
    <3>3. Snapshot(w, t) \in Worker
      BY <3>1 DEF Snapshot, Worker, Row
    <3>4. AfterClaim \in Tick
      BY TickTypes, FreeSlots DEF AfterClaim, Tick
    <3>5. QED
      BY <2>5, <3>2, <3>3, <3>4 DEF Claim
  <2>6. ASSUME NothingToClaim PROVE TypeOK'
    BY <2>6, TickTypes DEF NothingToClaim
  <2>7. ASSUME NEW w \in Workers, NEW o \in Outcomes, HandlerReturns(w, o)
        PROVE  TypeOK'
    <3> DEFINE returned == [pool[w] EXCEPT !.phase = "settling", !.stop = TRUE,
                                           !.outcome = o]
    <3>0. /\ returned \in Worker
          /\ pool' = [pool EXCEPT ![w] = returned]
      BY <2>7, BusyWorkerType DEF HandlerReturns, Worker
    <3>1. pool' \in [Workers -> Worker]
      BY <3>0
    <3>2. QED
      BY <2>7, <3>1 DEF HandlerReturns
  <2>8. ASSUME NEW w \in Workers, HeartbeatExtends(w) PROVE TypeOK'
    <3>1. pool[w].task \in Tasks
      BY <2>8, BusyWorkerType DEF HeartbeatExtends, Beating
    <3>2. tasks' \in [Tasks -> Row(Workers)]
      BY <2>8, <3>1 DEF HeartbeatExtends, Row, Lease
    <3>3. QED
      BY <2>8, <3>2 DEF HeartbeatExtends
  <2>9. ASSUME NEW w \in Workers, HeartbeatLosesLease(w) PROVE TypeOK'
    <3>1. pool' \in [Workers -> Worker]
      BY <2>9, BusyWorkerType DEF HeartbeatLosesLease, Beating, Worker
    <3>2. QED
      BY <2>9, <3>1 DEF HeartbeatLosesLease
  <2>10. ASSUME NEW w \in Workers, CancelObserved(w) PROVE TypeOK'
    BY <2>10 DEF CancelObserved, Worker
  <2>11. ASSUME NEW w \in Workers, Settle(w) PROVE TypeOK'
    <3> DEFINE t == pool[w].task
    <3>1. Leave(w) /\ t \in Tasks
      BY <2>11, BusyWorkerType
         DEF Settle, SettleReleased, SettleRateLimited, SettleFailed,
             SettlePartial, SettleSuccess, Settling
    <3>2. /\ pool' \in [Workers -> Worker]
          /\ tick' \in Tick
          /\ cancel_calls' \in [CancelTargets -> CancelCall]
          /\ faults' \in 0..MaxFaults
      BY <3>1, LeaveType
    <3>3. tasks[t] \in Row(Workers)
      BY <3>1
    <3>4. ASSUME NEW rl \in RLState, DeadLetter(w, rl)
          PROVE  /\ tasks' \in [Tasks -> Row(Workers)]
                 /\ dead_letters' \subseteq Tasks
                 /\ rate_limit' \in RLState
      BY <3>1, <3>3, <3>4, SetRowType, SettledRowTypes DEF DeadLetter
    <3>5. CASE SettleReleased(w)
      BY <3>1, <3>2, <3>3, <3>5, SetRowType, SettledRowTypes DEF SettleReleased
    <3>6. CASE SettleRateLimited(w)
      <4>1. RecordHit(rate_limit) \in RLState
        BY RateLimitTypes
      <4>2. QED
        BY <3>1, <3>2, <3>3, <3>4, <3>6, <4>1, SetRowType, SettledRowTypes
           DEF SettleRateLimited
    <3>7. CASE SettleFailed(w)
      BY <3>1, <3>2, <3>3, <3>4, <3>7, SetRowType, SettledRowTypes
         DEF SettleFailed
    <3>8. CASE SettlePartial(w)
      BY <3>1, <3>2, <3>3, <3>8, SetRowType, SettledRowTypes DEF SettlePartial
    <3>9. CASE SettleSuccess(w)
      <4>1. tasks' \in [Tasks -> Row(Workers)]
        BY <3>9, SettledRowTypes DEF SettleSuccess
      <4>2. rate_limit' \in RLState
        BY <3>9, RateLimitTypes DEF SettleSuccess, ProbeSucceeded
      <4>3. QED
        BY <3>2, <3>9, <4>1, <4>2 DEF SettleSuccess
    <3>10. QED
      BY <2>11, <3>5, <3>6, <3>7, <3>8, <3>9 DEF Settle
  <2>12. ASSUME FaultStep PROVE TypeOK'
    <3>1. ASSUME Fault PROVE faults' \in 0..MaxFaults
      BY <3>1, PoolAssumption DEF Fault
    <3>2. CASE TickFails
      BY <3>1, <3>2, TickTypes DEF TickFails
    <3>3. ASSUME NEW w \in Workers, SettleFails(w) PROVE TypeOK'
      BY <3>1, <3>3 DEF SettleFails, Worker
    <3>4. CASE Stop
      BY <3>1, <3>4, TickTypes DEF Stop
    <3>5. ASSUME NEW w \in Workers, DrainTimeout(w) PROVE TypeOK'
      <4>1. pool[w].task \in Tasks
        BY <3>5, BusyWorkerType DEF DrainTimeout, Busy
      <4>2. QED
        BY <3>5, <4>1, LeaveType, SetRowType, SettledRowTypes DEF DrainTimeout
    <3>6. CASE Exit
      BY <3>6, TickTypes DEF Exit
    <3>7. CASE Crash
      BY <3>1, <3>7, TickTypes DEF Crash, Worker
    <3>8. CASE Restart
      BY <3>8, TickTypes DEF Restart
    <3>9. QED
      BY <2>12, <3>2, <3>3, <3>4, <3>5, <3>6, <3>7, <3>8 DEF FaultStep
  <2>13. ASSUME NEW t \in CancelTargets, CancelTaskRead(t) PROVE TypeOK'
    BY <2>13 DEF CancelTaskRead, CancelCall
  <2>14. ASSUME NEW t \in CancelTargets, CancelTaskWrite(t) PROVE TypeOK'
    <3>1. t \in Tasks
      BY TaskAssumption
    <3> DEFINE holder == IF cancel_calls[t].holder THEN NoWorker
                         ELSE tasks[t].lease_holder
               lease == IF cancel_calls[t].lease THEN "null" ELSE tasks[t].lease
               row == [tasks[t] EXCEPT !.status = "canceled",
                                       !.lease_holder = holder, !.lease = lease]
    <3>1a. holder \in Workers \union {NoWorker} /\ lease \in Lease
      BY <3>1 DEF Row, Lease
    <3>1b. SetRow(t, row)
      BY <2>14, <3>1 DEF CancelTaskWrite, Row
    <3> HIDE DEF holder, lease
    <3>1c. row \in Row(Workers)
      BY <3>1, <3>1a DEF Row, Status
    <3>2. tasks' \in [Tasks -> Row(Workers)]
      BY <3>1, <3>1b, <3>1c, SetRowType
    <3>3. QED
      BY <2>14, <3>2 DEF CancelTaskWrite, CancelCall, NoCall
  <2>15. ASSUME CancelInvestigation PROVE TypeOK'
    BY <2>15, SettledRowTypes DEF CancelInvestigation
  <2>15a. CASE OverrideContinue \/ OverrideStop
    BY <2>15a, SettledRowTypes DEF OverrideContinue, OverrideStop
  <2>16. ASSUME NEW t \in Tasks, NEW b \in BOOLEAN, RequeueDeadLetter(t, b)
         PROVE  TypeOK'
    BY <2>16, SetRowType, SettledRowTypes DEF RequeueDeadLetter
  <2>17. ASSUME ClearRateLimit PROVE TypeOK'
    BY <2>17, RateLimitTypes, PoolAssumption
       DEF ClearRateLimit, ManualClear, Fault
  <2>18. ASSUME TimeStep PROVE TypeOK'
    <3>1. ASSUME NEW t \in Tasks, LeasePasses(t) PROVE TypeOK'
      BY <3>1 DEF LeasePasses, Row, Lease
    <3>2. CASE LimitPasses
      BY <3>2 DEF LimitPasses, RLState
    <3>3. CASE HitNoLongerRecent
      BY <3>3 DEF HitNoLongerRecent, RLState
    <3>4. QED
      BY <2>18, <3>1, <3>2, <3>3 DEF TimeStep
  <2>19. CASE UNCHANGED vars
    BY <2>19 DEF vars
  <2>20. QED
    BY <2>1, <2>2, <2>3, <2>4, <2>5, <2>6, <2>7, <2>8, <2>9, <2>10, <2>11,
       <2>12, <2>13, <2>14, <2>15, <2>15a, <2>16, <2>17, <2>18, <2>19
       DEF Next, TickStep, WorkerStep, OperatorStep
<1>3. QED
  BY <1>1, <1>2, PTL DEF Spec

-----------------------------------------------------------------------------
\* Only a claim makes a worker busy, and what a busy worker runs never changes.
LEMMA PoolSteps ==
  ASSUME TypeOK, [Next]_vars
  PROVE  \/ \E w \in Workers, t \in Tasks : Claim(w, t)
         \/ \A w \in Busy' : /\ w \in Busy
                               /\ pool'[w].task = pool[w].task
                               /\ pool'[w].bounces = pool[w].bounces
<1> DEFINE Kept == \A v \in Busy' : /\ v \in Busy
                                     /\ pool'[v].task = pool[v].task
                                     /\ pool'[v].bounces = pool[v].bounces
<1>1. CASE UNCHANGED pool
  BY <1>1 DEF Busy
<1>2. ASSUME NEW w \in Workers, pool' = [pool EXCEPT ![w] = IdleWorker]
      PROVE  Kept
  BY <1>2 DEF Busy, IdleWorker, TypeOK
<1>3. ASSUME NEW w \in Workers, NEW o \in Outcomes, HandlerReturns(w, o)
      PROVE  Kept
  <2> DEFINE r == [pool[w] EXCEPT !.phase = "settling", !.stop = TRUE,
                                  !.outcome = o]
  <2>1. pool' = [pool EXCEPT ![w] = r] /\ w \in Busy
    BY <1>3 DEF HandlerReturns, TypeOK, Busy
  <2>2. r.task = pool[w].task /\ r.bounces = pool[w].bounces
    BY BusyWorkerType, <2>1 DEF TypeOK, Busy
  <2> HIDE DEF r
  <2>3. QED
    BY <2>1, <2>2 DEF Busy, TypeOK
<1>4. ASSUME NEW w \in Workers, HeartbeatLosesLease(w)
      PROVE  Kept
  BY <1>4, BusyWorkerType DEF HeartbeatLosesLease, Beating, Busy, TypeOK
<1>5. ASSUME Crash
      PROVE  Kept
  BY <1>5 DEF Crash, Busy, IdleWorker
<1>6. QED
  BY <1>1, <1>2, <1>3, <1>4, <1>5
     DEF Next, vars, Enqueue, TickStep, LaunchProbe, NoProbeToLaunch, Gate,
         NothingToClaim, WorkerStep, HeartbeatExtends, CancelObserved, Settle,
         SettleReleased, SettleRateLimited, SettleFailed, SettlePartial,
         SettleSuccess, Leave, FaultStep, TickFails, SettleFails, Stop,
         DrainTimeout, Exit, Restart, OperatorStep, CancelTaskRead,
         CancelTaskWrite, CancelInvestigation, OverrideContinue, OverrideStop,
         RequeueDeadLetter,
         ClearRateLimit, TimeStep, LeasePasses, LimitPasses, HitNoLongerRecent

\* A claim makes one idle worker run an eligible task and leaves the others be.
LEMMA ClaimTakesFreeSlot ==
  ASSUME TypeOK, NEW w \in Workers, NEW t \in Tasks, Claim(w, t)
  PROVE  /\ Busy' = Busy \union {w} /\ w \notin Busy
         /\ pool'[w].task = t
         /\ \A v \in Workers \ {w} : pool'[v] = pool[v]
  BY DEF Claim, Snapshot, Busy, TypeOK

\* Two workers never hold the same resource, also when one of them has lost
\* its lease or had its task canceled.
THEOREM ResourcesExclusive == Spec => []ResourceMutex
<1>1. Init => ResourceMutex
  BY DEF Init, ResourceMutex, Busy, IdleWorker
<1>2. TypeOK /\ ResourceMutex /\ [Next]_vars => ResourceMutex'
  <2> SUFFICES ASSUME TypeOK, ResourceMutex, [Next]_vars PROVE ResourceMutex'
    OBVIOUS
  <2>1. ASSUME NEW w \in Workers, NEW t \in Tasks, Claim(w, t)
        PROVE  ResourceMutex'
    <3>1. \A v \in Busy : ResourceKey[pool[v].task] # NoKey
                          => ResourceKey[pool[v].task] # ResourceKey[t]
      BY <2>1 DEF Claim, Eligible, RunningResourceKeys
    <3>2. QED
      BY <2>1, <3>1, ClaimTakesFreeSlot DEF ResourceMutex, Busy
  <2>2. CASE \A w \in Busy' : w \in Busy /\ pool'[w].task = pool[w].task
    BY <2>2 DEF ResourceMutex
  <2>3. QED
    BY <2>1, <2>2, PoolSteps
<1>3. QED
  BY <1>1, <1>2, TypeCorrect, PTL DEF Spec

-----------------------------------------------------------------------------
\* Every write of the rate-limit row is one of a few UPDATEs.
LEMMA RateLimitSteps ==
  ASSUME TypeOK, [Next]_vars
  PROVE  \/ UNCHANGED rate_limit
         \/ LaunchProbe
         \/ rate_limit' = RecordHit(rate_limit)
         \/ rate_limit' = Cleared(rate_limit)
         \/ rate_limit' = ResetConsecutiveHits(rate_limit)
         \/ LimitPasses
         \/ HitNoLongerRecent
  BY DEF Next, vars, Enqueue, TickStep, NoProbeToLaunch, Gate,
         Claim, NothingToClaim, WorkerStep, HandlerReturns, HeartbeatExtends,
         HeartbeatLosesLease, CancelObserved, Settle, SettleReleased,
         SettleRateLimited, SettleFailed, SettlePartial, SettleSuccess,
         DeadLetter, ProbeSucceeded, FaultStep, TickFails, SettleFails, Stop,
         DrainTimeout, Exit, Crash, Restart, OperatorStep, CancelTaskRead,
         CancelTaskWrite, CancelInvestigation, OverrideContinue, OverrideStop,
         RequeueDeadLetter,
         ClearRateLimit, ManualClear, TimeStep, LeasePasses

\* A hit is counted when it is recorded, and the row says so.
LEMMA HitCounted ==
  ASSUME NEW s \in RLState
  PROVE  /\ OneMoreHit(s.consecutive_hits) \in Nat \ {0}
         /\ OneMoreHit(s.consecutive_hits) >= s.consecutive_hits
  BY HitCapAssumption DEF OneMoreHit, RLState

LEMMA RateLimitCoherentStep ==
  TypeOK /\ RateLimitCoherent /\ [Next]_vars => RateLimitCoherent'
<1> SUFFICES ASSUME TypeOK, RateLimitCoherent, [Next]_vars
             PROVE  RateLimitCoherent'
  OBVIOUS
<1>1. rate_limit \in RLState
  BY DEF TypeOK
<1>2. CASE UNCHANGED rate_limit
  BY <1>2 DEF RateLimitCoherent
<1>3. CASE LaunchProbe
  BY <1>1, <1>3
     DEF LaunchProbe, RateLimitCoherent, ProbeDue, TransitionToProbing, RLState
<1>4. CASE rate_limit' = RecordHit(rate_limit)
  BY <1>1, <1>4, HitCounted DEF RateLimitCoherent, RecordHit, RLState
<1>5. CASE rate_limit' = Cleared(rate_limit)
  BY <1>1, <1>5 DEF RateLimitCoherent, Cleared, RLState
<1>6. CASE rate_limit' = ResetConsecutiveHits(rate_limit)
  BY <1>1, <1>6 DEF RateLimitCoherent, ResetConsecutiveHits, RLState
<1>7. CASE LimitPasses
  BY <1>1, <1>7 DEF RateLimitCoherent, LimitPasses, RLState
<1>8. CASE HitNoLongerRecent
  BY <1>1, <1>8 DEF RateLimitCoherent, HitNoLongerRecent, RLState
<1>9. QED
  BY <1>2, <1>3, <1>4, <1>5, <1>6, <1>7, <1>8, RateLimitSteps

\* The rate-limit row is coherent under every interleaving of its writers.
THEOREM RateLimitSound == Spec => []RateLimitCoherent
<1>1. Init => RateLimitCoherent
  BY DEF Init, RLInit, RateLimitCoherent
<1>2. QED
  BY <1>1, RateLimitCoherentStep, TypeCorrect, PTL DEF Spec

\* The backoff schedule starts over only when the limit is lifted.
THEOREM BackoffKept == Spec => HitsCountUntilClear
<1> DEFINE Kept == rate_limit'.consecutive_hits < rate_limit.consecutive_hits
                     => rate_limit'.status = "clear"
<1>1. TypeOK /\ [Next]_vars => [Kept]_vars
  <2> SUFFICES ASSUME TypeOK, [Next]_vars PROVE Kept
    OBVIOUS
  <2>1. rate_limit \in RLState /\ rate_limit.consecutive_hits \in Nat
    BY HitCapAssumption DEF TypeOK, RLState
  <2>2. CASE rate_limit' = RecordHit(rate_limit)
    <3>1. OneMoreHit(rate_limit.consecutive_hits) >= rate_limit.consecutive_hits
          /\ OneMoreHit(rate_limit.consecutive_hits) \in Nat
      BY <2>1, HitCounted
    <3>2. rate_limit'.consecutive_hits \in
            {OneMoreHit(rate_limit.consecutive_hits), rate_limit.consecutive_hits}
      BY <2>2 DEF RecordHit
    <3>3. QED
      BY <2>1, <3>1, <3>2
  <2>3. CASE rate_limit' = Cleared(rate_limit)
    BY <2>1, <2>3 DEF Cleared, RLState
  <2>4. CASE rate_limit' = ResetConsecutiveHits(rate_limit)
    BY <2>1, <2>4 DEF ResetConsecutiveHits, RLState
  <2>5. CASE rate_limit'.consecutive_hits = rate_limit.consecutive_hits
    BY <2>1, <2>5
  <2>6. QED
    BY <2>1, <2>2, <2>3, <2>4, <2>5, RateLimitSteps
       DEF LaunchProbe, TransitionToProbing, LimitPasses, HitNoLongerRecent, RLState
<1>2. QED
  BY <1>1, TypeCorrect, PTL DEF Spec, HitsCountUntilClear

-----------------------------------------------------------------------------
\* A probe that its worker settles is still to come, has failed outright, or has
\* decided the limit: its success lifts it, and another hit puts it in force again.
LEMMA SettledProbe ==
  ASSUME TypeOK, NEW w \in Workers, Settle(w), NEW p \in Probes, InFlight(p)
  PROVE  \/ InFlight(p)' \/ tasks'[p].status = "dead_letter"
         \/ rate_limit'.status # "probing"
<1> DEFINE t == pool[w].task
<1>1. /\ pool[w].phase = "settling"
      /\ t \in Tasks /\ p \in Tasks
      /\ p \notin Dives
  BY BusyWorkerType, TaskAssumption
     DEF TypeOK, Settle, SettleReleased, SettleRateLimited, SettleFailed,
         SettlePartial, SettleSuccess, Settling
<1>2. tasks[p] \in Row(Workers) /\ rate_limit \in RLState
  BY <1>1 DEF TypeOK
<1>3. CASE SettleReleased(w)
  BY <1>1, <1>2, <1>3 DEF SettleReleased, SetRow, ReleaseTask, InFlight, TypeOK, Row
<1>4. CASE SettleRateLimited(w)
  <2>1. CASE t \in Probes
    BY <1>2, <1>4, <2>1 DEF SettleRateLimited, RecordHit, RLState
  <2>2. CASE t \notin Probes
    BY <1>1, <1>4, <2>2 DEF SettleRateLimited, DeadLetter, SetRow, InFlight, TypeOK
  <2> QED
    BY <2>1, <2>2
<1>5. CASE SettleFailed(w)
  <2>1. \A r \in {MarkDeadLetter(tasks[p]), RetryScheduled(tasks[p])} :
          r = tasks[p] \/ r.status \in {"dead_letter", "queued"}
    BY <1>2 DEF MarkDeadLetter, RetryScheduled, MarkFailed, UnleasedWithError,
                Unleased, Row
  <2>2. tasks'[p] \in {tasks[p], MarkDeadLetter(tasks[p]), RetryScheduled(tasks[p])}
    BY <1>1, <1>5 DEF SettleFailed, DeadLetter, SetRow, TypeOK
  <2> QED
    BY <2>1, <2>2 DEF InFlight
<1>6. CASE SettlePartial(w)
  BY <1>1, <1>2, <1>6
     DEF SettlePartial, SetRow, MarkPartial, Unleased, InFlight, TypeOK, Row
<1>7. CASE SettleSuccess(w)
  <2>1. CASE t \in Probes
    BY <1>2, <1>7, <2>1 DEF SettleSuccess, ProbeSucceeded, Cleared, RLState
  <2>2. CASE t \notin Probes
    <3>1. FinancialDives \subseteq Dives
      BY TaskAssumption
    <3> QED
      BY <1>1, <1>7, <2>2, <3>1 DEF SettleSuccess, InFlight
  <2> QED
    BY <2>1, <2>2
<1> QED
  BY <1>3, <1>4, <1>5, <1>6, <1>7 DEF Settle

LEMMA ProbeStays ==
  ASSUME TypeOK, [Next]_vars, NEW p \in Probes, InFlight(p)
  PROVE  \/ InFlight(p)' \/ tasks'[p].status \in {"dead_letter", "canceled"}
         \/ rate_limit'.status # "probing"
<1>1. p \in Tasks /\ tasks[p] \in Row(Workers)
      /\ p \notin Investigation /\ p \notin Dives
  BY TaskAssumption DEF TypeOK
<1>2. CASE UNCHANGED tasks
  BY <1>2 DEF InFlight
<1>3. ASSUME NEW t \in Tasks, tasks' = [tasks EXCEPT ![t] = EnqueuedRow]
      PROVE  InFlight(p)'
  BY <1>1, <1>3 DEF InFlight, EnqueuedRow, NoRow, TypeOK
<1>4. ASSUME NEW w \in Workers, NEW t \in Tasks, Claim(w, t)
      PROVE  InFlight(p)'
  BY <1>1, <1>4 DEF Claim, Claimed, InFlight, TypeOK, Row
<1>5. ASSUME NEW w \in Workers, HeartbeatExtends(w)
      PROVE  InFlight(p)'
  BY <1>1, <1>5 DEF HeartbeatExtends, InFlight, TypeOK, Row
<1>6. ASSUME NEW w \in Workers, DrainTimeout(w)
      PROVE  InFlight(p)'
  BY <1>1, <1>6 DEF DrainTimeout, SetRow, ReleaseTask, InFlight, TypeOK, Row
<1>7. ASSUME NEW t \in CancelTargets, CancelTaskWrite(t)
      PROVE  InFlight(p)' \/ tasks'[p].status = "canceled"
  <2>1. t \in Tasks
    BY TaskAssumption
  <2> QED
    BY <1>1, <1>7, <2>1 DEF CancelTaskWrite, SetRow, InFlight, TypeOK, Row
<1>8. CASE CancelInvestigation \/ OverrideContinue \/ OverrideStop
  BY <1>1, <1>8 DEF CancelInvestigation, OverrideContinue, OverrideStop, InFlight
<1>9. ASSUME NEW t \in Tasks, NEW b \in BOOLEAN, RequeueDeadLetter(t, b)
      PROVE  InFlight(p)'
  <2>1. DeadLetterRequeued(tasks[t], b).status = "queued"
    BY <1>9 DEF DeadLetterRequeued, UnleasedWithError, Unleased, TypeOK, Row
  <2> QED
    BY <1>1, <1>9, <2>1 DEF RequeueDeadLetter, SetRow, InFlight, TypeOK
<1>10. ASSUME NEW t \in Tasks, LeasePasses(t)
       PROVE  InFlight(p)'
  BY <1>1, <1>10 DEF LeasePasses, InFlight, TypeOK, Row
<1>11. ASSUME NEW w \in Workers, Settle(w)
       PROVE  \/ InFlight(p)' \/ tasks'[p].status = "dead_letter"
              \/ rate_limit'.status # "probing"
  BY <1>11, SettledProbe
<1> QED
  BY <1>2, <1>3, <1>4, <1>5, <1>6, <1>7, <1>8, <1>9, <1>10, <1>11, TaskAssumption
     DEF Next, vars, Enqueue, TickStep, LaunchProbe, NoProbeToLaunch, Gate,
         NothingToClaim, WorkerStep, HandlerReturns, HeartbeatLosesLease,
         CancelObserved, FaultStep, TickFails, SettleFails, Stop, Exit,
         Crash, Restart, OperatorStep, CancelTaskRead, ClearRateLimit,
         TimeStep, LimitPasses, HitNoLongerRecent

\* A system that waits for a probe loses it only when the probe is dead-lettered or
\* canceled, also when workers outlive their leases, several probes are out at once,
\* and hits, crashes, drains and manual clears come in between.
THEOREM ProbesLostByFailing == Spec => ProbeLostOnlyByFailing
<1> DEFINE Lost ==
      ProbeLost' =>
        \/ ProbeLost
        \/ \E p \in Probes :
             InFlight(p) /\ tasks'[p].status \in {"dead_letter", "canceled"}
<1>1. TypeOK /\ [Next]_vars => [Lost]_vars
  <2> SUFFICES ASSUME TypeOK, [Next]_vars, ProbeLost', ~ProbeLost
               PROVE  \E p \in Probes :
                        /\ InFlight(p)
                        /\ tasks'[p].status \in {"dead_letter", "canceled"}
    OBVIOUS
  <2>1. rate_limit'.status = "probing" /\ \A p \in Probes : ~InFlight(p)'
    BY DEF ProbeLost
  <2>2. CASE rate_limit.status = "probing"
    <3>1. PICK p \in Probes : InFlight(p)
      BY <2>2 DEF ProbeLost
    <3> QED
      BY <2>1, <3>1, ProbeStays
  <2>3. CASE rate_limit.status # "probing"
    <3>1. LaunchProbe
      <4>1. rate_limit \in RLState
        BY DEF TypeOK
      <4>2. \A s \in RLState : /\ RecordHit(s).status \in {"limited", s.status}
                               /\ Cleared(s).status = "clear"
                               /\ ResetConsecutiveHits(s).status = s.status
        BY DEF RecordHit, Cleared, ResetConsecutiveHits, RLState
      <4>3. LimitPasses \/ HitNoLongerRecent => rate_limit'.status = rate_limit.status
        BY <4>1 DEF LimitPasses, HitNoLongerRecent, RLState
      <4> QED
        BY <2>1, <2>3, <4>1, <4>2, <4>3, RateLimitSteps
    <3>2. \E p \in Probes : InFlight(p)'
      BY <3>1, TaskAssumption
         DEF LaunchProbe, EnqueuedRow, NoRow, InFlight, TypeOK
    <3> QED
      BY <2>1, <3>2
  <2> QED
    BY <2>2, <2>3
<1> QED
  BY <1>1, TypeCorrect, PTL DEF Spec, ProbeLostOnlyByFailing

-----------------------------------------------------------------------------
(***************************************************************************)
(* What keeps the workers of one task apart: its lease, as long as live    *)
(* workers renew theirs in time, or else its resource key, which the pool  *)
(* holds for a worker until it is gone.  A task that one of them guards is *)
(* Exclusive: it has one worker, whose copy of its row stays true, and the *)
(* dead-letter table and the tasks table agree about it.                   *)
(*                                                                         *)
(* None of the three is inductive alone.  That no second worker claims a   *)
(* row needs that its lease is its worker's and runs, or that the worker   *)
(* counts for the keys; that mark_dead_letter meets no earlier row needs   *)
(* that no listed task is being run; and that a canceled row put back in   *)
(* the queue by its worker has no other worker needs that there is only    *)
(* one.  That the operator's CONTINUE takes no task from under a worker    *)
(* needs a fourth fact, StoppedIdle.  The rows of other tasks may be in    *)
(* any state: what is said of them is only that no step confuses them      *)
(* with an exclusive one.                                                  *)
(***************************************************************************)

LeaseInv == OneRunner /\ SnapshotCurrent /\ DeadLetterLedger

\* A dive that the gate stopped is out of reach until the operator revives it: no
\* worker has it, and it is not listed among the dead letters.
StoppedIdle ==
  \A t \in Tasks : Exclusive(t) /\ tasks[t].stop_error =>
    /\ tasks[t].status = "canceled"
    /\ tasks[t].lease_holder = NoWorker
    /\ t \notin dead_letters
    /\ RunningOn(t) = {}

LEMMA RunnerTask ==
  ASSUME TypeOK, NEW w \in Busy
  PROVE  /\ w \in Workers /\ pool[w].task \in Tasks
         /\ tasks[pool[w].task] \in Row(Workers)
  BY BusyWorkerType DEF TypeOK, Busy

\* A busy worker is its exclusive row's only one; the row is not dead-lettered
\* and is either canceled or running under the worker's lease.
LEMMA RunnerRow ==
  ASSUME TypeOK, LeaseInv, NEW w \in Busy, Exclusive(pool[w].task)
  PROVE  LET t == pool[w].task IN
         /\ t \notin dead_letters
         /\ tasks[t].status \in {"running", "canceled"}
         /\ \/ tasks[t].status = "canceled" \/ HeartbeatsMayFail
            \/ tasks[t].lease = "future"
         /\ \A v \in Busy \ {w} : pool[v].task # t
<1>1. pool[w].task \in Tasks
  BY RunnerTask
<1>2. pool[w].task \notin dead_letters
  BY <1>1 DEF LeaseInv, DeadLetterLedger, RunningOn
<1>3. QED
  BY <1>1, <1>2 DEF LeaseInv, OneRunner, SnapshotCurrent, LeaseHeld

\* A step that makes no worker busy, and leaves or cancels the exclusive rows of
\* those that stay so, keeps them apart.
LEMMA RunnersKept ==
  ASSUME LeaseInv,
         \A w \in Busy' :
           /\ w \in Busy
           /\ pool'[w].task = pool[w].task
           /\ pool'[w].attempts = pool[w].attempts
           /\ pool'[w].bounces = pool[w].bounces
           /\ Exclusive(pool[w].task) =>
                \/ tasks'[pool[w].task] = tasks[pool[w].task]
                \/ tasks'[pool[w].task].status = "canceled"
  PROVE  OneRunner' /\ SnapshotCurrent'
<1>1. OneRunner'
  BY DEF LeaseInv, OneRunner, Exclusive
<1>2. SnapshotCurrent'
  BY DEF LeaseInv, SnapshotCurrent, LeaseHeld, Exclusive
<1>3. QED
  BY <1>1, <1>2

\* A step that dead-letters no task, takes none off the list, and moves no
\* listed exclusive one but to canceled, keeps the list.
LEMMA LedgerKept ==
  ASSUME LeaseInv,
         dead_letters' = dead_letters,
         \A w \in Busy' : w \in Busy /\ pool'[w].task = pool[w].task,
         \A t \in Tasks :
           \/ tasks'[t].status = tasks[t].status
           \/ tasks'[t].status = "canceled"
           \/ /\ tasks'[t].status # "dead_letter"
              /\ Exclusive(t) => t \notin dead_letters
  PROVE  DeadLetterLedger'
  BY DEF LeaseInv, DeadLetterLedger, RunningOn, Exclusive

\* The worker that leaves was the last one of its task, if that is exclusive.
LEMMA LeaversAreAlone ==
  ASSUME TypeOK, LeaseInv, NEW w \in Busy, Leave(w)
  PROVE  /\ Busy' = Busy \ {w}
         /\ \A v \in Busy' : pool'[v] = pool[v]
         /\ \A v \in Busy' :
              Exclusive(pool[v].task) => pool[v].task # pool[w].task
<1>1. Busy' = Busy \ {w} /\ \A v \in Busy' : pool'[v] = pool[v]
  BY RunnerTask DEF Leave, Busy, IdleWorker, TypeOK
<1>2. QED
  BY <1>1, RunnerRow

\* The worker leaves after an UPDATE of its row that does not dead-letter it.
LEMMA LeaveKeeps ==
  ASSUME TypeOK, LeaseInv, NEW w \in Busy, NEW r,
         SetRow(pool[w].task, r), Leave(w),
         r.status = "dead_letter" => r = tasks[pool[w].task],
         dead_letters' = dead_letters
  PROVE  LeaseInv'
<1> DEFINE t == pool[w].task
<1>1. /\ t \in Tasks
      /\ Exclusive(t) => t \notin dead_letters
      /\ Busy' = Busy \ {w}
      /\ \A v \in Busy' : pool'[v] = pool[v]
      /\ \A v \in Busy' : Exclusive(pool[v].task) => pool[v].task # t
  BY RunnerTask, RunnerRow, LeaversAreAlone
<1>2. tasks'[t] = r /\ \A x \in Tasks \ {t} : tasks'[x] = tasks[x]
  BY <1>1 DEF SetRow, TypeOK
<1>3. \A v \in Busy' : Exclusive(pool[v].task) =>
        tasks'[pool[v].task] = tasks[pool[v].task]
  BY <1>1, <1>2, RunnerTask
<1>4. DeadLetterLedger'
  BY <1>1, <1>2, LedgerKept
<1>5. OneRunner' /\ SnapshotCurrent'
  BY <1>1, <1>3, RunnersKept
<1>6. QED
  BY <1>4, <1>5 DEF LeaseInv

\* mark_dead_letter writes the row or fails, and the worker leaves.  For an
\* exclusive task it never meets a row of the same id.
LEMMA DeadLetterKeeps ==
  ASSUME TypeOK, LeaseInv, NEW w \in Busy, NEW rl, DeadLetter(w, rl), Leave(w)
  PROVE  /\ LeaseInv'
         /\ \/ SetRow(pool[w].task, MarkDeadLetter(tasks[pool[w].task]))
            \/ UNCHANGED tasks /\ ~Exclusive(pool[w].task)
<1> DEFINE t == pool[w].task
<1>1. /\ t \in Tasks /\ tasks[t] \in Row(Workers)
      /\ Busy' = Busy \ {w}
      /\ \A v \in Busy' : pool'[v] = pool[v]
      /\ \A v \in Busy' : Exclusive(pool[v].task) => pool[v].task # t
  BY RunnerTask, LeaversAreAlone
<1>2. CASE t \in dead_letters
  <2>1. UNCHANGED <<tasks, dead_letters>> /\ ~Exclusive(t)
    BY <1>2, RunnerRow DEF DeadLetter
  <2>2. OneRunner' /\ SnapshotCurrent'
    BY <1>1, <2>1, RunnersKept
  <2>3. DeadLetterLedger'
    BY <1>1, <2>1, LedgerKept
  <2>4. QED
    BY <2>1, <2>2, <2>3 DEF LeaseInv
<1>3. CASE t \notin dead_letters
  <2>1. /\ SetRow(t, MarkDeadLetter(tasks[t]))
        /\ dead_letters' = dead_letters \union {t}
    BY <1>3 DEF DeadLetter
  <2>2. \A x \in Tasks \ {t} : tasks'[x] = tasks[x]
    BY <2>1 DEF SetRow, TypeOK
  <2>3. Exclusive(t) => tasks'[t].status \in {"dead_letter", "canceled"}
    BY <1>1, <2>1, RunnerRow
       DEF SetRow, TypeOK, MarkDeadLetter, UnleasedWithError, Unleased, Row
  <2>4. OneRunner' /\ SnapshotCurrent'
    <3>1. \A v \in Busy' : Exclusive(pool[v].task) =>
            tasks'[pool[v].task] = tasks[pool[v].task]
      BY <1>1, <2>2, RunnerTask
    <3>2. QED
      BY <1>1, <3>1, RunnersKept
  <2>5. DeadLetterLedger'
    BY <1>1, <2>1, <2>2, <2>3
       DEF LeaseInv, DeadLetterLedger, RunningOn, Exclusive
  <2>6. QED
    BY <2>1, <2>4, <2>5 DEF LeaseInv
<1>4. QED
  BY <1>2, <1>3

-----------------------------------------------------------------------------
LEMMA SettleKeeps ==
  ASSUME TypeOK, LeaseInv, NEW w \in Busy, Settle(w) \/ DrainTimeout(w)
  PROVE  LeaseInv'
<1> DEFINE t == pool[w].task
<1>1. t \in Tasks /\ tasks[t] \in Row(Workers)
  BY RunnerTask
<1>2. \A r \in {MarkSuccess(tasks[t]), MarkPartial(tasks[t]),
                RequeueOnRateLimit(tasks[t]), ReleaseTask(tasks[t]),
                RetryScheduled(tasks[t])} :
        r.status = "dead_letter" => r = tasks[t]
  BY <1>1 DEF MarkSuccess, MarkPartial, MarkFailed, RequeueOnRateLimit,
              ReleaseTask, RetryScheduled, UnleasedWithError, Unleased, Row
<1>3. CASE SettleReleased(w) \/ SettlePartial(w) \/ DrainTimeout(w)
  BY <1>2, <1>3, LeaveKeeps DEF SettleReleased, SettlePartial, DrainTimeout
<1>4. CASE SettleRateLimited(w)
  BY <1>2, <1>4, LeaveKeeps, DeadLetterKeeps DEF SettleRateLimited
<1>5. CASE SettleFailed(w)
  BY <1>2, <1>5, LeaveKeeps, DeadLetterKeeps DEF SettleFailed
<1>6. CASE SettleSuccess(w)
  <2>1. /\ Busy' = Busy \ {w}
        /\ \A v \in Busy' : pool'[v] = pool[v]
        /\ \A v \in Busy' : Exclusive(pool[v].task) => pool[v].task # t
    BY <1>6, LeaversAreAlone DEF SettleSuccess
  <2>2. \A x \in Tasks \ {t} :
          tasks'[x] \in {tasks[x], StopIfQueued(tasks[x])}
    BY <1>6 DEF SettleSuccess
  <2>3. \A x \in Tasks \ {t} :
          tasks'[x] = tasks[x] \/ tasks'[x].status = "canceled"
    BY <2>2 DEF StopIfQueued, Unleased, TypeOK, Row
  <2>4. /\ tasks'[t] = MarkSuccess(tasks[t])
        /\ Exclusive(t) => t \notin dead_letters
    BY <1>1, <1>6, RunnerRow DEF SettleSuccess
  <2>5. OneRunner' /\ SnapshotCurrent'
    BY <2>1, <2>3, RunnerTask, RunnersKept
  <2>6. DeadLetterLedger'
    BY <1>2, <1>6, <2>1, <2>3, <2>4, LedgerKept DEF SettleSuccess
  <2>7. QED
    BY <2>5, <2>6 DEF LeaseInv
<1>7. QED
  BY <1>3, <1>4, <1>5, <1>6 DEF Settle

\* What guards an exclusive row that a worker runs also keeps it from a claim:
\* its lease is not over, or its key is among those of the pool.
LEMMA ClaimFindsNoRunner ==
  ASSUME TypeOK, LeaseInv, NEW w \in Workers, NEW t \in Tasks, Claim(w, t),
         Exclusive(t)
  PROVE  t \notin dead_letters /\ \A v \in Busy : pool[v].task # t
<1>1. /\ tasks[t].status \in {"queued", "partial", "running"}
      /\ tasks[t].status = "running" => tasks[t].lease = "past"
      /\ ResourceKey[t] \notin RunningResourceKeys
  BY DEF Claim, Eligible, Claimable
<1>2. t \notin dead_letters
  BY <1>1 DEF LeaseInv, DeadLetterLedger
<1>3. ASSUME NEW v \in Busy, pool[v].task = t PROVE FALSE
  <2>1. ~HeartbeatsMayFail => tasks[t].lease = "future"
    BY <1>1, <1>3, RunnerRow
  <2>2. CASE ~HeartbeatsMayFail
    BY <1>1, <1>3, <2>1, <2>2, RunnerRow
  <2>3. CASE ResourceKey[t] # NoKey
    BY <1>1, <1>3, <2>3 DEF RunningResourceKeys
  <2>4. QED
    BY <2>2, <2>3 DEF Exclusive
<1>4. QED
  BY <1>2, <1>3

LEMMA ClaimKeeps ==
  ASSUME TypeOK, LeaseInv, NEW w \in Workers, NEW t \in Tasks, Claim(w, t)
  PROVE  LeaseInv'
<1>1. Exclusive(t) =>
        t \notin dead_letters /\ \A v \in Busy : pool[v].task # t
  BY ClaimFindsNoRunner
<1>2. /\ Busy' = Busy \union {w} /\ w \notin Busy
      /\ pool'[w].task = t
      /\ \A v \in Busy : pool'[v] = pool[v]
  BY ClaimTakesFreeSlot DEF Busy
<1>3. /\ tasks'[t] = Claimed(tasks[t], w)
      /\ \A x \in Tasks \ {t} : tasks'[x] = tasks[x]
  BY DEF Claim, TypeOK
<1>4. OneRunner'
  BY <1>1, <1>2 DEF LeaseInv, OneRunner, Exclusive
<1>5. SnapshotCurrent'
  <2>1. /\ LeaseHeld(tasks'[t], w) /\ tasks'[t].lease = "future"
        /\ tasks'[t].attempts = pool'[w].attempts
        /\ tasks'[t].rate_limit_bounces = pool'[w].bounces
    BY <1>3 DEF Claim, Snapshot, Claimed, LeaseHeld, TypeOK, Row
  <2>2. \A v \in Busy : Exclusive(pool[v].task) =>
          tasks'[pool[v].task] = tasks[pool[v].task]
    BY <1>1, <1>3, RunnerTask
  <2>3. QED
    BY <1>2, <2>1, <2>2 DEF LeaseInv, SnapshotCurrent, LeaseHeld, Exclusive
<1>6. DeadLetterLedger'
  <2>1. tasks'[t].status = "running" /\ dead_letters' = dead_letters
    BY <1>3 DEF Claim, Claimed, TypeOK, Row
  <2>2. QED
    BY <1>1, <1>2, <1>3, <2>1
       DEF LeaseInv, DeadLetterLedger, RunningOn, Exclusive
<1>7. QED
  BY <1>4, <1>5, <1>6 DEF LeaseInv

\* A step that leaves the pool alone keeps everything if it changes no exclusive
\* row that is being run, except to canceled, and no listed one.
LEMMA RowsKeep ==
  ASSUME TypeOK, LeaseInv, UNCHANGED <<pool, dead_letters>>,
         \A t \in Tasks :
           \/ tasks'[t] = tasks[t]
           \/ tasks'[t].status = "canceled"
           \/ /\ tasks'[t].status # "dead_letter"
              /\ Exclusive(t) =>
                   t \notin dead_letters /\ \A w \in Busy : pool[w].task # t
  PROVE  LeaseInv'
<1>1. Busy' = Busy
  BY DEF Busy
<1>2. OneRunner' /\ SnapshotCurrent'
  BY <1>1, RunnerTask, RunnersKept
<1>3. DeadLetterLedger'
  BY <1>1, LedgerKept
<1>4. QED
  BY <1>2, <1>3 DEF LeaseInv

\* A lease that is renewed, or that ends while nobody renews it, takes nothing
\* from the worker that holds it.
LEMMA LeaseMoves ==
  ASSUME TypeOK, LeaseInv, UNCHANGED <<pool, dead_letters>>,
         NEW t \in Tasks, NEW l \in Lease,
         tasks' = [tasks EXCEPT ![t].lease = l],
         l = "future" \/ HeartbeatsMayFail \/ ~LeaseKept(t)
  PROVE  LeaseInv'
<1>1. /\ Busy' = Busy
      /\ \A x \in Tasks \ {t} : tasks'[x] = tasks[x]
      /\ tasks'[t].lease = l
      /\ tasks'[t].status = tasks[t].status
      /\ tasks'[t].lease_holder = tasks[t].lease_holder
      /\ tasks'[t].attempts = tasks[t].attempts
      /\ tasks'[t].rate_limit_bounces = tasks[t].rate_limit_bounces
  BY DEF TypeOK, Row, Busy
<1>2. OneRunner'
  BY <1>1 DEF LeaseInv, OneRunner, Exclusive
<1>3. SnapshotCurrent'
  <2> SUFFICES ASSUME NEW w \in Busy, Exclusive(pool[w].task),
                      tasks[pool[w].task].status # "canceled"
               PROVE  LET r == tasks'[pool[w].task] IN
                      /\ LeaseHeld(r, w)
                      /\ HeartbeatsMayFail \/ r.lease = "future"
                      /\ r.attempts = pool[w].attempts
                      /\ r.rate_limit_bounces = pool[w].bounces
    BY <1>1, RunnerTask DEF SnapshotCurrent, Exclusive
  <2>1. LET r == tasks[pool[w].task] IN
        /\ LeaseHeld(r, w)
        /\ HeartbeatsMayFail \/ r.lease = "future"
        /\ r.attempts = pool[w].attempts
        /\ r.rate_limit_bounces = pool[w].bounces
    BY DEF LeaseInv, SnapshotCurrent
  <2>2. CASE pool[w].task # t
    BY <1>1, <2>1, <2>2, RunnerTask
  <2>3. CASE pool[w].task = t
    <3>1. LeaseKept(t)
      BY <2>1, <2>3 DEF LeaseKept, RunningOn
    <3>2. QED
      BY <1>1, <2>1, <2>3, <3>1 DEF LeaseHeld
  <2>4. QED
    BY <2>2, <2>3
<1>4. DeadLetterLedger'
  BY <1>1, LedgerKept
<1>5. QED
  BY <1>2, <1>3, <1>4 DEF LeaseInv

LEMMA LeaseInvStep ==
  TypeOK /\ LeaseInv /\ StoppedIdle /\ [Next]_vars => LeaseInv'
<1> SUFFICES ASSUME TypeOK, LeaseInv, StoppedIdle, [Next]_vars PROVE LeaseInv'
  OBVIOUS
<1>1. ASSUME UNCHANGED <<tasks, dead_letters>>,
             \A w \in Busy' : /\ w \in Busy
                              /\ pool'[w].task = pool[w].task
                              /\ pool'[w].attempts = pool[w].attempts
                              /\ pool'[w].bounces = pool[w].bounces
      PROVE  LeaseInv'
  BY <1>1, RunnersKept, LedgerKept DEF LeaseInv
<1>2. CASE UNCHANGED <<tasks, dead_letters, pool>>
  BY <1>1, <1>2 DEF Busy
<1>3. ASSUME NEW w \in Workers, UNCHANGED <<tasks, dead_letters>>,
             pool' = [pool EXCEPT ![w] = IdleWorker]
      PROVE  LeaseInv'
  BY <1>1, <1>3 DEF Busy, IdleWorker, TypeOK
<1>4. ASSUME NEW w \in Workers, NEW o \in Outcomes, HandlerReturns(w, o)
      PROVE  LeaseInv'
  <2> DEFINE r == [pool[w] EXCEPT !.phase = "settling", !.stop = TRUE,
                                  !.outcome = o]
  <2>1. pool' = [pool EXCEPT ![w] = r] /\ w \in Busy
    BY <1>4 DEF HandlerReturns, TypeOK, Busy
  <2>2. /\ r.task = pool[w].task
        /\ r.attempts = pool[w].attempts /\ r.bounces = pool[w].bounces
    BY BusyWorkerType, <2>1 DEF TypeOK, Busy
  <2> HIDE DEF r
  <2>3. QED
    BY <1>1, <1>4, <2>1, <2>2 DEF Busy, TypeOK, HandlerReturns
<1>5. ASSUME NEW w \in Workers, HeartbeatLosesLease(w) PROVE LeaseInv'
  BY <1>1, <1>5, BusyWorkerType DEF HeartbeatLosesLease, Beating, Busy, TypeOK
<1>6. ASSUME NEW w \in Workers, HeartbeatExtends(w) PROVE LeaseInv'
  BY <1>6, BusyWorkerType, LeaseMoves
     DEF HeartbeatExtends, Beating, TypeOK, Lease
<1>7. CASE Crash
  BY <1>1, <1>7 DEF Crash, Busy, IdleWorker
<1>8. ASSUME NEW t \in Tasks, Enqueue(t) PROVE LeaseInv'
  <2>1. /\ \A x \in Tasks \ {t} : tasks'[x] = tasks[x]
        /\ tasks'[t].status = "queued"
    BY <1>8 DEF Enqueue, EnqueuedRow, NoRow, TypeOK
  <2>2. Exclusive(t) =>
          t \notin dead_letters /\ \A w \in Busy : pool[w].task # t
    BY <1>8, RunnerRow DEF Enqueue, LeaseInv, DeadLetterLedger
  <2>3. QED
    BY <1>8, <2>1, <2>2, RowsKeep DEF Enqueue
<1>9. CASE LaunchProbe
  BY <1>9, RowsKeep, TaskAssumption
     DEF LaunchProbe, FreshProbe, RunningOn, EnqueuedRow, NoRow, TypeOK
<1>10. ASSUME NEW t \in CancelTargets, CancelTaskWrite(t) PROVE LeaseInv'
  <2>1. t \in Tasks
    BY TaskAssumption
  <2>2. /\ \A x \in Tasks \ {t} : tasks'[x] = tasks[x]
        /\ tasks'[t].status = "canceled"
    BY <1>10, <2>1 DEF CancelTaskWrite, SetRow, TypeOK, Row
  <2>3. QED
    BY <1>10, <2>2, RowsKeep DEF CancelTaskWrite
<1>11. CASE CancelInvestigation
  <2>1. \A t \in Tasks : tasks'[t] = tasks[t] \/ tasks'[t].status = "canceled"
    BY <1>11
       DEF CancelInvestigation, CancelIfLive, UnleasedWithError, Unleased, TypeOK, Row
  <2>2. QED
    BY <1>11, <2>1, RowsKeep DEF CancelInvestigation
<1>11a. CASE OverrideStop
  <2>1. \A t \in Tasks : tasks'[t] = tasks[t] \/ tasks'[t].status = "canceled"
    BY <1>11a DEF OverrideStop, CancelIfBegun, UnleasedWithError, Unleased, TypeOK, Row
  <2>2. QED
    BY <1>11a, <2>1, RowsKeep DEF OverrideStop
<1>11b. CASE OverrideContinue
  <2>1. \A t \in Tasks :
          \/ tasks'[t] = tasks[t]
          \/ tasks'[t].status = "queued" /\ tasks[t].stop_error
    BY <1>11b DEF OverrideContinue, ReviveStopped, TypeOK, Row
  <2>2. \A t \in Tasks : Exclusive(t) /\ tasks[t].stop_error =>
          t \notin dead_letters /\ \A w \in Busy : pool[w].task # t
    BY DEF StoppedIdle, RunningOn
  <2>3. QED
    BY <1>11b, <2>1, <2>2, RowsKeep DEF OverrideContinue
<1>12. ASSUME NEW t \in Tasks, NEW b \in BOOLEAN, RequeueDeadLetter(t, b)
       PROVE  LeaseInv'
  <2>1. Busy' = Busy /\ (Exclusive(t) => \A w \in Busy : pool[w].task # t)
    BY <1>12, RunnerRow DEF RequeueDeadLetter, Busy
  <2>2. /\ \A x \in Tasks \ {t} : tasks'[x] = tasks[x]
        /\ tasks'[t].status = "queued"
    BY <1>12 DEF RequeueDeadLetter, SetRow, DeadLetterRequeued, UnleasedWithError,
                 Unleased, TypeOK, Row
  <2>3. OneRunner' /\ SnapshotCurrent'
    BY <1>12, <2>1, <2>2, RunnerTask, RunnersKept DEF RequeueDeadLetter
  <2>4. DeadLetterLedger'
    BY <1>12, <2>1, <2>2
       DEF RequeueDeadLetter, LeaseInv, DeadLetterLedger, RunningOn, Exclusive
  <2>5. QED
    BY <2>3, <2>4 DEF LeaseInv
<1>13. ASSUME NEW t \in Tasks, LeasePasses(t) PROVE LeaseInv'
  BY <1>13, LeaseMoves DEF LeasePasses, Lease
<1>14. ASSUME NEW w \in Workers, Settle(w) \/ DrainTimeout(w) PROVE LeaseInv'
  BY <1>14, SettleKeeps
     DEF Settle, SettleReleased, SettleRateLimited, SettleFailed, SettlePartial,
         SettleSuccess, Settling, DrainTimeout, Busy
<1>15. QED
  BY <1>2, <1>3, <1>4, <1>5, <1>6, <1>7, <1>8, <1>9, <1>10, <1>11, <1>11a,
     <1>11b, <1>12, <1>13, <1>14, ClaimKeeps
     DEF Next, vars, TickStep, NoProbeToLaunch, Gate, NothingToClaim,
         WorkerStep, CancelObserved, FaultStep, TickFails, SettleFails, Stop,
         Exit, Restart, OperatorStep, CancelTaskRead, ClearRateLimit, TimeStep,
         LimitPasses, HitNoLongerRecent

-----------------------------------------------------------------------------
\* Every write of a row is one of these, by the worker that runs the task, by the
\* settlement of a sibling, by the operator, or by the dispatcher and its leases.
WrittenByWorker(w, r, s) ==
  \/ s \in {ReleaseTask(r), MarkPartial(r), MarkSuccess(r)}
  \/ /\ s = RequeueOnRateLimit(r)
     /\ pool[w].outcome = "rate_limit"
     /\ pool[w].bounces + 1 < RateLimitBounceCap
  \/ pool[w].outcome = "error" /\ s = RetryScheduled(r)
  \/ /\ s = MarkDeadLetter(r)
     /\ \/ pool[w].attempts >= MaxAttempts[pool[w].task]
        \/ pool[w].bounces + 1 >= RateLimitBounceCap

Written(t) ==
  \/ tasks[t].status = "absent" /\ tasks'[t] = EnqueuedRow
  \/ t \in Probes /\ RunningOn(t) = {} /\ tasks'[t] = EnqueuedRow
  \/ Claimable(tasks[t]) /\ \E w \in Workers : tasks'[t] = Claimed(tasks[t], w)
  \/ \E w \in RunningOn(t) \ Busy' : WrittenByWorker(w, tasks[t], tasks'[t])
  \/ tasks'[t] \in {CancelIfLive(tasks[t]), CancelIfBegun(tasks[t]),
                     StopIfQueued(tasks[t])}
  \/ tasks'[t] = ReviveStopped(tasks[t]) /\ UNCHANGED pool
  \/ /\ t \in CancelTargets /\ cancel_calls[t].open
     /\ tasks'[t].status = "canceled"
     /\ tasks'[t].lease_holder \in {NoWorker, tasks[t].lease_holder}
     /\ tasks'[t].rate_limit_bounces = tasks[t].rate_limit_bounces
     /\ tasks'[t].stop_error = tasks[t].stop_error
  \/ /\ t \in dead_letters
     /\ \E b \in BOOLEAN : tasks'[t] = DeadLetterRequeued(tasks[t], b)
  \/ tasks[t].lease = "future" /\ tasks'[t] = [tasks[t] EXCEPT !.lease = "past"]
  \/ tasks[t].status = "running" /\ tasks'[t] = [tasks[t] EXCEPT !.lease = "future"]

LEMMA SettleWrites ==
  ASSUME TypeOK, NEW w \in Busy, Settle(w) \/ DrainTimeout(w),
         NEW t \in Tasks, tasks'[t] # tasks[t]
  PROVE  Written(t)
<1> DEFINE x == pool[w].task
<1>1. x \in Tasks /\ (x = t => w \in RunningOn(t)) /\ w \notin Busy'
  BY RunnerTask
     DEF RunningOn, Settle, SettleReleased, SettleRateLimited, SettleFailed,
         SettlePartial, SettleSuccess, DrainTimeout, Leave, Busy, IdleWorker, TypeOK
<1>2. ASSUME NEW r, SetRow(x, r),
             r # tasks[x] => WrittenByWorker(w, tasks[x], r)
      PROVE  Written(t)
  <2>1. t = x /\ tasks'[x] = r
    BY <1>1, <1>2 DEF SetRow, TypeOK
  <2>2. WrittenByWorker(w, tasks[t], tasks'[t]) /\ w \in RunningOn(t) \ Busy'
    BY <1>1, <1>2, <2>1
  <2>3. QED
    BY <2>2 DEF Written
<1>3. CASE SettleReleased(w) \/ DrainTimeout(w)
  BY <1>2, <1>3 DEF SettleReleased, DrainTimeout, WrittenByWorker
<1>4. CASE SettlePartial(w)
  BY <1>2, <1>4 DEF SettlePartial, WrittenByWorker
<1>5. CASE SettleRateLimited(w)
  <2>1. \/ pool[w].bounces + 1 >= RateLimitBounceCap
        \/ pool[w].bounces + 1 < RateLimitBounceCap
    BY BusyWorkerType, PoolAssumption DEF TypeOK, Busy
  <2>2. QED
    BY <1>2, <1>5, <2>1
       DEF SettleRateLimited, Settling, DeadLetter, WrittenByWorker
<1>6. CASE SettleFailed(w)
  BY <1>2, <1>6
     DEF SettleFailed, Settling, DeadLetter, Exhausted, WrittenByWorker
<1>7. CASE SettleSuccess(w)
  <2>1. \/ tasks'[t] = StopIfQueued(tasks[t])
        \/ t = x /\ tasks'[t] = MarkSuccess(tasks[t])
    BY <1>7 DEF SettleSuccess
  <2>2. QED
    BY <1>1, <2>1 DEF Written, WrittenByWorker
<1>8. QED
  BY <1>3, <1>4, <1>5, <1>6, <1>7 DEF Settle

LEMMA RowSteps ==
  ASSUME TypeOK, [Next]_vars, NEW t \in Tasks, tasks'[t] # tasks[t]
  PROVE  Written(t)
<1>1. tasks \in [Tasks -> Row(Workers)] /\ tasks' # tasks
  BY DEF TypeOK
<1>2. ASSUME NEW w \in Workers, Settle(w) \/ DrainTimeout(w)
      PROVE  Written(t)
  BY <1>2, SettleWrites
     DEF Settle, SettleReleased, SettleRateLimited, SettleFailed, SettlePartial,
         SettleSuccess, Settling, DrainTimeout, Busy
<1>3. ASSUME NEW w \in Workers, HeartbeatExtends(w) PROVE Written(t)
  BY <1>1, <1>3, BusyWorkerType
     DEF HeartbeatExtends, Beating, LeaseHeld, TypeOK, Written
<1>4. ASSUME NEW x \in CancelTargets, CancelTaskWrite(x) PROVE Written(t)
  BY <1>1, <1>4, TaskAssumption DEF CancelTaskWrite, SetRow, Written, Row
<1>5. ASSUME NEW x \in Tasks, NEW b \in BOOLEAN, RequeueDeadLetter(x, b)
      PROVE  Written(t)
  BY <1>1, <1>5 DEF RequeueDeadLetter, SetRow, Written
<1>6. ASSUME NEW x \in Tasks, LeasePasses(x) PROVE Written(t)
  BY <1>1, <1>6 DEF LeasePasses, Written
<1>7. ASSUME NEW w \in Workers, NEW x \in Tasks, Claim(w, x) PROVE Written(t)
  BY <1>1, <1>7 DEF Claim, Eligible, Written
<1>8. ASSUME NEW x \in Tasks, Enqueue(x) PROVE Written(t)
  BY <1>1, <1>8 DEF Enqueue, Written
<1>9. CASE LaunchProbe
  BY <1>1, <1>9 DEF LaunchProbe, FreshProbe, Written
<1>10. CASE CancelInvestigation \/ OverrideContinue \/ OverrideStop
  BY <1>1, <1>10 DEF CancelInvestigation, OverrideContinue, OverrideStop, Written
<1>11. QED
  BY <1>1, <1>2, <1>3, <1>4, <1>5, <1>6, <1>7, <1>8, <1>9, <1>10
     DEF Next, vars, TickStep, NoProbeToLaunch, Gate, NothingToClaim, WorkerStep,
         HandlerReturns, HeartbeatLosesLease, CancelObserved, FaultStep,
         TickFails, SettleFails, Stop, Exit, Crash, Restart, OperatorStep,
         CancelTaskRead, ClearRateLimit, TimeStep, LimitPasses, HitNoLongerRecent

\* What the writes can make of a row's status.
LEMMA WrittenStatus ==
  ASSUME NEW r \in Row(Workers), NEW w, NEW s, WrittenByWorker(w, r, s)
  PROVE  /\ s = r \/ s.status \in {"queued", "partial", "success", "dead_letter"}
         /\ s.status = "dead_letter" /\ r.status # "dead_letter" =>
              /\ s = MarkDeadLetter(r)
              /\ \/ pool[w].attempts >= MaxAttempts[pool[w].task]
                 \/ pool[w].bounces + 1 >= RateLimitBounceCap
         /\ s.status = "success" => s = r \/ s.lease = "null"
         /\ s # r /\ r.status = "canceled" =>
              pool[w].outcome \in {"error", "rate_limit"}
  BY DEF WrittenByWorker, Row, MarkSuccess, MarkPartial, MarkFailed,
         MarkDeadLetter, RequeueOnRateLimit, ReleaseTask, RetryScheduled,
         UnleasedWithError, Unleased

-----------------------------------------------------------------------------
\* A canceled task that no worker has gets none, and is listed by none.
LEMMA IdleStays ==
  ASSUME TypeOK, [Next]_vars, NEW t \in Tasks, RunningOn(t) = {},
         tasks'[t].status = "canceled", t \notin dead_letters
  PROVE  RunningOn(t)' = {} /\ t \notin dead_letters'
<1>1. RunningOn(t)' = {}
  <2>1. ASSUME NEW w \in Workers, NEW x \in Tasks, Claim(w, x)
        PROVE  RunningOn(t)' = {}
    <3>1. tasks'[x].status = "running"
      BY <2>1 DEF Claim, Claimed, TypeOK, Row
    <3>2. x # t
      BY <3>1
    <3> QED
      BY <2>1, <3>2, ClaimTakesFreeSlot DEF RunningOn, Busy
  <2>2. CASE \A w \in Busy' : w \in Busy /\ pool'[w].task = pool[w].task
    BY <2>2 DEF RunningOn
  <2> QED
    BY <2>1, <2>2, PoolSteps
<1>2. t \notin dead_letters'
  <2>1. ASSUME NEW w \in Workers, NEW rl, DeadLetter(w, rl), pool[w].phase # "idle"
        PROVE  t \notin dead_letters'
    BY <2>1 DEF DeadLetter, RunningOn, Busy
  <2> QED
    BY <2>1
       DEF Next, vars, Enqueue, TickStep, LaunchProbe, NoProbeToLaunch, Gate,
           Claim, NothingToClaim, WorkerStep, HandlerReturns, HeartbeatExtends,
           HeartbeatLosesLease, CancelObserved, Settle, SettleReleased,
           SettleRateLimited, SettleFailed, SettlePartial, SettleSuccess,
           Settling, FaultStep, TickFails, SettleFails, Stop, DrainTimeout, Exit,
           Crash, Restart, OperatorStep, CancelTaskRead, CancelTaskWrite,
           CancelInvestigation, OverrideContinue, OverrideStop,
           RequeueDeadLetter, ClearRateLimit, TimeStep, LeasePasses,
           LimitPasses, HitNoLongerRecent
<1>3. QED
  BY <1>1, <1>2

\* Only the gate's STOP names itself as the last error, and only of a queued row,
\* which nobody has; what another UPDATE writes of a stopped row keeps it idle.
LEMMA StoppedIdleStep ==
  TypeOK /\ LeaseInv /\ StoppedIdle /\ [Next]_vars => StoppedIdle'
<1> SUFFICES ASSUME TypeOK, LeaseInv, StoppedIdle, [Next]_vars,
                    NEW t \in Tasks, Exclusive(t), tasks'[t].stop_error
             PROVE  /\ tasks'[t].status = "canceled"
                    /\ tasks'[t].lease_holder = NoWorker
                    /\ t \notin dead_letters'
                    /\ RunningOn(t)' = {}
  BY DEF StoppedIdle, Exclusive
<1>1. tasks[t] \in Row(Workers)
  BY DEF TypeOK
<1>2. /\ tasks'[t].status = "canceled" /\ tasks'[t].lease_holder = NoWorker
      /\ t \notin dead_letters /\ RunningOn(t) = {}
  <2>1. CASE tasks'[t] = tasks[t]
    BY <2>1 DEF StoppedIdle
  <2>2. CASE tasks'[t] # tasks[t]
    <3>1. Written(t)
      BY <2>2, RowSteps
    <3>2. CASE tasks[t].stop_error
      <4>1. /\ tasks[t].status = "canceled" /\ tasks[t].lease_holder = NoWorker
            /\ t \notin dead_letters /\ RunningOn(t) = {}
        BY <3>2 DEF StoppedIdle
      <4> QED
        BY <1>1, <2>2, <3>1, <4>1
           DEF Written, EnqueuedRow, NoRow, Claimable, CancelIfLive, CancelIfBegun,
               StopIfQueued, ReviveStopped, Row
    <3>3. CASE ~tasks[t].stop_error
      <4>1. \A w : ~WrittenByWorker(w, tasks[t], tasks'[t])
        BY <1>1, <3>3
           DEF WrittenByWorker, Row, MarkSuccess, MarkPartial, MarkFailed,
               MarkDeadLetter, RequeueOnRateLimit, ReleaseTask, RetryScheduled,
               UnleasedWithError, Unleased
      <4>2. tasks'[t] = StopIfQueued(tasks[t])
        BY <1>1, <2>2, <3>1, <3>3, <4>1
           DEF Written, EnqueuedRow, NoRow, Claimed, CancelIfLive, CancelIfBegun,
               ReviveStopped, DeadLetterRequeued, UnleasedWithError, Unleased, Row
      <4>3. /\ tasks[t].status = "queued"
            /\ tasks'[t].status = "canceled" /\ tasks'[t].lease_holder = NoWorker
        BY <1>1, <2>2, <4>2 DEF StopIfQueued, Unleased, Row
      <4>4. t \notin dead_letters
        BY <4>3 DEF LeaseInv, DeadLetterLedger
      <4>5. RunningOn(t) = {}
        BY <4>3, RunnerRow DEF RunningOn
      <4> QED
        BY <4>3, <4>4, <4>5
    <3> QED
      BY <3>2, <3>3
  <2> QED
    BY <2>1, <2>2
<1>3. QED
  BY <1>2, IdleStays

LEMMA LeaseInvHolds == Spec => [](LeaseInv /\ StoppedIdle)
<1>1. Init => LeaseInv /\ StoppedIdle
  BY DEF Init, LeaseInv, OneRunner, SnapshotCurrent, DeadLetterLedger, Busy,
         IdleWorker, NoRow, StoppedIdle
<1>2. QED
  BY <1>1, LeaseInvStep, StoppedIdleStep, TypeCorrect, PTL DEF Spec

\* No exclusive task is run by two workers at once.
THEOREM OneRunnerPerTask == Spec => []OneRunner
<1>1. LeaseInv => OneRunner
  BY DEF LeaseInv
<1>2. QED
  BY <1>1, LeaseInvHolds, PTL

\* A worker's copy of its row is true until the row is canceled.
THEOREM SnapshotsStayCurrent == Spec => []SnapshotCurrent
<1>1. LeaseInv => SnapshotCurrent
  BY DEF LeaseInv
<1>2. QED
  BY <1>1, LeaseInvHolds, PTL

\* The dead-letter table and the tasks table agree.
THEOREM LedgerSound == Spec => []DeadLetterLedger
<1>1. LeaseInv => DeadLetterLedger
  BY DEF LeaseInv
<1>2. QED
  BY <1>1, LeaseInvHolds, PTL

-----------------------------------------------------------------------------
\* No UPDATE leaves a row that no claim can take, whatever becomes of the
\* heartbeats, and none leaves a worker's name on an exclusive row that waits: the
\* operator's CONTINUE, which does not touch the lease, meets only idle rows.
THEOREM NeverStranded == Spec => []NoStrandedRow
<1>1. Init => NoStrandedRow
  BY DEF Init, NoStrandedRow, NoRow, Recoverable, Nobodys
<1>2. TypeOK /\ StoppedIdle /\ NoStrandedRow /\ [Next]_vars => NoStrandedRow'
  <2> SUFFICES ASSUME TypeOK, StoppedIdle, NoStrandedRow, [Next]_vars,
                      NEW t \in Tasks, tasks'[t] # tasks[t]
               PROVE  /\ Recoverable(tasks'[t])
                      /\ Exclusive(t) => Nobodys(tasks'[t])
    BY DEF NoStrandedRow, Exclusive
  <2>1. /\ tasks[t] \in Row(Workers) /\ Written(t)
        /\ Recoverable(tasks[t])
        /\ Exclusive(t) => Nobodys(tasks[t])
    BY RowSteps DEF TypeOK, NoStrandedRow
  <2>2. CASE \E w \in RunningOn(t) : WrittenByWorker(w, tasks[t], tasks'[t])
    <3>1. tasks'[t].status # "running" /\ tasks'[t].lease_holder = NoWorker
      BY <2>1, <2>2
         DEF WrittenByWorker, Row, MarkSuccess, MarkPartial, MarkFailed,
             MarkDeadLetter, RequeueOnRateLimit, ReleaseTask, RetryScheduled,
             UnleasedWithError, Unleased
    <3> QED
      BY <3>1 DEF Recoverable, Nobodys
  <2>3. CASE \E w \in Workers : tasks'[t] = Claimed(tasks[t], w)
    BY <2>1, <2>3, TaskAssumption DEF Claimed, Recoverable, Nobodys, Row
  <2>4. CASE tasks'[t] = ReviveStopped(tasks[t])
    <3>1. tasks'[t].status = "queued" /\ tasks[t].stop_error
          /\ tasks'[t].lease_holder = tasks[t].lease_holder
      BY <2>1, <2>4 DEF ReviveStopped, Row
    <3> QED
      BY <3>1 DEF StoppedIdle, Recoverable, Nobodys
  <2>5. CASE \/ tasks'[t] = EnqueuedRow
             \/ tasks'[t].status = "canceled"
             \/ \E b \in BOOLEAN : tasks'[t] = DeadLetterRequeued(tasks[t], b)
    BY <2>1, <2>5
       DEF EnqueuedRow, NoRow, DeadLetterRequeued, UnleasedWithError, Unleased,
           Recoverable, Nobodys, Row
  <2>6. CASE \E l \in {"past", "future"} : tasks'[t] = [tasks[t] EXCEPT !.lease = l]
    BY <2>1, <2>6 DEF Recoverable, Nobodys, Row
  <2>7. CASE tasks'[t] \in {CancelIfLive(tasks[t]), CancelIfBegun(tasks[t]),
                            StopIfQueued(tasks[t])}
    <3>1. tasks'[t].status = "canceled"
      BY <2>1, <2>7
         DEF CancelIfLive, CancelIfBegun, StopIfQueued, UnleasedWithError,
             Unleased, Row
    <3> QED
      BY <2>5, <3>1
  <2> QED
    BY <2>1, <2>2, <2>3, <2>4, <2>5, <2>6, <2>7 DEF Written
<1>3. QED
  BY <1>1, <1>2, LeaseInvHolds, TypeCorrect, PTL DEF Spec

-----------------------------------------------------------------------------
\* A task is dead-lettered only when its row says that its attempts or bounces
\* are used up: the worker's old copy never decides otherwise.
THEOREM DeadLettersEarned == Spec => DeadLetterEarned
<1> DEFINE Earned(t) ==
      /\ Exclusive(t)
      /\ tasks[t].status # "dead_letter"
      /\ tasks'[t].status = "dead_letter"
      =>
        \/ tasks[t].attempts >= MaxAttempts[t]
        \/ tasks[t].rate_limit_bounces + 1 >= RateLimitBounceCap
<1>1. TypeOK /\ LeaseInv /\ [Next]_vars => [\A t \in Tasks : Earned(t)]_vars
  <2> SUFFICES ASSUME TypeOK, LeaseInv, [Next]_vars, NEW t \in Tasks,
                      Exclusive(t), tasks[t].status # "dead_letter",
                      tasks'[t].status = "dead_letter"
               PROVE  \/ tasks[t].attempts >= MaxAttempts[t]
                      \/ tasks[t].rate_limit_bounces + 1 >= RateLimitBounceCap
    OBVIOUS
  <2>1. PICK w \in Busy :
          /\ pool[w].task = t
          /\ tasks'[t] = MarkDeadLetter(tasks[t])
          /\ \/ pool[w].attempts >= MaxAttempts[t]
             \/ pool[w].bounces + 1 >= RateLimitBounceCap
    <3>1. tasks[t] \in Row(Workers) /\ Written(t)
      BY RowSteps DEF TypeOK
    <3>2. PICK w \in RunningOn(t) : WrittenByWorker(w, tasks[t], tasks'[t])
      BY <3>1 DEF Written, EnqueuedRow, NoRow, Claimed, CancelIfLive,
                  CancelIfBegun, StopIfQueued, ReviveStopped,
                  DeadLetterRequeued, UnleasedWithError, Unleased, Row
    <3>3. QED
      BY <3>1, <3>2, WrittenStatus DEF RunningOn
  <2>2. tasks[t].status # "canceled"
    BY <2>1 DEF MarkDeadLetter
  <2>3. /\ tasks[t].attempts = pool[w].attempts
        /\ tasks[t].rate_limit_bounces = pool[w].bounces
    BY <2>1, <2>2 DEF LeaseInv, SnapshotCurrent
  <2>4. QED
    BY <2>1, <2>3
<1>2. QED
  BY <1>1, TypeCorrect, LeaseInvHolds, PTL DEF DeadLetterEarned, Spec

-----------------------------------------------------------------------------
(***************************************************************************)
(* The dispatcher implements the abstract queue.  Seen from the queue, a   *)
(* worker that claims a task takes it; one that settles it finishes it, or *)
(* gives it back; a crash, a drain or a failed settlement loses it.  The   *)
(* lease invariant is what makes these steps of the queue: a claim takes   *)
(* no task in hand, and the settlement of one worker leaves no other       *)
(* worker with the task.                                                   *)
(***************************************************************************)

LEMMA QueueStates ==
  /\ QueueState["absent"] = "new"
  /\ QueueState["queued"] = "waiting"
  /\ QueueState["partial"] = "waiting"
  /\ QueueState["running"] = "taken"
  /\ QueueState["success"] = "done"
  /\ QueueState["failed"] = "dead"
  /\ QueueState["dead_letter"] = "dead"
  /\ QueueState["canceled"] = "canceled"
  BY DEF QueueState

\* A step that changes no task's state and puts none in hand: workers are lost,
\* or nothing that the queue sees happens.
LEMMA IsVanish ==
  ASSUME \A t \in QueueTasks :
           QueueState[tasks'[t].status] = QueueState[tasks[t].status],
         InHand' \subseteq InHand
  PROVE  Queue!Next
<1> DEFINE lost == InHand \ InHand'
<1>1. lost \in SUBSET InHand /\ InHand' = InHand \ lost
  OBVIOUS
<1>2. Queue!Vanish(lost)
  BY <1>1 DEF Queue!Vanish
<1>3. QED
  BY <1>1, <1>2 DEF Queue!Next

LEMMA IsFinish ==
  ASSUME NEW t \in InHand, NEW stopped \in SUBSET Queue!Waiting,
         QueueState[tasks'[t].status]
           \in Queue!Results(QueueState[tasks[t].status]),
         \A u \in QueueTasks \ {t} :
           QueueState[tasks'[u].status] =
             IF u \in stopped THEN "canceled" ELSE QueueState[tasks[u].status],
         InHand' = InHand \ {t}
  PROVE  Queue!Next
<1>1. t \in QueueTasks
  BY DEF InHand
<1>2. Queue!Finish(t, QueueState[tasks'[t].status], stopped)
  BY <1>1 DEF Queue!Finish
<1>3. QED
  BY <1>1, <1>2 DEF Queue!Next

LEMMA IsCancel ==
  ASSUME NEW canceled \in SUBSET Queue!Cancelable,
         \A t \in QueueTasks :
           QueueState[tasks'[t].status] =
             IF t \in canceled THEN "canceled" ELSE QueueState[tasks[t].status],
         InHand' = InHand
  PROVE  Queue!Next
<1>1. Queue!Cancel(canceled)
  BY DEF Queue!Cancel
<1>2. QED
  BY <1>1 DEF Queue!Next

LEMMA IsRevive ==
  ASSUME NEW revived \in SUBSET Queue!Revivable,
         \A t \in QueueTasks :
           QueueState[tasks'[t].status] =
             IF t \in revived THEN "waiting" ELSE QueueState[tasks[t].status],
         InHand' = InHand
  PROVE  Queue!Next
<1>1. Queue!Revive(revived)
  BY DEF Queue!Revive
<1>2. QED
  BY <1>1 DEF Queue!Next

\* A step of the queue that moves one task and leaves the others alone.
LEMMA IsMove ==
  ASSUME NEW t \in QueueTasks,
         \A u \in QueueTasks \ {t} :
           QueueState[tasks'[u].status] = QueueState[tasks[u].status],
         \/ /\ QueueState[tasks[t].status] = "new"
            /\ QueueState[tasks'[t].status] = "waiting"
            /\ InHand' = InHand
         \/ /\ QueueState[tasks[t].status] \in {"waiting", "taken"}
            /\ QueueState[tasks'[t].status] = "taken"
            /\ t \notin InHand /\ InHand' = InHand \union {t}
            /\ Queue!Free(t)
         \/ /\ QueueState[tasks[t].status] \in {"dead", "canceled"}
            /\ QueueState[tasks'[t].status] = "waiting"
            /\ t \notin InHand /\ InHand' = InHand
  PROVE  Queue!Next
<1>1. \/ Queue!Submit({t}) /\ {t} \in SUBSET Queue!New
      \/ Queue!Take(t)
      \/ Queue!Revive({t}) /\ {t} \in SUBSET Queue!Revivable
  BY DEF Queue!Submit, Queue!Take, Queue!Revive, Queue!New, Queue!Revivable
<1>2. QED
  BY <1>1 DEF Queue!Next

-----------------------------------------------------------------------------
\* A worker that leaves takes its task out of hand: no other worker has it.
LEMMA LeavesHand ==
  ASSUME TypeOK, LeaseInv, NEW w \in Busy, Leave(w)
  PROVE  InHand' = InHand \ {pool[w].task}
  BY LeaversAreAlone DEF InHand, QueueTasks

\* What each settlement makes of a row that is being run.
LEMMA SettledStates ==
  ASSUME NEW r \in Row(Workers), r.status \in {"running", "canceled"},
         NEW s \in {MarkSuccess(r), MarkPartial(r), MarkDeadLetter(r),
                    RequeueOnRateLimit(r), ReleaseTask(r), RetryScheduled(r)}
  PROVE  QueueState[s.status] \in Queue!Results(QueueState[r.status])
<1>1. /\ r.status = "running" =>
           s.status \in {"queued", "success", "partial", "dead_letter"}
      /\ r.status = "canceled" => s.status \in {"canceled", "queued"}
  BY DEF MarkSuccess, MarkPartial, MarkDeadLetter, MarkFailed,
         RequeueOnRateLimit, ReleaseTask, RetryScheduled, UnleasedWithError,
         Unleased, Row
<1>2. CASE r.status = "running"
  BY <1>1, <1>2, QueueStates DEF Queue!Results
<1>3. CASE r.status = "canceled"
  BY <1>1, <1>3, QueueStates DEF Queue!Results
<1>4. QED
  BY <1>2, <1>3

\* The settlement that sends one UPDATE, and the release of a drained worker,
\* finish the task or give it back; a probe is not a task of the queue.
LEMMA SettleOne ==
  ASSUME TypeOK, LeaseInv, NEW w \in Busy, Leave(w),
         NEW s \in {MarkSuccess(tasks[pool[w].task]),
                    MarkPartial(tasks[pool[w].task]),
                    MarkDeadLetter(tasks[pool[w].task]),
                    RequeueOnRateLimit(tasks[pool[w].task]),
                    ReleaseTask(tasks[pool[w].task]),
                    RetryScheduled(tasks[pool[w].task])},
         SetRow(pool[w].task, s)
  PROVE  Queue!Next
<1> DEFINE t == pool[w].task
<1>1. /\ t \in Tasks /\ tasks[t] \in Row(Workers)
      /\ Exclusive(t) => tasks[t].status \in {"running", "canceled"}
  BY RunnerTask, RunnerRow
<1>2. InHand' = InHand \ {t}
  BY LeavesHand
<1>3. tasks'[t] = s /\ \A u \in Tasks \ {t} : tasks'[u] = tasks[u]
  BY <1>1 DEF SetRow, TypeOK
<1>4. CASE t \in QueueTasks
  <2>1. t \in InHand
    BY <1>4 DEF InHand
  <2>2. QueueState[tasks'[t].status]
          \in Queue!Results(QueueState[tasks[t].status])
    BY <1>1, <1>3, <1>4, SettledStates DEF QueueTasks
  <2>3. \A u \in QueueTasks \ {t} : tasks'[u] = tasks[u]
    BY <1>3 DEF QueueTasks, Ordinary
  <2> HIDE DEF t
  <2>4. {} \in SUBSET Queue!Waiting
    OBVIOUS
  <2>5. QED
    BY <1>2, <2>1, <2>2, <2>3, <2>4, IsFinish
<1>5. CASE t \notin QueueTasks
  <2>1. \A u \in QueueTasks : tasks'[u] = tasks[u]
    BY <1>3, <1>5 DEF QueueTasks, Ordinary
  <2>2. QED
    BY <1>2, <2>1, IsVanish
<1>6. QED
  BY <1>4, <1>5

\* A financial dive that says STOP also cancels siblings that nobody has begun.
LEMMA SettleSuccessStep ==
  ASSUME TypeOK, LeaseInv, NEW w \in Busy, SettleSuccess(w)
  PROVE  Queue!Next
<1> DEFINE t == pool[w].task
<1>1. /\ t \in Tasks /\ tasks[t] \in Row(Workers)
      /\ Exclusive(t) => tasks[t].status \in {"running", "canceled"}
  BY RunnerTask, RunnerRow
<1>2. InHand' = InHand \ {t}
  BY LeavesHand DEF SettleSuccess
<1>3. PICK stop \in BOOLEAN :
        tasks' = [x \in Tasks |->
          IF x = t THEN MarkSuccess(tasks[x])
          ELSE IF x \in (IF stop /\ t \in FinancialDives THEN Dives \ {t} ELSE {})
          THEN StopIfQueued(tasks[x])
          ELSE tasks[x]]
  BY DEF SettleSuccess
<1> DEFINE siblings == IF stop /\ t \in FinancialDives THEN Dives \ {t} ELSE {}
           stopped == {u \in siblings \intersect QueueTasks :
                         tasks[u].status = "queued"}
<1>4. siblings \intersect QueueTasks \subseteq QueueTasks \ {t}
  OBVIOUS
<1>5. tasks'[t] = MarkSuccess(tasks[t])
  BY <1>1, <1>3
<1>6. \A u \in QueueTasks \ {t} :
        tasks'[u].status =
          IF u \in stopped THEN "canceled" ELSE tasks[u].status
  <2>1. \A u \in QueueTasks \ {t} :
          tasks'[u] = IF u \in siblings THEN StopIfQueued(tasks[u])
                      ELSE tasks[u]
    BY <1>3 DEF QueueTasks, Ordinary
  <2>2. QED
    BY <2>1 DEF StopIfQueued, Unleased, QueueTasks, Ordinary, TypeOK, Row
<1>7. \A u \in QueueTasks \ {t} :
        QueueState[tasks'[u].status] =
          IF u \in stopped THEN "canceled" ELSE QueueState[tasks[u].status]
  BY <1>6, QueueStates
<1>8. stopped \in SUBSET Queue!Waiting
  BY <1>4, QueueStates DEF Queue!Waiting
<1>9. CASE t \in QueueTasks
  <2>1. t \in InHand
    BY <1>9 DEF InHand
  <2>2. QueueState[tasks'[t].status]
          \in Queue!Results(QueueState[tasks[t].status])
    BY <1>1, <1>5, <1>9, SettledStates DEF QueueTasks
  <2> HIDE DEF t, stopped
  <2>3. QED
    BY <1>2, <1>7, <1>8, <2>1, <2>2, IsFinish
<1>10. CASE t \notin QueueTasks
  <2>1. InHand' = InHand
    BY <1>2, <1>10 DEF InHand
  <2>2. stopped \in SUBSET Queue!Cancelable
    BY <1>8 DEF Queue!Waiting, Queue!Cancelable
  <2>3. \A u \in QueueTasks : QueueState[tasks'[u].status] =
          IF u \in stopped THEN "canceled" ELSE QueueState[tasks[u].status]
    BY <1>7, <1>10
  <2> HIDE DEF stopped
  <2>4. QED
    BY <2>1, <2>2, <2>3, IsCancel
<1>11. QED
  BY <1>9, <1>10

LEMMA SettleStep ==
  ASSUME TypeOK, LeaseInv, NEW w \in Busy, Settle(w) \/ DrainTimeout(w)
  PROVE  Queue!Next
<1>1. CASE SettleReleased(w) \/ SettlePartial(w) \/ DrainTimeout(w)
  BY <1>1, SettleOne DEF SettleReleased, SettlePartial, DrainTimeout
<1>2. ASSUME NEW rl, DeadLetter(w, rl), Leave(w) PROVE Queue!Next
  <2>1. CASE SetRow(pool[w].task, MarkDeadLetter(tasks[pool[w].task]))
    BY <1>2, <2>1, SettleOne
  <2>2. CASE UNCHANGED tasks
    <3>1. InHand' \subseteq InHand
      BY <1>2, LeavesHand
    <3>2. QED
      BY <2>2, <3>1, IsVanish
  <2>3. QED
    BY <1>2, <2>1, <2>2, DeadLetterKeeps
<1>3. CASE SettleRateLimited(w)
  BY <1>2, <1>3, SettleOne DEF SettleRateLimited
<1>4. CASE SettleFailed(w)
  BY <1>2, <1>4, SettleOne DEF SettleFailed
<1>5. QED
  BY <1>1, <1>3, <1>4, SettleSuccessStep DEF Settle

\* A claim takes a task that no worker has in hand, and whose resource none of
\* them holds.
LEMMA ClaimStep ==
  ASSUME TypeOK, LeaseInv, NEW w \in Workers, NEW t \in Tasks, Claim(w, t)
  PROVE  Queue!Next
<1>1. /\ tasks[t].status \in {"queued", "partial", "running"}
      /\ tasks[t].status = "running" => tasks[t].lease = "past"
      /\ ResourceKey[t] \notin RunningResourceKeys
  BY DEF Claim, Eligible, Claimable
<1>2. Exclusive(t) => \A v \in Busy : pool[v].task # t
  BY ClaimFindsNoRunner
<1>3. /\ Busy' = Busy \union {w}
      /\ pool'[w].task = t
      /\ \A v \in Busy : pool'[v] = pool[v]
  BY ClaimTakesFreeSlot DEF Busy
<1>4. /\ tasks'[t].status = "running"
      /\ \A u \in Tasks \ {t} : tasks'[u] = tasks[u]
  BY DEF Claim, Claimed, TypeOK, Row
<1>5. InHand' = (InHand \union {t}) \intersect QueueTasks
  BY <1>3 DEF InHand
<1>6. CASE t \in QueueTasks
  <2>1. t \notin InHand /\ InHand' = InHand \union {t}
    BY <1>2, <1>5, <1>6 DEF InHand, QueueTasks
  <2>2. Queue!Free(t)
    BY <1>1 DEF Queue!Free, InHand, RunningResourceKeys
  <2>3. /\ QueueState[tasks[t].status] \in {"waiting", "taken"}
        /\ QueueState[tasks'[t].status] = "taken"
    BY <1>1, <1>4, QueueStates
  <2>4. \A u \in QueueTasks \ {t} : tasks'[u] = tasks[u]
    BY <1>4 DEF QueueTasks, Ordinary
  <2>5. QED
    BY <1>6, <2>1, <2>2, <2>3, <2>4, IsMove
<1>7. CASE t \notin QueueTasks
  <2>1. InHand' = InHand /\ \A u \in QueueTasks : tasks'[u] = tasks[u]
    BY <1>4, <1>5, <1>7 DEF InHand, QueueTasks, Ordinary
  <2>2. QED
    BY <2>1, IsVanish
<1>8. QED
  BY <1>6, <1>7

-----------------------------------------------------------------------------
\* A cancel_task call has found a row, and rows are never deleted.
CallsFoundRows ==
  \A t \in CancelTargets :
    cancel_calls[t].open => tasks[t].status # "absent"

LEMMA RowsStay ==
  ASSUME TypeOK, [Next]_vars, NEW t \in Tasks, tasks[t].status # "absent"
  PROVE  tasks'[t].status # "absent"
<1>1. tasks[t] \in Row(Workers)
  BY DEF TypeOK
<1>2. CASE tasks'[t] = tasks[t]
  BY <1>2
<1>3. CASE tasks'[t] # tasks[t]
  <2>1. Written(t)
    BY <1>3, RowSteps
  <2>2. CASE \E w \in RunningOn(t) : WrittenByWorker(w, tasks[t], tasks'[t])
    BY <1>1, <2>2, WrittenStatus
  <2>3. QED
    BY <1>1, <2>1, <2>2
       DEF Written, EnqueuedRow, NoRow, Claimed, CancelIfLive, CancelIfBegun,
           StopIfQueued, ReviveStopped, DeadLetterRequeued,
           UnleasedWithError, Unleased, Row
<1>4. QED
  BY <1>2, <1>3

LEMMA CallsFoundRowsStep ==
  TypeOK /\ CallsFoundRows /\ [Next]_vars => CallsFoundRows'
<1> SUFFICES ASSUME TypeOK, CallsFoundRows, [Next]_vars, NEW t \in CancelTargets,
                    cancel_calls'[t].open
             PROVE  tasks'[t].status # "absent"
  BY DEF CallsFoundRows
<1>1. t \in Tasks
  BY TaskAssumption
<1>2. CASE cancel_calls[t].open
  BY <1>1, <1>2, RowsStay DEF CallsFoundRows
<1>3. CASE ~cancel_calls[t].open
  <2>1. ASSUME NEW x \in CancelTargets, CancelTaskRead(x)
        PROVE  tasks[t].status # "absent"
    BY <1>3, <2>1 DEF CancelTaskRead, TypeOK
  <2>2. ASSUME NEW x \in CancelTargets, CancelTaskWrite(x) PROVE FALSE
    BY <1>3, <2>2 DEF CancelTaskWrite, NoCall, TypeOK
  <2>3. cancel_calls' # cancel_calls
    BY <1>3
  <2>4. \E x \in CancelTargets : CancelTaskRead(x) \/ CancelTaskWrite(x)
    BY <2>3
       DEF Next, vars, Enqueue, TickStep, LaunchProbe, NoProbeToLaunch, Gate,
           Claim, NothingToClaim, WorkerStep, HandlerReturns, HeartbeatExtends,
           HeartbeatLosesLease, CancelObserved, Settle, SettleReleased,
           SettleRateLimited, SettleFailed, SettlePartial, SettleSuccess, Leave,
           FaultStep, TickFails, SettleFails, Stop, DrainTimeout, Exit, Crash,
           Restart, OperatorStep, CancelInvestigation, OverrideContinue,
           OverrideStop, RequeueDeadLetter, ClearRateLimit, TimeStep,
           LeasePasses, LimitPasses, HitNoLongerRecent
  <2>5. tasks[t].status # "absent"
    BY <2>1, <2>2, <2>4
  <2>6. QED
    BY <1>1, <2>5, RowsStay
<1>4. QED
  BY <1>2, <1>3

\* Every step of the dispatcher is a step of the queue.
LEMMA QueueStep ==
  ASSUME TypeOK, LeaseInv, StoppedIdle, CallsFoundRows, [Next]_vars
  PROVE  Queue!Next
<1>1. ASSUME UNCHANGED tasks,
             \A w \in Busy' : w \in Busy /\ pool'[w].task = pool[w].task
      PROVE  Queue!Next
  <2>1. InHand' \subseteq InHand
    BY <1>1 DEF InHand
  <2>2. QED
    BY <1>1, <2>1, IsVanish
<1>2. ASSUME UNCHANGED pool,
             \A t \in QueueTasks : tasks'[t].status = tasks[t].status
      PROVE  Queue!Next
  <2>1. InHand' = InHand
    BY <1>2 DEF InHand, Busy
  <2>2. QED
    BY <1>2, <2>1, IsVanish
<1>3. ASSUME NEW w \in Workers, UNCHANGED tasks,
             pool' = [pool EXCEPT ![w] = IdleWorker]
      PROVE  Queue!Next
  BY <1>1, <1>3 DEF Busy, IdleWorker, TypeOK
<1>4. CASE UNCHANGED <<tasks, pool>>
  BY <1>2, <1>4
<1>5. ASSUME NEW w \in Workers, NEW o \in Outcomes, HandlerReturns(w, o)
      PROVE  Queue!Next
  <2> DEFINE r == [pool[w] EXCEPT !.phase = "settling", !.stop = TRUE,
                                  !.outcome = o]
  <2>1. pool' = [pool EXCEPT ![w] = r] /\ w \in Busy
    BY <1>5 DEF HandlerReturns, TypeOK, Busy
  <2>2. r.task = pool[w].task
    BY BusyWorkerType, <2>1 DEF TypeOK, Busy
  <2> HIDE DEF r
  <2>3. QED
    BY <1>1, <1>5, <2>1, <2>2 DEF Busy, TypeOK, HandlerReturns
<1>6. ASSUME NEW w \in Workers, HeartbeatLosesLease(w) PROVE Queue!Next
  BY <1>1, <1>6, BusyWorkerType DEF HeartbeatLosesLease, Beating, Busy, TypeOK
<1>7. ASSUME NEW w \in Workers, HeartbeatExtends(w) PROVE Queue!Next
  BY <1>2, <1>7, BusyWorkerType
     DEF HeartbeatExtends, Beating, QueueTasks, Ordinary, TypeOK, Row
<1>8. CASE Crash
  BY <1>1, <1>8 DEF Crash, Busy, IdleWorker
<1>9. CASE LaunchProbe
  BY <1>2, <1>9 DEF LaunchProbe, QueueTasks, Ordinary, TypeOK
<1>10. ASSUME NEW t \in Tasks, LeasePasses(t) PROVE Queue!Next
  BY <1>2, <1>10 DEF LeasePasses, QueueTasks, Ordinary, TypeOK, Row
<1>11. ASSUME NEW t \in Tasks, Enqueue(t) PROVE Queue!Next
  <2>1. /\ tasks[t].status = "absent"
        /\ tasks'[t].status = "queued"
        /\ \A u \in QueueTasks \ {t} : tasks'[u] = tasks[u]
    BY <1>11 DEF Enqueue, EnqueuedRow, NoRow, QueueTasks, Ordinary, TypeOK
  <2>2. InHand' = InHand
    BY <1>11 DEF Enqueue, InHand, Busy
  <2>3. CASE t \in QueueTasks
    BY <2>1, <2>2, <2>3, QueueStates, IsMove
  <2>4. CASE t \notin QueueTasks
    BY <1>2, <1>11, <2>1, <2>4 DEF Enqueue
  <2>5. QED
    BY <2>3, <2>4
<1>12. ASSUME NEW t \in CancelTargets, CancelTaskWrite(t) PROVE Queue!Next
  <2>1. t \in Tasks /\ tasks[t].status # "absent"
    BY <1>12, TaskAssumption DEF CallsFoundRows, CancelTaskWrite
  <2>2. /\ tasks'[t].status = "canceled"
        /\ \A u \in Tasks \ {t} : tasks'[u] = tasks[u]
    BY <1>12, <2>1 DEF CancelTaskWrite, SetRow, TypeOK, Row
  <2>3. InHand' = InHand
    BY <1>12 DEF CancelTaskWrite, InHand, Busy
  <2>4. CASE t \in QueueTasks
    <3>1. QueueState[tasks[t].status] # "new"
      BY <2>1, QueueStates DEF TypeOK, Row, Status
    <3>2. {t} \in SUBSET Queue!Cancelable
      BY <2>4, <3>1 DEF Queue!Cancelable
    <3>3. \A u \in QueueTasks : QueueState[tasks'[u].status] =
            IF u \in {t} THEN "canceled" ELSE QueueState[tasks[u].status]
      BY <2>2, QueueStates DEF QueueTasks, Ordinary
    <3>4. QED
      BY <2>3, <3>2, <3>3, IsCancel
  <2>5. CASE t \notin QueueTasks
    BY <1>2, <1>12, <2>2, <2>5 DEF CancelTaskWrite, QueueTasks, Ordinary
  <2>6. QED
    BY <2>4, <2>5
<1>13. CASE CancelInvestigation \/ OverrideStop
  <2> DEFINE live == {t \in QueueTasks :
                        /\ tasks[t].status \in {"queued", "partial", "running"}
                        /\ tasks'[t].status = "canceled"}
  <2>1. \A t \in QueueTasks :
          tasks'[t].status = IF t \in live THEN "canceled" ELSE tasks[t].status
    <3>1. \A r \in Row(Workers) : \A s \in {CancelIfLive(r), CancelIfBegun(r)} :
            \/ s.status = r.status
            \/ /\ s.status = "canceled"
               /\ r.status \in {"queued", "partial", "running"}
      BY DEF CancelIfLive, CancelIfBegun, UnleasedWithError, Unleased, Row
    <3>2. \A t \in Tasks : /\ tasks[t] \in Row(Workers)
                           /\ tasks'[t] \in {tasks[t], CancelIfLive(tasks[t]),
                                            CancelIfBegun(tasks[t])}
      BY <1>13 DEF CancelInvestigation, OverrideStop, TypeOK
    <3> QED
      BY <3>1, <3>2 DEF QueueTasks, Ordinary
  <2>2. live \in SUBSET Queue!Cancelable
    BY QueueStates DEF Queue!Cancelable
  <2>3. \A t \in QueueTasks : QueueState[tasks'[t].status] =
          IF t \in live THEN "canceled" ELSE QueueState[tasks[t].status]
    BY <2>1, QueueStates
  <2>4. InHand' = InHand
    BY <1>13 DEF CancelInvestigation, OverrideStop, InHand, Busy
  <2> HIDE DEF live
  <2>5. QED
    BY <2>2, <2>3, <2>4, IsCancel
<1>13a. CASE OverrideContinue
  <2> DEFINE revived == {t \in Investigation \intersect QueueTasks :
                           tasks[t].status = "canceled" /\ tasks[t].stop_error}
  <2>1. \A t \in QueueTasks :
          tasks'[t].status = IF t \in revived THEN "queued" ELSE tasks[t].status
    BY <1>13a
       DEF OverrideContinue, ReviveStopped, QueueTasks, Ordinary, TypeOK, Row
  <2>2. revived \in SUBSET Queue!Revivable
    <3>1. \A t \in revived : t \notin InHand
      BY DEF StoppedIdle, RunningOn, InHand, QueueTasks, Ordinary
    <3> QED
      BY <3>1, QueueStates DEF Queue!Revivable
  <2>3. \A t \in QueueTasks : QueueState[tasks'[t].status] =
          IF t \in revived THEN "waiting" ELSE QueueState[tasks[t].status]
    BY <2>1, QueueStates
  <2>4. InHand' = InHand
    BY <1>13a DEF OverrideContinue, InHand, Busy
  <2> HIDE DEF revived
  <2>5. QED
    BY <2>2, <2>3, <2>4, IsRevive
<1>14. ASSUME NEW t \in Tasks, NEW b \in BOOLEAN, RequeueDeadLetter(t, b)
       PROVE  Queue!Next
  <2>1. Exclusive(t) =>
          /\ tasks[t].status \in {"dead_letter", "canceled"}
          /\ \A w \in Busy : pool[w].task # t
    BY <1>14, RunnerRow DEF RequeueDeadLetter, LeaseInv, DeadLetterLedger
  <2>2. /\ \A u \in Tasks \ {t} : tasks'[u] = tasks[u]
        /\ tasks'[t].status = "queued"
    BY <1>14 DEF RequeueDeadLetter, SetRow, DeadLetterRequeued, UnleasedWithError,
                 Unleased, TypeOK, Row
  <2>3. InHand' = InHand /\ t \notin InHand
    BY <1>14, <2>1 DEF RequeueDeadLetter, InHand, QueueTasks, Busy
  <2>4. CASE t \in QueueTasks
    <3>1. \A u \in QueueTasks \ {t} : tasks'[u] = tasks[u]
      BY <2>2 DEF QueueTasks, Ordinary
    <3>2. Exclusive(t)
      BY <2>4 DEF QueueTasks
    <3>3. QED
      BY <2>1, <2>2, <2>3, <2>4, <3>1, <3>2, QueueStates, IsMove
  <2>5. CASE t \notin QueueTasks
    BY <1>2, <1>14, <2>2, <2>5 DEF RequeueDeadLetter, QueueTasks, Ordinary
  <2>6. QED
    BY <2>4, <2>5
<1>15. ASSUME NEW w \in Workers, Settle(w) \/ DrainTimeout(w) PROVE Queue!Next
  BY <1>15, SettleStep
     DEF Settle, SettleReleased, SettleRateLimited, SettleFailed, SettlePartial,
         SettleSuccess, Settling, DrainTimeout, Busy
<1>16. QED
  BY <1>3, <1>4, <1>5, <1>6, <1>7, <1>8, <1>9, <1>10, <1>11, <1>12, <1>13,
     <1>13a, <1>14, <1>15, ClaimStep
     DEF Next, vars, TickStep, NoProbeToLaunch, Gate, NothingToClaim,
         WorkerStep, CancelObserved, FaultStep, TickFails, SettleFails, Stop,
         Exit, Restart, OperatorStep, CancelTaskRead, ClearRateLimit, TimeStep,
         LimitPasses, HitNoLongerRecent

\* The dispatcher implements the abstract queue for its exclusive tasks: whatever
\* else fails, each is in one worker's hand at a time, and what is finished stays
\* so unless cancel_task comes too late.
THEOREM RefinesQueue == Spec => ImplementsQueue
<1>1. Init => Queue!Init
  <2> SUFFICES ASSUME Init PROVE Queue!Init
    OBVIOUS
  <2>1. InHand = {}
    BY DEF Init, InHand, Busy, IdleWorker
  <2>2. \A t \in QueueTasks : QueueState[tasks[t].status] = "new"
    BY QueueStates DEF Init, NoRow, QueueTasks, Ordinary
  <2>3. QED
    BY <2>1, <2>2 DEF Queue!Init
<1>2. Init => CallsFoundRows
  BY DEF Init, CallsFoundRows, NoCall
<1>3. Spec => []CallsFoundRows
  BY <1>2, CallsFoundRowsStep, TypeCorrect, PTL DEF Spec
<1>4. TypeOK /\ LeaseInv /\ StoppedIdle /\ CallsFoundRows /\ [Next]_vars
        => [Queue!Next]_(Queue!vars)
  BY QueueStep
<1>5. QED
  BY <1>1, <1>3, <1>4, LeaseInvHolds, TypeCorrect, PTL
     DEF Spec, ImplementsQueue, Queue!Spec

-----------------------------------------------------------------------------
\* A successful row has no lease left that could end.
SuccessUnleased ==
  \A t \in Ordinary : tasks[t].status = "success" => tasks[t].lease = "null"

\* A write of its row keeps a success, and makes one only without a lease.
LEMMA SuccessStep ==
  ASSUME TypeOK, LeaseInv, SuccessUnleased, [Next]_vars, NEW t \in Ordinary
  PROVE  /\ tasks'[t].status = "success" =>
              tasks'[t] = tasks[t] \/ tasks'[t].lease = "null"
         /\ tasks[t].status = "success" /\ Exclusive(t) /\ t \notin CancelTargets
              => tasks'[t] = tasks[t]
<1>1. /\ t \in Tasks /\ t \notin Probes /\ tasks[t] \in Row(Workers)
      /\ tasks[t].status = "success" => tasks[t].lease = "null"
  BY DEF TypeOK, Ordinary, SuccessUnleased
<1> SUFFICES ASSUME tasks'[t] # tasks[t]
             PROVE  /\ tasks'[t].status = "success" => tasks'[t].lease = "null"
                    /\ ~ /\ tasks[t].status = "success"
                         /\ Exclusive(t) /\ t \notin CancelTargets
  OBVIOUS
<1>2. Written(t)
  BY <1>1, RowSteps
<1>3. CASE \E w \in RunningOn(t) : WrittenByWorker(w, tasks[t], tasks'[t])
  <2>1. tasks'[t].status = "success" => tasks'[t].lease = "null"
    BY <1>1, <1>3, WrittenStatus
  <2>2. Exclusive(t) => tasks[t].status # "success"
    BY <1>3, RunnerRow DEF RunningOn
  <2>3. QED
    BY <2>1, <2>2
<1>4. CASE /\ t \in dead_letters
           /\ \E b \in BOOLEAN : tasks'[t] = DeadLetterRequeued(tasks[t], b)
  <2>1. tasks'[t].status = "queued"
    BY <1>1, <1>4 DEF DeadLetterRequeued, UnleasedWithError, Unleased, Row
  <2>2. Exclusive(t) => tasks[t].status # "success"
    BY <1>1, <1>4 DEF LeaseInv, DeadLetterLedger
  <2>3. QED
    BY <2>1, <2>2
<1>5. QED
  BY <1>1, <1>2, <1>3, <1>4
     DEF Written, EnqueuedRow, NoRow, Claimable, Claimed, CancelIfLive, CancelIfBegun,
           StopIfQueued, ReviveStopped, UnleasedWithError, Unleased, Row

\* A success stays one, whether its lease or its resource key guarded it: no late
\* worker, dead letter or investigation takes it back, only cancel_task.
THEOREM SuccessStays == Spec => SuccessIsFinal
<1> DEFINE Final ==
      \A t \in Ordinary \ CancelTargets :
        Exclusive(t) /\ tasks[t].status = "success" => tasks'[t] = tasks[t]
<1>1. Init => SuccessUnleased
  BY DEF Init, SuccessUnleased, NoRow, Ordinary
<1>2. TypeOK /\ LeaseInv /\ SuccessUnleased /\ [Next]_vars
        => SuccessUnleased' /\ [Final]_vars
  BY SuccessStep DEF SuccessUnleased
<1>3. QED
  BY <1>1, <1>2, LeaseInvHolds, TypeCorrect, PTL DEF Spec, SuccessIsFinal

-----------------------------------------------------------------------------
\* A row's bounces stay below the cap because the worker compares its own copy,
\* which a cancel does not touch: the copy of an exclusive task's worker is the
\* row's count, also while the row is canceled under it.
BouncesBounded ==
  \A t \in Tasks : Exclusive(t) =>
    /\ tasks[t].rate_limit_bounces < RateLimitBounceCap
    /\ \A w \in RunningOn(t) : pool[w].bounces = tasks[t].rate_limit_bounces

LEMMA BouncesWritten ==
  ASSUME TypeOK, LeaseInv, BouncesBounded, [Next]_vars, NEW t \in Tasks,
         Exclusive(t), tasks'[t] # tasks[t]
  PROVE  /\ tasks'[t].rate_limit_bounces < RateLimitBounceCap
         /\ \/ tasks'[t].rate_limit_bounces = tasks[t].rate_limit_bounces
            \/ RunningOn(t) \intersect Busy' = {}
<1>1. /\ tasks[t] \in Row(Workers)
      /\ tasks[t].rate_limit_bounces < RateLimitBounceCap
      /\ RateLimitBounceCap \in Nat \ {0}
  BY PoolAssumption DEF TypeOK, BouncesBounded
<1>2. Written(t)
  BY RowSteps
<1>3. ASSUME NEW w \in RunningOn(t)
      PROVE  /\ RunningOn(t) = {w} /\ t \notin dead_letters
             /\ tasks[t].status # "absent"
             /\ pool[w].bounces = tasks[t].rate_limit_bounces
  BY RunnerRow DEF RunningOn, BouncesBounded
<1>4. CASE \E w \in RunningOn(t) \ Busy' : WrittenByWorker(w, tasks[t], tasks'[t])
  <2>1. PICK w \in RunningOn(t) \ Busy' : WrittenByWorker(w, tasks[t], tasks'[t])
    BY <1>4
  <2>2. RunningOn(t) \intersect Busy' = {}
    BY <1>3, <2>1
  <2>3. \/ tasks'[t].rate_limit_bounces = tasks[t].rate_limit_bounces
        \/ /\ tasks'[t].rate_limit_bounces = tasks[t].rate_limit_bounces + 1
           /\ pool[w].bounces + 1 < RateLimitBounceCap
    BY <1>1, <2>1
       DEF WrittenByWorker, Row, MarkSuccess, MarkPartial, MarkFailed,
           MarkDeadLetter, RequeueOnRateLimit, ReleaseTask, RetryScheduled,
           UnleasedWithError, Unleased
  <2>4. QED
    BY <1>1, <1>3, <2>1, <2>2, <2>3
<1>4a. \A s \in {CancelIfLive(tasks[t]), CancelIfBegun(tasks[t]),
                  StopIfQueued(tasks[t]), ReviveStopped(tasks[t])} :
         s.rate_limit_bounces = tasks[t].rate_limit_bounces
  <2>1. /\ CancelIfLive(tasks[t]).rate_limit_bounces = tasks[t].rate_limit_bounces
        /\ CancelIfBegun(tasks[t]).rate_limit_bounces = tasks[t].rate_limit_bounces
    BY <1>1 DEF CancelIfLive, CancelIfBegun, UnleasedWithError, Unleased, Row
  <2>2. /\ StopIfQueued(tasks[t]).rate_limit_bounces = tasks[t].rate_limit_bounces
        /\ ReviveStopped(tasks[t]).rate_limit_bounces = tasks[t].rate_limit_bounces
    BY <1>1 DEF StopIfQueued, ReviveStopped, Unleased, Row
  <2>3. QED
    BY <2>1, <2>2
<1>4b. \A w : Claimed(tasks[t], w).rate_limit_bounces = tasks[t].rate_limit_bounces
  BY <1>1 DEF Claimed, Row
<1>5. CASE tasks[t].status = "absent" \/ t \in dead_letters \/ RunningOn(t) = {}
  <2>1. RunningOn(t) = {}
    BY <1>3, <1>5
  <2>2. EnqueuedRow.rate_limit_bounces = 0
        /\ \A b \in BOOLEAN : DeadLetterRequeued(tasks[t], b).rate_limit_bounces = 0
    BY <1>1 DEF EnqueuedRow, NoRow, DeadLetterRequeued, UnleasedWithError,
                Unleased, Row
  <2>3. tasks'[t].rate_limit_bounces \in {0, tasks[t].rate_limit_bounces}
    BY <1>1, <1>2, <1>4a, <1>4b, <2>1, <2>2 DEF Written, Row
  <2>4. QED
    BY <1>1, <2>1, <2>3
<1>6. QED
  BY <1>1, <1>2, <1>4, <1>4a, <1>4b, <1>5 DEF Written, Row

LEMMA BouncesStep ==
  TypeOK /\ LeaseInv /\ BouncesBounded /\ [Next]_vars => BouncesBounded'
<1> SUFFICES ASSUME TypeOK, LeaseInv, BouncesBounded, [Next]_vars,
                    NEW t \in Tasks, Exclusive(t)
             PROVE  /\ tasks'[t].rate_limit_bounces < RateLimitBounceCap
                    /\ \A w \in RunningOn(t)' :
                         pool'[w].bounces = tasks'[t].rate_limit_bounces
  BY DEF BouncesBounded, Exclusive
<1>1. /\ tasks'[t].rate_limit_bounces < RateLimitBounceCap
      /\ \/ tasks'[t].rate_limit_bounces = tasks[t].rate_limit_bounces
         \/ RunningOn(t) \intersect Busy' = {}
  BY BouncesWritten DEF BouncesBounded
<1>2. ASSUME NEW w \in Workers, NEW x \in Tasks, Claim(w, x),
             NEW v \in RunningOn(t)'
      PROVE  pool'[v].bounces = tasks'[t].rate_limit_bounces
  <2>1. tasks'[t].rate_limit_bounces = tasks[t].rate_limit_bounces
    BY <1>2 DEF Claim, Claimed, TypeOK, Row
  <2>2. CASE v = w
    BY <1>2, <2>1, <2>2 DEF Claim, Snapshot, RunningOn, TypeOK
  <2>3. CASE v # w
    BY <1>2, <2>1, <2>3, ClaimTakesFreeSlot DEF RunningOn, Busy, BouncesBounded
  <2>4. QED
    BY <2>2, <2>3
<1>3. ASSUME \A w \in Busy' : /\ w \in Busy
                              /\ pool'[w].task = pool[w].task
                              /\ pool'[w].bounces = pool[w].bounces
      PROVE  \A w \in RunningOn(t)' :
               pool'[w].bounces = tasks'[t].rate_limit_bounces
  BY <1>1, <1>3 DEF RunningOn, BouncesBounded
<1>4. QED
  BY <1>1, <1>2, <1>3, PoolSteps

\* A rate-limited task is sent back fewer times than the cap allows, whichever
\* worker, cancel or requeue comes between: an outage dead-letters it in the end
\* rather than bounce it for ever.
THEOREM BouncesStayBelowCap == Spec => []BouncesBounded
<1>1. Init => BouncesBounded
  BY PoolAssumption DEF Init, BouncesBounded, RunningOn, Busy, IdleWorker, NoRow
<1>2. QED
  BY <1>1, BouncesStep, LeaseInvHolds, TypeCorrect, PTL DEF Spec

-----------------------------------------------------------------------------
\* A canceled task comes back only from a worker that still has it and whose
\* handler failed or met the rate limit, or by the operator's CONTINUE and then
\* only if the gate's STOP canceled it, whatever becomes of leases and keys.
THEOREM CanceledTasksStay == Spec => CancelsHold
<1> DEFINE Hold ==
      \A t \in Ordinary :
        /\ tasks[t].status = "canceled" /\ t \notin dead_letters
        /\ tasks'[t].status # "canceled"
        =>
          \/ \E w \in RunningOn(t) : pool[w].outcome \in {"error", "rate_limit"}
          \/ tasks[t].stop_error /\ UNCHANGED pool
<1>1. TypeOK /\ [Next]_vars => [Hold]_vars
  <2> SUFFICES ASSUME TypeOK, [Next]_vars, NEW t \in Ordinary,
                      tasks[t].status = "canceled", t \notin dead_letters,
                      tasks'[t].status # "canceled"
               PROVE  \/ \E w \in RunningOn(t) :
                           pool[w].outcome \in {"error", "rate_limit"}
                      \/ tasks[t].stop_error /\ UNCHANGED pool
    OBVIOUS
  <2>1. t \in Tasks /\ t \notin Probes /\ tasks[t] \in Row(Workers)
    BY DEF Ordinary, TypeOK
  <2>2. Written(t)
    BY <2>1, RowSteps
  <2>3. CASE tasks'[t] = ReviveStopped(tasks[t]) /\ UNCHANGED pool
    BY <2>3 DEF ReviveStopped
  <2>4. CASE \E w \in RunningOn(t) : WrittenByWorker(w, tasks[t], tasks'[t])
    BY <2>1, <2>4, WrittenStatus
  <2>5. QED
    BY <2>1, <2>2, <2>3, <2>4
       DEF Written, Claimable, CancelIfLive, CancelIfBegun, StopIfQueued, Row
<1>2. QED
  BY <1>1, TypeCorrect, PTL DEF Spec, CancelsHold
=============================================================================
