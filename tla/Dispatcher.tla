---------------------------- MODULE Dispatcher ----------------------------
(***************************************************************************)
(* The dispatcher process (services/dispatcher/main.py, pool.py,           *)
(* worker.py) over the tasks, dead_letter_tasks and rate_limit_state       *)
(* tables, with the MCP tools an operator changes those tables with.       *)
(*                                                                         *)
(* A step is one database transaction, or one atomic stretch of the        *)
(* asyncio program between two awaits.  A worker is a slot of the pool.    *)
(* What a handler does is one of a few outcomes, chosen freely; the order  *)
(* in which claim_next_task prefers eligible rows is left open.            *)
(***************************************************************************)
EXTENDS Lifecycle, RateLimit, FiniteSets

CONSTANTS
  Workers,             \* slots of the pool: dispatcher_pool_size many
  Tasks,               \* ids of task rows
  Probes,              \* those of type rate_limit_probe
  NoTask,
  ResourceKey,         \* resource_key of each task, or NoKey
  NoKey,
  MaxAttempts,         \* max_attempts of each task
  RateLimitBounceCap,  \* RATE_LIMIT_BOUNCE_CAP
  Investigation,       \* the tasks of one investigation
  Dives,               \* those of type dive_*
  FinancialDives,      \* those of type dive_financial_rigorous
  CancelTargets,       \* the tasks cancel_task is called for
  TaskOutcomes,        \* what handlers of ordinary tasks may come to
  ProbeOutcomes,       \* what the probe's handler may come to
  OperatorTools,       \* the MCP tools the operator uses
  HeartbeatsMayFail,   \* a live worker may fail to extend its lease in time
  AttemptCap,          \* bound: a row is not claimed more often than this
  MaxFaults            \* bound: crashes, shutdowns, failed transactions and
                       \* manual clears of the rate limit

Outcomes == {"success", "partial", "error", "transient", "rate_limit", "killed"}

ASSUME TaskAssumption ==
  /\ NoTask \notin Tasks
  /\ NoWorker \notin Workers
  /\ Probes \subseteq Tasks
  /\ MaxAttempts \in [Tasks -> Nat \ {0}]
  /\ FinancialDives \subseteq Dives
  /\ Dives \subseteq Investigation
  /\ Investigation \subseteq Tasks \ Probes
  /\ CancelTargets \subseteq Tasks

ASSUME PoolAssumption ==
  /\ IsFiniteSet(Workers)
  /\ Workers # {}
  /\ RateLimitBounceCap \in Nat \ {0}
  /\ TaskOutcomes \subseteq Outcomes
  /\ ProbeOutcomes \subseteq {"success", "error", "rate_limit", "killed"}
  /\ OperatorTools \subseteq
       {"cancel_investigation", "override_investability",
        "requeue_dead_letter", "clear_rate_limit"}
  /\ HeartbeatsMayFail \in BOOLEAN
  /\ AttemptCap \in Nat
  /\ MaxFaults \in Nat

VARIABLES
  tasks,         \* the tasks table
  dead_letters,  \* the dead_letter_tasks table: ids of the tasks it holds
  rate_limit,    \* the rate_limit_state row
  pool,          \* per worker: what execute_task holds in memory
  tick,          \* where the dispatcher's loop is
  cancel_calls,  \* per task: a cancel_task call between its read and its write
  faults         \* how many of these have happened, up to MaxFaults

vars == <<tasks, dead_letters, rate_limit, pool, tick, cancel_calls, faults>>

IdleWorker == [task |-> NoTask, phase |-> "idle", attempts |-> 0,
               bounces |-> 0, stop |-> FALSE, outcome |-> "none"]

\* attempts and bounces are those of the Task object, loaded by the claim.
\* stop is the event that ends the heartbeat and the cancel watch together.
Worker ==
  {IdleWorker} \union
  [task : Tasks, phase : {"running", "settling"}, attempts : Nat,
   bounces : Nat, stop : BOOLEAN, outcome : Outcomes \union {"none"}]

\* left is how many more rows the tick will claim; probing that it may claim
\* nothing but a probe.
Tick == [pc : {"launch", "gate", "claim", "draining", "down"},
         probing : BOOLEAN, left : 0..Cardinality(Workers)]

AtLaunch == [pc |-> "launch", probing |-> FALSE, left |-> 0]

\* A call remembers which columns were not NULL when it read the row: the ORM
\* writes a column only when its value changes.
CancelCall == [open : BOOLEAN, holder : BOOLEAN, lease : BOOLEAN]

NoCall == [open |-> FALSE, holder |-> FALSE, lease |-> FALSE]

TypeOK ==
  /\ tasks \in [Tasks -> Row(Workers)]
  /\ dead_letters \subseteq Tasks
  /\ rate_limit \in RLState
  /\ pool \in [Workers -> Worker]
  /\ tick \in Tick
  /\ cancel_calls \in [CancelTargets -> CancelCall]
  /\ faults \in 0..MaxFaults

Init ==
  /\ tasks = [t \in Tasks |-> NoRow]
  /\ dead_letters = {}
  /\ rate_limit = RLInit
  /\ pool = [w \in Workers |-> IdleWorker]
  /\ tick = AtLaunch
  /\ cancel_calls = [t \in CancelTargets |-> NoCall]
  /\ faults = 0

-----------------------------------------------------------------------------
\* The pool

Busy == {w \in Workers : pool[w].phase # "idle"}

RunningOn(t) == {w \in Busy : pool[w].task = t}

\* Faulty: a worker that lost its lease no longer counts.
BeatingResourceKeys ==
  {ResourceKey[pool[w].task] : w \in {v \in Busy : ~pool[v].stop}} \ {NoKey}

RunningResourceKeys == {ResourceKey[pool[w].task] : w \in Busy} \ {NoKey}

\* The handler of w is running and so are its heartbeat and cancel watch.
Beating(w) == pool[w].phase = "running" /\ ~pool[w].stop

Fault == faults < MaxFaults /\ faults' = faults + 1

-----------------------------------------------------------------------------
\* Producers

\* enqueue_task, called by a poller, the scheduler, a handler or an MCP tool.
Enqueue(t) ==
  /\ t \notin Probes
  /\ tasks[t].status = "absent"
  /\ tasks' = [tasks EXCEPT ![t] = EnqueuedRow]
  /\ UNCHANGED <<dead_letters, rate_limit, pool, tick, cancel_calls, faults>>

-----------------------------------------------------------------------------
\* The dispatcher's loop: _maybe_launch_probe, the rate-limit gate, the claims

\* A finished probe's row is never read again, so the model may use it for the
\* next probe: Probes bounds the probes that matter at one time.
FreshProbe(p) ==
  /\ tasks[p].status \in {"absent", "success", "canceled"}
  /\ p \notin dead_letters
  /\ RunningOn(p) = {}
  /\ p \in CancelTargets => ~cancel_calls[p].open

LaunchProbe ==
  /\ tick.pc = "launch"
  /\ ProbeDue(rate_limit)
  /\ \E p \in Probes :
       /\ FreshProbe(p)
       /\ tasks' = [tasks EXCEPT ![p] = EnqueuedRow]
  /\ rate_limit' = TransitionToProbing(rate_limit)
  /\ tick' = [tick EXCEPT !.pc = "gate"]
  /\ UNCHANGED <<dead_letters, pool, cancel_calls, faults>>

NoProbeToLaunch ==
  /\ tick.pc = "launch"
  /\ ~ProbeDue(rate_limit)
  /\ tick' = [tick EXCEPT !.pc = "gate"]
  /\ UNCHANGED <<tasks, dead_letters, rate_limit, pool, cancel_calls, faults>>

\* Faulty, as the gate once was: in probing state nothing is claimed at all.
GateWithoutProbing ==
  /\ tick.pc = "gate"
  /\ tick' = IF rate_limit.status # "clear" \/ Busy = Workers
             THEN AtLaunch
             ELSE [pc |-> "claim", probing |-> FALSE,
                   left |-> Cardinality(Workers \ Busy)]
  /\ UNCHANGED <<tasks, dead_letters, rate_limit, pool, cancel_calls, faults>>

\* can_dispatch is read in a transaction of its own, before the claims.
Gate ==
  /\ tick.pc = "gate"
  /\ tick' =
       IF rate_limit.status = "limited" \/ Busy = Workers
       THEN AtLaunch
       ELSE [pc |-> "claim", probing |-> rate_limit.status = "probing",
             left |-> IF rate_limit.status = "probing" THEN 1
                      ELSE Cardinality(Workers \ Busy)]
  /\ UNCHANGED <<tasks, dead_letters, rate_limit, pool, cancel_calls, faults>>

Eligible(t) ==
  /\ Claimable(tasks[t])
  /\ tick.probing => t \in Probes
  /\ ResourceKey[t] \notin RunningResourceKeys
  /\ tasks[t].attempts < AttemptCap

\* Faulty: the Task object is not refreshed after the UPDATE.
StaleSnapshot(w, t) ==
  [task |-> t, phase |-> "running", attempts |-> tasks[t].attempts,
   bounces |-> tasks[t].rate_limit_bounces, stop |-> FALSE, outcome |-> "none"]

\* What execute_task starts with: the row as refreshed after the claim.
Snapshot(w, t) ==
  [task |-> t, phase |-> "running", attempts |-> Claimed(tasks[t], w).attempts,
   bounces |-> tasks[t].rate_limit_bounces, stop |-> FALSE, outcome |-> "none"]

AfterClaim == IF tick.left > 1 THEN [tick EXCEPT !.left = @ - 1] ELSE AtLaunch

\* claim_next_task and pool.submit: nothing else runs in between that could
\* claim a row or fill a slot.
Claim(w, t) ==
  /\ tick.pc = "claim"
  /\ w \notin Busy
  /\ Eligible(t)
  /\ tasks' = [tasks EXCEPT ![t] = Claimed(@, w)]
  /\ pool' = [pool EXCEPT ![w] = Snapshot(w, t)]
  /\ tick' = AfterClaim
  /\ UNCHANGED <<dead_letters, rate_limit, cancel_calls, faults>>

NothingToClaim ==
  /\ tick.pc = "claim"
  /\ \A t \in Tasks : ~Eligible(t)
  /\ tick' = AtLaunch
  /\ UNCHANGED <<tasks, dead_letters, rate_limit, pool, cancel_calls, faults>>

\* run_loop catches what a tick raises and starts the next one.
TickFails ==
  /\ tick.pc \in {"launch", "gate", "claim"}
  /\ Fault
  /\ tick' = AtLaunch
  /\ UNCHANGED <<tasks, dead_letters, rate_limit, pool, cancel_calls>>

-----------------------------------------------------------------------------
\* A worker: execute_task with its heartbeat and cancel-watch loops

\* The handler returns, raises or runs into the wall-clock timeout.
HandlerReturns(w, o) ==
  /\ pool[w].phase = "running"
  /\ o \in (IF pool[w].task \in Probes THEN ProbeOutcomes ELSE TaskOutcomes)
  /\ pool' = [pool EXCEPT ![w].phase = "settling", ![w].stop = TRUE,
                          ![w].outcome = o]
  /\ UNCHANGED <<tasks, dead_letters, rate_limit, tick, cancel_calls, faults>>

HeartbeatExtends(w) ==
  /\ Beating(w)
  /\ LeaseHeld(tasks[pool[w].task], w)
  /\ tasks' = [tasks EXCEPT ![pool[w].task].lease = "future"]
  /\ UNCHANGED <<dead_letters, rate_limit, pool, tick, cancel_calls, faults>>

\* The heartbeat finds the lease gone and sets stop; the handler goes on.
HeartbeatLosesLease(w) ==
  /\ Beating(w)
  /\ ~LeaseHeld(tasks[pool[w].task], w)
  /\ pool' = [pool EXCEPT ![w].stop = TRUE]
  /\ UNCHANGED <<tasks, dead_letters, rate_limit, tick, cancel_calls, faults>>

\* The cancel watch finds the row canceled; the handler is cancelled, awaited,
\* and the worker leaves without touching the database.  Its slot and resource
\* stay taken while the handler winds up; nothing else depends on how long.
CancelObserved(w) ==
  /\ Beating(w)
  /\ tasks[pool[w].task].status = "canceled"
  /\ pool' = [pool EXCEPT ![w] = IdleWorker]
  /\ UNCHANGED <<tasks, dead_letters, rate_limit, tick, cancel_calls, faults>>

-----------------------------------------------------------------------------
\* The settlement: one transaction, after which the worker leaves the pool

Settling(w, o) == pool[w].phase = "settling" /\ pool[w].outcome = o

SetRow(t, r) == tasks' = [tasks EXCEPT ![t] = r]

Leave(w) ==
  /\ pool' = [pool EXCEPT ![w] = IdleWorker]
  /\ UNCHANGED <<tick, cancel_calls, faults>>

\* mark_dead_letter inserts a row whose primary key is the task's id.  If there
\* is one already the whole transaction fails and is rolled back.
DeadLetter(w, rl) ==
  LET t == pool[w].task IN
  IF t \in dead_letters
  THEN UNCHANGED <<tasks, dead_letters, rate_limit>>
  ELSE /\ SetRow(t, MarkDeadLetter(tasks[t]))
       /\ dead_letters' = dead_letters \union {t}
       /\ rate_limit' = rl

\* requeue_interrupted_llm_task, and a result that is not ok but transient.
SettleReleased(w) ==
  /\ Settling(w, "killed") \/ Settling(w, "transient")
  /\ SetRow(pool[w].task, ReleaseTask(tasks[pool[w].task]))
  /\ Leave(w)
  /\ UNCHANGED <<dead_letters, rate_limit>>

SettleRateLimited(w) ==
  /\ Settling(w, "rate_limit")
  /\ LET t == pool[w].task IN
     IF t \in Probes
     THEN /\ SetRow(t, MarkSuccess(tasks[t]))
          /\ rate_limit' = RecordHit(rate_limit)
          /\ UNCHANGED dead_letters
     ELSE IF pool[w].bounces + 1 >= RateLimitBounceCap
     THEN DeadLetter(w, RecordHit(rate_limit))
     ELSE /\ SetRow(t, RequeueOnRateLimit(tasks[t]))
          /\ rate_limit' = RecordHit(rate_limit)
          /\ UNCHANGED dead_letters
  /\ Leave(w)

\* Faulty: the last attempt is taken away.
ExhaustedEarly(w) == pool[w].attempts + 1 >= MaxAttempts[pool[w].task]

Exhausted(w) == pool[w].attempts >= MaxAttempts[pool[w].task]

\* _handle_failure decides by the attempts read when the row was claimed.
SettleFailed(w) ==
  /\ Settling(w, "error")
  /\ LET t == pool[w].task IN
     IF Exhausted(w)
     THEN DeadLetter(w, rate_limit)
     ELSE /\ SetRow(t, RetryScheduled(tasks[t]))
          /\ UNCHANGED <<dead_letters, rate_limit>>
  /\ Leave(w)

SettlePartial(w) ==
  /\ Settling(w, "partial")
  /\ SetRow(pool[w].task, MarkPartial(tasks[pool[w].task]))
  /\ Leave(w)
  /\ UNCHANGED <<dead_letters, rate_limit>>

\* A financial dive whose report says STOP stops its queued sibling dives in
\* the transaction that marks it success.  Task types without a validator
\* succeed without resetting the hits.
SettleSuccess(w) ==
  /\ Settling(w, "success")
  /\ \E stop \in BOOLEAN :
       LET t == pool[w].task
           siblings == IF stop /\ t \in FinancialDives THEN Dives \ {t} ELSE {}
       IN tasks' = [x \in Tasks |->
                      IF x = t THEN MarkSuccess(tasks[x])
                      ELSE IF x \in siblings THEN StopIfQueued(tasks[x])
                      ELSE tasks[x]]
  /\ rate_limit' \in
       IF pool[w].task \in Probes THEN {ProbeSucceeded(rate_limit)}
       ELSE {ResetConsecutiveHits(rate_limit), rate_limit}
  /\ Leave(w)
  /\ UNCHANGED dead_letters

\* The transaction fails: the row stays as it was and the worker is gone.
SettleFails(w) ==
  /\ pool[w].phase = "settling"
  /\ Fault
  /\ pool' = [pool EXCEPT ![w] = IdleWorker]
  /\ UNCHANGED <<tasks, dead_letters, rate_limit, tick, cancel_calls>>

-----------------------------------------------------------------------------
\* Shutdown, crash and restart of the process

\* SIGTERM: run_loop leaves its loop between two ticks and drains the pool.
Stop ==
  /\ tick.pc = "launch"
  /\ Fault
  /\ tick' = [tick EXCEPT !.pc = "draining"]
  /\ UNCHANGED <<tasks, dead_letters, rate_limit, pool, cancel_calls>>

\* drain times out: execute_task is cancelled and releases its row.
DrainTimeout(w) ==
  /\ tick.pc = "draining"
  /\ w \in Busy
  /\ SetRow(pool[w].task, ReleaseTask(tasks[pool[w].task]))
  /\ Leave(w)
  /\ UNCHANGED <<dead_letters, rate_limit>>

Exit ==
  /\ tick.pc = "draining"
  /\ Busy = {}
  /\ tick' = [tick EXCEPT !.pc = "down"]
  /\ UNCHANGED <<tasks, dead_letters, rate_limit, pool, cancel_calls, faults>>

Crash ==
  /\ tick.pc # "down"
  /\ Fault
  /\ pool' = [w \in Workers |-> IdleWorker]
  /\ tick' = [AtLaunch EXCEPT !.pc = "down"]
  /\ UNCHANGED <<tasks, dead_letters, rate_limit, cancel_calls>>

Restart ==
  /\ tick.pc = "down"
  /\ tick' = AtLaunch
  /\ UNCHANGED <<tasks, dead_letters, rate_limit, pool, cancel_calls, faults>>

-----------------------------------------------------------------------------
\* The operator's MCP tools

CancelTaskRead(t) ==
  /\ ~cancel_calls[t].open
  /\ tasks[t].status \notin Terminal \union {"absent"}
  /\ cancel_calls' = [cancel_calls EXCEPT ![t] =
       [open |-> TRUE, holder |-> tasks[t].lease_holder # NoWorker,
        lease |-> tasks[t].lease # "null"]]
  /\ UNCHANGED <<tasks, dead_letters, rate_limit, pool, tick, faults>>

\* The commit, after an awaited emit_event: UPDATE ... WHERE id, whatever the
\* row's status is by now.
CancelTaskWrite(t) ==
  /\ cancel_calls[t].open
  /\ SetRow(t, [tasks[t] EXCEPT !.status = "canceled",
       !.lease_holder = IF cancel_calls[t].holder THEN NoWorker ELSE @,
       !.lease = IF cancel_calls[t].lease THEN "null" ELSE @])
  /\ cancel_calls' = [cancel_calls EXCEPT ![t] = NoCall]
  /\ UNCHANGED <<dead_letters, rate_limit, pool, tick, faults>>

CancelInvestigation ==
  /\ "cancel_investigation" \in OperatorTools
  /\ tasks' = [t \in Tasks |-> IF t \in Investigation THEN CancelIfLive(tasks[t])
                               ELSE tasks[t]]
  /\ UNCHANGED <<dead_letters, rate_limit, pool, tick, cancel_calls, faults>>

\* CONTINUE queues the dives that the gate's STOP canceled, by their last error.
OverrideContinue ==
  /\ "override_investability" \in OperatorTools
  /\ tasks' = [t \in Tasks |-> IF t \in Investigation THEN ReviveStopped(tasks[t])
                               ELSE tasks[t]]
  /\ UNCHANGED <<dead_letters, rate_limit, pool, tick, cancel_calls, faults>>

OverrideStop ==
  /\ "override_investability" \in OperatorTools
  /\ tasks' = [t \in Tasks |-> IF t \in Dives THEN CancelIfBegun(tasks[t])
                               ELSE tasks[t]]
  /\ UNCHANGED <<dead_letters, rate_limit, pool, tick, cancel_calls, faults>>

RequeueDeadLetter(t, resetAttempts) ==
  /\ "requeue_dead_letter" \in OperatorTools
  /\ t \in dead_letters
  /\ SetRow(t, DeadLetterRequeued(tasks[t], resetAttempts))
  /\ dead_letters' = dead_letters \ {t}
  /\ UNCHANGED <<rate_limit, pool, tick, cancel_calls, faults>>

ClearRateLimit ==
  /\ "clear_rate_limit" \in OperatorTools
  /\ Fault
  /\ rate_limit' = ManualClear(rate_limit)
  /\ UNCHANGED <<tasks, dead_letters, pool, tick, cancel_calls>>

-----------------------------------------------------------------------------
\* Time

\* A worker that beats renews its lease long before it ends (60 s against
\* 300 s), and the settlement is short.
LeaseKept(t) ==
  \E w \in RunningOn(t) : LeaseHeld(tasks[t], w)

LeasePasses(t) ==
  /\ tasks[t].lease = "future"
  /\ HeartbeatsMayFail \/ ~LeaseKept(t)
  /\ tasks' = [tasks EXCEPT ![t].lease = "past"]
  /\ UNCHANGED <<dead_letters, rate_limit, pool, tick, cancel_calls, faults>>

LimitPasses ==
  /\ rate_limit.limited_until = "future"
  /\ rate_limit' = [rate_limit EXCEPT !.limited_until = "past"]
  /\ UNCHANGED <<tasks, dead_letters, pool, tick, cancel_calls, faults>>

HitNoLongerRecent ==
  /\ rate_limit.recent
  /\ rate_limit' = [rate_limit EXCEPT !.recent = FALSE]
  /\ UNCHANGED <<tasks, dead_letters, pool, tick, cancel_calls, faults>>

-----------------------------------------------------------------------------
Settle(w) ==
  \/ SettleReleased(w)
  \/ SettleRateLimited(w)
  \/ SettleFailed(w)
  \/ SettlePartial(w)
  \/ SettleSuccess(w)

TickStep ==
  \/ LaunchProbe
  \/ NoProbeToLaunch
  \/ Gate
  \/ \E w \in Workers, t \in Tasks : Claim(w, t)
  \/ NothingToClaim

WorkerStep(w) ==
  \/ \E o \in Outcomes : HandlerReturns(w, o)
  \/ HeartbeatExtends(w)
  \/ HeartbeatLosesLease(w)
  \/ CancelObserved(w)
  \/ Settle(w)

FaultStep ==
  \/ TickFails
  \/ \E w \in Workers : SettleFails(w)
  \/ Stop
  \/ \E w \in Workers : DrainTimeout(w)
  \/ Exit
  \/ Crash
  \/ Restart

OperatorStep ==
  \/ \E t \in CancelTargets : CancelTaskRead(t) \/ CancelTaskWrite(t)
  \/ CancelInvestigation
  \/ OverrideContinue
  \/ OverrideStop
  \/ \E t \in Tasks, resetAttempts \in BOOLEAN : RequeueDeadLetter(t, resetAttempts)
  \/ ClearRateLimit

TimeStep ==
  \/ \E t \in Tasks : LeasePasses(t)
  \/ LimitPasses
  \/ HitNoLongerRecent

Next ==
  \/ \E t \in Tasks : Enqueue(t)
  \/ TickStep
  \/ \E w \in Workers : WorkerStep(w)
  \/ FaultStep
  \/ OperatorStep
  \/ TimeStep

Spec == Init /\ [][Next]_vars
=============================================================================
