----------------------- MODULE DispatcherProperties -----------------------
(* What the dispatcher promises: the properties its runs check. *)
EXTENDS Dispatcher

Ordinary == Tasks \ Probes

\* Something keeps a second worker off t for as long as it has one: its lease, if
\* live workers renew theirs in time, or else its resource key, which the pool
\* holds for the worker whatever becomes of the lease.
Exclusive(t) == ~HeartbeatsMayFail \/ ResourceKey[t] # NoKey

InFlight(t) == tasks[t].status \in {"queued", "partial", "running"}

Recoverable(r) ==
  r.status = "running" => r.lease # "null" /\ r.lease_holder # NoWorker

Nobodys(r) ==
  r.status \in {"queued", "partial"} => r.lease_holder = NoWorker

\* Two workers never run tasks with the same resource key at the same time:
\* the pool's keys are read before each claim and cover every running worker,
\* also one that has lost its lease or whose task was canceled
\* (main.py _dispatch_tick, pool.py running_resource_keys).
ResourceMutex ==
  \A v, w \in Busy :
    /\ ResourceKey[pool[v].task] = ResourceKey[pool[w].task]
    /\ ResourceKey[pool[v].task] # NoKey
    => v = w

\* No task is run by two workers at once, as long as live workers renew their
\* leases; a task with a resource key is not even when they do not (lifecycle.py
\* claim_next_task, worker.py _heartbeat_loop, pool.py running_resource_keys).
OneRunner ==
  \A v, w \in Busy :
    pool[v].task = pool[w].task /\ Exclusive(pool[v].task) => v = w

\* A worker decides its task's fate by the attempts and bounces it loaded when
\* it claimed the row, perhaps an hour ago; they are still what the row says,
\* and the lease is still the worker's, unless the row was canceled meanwhile.
\* The lease of a task with a resource key may be over, but is nobody else's
\* (worker.py _handle_failure, lifecycle.py extend_lease).
SnapshotCurrent ==
  \A w \in {v \in Busy : Exclusive(pool[v].task)} :
    LET r == tasks[pool[w].task] IN
      \/ r.status = "canceled"
      \/ /\ LeaseHeld(r, w)
         /\ HeartbeatsMayFail \/ r.lease = "future"
         /\ r.attempts = pool[w].attempts
         /\ r.rate_limit_bounces = pool[w].bounces

\* The claim takes a running row only when its lease is set and over: no row is
\* left that no claim can ever take; and a row that waits is nobody's, a revived one
\* too (lifecycle.py claim_next_task against every UPDATE of the table).
NoStrandedRow ==
  \A t \in Tasks :
    Recoverable(tasks[t]) /\ (Exclusive(t) => Nobodys(tasks[t]))

\* dead_letter_tasks and the tasks table agree: every dead-lettered task can be
\* requeued from there, and a task listed there is not in flight, so that the
\* insert of mark_dead_letter never meets its own earlier row.
DeadLetterLedger ==
  \A t \in Tasks :
    /\ tasks[t].status = "dead_letter" => t \in dead_letters
    /\ t \in dead_letters /\ Exclusive(t) =>
         tasks[t].status \in {"dead_letter", "canceled"} /\ RunningOn(t) = {}

\* The rate-limit row is coherent whichever workers, probes and operators write
\* it in whatever order: a limit is in force with at least one hit and a date,
\* a probe is out only once that date has passed, and clear means no date and
\* no hits (rate_limit.py, the UPDATEs of RateLimitManager).
RateLimitCoherent ==
  /\ rate_limit.status = "clear" <=> rate_limit.limited_until = "null"
  /\ rate_limit.status = "clear" <=> rate_limit.consecutive_hits = 0
  /\ rate_limit.status = "probing" => rate_limit.limited_until = "past"

\* The system waits for a probe, and there is none: nothing is claimed until the
\* operator steps in (main.py _dispatch_tick).
ProbeLost ==
  rate_limit.status = "probing" /\ \A p \in Probes : ~InFlight(p)

\* The wait for a probe loses its probe in one way alone: the last one out is
\* dead-lettered or canceled.  A launch, a success, a hit, a lost lease, a crash or
\* a drain never leaves the system waiting for nothing (rate_limit.py:89, main.py
\* _maybe_launch_probe, worker.py execute_task).
ProbeLostOnlyByFailing ==
  [][ProbeLost' =>
       \/ ProbeLost
       \/ \E p \in Probes :
            InFlight(p) /\ tasks'[p].status \in {"dead_letter", "canceled"}]_vars

\* A task is dead-lettered only with its attempts or its rate-limit bounces
\* used up, by the counts in its row and not only by the worker's copy of them
\* (worker.py _handle_failure and the bounce cap).
DeadLetterEarned ==
  [][\A t \in Tasks :
       /\ Exclusive(t)
       /\ tasks[t].status # "dead_letter"
       /\ tasks'[t].status = "dead_letter"
       =>
         \/ tasks[t].attempts >= MaxAttempts[t]
         \/ tasks[t].rate_limit_bounces + 1 >= RateLimitBounceCap]_vars

\* A task that succeeded stays a success: no late worker, no cancel of its
\* investigation and no requeue takes it back (lifecycle.py, the status guards).
\* Only cancel_task has no such guard when it writes.
SuccessIsFinal ==
  [][\A t \in Ordinary \ CancelTargets :
       Exclusive(t) /\ tasks[t].status = "success" => tasks'[t] = tasks[t]]_vars

\* "The canceled state wins" (OVERNIGHT.md:1223): once canceled, a task is
\* never queued again by its worker.
CanceledIsFinal ==
  [][\A t \in Ordinary :
       /\ tasks[t].status = "canceled"
       /\ t \notin dead_letters /\ ~tasks[t].stop_error
       => tasks'[t].status = "canceled"]_vars

\* A canceled task comes back in two ways alone: from a worker that still has it
\* and whose handler failed or met the rate limit, and by the operator's CONTINUE,
\* which leaves the pool alone and takes only rows whose last error is the STOP of
\* the gate.  No success, release, drain, crash, claim or other task brings it back
\* (worker.py _handle_failure and the bounce, server.py override_investability).
CancelsHold ==
  [][\A t \in Ordinary :
       /\ tasks[t].status = "canceled" /\ t \notin dead_letters
       /\ tasks'[t].status # "canceled"
       =>
         \/ \E w \in RunningOn(t) : pool[w].outcome \in {"error", "rate_limit"}
         \/ tasks[t].stop_error /\ UNCHANGED pool]_vars

\* The backoff schedule is not restarted in the middle of an outage: hits only
\* count up until the limit is lifted (rate_limit.py reset_consecutive_hits).
HitsCountUntilClear ==
  [][rate_limit'.consecutive_hits < rate_limit.consecutive_hits =>
       rate_limit'.status = "clear"]_vars

\* The dispatcher implements the abstract queue, for the ordinary tasks that one
\* worker at a time has: what a row's status means there, and which of them its
\* workers have in hand.
QueueTasks == {t \in Ordinary : Exclusive(t)}

QueueState ==
  [absent |-> "new", queued |-> "waiting", partial |-> "waiting",
   running |-> "taken", success |-> "done", failed |-> "dead",
   dead_letter |-> "dead", canceled |-> "canceled"]

InHand == {pool[w].task : w \in Busy} \intersect QueueTasks

Queue == INSTANCE TaskQueue WITH
  Tasks <- QueueTasks,
  Resource <- ResourceKey,
  NoResource <- NoKey,
  LateCancels <- CancelTargets,
  state <- [t \in QueueTasks |-> QueueState[tasks[t].status]],
  working <- InHand

\* Through retries, bounces, cancels, crashes and drains, each step of the
\* dispatcher is a step of the queue or none (main.py, worker.py, lifecycle.py).
ImplementsQueue == Queue!Spec

-----------------------------------------------------------------------------
\* Fairness.  The loop ticks while the process is up; a handler ends within its
\* wall-clock limit and its settlement is attempted; systemd restarts the
\* process; leases, backoffs and limits end; the cancel watch polls.  Probes
\* that keep being sent meet an upstream that is open again.
Fairness ==
  /\ WF_vars(TickStep)
  /\ \A w \in Workers :
       /\ WF_vars(\E o \in Outcomes : HandlerReturns(w, o))
       /\ WF_vars(Settle(w))
       /\ WF_vars(CancelObserved(w))
       /\ WF_vars(DrainTimeout(w))
       /\ SF_vars(HandlerReturns(w, "success") /\ pool[w].task \in Probes)
  /\ WF_vars(Exit)
  /\ WF_vars(Restart)
  /\ \A t \in Tasks : WF_vars(LeasePasses(t))
  /\ WF_vars(LimitPasses)

FairSpec == Spec /\ Fairness

\* Every task that is enqueued is at last settled for good, through retries, bounces
\* up to their cap, limits that stop all claims until a probe succeeds, lost probes,
\* crashes and restarts; unless a probe failed outright and was the last one.  What
\* the code bounds nowhere is excepted by the run: results that are partial or
\* transient and calls that are killed each time (main.py run_loop, lifecycle.py
\* claim_next_task, worker.py execute_task).
EveryTaskSettles ==
  \A t \in Ordinary :
    tasks[t].status = "queued" ~> tasks[t].status \in Terminal \/ ProbeLost

\* A rate limit is lifted at last, through hits while the probe is out and probes that
\* are lost or find no slot, or its probe failed outright and is lost (rate_limit.py
\* try_transition_to_probing, main.py _maybe_launch_probe).
RateLimitLifts ==
  rate_limit.status # "clear" ~> rate_limit.status = "clear" \/ ProbeLost
=============================================================================
