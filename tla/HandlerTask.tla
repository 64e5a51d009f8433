---------------------------- MODULE HandlerTask ----------------------------
(***************************************************************************)
(* A task as a handler meets it: the row that the dispatcher hands out, a  *)
(* handler that is somewhere in its work, and what the settlement makes of *)
(* the row.  Of the dispatcher's promises, which Dispatcher and TaskQueue  *)
(* state, this keeps that a task is in one worker's hands at a time and    *)
(* that one whose worker is gone is handed out again.                      *)
(***************************************************************************)
EXTENDS Naturals

Statuses == {"absent", "queued", "running", "success", "dead_letter"}

Row(maxAttempts) == [status : Statuses, attempts : 0..maxAttempts]

NoRow == [status |-> "absent", attempts |-> 0]

\* Faulty: a row that is there already is queued anew.
EnqueuedAnew(r) == [r EXCEPT !.status = "queued"]

\* enqueue_task: ON CONFLICT (dedup_key) DO NOTHING.
Enqueued(r) == IF r.status = "absent" THEN [r EXCEPT !.status = "queued"] ELSE r

\* Faulty: a task whose worker is gone is not handed out again.
ClaimableOnce(r) == r.status = "queued"

\* claim_next_task, for a row that nobody has in hand: a running one has lost
\* its worker and will lose its lease.
Claimable(r) == r.status \in {"queued", "running"}

\* Beyond max_attempts the count makes no difference: what takes an attempt back
\* comes after a claim.
Claimed(r, maxAttempts) ==
  [status |-> "running",
   attempts |-> IF r.attempts < maxAttempts THEN r.attempts + 1 ELSE r.attempts]

Succeeded(r) == [r EXCEPT !.status = "success"]

\* A partial row is claimed again whatever its attempts.
MarkedPartial(r) == [r EXCEPT !.status = "queued"]

\* release_task and requeue_on_rate_limit: the attempt is not counted.
Released(r) ==
  [status |-> "queued", attempts |-> IF r.attempts = 0 THEN 0 ELSE r.attempts - 1]

\* _handle_failure
Failed(r, maxAttempts) ==
  [r EXCEPT !.status = IF r.attempts < maxAttempts THEN "queued" ELSE "dead_letter"]

Settled(r) == r.status \in {"success", "dead_letter"}

\* What TaskQueue calls a task with such a row.
QueueState ==
  [absent |-> "new", queued |-> "waiting", running |-> "taken",
   success |-> "done", dead_letter |-> "dead"]

-----------------------------------------------------------------------------
\* finish: what the handler returned, or that it raised.  "transient" asks for
\* another time.
Finishes == {"none", "ok", "failed", "killed", "rate_limit", "transient"}

Hand(stages) == [at : {"idle", "settle"} \union stages, finish : Finishes]

Idle == [at |-> "idle", finish |-> "none"]

Stage(at) == [at |-> at, finish |-> "none"]

Returned(finish) == [at |-> "settle", finish |-> finish]

\* What execute_task does with a result that is not ok.
Unsuccessful(r, finish, maxAttempts) ==
  IF finish = "failed" THEN Failed(r, maxAttempts) ELSE Released(r)
=============================================================================
