----------------------------- MODULE Lifecycle -----------------------------
(***************************************************************************)
(* One row of the `tasks` table, and what each function of                 *)
(* praxis_core/tasks/lifecycle.py (and each UPDATE other modules send to   *)
(* the table directly) does to it.  Every function there is one SQL UPDATE *)
(* of one row, so each is an operator from the old row to the new row; the *)
(* WHERE clause is the condition under which the row changes.              *)
(*                                                                         *)
(* lease_expires_at is kept relative to now(): "null", "future" or "past". *)
(* Of last_error only one thing is kept, for one UPDATE reads it: whether  *)
(* it names the STOP of an investability gate ("investability_stop: ...").  *)
(* Timestamps, payloads and telemetry are left out.  A row that has not     *)
(* been inserted yet has status "absent".                                  *)
(***************************************************************************)
EXTENDS Naturals

CONSTANT NoWorker   \* lease_holder IS NULL

Status == {"absent", "queued", "running", "partial", "success", "failed",
           "dead_letter", "canceled"}

Lease == {"null", "future", "past"}

Row(Workers) ==
  [status : Status, lease_holder : Workers \union {NoWorker},
   lease : Lease, attempts : Nat, rate_limit_bounces : Nat,
   stop_error : BOOLEAN]

NoRow == [status |-> "absent", lease_holder |-> NoWorker, lease |-> "null",
          attempts |-> 0, rate_limit_bounces |-> 0, stop_error |-> FALSE]

\* enqueue_task: the row that INSERT creates.
EnqueuedRow == [NoRow EXCEPT !.status = "queued"]

Decremented(n) == IF n = 0 THEN 0 ELSE n - 1        \* GREATEST(0, n - 1)

Terminal == {"success", "failed", "dead_letter", "canceled"}

-----------------------------------------------------------------------------
\* Faulty: the lease of a running row is not looked at.
ClaimableLeaseIgnored(r) ==
  \/ r.status \in {"queued", "partial"} /\ r.lease # "future"
  \/ r.status = "running"

\* Faulty: a running row is never recovered.
ClaimableNoRecovery(r) ==
  r.status \in {"queued", "partial"} /\ r.lease # "future"

\* The WHERE clause of claim_next_task, without its type and resource filters.
Claimable(r) ==
  \/ r.status \in {"queued", "partial"} /\ r.lease # "future"
  \/ r.status = "running" /\ r.lease = "past"

Claimed(r, w) ==
  [r EXCEPT !.status = "running", !.lease_holder = w, !.lease = "future",
            !.attempts = @ + 1]

\* extend_lease matches a row only for its holder, and only while it runs.
LeaseHeld(r, w) == r.lease_holder = w /\ r.status = "running"

Unleased(r, status) ==
  [r EXCEPT !.status = status, !.lease_holder = NoWorker, !.lease = "null"]

\* Faulty: no status guard.
MarkSuccessUnguarded(r) == Unleased(r, "success")

MarkSuccess(r) == IF r.status = "running" THEN Unleased(r, "success") ELSE r

\* Faulty: the lease columns are left alone.
MarkPartialLeased(r) ==
  IF r.status = "running" THEN [r EXCEPT !.status = "partial"] ELSE r

MarkPartial(r) == IF r.status = "running" THEN Unleased(r, "partial") ELSE r

\* An UPDATE that also writes an error of its own into last_error.
UnleasedWithError(r, status) == [Unleased(r, status) EXCEPT !.stop_error = FALSE]

MarkFailed(r) ==
  IF r.status = "running" THEN UnleasedWithError(r, "failed") ELSE r

\* Faulty: the guard forgets that the row is still running.
MarkDeadLetterAfterFailed(r) ==
  IF r.status = "failed" THEN Unleased(r, "dead_letter") ELSE r

MarkDeadLetter(r) ==
  IF r.status \in {"running", "failed"}
  THEN UnleasedWithError(r, "dead_letter") ELSE r

\* No status guard in this one.
RequeueOnRateLimit(r) ==
  [Unleased(r, "queued") EXCEPT !.rate_limit_bounces = @ + 1,
                                !.attempts = Decremented(@)]

\* The lease of a released row has no holder and lies in the future: a backoff.
ReleaseTask(r) ==
  IF r.status = "running"
  THEN [r EXCEPT !.status = "queued", !.lease_holder = NoWorker,
                 !.lease = "future", !.attempts = Decremented(@)]
  ELSE r

\* worker.py _handle_failure, below max_attempts: mark_failed, then an UPDATE
\* by id alone that puts the row back in the queue.
RetryScheduled(r) == UnleasedWithError(MarkFailed(r), "queued")

\* Faulty: the UPDATE does not filter by status.
CancelAny(r) ==
  IF r.status = "absent" THEN r ELSE UnleasedWithError(r, "canceled")

\* server.py cancel_investigation.
CancelIfLive(r) ==
  IF r.status \in {"queued", "partial", "running"}
  THEN UnleasedWithError(r, "canceled") ELSE r

\* investability.py cancel_sibling_dives: the STOP of the gate.
StopIfQueued(r) ==
  IF r.status = "queued"
  THEN [Unleased(r, "canceled") EXCEPT !.stop_error = TRUE] ELSE r

\* server.py override_investability, STOP.
CancelIfBegun(r) ==
  IF r.status \in {"queued", "running"}
  THEN UnleasedWithError(r, "canceled") ELSE r

\* Faulty: the UPDATE does not ask who canceled the row.
ReviveCanceled(r) ==
  IF r.status = "canceled"
  THEN [r EXCEPT !.status = "queued", !.stop_error = FALSE] ELSE r

\* server.py override_investability, CONTINUE.  The lease columns are left alone.
ReviveStopped(r) ==
  IF r.status = "canceled" /\ r.stop_error
  THEN [r EXCEPT !.status = "queued", !.stop_error = FALSE] ELSE r

\* server.py requeue_dead_letter.
DeadLetterRequeued(r, resetAttempts) ==
  [UnleasedWithError(r, "queued") EXCEPT
     !.rate_limit_bounces = 0,
     !.attempts = IF resetAttempts THEN 0 ELSE @]
=============================================================================
