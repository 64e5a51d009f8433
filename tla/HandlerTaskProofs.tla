------------------------- MODULE HandlerTaskProofs -------------------------
(***************************************************************************)
(* What enqueueing, claiming and settling make of a row, and what a hand   *)
(* may be, for every max_attempts and every set of stages: the lemmas that *)
(* the proofs about FilingFlow, Surfacing and Research share.              *)
(***************************************************************************)
EXTENDS HandlerTask, TLAPS

\* Whatever an enqueue, a claim or a settlement makes of a row is a row.
LEMMA RowType ==
  ASSUME NEW m \in Nat \ {0}, NEW r \in Row(m), NEW finish
  PROVE  /\ Enqueued(r) \in Row(m)
         /\ Claimed(r, m) \in Row(m)
         /\ Succeeded(r) \in Row(m)
         /\ MarkedPartial(r) \in Row(m)
         /\ Failed(r, m) \in Row(m)
         /\ Unsuccessful(r, finish, m) \in Row(m)
<1>1. r.status \in Statuses /\ r.attempts \in 0..m
  BY DEF Row
<1>2. Enqueued(r) \in Row(m)
  BY <1>1 DEF Enqueued, Row, Statuses
<1>3. Claimed(r, m) \in Row(m)
  BY <1>1 DEF Claimed, Row, Statuses
<1>4. Succeeded(r) \in Row(m) /\ MarkedPartial(r) \in Row(m)
  BY <1>1 DEF Succeeded, MarkedPartial, Row, Statuses
<1>5. Failed(r, m) \in Row(m)
  BY <1>1 DEF Failed, Row, Statuses
<1>6. Released(r) \in Row(m)
  BY <1>1 DEF Released, Row, Statuses
<1> QED
  BY <1>2, <1>3, <1>4, <1>5, <1>6 DEF Unsuccessful

LEMMA NoRowType == ASSUME NEW m \in Nat \ {0} PROVE NoRow \in Row(m)
  BY DEF NoRow, Row, Statuses

\* Only an enqueue creates a row, and it leaves one that is there alone.
LEMMA EnqueuedStatus ==
  ASSUME NEW m \in Nat \ {0}, NEW r \in Row(m)
  PROVE  /\ r.status # "absent" => Enqueued(r) = r
         /\ r.status = "absent" => Enqueued(r).status = "queued"
         /\ Enqueued(r).status # "absent"
  BY DEF Enqueued, Row

LEMMA ClaimedStatus ==
  ASSUME NEW m \in Nat \ {0}, NEW r \in Row(m)
  PROVE  /\ Claimable(r) => r.status # "absent" /\ ~Settled(r)
         /\ Claimed(r, m).status = "running"
  BY DEF Claimable, Claimed, Settled, Row

\* A settlement leaves a row that was there, and one without a result no success.
LEMMA SettledStatus ==
  ASSUME NEW m \in Nat \ {0}, NEW r \in Row(m), NEW finish
  PROVE  /\ Succeeded(r).status = "success"
         /\ MarkedPartial(r).status = "queued"
         /\ Failed(r, m).status \in {"queued", "dead_letter"}
         /\ Unsuccessful(r, finish, m).status \in {"queued", "dead_letter"}
<1>1. Failed(r, m).status \in {"queued", "dead_letter"}
  BY DEF Failed, Row
<1>2. Unsuccessful(r, finish, m).status \in {"queued", "dead_letter"}
  BY <1>1 DEF Unsuccessful, Released
<1>3. Succeeded(r).status = "success" /\ MarkedPartial(r).status = "queued"
  BY DEF Succeeded, MarkedPartial, Row
<1> QED
  BY <1>1, <1>2, <1>3

LEMMA StatusCases ==
  ASSUME NEW m \in Nat \ {0}, NEW r \in Row(m)
  PROVE  \/ r.status = "absent"
         \/ r.status = "queued" /\ ~Settled(r)
         \/ r.status = "running" /\ ~Settled(r)
         \/ r.status \in {"success", "dead_letter"} /\ Settled(r)
  BY DEF Row, Statuses, Settled

LEMMA HandType ==
  ASSUME NEW stages
  PROVE  /\ Idle \in Hand(stages)
         /\ \A stage \in stages : Stage(stage) \in Hand(stages)
         /\ \A finish \in Finishes : Returned(finish) \in Hand(stages)
  BY DEF Idle, Stage, Returned, Hand, Finishes

LEMMA HandAt ==
  /\ Idle.at = "idle"
  /\ \A stage : Stage(stage).at = stage /\ Stage(stage).finish = "none"
  /\ \A finish : Returned(finish).at = "settle" /\ Returned(finish).finish = finish
  BY DEF Idle, Stage, Returned

LEMMA QueueStates ==
  /\ QueueState["absent"] = "new"
  /\ QueueState["queued"] = "waiting"
  /\ QueueState["running"] = "taken"
  /\ QueueState["success"] = "done"
  /\ QueueState["dead_letter"] = "dead"
  BY DEF QueueState
=============================================================================
