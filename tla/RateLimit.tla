----------------------------- MODULE RateLimit -----------------------------
(***************************************************************************)
(* The singleton row of rate_limit_state and the methods of                *)
(* praxis_core/llm/rate_limit.py RateLimitManager, each one UPDATE of it.  *)
(*                                                                         *)
(* limited_until_ts is kept relative to now(): "null", "future" or "past". *)
(* recent says that last_hit_ts lies within the last 30 seconds.           *)
(* consecutive_hits saturates at HitCap: the backoff it selects no longer  *)
(* changes from the fifth hit on, and no guard reads more than             *)
(* consecutive_hits > 0.                                                   *)
(***************************************************************************)
EXTENDS Naturals

CONSTANT HitCap

ASSUME HitCapAssumption == HitCap \in Nat \ {0}

RLState ==
  [status : {"clear", "limited", "probing"},
   limited_until : {"null", "future", "past"},
   consecutive_hits : 0..HitCap,
   recent : BOOLEAN]

\* The row the first migration inserts.
RLInit == [status |-> "clear", limited_until |-> "null",
           consecutive_hits |-> 0, recent |-> FALSE]

OneMoreHit(n) == IF n < HitCap THEN n + 1 ELSE HitCap

\* Faulty: a hit counts only when no limit and no probe is out.
RecordHitWhenClear(s) ==
  IF s.status = "clear"
  THEN [status |-> "limited", limited_until |-> "future",
        consecutive_hits |-> OneMoreHit(s.consecutive_hits), recent |-> TRUE]
  ELSE s

\* A second hit within 30 seconds of one that is in force is not counted.
RecordHit(s) ==
  IF s.status # "limited" \/ ~s.recent
  THEN [status |-> "limited", limited_until |-> "future",
        consecutive_hits |-> OneMoreHit(s.consecutive_hits), recent |-> TRUE]
  ELSE s

ProbeDue(s) == s.status = "limited" /\ s.limited_until = "past"

\* Faulty: the backoff starts over with each probe.
TransitionToProbingAfresh(s) ==
  [s EXCEPT !.status = "probing", !.consecutive_hits = 0]

TransitionToProbing(s) == [s EXCEPT !.status = "probing"]

\* probe_succeeded and manual_clear send the same unconditional UPDATE.
Cleared(s) == [s EXCEPT !.status = "clear", !.consecutive_hits = 0,
                        !.limited_until = "null"]

ProbeSucceeded(s) == Cleared(s)

ManualClear(s) == Cleared(s)

\* Faulty: the success of any task resets the hits, also during an outage.
ResetAlways(s) == [s EXCEPT !.consecutive_hits = 0]

ResetConsecutiveHits(s) ==
  IF s.status = "clear" THEN [s EXCEPT !.consecutive_hits = 0] ELSE s
=============================================================================
