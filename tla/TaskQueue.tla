----------------------------- MODULE TaskQueue -----------------------------
(***************************************************************************)
(* What the dispatcher promises its producers, with no leases, attempts,   *)
(* backoffs, heartbeats or limits in sight: a queue that hands each task   *)
(* to one worker at a time, and tasks of one resource to one worker        *)
(* between them.  A worker gives its task back, finishes it, or is gone    *)
(* without a word, after which the task may be taken again.  A finished    *)
(* task stays finished; an operator may cancel a task that is not, and     *)
(* revive one that was given up.                                           *)
(***************************************************************************)
CONSTANTS
  Tasks,
  Resource,     \* of each task: the resource it needs, or NoResource
  NoResource,
  LateCancels   \* tasks whose cancel may come too late and still take hold

VARIABLES
  state,        \* of each task
  working       \* the tasks that a worker has in hand

vars == <<state, working>>

Init ==
  /\ state = [t \in Tasks |-> "new"]
  /\ working = {}

New == {t \in Tasks : state[t] = "new"}

\* A producer may submit several tasks in one transaction.
Submit(submitted) ==
  /\ state' = [t \in Tasks |-> IF t \in submitted THEN "waiting" ELSE state[t]]
  /\ UNCHANGED working

Free(t) ==
  \A u \in working : Resource[t] # NoResource => Resource[u] # Resource[t]

\* A taken task that nobody has in hand was lost by its worker.
Take(t) ==
  /\ state[t] \in {"waiting", "taken"}
  /\ t \notin working
  /\ Free(t)
  /\ state' = [state EXCEPT ![t] = "taken"]
  /\ working' = working \union {t}

\* What a task may be when its worker leaves it.  A worker that does not know
\* of a cancel may still give the task back.
Results(s) ==
  IF s = "taken" THEN {"waiting", "done", "dead"} ELSE {s, "waiting"}

\* The result may make other tasks pointless that nobody has begun.
Finish(t, result, stopped) ==
  /\ state' = [u \in Tasks |-> IF u = t THEN result
                               ELSE IF u \in stopped THEN "canceled" ELSE state[u]]
  /\ working' = working \ {t}

Vanish(lost) ==
  /\ working' = working \ lost
  /\ UNCHANGED state

Cancel(canceled) ==
  /\ state' = [t \in Tasks |-> IF t \in canceled THEN "canceled" ELSE state[t]]
  /\ UNCHANGED working

Revivable == {t \in Tasks \ working : state[t] \in {"dead", "canceled"}}

Revive(revived) ==
  /\ state' = [t \in Tasks |-> IF t \in revived THEN "waiting" ELSE state[t]]
  /\ UNCHANGED working

Waiting == {t \in Tasks : state[t] = "waiting"}

Cancelable ==
  {t \in Tasks : \/ state[t] \in {"waiting", "taken"}
                 \/ t \in LateCancels /\ state[t] # "new"}

Next ==
  \/ \E submitted \in SUBSET New : Submit(submitted)
  \/ \E t \in Tasks : Take(t)
  \/ \E t \in working, stopped \in SUBSET Waiting :
       \E result \in Results(state[t]) : Finish(t, result, stopped)
  \/ \E lost \in SUBSET working : Vanish(lost)
  \/ \E canceled \in SUBSET Cancelable : Cancel(canceled)
  \/ \E revived \in SUBSET Revivable : Revive(revived)

Spec == Init /\ [][Next]_vars
=============================================================================
