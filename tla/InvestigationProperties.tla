---------------------- MODULE InvestigationProperties ----------------------
(* What an investigation promises: the properties its runs check. *)
EXTENDS Investigation

\* A dive that the STOP of the financial dive canceled is in nobody's hands and
\* stays canceled until a person overrides the STOP, so that the override, which
\* queues those rows without looking further, never hands out a dive whose
\* worker is still at it (investability.py cancel_sibling_dives, server.py
\* override_investability).
StoppedAreFree ==
  \A t \in Tasks :
    tasks[t].stopped => tasks[t].status = "canceled" /\ t \notin InHand

\* A dive that succeeded has a report on disk, and the financial one a verdict
\* in it, through kills, retries on the same file and skeletons written again:
\* the memo and the gate never meet a finished dive without one
\* (_dive_base.py _write_skeleton, validators.py validate_dive_financial_rigorous).
DoneIsOnDisk ==
  \A d \in Dives : tasks[d].status = "success" =>
    /\ file[d].size \in {"short", "full"}
    /\ d = Financial => file[d].verdict # "MALFORMED"

\* The investigation uses the queue as the dispatcher keeps it: a task is
\* submitted once, also by an orchestrator that is run again with another plan,
\* and a canceled one is revived only when no worker has it in hand
\* (enqueue.py enqueue_task, orchestrate_dive.py, server.py).
QueueState ==
  [absent |-> "new", queued |-> "waiting", running |-> "taken",
   success |-> "done", dead_letter |-> "dead", canceled |-> "canceled"]

Queue == INSTANCE TaskQueue WITH
  Resource <- [t \in Tasks |-> "none"],
  NoResource <- "none",
  LateCancels <- {},
  state <- [t \in Tasks |-> QueueState[tasks[t].status]],
  working <- InHand

UsesQueue == Queue!Spec

-----------------------------------------------------------------------------
\* Fairness.  The dispatcher hands out queued and lost tasks, a handler ends
\* within its wall clock, its settlement is attempted, and time passes.
Fairness ==
  /\ \A t \in Tasks : WF_vars(Take(t)) /\ WF_vars(Settle(t))
  /\ WF_vars(OrchestratorStep)
  /\ \A d \in Dives :
       /\ WF_vars(WriteSkeleton(d))
       /\ WF_vars(\E finish \in Finishes : DiveReturns(d, finish))
       /\ WF_vars(FileAges(d))
  /\ WF_vars(MemoStep)

FairSpec == Spec /\ Fairness

\* The memo is not kept waiting for ever by files that stay small because their
\* dives crashed, were canceled or wrote little (synthesize_memo.py, the gate and
\* its wall-clock cap).
MemoSettles ==
  tasks[Memo].status = "queued" ~>
    tasks[Memo].status \in {"success", "dead_letter", "canceled"}
=============================================================================
