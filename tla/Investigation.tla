--------------------------- MODULE Investigation ---------------------------
(***************************************************************************)
(* One investigation of one company: orchestrate_dive plans it, the        *)
(* specialist dives each write a file, synthesize_memo waits for the       *)
(* files, writes the memo and concludes the investigation.  A financial    *)
(* dive whose report ends in STOP cancels its siblings, and a person may   *)
(* override that or cancel the whole investigation.                        *)
(*                                                                         *)
(* The tasks are those of the dispatcher, seen as a queue: a task is in    *)
(* one worker's hands or in nobody's, and a task whose worker is gone is   *)
(* taken again.  A step is one transaction, one file write, or a stretch   *)
(* of a handler between two awaits.  A file is known by its size and, for  *)
(* the financial dive, its verdict.                                        *)
(***************************************************************************)
EXTENDS Naturals, FiniteSets

CONSTANTS
  Dives,          \* dive tasks a plan may have, custom ones included
  Specialties,    \* those whose files the memo looks at: SPECIALTIES
  Financial,      \* dive_financial_rigorous
  Orchestrate,    \* the orchestrate_dive task
  Memo,           \* the synthesize_memo task
  Droppable,      \* dives that invalid_customs or existing coverage may drop
  EarlierDives,   \* dives with a file left by an earlier investigation
  LLMPlans,       \* plans the orchestrator's LLM may write
  LLMEdits,       \* what an edit may make of a dive's file: [size, verdict]
  LLMFinishes,    \* what an LLM call may come to
  OperatorTools,  \* the MCP tools a person uses
  MaxAttempts,    \* max_attempts of each task
  Aging,          \* bound: dives whose files may grow old
  MaxFaults       \* bound: crashes, kills and rate limits

Tasks == Dives \union {Orchestrate, Memo}

Plans == [dives : SUBSET Dives, memo : BOOLEAN]

ASSUME InvestigationAssumption ==
  /\ Financial \in Specialties
  /\ Specialties \subseteq Dives
  /\ IsFiniteSet(Specialties)
  /\ Droppable \subseteq Dives \ {Financial}
  /\ EarlierDives \subseteq Dives
  /\ Orchestrate \notin Dives
  /\ Memo \notin Dives \union {Orchestrate}
  /\ LLMPlans \subseteq {p \in Plans : p.dives # {}}
  /\ LLMEdits \subseteq [size : {"short", "full"},
                         verdict : {"MALFORMED", "CONTINUE", "STOP"}]
  /\ LLMFinishes \subseteq {"stop", "broken", "rate_limit", "killed"}
  /\ OperatorTools \subseteq {"cancel_investigation", "override_investability"}
  /\ Aging \subseteq Dives
  /\ MaxAttempts \in [Tasks -> Nat \ {0}]
  /\ MaxFaults \in Nat

VARIABLES
  investigation,  \* the investigations row: its status, or "none"
  override,       \* the latest investability_overridden event
  tasks,          \* the rows of its tasks
  linked,         \* the orchestrate_dive row has the investigation's id
  hand,           \* per task: where its handler is, and what its LLM call came to
  plan,           \* plan_entries, in the orchestrator's memory
  file,           \* dives/<specialty>.md of each dive
  memo_file,      \* the memo is on disk
  quality,        \* _memo_quality_sufficient of the coverage the memo gathered
  faults

vars == <<investigation, override, tasks, linked, hand, plan, file, memo_file,
          quality, faults>>

\* stopped: last_error starts with "investability_stop:".
TaskRow == [status : {"absent", "queued", "running", "success", "dead_letter",
                      "canceled"},
            attempts : Nat, stopped : BOOLEAN]

NoTask == [status |-> "absent", attempts |-> 0, stopped |-> FALSE]

Stages == {"idle", "plan", "ensure", "enqueue", "skeleton", "dive", "gate",
           "write", "update", "settle"}

\* "broken" is an LLM call that ended in an error or a timeout and was returned
\* all the same; "raised" a handler that raised or ran into the wall clock.
Finishes == {"none", "stop", "broken", "rate_limit", "killed", "transient",
             "raised"}

Idle == [at |-> "idle", finish |-> "none"]

NoPlan == [dives |-> {}, memo |-> FALSE]

\* Below 500 bytes a file is a skeleton, below 1500 short.  aged: it was last
\* written more than SKELETON_WALLCLOCK_CAP_S ago.
File == [size : {"none", "skeleton", "short", "full"},
         verdict : {"MALFORMED", "CONTINUE", "STOP"}, aged : BOOLEAN]

NoFile == [size |-> "none", verdict |-> "MALFORMED", aged |-> FALSE]
Skeleton == [NoFile EXCEPT !.size = "skeleton"]

TypeOK ==
  /\ investigation \in {"none", "active", "resolved", "partial", "abandoned"}
  /\ override \in {"NONE", "CONTINUE", "STOP"}
  /\ tasks \in [Tasks -> TaskRow]
  /\ linked \in BOOLEAN
  /\ hand \in [Tasks -> [at : Stages, finish : Finishes]]
  /\ plan \in Plans
  /\ file \in [Dives -> File]
  /\ memo_file \in BOOLEAN
  /\ quality \in BOOLEAN
  /\ faults \in 0..MaxFaults

Init ==
  /\ investigation = "none"
  /\ override = "NONE"
  /\ tasks = [t \in Tasks |-> NoTask]
  /\ linked = FALSE
  /\ hand = [t \in Tasks |-> Idle]
  /\ plan = NoPlan
  /\ \E v \in {"CONTINUE", "STOP"} :
       file = [d \in Dives |->
                 IF d \notin EarlierDives THEN NoFile
                 ELSE [size |-> "full", aged |-> TRUE,
                       verdict |-> IF d = Financial THEN v ELSE "MALFORMED"]]
  /\ memo_file = FALSE
  /\ quality = FALSE
  /\ faults = 0

Fault == faults < MaxFaults /\ faults' = faults + 1

InHand == {t \in Tasks : hand[t].at # "idle"}

-----------------------------------------------------------------------------
\* What happens to a row

Queued(r) == [r EXCEPT !.status = "queued"]

GivenBack(r) == [Queued(r) EXCEPT !.attempts = IF @ = 0 THEN 0 ELSE @ - 1]

\* Faulty: a row that is there already is queued anew.
EnqueuedAlways(r) == [Queued(r) EXCEPT !.attempts = 0]

\* enqueue_task: ON CONFLICT (dedup_key) DO NOTHING.
Enqueued(r) == IF r.status = "absent" THEN Queued(r) ELSE r

\* release_task
Released(r) == IF r.status = "running" THEN GivenBack(r) ELSE r

Succeeded(r) ==
  IF r.status = "running" THEN [r EXCEPT !.status = "success"] ELSE r

\* _handle_failure: mark_dead_letter looks at the status, the requeue does not.
Failed(r, max) ==
  IF r.attempts < max THEN [Queued(r) EXCEPT !.stopped = FALSE]
  ELSE IF r.status = "running" THEN [r EXCEPT !.status = "dead_letter"] ELSE r

\* Faulty: dives that run are canceled too.
StoppedAny(r) ==
  IF r.status \in {"queued", "running"}
  THEN [r EXCEPT !.status = "canceled", !.stopped = TRUE] ELSE r

\* cancel_sibling_dives
Stopped(r) ==
  IF r.status = "queued"
  THEN [r EXCEPT !.status = "canceled", !.stopped = TRUE] ELSE r

Canceled(r, statuses) ==
  IF r.status \in statuses
  THEN [r EXCEPT !.status = "canceled", !.stopped = FALSE] ELSE r

\* override_investability, CONTINUE
Revived(r) ==
  IF r.status = "canceled" /\ r.stopped
  THEN [Queued(r) EXCEPT !.stopped = FALSE] ELSE r

-----------------------------------------------------------------------------
\* Opening, claiming, losing a worker

\* open_investigation inserts row and task together; analyze_filing,
\* surface_ideas and screen_candidate_companies enqueue the task alone.
Open(byTool) ==
  /\ tasks[Orchestrate].status = "absent"
  /\ tasks' = [tasks EXCEPT ![Orchestrate] = Queued(@)]
  /\ investigation' = IF byTool THEN "active" ELSE investigation
  /\ linked' = byTool
  /\ UNCHANGED <<override, hand, plan, file, memo_file, quality, faults>>

FirstStage(t) ==
  IF t = Orchestrate THEN "plan" ELSE IF t = Memo THEN "gate" ELSE "skeleton"

Take(t) ==
  /\ tasks[t].status \in {"queued", "running"}
  /\ t \notin InHand
  /\ tasks' = [tasks EXCEPT ![t].status = "running", ![t].attempts = @ + 1]
  /\ hand' = [hand EXCEPT ![t] = [at |-> FirstStage(t), finish |-> "none"]]
  /\ UNCHANGED <<investigation, override, linked, plan, file, memo_file, quality,
                 faults>>

Crash ==
  /\ InHand # {}
  /\ Fault
  /\ hand' = [t \in Tasks |-> Idle]
  /\ plan' = NoPlan
  /\ quality' = FALSE
  /\ UNCHANGED <<investigation, override, tasks, linked, file, memo_file>>

\* What a handler has in memory goes with it.
Forget(t) ==
  /\ plan' = IF t = Orchestrate THEN NoPlan ELSE plan
  /\ quality' = (quality /\ t # Memo)

\* The cancel watch tears the handler down, wherever it is.
CancelObserved(t) ==
  /\ t \in InHand
  /\ hand[t].at # "settle"
  /\ tasks[t].status = "canceled"
  /\ hand' = [hand EXCEPT ![t] = Idle]
  /\ Forget(t)
  /\ UNCHANGED <<investigation, override, tasks, linked, file, memo_file, faults>>

At(t, stage) == hand[t].at = stage

Goto(t, stage) == hand' = [hand EXCEPT ![t].at = stage]

Returns(t, finish) ==
  hand' = [hand EXCEPT ![t] = [at |-> "settle", finish |-> finish]]

HandlerRaises(t) ==
  /\ t \in InHand
  /\ hand[t].at # "settle"
  /\ Returns(t, "raised")
  /\ Forget(t)
  /\ UNCHANGED <<investigation, override, tasks, linked, file, memo_file, faults>>

\* What an LLM call comes to; an interrupted one counts as a fault.
Calls(finish) ==
  /\ finish \in LLMFinishes
  /\ IF finish \in {"rate_limit", "killed"} THEN Fault ELSE UNCHANGED faults

-----------------------------------------------------------------------------
\* orchestrate_dive

\* The LLM writes a plan; one without a specialist is replaced by the default
\* plan, which has the financial dive, others and the memo.
ReadPlan(finish) ==
  /\ At(Orchestrate, "plan")
  /\ Calls(finish)
  /\ IF finish = "rate_limit"
     THEN Returns(Orchestrate, finish) /\ UNCHANGED plan
     ELSE /\ hand' = [hand EXCEPT ![Orchestrate] =
                        [at |-> "ensure", finish |-> finish]]
          /\ \E parsed \in LLMPlans, dropped \in SUBSET Droppable :
               plan' = [parsed EXCEPT !.dives = @ \ dropped]
  /\ UNCHANGED <<investigation, override, tasks, linked, file, memo_file, quality>>

EnsureInvestigation ==
  /\ At(Orchestrate, "ensure")
  /\ investigation' = IF investigation = "none" THEN "active" ELSE investigation
  /\ Goto(Orchestrate, "enqueue")
  /\ UNCHANGED <<override, tasks, linked, plan, file, memo_file, quality, faults>>

EnqueueSequence ==
  /\ At(Orchestrate, "enqueue")
  /\ tasks' = [t \in Tasks |->
       IF t \in plan.dives \/ (t = Memo /\ plan.memo) THEN Enqueued(tasks[t])
       ELSE tasks[t]]
  /\ Goto(Orchestrate, "settle")
  /\ Forget(Orchestrate)
  /\ UNCHANGED <<investigation, override, linked, file, memo_file, faults>>

-----------------------------------------------------------------------------
\* The dives

WriteSkeleton(d) ==
  /\ At(d, "skeleton")
  /\ file' = [file EXCEPT ![d] = IF @.size = "none" THEN Skeleton ELSE @]
  /\ Goto(d, "dive")
  /\ UNCHANGED <<investigation, override, tasks, linked, plan, memo_file, quality,
                 faults>>

\* The LLM edits the file section by section.
EditDive(d) ==
  /\ At(d, "dive")
  /\ \E edit \in LLMEdits :
       /\ edit.verdict # "MALFORMED" => d = Financial
       /\ file' = [file EXCEPT ![d] = [size |-> edit.size, aged |-> FALSE,
                                       verdict |-> edit.verdict]]
  /\ UNCHANGED <<investigation, override, tasks, linked, hand, plan, memo_file,
                 quality, faults>>

\* A call that broke is not told from one that stopped.
DiveReturns(d, finish) ==
  /\ At(d, "dive")
  /\ finish # "broken"
  /\ Calls(finish)
  /\ Returns(d, finish)
  /\ UNCHANGED <<investigation, override, tasks, linked, plan, file, memo_file,
                 quality>>

\* Faulty, as the validator once was: a report without a verdict passes.
ValidFailOpen(d) == file[d].size \in {"short", "full"}

\* What the validator of a dive asks for at least.
Valid(d) ==
  /\ file[d].size \in {"short", "full"}
  /\ d = Financial => file[d].verdict # "MALFORMED"

-----------------------------------------------------------------------------
\* synthesize_memo

SkeletonSized(d) == file[d].size \in {"skeleton", "short"}

\* Faulty: no wall-clock cap.
DivesIncompleteUncapped == \E d \in Specialties : SkeletonSized(d)

\* The gate: a file is too small, and none of those is so old that its dive
\* must have crashed.
DivesIncomplete ==
  /\ \E d \in Specialties : SkeletonSized(d)
  /\ \A d \in Specialties : SkeletonSized(d) => ~file[d].aged

Present == {d \in Specialties : file[d].size \in {"short", "full"}}

\* long: at least FIN_RIGOROUS_MIN_CHARS, which lies within what is short here.
QualitySufficient(long) ==
  /\ Financial \in Present
  /\ long
  /\ file[Financial].verdict = "STOP" => override = "CONTINUE"
  /\ Cardinality(Present) >= 2

Gate ==
  /\ At(Memo, "gate")
  /\ DivesIncomplete
  /\ Returns(Memo, "transient")
  /\ UNCHANGED <<investigation, override, tasks, linked, plan, file, memo_file,
                 quality, faults>>

GatherCoverage ==
  /\ At(Memo, "gate")
  /\ ~DivesIncomplete
  /\ \E long \in BOOLEAN :
       /\ file[Financial].size # "short" => long = (file[Financial].size = "full")
       /\ quality' = QualitySufficient(long)
  /\ Goto(Memo, "write")
  /\ UNCHANGED <<investigation, override, tasks, linked, plan, file, memo_file,
                 faults>>

\* The LLM may end without a memo, or be cut off after writing it.
WriteMemo(finish) ==
  /\ At(Memo, "write")
  /\ Calls(finish)
  /\ memo_file' \in {memo_file, TRUE}
  /\ hand' = [hand EXCEPT ![Memo] = [at |-> "update", finish |-> finish]]
  /\ UNCHANGED <<investigation, override, tasks, linked, plan, file, quality>>

UpdateInvestigation ==
  /\ At(Memo, "update")
  /\ investigation' =
       IF investigation # "none" /\ hand[Memo].finish = "stop"
       THEN IF quality THEN "resolved" ELSE "partial"
       ELSE investigation
  /\ Goto(Memo, "settle")
  /\ Forget(Memo)
  /\ UNCHANGED <<override, tasks, linked, file, memo_file, faults>>

-----------------------------------------------------------------------------
\* The worker's settlement

Leave(t) ==
  /\ hand' = [hand EXCEPT ![t] = Idle]
  /\ UNCHANGED <<investigation, override, linked, plan, file, memo_file, quality,
                 faults>>

\* Released after a kill or while the dives are incomplete; put back after a
\* rate limit whatever the row's status.
SettleGivenBack(t) ==
  /\ At(t, "settle")
  /\ hand[t].finish \in {"killed", "transient", "rate_limit"}
  /\ tasks' = [tasks EXCEPT ![t] =
       IF hand[t].finish = "rate_limit" THEN GivenBack(@) ELSE Released(@)]
  /\ Leave(t)

\* An error, or an artifact the validator does not accept; it accepts a plan
\* and a memo that are there, and may find fault with any dive.
SettleFailed(t) ==
  /\ At(t, "settle")
  /\ \/ hand[t].finish = "raised"
     \/ /\ hand[t].finish \in {"stop", "broken"}
        /\ t \in Dives \/ (t = Memo /\ ~memo_file)
  /\ tasks' = [tasks EXCEPT ![t] = Failed(@, MaxAttempts[t])]
  /\ Leave(t)

\* The verdict on investability; one that cannot be read stops nothing.
StopsSiblings(t) == t = Financial /\ file[t].verdict = "STOP"

\* The gate of the financial dive runs in the transaction of its success.
SettleSuccess(t) ==
  /\ At(t, "settle")
  /\ hand[t].finish \in {"stop", "broken"}
  /\ t \in Dives => Valid(t)
  /\ t = Memo => memo_file
  /\ tasks' = [u \in Tasks |->
       IF u = t THEN Succeeded(tasks[u])
       ELSE IF StopsSiblings(t) /\ u \in Dives
       THEN Stopped(tasks[u])
       ELSE tasks[u]]
  /\ Leave(t)

Settle(t) == SettleGivenBack(t) \/ SettleFailed(t) \/ SettleSuccess(t)

-----------------------------------------------------------------------------
\* The operator, and time

CancelInvestigation(cascade) ==
  /\ "cancel_investigation" \in OperatorTools
  /\ investigation # "none"
  /\ investigation' = "abandoned"
  /\ tasks' = [t \in Tasks |->
       IF cascade /\ (t = Orchestrate => linked)
       THEN Canceled(tasks[t], {"queued", "running"}) ELSE tasks[t]]
  /\ UNCHANGED <<override, linked, hand, plan, file, memo_file, quality, faults>>

OverrideContinue ==
  /\ "override_investability" \in OperatorTools
  /\ investigation # "none"
  /\ investigation' = "active"
  /\ override' = "CONTINUE"
  /\ tasks' = [t \in Tasks |-> Revived(tasks[t])]
  /\ UNCHANGED <<linked, hand, plan, file, memo_file, quality, faults>>

OverrideStop ==
  /\ "override_investability" \in OperatorTools
  /\ investigation # "none"
  /\ override' = "STOP"
  /\ tasks' = [t \in Tasks |->
       IF t \in Dives THEN Canceled(tasks[t], {"queued", "running"}) ELSE tasks[t]]
  /\ UNCHANGED <<investigation, linked, hand, plan, file, memo_file, quality,
                 faults>>

FileAges(d) ==
  /\ d \in Aging
  /\ SkeletonSized(d)
  /\ file' = [file EXCEPT ![d].aged = TRUE]
  /\ UNCHANGED <<investigation, override, tasks, linked, hand, plan, memo_file,
                 quality, faults>>

-----------------------------------------------------------------------------
OrchestratorStep ==
  \/ \E finish \in Finishes : ReadPlan(finish)
  \/ EnsureInvestigation
  \/ EnqueueSequence

DiveStep(d) ==
  \/ WriteSkeleton(d)
  \/ EditDive(d)
  \/ \E finish \in Finishes : DiveReturns(d, finish)

MemoStep ==
  \/ Gate
  \/ GatherCoverage
  \/ \E finish \in Finishes : WriteMemo(finish)
  \/ UpdateInvestigation

WorkerStep(t) ==
  \/ Take(t)
  \/ CancelObserved(t)
  \/ HandlerRaises(t)
  \/ Settle(t)

OperatorStep ==
  \/ \E cascade \in BOOLEAN : CancelInvestigation(cascade)
  \/ OverrideContinue
  \/ OverrideStop

Next ==
  \/ \E byTool \in BOOLEAN : Open(byTool)
  \/ \E t \in Tasks : WorkerStep(t)
  \/ Crash
  \/ OrchestratorStep
  \/ \E d \in Dives : DiveStep(d) \/ FileAges(d)
  \/ MemoStep
  \/ OperatorStep

Spec == Init /\ [][Next]_vars
=============================================================================
