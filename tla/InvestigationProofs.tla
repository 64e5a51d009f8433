------------------------ MODULE InvestigationProofs ------------------------
(***************************************************************************)
(* What an investigation promises, for any number of dives and any plans.  *)
(* All of it rests on where a task is while a handler has it: its row is   *)
(* running, or canceled behind the handler's back.                         *)
(***************************************************************************)
EXTENDS InvestigationProperties, TLAPS

-----------------------------------------------------------------------------
\* Types

LEMMA RowType ==
  ASSUME NEW r \in TaskRow, NEW max \in Nat
  PROVE  /\ Queued(r) \in TaskRow
         /\ Enqueued(r) \in TaskRow
         /\ Succeeded(r) \in TaskRow
         /\ Stopped(r) \in TaskRow
         /\ Revived(r) \in TaskRow
         /\ Canceled(r, {"queued", "running"}) \in TaskRow
         /\ GivenBack(r) \in TaskRow
         /\ Released(r) \in TaskRow
         /\ Failed(r, max) \in TaskRow
<1>1. /\ Queued(r) \in TaskRow
      /\ Enqueued(r) \in TaskRow
      /\ Succeeded(r) \in TaskRow
      /\ Stopped(r) \in TaskRow
      /\ Revived(r) \in TaskRow
      /\ Canceled(r, {"queued", "running"}) \in TaskRow
  BY DEF TaskRow, Queued, Enqueued, Succeeded, Stopped, Revived, Canceled
<1>2. GivenBack(r) \in TaskRow
  <2>1. r.attempts \in Nat
    BY DEF TaskRow
  <2> DEFINE n == IF r.attempts = 0 THEN 0 ELSE r.attempts - 1
  <2>2. n \in Nat
    BY <2>1
  <2>3. GivenBack(r) = [Queued(r) EXCEPT !.attempts = n]
    BY DEF GivenBack, Queued, TaskRow
  <2> HIDE DEF n
  <2>4. QED
    BY <1>1, <2>2, <2>3 DEF TaskRow
<1>3. Released(r) \in TaskRow
  BY <1>2 DEF Released
<1>4. Failed(r, max) \in TaskRow
  BY DEF TaskRow, Failed, Queued
<1>5. QED
  BY <1>1, <1>2, <1>3, <1>4

HandType == [Tasks -> [at : Stages, finish : Finishes]]

LEMMA HandsType ==
  ASSUME TypeOK, NEW t \in Tasks, NEW stage \in Stages, NEW finish \in Finishes
  PROVE  /\ [hand EXCEPT ![t].at = stage] \in HandType
         /\ [hand EXCEPT ![t] = [at |-> stage, finish |-> finish]] \in HandType
         /\ [hand EXCEPT ![t] = Idle] \in HandType
  BY DEF TypeOK, HandType, Idle, Stages, Finishes

LEMMA TypeInit == Init => TypeOK
<1> SUFFICES ASSUME Init PROVE TypeOK
  OBVIOUS
<1>1. tasks \in [Tasks -> TaskRow]
  BY DEF Init, NoTask, TaskRow
<1>2. hand \in HandType
  BY DEF Init, HandType, Idle, Stages, Finishes
<1>3. file \in [Dives -> File]
  BY DEF Init, File, NoFile
<1>4. plan \in Plans /\ faults \in 0..MaxFaults
  BY InvestigationAssumption DEF Init, Plans, NoPlan
<1>5. QED
  BY <1>1, <1>2, <1>3, <1>4 DEF Init, TypeOK, HandType

\* What a handler forgets, and what a call costs, keep their types.
LEMMA MemoryType ==
  ASSUME TypeOK
  PROVE  /\ \A t \in Tasks : Forget(t) => plan' \in Plans /\ quality' \in BOOLEAN
         /\ Fault => faults' \in 0..MaxFaults
         /\ \A finish : Calls(finish) =>
              faults' \in 0..MaxFaults /\ finish \in Finishes
<1>1. Fault => faults' \in 0..MaxFaults
  BY InvestigationAssumption DEF Fault, TypeOK
<1>2. \A t \in Tasks : Forget(t) => plan' \in Plans /\ quality' \in BOOLEAN
  BY DEF Forget, TypeOK, Plans, NoPlan
<1>3. QED
  BY <1>1, <1>2, InvestigationAssumption DEF Calls, TypeOK, Finishes

LEMMA WorkerType ==
  ASSUME TypeOK, NEW t \in Tasks, WorkerStep(t) PROVE TypeOK'
<1>1. CASE Take(t)
  <2>1. tasks' \in [Tasks -> TaskRow]
    BY <1>1 DEF Take, TypeOK, TaskRow
  <2>2. FirstStage(t) \in Stages /\ "none" \in Finishes
    BY DEF FirstStage, Stages, Finishes
  <2>3. hand' \in HandType
    BY <1>1, <2>2, HandsType DEF Take
  <2>4. QED
    BY <1>1, <2>1, <2>3 DEF Take, TypeOK, HandType
<1>2. CASE CancelObserved(t)
  <2>1. hand' \in HandType
    BY <1>2, HandsType DEF CancelObserved, Stages, Finishes
  <2>2. QED
    BY <1>2, <2>1, MemoryType DEF CancelObserved, TypeOK, HandType
<1>3. CASE HandlerRaises(t)
  <2>1. hand' \in HandType
    BY <1>3, HandsType DEF HandlerRaises, Returns, Stages, Finishes
  <2>2. QED
    BY <1>3, <2>1, MemoryType DEF HandlerRaises, TypeOK, HandType
<1>4. CASE Settle(t)
  <2>1. Leave(t)
    BY <1>4 DEF Settle, SettleGivenBack, SettleFailed, SettleSuccess
  <2>2. hand' \in HandType
    BY <2>1, HandsType DEF Leave, Stages, Finishes
  <2>3. \A r \in TaskRow : /\ GivenBack(r) \in TaskRow
                           /\ Released(r) \in TaskRow
                           /\ Succeeded(r) \in TaskRow
                           /\ Stopped(r) \in TaskRow
                           /\ Failed(r, MaxAttempts[t]) \in TaskRow
    BY RowType, InvestigationAssumption
  <2>4. tasks' \in [Tasks -> TaskRow]
    <3>1. CASE SettleGivenBack(t)
      BY <2>3, <3>1 DEF SettleGivenBack, TypeOK
    <3>2. CASE SettleFailed(t)
      BY <2>3, <3>2 DEF SettleFailed, TypeOK
    <3>3. CASE SettleSuccess(t)
      BY <2>3, <3>3 DEF SettleSuccess, TypeOK
    <3>4. QED
      BY <1>4, <3>1, <3>2, <3>3 DEF Settle
  <2>5. QED
    BY <2>1, <2>2, <2>4 DEF Leave, TypeOK, HandType
<1>5. QED
  BY <1>1, <1>2, <1>3, <1>4 DEF WorkerStep

LEMMA OrchestratorType ==
  ASSUME TypeOK, OrchestratorStep PROVE TypeOK'
<1>1. Orchestrate \in Tasks /\ {"ensure", "enqueue", "settle"} \subseteq Stages
  BY DEF Tasks, Stages
<1>2. ASSUME NEW finish \in Finishes, ReadPlan(finish) PROVE TypeOK'
  <2>1. hand' \in HandType
    <3>1. \E stage \in {"ensure", "settle"} :
            hand' = [hand EXCEPT ![Orchestrate] =
                       [at |-> stage, finish |-> finish]]
      BY <1>2 DEF ReadPlan, Returns
    <3>2. \A stage \in Stages :
            [hand EXCEPT ![Orchestrate] = [at |-> stage, finish |-> finish]]
              \in HandType
      BY <1>1, HandsType
    <3>3. QED
      BY <1>1, <3>1, <3>2
  <2>2. plan' \in Plans
    <3>1. CASE plan' = plan
      BY <3>1 DEF TypeOK
    <3>2. ASSUME NEW parsed \in LLMPlans, NEW dropped,
                 plan' = [parsed EXCEPT !.dives = @ \ dropped]
          PROVE  plan' \in Plans
      <4>1. parsed \in [dives : SUBSET Dives, memo : BOOLEAN]
        BY InvestigationAssumption DEF Plans
      <4>2. parsed.dives \ dropped \in SUBSET Dives
        BY <4>1
      <4>3. QED
        BY <3>2, <4>1, <4>2 DEF Plans
    <3>3. QED
      BY <1>2, <3>1, <3>2 DEF ReadPlan
  <2>3. faults' \in 0..MaxFaults
    BY <1>2, MemoryType DEF ReadPlan
  <2>4. QED
    BY <1>2, <2>1, <2>2, <2>3 DEF ReadPlan, TypeOK, HandType
<1>3. CASE EnsureInvestigation
  <2>1. hand' \in HandType
    BY <1>1, <1>3, HandsType DEF EnsureInvestigation, Goto, Finishes
  <2>2. QED
    BY <1>3, <2>1 DEF EnsureInvestigation, TypeOK, HandType
<1>4. CASE EnqueueSequence
  <2>1. hand' \in HandType
    BY <1>1, <1>4, HandsType DEF EnqueueSequence, Goto, Finishes
  <2>2. \A r \in TaskRow : Enqueued(r) \in TaskRow
    BY RowType
  <2>3. tasks' \in [Tasks -> TaskRow]
    BY <1>4, <2>2 DEF EnqueueSequence, TypeOK
  <2>4. plan' \in Plans /\ quality' \in BOOLEAN
    BY <1>1, <1>4, MemoryType DEF EnqueueSequence
  <2>5. QED
    BY <1>4, <2>1, <2>3, <2>4 DEF EnqueueSequence, TypeOK, HandType
<1>5. QED
  BY <1>2, <1>3, <1>4 DEF OrchestratorStep

LEMMA DiveType ==
  ASSUME TypeOK, NEW d \in Dives, DiveStep(d) \/ FileAges(d) PROVE TypeOK'
<1>1. d \in Tasks /\ {"dive", "settle"} \subseteq Stages
  BY DEF Tasks, Stages
<1>2. CASE WriteSkeleton(d)
  <2>1. hand' \in HandType
    BY <1>1, <1>2, HandsType DEF WriteSkeleton, Goto, Finishes
  <2>2. file' \in [Dives -> File]
    BY <1>2 DEF WriteSkeleton, TypeOK, Skeleton, NoFile, File
  <2>3. QED
    BY <1>2, <2>1, <2>2 DEF WriteSkeleton, TypeOK, HandType
<1>3. CASE EditDive(d)
  <2>1. file' \in [Dives -> File]
    BY <1>3, InvestigationAssumption DEF EditDive, TypeOK, File
  <2>2. QED
    BY <1>3, <2>1 DEF EditDive, TypeOK
<1>4. ASSUME NEW finish \in Finishes, DiveReturns(d, finish) PROVE TypeOK'
  <2>1. hand' \in HandType
    BY <1>1, <1>4, HandsType DEF DiveReturns, Returns
  <2>2. faults' \in 0..MaxFaults
    BY <1>4, MemoryType DEF DiveReturns
  <2>3. QED
    BY <1>4, <2>1, <2>2 DEF DiveReturns, TypeOK, HandType
<1>5. CASE FileAges(d)
  <2>1. file' \in [Dives -> File]
    BY <1>5 DEF FileAges, TypeOK, File
  <2>2. QED
    BY <1>5, <2>1 DEF FileAges, TypeOK
<1>6. QED
  BY <1>2, <1>3, <1>4, <1>5 DEF DiveStep

LEMMA MemoType ==
  ASSUME TypeOK, MemoStep PROVE TypeOK'
<1>1. Memo \in Tasks /\ {"write", "update", "settle"} \subseteq Stages
  BY DEF Tasks, Stages
<1>2. CASE Gate
  <2>1. hand' \in HandType
    BY <1>1, <1>2, HandsType DEF Gate, Returns, Finishes
  <2>2. QED
    BY <1>2, <2>1 DEF Gate, TypeOK, HandType
<1>3. CASE GatherCoverage
  <2>1. hand' \in HandType
    BY <1>1, <1>3, HandsType DEF GatherCoverage, Goto, Finishes
  <2>2. quality' \in BOOLEAN
    BY <1>3 DEF GatherCoverage, QualitySufficient
  <2>3. QED
    BY <1>3, <2>1, <2>2 DEF GatherCoverage, TypeOK, HandType
<1>4. ASSUME NEW finish \in Finishes, WriteMemo(finish) PROVE TypeOK'
  <2>1. hand' \in HandType
    BY <1>1, <1>4, HandsType DEF WriteMemo
  <2>2. faults' \in 0..MaxFaults /\ memo_file' \in BOOLEAN
    BY <1>4, MemoryType DEF WriteMemo, TypeOK
  <2>3. QED
    BY <1>4, <2>1, <2>2 DEF WriteMemo, TypeOK, HandType
<1>5. CASE UpdateInvestigation
  <2>1. hand' \in HandType
    BY <1>1, <1>5, HandsType DEF UpdateInvestigation, Goto, Finishes
  <2>2. plan' \in Plans /\ quality' \in BOOLEAN
    BY <1>1, <1>5, MemoryType DEF UpdateInvestigation
  <2>3. QED
    BY <1>5, <2>1, <2>2 DEF UpdateInvestigation, TypeOK, HandType
<1>6. QED
  BY <1>2, <1>3, <1>4, <1>5 DEF MemoStep

LEMMA TypeStep == TypeOK /\ [Next]_vars => TypeOK'
<1> SUFFICES ASSUME TypeOK, [Next]_vars PROVE TypeOK'
  OBVIOUS
<1>1. \A r \in TaskRow : /\ Queued(r) \in TaskRow
                         /\ Revived(r) \in TaskRow
                         /\ Canceled(r, {"queued", "running"}) \in TaskRow
  BY RowType
<1>2. ASSUME NEW byTool \in BOOLEAN, Open(byTool) PROVE TypeOK'
  BY <1>1, <1>2 DEF Open, TypeOK
<1>3. CASE Crash
  BY <1>3, MemoryType DEF Crash, TypeOK, Idle, Stages, Finishes, NoPlan, Plans
<1>4. CASE OperatorStep
  <2>1. tasks' \in [Tasks -> TaskRow]
    BY <1>1, <1>4 DEF OperatorStep, CancelInvestigation, OverrideContinue,
                      OverrideStop, TypeOK
  <2>2. QED
    BY <1>4, <2>1 DEF OperatorStep, CancelInvestigation, OverrideContinue,
                      OverrideStop, TypeOK
<1>5. CASE UNCHANGED vars
  BY <1>5 DEF vars, TypeOK
<1>6. QED
  BY <1>2, <1>3, <1>4, <1>5, WorkerType, OrchestratorType, DiveType, MemoType
     DEF Next

\* Every reachable state is well-typed.
THEOREM TypeCorrect == Spec => []TypeOK
  BY TypeInit, TypeStep, PTL DEF Spec

-----------------------------------------------------------------------------
\* What a step does to the rows and to who has them in hand

\* While a handler has a task, nothing but a cancel touches its row.
InHandRows == \A t \in InHand : tasks[t].status \in {"running", "canceled"}

Submits(S) ==
  /\ \A t \in S : tasks[t].status = "absent"
  /\ tasks' = [t \in Tasks |-> IF t \in S THEN Queued(tasks[t]) ELSE tasks[t]]

Cancels(S) ==
  /\ \A t \in S : tasks[t].status \in {"queued", "running"}
  /\ tasks' = [t \in Tasks |->
       IF t \in S THEN Canceled(tasks[t], {"queued", "running"}) ELSE tasks[t]]

LEMMA Advances ==
  ASSUME TypeOK, NEW t \in InHand, NEW stage \in Stages \ {"idle"},
         NEW finish \in Finishes,
         \/ Goto(t, stage)
         \/ hand' = [hand EXCEPT ![t] = [at |-> stage, finish |-> finish]]
  PROVE  InHand' = InHand
<1>1. t \in Tasks /\ hand \in HandType
  BY DEF InHand, TypeOK, HandType
<1>2. /\ hand'[t].at # "idle"
      /\ \A u \in Tasks \ {t} : hand'[u] = hand[u]
  BY <1>1 DEF Goto, HandType
<1>3. QED
  BY <1>1, <1>2 DEF InHand

LEMMA Leaves ==
  ASSUME TypeOK, NEW t \in Tasks, hand' = [hand EXCEPT ![t] = Idle]
  PROVE  InHand' = InHand \ {t}
  BY DEF InHand, TypeOK, Idle

\* The steps of the handlers before they settle change no row but those that
\* the orchestrator enqueues.
LEMMA HandlerShape ==
  ASSUME TypeOK,
         OrchestratorStep \/ MemoStep \/ \E d \in Dives : DiveStep(d)
  PROVE  /\ InHand' = InHand
         /\ tasks' = tasks \/ \E S \in SUBSET Tasks : Submits(S)
<1>1. {"ensure", "enqueue", "settle", "dive", "write", "update"}
        \subseteq Stages \ {"idle"}
  BY DEF Stages
<1>2. \A t \in Tasks, stage \in Stages \ {"idle"} :
        At(t, stage) => t \in InHand
  BY DEF At, InHand
<1>3. {"plan", "gate", "skeleton"} \subseteq Stages \ {"idle"}
  BY DEF Stages
<1>4. Orchestrate \in Tasks /\ Memo \in Tasks /\ Dives \subseteq Tasks
  BY DEF Tasks
<1>5. \A t \in InHand, stage \in Stages \ {"idle"} :
        Goto(t, stage) => InHand' = InHand
  BY Advances DEF Finishes
<1>6. \A t \in InHand, stage \in Stages \ {"idle"}, finish \in Finishes :
        hand' = [hand EXCEPT ![t] = [at |-> stage, finish |-> finish]]
          => InHand' = InHand
  BY Advances
<1>7. ASSUME NEW finish \in Finishes, ReadPlan(finish)
      PROVE  InHand' = InHand /\ tasks' = tasks
  <2>1. \E stage \in {"ensure", "settle"} :
          hand' = [hand EXCEPT ![Orchestrate] =
                     [at |-> stage, finish |-> finish]]
    BY <1>7 DEF ReadPlan, Returns
  <2>2. Orchestrate \in InHand
    BY <1>2, <1>3, <1>4, <1>7 DEF ReadPlan
  <2>3. QED
    BY <1>1, <1>6, <1>7, <2>1, <2>2 DEF ReadPlan
<1>8. CASE EnsureInvestigation
  BY <1>1, <1>2, <1>4, <1>5, <1>8 DEF EnsureInvestigation
<1>9. CASE EnqueueSequence
  <2> DEFINE S == {t \in Tasks : /\ t \in plan.dives \/ (t = Memo /\ plan.memo)
                                 /\ tasks[t].status = "absent"}
  <2>1. tasks' = [t \in Tasks |-> IF t \in S THEN Queued(tasks[t]) ELSE tasks[t]]
    BY <1>9 DEF EnqueueSequence, Enqueued
  <2>2. Submits(S)
    BY <2>1 DEF Submits
  <2>3. InHand' = InHand
    BY <1>1, <1>2, <1>4, <1>5, <1>9 DEF EnqueueSequence
  <2>4. QED
    BY <2>2, <2>3
<1>10. ASSUME NEW d \in Dives, DiveStep(d)
       PROVE  InHand' = InHand /\ tasks' = tasks
  <2>1. CASE WriteSkeleton(d)
    BY <1>1, <1>2, <1>3, <1>4, <1>5, <2>1 DEF WriteSkeleton
  <2>2. CASE EditDive(d)
    BY <2>2 DEF EditDive, InHand
  <2>3. ASSUME NEW finish \in Finishes, DiveReturns(d, finish)
        PROVE  InHand' = InHand /\ tasks' = tasks
    BY <1>1, <1>2, <1>4, <1>6, <2>3 DEF DiveReturns, Returns
  <2>4. QED
    BY <1>10, <2>1, <2>2, <2>3 DEF DiveStep
<1>11. CASE Gate
  BY <1>1, <1>2, <1>3, <1>4, <1>6, <1>11 DEF Gate, Returns, Finishes
<1>12. CASE GatherCoverage
  BY <1>1, <1>2, <1>3, <1>4, <1>5, <1>12 DEF GatherCoverage
<1>13. ASSUME NEW finish \in Finishes, WriteMemo(finish)
       PROVE  InHand' = InHand /\ tasks' = tasks
  BY <1>1, <1>2, <1>4, <1>6, <1>13 DEF WriteMemo
<1>14. CASE UpdateInvestigation
  BY <1>1, <1>2, <1>4, <1>5, <1>14 DEF UpdateInvestigation
<1>15. QED
  BY <1>7, <1>8, <1>9, <1>10, <1>11, <1>12, <1>13, <1>14
     DEF OrchestratorStep, MemoStep

LEMMA StepShape ==
  ASSUME TypeOK, [Next]_vars
  PROVE  \/ tasks' = tasks /\ InHand' \subseteq InHand
         \/ InHand' = InHand /\ \E S \in SUBSET Tasks : Submits(S)
         \/ InHand' = InHand /\ \E S \in SUBSET Tasks : Cancels(S)
         \/ InHand' = InHand /\ OverrideContinue
         \/ \E t \in Tasks : Take(t)
         \/ \E t \in Tasks : Settle(t)
<1>1. ASSUME NEW byTool \in BOOLEAN, Open(byTool)
      PROVE  InHand' = InHand /\ \E S \in SUBSET Tasks : Submits(S)
  <2>1. Orchestrate \in Tasks
    BY DEF Tasks
  <2>2. Submits({Orchestrate}) /\ {Orchestrate} \in SUBSET Tasks
    BY <1>1, <2>1 DEF Open, Submits, TypeOK
  <2>3. QED
    BY <1>1, <2>2 DEF Open, InHand
<1>2. ASSUME NEW t \in Tasks, CancelObserved(t)
      PROVE  tasks' = tasks /\ InHand' \subseteq InHand
  BY <1>2, Leaves DEF CancelObserved
<1>3. ASSUME NEW t \in Tasks, HandlerRaises(t)
      PROVE  tasks' = tasks /\ InHand' \subseteq InHand
  <2>1. t \in InHand /\ "settle" \in Stages \ {"idle"} /\ "raised" \in Finishes
    BY <1>3 DEF HandlerRaises, Stages, Finishes
  <2>2. hand' = [hand EXCEPT ![t] = [at |-> "settle", finish |-> "raised"]]
    BY <1>3 DEF HandlerRaises, Returns
  <2>3. InHand' = InHand
    BY <2>1, <2>2, Advances
  <2>4. QED
    BY <1>3, <2>3 DEF HandlerRaises
<1>4. CASE Crash
  BY <1>4 DEF Crash, InHand, Idle
<1>5. ASSUME NEW d \in Dives, FileAges(d)
      PROVE  tasks' = tasks /\ InHand' = InHand
  BY <1>5 DEF FileAges, InHand
<1>6. ASSUME NEW cascade \in BOOLEAN, CancelInvestigation(cascade)
      PROVE  InHand' = InHand /\ \E S \in SUBSET Tasks : Cancels(S)
  <2> DEFINE S == {t \in Tasks : /\ cascade /\ (t = Orchestrate => linked)
                                 /\ tasks[t].status \in {"queued", "running"}}
  <2>1. tasks' = [t \in Tasks |->
          IF t \in S THEN Canceled(tasks[t], {"queued", "running"}) ELSE tasks[t]]
    BY <1>6 DEF CancelInvestigation, Canceled
  <2>2. Cancels(S)
    BY <2>1 DEF Cancels
  <2>3. QED
    BY <1>6, <2>2 DEF CancelInvestigation, InHand
<1>7. CASE OverrideStop
  <2> DEFINE S == {t \in Dives : tasks[t].status \in {"queued", "running"}}
  <2>1. tasks' = [t \in Tasks |->
          IF t \in S THEN Canceled(tasks[t], {"queued", "running"}) ELSE tasks[t]]
    BY <1>7 DEF OverrideStop, Canceled
  <2>2. Cancels(S) /\ S \in SUBSET Tasks
    BY <2>1 DEF Cancels, Tasks
  <2>3. QED
    BY <1>7, <2>2 DEF OverrideStop, InHand
<1>8. CASE OverrideContinue
  BY <1>8 DEF OverrideContinue, InHand
<1>9. CASE UNCHANGED vars
  BY <1>9 DEF vars, InHand
<1>10. QED
  BY <1>1, <1>2, <1>3, <1>4, <1>5, <1>6, <1>7, <1>8, <1>9, HandlerShape
     DEF Next, WorkerStep, OperatorStep

LEMMA SettleShape ==
  ASSUME TypeOK, NEW t \in Tasks, Settle(t)
  PROVE  /\ t \in InHand
         /\ InHand' = InHand \ {t}
         /\ file' = file
         /\ tasks'[t] \in {GivenBack(tasks[t]), Released(tasks[t]),
                           Failed(tasks[t], MaxAttempts[t]), Succeeded(tasks[t])}
         /\ \A u \in Tasks \ {t} : tasks'[u] \in {tasks[u], Stopped(tasks[u])}
<1>1. t \in InHand
  BY DEF Settle, SettleGivenBack, SettleFailed, SettleSuccess, At, InHand
<1>2. Leave(t)
  BY DEF Settle, SettleGivenBack, SettleFailed, SettleSuccess
<1>3. InHand' = InHand \ {t} /\ file' = file
  BY <1>2, Leaves DEF Leave
<1>4. CASE SettleGivenBack(t)
  BY <1>1, <1>3, <1>4 DEF SettleGivenBack, TypeOK
<1>5. CASE SettleFailed(t)
  BY <1>1, <1>3, <1>5 DEF SettleFailed, TypeOK
<1>6. CASE SettleSuccess(t)
  BY <1>1, <1>3, <1>6 DEF SettleSuccess, TypeOK
<1>7. QED
  BY <1>4, <1>5, <1>6 DEF Settle

\* What becomes of the row of a task that is settled.
LEMMA SettledRow ==
  ASSUME NEW r \in TaskRow, NEW max \in Nat,
         r.status \in {"running", "canceled"}, ~r.stopped,
         NEW s \in {GivenBack(r), Released(r), Failed(r, max), Succeeded(r)}
  PROVE  /\ ~s.stopped
         /\ r.status = "running" =>
              s.status \in {"queued", "success", "dead_letter"}
         /\ r.status = "canceled" => s.status \in {"queued", "canceled"}
<1>1. GivenBack(r).status = "queued" /\ GivenBack(r).stopped = r.stopped
  BY DEF GivenBack, Queued, TaskRow
<1>2. CASE s \in {GivenBack(r), Released(r)}
  BY <1>1, <1>2 DEF Released
<1>3. CASE s \in {Failed(r, max), Succeeded(r)}
  BY <1>3 DEF Failed, Succeeded, Queued, TaskRow
<1>4. QED
  BY <1>2, <1>3

-----------------------------------------------------------------------------
\* A stopped dive is in nobody's hands

HandsInv == InHandRows /\ StoppedAreFree

LEMMA HandsStep ==
  TypeOK /\ HandsInv /\ [Next]_vars => HandsInv'
<1> SUFFICES ASSUME TypeOK, InHandRows, StoppedAreFree, [Next]_vars
             PROVE  InHandRows' /\ StoppedAreFree'
  BY DEF HandsInv
<1>1. CASE tasks' = tasks /\ InHand' \subseteq InHand
  BY <1>1 DEF InHandRows, StoppedAreFree
<1>2. ASSUME NEW S \in SUBSET Tasks, InHand' = InHand, Submits(S)
      PROVE  InHandRows' /\ StoppedAreFree'
  <2>1. \A t \in S : t \notin InHand /\ ~tasks[t].stopped
    BY <1>2 DEF Submits, InHandRows, StoppedAreFree
  <2>2. \A t \in Tasks :
          IF t \in S THEN tasks'[t].stopped = tasks[t].stopped
          ELSE tasks'[t] = tasks[t]
    BY <1>2 DEF Submits, Queued, TypeOK, TaskRow
  <2>3. InHand \subseteq Tasks
    BY DEF InHand
  <2>4. QED
    BY <1>2, <2>1, <2>2, <2>3 DEF InHandRows, StoppedAreFree
<1>3. ASSUME NEW S \in SUBSET Tasks, InHand' = InHand, Cancels(S)
      PROVE  InHandRows' /\ StoppedAreFree'
  <2>1. \A t \in Tasks :
          IF t \in S
          THEN tasks'[t].status = "canceled" /\ tasks'[t].stopped = FALSE
          ELSE tasks'[t] = tasks[t]
    BY <1>3 DEF Cancels, Canceled, TypeOK, TaskRow
  <2>2. InHand \subseteq Tasks
    BY DEF InHand
  <2>3. QED
    BY <1>3, <2>1, <2>2 DEF InHandRows, StoppedAreFree
<1>4. CASE InHand' = InHand /\ OverrideContinue
  <2>1. \A t \in Tasks :
          IF tasks[t].stopped THEN tasks'[t].stopped = FALSE
          ELSE tasks'[t] = tasks[t]
    BY <1>4 DEF OverrideContinue, Revived, Queued, TypeOK, TaskRow, StoppedAreFree
  <2>2. InHand \subseteq Tasks
    BY DEF InHand
  <2>3. QED
    BY <1>4, <2>1, <2>2 DEF InHandRows, StoppedAreFree
<1>5. ASSUME NEW t \in Tasks, Take(t)
      PROVE  InHandRows' /\ StoppedAreFree'
  <2>1. ~tasks[t].stopped
    BY <1>5 DEF Take, StoppedAreFree
  <2>2. /\ tasks'[t].status = "running" /\ tasks'[t].stopped = tasks[t].stopped
        /\ \A u \in Tasks \ {t} : tasks'[u] = tasks[u]
    BY <1>5 DEF Take, TypeOK, TaskRow
  <2>3. InHand' \subseteq InHand \union {t} /\ InHand \subseteq Tasks
    BY <1>5 DEF Take, InHand, TypeOK
  <2>4. QED
    BY <2>1, <2>2, <2>3 DEF InHandRows, StoppedAreFree
<1>6. ASSUME NEW t \in Tasks, Settle(t)
      PROVE  InHandRows' /\ StoppedAreFree'
  <2>1. /\ tasks[t] \in TaskRow /\ MaxAttempts[t] \in Nat
        /\ tasks[t].status \in {"running", "canceled"} /\ ~tasks[t].stopped
    BY <1>6, SettleShape, InvestigationAssumption
       DEF TypeOK, InHandRows, StoppedAreFree
  <2>2. ~tasks'[t].stopped
    BY <1>6, <2>1, SettleShape, SettledRow
  <2>3. \A u \in Tasks \ {t} :
          \/ tasks'[u] = tasks[u]
          \/ tasks[u].status = "queued" /\ tasks'[u].status = "canceled"
    BY <1>6, SettleShape DEF Stopped, TypeOK, TaskRow
  <2>4. InHand' = InHand \ {t} /\ InHand \subseteq Tasks
    BY <1>6, SettleShape DEF InHand
  <2>5. QED
    BY <2>2, <2>3, <2>4 DEF InHandRows, StoppedAreFree
<1>7. QED
  BY <1>1, <1>2, <1>3, <1>4, <1>5, <1>6, StepShape

LEMMA HandsInvHolds == Spec => []HandsInv
<1>1. Init => HandsInv
  BY DEF Init, HandsInv, InHandRows, StoppedAreFree, InHand, Idle, NoTask
<1>2. QED
  BY <1>1, HandsStep, TypeCorrect, PTL DEF Spec

\* A dive that a STOP canceled is in nobody's hands until a person revives it,
\* whatever the plan, and however often its worker was lost before.
THEOREM StoppedDivesAreFree == Spec => []StoppedAreFree
<1>1. HandsInv => StoppedAreFree
  BY DEF HandsInv
<1>2. QED
  BY <1>1, HandsInvHolds, PTL

-----------------------------------------------------------------------------
\* A finished dive has its report

\* A row is successful when it was, or when its task is settled with a report
\* that the validator accepts.
LEMMA SuccessShape ==
  ASSUME TypeOK, HandsInv, [Next]_vars, NEW t \in Tasks,
         tasks'[t].status = "success", tasks[t].status # "success"
  PROVE  Settle(t) /\ (t \in Dives => Valid(t))
<1>1. ASSUME NEW S \in SUBSET Tasks, Submits(S) PROVE FALSE
  BY <1>1 DEF Submits, Queued, TypeOK, TaskRow
<1>2. ASSUME NEW S \in SUBSET Tasks, Cancels(S) PROVE FALSE
  BY <1>2 DEF Cancels, Canceled, TypeOK, TaskRow
<1>3. CASE OverrideContinue
  BY <1>3 DEF OverrideContinue, Revived, Queued, TypeOK, TaskRow
<1>4. ASSUME NEW u \in Tasks, Take(u) PROVE FALSE
  BY <1>4 DEF Take, TypeOK, TaskRow
<1>5. ASSUME NEW u \in Tasks, Settle(u)
      PROVE  u = t /\ (t \in Dives => Valid(t))
  <2>1. u = t
    BY <1>5, SettleShape DEF Stopped, TypeOK, TaskRow
  <2>2. CASE SettleGivenBack(u)
    BY <2>1, <2>2
       DEF SettleGivenBack, GivenBack, Released, Queued, TypeOK, TaskRow
  <2>3. CASE SettleFailed(u)
    BY <2>1, <2>3 DEF SettleFailed, Failed, Queued, TypeOK, TaskRow
  <2>4. CASE SettleSuccess(u)
    BY <2>1, <2>4 DEF SettleSuccess
  <2>5. QED
    BY <1>5, <2>1, <2>2, <2>3, <2>4 DEF Settle
<1>6. QED
  BY <1>1, <1>2, <1>3, <1>4, <1>5, StepShape

\* Nobody writes a dive's file but the handler that has the dive in hand; with
\* time it only grows old.
LEMMA FileStep ==
  ASSUME TypeOK, [Next]_vars, NEW d \in Dives, d \notin InHand
  PROVE  file'[d].size = file[d].size /\ file'[d].verdict = file[d].verdict
<1>1. ASSUME NEW e \in Dives, DiveStep(e) PROVE file'[d] = file[d]
  <2>1. CASE WriteSkeleton(e) \/ EditDive(e)
    <3>1. e # d
      BY <2>1 DEF WriteSkeleton, EditDive, At, InHand, Tasks
    <3>2. QED
      BY <2>1, <3>1 DEF WriteSkeleton, EditDive, TypeOK
  <2>2. QED
    BY <1>1, <2>1 DEF DiveStep, DiveReturns
<1>2. ASSUME NEW e \in Dives, FileAges(e)
      PROVE  file'[d].size = file[d].size /\ file'[d].verdict = file[d].verdict
  BY <1>2 DEF FileAges, TypeOK, File
<1>3. ASSUME NEW t \in Tasks, WorkerStep(t) PROVE file' = file
  BY <1>3 DEF WorkerStep, Take, CancelObserved, HandlerRaises, Settle,
              SettleGivenBack, SettleFailed, SettleSuccess, Leave
<1>4. CASE OrchestratorStep \/ MemoStep
  BY <1>4 DEF OrchestratorStep, ReadPlan, EnsureInvestigation, EnqueueSequence,
              MemoStep, Gate, GatherCoverage, WriteMemo, UpdateInvestigation
<1>5. CASE OperatorStep \/ Crash \/ (\E byTool \in BOOLEAN : Open(byTool))
  BY <1>5 DEF OperatorStep, CancelInvestigation, OverrideContinue, OverrideStop,
              Crash, Open
<1>6. QED
  BY <1>1, <1>2, <1>3, <1>4, <1>5 DEF Next, vars

LEMMA DoneStep ==
  TypeOK /\ HandsInv /\ DoneIsOnDisk /\ [Next]_vars => DoneIsOnDisk'
<1> SUFFICES ASSUME TypeOK, HandsInv, DoneIsOnDisk, [Next]_vars, NEW d \in Dives,
                    tasks'[d].status = "success"
             PROVE  /\ file'[d].size \in {"short", "full"}
                    /\ d = Financial => file'[d].verdict # "MALFORMED"
  BY DEF DoneIsOnDisk
<1>1. d \in Tasks
  BY DEF Tasks
<1>2. CASE tasks[d].status = "success"
  <2>1. d \notin InHand
    BY <1>2 DEF HandsInv, InHandRows
  <2>2. QED
    BY <1>2, <2>1, FileStep DEF DoneIsOnDisk
<1>3. CASE tasks[d].status # "success"
  <2>1. Settle(d) /\ Valid(d)
    BY <1>1, <1>3, SuccessShape
  <2>2. file' = file
    BY <1>1, <2>1, SettleShape
  <2>3. QED
    BY <2>1, <2>2 DEF Valid
<1>4. QED
  BY <1>2, <1>3

\* A dive that succeeded has a report on disk, and the financial one a verdict,
\* through retries on the same file, lost workers, cancels and overrides.
THEOREM DoneDivesAreOnDisk == Spec => []DoneIsOnDisk
<1>1. Init => DoneIsOnDisk
  BY DEF Init, DoneIsOnDisk, NoTask, Tasks
<1>2. QED
  BY <1>1, DoneStep, HandsInvHolds, TypeCorrect, PTL DEF Spec

-----------------------------------------------------------------------------
\* The investigation is a user of the queue

LEMMA RowStates ==
  /\ QueueState["absent"] = "new"
  /\ QueueState["queued"] = "waiting"
  /\ QueueState["running"] = "taken"
  /\ QueueState["success"] = "done"
  /\ QueueState["dead_letter"] = "dead"
  /\ QueueState["canceled"] = "canceled"
  BY DEF QueueState

LEMMA LosesHands ==
  ASSUME tasks' = tasks, InHand' \subseteq InHand
  PROVE  Queue!Next
<1> DEFINE lost == InHand \ InHand'
<1>1. lost \in SUBSET InHand /\ InHand' = InHand \ lost
  OBVIOUS
<1>2. Queue!Vanish(lost)
  BY <1>1 DEF Queue!Vanish
<1>3. QED
  BY <1>1, <1>2 DEF Queue!Next

LEMMA Revives ==
  ASSUME NEW S \in SUBSET Tasks, InHand' = InHand,
         \A t \in S : /\ QueueState[tasks[t].status] = "canceled"
                      /\ t \notin InHand,
         \A t \in Tasks : QueueState[tasks'[t].status] =
           IF t \in S THEN "waiting" ELSE QueueState[tasks[t].status]
  PROVE  Queue!Next
<1>1. Queue!Revive(S)
  BY DEF Queue!Revive
<1>2. S \in SUBSET Queue!Revivable
  BY DEF Queue!Revivable, InHand
<1>3. QED
  BY <1>1, <1>2 DEF Queue!Next

LEMMA FinishesTask ==
  ASSUME NEW t \in InHand, NEW stopped \in SUBSET Queue!Waiting,
         QueueState[tasks'[t].status]
           \in Queue!Results(QueueState[tasks[t].status]),
         \A u \in Tasks \ {t} : QueueState[tasks'[u].status] =
           IF u \in stopped THEN "canceled" ELSE QueueState[tasks[u].status],
         InHand' = InHand \ {t}
  PROVE  Queue!Next
<1>1. Queue!Finish(t, QueueState[tasks'[t].status], stopped)
  BY DEF Queue!Finish
<1>2. QED
  BY <1>1 DEF Queue!Next, InHand

LEMMA SettleFinishes ==
  ASSUME TypeOK, HandsInv, NEW t \in Tasks, Settle(t)
  PROVE  Queue!Next
<1> DEFINE stopped == {u \in Tasks \ {t} : /\ tasks[u].status = "queued"
                                           /\ tasks'[u].status = "canceled"}
<1>1. t \in InHand /\ InHand' = InHand \ {t}
  BY SettleShape
<1>2. \A u \in Tasks \ {t} :
        QueueState[tasks'[u].status] =
          IF u \in stopped THEN "canceled" ELSE QueueState[tasks[u].status]
  <2>1. \A u \in Tasks \ {t} :
          \/ tasks'[u] = tasks[u]
          \/ tasks[u].status = "queued" /\ tasks'[u].status = "canceled"
    BY SettleShape DEF Stopped, TypeOK, TaskRow
  <2>2. QED
    BY <2>1, RowStates
<1>3. QueueState[tasks'[t].status] \in Queue!Results(QueueState[tasks[t].status])
  <2>1. /\ tasks[t] \in TaskRow /\ MaxAttempts[t] \in Nat
        /\ tasks[t].status \in {"running", "canceled"} /\ ~tasks[t].stopped
    BY <1>1, InvestigationAssumption
       DEF TypeOK, HandsInv, InHandRows, StoppedAreFree
  <2>2. /\ tasks[t].status = "running" =>
             tasks'[t].status \in {"queued", "success", "dead_letter"}
        /\ tasks[t].status = "canceled" =>
             tasks'[t].status \in {"queued", "canceled"}
    BY <2>1, SettleShape, SettledRow
  <2>3. CASE tasks[t].status = "running"
    BY <2>2, <2>3, RowStates DEF Queue!Results
  <2>4. CASE tasks[t].status = "canceled"
    BY <2>2, <2>4, RowStates DEF Queue!Results
  <2>5. QED
    BY <2>1, <2>3, <2>4
<1>4. stopped \in SUBSET Queue!Waiting
  BY RowStates DEF Queue!Waiting
<1> HIDE DEF stopped
<1>5. QED
  BY <1>1, <1>2, <1>3, <1>4, FinishesTask

LEMMA UsesQueueStep ==
  ASSUME TypeOK, HandsInv, [Next]_vars
  PROVE  Queue!Next
<1>1. ASSUME NEW S \in SUBSET Tasks, InHand' = InHand, Submits(S)
      PROVE  Queue!Next
  <2>1. \A t \in Tasks : QueueState[tasks'[t].status] =
          IF t \in S THEN "waiting" ELSE QueueState[tasks[t].status]
    BY <1>1, RowStates DEF Submits, Queued, TypeOK, TaskRow
  <2>2. \A t \in S : QueueState[tasks[t].status] = "new"
    BY <1>1, RowStates DEF Submits
  <2>3. Queue!Submit(S)
    BY <1>1, <2>1 DEF Queue!Submit
  <2>4. S \in SUBSET Queue!New
    BY <2>2 DEF Queue!New
  <2>5. QED
    BY <2>3, <2>4 DEF Queue!Next
<1>2. ASSUME NEW S \in SUBSET Tasks, InHand' = InHand, Cancels(S)
      PROVE  Queue!Next
  <2>1. \A t \in Tasks : QueueState[tasks'[t].status] =
          IF t \in S THEN "canceled" ELSE QueueState[tasks[t].status]
    BY <1>2, RowStates DEF Cancels, Canceled, TypeOK, TaskRow
  <2>2. S \in SUBSET Queue!Cancelable
    BY <1>2, RowStates DEF Cancels, Queue!Cancelable
  <2>3. Queue!Cancel(S)
    BY <1>2, <2>1 DEF Queue!Cancel
  <2>4. QED
    BY <2>2, <2>3 DEF Queue!Next
<1>3. CASE InHand' = InHand /\ OverrideContinue
  <2> DEFINE S == {t \in Tasks : tasks[t].stopped}
  <2>1. \A t \in S : tasks[t].status = "canceled" /\ t \notin InHand
    BY DEF HandsInv, StoppedAreFree
  <2>2. \A t \in Tasks : tasks'[t].status =
          IF t \in S THEN "queued" ELSE tasks[t].status
    BY <1>3, <2>1 DEF OverrideContinue, Revived, Queued, TypeOK, TaskRow
  <2>3. \A t \in Tasks : QueueState[tasks'[t].status] =
          IF t \in S THEN "waiting" ELSE QueueState[tasks[t].status]
    BY <2>2, RowStates
  <2>4. \A t \in S : /\ QueueState[tasks[t].status] = "canceled"
                     /\ t \notin InHand
    BY <2>1, RowStates
  <2>5. S \in SUBSET Tasks
    OBVIOUS
  <2> HIDE DEF S
  <2>6. QED
    BY <1>3, <2>3, <2>4, <2>5, Revives
<1>4. ASSUME NEW t \in Tasks, Take(t) PROVE Queue!Next
  <2>1. InHand' = InHand \union {t} /\ t \notin InHand
    <3>1. hand'[t].at # "idle" /\ \A u \in Tasks \ {t} : hand'[u] = hand[u]
      BY <1>4 DEF Take, FirstStage, TypeOK
    <3>2. QED
      BY <1>4, <3>1 DEF Take, InHand
  <2>2. QueueState[tasks[t].status] \in {"waiting", "taken"}
    BY <1>4, RowStates DEF Take
  <2>3. /\ tasks'[t].status = "running"
        /\ \A u \in Tasks \ {t} : tasks'[u] = tasks[u]
    BY <1>4 DEF Take, TypeOK, TaskRow
  <2>4. \A u \in Tasks : QueueState[tasks'[u].status] =
          IF u = t THEN "taken" ELSE QueueState[tasks[u].status]
    BY <2>3, RowStates
  <2>5. Queue!Free(t)
    BY DEF Queue!Free, InHand
  <2>6. Queue!Take(t)
    BY <2>1, <2>2, <2>4, <2>5 DEF Queue!Take
  <2>7. QED
    BY <2>6 DEF Queue!Next
<1>5. QED
  BY <1>1, <1>2, <1>3, <1>4, LosesHands, SettleFinishes, StepShape

\* Every behaviour of an investigation is one of the queue: a task is submitted
\* once, whatever an orchestrator that runs again plans, is in one worker's
\* hands at a time, and comes back from a cancel only by a person or by the
\* worker that had it.
THEOREM InvestigationUsesQueue == Spec => UsesQueue
<1>1. Init => Queue!Init
  <2> SUFFICES ASSUME Init PROVE Queue!Init
    OBVIOUS
  <2>1. InHand = {}
    BY DEF Init, InHand, Idle
  <2>2. \A t \in Tasks : QueueState[tasks[t].status] = "new"
    BY RowStates DEF Init, NoTask
  <2>3. QED
    BY <2>1, <2>2 DEF Queue!Init
<1>2. TypeOK /\ HandsInv /\ [Next]_vars => [Queue!Next]_(Queue!vars)
  BY UsesQueueStep
<1>3. QED
  BY <1>1, <1>2, HandsInvHolds, TypeCorrect, PTL DEF Spec, UsesQueue, Queue!Spec
=============================================================================
