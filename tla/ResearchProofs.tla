--------------------------- MODULE ResearchProofs ---------------------------
(***************************************************************************)
(* What a research flow keeps for every plan, any number of investigations *)
(* that share themes, concepts and questions, and any number of faults.    *)
(*                                                                         *)
(* The argument: a task in hand has a running row, so what is settled is   *)
(* in nobody's hands and stays settled; the tasks of one plan are created  *)
(* together and so grow old together; and one key has one task in hand.    *)
(***************************************************************************)
EXTENDS Research, HandlerTaskProofs

LEMMA ResearchRows ==
  ASSUME NEW r \in Row(MaxAttempts), NEW finish
  PROVE  /\ Enqueued(r) \in Row(MaxAttempts)
         /\ Claimed(r, MaxAttempts) \in Row(MaxAttempts)
         /\ Succeeded(r) \in Row(MaxAttempts)
         /\ Failed(r, MaxAttempts) \in Row(MaxAttempts)
         /\ Unsuccessful(r, finish, MaxAttempts) \in Row(MaxAttempts)
  BY RowType, ResearchAssumption

LEMMA ResearchHands ==
  /\ Idle \in Hand({"start", "edit", "write"})
  /\ \A stage \in {"start", "edit", "write"} :
       Stage(stage) \in Hand({"start", "edit", "write"})
  /\ \A finish \in Finishes : Returned(finish) \in Hand({"start", "edit", "write"})
  BY HandType

LEMMA TaskTypes ==
  /\ \A h \in Investigations :
       \A kind \in {"research", "gather", "screen", "memo"} : Task(kind, h) \in Tasks
  /\ \A h \in Investigations, n \in Nodes : NodeTask("compile", h, n) \in Tasks
  /\ \A h \in Investigations, n \in Questions : NodeTask("answer", h, n) \in Tasks
  BY DEF Tasks

LEMMA ResearchTypeInit == Init => TypeOK
<1> SUFFICES ASSUME Init PROVE TypeOK
  OBVIOUS
<1>1. NoRow \in Row(MaxAttempts)
  BY NoRowType, ResearchAssumption
<1>2. Enqueued(NoRow) \in Row(MaxAttempts)
  BY <1>1, ResearchRows
<1>3. row \in [Tasks -> Row(MaxAttempts)]
  BY <1>1, <1>2 DEF Init
<1>4. hand \in [Tasks -> Hand({"start", "edit", "write"})]
  BY ResearchHands DEF Init
<1> QED
  BY <1>3, <1>4, ResearchAssumption DEF Init, TypeOK, NodeTexts

\* A handler that returns leaves its hand and the count of faults in order.
LEMMA ReturnsType ==
  ASSUME TypeOK, NEW t \in Tasks, NEW finish \in Finishes, Returns(t, finish)
  PROVE  /\ hand' \in [Tasks -> Hand({"start", "edit", "write"})]
         /\ faults' \in 0..MaxFaults
<1>1. faults' \in 0..MaxFaults
  BY ResearchAssumption DEF Returns, Fault, TypeOK
<1>2. hand' \in [Tasks -> Hand({"start", "edit", "write"})]
  BY ResearchHands DEF Returns, TypeOK
<1> QED
  BY <1>1, <1>2

LEMMA GotoType ==
  ASSUME TypeOK, NEW t \in Tasks, NEW stage \in {"start", "edit", "write"},
         Goto(t, stage)
  PROVE  hand' \in [Tasks -> Hand({"start", "edit", "write"})]
  BY ResearchHands DEF Goto, TypeOK

LEMMA TakeType ==
  ASSUME TypeOK, NEW t \in Tasks, Take(t)
  PROVE  TypeOK'
<1>1. row' \in [Tasks -> Row(MaxAttempts)]
  BY ResearchRows DEF Take, TypeOK
<1>2. hand' \in [Tasks -> Hand({"start", "edit", "write"})]
  BY GotoType DEF Take
<1> QED
  BY <1>1, <1>2 DEF Take, TypeOK

LEMMA SettleType ==
  ASSUME TypeOK, NEW t \in Tasks, Settle(t)
  PROVE  TypeOK'
<1>1. row' \in [Tasks -> Row(MaxAttempts)]
  BY ResearchRows DEF Settle, TypeOK
<1>2. hand' \in [Tasks -> Hand({"start", "edit", "write"})]
  BY ResearchHands DEF Settle, TypeOK
<1> QED
  BY <1>1, <1>2 DEF Settle, TypeOK

LEMMA StepType ==
  ASSUME TypeOK, NEW h \in Investigations, Step(h)
  PROVE  TypeOK'
<1> USE TaskTypes
<1>1. PICK finish \in Ends :
        \/ \E plan \in Plan : OrchestrateResearch(h, plan, finish)
        \/ GatherSources(h, finish)
        \/ \E n \in Nodes : EnsureSkeleton(h, n)
        \/ \E n \in Questions : ReadQuestion(h, n)
        \/ \E chosen \in SUBSET Tickers : ScreenCompanies(h, chosen, finish)
  BY DEF Step
<1>2. finish \in Finishes /\ "failed" \in Finishes
  BY DEF Ends, Finishes
<1>3. ASSUME NEW plan \in Plan, OrchestrateResearch(h, plan, finish) PROVE TypeOK'
  <2>1. row' \in [Tasks -> Row(MaxAttempts)]
    BY <1>3, ResearchRows DEF OrchestrateResearch, TypeOK
  <2>2. plans' \in [Investigations -> 0..2]
    BY <1>3 DEF OrchestrateResearch, TypeOK
  <2>3. hand' \in [Tasks -> Hand({"start", "edit", "write"})] /\ faults' \in 0..MaxFaults
    BY <1>2, <1>3, ReturnsType DEF OrchestrateResearch
  <2> QED
    BY <1>3, <2>1, <2>2, <2>3 DEF OrchestrateResearch, TypeOK
<1>4. CASE GatherSources(h, finish)
  BY <1>2, <1>4, ReturnsType DEF GatherSources, TypeOK
<1>5. ASSUME NEW n \in Nodes, EnsureSkeleton(h, n) PROVE TypeOK'
  <2>1. node' \in [Nodes -> NodeTexts]
    BY <1>5 DEF EnsureSkeleton, TypeOK, NodeTexts
  <2>2. hand' \in [Tasks -> Hand({"start", "edit", "write"})]
    BY <1>5, GotoType DEF EnsureSkeleton
  <2> QED
    BY <1>5, <2>1, <2>2 DEF EnsureSkeleton, TypeOK
<1>6. ASSUME NEW n \in Questions, ReadQuestion(h, n) PROVE TypeOK'
  <2>1. hand' \in [Tasks -> Hand({"start", "edit", "write"})] /\ faults' \in 0..MaxFaults
    BY <1>2, <1>6, ReturnsType, GotoType DEF ReadQuestion, TypeOK
  <2> QED
    BY <1>6, <2>1 DEF ReadQuestion, TypeOK
<1>7. ASSUME NEW chosen \in SUBSET Tickers, ScreenCompanies(h, chosen, finish)
      PROVE  TypeOK'
  <2>1. dives' \subseteq Tickers \X Investigations
    BY <1>7 DEF ScreenCompanies, TypeOK
  <2> QED
    BY <1>2, <1>7, <2>1, ReturnsType DEF ScreenCompanies, TypeOK
<1> QED
  BY <1>1, <1>3, <1>4, <1>5, <1>6, <1>7

LEMMA MemoStepType ==
  ASSUME TypeOK, NEW h \in Investigations, MemoStep(h)
  PROVE  TypeOK'
<1> USE TaskTypes
<1>1. CASE Take(Task("memo", h)) \/ Settle(Task("memo", h))
  BY <1>1, TakeType, SettleType
<1>2. CASE SiblingsGate(h)
  <2>1. hand' \in [Tasks -> Hand({"start", "edit", "write"})]
    BY <1>2, GotoType, ResearchHands DEF SiblingsGate, TypeOK, Finishes
  <2> QED
    BY <1>2, <2>1 DEF SiblingsGate, TypeOK
<1>3. ASSUME NEW finish \in Ends, WriteMemo(h, finish) PROVE TypeOK'
  BY <1>3, ReturnsType DEF WriteMemo, TypeOK, Ends, Finishes
<1> QED
  BY <1>1, <1>2, <1>3 DEF MemoStep

LEMMA ResearchTypeStep == TypeOK /\ [Next]_vars => TypeOK'
<1> SUFFICES ASSUME TypeOK, [Next]_vars PROVE TypeOK'
  OBVIOUS
<1>1. ASSUME NEW t \in Tasks, Take(t) \/ Settle(t) PROVE TypeOK'
  BY <1>1, TakeType, SettleType
<1>2. ASSUME NEW t \in Tasks, RateLimited(t) PROVE TypeOK'
  BY <1>2, ReturnsType DEF RateLimited, TypeOK, Finishes
<1>3. ASSUME NEW t \in Tasks, HandlerRaises(t) PROVE TypeOK'
  <2>1. hand' \in [Tasks -> Hand({"start", "edit", "write"})]
    BY <1>3, ResearchHands DEF HandlerRaises, TypeOK, Finishes
  <2> QED
    BY <1>3, <2>1, ResearchAssumption DEF HandlerRaises, Fault, TypeOK
<1>4. ASSUME NEW t \in Tasks, NEW text \in NodeTexts \ {"missing"}, NEW finish \in Ends,
             EditNode(t, text, finish)
      PROVE  TypeOK'
  <2>1. node' \in [Nodes -> NodeTexts]
    BY <1>4 DEF EditNode, TypeOK
  <2> QED
    BY <1>4, <2>1, ReturnsType DEF EditNode, TypeOK, Ends, Finishes
<1>5. ASSUME NEW h \in Investigations, MemoStep(h) PROVE TypeOK'
  BY <1>5, MemoStepType
<1>6. ASSUME NEW h \in Investigations, Step(h) PROVE TypeOK'
  BY <1>6, StepType
<1>7. ASSUME NEW h \in Investigations, Later(h) PROVE TypeOK'
  BY <1>7 DEF Later, TypeOK, Siblings
<1>8. CASE Crash
  BY <1>8, ResearchHands, ResearchAssumption DEF Crash, Fault, TypeOK
<1>9. CASE UNCHANGED vars
  BY <1>9 DEF vars, TypeOK
<1> QED
  BY <1>1, <1>2, <1>3, <1>4, <1>5, <1>6, <1>7, <1>8, <1>9 DEF Next

\* Every reachable state of a research flow has the types of its tasks, files and
\* dives (orchestrate_research.py, compile_research_node.py, worker.py).
THEOREM TypeCorrect == Spec => []TypeOK
<1>1. Spec => []TypeOK
  BY ResearchTypeInit, ResearchTypeStep, PTL DEF Spec
<1> QED
  BY <1>1

-----------------------------------------------------------------------------
(* One key, one hand *)

\* Of two tasks with one key one is in nobody's hands.
Exclusive ==
  \A t, u \in Tasks :
    t # u /\ ResourceKey(t) = ResourceKey(u) => At(t, "idle") \/ At(u, "idle")

\* Only a compile or an answer has the file of a node.
EditsHaveNodes == \A t \in Tasks : At(t, "edit") => t.kind \in {"compile", "answer"}

\* The task t, which was taken before, goes on.
GoesOn(t) ==
  /\ ~At(t, "idle")
  /\ \E x \in Hand({"start", "edit", "write"}) :
       /\ hand' = [hand EXCEPT ![t] = x]
       /\ x.at = "edit" => t.kind \in {"compile", "answer"}

LEMMA ReturnGoesOn ==
  ASSUME TypeOK, NEW t \in Tasks, ~At(t, "idle"), NEW finish \in Finishes,
         hand' = [hand EXCEPT ![t] = Returned(finish)]
  PROVE  GoesOn(t)
<1>1. Returned(finish).at = "settle"
  BY DEF Returned
<1> QED
  BY <1>1, ResearchHands DEF GoesOn

LEMMA GotoGoesOn ==
  ASSUME TypeOK, NEW t \in Tasks, ~At(t, "idle"),
         NEW stage \in {"start", "edit", "write"}, Goto(t, stage),
         stage = "edit" => t.kind \in {"compile", "answer"}
  PROVE  GoesOn(t)
<1>1. Stage(stage).at = stage
  BY DEF Stage
<1> QED
  BY <1>1, ResearchHands DEF GoesOn, Goto

LEMMA StepGoesOn ==
  ASSUME TypeOK, NEW h \in Investigations, Step(h)
  PROVE  \E t \in Tasks : GoesOn(t)
<1> USE TaskTypes
<1>1. PICK finish \in Ends :
        \/ \E plan \in Plan : OrchestrateResearch(h, plan, finish)
        \/ GatherSources(h, finish)
        \/ \E n \in Nodes : EnsureSkeleton(h, n)
        \/ \E n \in Questions : ReadQuestion(h, n)
        \/ \E chosen \in SUBSET Tickers : ScreenCompanies(h, chosen, finish)
  BY DEF Step
<1>2. finish \in Finishes /\ "failed" \in Finishes
  BY DEF Ends, Finishes
<1>3. ASSUME NEW plan \in Plan, OrchestrateResearch(h, plan, finish)
      PROVE  GoesOn(Task("research", h))
  BY <1>2, <1>3, ReturnGoesOn DEF OrchestrateResearch, Returns, At
<1>4. ASSUME GatherSources(h, finish) PROVE GoesOn(Task("gather", h))
  BY <1>2, <1>4, ReturnGoesOn DEF GatherSources, Returns, At
<1>5. ASSUME NEW n \in Nodes, EnsureSkeleton(h, n) PROVE GoesOn(NodeTask("compile", h, n))
  BY <1>5, GotoGoesOn DEF EnsureSkeleton, At, NodeTask
<1>6. ASSUME NEW n \in Questions, ReadQuestion(h, n) PROVE GoesOn(NodeTask("answer", h, n))
  <2>1. ~At(NodeTask("answer", h, n), "idle")
    BY <1>6 DEF ReadQuestion, At
  <2>2. n \in Nodes /\ NodeTask("answer", h, n).kind = "answer"
    BY DEF Questions, NodeTask
  <2>3. CASE node[n] = "missing"
    BY <1>2, <1>6, <2>1, <2>3, ReturnGoesOn DEF ReadQuestion, Returns
  <2>4. CASE node[n] # "missing"
    BY <1>6, <2>1, <2>2, <2>4, GotoGoesOn DEF ReadQuestion
  <2> QED
    BY <2>3, <2>4
<1>7. ASSUME NEW chosen \in SUBSET Tickers, ScreenCompanies(h, chosen, finish)
      PROVE  GoesOn(Task("screen", h))
  BY <1>2, <1>7, ReturnGoesOn DEF ScreenCompanies, Returns, At
<1> QED
  BY <1>1, <1>3, <1>4, <1>5, <1>6, <1>7

\* A step takes a task, goes on with one, or leaves hands alone or idle.
LEMMA HandStep ==
  ASSUME TypeOK, Next
  PROVE  \/ \E t \in Tasks : Take(t) \/ GoesOn(t)
         \/ UNCHANGED hand
         \/ hand' = [t \in Tasks |-> Idle]
<1> USE TaskTypes
<1>1. ASSUME NEW t \in Tasks, RateLimited(t) PROVE GoesOn(t)
  BY <1>1, ReturnGoesOn DEF RateLimited, Returns, At, Finishes
<1>2. ASSUME NEW t \in Tasks, HandlerRaises(t) PROVE GoesOn(t)
  BY <1>2, ReturnGoesOn DEF HandlerRaises, At, Finishes
<1>3. ASSUME NEW t \in Tasks, Settle(t) PROVE GoesOn(t)
  <2>1. Idle.at = "idle" /\ Idle \in Hand({"start", "edit", "write"})
    BY ResearchHands DEF Idle
  <2> QED
    BY <1>3, <2>1 DEF Settle, GoesOn, At
<1>4. ASSUME NEW t \in Tasks, NEW text \in NodeTexts \ {"missing"}, NEW finish \in Ends,
             EditNode(t, text, finish)
      PROVE  GoesOn(t)
  BY <1>4, ReturnGoesOn DEF EditNode, Returns, At, Ends, Finishes
<1>5. ASSUME NEW h \in Investigations, SiblingsGate(h) PROVE GoesOn(Task("memo", h))
  <2>1. ~At(Task("memo", h), "idle") /\ "transient" \in Finishes
    BY <1>5 DEF SiblingsGate, At, Finishes
  <2>2. CASE hand' = [hand EXCEPT ![Task("memo", h)] = Returned("transient")]
    BY <2>1, <2>2, ReturnGoesOn
  <2>3. CASE Goto(Task("memo", h), "write")
    BY <2>1, <2>3, GotoGoesOn
  <2> QED
    BY <1>5, <2>2, <2>3 DEF SiblingsGate
<1>6. ASSUME NEW h \in Investigations, NEW finish \in Ends, WriteMemo(h, finish)
      PROVE  GoesOn(Task("memo", h))
  BY <1>6, ReturnGoesOn DEF WriteMemo, Returns, At, Ends, Finishes
<1>7. ASSUME NEW h \in Investigations, MemoStep(h)
      PROVE  \E t \in Tasks : Take(t) \/ GoesOn(t)
  BY <1>3, <1>5, <1>6, <1>7 DEF MemoStep
<1>8. ASSUME NEW h \in Investigations, Later(h) PROVE UNCHANGED hand
  BY <1>8 DEF Later
<1> QED
  BY <1>1, <1>2, <1>3, <1>4, <1>7, <1>8, StepGoesOn DEF Next, Crash

LEMMA ExclusiveStep ==
  ASSUME TypeOK, Exclusive, EditsHaveNodes, [Next]_vars
  PROVE  Exclusive' /\ EditsHaveNodes'
<1>1. Idle.at = "idle" /\ Stage("start").at = "start"
  BY DEF Idle, Stage
<1>2. ASSUME NEW t \in Tasks, Take(t) PROVE Exclusive' /\ EditsHaveNodes'
  <2>1. /\ hand' = [hand EXCEPT ![t] = Stage("start")]
        /\ \A u \in Tasks : ResourceKey(u) = ResourceKey(t) => At(u, "idle")
    BY <1>2 DEF Take, Goto
  <2>2. \A u \in Tasks : u # t => hand'[u] = hand[u]
    BY <2>1 DEF TypeOK
  <2>3. hand'[t].at = "start"
    BY <1>1, <2>1 DEF TypeOK
  <2>4. EditsHaveNodes'
    BY <2>2, <2>3 DEF EditsHaveNodes, At
  <2>5. ASSUME NEW u \in Tasks, NEW v \in Tasks, u # v,
               ResourceKey(u) = ResourceKey(v)
        PROVE  hand'[u].at = "idle" \/ hand'[v].at = "idle"
    BY <2>1, <2>2, <2>5 DEF Exclusive, At
  <2> QED
    BY <2>4, <2>5 DEF Exclusive, At, ResourceKey
<1>3. ASSUME NEW t \in Tasks, GoesOn(t) PROVE Exclusive' /\ EditsHaveNodes'
  <2>1. PICK x \in Hand({"start", "edit", "write"}) :
          /\ hand' = [hand EXCEPT ![t] = x]
          /\ x.at = "edit" => t.kind \in {"compile", "answer"}
    BY <1>3 DEF GoesOn
  <2>2. /\ \A u \in Tasks : u # t => hand'[u] = hand[u]
        /\ hand'[t] = x
    BY <2>1 DEF TypeOK
  <2>3. EditsHaveNodes'
    BY <2>1, <2>2 DEF EditsHaveNodes, At
  <2>4. ASSUME NEW u \in Tasks, NEW v \in Tasks, u # v,
               ResourceKey(u) = ResourceKey(v)
        PROVE  hand'[u].at = "idle" \/ hand'[v].at = "idle"
    BY <1>3, <2>2, <2>4 DEF Exclusive, At, GoesOn
  <2> QED
    BY <2>3, <2>4 DEF Exclusive, At, ResourceKey
<1>4. CASE UNCHANGED hand
  BY <1>4 DEF Exclusive, EditsHaveNodes, At, ResourceKey
<1>5. CASE hand' = [t \in Tasks |-> Idle]
  BY <1>1, <1>5 DEF Exclusive, EditsHaveNodes, At, ResourceKey
<1>6. CASE UNCHANGED vars
  BY <1>4, <1>6 DEF vars
<1> QED
  BY <1>2, <1>3, <1>4, <1>5, <1>6, HandStep

LEMMA ExclusiveKeepsNodes ==
  ASSUME Exclusive, EditsHaveNodes PROVE NodeEditedByOne
<1> SUFFICES ASSUME NEW t \in Tasks, NEW u \in Tasks, t # u, t.node = u.node,
                    At(t, "edit"), At(u, "edit")
             PROVE  FALSE
  BY DEF NodeEditedByOne
<1>1. ResourceKey(t) = ResourceKey(u)
  BY DEF EditsHaveNodes, ResourceKey
<1> QED
  BY <1>1 DEF Exclusive, At

\* No theme, concept or question is ever edited by two tasks at a time, whatever
\* the plans share (enqueue.py _resource_key_for, handlers/compile_research_node.py,
\* handlers/answer_question.py).
THEOREM NodesEditedByOne == Spec => []NodeEditedByOne
<1>1. Init => Exclusive /\ EditsHaveNodes
  BY DEF Init, Exclusive, EditsHaveNodes, At, Idle
<1>2. TypeOK /\ Exclusive /\ EditsHaveNodes /\ [Next]_vars => (Exclusive /\ EditsHaveNodes)'
  BY ExclusiveStep
<1>3. Exclusive /\ EditsHaveNodes => NodeEditedByOne
  BY ExclusiveKeepsNodes
<1> QED
  BY <1>1, <1>2, <1>3, TypeCorrect, PTL DEF Spec

-----------------------------------------------------------------------------
(* The memo comes last *)

Present(t) == row[t].status # "absent"

\* What is in hand is running.
InHandIsRunning == \A t \in Tasks : ~At(t, "idle") => row[t].status = "running"

\* Nothing of an investigation is there before its plan is.
PlanComesFirst ==
  \A h \in Investigations :
    plans[h] = 0 =>
      /\ ~Present(Task("memo", h))
      /\ \A t \in Siblings(h) : ~Present(t) /\ t \notin old

\* What one plan created grows old together.
CreatedTogether ==
  \A h \in Investigations :
    plans[h] = 1 =>
      \A t, u \in Siblings(h) : Present(t) /\ Present(u) => (t \in old <=> u \in old)

MemoInv == InHandIsRunning /\ PlanComesFirst /\ CreatedTogether /\ MemoComesLast

\* A row in hand becomes one that is not running, or stays.
LEMMA RowFacts ==
  ASSUME NEW r \in Row(MaxAttempts), NEW finish
  PROVE  /\ Claimable(r) => r.status # "absent" /\ ~Settled(r)
         /\ r.status = "running" => ~Settled(r)
         /\ Claimed(r, MaxAttempts).status = "running"
         /\ Enqueued(r).status # "absent"
         /\ r.status # "absent" => Enqueued(r) = r
         /\ r.status # "absent" => Succeeded(r).status # "absent"
         /\ r.status # "absent" => Failed(r, MaxAttempts).status # "absent"
         /\ r.status # "absent" => Unsuccessful(r, finish, MaxAttempts).status # "absent"
         /\ r.status \notin {"absent", "queued", "running"} => Settled(r)
<1>1. /\ Succeeded(r).status = "success"
      /\ Failed(r, MaxAttempts).status \in {"queued", "dead_letter"}
      /\ Unsuccessful(r, finish, MaxAttempts).status \in {"queued", "dead_letter"}
  BY SettledStatus, ResearchAssumption
<1>2. /\ Claimable(r) => r.status # "absent" /\ ~Settled(r)
      /\ Claimed(r, MaxAttempts).status = "running"
  BY ClaimedStatus, ResearchAssumption
<1>3. /\ r.status # "absent" => Enqueued(r) = r
      /\ Enqueued(r).status # "absent"
  BY EnqueuedStatus, ResearchAssumption
<1>4. /\ r.status = "running" => ~Settled(r)
      /\ r.status \notin {"absent", "queued", "running"} => Settled(r)
  BY StatusCases, ResearchAssumption
<1> QED
  BY <1>1, <1>2, <1>3, <1>4

\* A step that creates nothing: one row, there before and not settled, changes,
\* and no memo begins to be written.
Quiet(t) ==
  /\ \A u \in Tasks : u # t => row'[u] = row[u] /\ (~At(u, "idle"))' = ~At(u, "idle")
  /\ \A h \in Investigations :
       At(Task("memo", h), "write")' => At(Task("memo", h), "write")
  /\ row'[t] # row[t] => Present(t) /\ ~Settled(row[t]) /\ Present(t)'
  /\ (~At(t, "idle"))' => (row[t].status = "running")'
  /\ UNCHANGED <<plans, old>>

LEMMA QuietStep ==
  ASSUME TypeOK, MemoInv, NEW t \in Tasks, Quiet(t)
  PROVE  MemoInv'
<1>1. UNCHANGED <<plans, old>>
  BY DEF Quiet
<1>2. \A u \in Tasks : row'[u] # row[u] => Present(u) /\ ~Settled(row[u]) /\ Present(u)'
  BY DEF Quiet
<1>3. \A u \in Tasks : Present(u)' <=> Present(u)
  BY <1>2 DEF Present
<1>4. InHandIsRunning'
  BY DEF Quiet, MemoInv, InHandIsRunning
<1>5. PlanComesFirst'
  BY <1>1, <1>3, TaskTypes DEF MemoInv, PlanComesFirst, Siblings
<1>6. CreatedTogether'
  BY <1>1, <1>3 DEF MemoInv, CreatedTogether, Siblings
<1>7. MemoComesLast'
  <2> SUFFICES ASSUME NEW h \in Investigations, plans'[h] = 1,
                      At(Task("memo", h), "write")', NEW u \in Siblings(h)
               PROVE  row'[u].status = "absent" \/ Settled(row'[u]) \/ u \in old'
    BY DEF MemoComesLast, Siblings, At
  <2>1. u \in Tasks
    BY DEF Siblings
  <2>2. plans[h] = 1 /\ At(Task("memo", h), "write")
    BY <1>1 DEF Quiet
  <2>3. row[u].status = "absent" \/ Settled(row[u]) \/ u \in old
    BY <2>2 DEF MemoInv, MemoComesLast
  <2>4. row'[u] = row[u] \/ u \in old
    BY <1>2, <2>1, <2>3 DEF Present
  <2> QED
    BY <1>1, <2>3, <2>4
<1> QED
  BY <1>4, <1>5, <1>6, <1>7 DEF MemoInv

\* A handler that goes on with its task changes no row.
LEMMA GoesOnQuietly ==
  ASSUME TypeOK, MemoInv, NEW t \in Tasks, GoesOn(t), UNCHANGED <<row, plans, old>>,
         \A h \in Investigations : t = Task("memo", h) => ~At(t, "write")'
  PROVE  Quiet(t)
<1>1. PICK x \in Hand({"start", "edit", "write"}) : hand' = [hand EXCEPT ![t] = x]
  BY DEF GoesOn
<1>2. \A u \in Tasks : u # t => hand'[u] = hand[u]
  BY <1>1 DEF TypeOK
<1>3. row[t].status = "running"
  BY DEF GoesOn, MemoInv, InHandIsRunning
<1> QED
  BY <1>2, <1>3, TaskTypes DEF Quiet, At

LEMMA TakeQuietly ==
  ASSUME TypeOK, NEW t \in Tasks, Take(t)
  PROVE  Quiet(t)
<1>1. /\ hand' = [hand EXCEPT ![t] = Stage("start")]
      /\ row' = [row EXCEPT ![t] = Claimed(row[t], MaxAttempts)]
      /\ UNCHANGED <<plans, old>>
      /\ Claimable(row[t])
  BY DEF Take, Goto
<1>2. row[t] \in Row(MaxAttempts)
  BY DEF TypeOK
<1>3. /\ \A u \in Tasks : u # t => hand'[u] = hand[u] /\ row'[u] = row[u]
      /\ hand'[t] = Stage("start") /\ row'[t] = Claimed(row[t], MaxAttempts)
  BY <1>1 DEF TypeOK
<1>4. Present(t) /\ ~Settled(row[t]) /\ row'[t].status = "running"
  BY <1>1, <1>2, <1>3, RowFacts DEF Present
<1>5. hand'[t].at = "start"
  BY <1>3 DEF Stage
<1> QED
  BY <1>1, <1>3, <1>4, <1>5, TaskTypes DEF Quiet, At, Present

LEMMA SettleQuietly ==
  ASSUME TypeOK, MemoInv, NEW t \in Tasks, Settle(t)
  PROVE  Quiet(t)
<1>1. PICK fit \in BOOLEAN :
        row' = [row EXCEPT ![t] =
          IF hand[t].finish # "ok" THEN Unsuccessful(row[t], hand[t].finish, MaxAttempts)
          ELSE IF Valid(t, fit) THEN Succeeded(row[t])
          ELSE Failed(row[t], MaxAttempts)]
  BY DEF Settle
<1>2. hand' = [hand EXCEPT ![t] = Idle] /\ UNCHANGED <<plans, old>> /\ At(t, "settle")
  BY DEF Settle
<1>3. row[t] \in Row(MaxAttempts) /\ row[t].status = "running"
  BY <1>2 DEF TypeOK, MemoInv, InHandIsRunning, At
<1>4. row'[t] \in {Unsuccessful(row[t], hand[t].finish, MaxAttempts),
                   Succeeded(row[t]), Failed(row[t], MaxAttempts)}
  BY <1>1 DEF TypeOK
<1>5. Present(t) /\ ~Settled(row[t]) /\ row'[t].status # "absent"
  BY <1>3, <1>4, RowFacts DEF Present
<1>6. \A u \in Tasks : u # t => hand'[u] = hand[u] /\ row'[u] = row[u]
  BY <1>1, <1>2 DEF TypeOK
<1>7. hand'[t].at = "idle"
  BY <1>2 DEF TypeOK, Idle
<1> QED
  BY <1>2, <1>5, <1>6, <1>7, TaskTypes DEF Quiet, At, Present

\* The plan of an investigation creates what its memo waits for.
LEMMA OrchestrateKeeps ==
  ASSUME TypeOK, MemoInv, NEW h \in Investigations, NEW plan \in Plan,
         NEW finish \in Ends, OrchestrateResearch(h, plan, finish)
  PROVE  MemoInv'
<1> DEFINE q == Task("research", h)
<1>1. /\ hand' = [hand EXCEPT ![q] = Returned(finish)] /\ ~At(q, "idle")
      /\ row' = [u \in Tasks |-> IF u \in PhaseTasks(h, plan) THEN Enqueued(row[u]) ELSE row[u]]
      /\ plans' = [plans EXCEPT ![h] = IF plans[h] = 2 THEN 2 ELSE plans[h] + 1]
      /\ UNCHANGED old
  BY DEF OrchestrateResearch, Returns, At
<1>2. q \in Tasks /\ \A g \in Investigations : q # Task("memo", g)
  BY DEF Tasks, Task
<1>3. \A u \in Tasks : u # q => hand'[u] = hand[u]
  BY <1>1 DEF TypeOK
<1>4. \A u \in Tasks : Present(u) => row'[u] = row[u]
  <2> SUFFICES ASSUME NEW u \in Tasks, Present(u) PROVE row'[u] = row[u]
    OBVIOUS
  <2>1. Enqueued(row[u]) = row[u]
    BY RowFacts DEF TypeOK, Present
  <2> QED
    BY <1>1, <2>1
<1>5. \A u \in Tasks : u.of # h => row'[u] = row[u]
  BY <1>1 DEF PhaseTasks, Task, NodeTask
<1>6. InHandIsRunning'
  <2>1. \A u \in Tasks : ~At(u, "idle") => row'[u].status = "running"
    BY <1>4 DEF MemoInv, InHandIsRunning, Present
  <2>2. \A u \in Tasks : At(u, "idle")' \/ ~At(u, "idle")
    BY <1>1, <1>3 DEF At
  <2> QED
    BY <2>1, <2>2 DEF InHandIsRunning
<1>7. plans'[h] # 0 /\ (plans'[h] = 1 => plans[h] = 0)
      /\ \A g \in Investigations : g # h => plans'[g] = plans[g]
  BY <1>1 DEF TypeOK
<1>8. \A g \in Investigations : g # h =>
        /\ row'[Task("memo", g)] = row[Task("memo", g)]
        /\ \A u \in Siblings(g) : row'[u] = row[u]
  BY <1>5, TaskTypes DEF Siblings, Task
<1>9. PlanComesFirst'
  BY <1>1, <1>7, <1>8 DEF MemoInv, PlanComesFirst, Present, Siblings
<1>10. CreatedTogether'
  <2> SUFFICES ASSUME NEW g \in Investigations, plans'[g] = 1,
                      NEW t \in Siblings(g), NEW u \in Siblings(g),
                      Present(t)', Present(u)'
               PROVE  t \in old <=> u \in old
    BY <1>1 DEF CreatedTogether, Siblings
  <2>1. CASE g = h
    BY <1>7, <2>1 DEF MemoInv, PlanComesFirst
  <2>2. CASE g # h
    BY <1>7, <1>8, <2>2 DEF MemoInv, CreatedTogether, Present
  <2> QED
    BY <2>1, <2>2
<1>11. MemoComesLast'
  <2> SUFFICES ASSUME NEW g \in Investigations, plans'[g] = 1,
                      At(Task("memo", g), "write")', NEW u \in Siblings(g)
               PROVE  row'[u].status = "absent" \/ Settled(row'[u]) \/ u \in old'
    BY DEF MemoComesLast, Siblings, At
  <2>1. At(Task("memo", g), "write")
    BY <1>2, <1>3, TaskTypes DEF At
  <2>2. CASE g = h
    BY <1>7, <2>1, <2>2, TaskTypes DEF MemoInv, PlanComesFirst, InHandIsRunning, At, Present
  <2>3. CASE g # h
    BY <1>1, <1>7, <1>8, <2>1, <2>3 DEF MemoInv, MemoComesLast
  <2> QED
    BY <2>2, <2>3
<1> QED
  BY <1>6, <1>9, <1>10, <1>11 DEF MemoInv

\* The gate opens when all are settled, or one is old and then all are.
LEMMA GateKeeps ==
  ASSUME TypeOK, MemoInv, NEW h \in Investigations, SiblingsGate(h)
  PROVE  MemoInv'
<1> DEFINE m == Task("memo", h)
<1>1. m \in Tasks /\ ~At(m, "idle") /\ UNCHANGED <<row, plans, old>>
  BY TaskTypes DEF SiblingsGate, At
<1>2. CASE hand' = [hand EXCEPT ![m] = Returned("transient")]
  <2>1. GoesOn(m)
    BY <1>1, <1>2, ReturnGoesOn DEF Finishes
  <2>2. hand'[m].at = "settle"
    BY <1>1, <1>2 DEF TypeOK, Returned
  <2>3. Quiet(m)
    BY <1>1, <2>1, <2>2, GoesOnQuietly DEF At
  <2> QED
    BY <1>1, <2>3, QuietStep
<1>3. CASE /\ Unfinished(h) = {} \/ TimedOut(h)
           /\ hand' = [hand EXCEPT ![m] = Stage("write")]
  <2>1. \A t \in Tasks : t # m => hand'[t] = hand[t]
    BY <1>3 DEF TypeOK
  <2>2. InHandIsRunning'
    BY <1>1, <2>1 DEF MemoInv, InHandIsRunning, At
  <2>3. PlanComesFirst' /\ CreatedTogether'
    BY <1>1 DEF MemoInv, PlanComesFirst, CreatedTogether, Present, Siblings
  <2>4. MemoComesLast'
    <3> SUFFICES ASSUME NEW g \in Investigations, plans[g] = 1,
                        At(Task("memo", g), "write")', NEW t \in Siblings(g)
                 PROVE  row[t].status = "absent" \/ Settled(row[t]) \/ t \in old
      BY <1>1 DEF MemoComesLast, Siblings, At
    <3>1. CASE g # h
      <4>1. Task("memo", g) # m /\ Task("memo", g) \in Tasks
        BY <3>1, TaskTypes DEF Task
      <4>2. At(Task("memo", g), "write")
        BY <2>1, <4>1 DEF At
      <4> QED
        BY <4>2 DEF MemoInv, MemoComesLast
    <3>2. CASE g = h /\ Unfinished(h) = {}
      <4>1. row[t] \in Row(MaxAttempts) /\ row[t].status \notin {"queued", "running"}
        BY <3>2 DEF TypeOK, Unfinished, Siblings
      <4> QED
        BY <4>1, RowFacts
    <3>3. CASE g = h /\ TimedOut(h)
      <4>1. PICK u \in Siblings(h) : Present(u) /\ u \in old
        BY <3>3 DEF TimedOut, Unfinished, Present
      <4> QED
        BY <3>3, <4>1 DEF MemoInv, CreatedTogether, Present
    <3> QED
      BY <1>3, <3>1, <3>2, <3>3
  <2> QED
    BY <2>2, <2>3, <2>4 DEF MemoInv
<1> QED
  BY <1>2, <1>3 DEF SiblingsGate, Goto

LEMMA LaterKeeps ==
  ASSUME TypeOK, MemoInv, NEW h \in Investigations, Later(h)
  PROVE  MemoInv'
<1> DEFINE created == {t \in Siblings(h) : Present(t)}
<1>1. old' = old \union created /\ UNCHANGED <<row, hand, plans>>
  BY DEF Later, Present
<1>2. \A g \in Investigations : g # h => Siblings(g) \intersect created = {}
  BY DEF Siblings
<1>3. InHandIsRunning' /\ MemoComesLast'
  BY <1>1 DEF MemoInv, InHandIsRunning, MemoComesLast, Siblings, At
<1>4. PlanComesFirst'
  BY <1>1 DEF MemoInv, PlanComesFirst, Siblings, Present
<1>5. CreatedTogether'
  <2> SUFFICES ASSUME NEW g \in Investigations, plans[g] = 1,
                      NEW t \in Siblings(g), NEW u \in Siblings(g), Present(t), Present(u)
               PROVE  t \in old' <=> u \in old'
    BY <1>1 DEF CreatedTogether, Siblings, Present
  <2>1. t \in old <=> u \in old
    BY DEF MemoInv, CreatedTogether
  <2> QED
    BY <1>1, <1>2, <2>1
<1> QED
  BY <1>3, <1>4, <1>5 DEF MemoInv

LEMMA MemoInvStep ==
  ASSUME TypeOK, MemoInv, [Next]_vars
  PROVE  MemoInv'
<1> USE TaskTypes
<1>1. ASSUME NEW t \in Tasks, Take(t) \/ Settle(t) PROVE MemoInv'
  BY <1>1, TakeQuietly, SettleQuietly, QuietStep
<1>2. ASSUME NEW t \in Tasks, NEW finish \in Finishes, ~At(t, "idle"),
             hand' = [hand EXCEPT ![t] = Returned(finish)], UNCHANGED <<row, plans, old>>
      PROVE  MemoInv'
  <2>1. GoesOn(t)
    BY <1>2, ReturnGoesOn
  <2>2. hand'[t].at = "settle"
    BY <1>2 DEF TypeOK, Returned
  <2> QED
    BY <1>2, <2>1, <2>2, GoesOnQuietly, QuietStep DEF At
<1>3. ASSUME NEW t \in Tasks, RateLimited(t) PROVE MemoInv'
  BY <1>2, <1>3 DEF RateLimited, Returns, At, Finishes
<1>4. ASSUME NEW t \in Tasks, HandlerRaises(t) PROVE MemoInv'
  BY <1>2, <1>4 DEF HandlerRaises, At, Finishes
<1>5. ASSUME NEW t \in Tasks, NEW text \in NodeTexts \ {"missing"}, NEW finish \in Ends,
             EditNode(t, text, finish)
      PROVE  MemoInv'
  BY <1>2, <1>5 DEF EditNode, Returns, At, Ends, Finishes
<1>6. ASSUME NEW h \in Investigations, MemoStep(h) PROVE MemoInv'
  <2>1. ASSUME NEW finish \in Ends, WriteMemo(h, finish) PROVE MemoInv'
    BY <1>2, <2>1 DEF WriteMemo, Returns, At, Ends, Finishes
  <2> QED
    BY <1>1, <1>6, <2>1, GateKeeps DEF MemoStep
<1>7. ASSUME NEW h \in Investigations, Step(h) PROVE MemoInv'
  <2>1. PICK finish \in Ends :
          \/ \E plan \in Plan : OrchestrateResearch(h, plan, finish)
          \/ GatherSources(h, finish)
          \/ \E n \in Nodes : EnsureSkeleton(h, n)
          \/ \E n \in Questions : ReadQuestion(h, n)
          \/ \E chosen \in SUBSET Tickers : ScreenCompanies(h, chosen, finish)
    BY <1>7 DEF Step
  <2>2. finish \in Finishes /\ "failed" \in Finishes
    BY DEF Ends, Finishes
  <2>3. CASE GatherSources(h, finish)
    BY <1>2, <2>2, <2>3 DEF GatherSources, Returns, At
  <2>4. ASSUME NEW t \in Tasks, ~At(t, "idle"), Goto(t, "edit"),
               UNCHANGED <<row, plans, old>>,
               t.kind \in {"compile", "answer"}
        PROVE  MemoInv'
    <3>1. GoesOn(t)
      BY <2>4, GotoGoesOn
    <3>2. hand'[t].at = "edit"
      BY <2>4 DEF TypeOK, Goto, Stage
    <3> QED
      BY <2>4, <3>1, <3>2, GoesOnQuietly, QuietStep DEF At
  <2>5. ASSUME NEW n \in Nodes, EnsureSkeleton(h, n) PROVE MemoInv'
    BY <2>4, <2>5 DEF EnsureSkeleton, At, NodeTask
  <2>6. ASSUME NEW n \in Questions, ReadQuestion(h, n) PROVE MemoInv'
    <3> DEFINE a == NodeTask("answer", h, n)
    <3>1. ~At(a, "idle") /\ UNCHANGED <<row, plans, old>> /\ a.kind = "answer"
      BY <2>6 DEF ReadQuestion, At, NodeTask
    <3>2. CASE node[n] = "missing"
      BY <1>2, <2>2, <2>6, <3>1, <3>2 DEF ReadQuestion, Returns
    <3>3. CASE node[n] # "missing"
      BY <2>4, <2>6, <3>1, <3>3 DEF ReadQuestion
    <3> QED
      BY <3>2, <3>3
  <2>7. ASSUME NEW chosen \in SUBSET Tickers, ScreenCompanies(h, chosen, finish)
        PROVE  MemoInv'
    BY <1>2, <2>2, <2>7 DEF ScreenCompanies, Returns, At
  <2> QED
    BY <2>1, <2>3, <2>5, <2>6, <2>7, OrchestrateKeeps
<1>8. ASSUME NEW h \in Investigations, Later(h) PROVE MemoInv'
  BY <1>8, LaterKeeps
<1>9. CASE Crash
  <2>1. /\ UNCHANGED <<row, plans, old>>
        /\ \A t \in Tasks : hand'[t].at = "idle"
    BY <1>9 DEF Crash, Idle
  <2>2. InHandIsRunning' /\ MemoComesLast'
    BY <2>1 DEF InHandIsRunning, MemoComesLast, At
  <2>3. PlanComesFirst' /\ CreatedTogether'
    BY <2>1 DEF MemoInv, PlanComesFirst, CreatedTogether, Siblings, Present
  <2> QED
    BY <2>2, <2>3 DEF MemoInv
<1>10. CASE UNCHANGED vars
  BY <1>10 DEF vars, MemoInv, InHandIsRunning, PlanComesFirst, CreatedTogether,
     MemoComesLast, Present, Siblings, At
<1> QED
  BY <1>1, <1>3, <1>4, <1>5, <1>6, <1>7, <1>8, <1>9, <1>10 DEF Next

LEMMA MemoInvInit == Init => MemoInv
<1> SUFFICES ASSUME Init PROVE MemoInv
  OBVIOUS
<1>1. \A t \in Tasks : At(t, "idle")
  BY DEF Init, At, Idle
<1>2. \A t \in Tasks : t.kind # "research" => ~Present(t)
  BY DEF Init, Present, NoRow
<1>3. InHandIsRunning
  BY <1>1 DEF InHandIsRunning
<1>4. PlanComesFirst /\ CreatedTogether /\ MemoComesLast
  BY <1>1, <1>2, TaskTypes
     DEF Init, PlanComesFirst, CreatedTogether, MemoComesLast, Siblings, Task, At
<1> QED
  BY <1>3, <1>4 DEF MemoInv

\* A cross-cutting memo is never written while something of its plan is still to
\* come, unless that is old, for any plans and any number of investigations
\* (synthesize_crosscut_memo.py _siblings_blocking).
THEOREM MemosComeLast == Spec => []MemoComesLast
<1>1. TypeOK /\ MemoInv /\ [Next]_vars => MemoInv'
  BY MemoInvStep
<1>2. MemoInv => MemoComesLast
  BY DEF MemoInv
<1> QED
  BY <1>1, <1>2, MemoInvInit, TypeCorrect, PTL DEF Spec

-----------------------------------------------------------------------------
(* The queue *)

InHand == {t \in Tasks : ~At(t, "idle")}

LEMMA QueueStands ==
  ASSUME UNCHANGED row, InHand' = InHand
  PROVE  UNCHANGED Queue!vars
  BY DEF Queue!vars, InHand

LEMMA QueueSubmits ==
  ASSUME NEW S \in SUBSET Tasks, \A t \in S : row[t].status = "absent",
         \A t \in Tasks : row'[t].status = IF t \in S THEN "queued" ELSE row[t].status,
         InHand' = InHand
  PROVE  Queue!Next
<1>1. S \in SUBSET Queue!New
  BY QueueStates DEF Queue!New
<1>2. Queue!Submit(S)
  BY QueueStates DEF Queue!Submit, InHand
<1> QED
  BY <1>1, <1>2 DEF Queue!Next

LEMMA QueueTakes ==
  ASSUME TypeOK, NEW t \in Tasks, Take(t)
  PROVE  Queue!Next
<1>1. /\ \A u \in Tasks : ResourceKey(u) = ResourceKey(t) => At(u, "idle")
      /\ Claimable(row[t])
      /\ row' = [row EXCEPT ![t] = Claimed(row[t], MaxAttempts)]
      /\ hand' = [hand EXCEPT ![t] = Stage("start")]
  BY DEF Take, Goto
<1>2. /\ row[t].status \in {"queued", "running"}
      /\ \A u \in Tasks : row'[u].status = IF u = t THEN "running" ELSE row[u].status
  BY <1>1 DEF TypeOK, Claimable, Claimed
<1>3. t \notin InHand /\ InHand' = InHand \union {t}
  BY <1>1, HandAt DEF InHand, At, TypeOK
<1>4. Queue!Free(t)
  BY <1>1 DEF Queue!Free, InHand
<1>5. Queue!Take(t)
  BY <1>2, <1>3, <1>4, QueueStates DEF Queue!Take, InHand
<1> QED
  BY <1>5 DEF Queue!Next

LEMMA QueueFinishes ==
  ASSUME TypeOK, InHandIsRunning, NEW t \in Tasks, Settle(t)
  PROVE  Queue!Next
<1> DEFINE result == QueueState[row'[t].status]
<1>1. PICK fit \in BOOLEAN :
        row' = [row EXCEPT ![t] =
          IF hand[t].finish # "ok" THEN Unsuccessful(row[t], hand[t].finish, MaxAttempts)
          ELSE IF Valid(t, fit) THEN Succeeded(row[t])
          ELSE Failed(row[t], MaxAttempts)]
  BY DEF Settle
<1>2. t \in InHand /\ InHand' = InHand \ {t}
  BY HandAt DEF Settle, InHand, At, TypeOK
<1>3. row[t].status = "running" /\ row[t] \in Row(MaxAttempts)
  BY <1>2 DEF InHandIsRunning, InHand, TypeOK
<1>4. /\ row'[t] \in {Unsuccessful(row[t], hand[t].finish, MaxAttempts),
                      Succeeded(row[t]), Failed(row[t], MaxAttempts)}
      /\ \A u \in Tasks \ {t} : row'[u] = row[u]
  BY <1>1 DEF TypeOK
<1>5. row'[t].status \in {"queued", "success", "dead_letter"}
  BY <1>3, <1>4, SettledStatus, ResearchAssumption
<1>6. result \in Queue!Results(QueueState[row[t].status])
  BY <1>3, <1>5, QueueStates DEF Queue!Results
<1>7. Queue!Finish(t, result, {})
  BY <1>2, <1>4 DEF Queue!Finish, InHand
<1>8. {} \in SUBSET Queue!Waiting
  OBVIOUS
<1> HIDE DEF result
<1> QED
  BY <1>2, <1>6, <1>7, <1>8 DEF Queue!Next, InHand

LEMMA QueueLoses ==
  ASSUME UNCHANGED row, InHand' = {}
  PROVE  Queue!Next
<1>1. Queue!Vanish(InHand)
  BY DEF Queue!Vanish, InHand
<1> QED
  BY <1>1 DEF Queue!Next, InHand

\* What a plan asks for and is not there is submitted.
LEMMA PlanSubmits ==
  ASSUME TypeOK, NEW h \in Investigations, NEW plan \in Plan, NEW finish \in Ends,
         OrchestrateResearch(h, plan, finish)
  PROVE  Queue!Next
<1> DEFINE t == Task("research", h)
           S == {u \in Tasks : u \in PhaseTasks(h, plan) /\ row[u].status = "absent"}
<1>1. /\ ~At(t, "idle") /\ hand' = [hand EXCEPT ![t] = Returned(finish)]
      /\ row' = [u \in Tasks |->
                   IF u \in PhaseTasks(h, plan) THEN Enqueued(row[u]) ELSE row[u]]
  BY DEF OrchestrateResearch, Returns, At
<1>2. InHand' = InHand
  BY <1>1, HandAt, TaskTypes DEF InHand, At, TypeOK
<1>3. \A u \in Tasks : row'[u].status = IF u \in S THEN "queued" ELSE row[u].status
  BY <1>1, EnqueuedStatus, ResearchAssumption DEF TypeOK
<1>4. S \in SUBSET Tasks /\ \A u \in S : row[u].status = "absent"
  OBVIOUS
<1> HIDE DEF S
<1> QED
  BY <1>2, <1>3, <1>4, QueueSubmits

LEMMA UsesQueueStep ==
  ASSUME TypeOK, InHandIsRunning, [Next]_vars
  PROVE  [Queue!Next]_(Queue!vars)
<1> USE TaskTypes
<1>1. ASSUME NEW t \in Tasks, NEW x, ~At(t, "idle"), x.at # "idle",
             hand' = [hand EXCEPT ![t] = x], UNCHANGED row
      PROVE  UNCHANGED Queue!vars
  <2>1. InHand' = InHand
    BY <1>1 DEF InHand, At, TypeOK
  <2> QED
    BY <1>1, <2>1, QueueStands
<1>2. ASSUME NEW t \in Tasks, NEW finish, ~At(t, "idle"), UNCHANGED row,
             hand' = [hand EXCEPT ![t] = Returned(finish)]
      PROVE  UNCHANGED Queue!vars
  <2>1. Returned(finish).at # "idle"
    BY HandAt
  <2> QED
    BY <1>1, <1>2, <2>1
<1>3. ASSUME NEW t \in Tasks, NEW stage \in {"edit", "write"}, ~At(t, "idle"),
             UNCHANGED row, Goto(t, stage)
      PROVE  UNCHANGED Queue!vars
  <2>1. Stage(stage).at # "idle"
    BY HandAt
  <2> QED
    BY <1>1, <1>3, <2>1 DEF Goto
<1>4. ASSUME NEW t \in Tasks, RateLimited(t) \/ HandlerRaises(t)
      PROVE  UNCHANGED Queue!vars
  <2>1. ~At(t, "idle") /\ UNCHANGED row
    BY <1>4 DEF RateLimited, HandlerRaises, At
  <2>2. PICK finish : hand' = [hand EXCEPT ![t] = Returned(finish)]
    BY <1>4 DEF RateLimited, HandlerRaises, Returns
  <2> QED
    BY <1>2, <2>1, <2>2
<1>5. ASSUME NEW t \in Tasks, NEW text \in NodeTexts \ {"missing"}, NEW finish \in Ends,
             EditNode(t, text, finish)
      PROVE  UNCHANGED Queue!vars
  BY <1>2, <1>5 DEF EditNode, Returns, At
<1>6. ASSUME NEW h \in Investigations, SiblingsGate(h) PROVE UNCHANGED Queue!vars
  <2>1. ~At(Task("memo", h), "idle") /\ UNCHANGED row
    BY <1>6 DEF SiblingsGate, At
  <2>2. CASE hand' = [hand EXCEPT ![Task("memo", h)] = Returned("transient")]
    BY <1>2, <2>1, <2>2
  <2>3. CASE Goto(Task("memo", h), "write")
    BY <1>3, <2>1, <2>3
  <2> QED
    BY <1>6, <2>2, <2>3 DEF SiblingsGate
<1>7. ASSUME NEW h \in Investigations, NEW finish \in Ends, WriteMemo(h, finish)
      PROVE  UNCHANGED Queue!vars
  BY <1>2, <1>7 DEF WriteMemo, Returns, At
<1>8. ASSUME NEW h \in Investigations, MemoStep(h) PROVE [Queue!Next]_(Queue!vars)
  BY <1>6, <1>7, <1>8, QueueTakes, QueueFinishes DEF MemoStep
<1>9. ASSUME NEW h \in Investigations, Step(h) PROVE [Queue!Next]_(Queue!vars)
  <2>1. PICK finish \in Ends :
          \/ \E plan \in Plan : OrchestrateResearch(h, plan, finish)
          \/ GatherSources(h, finish)
          \/ \E n \in Nodes : EnsureSkeleton(h, n)
          \/ \E n \in Questions : ReadQuestion(h, n)
          \/ \E chosen \in SUBSET Tickers : ScreenCompanies(h, chosen, finish)
    BY <1>9 DEF Step
  <2>2. CASE GatherSources(h, finish)
    BY <1>2, <2>2 DEF GatherSources, Returns, At
  <2>3. ASSUME NEW n \in Nodes, EnsureSkeleton(h, n) PROVE UNCHANGED Queue!vars
    BY <1>3, <2>3 DEF EnsureSkeleton, At
  <2>4. ASSUME NEW n \in Questions, ReadQuestion(h, n) PROVE UNCHANGED Queue!vars
    <3>1. ~At(NodeTask("answer", h, n), "idle") /\ UNCHANGED row
      BY <2>4 DEF ReadQuestion, At
    <3> QED
      BY <1>2, <1>3, <2>4, <3>1 DEF ReadQuestion, Returns
  <2>5. ASSUME NEW chosen \in SUBSET Tickers, ScreenCompanies(h, chosen, finish)
        PROVE  UNCHANGED Queue!vars
    BY <1>2, <2>5 DEF ScreenCompanies, Returns, At
  <2> QED
    BY <2>1, <2>2, <2>3, <2>4, <2>5, PlanSubmits
<1>10. CASE Crash
  <2>1. UNCHANGED row /\ InHand' = {}
    BY <1>10, HandAt DEF Crash, InHand, At
  <2> QED
    BY <2>1, QueueLoses
<1>11. ASSUME (\E h \in Investigations : Later(h)) \/ UNCHANGED vars
       PROVE  UNCHANGED Queue!vars
  <2>1. UNCHANGED row /\ InHand' = InHand
    BY <1>11 DEF Later, vars, InHand, At
  <2> QED
    BY <2>1, QueueStands
<1> QED
  BY <1>4, <1>5, <1>8, <1>9, <1>10, <1>11, QueueTakes, QueueFinishes DEF Next

\* Every behaviour of the flow is one of the queue: a plan that is made again
\* submits only what is not there, nothing settled is taken again, and one node is
\* in one task's hands, for any plans (orchestrate_research.py
\* _enqueue_phase_tasks, enqueue.py enqueue_task, _resource_key_for).
THEOREM ResearchUsesQueue == Spec => UsesQueue
<1>1. TypeOK /\ MemoInv /\ [Next]_vars => MemoInv'
  BY MemoInvStep
<1>2. TypeOK /\ MemoInv /\ [Next]_vars => [Queue!Next]_(Queue!vars)
  BY UsesQueueStep DEF MemoInv
<1> QED
  BY <1>1, <1>2, MemoInvInit, TypeCorrect, PTL DEF Spec, UsesQueue
=============================================================================
