------------------------------ MODULE Research ------------------------------
(***************************************************************************)
(* Open-ended research: a plan made by an LLM, the tasks it fans out into  *)
(* (gather sources, compile themes, concepts and questions, answer the     *)
(* questions, screen companies), and the memo that waits for all of them,  *)
(* but no longer than four hours.                                          *)
(*                                                                         *)
(* A step is one transaction or one LLM call with the files it writes.     *)
(* The texts of the memo, the investigation and the sources are left out:  *)
(* they inform an LLM, which may make anything of them.                    *)
(***************************************************************************)
EXTENDS HandlerTask, FiniteSets

CONSTANTS
  Investigations,   \* handles of the research queries
  Nodes,            \* themes, concepts and questions, by type and slug
  NoNode,
  TypeOfNode,
  PlansOf,          \* bound: the plans an LLM may make for each of them
  Tickers,
  MaxDeepDives,     \* max_deep_dives
  MaxAttempts,      \* max_attempts
  MaxFaults         \* bound: crashes, exceptions, kills, rate limits

Plan == [queries : BOOLEAN, nodes : SUBSET Nodes, tickers : BOOLEAN]

\* An answer that cannot be read: retrieval and the memo.
DefaultPlan == [queries |-> TRUE, nodes |-> {}, tickers |-> FALSE]

ASSUME ResearchAssumption ==
  /\ NoNode \notin Nodes
  /\ TypeOfNode \in [Nodes -> {"theme", "concept", "question"}]
  /\ PlansOf \in [Investigations -> SUBSET Plan]
  /\ MaxDeepDives \in Nat
  /\ MaxAttempts \in Nat \ {0}
  /\ MaxFaults \in Nat

Task(kind, h) == [kind |-> kind, of |-> h, node |-> NoNode]

NodeTask(kind, h, n) == [kind |-> kind, of |-> h, node |-> n]

Questions == {n \in Nodes : TypeOfNode[n] = "question"}

Tasks ==
  {Task(kind, h) : kind \in {"research", "gather", "screen", "memo"}, h \in Investigations}
  \union {NodeTask("compile", h, n) : h \in Investigations, n \in Nodes}
  \union {NodeTask("answer", h, n) : h \in Investigations, n \in Questions}

VARIABLES
  row,    \* of each task
  hand,   \* of each task: where its handler is
  plans,  \* of each investigation: how often its plan was committed
  old,    \* tasks created more than _SIBLINGS_WALLCLOCK_CAP_H ago
  node,   \* the file of each node
  dives,  \* tickers with a dive, and a child investigation, of each
  faults

vars == <<row, hand, plans, old, node, dives, faults>>

\* unfit: without frontmatter or without its Evidence section.
NodeTexts == {"missing", "unfit", "compiled", "answered"}

TypeOK ==
  /\ row \in [Tasks -> Row(MaxAttempts)]
  /\ hand \in [Tasks -> Hand({"start", "edit", "write"})]
  /\ plans \in [Investigations -> 0..2]
  /\ old \subseteq Tasks
  /\ node \in [Nodes -> NodeTexts]
  /\ dives \subseteq Tickers \X Investigations
  /\ faults \in 0..MaxFaults

Init ==
  /\ row = [t \in Tasks |-> IF t.kind = "research" THEN Enqueued(NoRow) ELSE NoRow]
  /\ hand = [t \in Tasks |-> Idle]
  /\ plans = [h \in Investigations |-> 0]
  /\ old = {}
  /\ node = [n \in Nodes |-> "missing"]
  /\ dives = {}
  /\ faults = 0

Fault == faults < MaxFaults /\ faults' = faults + 1

At(t, stage) == hand[t].at = stage

Goto(t, stage) == hand' = [hand EXCEPT ![t] = Stage(stage)]

Returns(t, finish) ==
  /\ hand' = [hand EXCEPT ![t] = Returned(finish)]
  /\ IF finish \in {"killed", "rate_limit"} THEN Fault ELSE UNCHANGED faults

\* How an LLM call ends that a handler goes on from.
Ends == {"ok", "killed"}

-----------------------------------------------------------------------------
\* Faulty: an answer, whose payload has no node_type, is keyed by its investigation.
ResourceKeyAsGiven(t) ==
  IF t.kind = "compile" THEN <<"node", NoNode, t.node>> ELSE <<t.kind, t.of, t.node>>

\* _resource_key_for: a node's type and slug, investigation:<handle>,
\* crosscutting:<handle>; gather_sources and screen_candidate_companies have none,
\* and one row each.
ResourceKey(t) ==
  IF t.kind \in {"compile", "answer"} THEN <<"node", NoNode, t.node>>
  ELSE <<t.kind, t.of, t.node>>

Take(t) ==
  /\ Claimable(row[t])
  /\ \A u \in Tasks : ResourceKey(u) = ResourceKey(t) => At(u, "idle")
  /\ row' = [row EXCEPT ![t] = Claimed(@, MaxAttempts)]
  /\ Goto(t, "start")
  /\ UNCHANGED <<plans, old, node, dives, faults>>

-----------------------------------------------------------------------------
\* _enqueue_phase_tasks
PhaseTasks(h, plan) ==
  {Task("memo", h)}
  \union (IF plan.queries THEN {Task("gather", h)} ELSE {})
  \union {NodeTask("compile", h, n) : n \in plan.nodes}
  \union {NodeTask("answer", h, n) : n \in plan.nodes \intersect Questions}
  \union (IF plan.tickers THEN {Task("screen", h)} ELSE {})

\* The LLM call, the investigation file, and one transaction with everything the
\* plan asks for.  A retry makes another plan; what is queued stays.
OrchestrateResearch(h, plan, finish) ==
  LET t == Task("research", h) IN
  /\ At(t, "start")
  /\ plan \in PlansOf[h] \union {DefaultPlan}
  /\ row' = [u \in Tasks |-> IF u \in PhaseTasks(h, plan) THEN Enqueued(row[u]) ELSE row[u]]
  /\ plans' = [plans EXCEPT ![h] = IF @ = 2 THEN 2 ELSE @ + 1]
  /\ Returns(t, finish)
  /\ UNCHANGED <<old, node, dives>>

GatherSources(h, finish) ==
  /\ At(Task("gather", h), "start")
  /\ Returns(Task("gather", h), finish)
  /\ UNCHANGED <<row, plans, old, node, dives>>

\* _ensure_skeleton: that of a concept has no Evidence section.
EnsureSkeleton(h, n) ==
  LET t == NodeTask("compile", h, n) IN
  /\ At(t, "start")
  /\ node' = [node EXCEPT ![n] =
       IF @ # "missing" THEN @
       ELSE IF TypeOfNode[n] = "concept" THEN "unfit" ELSE "compiled"]
  /\ Goto(t, "edit")
  /\ UNCHANGED <<row, plans, old, dives, faults>>

\* Nothing makes the answer wait for the compile of its question.
ReadQuestion(h, n) ==
  LET t == NodeTask("answer", h, n) IN
  /\ At(t, "start")
  /\ IF node[n] = "missing" THEN Returns(t, "failed")
     ELSE Goto(t, "edit") /\ UNCHANGED faults
  /\ UNCHANGED <<row, plans, old, node, dives>>

\* The LLM call of compile_research_node or answer_question, which has the file
\* and may leave it in any state.
EditNode(t, text, finish) ==
  /\ At(t, "edit")
  /\ node' = [node EXCEPT ![t.node] = text]
  /\ Returns(t, finish)
  /\ UNCHANGED <<row, plans, old, dives>>

\* The LLM call, and one transaction with a child investigation and its dive for
\* the first max_deep_dives of the tickers that deserve it.
ScreenCompanies(h, chosen, finish) ==
  LET t == Task("screen", h) IN
  /\ At(t, "start")
  /\ Cardinality(chosen) <= MaxDeepDives
  /\ dives' = dives \union (chosen \X {h})
  /\ Returns(t, finish)
  /\ UNCHANGED <<row, plans, old, node>>

-----------------------------------------------------------------------------
\* The memo

Siblings(h) == {t \in Tasks : t.of = h /\ t.kind \notin {"research", "memo"}}

\* Faulty: what is running is not waited for.
UnfinishedInQueue(h) == {t \in Siblings(h) : row[t].status = "queued"}

\* _siblings_blocking: queued, running or partial.  The query itself belongs to no
\* investigation, and the dives to their own.
Unfinished(h) == {t \in Siblings(h) : row[t].status \in {"queued", "running"}}

\* Faulty: the memo waits for as long as it takes.
NeverTimedOut(h) == FALSE

\* The oldest of them is.
TimedOut(h) == Unfinished(h) \intersect old # {}

SiblingsGate(h) ==
  LET t == Task("memo", h) IN
  /\ At(t, "start")
  /\ IF Unfinished(h) # {} /\ ~TimedOut(h)
     THEN hand' = [hand EXCEPT ![t] = Returned("transient")]
     ELSE Goto(t, "write")
  /\ UNCHANGED <<row, plans, old, node, dives, faults>>

WriteMemo(h, finish) ==
  /\ At(Task("memo", h), "write")
  /\ Returns(Task("memo", h), finish)
  /\ UNCHANGED <<row, plans, old, node, dives>>

-----------------------------------------------------------------------------
RateLimited(t) ==
  /\ \/ hand[t].at \in {"edit", "write"}
     \/ At(t, "start") /\ t.kind \in {"research", "gather", "screen"}
  /\ Returns(t, "rate_limit")
  /\ UNCHANGED <<row, plans, old, node, dives>>

HandlerRaises(t) ==
  /\ hand[t].at \notin {"idle", "settle"}
  /\ Fault
  /\ hand' = [hand EXCEPT ![t] = Returned("failed")]
  /\ UNCHANGED <<row, plans, old, node, dives>>

\* The validator of a memo takes whichever file has its handle, of this day or
\* another, and what it finds there is anything.
Valid(t, fit) ==
  CASE t.kind = "compile" -> node[t.node] \in {"compiled", "answered"}
    [] t.kind = "answer" -> node[t.node] = "answered"
    [] t.kind = "memo" -> fit
    [] OTHER -> TRUE

\* A node or a memo is in order or it is not: no validator here finds a part.
Settle(t) ==
  /\ At(t, "settle")
  /\ \E fit \in BOOLEAN :
       row' = [row EXCEPT ![t] =
         IF hand[t].finish # "ok" THEN Unsuccessful(@, hand[t].finish, MaxAttempts)
         ELSE IF Valid(t, fit) THEN Succeeded(@)
         ELSE Failed(@, MaxAttempts)]
  /\ hand' = [hand EXCEPT ![t] = Idle]
  /\ UNCHANGED <<plans, old, node, dives, faults>>

\* Every handler is lost, every row stays.
Crash ==
  /\ \E t \in Tasks : ~At(t, "idle")
  /\ Fault
  /\ hand' = [t \in Tasks |-> Idle]
  /\ UNCHANGED <<row, plans, old, node, dives>>

\* Four hours after the tasks that an investigation has.
Later(h) ==
  LET created == {t \in Siblings(h) : row[t].status # "absent"} IN
  /\ ~ created \subseteq old
  /\ old' = old \union created
  /\ UNCHANGED <<row, hand, plans, node, dives, faults>>

MemoStep(h) ==
  \/ Take(Task("memo", h))
  \/ SiblingsGate(h)
  \/ \E finish \in Ends : WriteMemo(h, finish)
  \/ Settle(Task("memo", h))

Step(h) ==
  \E finish \in Ends :
    \/ \E plan \in Plan : OrchestrateResearch(h, plan, finish)
    \/ GatherSources(h, finish)
    \/ \E n \in Nodes : EnsureSkeleton(h, n)
    \/ \E n \in Questions : ReadQuestion(h, n)
    \/ \E chosen \in SUBSET Tickers : ScreenCompanies(h, chosen, finish)

Next ==
  \/ \E t \in Tasks : Take(t) \/ RateLimited(t) \/ HandlerRaises(t) \/ Settle(t)
  \/ \E t \in Tasks, text \in NodeTexts \ {"missing"}, finish \in Ends :
       EditNode(t, text, finish)
  \/ \E h \in Investigations : MemoStep(h) \/ Step(h) \/ Later(h)
  \/ Crash

Spec == Init /\ [][Next]_vars

\* The dispatcher hands out a memo that is queued or lost, its handler ends, and
\* hours pass.  Nothing is asked of the tasks that the memo waits for.
Fairness == \A h \in Investigations : WF_vars(MemoStep(h)) /\ WF_vars(Later(h))

FairSpec == Spec /\ Fairness

-----------------------------------------------------------------------------
\* The flow uses the queue as the dispatcher promises it: what a plan asks for is
\* submitted once, by a query that is planned again too, what is settled is not
\* taken again, and of the tasks for one node one is in hand (enqueue.py
\* enqueue_task, _resource_key_for, orchestrate_research.py _enqueue_phase_tasks).
Queue == INSTANCE TaskQueue WITH
  Resource <- [t \in Tasks |-> ResourceKey(t)],
  NoResource <- <<>>,
  LateCancels <- {},
  state <- [t \in Tasks |-> QueueState[row[t].status]],
  working <- {t \in Tasks : ~At(t, "idle")}

UsesQueue == [][Queue!Next]_(Queue!vars)

\* Two tasks never edit one theme, concept or question at a time, be they the
\* compile and the answer of one question or of two investigations that share it
\* (enqueue.py _resource_key_for, compile_research_node.py, answer_question.py).
NodeEditedByOne ==
  \A t, u \in Tasks : t # u /\ t.node = u.node => ~(At(t, "edit") /\ At(u, "edit"))

\* While the memo is written nothing that its plan asked for is still to come or
\* being edited, unless that is more than four hours old: the fan-out is seen as a
\* whole and what is settled stays so.  A plan that was made twice is excepted
\* (orchestrate_research.py handle, synthesize_crosscut_memo.py _siblings_blocking).
MemoComesLast ==
  \A h \in Investigations :
    plans[h] = 1 /\ At(Task("memo", h), "write") =>
      \A t \in Siblings(h) : row[t].status = "absent" \/ Settled(row[t]) \/ t \in old

\* A memo that is queued is written or given up, even when a task that it waits
\* for is never done (synthesize_crosscut_memo.py _siblings_blocking, handle).
CrosscutMemoSettles ==
  \A h \in Investigations :
    row[Task("memo", h)].status # "absent" ~> Settled(row[Task("memo", h)])
=============================================================================
