-------------------------- MODULE FilingFlowProofs --------------------------
(***************************************************************************)
(* What the flow of a filing keeps for any filings and companies, any      *)
(* answers of the LLM, and any number of faults.                           *)
(*                                                                         *)
(* The argument: a task in hand has a running row, so an analysis that     *)
(* succeeded is in nobody's hands and its verdict stands; a handler that   *)
(* is about to return "ok" with a relevant verdict has queued what follows *)
(* from it; what is queued stays; and of the compiles for one company one  *)
(* is in hand, so nothing gets between its stash and its edit.             *)
(***************************************************************************)
EXTENDS FilingFlow, HandlerTaskProofs

LEMMA TaskParts ==
  /\ \A f \in Filings :
       <<"analyze", f>> \in Tasks /\ <<"notify", f>> \in Tasks /\ <<"compile", f>> \in Tasks
  /\ \A t \in Tasks : t[1] \in Kinds /\ t[2] \in Filings /\ t = <<t[1], t[2]>>
  BY DEF Tasks, Kinds

LEMMA FilingHands ==
  /\ Idle \in Hand(Stages)
  /\ \A stage \in Stages : Stage(stage) \in Hand(Stages)
  /\ \A finish \in Finishes : Returned(finish) \in Hand(Stages)
  BY HandType

LEMMA FaultType == ASSUME TypeOK, Fault \/ Calm PROVE faults' \in 0..MaxFaults
  BY FilingAssumption DEF TypeOK, Fault, Calm

LEMMA FilingTypeInit == Init => TypeOK
<1> SUFFICES ASSUME Init PROVE TypeOK
  OBVIOUS
<1>1. NoRow \in Row(MaxAttempts)
  BY NoRowType, FilingAssumption
<1>2. Enqueued(NoRow) \in Row(MaxAttempts) /\ Succeeded(NoRow) \in Row(MaxAttempts)
  BY <1>1, RowType, FilingAssumption
<1>3. row \in [Tasks -> Row(MaxAttempts)]
  BY <1>1, <1>2 DEF Init
<1>4. hand \in [Tasks -> Hand(Stages)]
  BY FilingHands DEF Init
<1>5. Missing \in Text /\ [size |-> MaxSize, by |-> "someone"] \in Text
  BY FilingAssumption DEF Missing, Text
<1>6. notes \in [Tickers -> Text] /\ newest \in [Tickers -> Text]
  BY <1>5 DEF Init
<1>7. dives \subseteq Tickers /\ pushed \subseteq Filings /\ signals \subseteq Filings
  BY FilingAssumption DEF Init
<1> QED
  BY <1>3, <1>4, <1>6, <1>7, FilingAssumption DEF Init, TypeOK

LEMMA TakeType == ASSUME TypeOK, NEW t \in Tasks, Take(t) PROVE TypeOK'
<1>1. row' \in [Tasks -> Row(MaxAttempts)]
  BY RowType, FilingAssumption DEF Take, TypeOK
<1>2. FirstStage[t[1]] \in Stages
  BY TaskParts DEF FirstStage, Kinds, Stages
<1>3. hand' \in [Tasks -> Hand(Stages)]
  BY <1>2, FilingHands DEF Take, Goto, TypeOK
<1> QED
  BY <1>1, <1>3 DEF Take, TypeOK

LEMMA AnalyzeType == ASSUME TypeOK, NEW f \in Filings, AnalyzeStep(f) PROVE TypeOK'
<1> USE TaskParts
<1> DEFINE a == <<"analyze", f>>
<1>1. PICK finish \in {"ok", "killed"} :
        \/ \E outcome \in {"negative", "positive"} : ScreenFiling(f, outcome, finish)
        \/ \E result \in {"relevant", "minor"} : AnalyzeFiling(f, result, finish)
        \/ AnalysisUnreadable(f, finish)
        \/ EnqueueDownstream(f)
  BY DEF AnalyzeStep
<1>2. finish \in Finishes /\ "failed" \in Finishes
  BY DEF Finishes
<1>3. ASSUME NEW outcome \in {"negative", "positive"}, ScreenFiling(f, outcome, finish)
      PROVE  TypeOK'
  <2>1. hand' \in [Tasks -> Hand(Stages)]
    BY <1>2, <1>3, FilingHands DEF ScreenFiling, Returns, Goto, TypeOK, Stages
  <2>2. screen' \in [Filings -> {"none", "negative", "positive"}]
    BY <1>3 DEF ScreenFiling, TypeOK
  <2> QED
    BY <1>3, <2>1, <2>2, FaultType DEF ScreenFiling, TypeOK
<1>4. ASSUME NEW result \in {"relevant", "minor"}, AnalyzeFiling(f, result, finish)
      PROVE  TypeOK'
  <2>1. [at |-> "enqueue", finish |-> finish] \in Hand(Stages)
    BY <1>2 DEF Hand, Stages
  <2>2. hand' \in [Tasks -> Hand(Stages)]
    BY <1>2, <1>4, <2>1, FilingHands DEF AnalyzeFiling, TypeOK
  <2>3. analysis' \in [Filings -> {"none", "relevant", "minor"}]
    BY <1>4 DEF AnalyzeFiling, TypeOK
  <2> QED
    BY <1>4, <2>2, <2>3, FaultType DEF AnalyzeFiling, TypeOK
<1>5. CASE AnalysisUnreadable(f, finish)
  <2>1. hand' \in [Tasks -> Hand(Stages)]
    BY <1>2, <1>5, FilingHands DEF AnalysisUnreadable, Returns, TypeOK
  <2> QED
    BY <1>5, <2>1, FaultType DEF AnalysisUnreadable, TypeOK
<1>6. CASE EnqueueDownstream(f)
  <2>1. row' \in [Tasks -> Row(MaxAttempts)]
    BY <1>6, RowType, FilingAssumption DEF EnqueueDownstream, TypeOK
  <2>2. hand[a].finish \in Finishes
    BY DEF TypeOK, Hand
  <2>3. hand' \in [Tasks -> Hand(Stages)]
    BY <1>6, <2>2, FilingHands DEF EnqueueDownstream, Returns, TypeOK
  <2>4. dives' \subseteq Tickers
    BY <1>6, FilingAssumption DEF EnqueueDownstream, TypeOK
  <2> QED
    BY <1>6, <2>1, <2>3, <2>4 DEF EnqueueDownstream, TypeOK
<1> QED
  BY <1>1, <1>3, <1>4, <1>5, <1>6

LEMMA NotifyType == ASSUME TypeOK, NEW f \in Filings, NotifyStep(f) PROVE TypeOK'
<1> USE TaskParts
<1>1. ASSUME NEW arrives \in BOOLEAN, NEW ok \in BOOLEAN, PushNtfy(f, arrives, ok)
      PROVE  TypeOK'
  <2>1. hand' \in [Tasks -> Hand(Stages)]
    BY <1>1, FilingHands DEF PushNtfy, Returns, Goto, TypeOK, Stages, Finishes
  <2>2. pushed' \subseteq Filings
    BY <1>1 DEF PushNtfy, TypeOK
  <2> QED
    BY <1>1, <2>1, <2>2 DEF PushNtfy, TypeOK
<1>2. CASE RecordSignal(f)
  <2>1. hand' \in [Tasks -> Hand(Stages)]
    BY <1>2, FilingHands DEF RecordSignal, Returns, TypeOK, Finishes
  <2> QED
    BY <1>2, <2>1 DEF RecordSignal, TypeOK
<1> QED
  BY <1>1, <1>2 DEF NotifyStep

LEMMA CompileType == ASSUME TypeOK, NEW f \in Filings, CompileStep(f) PROVE TypeOK'
<1> USE TaskParts
<1>1. ASSUME NEW stashed \in BOOLEAN, StashForEdit(f, stashed) PROVE TypeOK'
  <2>1. hand' \in [Tasks -> Hand(Stages)]
    BY <1>1, FilingHands DEF StashForEdit, Goto, TypeOK, Stages
  <2>2. newest' \in [Tickers -> Text]
    BY <1>1 DEF StashForEdit, TypeOK
  <2> QED
    BY <1>1, <2>1, <2>2, FaultType DEF StashForEdit, TypeOK
<1>2. ASSUME NEW size \in 0..MaxSize, NEW finish \in {"ok", "killed", "rate_limit"},
             EditNotes(f, size, finish)
      PROVE  TypeOK'
  <2>1. hand' \in [Tasks -> Hand(Stages)]
    BY <1>2, FilingHands DEF EditNotes, Returns, TypeOK, Finishes
  <2>2. [size |-> size, by |-> f] \in Text
    BY DEF Text
  <2>3. notes' \in [Tickers -> Text]
    BY <1>2, <2>2 DEF EditNotes, TypeOK
  <2> QED
    BY <1>2, <2>1, <2>3, FaultType DEF EditNotes, TypeOK
<1> QED
  BY <1>1, <1>2 DEF CompileStep

LEMMA SettleType == ASSUME TypeOK, NEW t \in Tasks, Settle(t) PROVE TypeOK'
<1>1. row' \in [Tasks -> Row(MaxAttempts)]
  <2>1. row[t] \in Row(MaxAttempts)
    BY DEF TypeOK
  <2>2. PICK r \in Row(MaxAttempts) : row' = [row EXCEPT ![t] = r]
    BY <2>1, RowType, FilingAssumption DEF Settle, SettleUnsuccessful, SettleReturned
  <2> QED
    BY <2>2 DEF TypeOK
<1>2. hand' \in [Tasks -> Hand(Stages)]
  BY FilingHands DEF Settle, SettleUnsuccessful, SettleReturned, Leave, TypeOK
<1> QED
  BY <1>1, <1>2 DEF Settle, SettleUnsuccessful, SettleReturned, Leave, TypeOK

LEMMA FilingTypeStep == TypeOK /\ [Next]_vars => TypeOK'
<1> SUFFICES ASSUME TypeOK, [Next]_vars PROVE TypeOK'
  OBVIOUS
<1>1. ASSUME NEW t \in Tasks, Work(t) PROVE TypeOK'
  BY <1>1, TaskParts, TakeType, AnalyzeType, NotifyType, CompileType, SettleType DEF Work
<1>2. ASSUME NEW t \in Tasks, RateLimited(t) \/ HandlerRaises(t) PROVE TypeOK'
  <2>1. hand' \in [Tasks -> Hand(Stages)]
    BY <1>2, FilingHands DEF RateLimited, HandlerRaises, Returns, TypeOK, Finishes
  <2> QED
    BY <1>2, <2>1, FaultType DEF RateLimited, HandlerRaises, TypeOK
<1>3. CASE Crash
  <2>1. hand' \in [Tasks -> Hand(Stages)]
    BY <1>3, FilingHands DEF Crash
  <2> QED
    BY <1>3, <2>1, FaultType DEF Crash, TypeOK
<1>4. CASE UNCHANGED vars
  BY <1>4 DEF vars, TypeOK
<1> QED
  BY <1>1, <1>2, <1>3, <1>4 DEF Next

\* Every reachable state of the flow has the types of its rows, files, pushes and
\* backups (analyze_filing.py, notify.py, compile_to_wiki.py, worker.py).
THEOREM TypeCorrect == Spec => []TypeOK
  BY FilingTypeInit, FilingTypeStep, PTL DEF Spec
-----------------------------------------------------------------------------
(* The invariant *)

Present(t) == row[t].status # "absent"

Followed(f) ==
  /\ Present(<<"notify", f>>)
  /\ TickerOf[f] # NoTicker => Present(<<"compile", f>>) /\ TickerOf[f] \in dives

Relevant(f) == screen[f] = "positive" /\ analysis[f] = "relevant"

\* The analysis has succeeded, or its handler has nothing left to do for that.
Concluded(f) ==
  \/ row[<<"analyze", f>>].status = "success"
  \/ hand[<<"analyze", f>>] = Returned("ok")

RelevantIsFollowed == \A f \in Filings : Relevant(f) /\ Concluded(f) => Followed(f)

\* What is in hand is running.
InHandIsRunning == \A t \in Tasks : ~At(t, "idle") => row[t].status = "running"

\* Only a filing with a ticker is compiled.
CompileHasTicker ==
  \A f \in Filings : Present(<<"compile", f>>) => TickerOf[f] \in Tickers

\* Of two compiles for one company one is in nobody's hands.
Exclusive ==
  \A f, g \in Filings :
    f # g /\ TickerOf[f] = TickerOf[g] =>
      At(<<"compile", f>>, "idle") \/ At(<<"compile", g>>, "idle")

\* Before an edit the notes are those that were stashed.
EditStashed ==
  \A f \in Filings :
    At(<<"compile", f>>, "edit") =>
      notes[TickerOf[f]] \in {Missing, newest[TickerOf[f]]}

FlowInv ==
  RelevantIsFollowed /\ InHandIsRunning /\ CompileHasTicker /\ Exclusive /\ EditStashed

LEMMA FlowInvInit == Init => FlowInv
<1> SUFFICES ASSUME Init PROVE FlowInv
  OBVIOUS
<1> USE TaskParts
<1>1. \A t \in Tasks : At(t, "idle") /\ hand[t] = Idle
  BY HandAt DEF Init, At
<1>2. \A t \in Tasks :
        row[t].status = IF Waiting(t) THEN "queued" ELSE IF Done(t) THEN "success" ELSE "absent"
  BY DEF Init, Enqueued, Succeeded, NoRow
<1>3. InHandIsRunning /\ Exclusive /\ EditStashed
  BY <1>1, HandAt DEF InHandIsRunning, Exclusive, EditStashed, At
<1>4. CompileHasTicker
  BY <1>2, FilingAssumption DEF CompileHasTicker, Present, Waiting, Done
<1>5. \A f \in Filings : Concluded(f) => f \in Earlier
  BY <1>1, <1>2, HandAt DEF Concluded, Waiting, Done
<1>6. \A f \in Earlier : Followed(f)
  BY <1>2, FilingAssumption DEF Init, Followed, Present, Waiting, Done
<1>7. RelevantIsFollowed
  BY <1>5, <1>6 DEF RelevantIsFollowed
<1> QED
  BY <1>3, <1>4, <1>7 DEF FlowInv

-----------------------------------------------------------------------------
(* What one step does to it *)

\* A handler goes on to x with its task, and changes no row and no notes: the
\* analysis that is about to return "ok" with a relevant verdict is not such a step.
GoesOn(t, x) ==
  /\ ~At(t, "idle")
  /\ hand' = [hand EXCEPT ![t] = x]
  /\ x.at # "edit"
  /\ UNCHANGED <<row, notes, newest, dives>>
  /\ \A f \in Filings :
       IF t = <<"analyze", f>>
       THEN x = Returned("ok") => screen'[f] # "positive" \/ analysis'[f] # "relevant"
       ELSE screen'[f] = screen[f] /\ analysis'[f] = analysis[f]

LEMMA GoesOnKeeps ==
  ASSUME TypeOK, FlowInv, NEW t \in Tasks, NEW x, GoesOn(t, x)
  PROVE  FlowInv'
<1> USE TaskParts
<1>1. hand'[t] = x /\ \A u \in Tasks : u # t => hand'[u] = hand[u]
  BY DEF GoesOn, TypeOK
<1>2. \A u \in Tasks : ~At(u, "idle")' => ~At(u, "idle")
  BY <1>1 DEF GoesOn, At
<1>3. InHandIsRunning'
  BY <1>2 DEF GoesOn, FlowInv, InHandIsRunning, At
<1>4. CompileHasTicker'
  BY DEF GoesOn, FlowInv, CompileHasTicker, Present
<1>5. Exclusive'
  BY <1>2 DEF FlowInv, Exclusive, At
<1>6. EditStashed'
  BY <1>1 DEF GoesOn, FlowInv, EditStashed, At
<1>7. ASSUME NEW f \in Filings, Relevant(f)', Concluded(f)' PROVE Followed(f)'
  <2>1. Followed(f)' <=> Followed(f)
    BY DEF GoesOn, Followed, Present
  <2>2. CASE t = <<"analyze", f>>
    <3>1. row[t].status = "running"
      BY <2>2 DEF GoesOn, FlowInv, InHandIsRunning
    <3> QED
      BY <1>1, <1>7, <2>2, <3>1 DEF GoesOn, Concluded, Relevant
  <2>3. CASE t # <<"analyze", f>>
    <3>1. Relevant(f) /\ Concluded(f)
      BY <1>1, <1>7, <2>3 DEF GoesOn, Relevant, Concluded
    <3> QED
      BY <2>1, <3>1 DEF FlowInv, RelevantIsFollowed
  <2> QED
    BY <2>2, <2>3
<1>8. RelevantIsFollowed'
  BY <1>7 DEF RelevantIsFollowed
<1> QED
  BY <1>3, <1>4, <1>5, <1>6, <1>8 DEF FlowInv

LEMMA TakeKeeps ==
  ASSUME TypeOK, FlowInv, NEW t \in Tasks, Take(t)
  PROVE  FlowInv'
<1> USE TaskParts
<1> DEFINE x == Stage(FirstStage[t[1]])
<1>1. /\ At(t, "idle") /\ Claimable(row[t]) /\ ResourceFree(t)
      /\ row' = [row EXCEPT ![t] = Claimed(row[t], MaxAttempts)]
      /\ hand' = [hand EXCEPT ![t] = x]
      /\ UNCHANGED <<screen, analysis, dives, notes, newest>>
  BY DEF Take, Goto
<1>2. hand'[t] = x /\ \A u \in Tasks : u # t => hand'[u] = hand[u]
  BY <1>1 DEF TypeOK
<1>3. x.at \in {"screen", "push", "stash"}
  BY HandAt DEF FirstStage, Kinds
<1>4. /\ row[t] \in Row(MaxAttempts) /\ row'[t] = Claimed(row[t], MaxAttempts)
      /\ \A u \in Tasks : u # t => row'[u] = row[u]
  BY <1>1 DEF TypeOK
<1>5. row[t].status # "absent" /\ row'[t].status = "running"
  BY <1>1, <1>4, ClaimedStatus, FilingAssumption
<1>6. \A u \in Tasks : Present(u)' <=> Present(u)
  BY <1>4, <1>5 DEF Present
<1>7. InHandIsRunning'
  BY <1>2, <1>4, <1>5 DEF FlowInv, InHandIsRunning, At
<1>8. CompileHasTicker'
  BY <1>6 DEF FlowInv, CompileHasTicker
<1>9. Exclusive'
  <2> SUFFICES ASSUME NEW f \in Filings, NEW g \in Filings, f # g,
                      TickerOf[f] = TickerOf[g]
               PROVE  At(<<"compile", f>>, "idle")' \/ At(<<"compile", g>>, "idle")'
    BY DEF Exclusive, At
  <2>1. ASSUME NEW d \in Filings, NEW e \in Filings, d # e, TickerOf[d] = TickerOf[e],
               t = <<"compile", d>>
        PROVE  At(<<"compile", e>>, "idle")'
    <3>1. t[1] = "compile" /\ t[2] = d
      BY <2>1
    <3>2. At(<<"compile", e>>, "idle")
      BY <1>1, <2>1, <3>1 DEF ResourceFree
    <3>3. <<"compile", e>> # t /\ <<"compile", e>> \in Tasks
      BY <2>1
    <3> QED
      BY <1>2, <3>2, <3>3 DEF At
  <2>2. CASE t = <<"compile", f>> \/ t = <<"compile", g>>
    BY <2>1, <2>2
  <2>3. CASE t # <<"compile", f>> /\ t # <<"compile", g>>
    <3>1. At(<<"compile", f>>, "idle") \/ At(<<"compile", g>>, "idle")
      BY DEF FlowInv, Exclusive
    <3>2. /\ hand'[<<"compile", f>>] = hand[<<"compile", f>>]
          /\ hand'[<<"compile", g>>] = hand[<<"compile", g>>]
      BY <1>2, <2>3
    <3> QED
      BY <3>1, <3>2 DEF At
  <2> QED
    BY <2>2, <2>3
<1>10. EditStashed'
  BY <1>1, <1>2, <1>3 DEF FlowInv, EditStashed, At
<1>11. ASSUME NEW f \in Filings, Relevant(f)', Concluded(f)' PROVE Followed(f)'
  <2>1. Relevant(f) /\ (Followed(f)' <=> Followed(f))
    BY <1>1, <1>6, <1>11 DEF Followed, Relevant
  <2>2. x # Returned("ok")
    BY <1>3, HandAt
  <2>3. <<"analyze", f>> \in Tasks /\ <<"analyze", f>> # t
    BY <1>2, <1>4, <1>5, <1>11, <2>2 DEF Concluded
  <2>4. Concluded(f)
    BY <1>2, <1>4, <1>11, <2>3 DEF Concluded
  <2> QED
    BY <2>1, <2>4 DEF FlowInv, RelevantIsFollowed
<1>12. RelevantIsFollowed'
  BY <1>11 DEF RelevantIsFollowed
<1> QED
  BY <1>7, <1>8, <1>9, <1>10, <1>12 DEF FlowInv

LEMMA EnqueueKeeps ==
  ASSUME TypeOK, FlowInv, NEW f \in Filings, EnqueueDownstream(f)
  PROVE  FlowInv'
<1> USE TaskParts
<1> DEFINE a == <<"analyze", f>>
           known == TickerOf[f] # NoTicker
           followers == {<<"notify", f>>} \union (IF known THEN {<<"compile", f>>} ELSE {})
<1>1. /\ ~At(a, "idle")
      /\ row' = [u \in Tasks |-> IF u \in followers THEN Enqueued(row[u]) ELSE row[u]]
      /\ dives' = dives \union (IF known THEN {TickerOf[f]} ELSE {})
      /\ hand' = [hand EXCEPT ![a] = Returned(hand[a].finish)]
      /\ UNCHANGED <<screen, analysis, notes, newest>>
  BY DEF EnqueueDownstream, Returns, At
<1>2. hand'[a].at = "settle" /\ \A u \in Tasks : u # a => hand'[u] = hand[u]
  BY <1>1, HandAt DEF TypeOK
<1>3. \A u \in Tasks : ~At(u, "idle")' => ~At(u, "idle")
  BY <1>1, <1>2 DEF At
<1>4. \A u \in Tasks : row[u] \in Row(MaxAttempts)
  BY DEF TypeOK
<1>5. \A u \in Tasks : Present(u) => row'[u] = row[u]
  BY <1>1, <1>4, EnqueuedStatus, FilingAssumption DEF Present
<1>6. \A u \in Tasks : Present(u)' <=> Present(u) \/ u \in followers
  BY <1>1, <1>4, EnqueuedStatus, FilingAssumption DEF Present
<1>7. InHandIsRunning'
  BY <1>3, <1>5 DEF FlowInv, InHandIsRunning, Present
<1>8. CompileHasTicker'
  <2> SUFFICES ASSUME NEW g \in Filings, <<"compile", g>> \in followers
               PROVE  TickerOf[g] \in Tickers
    BY <1>6 DEF FlowInv, CompileHasTicker
  <2>1. g = f /\ known
    OBVIOUS
  <2> QED
    BY <2>1, FilingAssumption
<1>9. Exclusive'
  BY <1>3 DEF FlowInv, Exclusive, At
<1>10. EditStashed'
  BY <1>1, <1>2 DEF FlowInv, EditStashed, At
<1>11. Followed(f)'
  BY <1>1, <1>6 DEF Followed
<1>12. \A g \in Filings : Followed(g) => Followed(g)'
  BY <1>1, <1>6 DEF Followed
<1>13. ASSUME NEW g \in Filings, g # f, Relevant(g)', Concluded(g)' PROVE Followed(g)'
  <2>1. row'[<<"analyze", g>>] = row[<<"analyze", g>>]
    BY <1>1
  <2>2. hand'[<<"analyze", g>>] = hand[<<"analyze", g>>]
    BY <1>2, <1>13
  <2>3. Relevant(g) /\ Concluded(g)
    BY <1>1, <1>13, <2>1, <2>2 DEF Relevant, Concluded
  <2> QED
    BY <1>12, <2>3 DEF FlowInv, RelevantIsFollowed
<1>14. RelevantIsFollowed'
  BY <1>11, <1>13 DEF RelevantIsFollowed
<1> QED
  BY <1>7, <1>8, <1>9, <1>10, <1>14 DEF FlowInv

\* A company's one compile in hand is the only one to stash or edit its notes.
LEMMA AloneWithNotes ==
  ASSUME FlowInv, NEW f \in Filings, NEW g \in Filings, f # g,
         ~At(<<"compile", f>>, "idle"), ~At(<<"compile", g>>, "idle")
  PROVE  TickerOf[f] # TickerOf[g]
  BY DEF FlowInv, Exclusive

LEMMA CompileKeeps ==
  ASSUME TypeOK, FlowInv, NEW f \in Filings, CompileStep(f)
  PROVE  FlowInv'
<1> USE TaskParts
<1> DEFINE t == <<"compile", f>>
           c == TickerOf[f]
<1>1. ASSUME NEW x, ~At(t, "idle"), hand' = [hand EXCEPT ![t] = x],
             UNCHANGED <<row, screen, analysis, dives>>
      PROVE  /\ hand'[t] = x
             /\ \A u \in Tasks : u # t => hand'[u] = hand[u]
             /\ RelevantIsFollowed' /\ InHandIsRunning' /\ CompileHasTicker' /\ Exclusive'
  <2>1. hand'[t] = x /\ \A u \in Tasks : u # t => hand'[u] = hand[u]
    BY <1>1 DEF TypeOK
  <2>2. \A u \in Tasks : ~At(u, "idle")' => ~At(u, "idle")
    BY <1>1, <2>1 DEF At
  <2>3. InHandIsRunning' /\ CompileHasTicker'
    BY <1>1, <2>2 DEF FlowInv, InHandIsRunning, CompileHasTicker, Present
  <2>4. Exclusive'
    BY <2>2 DEF FlowInv, Exclusive, At
  <2>5. ASSUME NEW g \in Filings, Relevant(g)', Concluded(g)' PROVE Followed(g)'
    <3>1. hand'[<<"analyze", g>>] = hand[<<"analyze", g>>]
      BY <2>1
    <3>2. Relevant(g) /\ Concluded(g) /\ (Followed(g)' <=> Followed(g))
      BY <1>1, <2>5, <3>1 DEF Relevant, Concluded, Followed, Present
    <3> QED
      BY <3>2 DEF FlowInv, RelevantIsFollowed
  <2> QED
    BY <2>1, <2>3, <2>4, <2>5 DEF RelevantIsFollowed
<1>2. ASSUME ~At(t, "idle") PROVE c \in Tickers
  BY <1>2 DEF FlowInv, InHandIsRunning, CompileHasTicker, Present
<1>3. ASSUME NEW stashed \in BOOLEAN, StashForEdit(f, stashed) PROVE FlowInv'
  <2>1. /\ ~At(t, "idle") /\ UNCHANGED notes
        /\ hand' = [hand EXCEPT ![t] = Stage(IF stashed THEN "edit" ELSE "edit_unstashed")]
        /\ newest' = [newest EXCEPT ![c] = IF stashed /\ notes[c] # Missing THEN notes[c]
                                           ELSE newest[c]]
        /\ UNCHANGED <<row, screen, analysis, dives>>
    BY <1>3 DEF StashForEdit, Goto, At
  <2>2. c \in Tickers /\ newest \in [Tickers -> Text]
    BY <1>2, <2>1 DEF TypeOK
  <2>3. /\ stashed => notes[c] = Missing \/ newest'[c] = notes[c]
        /\ \A d \in Tickers : d # c => newest'[d] = newest[d]
    BY <2>1, <2>2
  <2>4. ASSUME NEW g \in Filings, At(<<"compile", g>>, "edit")'
        PROVE  notes[TickerOf[g]] \in {Missing, newest'[TickerOf[g]]}
    <3>1. CASE g = f
      <4>1. hand'[t].at = IF stashed THEN "edit" ELSE "edit_unstashed"
        BY <1>1, <2>1, HandAt
      <4>2. stashed
        BY <2>4, <3>1, <4>1 DEF At
      <4> QED
        BY <2>3, <3>1, <4>2
    <3>2. CASE g # f
      <4>1. At(<<"compile", g>>, "edit")
        BY <1>1, <2>1, <2>4, <3>2 DEF At
      <4>2. TickerOf[g] \in Tickers /\ TickerOf[g] # c
        BY <2>1, <3>2, <4>1, AloneWithNotes
           DEF At, FlowInv, InHandIsRunning, CompileHasTicker, Present
      <4> QED
        BY <2>3, <4>1, <4>2 DEF FlowInv, EditStashed
    <3> QED
      BY <3>1, <3>2
  <2> QED
    BY <1>1, <2>1, <2>4 DEF FlowInv, EditStashed
<1>4. ASSUME NEW size \in 0..MaxSize, NEW finish \in {"ok", "killed", "rate_limit"},
             EditNotes(f, size, finish)
      PROVE  FlowInv'
  <2>1. /\ ~At(t, "idle") /\ UNCHANGED newest
        /\ hand' = [hand EXCEPT ![t] = Returned(finish)]
        /\ UNCHANGED <<row, screen, analysis, dives>>
        /\ \A d \in Tickers : d # c => notes'[d] = notes[d]
    BY <1>4 DEF EditNotes, Returns, At, TypeOK
  <2>2. ASSUME NEW g \in Filings, At(<<"compile", g>>, "edit")'
        PROVE  notes'[TickerOf[g]] \in {Missing, newest[TickerOf[g]]}
    <3>1. g # f
      <4>1. hand'[t].at = "settle"
        BY <1>1, <2>1, HandAt
      <4> QED
        BY <2>2, <4>1 DEF At
    <3>2. At(<<"compile", g>>, "edit")
      BY <1>1, <2>1, <2>2, <3>1 DEF At
    <3>3. TickerOf[g] \in Tickers /\ TickerOf[g] # c
      BY <2>1, <3>1, <3>2, AloneWithNotes
         DEF At, FlowInv, InHandIsRunning, CompileHasTicker, Present
    <3> QED
      BY <2>1, <3>2, <3>3 DEF FlowInv, EditStashed
  <2> QED
    BY <1>1, <2>1, <2>2 DEF FlowInv, EditStashed
<1> QED
  BY <1>3, <1>4 DEF CompileStep

LEMMA AnalyzeKeeps ==
  ASSUME TypeOK, FlowInv, NEW f \in Filings, AnalyzeStep(f)
  PROVE  FlowInv'
<1> USE TaskParts
<1> DEFINE a == <<"analyze", f>>
<1>1. PICK finish \in {"ok", "killed"} :
        \/ \E outcome \in {"negative", "positive"} : ScreenFiling(f, outcome, finish)
        \/ \E result \in {"relevant", "minor"} : AnalyzeFiling(f, result, finish)
        \/ AnalysisUnreadable(f, finish)
        \/ EnqueueDownstream(f)
  BY DEF AnalyzeStep
<1>2. ASSUME NEW x, ~At(a, "idle"), hand' = [hand EXCEPT ![a] = x], x.at # "edit",
             UNCHANGED <<row, notes, newest, dives>>,
             x = Returned("ok") => screen'[f] # "positive" \/ analysis'[f] # "relevant",
             \A g \in Filings : g # f => screen'[g] = screen[g] /\ analysis'[g] = analysis[g]
      PROVE  FlowInv'
  <2>1. \A g \in Filings : a = <<"analyze", g>> <=> g = f
    OBVIOUS
  <2>2. GoesOn(a, x)
    BY <1>2, <2>1 DEF GoesOn
  <2> QED
    BY <2>2, GoesOnKeeps
<1>3. ASSUME NEW outcome \in {"negative", "positive"}, ScreenFiling(f, outcome, finish)
      PROVE  FlowInv'
  <2>1. /\ ~At(a, "idle") /\ UNCHANGED <<row, analysis, notes, newest, dives>>
        /\ screen' = [screen EXCEPT ![f] = outcome]
        /\ hand' = [hand EXCEPT ![a] = IF outcome = "negative" THEN Returned(finish)
                                       ELSE Stage("analyze")]
    BY <1>3 DEF ScreenFiling, Returns, Goto, At
  <2>2. screen'[f] = outcome /\ \A g \in Filings : g # f => screen'[g] = screen[g]
    BY <2>1 DEF TypeOK
  <2>3. CASE outcome = "negative"
    BY <1>2, <2>1, <2>2, <2>3, HandAt DEF Relevant
  <2>4. CASE outcome # "negative"
    <3>1. Stage("analyze").at # "edit" /\ Stage("analyze") # Returned("ok")
      BY HandAt
    <3>2. hand' = [hand EXCEPT ![a] = Stage("analyze")]
      BY <2>1, <2>4
    <3> QED
      BY <1>2, <2>1, <2>2, <3>1, <3>2
  <2> QED
    BY <2>3, <2>4
<1>4. ASSUME NEW result \in {"relevant", "minor"}, AnalyzeFiling(f, result, finish)
      PROVE  FlowInv'
  <2> DEFINE x == IF TradeRelevant(f, result) THEN [at |-> "enqueue", finish |-> finish]
                  ELSE Returned(finish)
  <2>1. /\ ~At(a, "idle") /\ UNCHANGED <<row, screen, notes, newest, dives>>
        /\ analysis' = [analysis EXCEPT ![f] = result]
        /\ hand' = [hand EXCEPT ![a] = x]
    BY <1>4 DEF AnalyzeFiling, At
  <2>2. analysis'[f] = result /\ \A g \in Filings : g # f => analysis'[g] = analysis[g]
    BY <2>1 DEF TypeOK
  <2>3. x.at # "edit" /\ (x = Returned("ok") => result # "relevant")
    BY HandAt DEF TradeRelevant
  <2>4. x = Returned("ok") => analysis'[f] # "relevant"
    BY <2>2, <2>3
  <2> HIDE DEF x
  <2> QED
    BY <1>2, <2>1, <2>2, <2>3, <2>4
<1>5. CASE AnalysisUnreadable(f, finish)
  <2> DEFINE x == IF finish = "killed" THEN finish ELSE "failed"
  <2>1. hand' = [hand EXCEPT ![a] = Returned(x)] /\ x # "ok"
    BY <1>5 DEF AnalysisUnreadable, Returns
  <2> HIDE DEF x
  <2>2. ~At(a, "idle") /\ UNCHANGED <<row, screen, analysis, notes, newest, dives>>
    BY <1>5 DEF AnalysisUnreadable, At
  <2>3. Returned(x).at # "edit" /\ Returned(x) # Returned("ok")
    BY <2>1, HandAt
  <2> QED
    BY <1>2, <2>1, <2>2, <2>3
<1> QED
  BY <1>1, <1>3, <1>4, <1>5, EnqueueKeeps

\* A step of a notify, a rate limit or an exception touches no file of the flow.
LEMMA LeavesFilesKeeps ==
  ASSUME TypeOK, FlowInv, NEW t \in Tasks, NEW x, ~At(t, "idle"),
         hand' = [hand EXCEPT ![t] = x], x.at # "edit",
         UNCHANGED <<row, screen, analysis, dives, notes, newest>>,
         t[1] = "analyze" => x # Returned("ok")
  PROVE  FlowInv'
<1>1. \A f \in Filings : t = <<"analyze", f>> => t[1] = "analyze"
  OBVIOUS
<1>2. GoesOn(t, x)
  BY <1>1 DEF GoesOn
<1> QED
  BY <1>2, GoesOnKeeps

LEMMA NotifyKeeps ==
  ASSUME TypeOK, FlowInv, NEW f \in Filings, NotifyStep(f)
  PROVE  FlowInv'
<1> DEFINE t == <<"notify", f>>
<1>1. ASSUME NEW x, ~At(t, "idle"), hand' = [hand EXCEPT ![t] = x], x.at # "edit",
             UNCHANGED <<row, screen, analysis, dives, notes, newest>>
      PROVE  FlowInv'
  <2>1. t \in Tasks /\ t[1] # "analyze"
    BY TaskParts
  <2> QED
    BY <1>1, <2>1, LeavesFilesKeeps
<1>2. ASSUME NEW arrives \in BOOLEAN, NEW ok \in BOOLEAN, PushNtfy(f, arrives, ok)
      PROVE  FlowInv'
  <2> DEFINE x == IF ok THEN Stage("record") ELSE Returned("failed")
  <2>1. hand' = [hand EXCEPT ![t] = x]
    BY <1>2 DEF PushNtfy, Goto, Returns
  <2>2. x.at # "edit"
    BY HandAt
  <2>3. ~At(t, "idle") /\ UNCHANGED <<row, screen, analysis, dives, notes, newest>>
    BY <1>2 DEF PushNtfy, At
  <2> HIDE DEF x
  <2> QED
    BY <1>1, <2>1, <2>2, <2>3
<1>3. CASE RecordSignal(f)
  <2>1. hand' = [hand EXCEPT ![t] = Returned("ok")] /\ Returned("ok").at # "edit"
    BY <1>3, HandAt DEF RecordSignal, Returns
  <2>2. ~At(t, "idle") /\ UNCHANGED <<row, screen, analysis, dives, notes, newest>>
    BY <1>3 DEF RecordSignal, At
  <2> QED
    BY <1>1, <2>1, <2>2
<1> QED
  BY <1>2, <1>3 DEF NotifyStep

LEMMA SettledRow ==
  ASSUME TypeOK, NEW t \in Tasks, Settle(t)
  PROVE  /\ \A u \in Tasks \ {t} : row'[u] = row[u]
         /\ \/ row'[t].status \in {"queued", "dead_letter"}
            \/ row'[t].status = "success" /\ hand[t].finish = "ok"
<1>1. \A u \in Tasks \ {t} : row'[u] = row[u]
  BY DEF Settle, SettleUnsuccessful, SettleReturned, TypeOK
<1>2. /\ Failed(row[t], MaxAttempts).status \in {"queued", "dead_letter"}
      /\ Succeeded(row[t]).status = "success"
      /\ MarkedPartial(row[t]).status = "queued"
      /\ Unsuccessful(row[t], hand[t].finish, MaxAttempts).status \in {"queued", "dead_letter"}
  BY SettledStatus, FilingAssumption DEF TypeOK
<1>3. CASE SettleUnsuccessful(t)
  BY <1>1, <1>2, <1>3 DEF SettleUnsuccessful, TypeOK
<1>4. ASSUME NEW complaint \in {"none", "partial", "failed"}, SettleReturned(t, complaint)
      PROVE  /\ hand[t].finish = "ok"
             /\ row'[t] \in {Failed(row[t], MaxAttempts), Succeeded(row[t]),
                             MarkedPartial(row[t])}
  BY <1>4 DEF SettleReturned, TypeOK
<1> QED
  BY <1>1, <1>2, <1>3, <1>4 DEF Settle

LEMMA SettleKeeps ==
  ASSUME TypeOK, FlowInv, NEW t \in Tasks, Settle(t)
  PROVE  FlowInv'
<1> USE TaskParts
<1>1. /\ At(t, "settle") /\ hand' = [hand EXCEPT ![t] = Idle]
      /\ UNCHANGED <<screen, analysis, dives, notes, newest>>
  BY DEF Settle, SettleUnsuccessful, SettleReturned, Leave
<1>2. hand'[t].at = "idle" /\ \A u \in Tasks : u # t => hand'[u] = hand[u]
  BY <1>1, HandAt DEF TypeOK
<1>3. /\ row[t] \in Row(MaxAttempts) /\ row[t].status = "running"
      /\ hand[t] \in Hand(Stages)
  BY <1>1 DEF TypeOK, FlowInv, InHandIsRunning, At
<1>4. \A u \in Tasks : u # t => row'[u] = row[u]
  BY SettledRow
<1>5. \/ row'[t].status \in {"queued", "dead_letter"}
      \/ row'[t].status = "success" /\ hand[t].finish = "ok"
  BY SettledRow
<1>6. \A u \in Tasks : Present(u)' <=> Present(u)
  BY <1>3, <1>4, <1>5 DEF Present
<1>7. InHandIsRunning'
  BY <1>2, <1>4 DEF FlowInv, InHandIsRunning, At
<1>8. CompileHasTicker'
  BY <1>6 DEF FlowInv, CompileHasTicker
<1>9. \A u \in Tasks : u # t => (At(u, "idle")' <=> At(u, "idle"))
  BY <1>2 DEF At
<1>10. At(t, "idle")'
  BY <1>2 DEF At
<1>11. Exclusive'
  BY <1>9, <1>10 DEF FlowInv, Exclusive
<1>12. EditStashed'
  BY <1>1, <1>2 DEF FlowInv, EditStashed, At
<1>13. ASSUME NEW f \in Filings, Relevant(f)', Concluded(f)' PROVE Followed(f)'
  <2>1. Relevant(f) /\ (Followed(f)' <=> Followed(f))
    BY <1>1, <1>6, <1>13 DEF Relevant, Followed
  <2>2. CASE t = <<"analyze", f>>
    <3>1. hand'[t] # Returned("ok")
      BY <1>2, HandAt
    <3>2. hand[t].finish = "ok"
      BY <1>5, <1>13, <2>2, <3>1 DEF Concluded
    <3>3. hand[t] = Returned("ok")
      BY <1>1, <1>3, <3>2 DEF Hand, Returned, At
    <3> QED
      BY <2>1, <2>2, <3>3 DEF FlowInv, RelevantIsFollowed, Concluded
  <2>3. CASE t # <<"analyze", f>>
    BY <1>2, <1>4, <1>13, <2>1, <2>3 DEF FlowInv, RelevantIsFollowed, Concluded
  <2> QED
    BY <2>2, <2>3
<1>14. RelevantIsFollowed'
  BY <1>13 DEF RelevantIsFollowed
<1> QED
  BY <1>7, <1>8, <1>11, <1>12, <1>14 DEF FlowInv

LEMMA FlowInvStep ==
  ASSUME TypeOK, FlowInv, [Next]_vars
  PROVE  FlowInv'
<1>1. ASSUME NEW t \in Tasks, Work(t) PROVE FlowInv'
  BY <1>1, TaskParts, TakeKeeps, AnalyzeKeeps, NotifyKeeps, CompileKeeps, SettleKeeps
     DEF Work
<1>2. ASSUME NEW t \in Tasks, RateLimited(t) \/ HandlerRaises(t) PROVE FlowInv'
  <2>1. PICK finish : /\ hand' = [hand EXCEPT ![t] = Returned(finish)]
                      /\ finish # "ok"
    BY <1>2 DEF RateLimited, HandlerRaises, Returns
  <2>2. ~At(t, "idle") /\ UNCHANGED <<row, screen, analysis, dives, notes, newest>>
    BY <1>2 DEF RateLimited, HandlerRaises, At
  <2>3. Returned(finish).at # "edit" /\ Returned(finish) # Returned("ok")
    BY <2>1, HandAt
  <2> QED
    BY <2>1, <2>2, <2>3, LeavesFilesKeeps
<1>3. CASE Crash
  <2>1. /\ UNCHANGED <<row, screen, analysis, dives, notes, newest>>
        /\ \A t \in Tasks : hand'[t] = Idle /\ At(t, "idle")'
    BY <1>3, HandAt DEF Crash, At
  <2>2. InHandIsRunning' /\ Exclusive'
    BY <2>1, TaskParts DEF InHandIsRunning, Exclusive
  <2>3. CompileHasTicker'
    BY <2>1 DEF FlowInv, CompileHasTicker, Present
  <2>4. EditStashed'
    BY <2>1, TaskParts DEF EditStashed, At
  <2>5. ASSUME NEW f \in Filings, Relevant(f)', Concluded(f)' PROVE Followed(f)'
    <3>1. Concluded(f)
      BY <2>1, <2>5, TaskParts, HandAt DEF Concluded
    <3> QED
      BY <2>1, <2>5, <3>1
         DEF FlowInv, RelevantIsFollowed, Relevant, Followed, Present
  <2> QED
    BY <2>2, <2>3, <2>4, <2>5 DEF FlowInv, RelevantIsFollowed
<1>4. CASE UNCHANGED vars
  BY <1>4 DEF vars, FlowInv, RelevantIsFollowed, InHandIsRunning, CompileHasTicker,
     Exclusive, EditStashed, Relevant, Concluded, Followed, Present, At
<1> QED
  BY <1>1, <1>2, <1>3, <1>4 DEF Next

LEMMA FlowInvariant == Spec => [](TypeOK /\ FlowInv)
<1>1. Init => TypeOK /\ FlowInv
  BY FilingTypeInit, FlowInvInit
<1>2. TypeOK /\ FlowInv /\ [Next]_vars => (TypeOK /\ FlowInv)'
  BY FilingTypeStep, FlowInvStep
<1> QED
  BY <1>1, <1>2, PTL DEF Spec

\* A filing that is settled with a signal worth acting on has everything queued
\* that follows from it, whatever its handler was asked again after crashes, kills
\* and rate limits (analyze_filing.py handle, _enqueue_downstream).
THEOREM RelevantIsAlwaysQueued == Spec => []RelevantIsQueued
<1>1. FlowInv => RelevantIsQueued
  BY DEF FlowInv, RelevantIsFollowed, RelevantIsQueued, Relevant, Concluded, Followed, Present
<1> QED
  BY <1>1, FlowInvariant, PTL

\* No step replaces a text of notes.md that was not stashed, unless its stashing
\* failed, for any number of filings of one company (compile_to_wiki.py handle,
\* backup.py stash_for_edit, enqueue.py _resource_key_for).
THEOREM ReplacedIsAlwaysStashed == Spec => ReplacedIsStashed
<1>1. FlowInv /\ [Next]_vars =>
        [\A f \in Filings :
           At(<<"compile", f>>, "edit") /\ notes'[TickerOf[f]] # notes[TickerOf[f]] =>
             notes[TickerOf[f]] \in {Missing, newest[TickerOf[f]]}]_vars
  BY DEF FlowInv, EditStashed
<1> QED
  BY <1>1, FlowInvariant, PTL DEF Spec, ReplacedIsStashed

-----------------------------------------------------------------------------
(* The queue *)

InHand == {t \in Tasks : ~At(t, "idle")}

\* A step that changes no row and no hand from idle or to idle is none of the queue.
LEMMA QueueStands ==
  ASSUME row' = row, InHand' = InHand
  PROVE  UNCHANGED Queue!vars
  BY DEF Queue!vars, InHand

LEMMA QueueSubmits ==
  ASSUME NEW S \in SUBSET Tasks, \A t \in S : row[t].status = "absent",
         \A t \in Tasks : row'[t].status = IF t \in S THEN "queued" ELSE row[t].status,
         InHand' = InHand
  PROVE  Queue!Next
<1>1. S \in SUBSET Queue!New
  BY QueueStates DEF Queue!New
<1>2. Queue!Submit(S)
  BY QueueStates DEF Queue!Submit, InHand
<1> QED
  BY <1>1, <1>2 DEF Queue!Next

LEMMA QueueTakes ==
  ASSUME NEW t \in Tasks, row[t].status \in {"queued", "running"}, t \notin InHand,
         \A u \in Tasks : row'[u].status = IF u = t THEN "running" ELSE row[u].status,
         InHand' = InHand \union {t}, Queue!Free(t)
  PROVE  Queue!Next
<1>1. Queue!Take(t)
  BY QueueStates DEF Queue!Take, InHand
<1> QED
  BY <1>1 DEF Queue!Next

LEMMA QueueFinishes ==
  ASSUME NEW t \in InHand, row[t].status = "running",
         row'[t].status \in {"queued", "success", "dead_letter"},
         \A u \in Tasks \ {t} : row'[u].status = row[u].status,
         InHand' = InHand \ {t}
  PROVE  Queue!Next
<1> DEFINE result == QueueState[row'[t].status]
<1>1. t \in Tasks /\ result \in Queue!Results(QueueState[row[t].status])
  BY QueueStates DEF Queue!Results, InHand
<1>2. Queue!Finish(t, result, {})
  BY <1>1 DEF Queue!Finish, InHand
<1>3. {} \in SUBSET Queue!Waiting
  OBVIOUS
<1> HIDE DEF result
<1> QED
  BY <1>1, <1>2, <1>3 DEF Queue!Next, InHand

LEMMA QueueLoses ==
  ASSUME row' = row, InHand' = {}
  PROVE  Queue!Next
<1>1. Queue!Vanish(InHand)
  BY DEF Queue!Vanish, InHand
<1> QED
  BY <1>1 DEF Queue!Next, InHand

LEMMA UsesQueueStep ==
  ASSUME TypeOK, FlowInv, [Next]_vars
  PROVE  [Queue!Next]_(Queue!vars)
<1> USE TaskParts
<1>1. ASSUME NEW t \in Tasks, NEW x, ~At(t, "idle"), x.at # "idle",
             hand' = [hand EXCEPT ![t] = x]
      PROVE  InHand' = InHand
  BY <1>1 DEF InHand, At, TypeOK
<1>2. ASSUME NEW t \in Tasks, Take(t) PROVE Queue!Next
  <2> DEFINE x == Stage(FirstStage[t[1]])
  <2>1. /\ At(t, "idle") /\ Claimable(row[t]) /\ ResourceFree(t)
        /\ row' = [row EXCEPT ![t] = Claimed(row[t], MaxAttempts)]
        /\ hand' = [hand EXCEPT ![t] = x]
    BY <1>2 DEF Take, Goto
  <2>2. /\ row[t].status \in {"queued", "running"}
        /\ \A u \in Tasks : row'[u].status = IF u = t THEN "running" ELSE row[u].status
    BY <2>1 DEF TypeOK, Claimable, Claimed
  <2>3. x.at # "idle"
    BY HandAt DEF FirstStage, Kinds
  <2>4. t \notin InHand /\ InHand' = InHand \union {t}
    BY <2>1, <2>3 DEF InHand, At, TypeOK
  <2>5. Queue!Free(t)
    <3>1. ASSUME NEW u \in Tasks, t[1] = "compile", u[1] = "compile",
                 TickerOf[u[2]] = TickerOf[t[2]]
          PROVE  At(u, "idle")
      <4>1. u = <<"compile", u[2]>> /\ u[2] \in Filings
        BY <3>1
      <4> QED
        BY <2>1, <3>1, <4>1 DEF ResourceFree
    <3> QED
      BY <3>1 DEF Queue!Free
  <2> QED
    BY <2>2, <2>4, <2>5, QueueTakes
<1>3. ASSUME NEW f \in Filings, EnqueueDownstream(f) PROVE Queue!Next
  <2> DEFINE a == <<"analyze", f>>
             followers == {<<"notify", f>>}
                \union (IF TickerOf[f] # NoTicker THEN {<<"compile", f>>} ELSE {})
             S == {u \in followers : row[u].status = "absent"}
  <2>1. /\ ~At(a, "idle") /\ hand' = [hand EXCEPT ![a] = Returned(hand[a].finish)]
        /\ row' = [u \in Tasks |-> IF u \in followers THEN Enqueued(row[u]) ELSE row[u]]
    BY <1>3 DEF EnqueueDownstream, Returns, At
  <2>2. InHand' = InHand
    BY <1>1, <2>1, HandAt
  <2>3. \A u \in Tasks : row'[u].status = IF u \in S THEN "queued" ELSE row[u].status
    BY <2>1, EnqueuedStatus, FilingAssumption DEF TypeOK
  <2>4. S \in SUBSET Tasks /\ \A u \in S : row[u].status = "absent"
    OBVIOUS
  <2> HIDE DEF S
  <2> QED
    BY <2>2, <2>3, <2>4, QueueSubmits
<1>4. ASSUME NEW t \in Tasks, Settle(t) PROVE Queue!Next
  <2>1. At(t, "settle") /\ hand' = [hand EXCEPT ![t] = Idle]
    BY <1>4 DEF Settle, SettleUnsuccessful, SettleReturned, Leave
  <2>2. t \in InHand /\ InHand' = InHand \ {t}
    BY <2>1, HandAt DEF InHand, At, TypeOK
  <2>3. row[t].status = "running"
    BY <2>2 DEF InHand, FlowInv, InHandIsRunning
  <2> QED
    BY <1>4, <2>2, <2>3, SettledRow, QueueFinishes
<1>5. CASE Crash
  <2>1. row' = row /\ InHand' = {}
    BY <1>5, HandAt DEF Crash, InHand, At
  <2> QED
    BY <2>1, QueueLoses
<1>6. ASSUME NEW t \in Tasks, RateLimited(t) \/ HandlerRaises(t)
      PROVE  UNCHANGED Queue!vars
  <2>1. PICK finish : hand' = [hand EXCEPT ![t] = Returned(finish)]
    BY <1>6 DEF RateLimited, HandlerRaises, Returns
  <2>2. ~At(t, "idle") /\ row' = row
    BY <1>6 DEF RateLimited, HandlerRaises, At
  <2> QED
    BY <1>1, <2>1, <2>2, HandAt, QueueStands
<1>7. ASSUME NEW f \in Filings, AnalyzeStep(f), ~EnqueueDownstream(f)
      PROVE  UNCHANGED Queue!vars
  <2> DEFINE a == <<"analyze", f>>
  <2>1. ~At(a, "idle") /\ row' = row
    BY <1>7 DEF AnalyzeStep, ScreenFiling, AnalyzeFiling, AnalysisUnreadable, At
  <2>2. \E x : x.at # "idle" /\ hand' = [hand EXCEPT ![a] = x]
    <3>1. PICK finish \in {"ok", "killed"} :
            \/ \E outcome \in {"negative", "positive"} : ScreenFiling(f, outcome, finish)
            \/ \E result \in {"relevant", "minor"} : AnalyzeFiling(f, result, finish)
            \/ AnalysisUnreadable(f, finish)
      BY <1>7 DEF AnalyzeStep
    <3>2. \/ \E y : hand' = [hand EXCEPT ![a] = Returned(y)]
          \/ hand' = [hand EXCEPT ![a] = Stage("analyze")]
          \/ hand' = [hand EXCEPT ![a] = [at |-> "enqueue", finish |-> finish]]
      BY <3>1 DEF ScreenFiling, AnalyzeFiling, AnalysisUnreadable, Returns, Goto
    <3>3. /\ \A y : Returned(y).at # "idle"
          /\ Stage("analyze").at # "idle"
          /\ [at |-> "enqueue", finish |-> finish].at # "idle"
      BY HandAt
    <3> QED
      BY <3>2, <3>3
  <2> QED
    BY <1>1, <2>1, <2>2, QueueStands
<1>8. ASSUME NEW f \in Filings, NotifyStep(f) PROVE UNCHANGED Queue!vars
  <2> DEFINE n == <<"notify", f>>
  <2>1. ~At(n, "idle") /\ row' = row
    BY <1>8 DEF NotifyStep, PushNtfy, RecordSignal, At
  <2>2. \/ hand' = [hand EXCEPT ![n] = Stage("record")]
        \/ \E y : hand' = [hand EXCEPT ![n] = Returned(y)]
    BY <1>8 DEF NotifyStep, PushNtfy, RecordSignal, Goto, Returns
  <2>3. Stage("record").at # "idle" /\ \A y : Returned(y).at # "idle"
    BY HandAt
  <2> QED
    BY <1>1, <2>1, <2>2, <2>3, QueueStands
<1>9. ASSUME NEW f \in Filings, CompileStep(f) PROVE UNCHANGED Queue!vars
  <2> DEFINE c == <<"compile", f>>
  <2>1. ~At(c, "idle") /\ row' = row
    BY <1>9 DEF CompileStep, StashForEdit, EditNotes, At
  <2>2. \/ hand' = [hand EXCEPT ![c] = Stage("edit")]
        \/ hand' = [hand EXCEPT ![c] = Stage("edit_unstashed")]
        \/ \E y : hand' = [hand EXCEPT ![c] = Returned(y)]
    BY <1>9 DEF CompileStep, StashForEdit, EditNotes, Goto, Returns
  <2>3. /\ Stage("edit").at # "idle" /\ Stage("edit_unstashed").at # "idle"
        /\ \A y : Returned(y).at # "idle"
    BY HandAt
  <2> QED
    BY <1>1, <2>1, <2>2, <2>3, QueueStands
<1>10. CASE UNCHANGED vars
  <2>1. row' = row /\ InHand' = InHand
    BY <1>10 DEF vars, InHand, At
  <2> QED
    BY <2>1, QueueStands
<1> QED
  BY <1>2, <1>3, <1>4, <1>5, <1>6, <1>7, <1>8, <1>9, <1>10 DEF Next, Work

\* Every behaviour of the flow is one of the queue: followers are submitted once,
\* by analyses that are run again too, nothing settled is taken again, and a
\* company's notes are in one compile's hands, for any filings (enqueue.py
\* enqueue_task, _resource_key_for, analyze_filing.py _enqueue_downstream).
THEOREM FilingsUseQueue == Spec => UsesQueue
<1>1. TypeOK /\ FlowInv /\ [Next]_vars => [Queue!Next]_(Queue!vars)
  BY UsesQueueStep
<1> QED
  BY <1>1, FlowInvariant, PTL DEF Spec, UsesQueue
=============================================================================
