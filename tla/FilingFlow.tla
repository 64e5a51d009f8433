----------------------------- MODULE FilingFlow -----------------------------
(***************************************************************************)
(* What becomes of a filing or press release once its analyze_filing task  *)
(* is queued: the cheap screen, the analysis, and for a signal worth       *)
(* acting on the push to a phone, the entry in the company's notes, and a  *)
(* dive.  LLM calls may answer anything, differently each time they are    *)
(* asked; a retry begins the handler anew.                                 *)
(*                                                                         *)
(* A step is one transaction, one file write, one push, or an LLM call     *)
(* with the files it writes.  A text is known by its size and by who wrote *)
(* it last.                                                                *)
(***************************************************************************)
EXTENDS HandlerTask, FiniteSets

CONSTANTS
  Filings,
  Tickers,
  NoTicker,
  TickerOf,     \* the ticker in each filing's payload, or NoTicker
  Earlier,      \* filings analysed and pushed before, with the notes left to do
  MaxAttempts,  \* max_attempts
  MaxSize,      \* bound: units a notes.md may grow to
  MaxFaults     \* bound: crashes, exceptions, kills, rate limits

ASSUME FilingAssumption ==
  /\ NoTicker \notin Tickers
  /\ TickerOf \in [Filings -> Tickers \union {NoTicker}]
  /\ \A f \in Earlier : f \in Filings /\ TickerOf[f] \in Tickers
  /\ MaxAttempts \in Nat \ {0}
  /\ MaxSize \in Nat
  /\ MaxFaults \in Nat

Kinds == {"analyze", "notify", "compile"}
Tasks == Kinds \X Filings

VARIABLES
  row,       \* of each task
  hand,      \* of each task: where its handler is
  screen,    \* outcome in screen.json of each filing
  analysis,  \* of each filing: whether analysis.json is trade relevant
  dives,     \* tickers with an orchestrate_dive task; one a day may be queued
  pushed,    \* filings whose push has reached ntfy
  signals,   \* filings with a row, or several, in signals_fired
  notes,     \* notes.md of each company
  newest,    \* the newest backup of it
  faults

vars == <<row, hand, screen, analysis, dives, pushed, signals, notes, newest,
          faults>>

Stages == {"screen", "analyze", "enqueue", "push", "record", "stash", "edit",
           "edit_unstashed"}

Text == [size : 0..MaxSize, by : Filings \union {"someone"}]

Missing == [size |-> 0, by |-> "someone"]

TypeOK ==
  /\ row \in [Tasks -> Row(MaxAttempts)]
  /\ hand \in [Tasks -> Hand(Stages)]
  /\ screen \in [Filings -> {"none", "negative", "positive"}]
  /\ analysis \in [Filings -> {"none", "relevant", "minor"}]
  /\ dives \subseteq Tickers
  /\ pushed \subseteq Filings
  /\ signals \subseteq Filings
  /\ notes \in [Tickers -> Text]
  /\ newest \in [Tickers -> Text]
  /\ faults \in 0..MaxFaults

Waiting(t) == t[1] = IF t[2] \in Earlier THEN "compile" ELSE "analyze"

Done(t) == t[2] \in Earlier /\ ~Waiting(t)

Init ==
  /\ row = [t \in Tasks |-> IF Waiting(t) THEN Enqueued(NoRow)
                            ELSE IF Done(t) THEN Succeeded(NoRow) ELSE NoRow]
  /\ hand = [t \in Tasks |-> Idle]
  /\ screen = [f \in Filings |-> IF f \in Earlier THEN "positive" ELSE "none"]
  /\ analysis = [f \in Filings |-> IF f \in Earlier THEN "relevant" ELSE "none"]
  /\ dives = {TickerOf[f] : f \in Earlier}
  /\ pushed = Earlier
  /\ signals = Earlier
  /\ notes \in [Tickers -> {Missing, [size |-> MaxSize, by |-> "someone"]}]
  /\ newest = [c \in Tickers |-> Missing]
  /\ faults = 0

Fault == faults < MaxFaults /\ faults' = faults + 1

At(t, stage) == hand[t].at = stage

Goto(t, stage) == hand' = [hand EXCEPT ![t] = Stage(stage)]

Returns(t, finish) == hand' = [hand EXCEPT ![t] = Returned(finish)]

Calm == UNCHANGED faults

-----------------------------------------------------------------------------
\* The dispatcher hands tasks out

FirstStage == [analyze |-> "screen", notify |-> "push", compile |-> "stash"]

\* Faulty: compile_to_wiki has no resource_key.
ResourceFreeAlways(t) == TRUE

\* Of the tasks here only compile_to_wiki has a resource_key: company:<ticker>.
ResourceFree(t) ==
  t[1] = "compile" =>
    \A f \in Filings : TickerOf[f] = TickerOf[t[2]] => At(<<"compile", f>>, "idle")

Take(t) ==
  /\ At(t, "idle")
  /\ Claimable(row[t])
  /\ ResourceFree(t)
  /\ row' = [row EXCEPT ![t] = Claimed(@, MaxAttempts)]
  /\ Goto(t, FirstStage[t[1]])
  /\ UNCHANGED <<screen, analysis, dives, pushed, signals, notes, newest, faults>>

-----------------------------------------------------------------------------
\* analyze_filing

\* The first LLM call and screen.json.  An answer that cannot be read counts as
\* neutral, which goes on like a positive one.  A call that was killed is only
\* noticed when its result is the one returned.
ScreenFiling(f, outcome, finish) ==
  LET t == <<"analyze", f>> IN
  /\ At(t, "screen")
  /\ IF finish = "killed" THEN Fault ELSE Calm
  /\ screen' = [screen EXCEPT ![f] = outcome]
  /\ IF outcome = "negative" THEN Returns(t, finish) ELSE Goto(t, "analyze")
  /\ UNCHANGED <<row, analysis, dives, pushed, signals, notes, newest>>

\* Faulty: an analysis that is on disk already was acted on already.
TradeRelevantIfNew(f, result) == result = "relevant" /\ analysis[f] = "none"

\* A magnitude of 0.5 and more, positive or neutral.
TradeRelevant(f, result) == result = "relevant"

\* The second LLM call and analysis.json.
AnalyzeFiling(f, result, finish) ==
  LET t == <<"analyze", f>> IN
  /\ At(t, "analyze")
  /\ IF finish = "killed" THEN Fault ELSE Calm
  /\ analysis' = [analysis EXCEPT ![f] = result]
  /\ hand' = [hand EXCEPT ![t] =
       IF TradeRelevant(f, result) THEN [at |-> "enqueue", finish |-> finish]
       ELSE Returned(finish)]
  /\ UNCHANGED <<row, screen, dives, pushed, signals, notes, newest>>

\* The answer is no JSON or does not fit the schema.
AnalysisUnreadable(f, finish) ==
  /\ At(<<"analyze", f>>, "analyze")
  /\ IF finish = "killed" THEN Fault ELSE Calm
  /\ Returns(<<"analyze", f>>, IF finish = "killed" THEN finish ELSE "failed")
  /\ UNCHANGED <<row, screen, analysis, dives, pushed, signals, notes, newest>>

\* One transaction.
EnqueueDownstream(f) ==
  LET t == <<"analyze", f>>
      known == TickerOf[f] # NoTicker
      followers == {<<"notify", f>>} \union (IF known THEN {<<"compile", f>>} ELSE {})
  IN
  /\ At(t, "enqueue")
  /\ row' = [u \in Tasks |-> IF u \in followers THEN Enqueued(row[u]) ELSE row[u]]
  /\ dives' = dives \union (IF known THEN {TickerOf[f]} ELSE {})
  /\ Returns(t, hand[t].finish)
  /\ UNCHANGED <<screen, analysis, pushed, signals, notes, newest, faults>>

AnalysisValid(f) == screen[f] = "negative" \/ analysis[f] # "none"

-----------------------------------------------------------------------------
\* notify

\* Up to four tries, of which one that seems to fail may have arrived.
PushNtfy(f, arrives, ok) ==
  LET t == <<"notify", f>> IN
  /\ At(t, "push")
  /\ ok => arrives
  /\ pushed' = pushed \union (IF arrives THEN {f} ELSE {})
  /\ IF ok THEN Goto(t, "record") ELSE Returns(t, "failed")
  /\ UNCHANGED <<row, screen, analysis, dives, signals, notes, newest, faults>>

\* The row in signals_fired; the line in notify.log may fail.
RecordSignal(f) ==
  /\ At(<<"notify", f>>, "record")
  /\ signals' = signals \union {f}
  /\ Returns(<<"notify", f>>, "ok")
  /\ UNCHANGED <<row, screen, analysis, dives, pushed, notes, newest, faults>>

-----------------------------------------------------------------------------
\* compile_to_wiki

\* A backup keeps the modification time of its original, so the newest one is
\* of the latest text stashed.  A failure is logged.
StashForEdit(f, stashed) ==
  LET t == <<"compile", f>>
      c == TickerOf[f]
  IN
  /\ At(t, "stash")
  /\ IF stashed THEN Calm ELSE Fault
  /\ newest' = [newest EXCEPT ![c] = IF stashed /\ notes[c] # Missing THEN notes[c]
                                     ELSE @]
  /\ Goto(t, IF stashed THEN "edit" ELSE "edit_unstashed")
  /\ UNCHANGED <<row, screen, analysis, dives, pushed, signals, notes>>

\* The LLM appends, or against its orders rewrites, or does nothing.
EditNotes(f, size, finish) ==
  LET t == <<"compile", f>>
      c == TickerOf[f]
  IN
  /\ At(t, "edit") \/ At(t, "edit_unstashed")
  /\ IF finish = "ok" THEN Calm ELSE Fault
  /\ notes' = [notes EXCEPT ![c] = IF size = 0 THEN @ ELSE [size |-> size, by |-> f]]
  /\ Returns(t, finish)
  /\ UNCHANGED <<row, screen, analysis, dives, pushed, signals, newest>>

\* More than a quarter of the newest backup is gone.
Shrunk(c) == 4 * notes[c].size < 3 * newest[c].size

CompileValid(f) == LET c == TickerOf[f] IN notes[c] # Missing /\ ~Shrunk(c)

-----------------------------------------------------------------------------
\* Rate limits and exceptions, wherever the handler is

RateLimited(t) ==
  /\ hand[t].at \in {"screen", "analyze"}
  /\ Fault
  /\ Returns(t, "rate_limit")
  /\ UNCHANGED <<row, screen, analysis, dives, pushed, signals, notes, newest>>

HandlerRaises(t) ==
  /\ hand[t].at \notin {"idle", "settle"}
  /\ Fault
  /\ Returns(t, "failed")
  /\ UNCHANGED <<row, screen, analysis, dives, pushed, signals, notes, newest>>

-----------------------------------------------------------------------------
\* The settlement

Leave(t) ==
  /\ hand' = [hand EXCEPT ![t] = Idle]
  /\ UNCHANGED <<screen, analysis, dives, pushed, signals, notes, newest, faults>>

SettleUnsuccessful(t) ==
  /\ At(t, "settle")
  /\ hand[t].finish # "ok"
  /\ row' = [row EXCEPT ![t] = Unsuccessful(@, hand[t].finish, MaxAttempts)]
  /\ Leave(t)

\* Where something is in order and something is not the row is partial.  The
\* validator of a compile also asks for wikilinks, a journal and LOG.md.
SettleReturned(t, complaint) ==
  /\ At(t, "settle")
  /\ hand[t].finish = "ok"
  /\ complaint \in (IF t[1] = "compile" THEN {"none", "partial", "failed"} ELSE {"none"})
  /\ row' = [row EXCEPT ![t] =
       IF complaint = "failed" THEN Failed(@, MaxAttempts)
       ELSE IF /\ complaint = "none"
               /\ t[1] = "analyze" => AnalysisValid(t[2])
               /\ t[1] = "compile" => CompileValid(t[2])
       THEN Succeeded(@)
       ELSE MarkedPartial(@)]
  /\ Leave(t)

-----------------------------------------------------------------------------
\* Every handler is lost, every row stays.
Crash ==
  /\ \E t \in Tasks : ~At(t, "idle")
  /\ Fault
  /\ hand' = [t \in Tasks |-> Idle]
  /\ UNCHANGED <<row, screen, analysis, dives, pushed, signals, notes, newest>>

AnalyzeStep(f) ==
  \E finish \in {"ok", "killed"} :
    \/ \E outcome \in {"negative", "positive"} : ScreenFiling(f, outcome, finish)
    \/ \E result \in {"relevant", "minor"} : AnalyzeFiling(f, result, finish)
    \/ AnalysisUnreadable(f, finish)
    \/ EnqueueDownstream(f)

NotifyStep(f) ==
  \/ \E arrives \in BOOLEAN, ok \in BOOLEAN : PushNtfy(f, arrives, ok)
  \/ RecordSignal(f)

CompileStep(f) ==
  \/ \E stashed \in BOOLEAN : StashForEdit(f, stashed)
  \/ \E size \in 0..MaxSize, finish \in {"ok", "killed", "rate_limit"} :
       EditNotes(f, size, finish)

Settle(t) ==
  \/ SettleUnsuccessful(t)
  \/ \E complaint \in {"none", "partial", "failed"} : SettleReturned(t, complaint)

Work(t) ==
  \/ Take(t)
  \/ t[1] = "analyze" /\ AnalyzeStep(t[2])
  \/ t[1] = "notify" /\ NotifyStep(t[2])
  \/ t[1] = "compile" /\ CompileStep(t[2])
  \/ Settle(t)

Next ==
  \/ \E t \in Tasks : Work(t) \/ RateLimited(t) \/ HandlerRaises(t)
  \/ Crash

Spec == Init /\ [][Next]_vars

\* The dispatcher hands out what is queued or lost, a handler ends within its
\* wall clock, and its settlement is attempted.  Of pushes no more is asked.
Fairness == \A f \in Filings : WF_vars(Work(<<"notify", f>>))

FairSpec == Spec /\ Fairness

-----------------------------------------------------------------------------
\* The flow uses the queue as the dispatcher promises it: a follower is submitted
\* once, by an analysis that is run again too, what is settled is not taken again,
\* and of the compiles for one company one is in hand (enqueue.py enqueue_task,
\* _resource_key_for, analyze_filing.py _enqueue_downstream).
Queue == INSTANCE TaskQueue WITH
  Resource <- [t \in Tasks |-> IF t[1] = "compile" THEN TickerOf[t[2]] ELSE NoTicker],
  NoResource <- NoTicker,
  LateCancels <- {},
  state <- [t \in Tasks |-> QueueState[row[t].status]],
  working <- {t \in Tasks : ~At(t, "idle")}

UsesQueue == [][Queue!Next]_(Queue!vars)

\* A filing that is settled with a signal worth acting on has its push, its entry
\* in the notes and a dive queued, though the analysis was on disk before they
\* were, a crash in between made the handler begin anew, and the second answer
\* may differ from the first (analyze_filing.py handle, _enqueue_downstream).
RelevantIsQueued ==
  \A f \in Filings :
    (/\ row[<<"analyze", f>>].status = "success"
     /\ screen[f] = "positive"
     /\ analysis[f] = "relevant") =>
    /\ row[<<"notify", f>>].status # "absent"
    /\ TickerOf[f] # NoTicker =>
         /\ row[<<"compile", f>>].status # "absent"
         /\ TickerOf[f] \in dives

\* No text of notes.md is replaced that was not stashed before, unless stashing it
\* failed: two compiles for one company never stash the same text and then
\* overwrite each other's (compile_to_wiki.py handle, backup.py stash_for_edit,
\* enqueue.py _resource_key_for).
ReplacedIsStashed ==
  [][\A f \in Filings :
       At(<<"compile", f>>, "edit") /\ notes'[TickerOf[f]] # notes[TickerOf[f]] =>
         notes[TickerOf[f]] \in {Missing, newest[TickerOf[f]]}]_vars

\* A signal worth acting on reaches the phone, or its task is given up after
\* max_attempts, through crashes, lost handlers and pushes that fail
\* (analyze_filing.py, notify.py, worker.py _handle_failure).
SignalIsPushed ==
  \A f \in Filings :
    (/\ row[<<"analyze", f>>].status = "success"
     /\ screen[f] = "positive"
     /\ analysis[f] = "relevant") ~>
    f \in pushed \/ row[<<"notify", f>>].status = "dead_letter"
=============================================================================
