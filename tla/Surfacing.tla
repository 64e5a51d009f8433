----------------------------- MODULE Surfacing -----------------------------
(***************************************************************************)
(* surface_ideas: an LLM call that proposes ideas, the memory of what was  *)
(* proposed in the last 24 hours, the push for an urgent idea, and the     *)
(* dives that are opened without anybody asking, up to a number a day.     *)
(*                                                                         *)
(* An idea is known by its subject, which is what its dedup_handle hashes  *)
(* (type, tickers, themes), and by its evidence.  A step is one            *)
(* transaction, with the LLM call and the reads that come before it.  The  *)
(* batch file, current.md and the bullets in themes are left out: nothing  *)
(* reads them back.                                                        *)
(***************************************************************************)
EXTENDS HandlerTask, FiniteSets

CONSTANTS
  Runs,                  \* surface_ideas tasks, of the scheduler and of others
  Subjects,
  Evidence,
  TypeOf,                \* idea_type of a subject
  TickersOf,             \* tickers of a subject, UNKNOWN left out
  AUTODISPATCH_DAILY_CAP,
  MAX_IDEAS_PER_BATCH,
  DayLength,             \* minutes of a day, and so of 24 hours
  LastMinute,            \* bound: minutes that pass
  MaxAttempts,           \* max_attempts
  MaxFaults              \* bound: crashes, exceptions, kills, rate limits

ASSUME SurfacingAssumption ==
  /\ IsFiniteSet(Subjects) /\ IsFiniteSet(Evidence)
  /\ DOMAIN TypeOf = Subjects
  /\ DOMAIN TickersOf = Subjects
  /\ \A s \in Subjects : IsFiniteSet(TickersOf[s])
  /\ AUTODISPATCH_DAILY_CAP \in Nat
  /\ MAX_IDEAS_PER_BATCH \in Nat
  /\ DayLength \in Nat \ {0}
  /\ LastMinute \in Nat
  /\ MaxAttempts \in Nat \ {0}
  /\ MaxFaults \in Nat

VARIABLES
  now,
  row,       \* of each run
  hand,      \* of each run: where its handler is
  kept,      \* of each run: the ideas its handler goes on with
  remaining, \* of each run: how many dives it may open
  latest,    \* per subject: its latest row in surfaced_ideas
  pushed,    \* ideas with a push queued since that row was written
  investigations,  \* handles that were opened here
  dives,     \* orchestrate_dive tasks queued here
  faults

vars == <<now, row, hand, kept, remaining, latest, pushed, investigations, dives,
          faults>>

Idea == [subject : Subjects, evidence : Evidence, high : BOOLEAN]

AllTickers == UNION {TickersOf[s] : s \in Subjects}

Handle == [ticker : AllTickers, minute : 0..LastMinute,
           type : {TypeOf[s] : s \in Subjects}]

Stages == {"think", "notify", "count", "open"}

NoIdea == [evidence |-> {}, at |-> 0]

IdeaRow == [evidence : {{e} : e \in Evidence}, at : 0..LastMinute]

TypeOK ==
  /\ now \in 0..LastMinute
  /\ row \in [Runs -> Row(MaxAttempts)]
  /\ hand \in [Runs -> Hand(Stages)]
  /\ kept \in [Runs -> SUBSET Idea]
  /\ remaining \in [Runs -> 0..AUTODISPATCH_DAILY_CAP]
  /\ latest \in [Subjects -> {NoIdea} \union IdeaRow]
  /\ pushed \subseteq Subjects \X Evidence
  /\ investigations \subseteq Handle
  /\ \A d \in dives : d.investigation \in Handle /\ d.day \in 0..LastMinute
  /\ faults \in 0..MaxFaults

Init ==
  /\ now = 0
  /\ row = [r \in Runs |-> Enqueued(NoRow)]
  /\ hand = [r \in Runs |-> Idle]
  /\ kept = [r \in Runs |-> {}]
  /\ remaining = [r \in Runs |-> 0]
  /\ latest = [s \in Subjects |-> NoIdea]
  /\ pushed = {}
  /\ investigations = {}
  /\ dives = {}
  /\ faults = 0

Fault == faults < MaxFaults /\ faults' = faults + 1

At(r, stage) == hand[r].at = stage

Goto(r, stage) == hand' = [hand EXCEPT ![r].at = stage]

\* The date in New York.
Today == now \div DayLength

-----------------------------------------------------------------------------
\* Faulty: surface_ideas has no resource_key.
ResourceFreeAlways(r) == At(r, "idle")

\* resource_key surface_ideas:singleton
ResourceFree(r) == \A q \in Runs : At(q, "idle")

Take(r) ==
  /\ Claimable(row[r])
  /\ ResourceFree(r)
  /\ row' = [row EXCEPT ![r] = Claimed(@, MaxAttempts)]
  /\ hand' = [hand EXCEPT ![r] = Stage("think")]
  /\ UNCHANGED <<now, kept, remaining, latest, pushed, investigations, dives, faults>>

-----------------------------------------------------------------------------
\* What a mode builds its prompt from.
Sources == {"signals", "themes", "followups", "companies", "stale notes"}

InputOf == [recent_signals |-> {"signals", "themes"},
            question_pursuit |-> {"followups"},
            stale_coverage |-> {"stale notes"},
            theme_deepening |-> {"themes"},
            random_exploration |-> {"companies"}]

\* The mode that is drawn, or if it has nothing to go by the first of the others
\* that has.
Modes(found) == {mode \in DOMAIN InputOf : InputOf[mode] \intersect found # {}}

\* A stale note is that of a company which the vault has.
Findable == {found \in SUBSET Sources : "stale notes" \in found => "companies" \in found}

SurfaceNothing(r) ==
  /\ At(r, "think")
  /\ \E found \in Findable : Modes(found) = {}
  /\ hand' = [hand EXCEPT ![r] = Returned("ok")]
  /\ UNCHANGED <<now, row, kept, remaining, latest, pushed, investigations, dives,
                 faults>>

\* The latest row of the last 24 hours has the same evidence.
Seen(s, e) == latest[s].evidence = {e} /\ now - latest[s].at < DayLength

\* Faulty: only the ideas of the same date are looked at.
FreshToday(i) ==
  ~(latest[i.subject].evidence = {i.evidence} /\ latest[i.subject].at \div DayLength = Today)

Fresh(i) == ~Seen(i.subject, i.evidence)

\* What an answer comes to: nothing if it cannot be read; one anomaly at most;
\* what does not fit the schema is left out.
Batches ==
  {batch \in SUBSET Idea :
     /\ Cardinality(batch) <= MAX_IDEAS_PER_BATCH
     /\ \A i, j \in batch :
          TypeOf[i.subject] = "anomaly" /\ TypeOf[j.subject] = "anomaly" => i = j}

\* What was pushed and is still what its subject's latest row says.
StillPushed(rows) ==
  {p \in pushed : Seen(p[1], p[2]) /\ rows[p[1]].evidence = {p[2]}}

\* The LLM call, then _persist_and_dedup.  Rows of one transaction have one
\* surfaced_at, so that any of them is the latest of its subject.  A statement
\* that fails aborts the transaction: the handler goes on with the ideas it has,
\* and the commit keeps none of them.
Surface(r, finish) ==
  /\ At(r, "think")
  /\ \E batch \in Batches, aborted \in BOOLEAN :
       LET fresh == {i \in batch : Fresh(i)} IN
       /\ IF aborted \/ finish = "killed" THEN Fault ELSE UNCHANGED faults
       /\ aborted => batch # {}
       /\ kept' = [kept EXCEPT ![r] = fresh]
       /\ \E written \in [Subjects -> {NoIdea} \union {x \in IdeaRow : x.at = now}] :
            LET rows == [s \in Subjects |->
                           IF written[s] = NoIdea THEN latest[s] ELSE written[s]] IN
            /\ \A s \in Subjects :
                 IF aborted \/ \A i \in fresh : i.subject # s THEN written[s] = NoIdea
                 ELSE \E i \in fresh : i.subject = s /\ written[s].evidence = {i.evidence}
            /\ latest' = rows
            /\ pushed' = StillPushed(rows)
  /\ hand' = [hand EXCEPT ![r] = [at |-> "notify", finish |-> finish]]
  /\ UNCHANGED <<now, row, remaining, investigations, dives>>

\* One transaction, with a notify task for each idea of high urgency.
NotifyHigh(r) ==
  /\ At(r, "notify")
  /\ pushed' = pushed \union {<<i.subject, i.evidence>> : i \in {j \in kept[r] : j.high}}
  /\ Goto(r, "count")
  /\ UNCHANGED <<now, row, kept, remaining, latest, investigations, dives, faults>>

-----------------------------------------------------------------------------
\* _autodispatch_investigations

CountToday == Cardinality({d \in dives : d.day = Today})

\* Ideas about one to three tickers, with each of them.
Candidates(r) ==
  {c \in kept[r] \X AllTickers :
     LET tickers == TickersOf[c[1].subject] IN
     c[2] \in tickers /\ Cardinality(tickers) <= 3}

\* The rate limit and the number of today's dives are read in a transaction of
\* their own.
CountDispatched(r, rate_limit_clear) ==
  /\ At(r, "count")
  /\ IF rate_limit_clear /\ CountToday < AUTODISPATCH_DAILY_CAP /\ Candidates(r) # {}
     THEN /\ remaining' = [remaining EXCEPT ![r] = AUTODISPATCH_DAILY_CAP - CountToday]
          /\ Goto(r, "open")
     ELSE Goto(r, "settle") /\ UNCHANGED remaining
  /\ UNCHANGED <<now, row, kept, latest, pushed, investigations, dives, faults>>

\* handle: the ticker, the minute, and the first eight letters of the idea's own
\* handle, which are of its type.
HandleOf(candidate) ==
  [ticker |-> candidate[2], minute |-> now, type |-> TypeOf[candidate[1].subject]]

\* Faulty: autoinvest:<date>:<ticker>
DedupKeyOfTicker(d) == <<d.day, d.investigation.ticker>>

\* autoinvest:<date>:<handle>
DedupKey(d) == <<d.day, d.investigation>>

\* One transaction, with an investigation and its dive for each candidate whose
\* handle is free; the first so many of them.
OpenInvestigations(r) ==
  /\ At(r, "open")
  /\ \E chosen \in SUBSET Candidates(r) :
       LET handles == {HandleOf(c) : c \in chosen} \ investigations
           tasks == [investigation : handles, day : {Today}]
       IN
       /\ \/ Cardinality(chosen) = remaining[r]
          \/ Cardinality(chosen) < remaining[r] /\ chosen = Candidates(r)
       /\ investigations' = investigations \union handles
       /\ dives' = dives \union
            {d \in tasks : \A old \in dives : DedupKey(old) # DedupKey(d)}
  /\ Goto(r, "settle")
  /\ UNCHANGED <<now, row, kept, remaining, latest, pushed, faults>>

-----------------------------------------------------------------------------
RateLimited(r) ==
  /\ At(r, "think")
  /\ Fault
  /\ hand' = [hand EXCEPT ![r] = Returned("rate_limit")]
  /\ UNCHANGED <<now, row, kept, remaining, latest, pushed, investigations, dives>>

HandlerRaises(r) ==
  /\ hand[r].at \notin {"idle", "settle"}
  /\ Fault
  /\ hand' = [hand EXCEPT ![r] = Returned("failed")]
  /\ UNCHANGED <<now, row, kept, remaining, latest, pushed, investigations, dives>>

\* validate_surface_ideas has no complaint.
Settle(r) ==
  /\ At(r, "settle")
  /\ row' = [row EXCEPT ![r] =
       IF hand[r].finish = "ok" THEN Succeeded(@)
       ELSE Unsuccessful(@, hand[r].finish, MaxAttempts)]
  /\ hand' = [hand EXCEPT ![r] = Idle]
  /\ kept' = [kept EXCEPT ![r] = {}]
  /\ remaining' = [remaining EXCEPT ![r] = 0]
  /\ UNCHANGED <<now, latest, pushed, investigations, dives, faults>>

\* Every handler is lost, every row stays.
Crash ==
  /\ \E r \in Runs : ~At(r, "idle")
  /\ Fault
  /\ hand' = [r \in Runs |-> Idle]
  /\ kept' = [r \in Runs |-> {}]
  /\ remaining' = [r \in Runs |-> 0]
  /\ UNCHANGED <<now, row, latest, pushed, investigations, dives>>

Tick ==
  /\ now < LastMinute
  /\ now' = now + 1
  /\ UNCHANGED <<row, hand, kept, remaining, latest, pushed, investigations, dives,
                 faults>>

Work(r) ==
  \/ Take(r)
  \/ SurfaceNothing(r)
  \/ \E finish \in {"ok", "killed"} : Surface(r, finish)
  \/ NotifyHigh(r)
  \/ \E rate_limit_clear \in BOOLEAN : CountDispatched(r, rate_limit_clear)
  \/ OpenInvestigations(r)
  \/ Settle(r)

Next ==
  \/ \E r \in Runs : Work(r) \/ RateLimited(r) \/ HandlerRaises(r)
  \/ Crash
  \/ Tick

Spec == Init /\ [][Next]_vars

-----------------------------------------------------------------------------
\* No day of New York, by whose date dives are named and counted, has more dives
\* opened by surfaced ideas than the cap allows, though the count is read in one
\* transaction and the dives are opened in another, with midnight or a lost handler
\* in between (surface_ideas.py _count_autodispatched_today,
\* _autodispatch_investigations, enqueue.py _resource_key_for).
DailyCapKept ==
  \A day \in 0..LastMinute :
    Cardinality({d \in dives : d.day = day}) <= AUTODISPATCH_DAILY_CAP

\* An idea whose push is queued is not pushed again while its row is the latest
\* of its subject and younger than 24 hours, through retries of its own run and
\* the runs that follow (surface_ideas.py _persist_and_dedup, handle).
NotPushedTwice ==
  \A r \in Runs : At(r, "notify") =>
    \A i \in kept[r] :
      i.high /\ <<i.subject, i.evidence>> \in pushed => ~Seen(i.subject, i.evidence)

\* An investigation opened here has a dive, and only one: its handle, which keeps
\* it from being opened twice, and the dedup_key of the dive agree on what is the
\* same, for two ideas about one company, runs of one minute, retries and midnight
\* (surface_ideas.py _autodispatch_investigations).
OneDiveEach ==
  /\ investigations = {d.investigation : d \in dives}
  /\ \A d, e \in dives : d.investigation = e.investigation => d = e

=============================================================================
