# Verification of praxis-v2

praxis-v2 is an unattended equity-research assistant: pollers bring filings and
press releases into a vault of files, a dispatcher runs LLM tasks over them, and
an operator steers everything through an MCP server. This directory holds TLA+
models of it, TLC runs over small instances, and TLAPS proofs. Paths below are
relative to `src/`.

To check a run: `tlc -config DispatcherSafety.cfg MCDispatcher.tla`. To check a
proof module: `tlapm DispatcherProofs.tla`.

## 1. The system

The components share one Postgres database and one directory, the vault; there
are no messages between processes. Each service is a systemd unit that is
restarted when it dies.

| component | state it keeps | operations | talks to |
|---|---|---|---|
| task lifecycle (`praxis_core/tasks/`) | `tasks`, `dead_letter_tasks` tables | enqueue, claim, extend lease, mark success / partial / failed / dead letter, requeue on rate limit, release | called by every other component |
| rate limit (`praxis_core/llm/rate_limit.py`) | the one row of `rate_limit_state` | record hit, start probing, probe succeeded, reset hits, manual clear | dispatcher, workers, MCP |
| dispatcher (`services/dispatcher/`) | in memory: the pool of workers, the resource keys they hold | tick (launch probe, gate, claims), drain, stop | lifecycle, rate limit, handlers |
| worker (`services/dispatcher/worker.py`) | in memory: the Task object as claimed, a stop event, two background loops | run handler, heartbeat, cancel watch, settle | lifecycle, rate limit, invoker, investability |
| MCP server (`services/mcp/server.py`) | nothing | cancel task / investigation, requeue dead letter, clear rate limit, open investigation, override, ingest, boost | tables, vault |
| pollers (`services/pollers/`) | `sources` table, `_raw/` files, the inbox directory | poll a feed, gate, fetch, write files, insert row and task | lifecycle, filters, newswire |
| research dive flow (`handlers/orchestrate_dive.py`, `synthesize_memo.py`, ...) | `investigations` table, dive files | plan, dives, memo, verdict | lifecycle, vault |
| filing flow (`handlers/triage_filing.py`, `analyze_filing.py`, `notify.py`, ...) | analysis files, signals table | triage, analyse, compile, notify | lifecycle, vault |
| research flow, idea surfacing (`handlers/`) | research files, `surfaced_ideas` table | orchestrate, gather, compile, answer, surface | lifecycle, vault |
| scheduler (`services/scheduler/`) | last run of each job, alert cooldowns, in memory | cadence jobs, dead-man checks, alerts | lifecycle, heartbeats |
| LLM invoker (`praxis_core/llm/`) | a subprocess | start, read the stream, kill, classify | worker |
| vault files (`praxis_core/vault/`) | notes, indexes, backups | atomic write, append to a section | handlers, MCP |

Filters, validators, payload schemas, the plan parser, the research budget and
the deduplication of releases are pure functions. Observability (apart from the
heartbeats that the scheduler reads), backups, the dashboard, the fundamentals
server, vault maintenance and the one-off migration are leaves: nothing reads
what they produce to decide anything.
`PROJECT.json` lists every component with its status.

### What is hard

- **Interleaving.** A task row is written by its worker's heartbeat, its
  settlement, the claims of the dispatcher and three MCP tools, each in a
  transaction of its own; some of these UPDATEs look at the status and some do
  not. Heartbeat and cancel watch share one stop event.
- **Stale state.** A worker decides a task's fate by the attempts and bounces it
  loaded at the claim, up to 65 minutes before. The rate-limit gate is read in an
  earlier transaction than the claims it guards. `cancel_task` writes after an
  await what it read before it.
- **Crash recovery.** A running row whose process died is found by its lease
  alone. Pollers write files and rows in some order, and a crash may come in
  between.
- **Liveness.** Retries, bounces, partial results, backoffs, and a probe on which
  all dispatching hangs while the limit is on.
- **Ordering.** Several workers hit the limit at once; a late hit arrives while a
  probe is out; two pollers see one release.

Each of these is a line of `hazards` in `PROJECT.json`, with the properties that
watch it or the reason why none does.

### What makes each component correct

- *Dispatcher and lifecycle*: one worker per task and per resource; no row that
  no claim can take; the worker's copy of its row true until it settles; dead
  letters only for tasks whose tries are used up, and a dead-letter table that
  agrees with the task table; a finished task stays finished; every task is
  settled at last.
- *Rate limit*: a coherent row whichever writers race; hits that count up until
  the limit is lifted; a probe to wait for while probing; every limit lifted.
- *Pollers*: raw text before task; row and task together; a rejection that
  stands; nothing that was fetched or dropped is lost.
- *Dive flow*: a success that has its report; a STOP that stops what waits and
  nothing else; an override that revives only what no worker has; a verdict that
  was earned; a memo that is not kept waiting for ever.
- *Filing flow*: everything that follows from a signal is queued; no text of the
  notes lost without a backup; the push arrives or is given up.
- *Research flow*: a node edited by one task at a time; a memo written after what
  its plan asked for, but written.
- *Idea surfacing*: the daily cap on dives; an idea pushed once.
- *Scheduler*: each job again and again, also across restarts and failures; an
  alert for what stays wrong.
- *LLM invoker*: a result that says what was read; no child left behind; an end.
- *Vault*: no lost append; never half a file.

## 2. Modules

| module | models | extends |
|---|---|---|
| `Lifecycle` | a row of `tasks`, and what each UPDATE of the code base does to it: one operator from old row to new row per function of `lifecycle.py`, plus the UPDATEs that `worker.py`, `investability.py` and `server.py` send themselves | |
| `RateLimit` | the `rate_limit_state` row and the UPDATEs of `RateLimitManager` | |
| `Dispatcher` | the dispatcher process: loop, pool, workers with heartbeat and cancel watch, settlement, stop, drain, crash, restart; the operator's tools; time | `Lifecycle`, `RateLimit` |
| `TaskQueue` | abstract: what the dispatcher promises and the flows rely on, a queue that hands each task to one worker at a time and tasks of one resource to one worker between them | |
| `DispatcherProperties` | the properties, the refinement mapping to `TaskQueue`, fairness | `Dispatcher` |
| `MCDispatcher` | instances for TLC | `DispatcherProperties` |
| `DispatcherProofs` | type correctness; no stranded row, resource exclusion, rate limit, backoff and probe; what a lease or a resource key gives: one runner, current snapshots, ledger, earned dead letters, bounded bounces; the dispatcher implements `TaskQueue`; a success is final, and a canceled task stays so but for its own worker and an override | `DispatcherProperties`, `TLAPS` |
| `Ingest` | the four ingest processes over `sources`, `tasks`, `_raw/` and the inbox | |
| `IngestProperties`, `MCIngest` | properties; instances | `Ingest` |
| `IngestProofs` | type correctness and the three safety invariants of ingest | `IngestProperties`, `TLAPS` |
| `Investigation` | one investigation: orchestrator, dives, memo, the STOP gate, the operator's cancel and override, over task rows and dive files | |
| `InvestigationProperties`, `MCInvestigation` | properties, the mapping to `TaskQueue`, fairness; instances | `Investigation` |
| `InvestigationProofs` | type correctness, the two safety invariants, the use of the queue | `InvestigationProperties`, `TLAPS` |
| `HandlerTask` | a task as a handler meets it: row, position of the handler, and what each settlement makes of the row; the part that the next three flows share | |
| `HandlerTaskProofs` | lemmas: what an enqueue, a claim or a settlement makes of a row, and what a hand may be | `HandlerTask`, `TLAPS` |
| `FilingFlow`, `MCFilingFlow` | screen, analysis, push, notes with their backup; properties and fairness, the mapping to `TaskQueue`; instances | `HandlerTask` |
| `FilingFlowProofs` | type correctness, a signal's followers, notes stashed before they are replaced, the use of the queue | `FilingFlow`, `HandlerTaskProofs` |
| `Research`, `MCResearch` | a research query's plan, its fan-out, the nodes, and the memo that waits for them; properties and fairness, the mapping to `TaskQueue`; instances | `HandlerTask` |
| `ResearchProofs` | type correctness, nodes edited by one, the memo last, the use of the queue | `Research`, `HandlerTaskProofs` |
| `Surfacing`, `MCSurfacing` | `surface_ideas`: memory of ideas, pushes, dives under the daily cap; properties; instances | `HandlerTask` |
| `SurfacingProofs` | type correctness and finiteness, the daily cap, no second push, one dive for each investigation | `Surfacing`, `HandlerTaskProofs`, `FiniteSetTheorems` |
| `Scheduler`, `MCScheduler` | the scheduler process: cadence jobs, alerts; properties and fairness; instances | |
| `Invoker`, `MCInvoker` | one call of the CLI: child, pipe, timeouts, kill sequence, classification | |
| `InvokerProofs` | type correctness, no orphan, results that were read | `Invoker`, `TLAPS` |

`TaskQueue` joins the models. `Dispatcher` implements it; `Investigation`,
`FilingFlow` and `Research`, which queue tasks of their own and see them only as rows
that are taken and settled, are shown to stay within it (`UsesQueue`), each with the
resource keys that `_resource_key_for` gives its tasks. So a handler assumes nothing
of the dispatcher that the dispatcher is not shown to give: a flow takes a task only
when it may, submits a task only once, and leaves alone what is settled. `Surfacing`
queues none of the tasks it runs; it takes one at a time because all have the one key
`surface_ideas:singleton`, which is `ResourceMutex`. `HandlerTask` has what the last
three flows share: a task is in one worker's hands at a time, and one whose worker is
gone is handed out again.

Operators commented *Faulty* are variants of the definition that follows them,
each with a plausible mistake; nothing uses them. `PROJECT.json` pairs each with a
property that it breaks, which shows that the property depends on that line of
the code.

### Dispatcher: state and actions

| variable | in the code |
|---|---|
| `tasks` | the `tasks` rows: `status`, `lease_holder`, `lease_expires_at` relative to now (`null`, `future`, `past`), `attempts`, `rate_limit_bounces`; of `last_error` whether it names the STOP of a gate, which one UPDATE asks for |
| `dead_letters` | the ids in `dead_letter_tasks`, whose primary key is the task's id |
| `rate_limit` | the `rate_limit_state` row; `limited_until` relative to now; `recent`: the last hit is within the window that `reset_consecutive_hits` spares |
| `pool` | per slot of the pool, what `execute_task` holds: the task, the attempts and bounces as loaded at the claim, the stop event, the handler's outcome |
| `tick` | where `_dispatch_tick` is, how many more slots it will fill, whether it may claim only probes; or `draining`, `down` |
| `cancel_calls` | a `cancel_task` call between reading the row and the UPDATE that its commit sends |
| `faults` | how many faults have happened, of the bound `MaxFaults` |

A step is one transaction, or one stretch of the asyncio program between two
awaits. The tick is `LaunchProbe` or `NoProbeToLaunch`, then `Gate`, then up to
`left` times `Claim`, or `NothingToClaim`; it is split because the code reads the
gate in a transaction of its own. A worker's life is `Claim`, any number of
`HeartbeatExtends`, then `HandlerReturns` and one of the `Settle...` actions, each
of which is the whole settlement transaction with all that it calls; or
`CancelObserved`; `HeartbeatLosesLease` sets the stop event. `SettleFails` is a
settlement whose transaction is rolled back.

What is abstracted, and why it may be:

- *Handlers* come to one of six outcomes, chosen freely: success, partial, error
  (an exception, a failed validation, the wall clock), a transient result, a
  rate limit, a killed call. What a handler reads and writes belongs to other
  modules.
- *Priorities.* `claim_next_task` orders eligible rows by an aged priority; the
  model claims any of them, so that what holds here holds for every order.
- *Worker ids.* The code makes up a fresh id per task; the model names the slot.
  A slot that is busy has one id, and a row that an earlier worker of the slot
  left behind can be told from the slot's own row by the lease.
- *Probes.* A finished probe's row is never read again; the model reuses it, and
  `Probes` bounds how many probes matter at one time.
- *Lease time.* `LeasePasses` lets a lease end at any time unless a live worker
  holds it. The heartbeat renews every 60 s a lease of 300 s;
  `HeartbeatsMayFail = TRUE` lets even a held lease end. Then a second worker may
  claim a row that the first still runs, unless the task has a resource key, which
  the pool keeps for the first whatever becomes of the lease. `Exclusive` names the
  tasks that one of the two guards; the properties about one worker and its row
  speak of these, and `QueueTasks` are the ones that the mapping to `TaskQueue`
  shows.
- Left out: `mark_running`, which has no caller; the branch for task types
  without a handler, since every type has one; payloads, telemetry, logs.

`RequeueDeadLetter`, `CancelTaskRead` / `CancelTaskWrite`, `CancelInvestigation`,
`OverrideContinue`, `OverrideStop` and `ClearRateLimit` are the MCP tools.
`cancel_task` takes two steps because the code reads through the ORM, awaits
`emit_event`, and commits an UPDATE by id that writes only the columns whose value
changed since the read. `override_investability` is here for its two UPDATEs of task
rows, with whatever leases and workers these have: CONTINUE queues again the rows of
an investigation that were canceled with the gate's words in `last_error`, STOP
cancels its dives that are queued or running. What it means for the investigation is
in `Investigation`.

### Ingest: state and actions

`sources` and `manual` are the two uses of the `sources` table (rows of items with
their verdict; rows of dropped files by content hash), `raw` the files of an item
that are written, `vault` the contents stored under `_raw/manual/`, `queued` the
items that have a task. `poller` and `watcher` say where each process is, `inbox`
and `dropped` what a person put in the inbox.

A poll takes the items of its feed in any order: `TakeItem` looks whether it has
been seen (the EDGAR poller looks at the files first, the others at the row
alone), `Gate` applies the filters in the order of the code, `FetchSucceeds` or
`FetchFails`, two file writes, `Insert`. The market cap is looked up anew each
time, so its verdict is a free choice. `PollFails` is a crash with restart or an
exception that `run_loop` catches: in both the poll is over and the next starts
from the feed. The inbox watcher goes through the files it found in the directory
(`ScanStarts`): each is `ReadFile`, `WriteContent`, `Unlink`, or is passed over
(`PassOver`), being of a suffix that is not supported or not readable, for good or
this once; then it stays where it is and the scan goes on. `Ingestible` are the files
of a supported suffix that can be read. `UnlinkFails` is a failed unlink, which is
swallowed, and `ScanFails` a crash or an exception that ends the scan. The press pollers' `analyze_filing` and the EDGAR poller's
`triage_filing` are one thing here: a task for the item.
`dedup_releases`, which drops near-equal titles within one poll, is left out; the
items are the releases it lets through.

### Investigation: state and actions

| variable | in the code |
|---|---|
| `investigation` | the status of the `investigations` row |
| `override` | the latest `investability_overridden` event |
| `tasks` | the rows of its tasks: status, attempts, and whether `last_error` names the STOP |
| `linked` | whether the `orchestrate_dive` row carries the investigation's id, without which the cascade of `cancel_investigation` does not find it |
| `hand` | per task, where its handler is between two awaits and what its LLM call came to |
| `plan`, `quality` | what the orchestrator and `synthesize_memo` hold in memory |
| `file` | of each dive: the size class of `dives/<specialty>.md` by the limits of the code (500 and 1500 bytes), the verdict at its end, whether it is older than the wall-clock cap |
| `memo_file` | the memo exists |
| `faults` | crashes, kills and rate limits so far |

`orchestrate_dive` is `ReadPlan`, `EnsureInvestigation`, `EnqueueSequence`; a dive
`WriteSkeleton`, any number of `EditDive`, `DiveReturns`; `synthesize_memo` is
`Gate`, or `GatherCoverage`, `WriteMemo`, `UpdateInvestigation`. Every handler
may raise or be torn down by the cancel watch at any stage, and ends in one of the
three settlements; that of the financial dive also cancels its siblings, in the
same transaction. A crash may come between any two stages, and the handler then
starts again over the files and rows that it left.

What is abstracted:

- *The dispatcher*. A task is in hand or not; one whose worker is gone is taken
  again. The rate limit, bounce cap, leases and `requeue_dead_letter` are those of
  `Dispatcher`. Priorities and resources do not matter here: any queued task may
  be taken, which covers every order.
- *Files*. Size class and verdict are all that the gate, the validators and the
  memo's quality test look at. What an edit makes of a file is free.
- *Validators*. The model keeps what they ask for at least (`Valid`) and lets them
  refuse any dive, so that it covers every stricter rule.
- *A dive's broken call*. `_dive_base` returns it like one that stopped; the model
  does not tell them apart either.
- *Reads of the memo*. The gate's look at the files and the coverage are one stretch
  without an await; the override, read by the query that follows, is merged with
  them.
- Left out: the text of plan and prompts, follow-up questions, budgets and
  priorities, custom dives' deduplication (a dive that falls away for any reason is
  `Droppable`).

### HandlerTask

A row is its status and attempts, and a `hand` is where a handler stands between
two awaits and what it will return. `Claimed`, `Succeeded`, `MarkedPartial`,
`Released` and `Failed` are the claim and the settlements of `Lifecycle`, reduced
to these two fields. Queued and partial rows, which a claim treats alike, are one
status here. A rate limit gives the attempt back, as `requeue_on_rate_limit`
does; the bounce cap is left to `Dispatcher`.

### FilingFlow: state and actions

| variable | in the code |
|---|---|
| `row`, `hand` | the `analyze_filing`, `notify` and `compile_to_wiki` tasks of each filing |
| `screen`, `analysis` | the outcome in `screen.json` and `analysis.json` |
| `dives` | companies with an `orchestrate_dive` task |
| `pushed`, `signals` | pushes that reached ntfy; rows of `signals_fired` |
| `notes`, `newest` | size and last writer of each `notes.md`, and of its newest backup |

`analyze_filing` is `ScreenFiling`, `AnalyzeFiling` or `AnalysisUnreadable`, and
`EnqueueDownstream`, which is one transaction; `notify` is `PushNtfy` (up to four
tries in one step, of which a failed one may have arrived) and `RecordSignal`;
`compile_to_wiki` is `StashForEdit` and `EditNotes`. An LLM call may answer
anything, and anything else when it is asked again. The validators' questions
about wording are an outcome left open (`complaint`). Press releases go the same
way as filings. The dedup key of a dive has a date; one day is modelled.

### Research: state and actions

| variable | in the code |
|---|---|
| `row`, `hand` | the tasks of an investigation: query, gather, compile and answer of each node, screen, memo |
| `plans` | how often the plan of an investigation was committed (0, 1, more) |
| `old` | tasks created more than four hours ago, as `_siblings_blocking` asks |
| `node` | the file of each theme, concept or question: missing, unfit, compiled or answered |
| `dives` | companies with a child investigation and its dive |

`OrchestrateResearch` is LLM call, file and transaction of the fan-out: the tasks
appear all at once. `EnsureSkeleton`, `ReadQuestion` and `EditNode` are the
handlers of nodes, `ScreenCompanies` opens child investigations, `SiblingsGate`
and `WriteMemo` are the memo. `Later` ages the tasks that an investigation has.
`ResourceKey` is what `_resource_key_for` makes of the payloads; `Take` honours
it, as the dispatcher is shown to. The texts of sources, investigation and memo
are left out: they inform an LLM, which may make anything of them.

### Surfacing: state and actions

| variable | in the code |
|---|---|
| `now` | minutes; a day has `DayLength` of them |
| `row`, `hand` | the `surface_ideas` tasks |
| `kept`, `remaining` | what the handler holds: fresh ideas, dives it may still open |
| `latest` | per subject the latest row in `surfaced_ideas` |
| `pushed` | ideas whose push was queued since that row was written |
| `investigations`, `dives` | handles and tasks that `_autodispatch_investigations` created |

`Surface` is the LLM call with `_persist_and_dedup`, including a transaction that
a failed statement aborts, whose ideas the handler goes on with all the same;
`NotifyHigh`, `CountDispatched` and `OpenInvestigations` are three transactions.
A subject stands for the `dedup_handle`, a hash of type, tickers and themes.
`SurfaceNothing` is a vault that has nothing for any mode.

### Scheduler: state and actions

| variable | in the code |
|---|---|
| `at` | where `run_loop` is, or `down` |
| `clock`, `age`, `queued` | time, the time since `last_run` of each job, the jobs with a task under the current dedup key |
| `failures` | `consecutive_failures` of each job |
| `health`, `idle` | ages of the heartbeats; no analysis for two hours in market hours |
| `cooldown`, `told` | fingerprints pushed within the cooldown; outages pushed since they began |

`RunJobs` runs every due job in one session: a job may fail alone, or abort the
transaction, after which the jobs behind it fail as well and the commit keeps
nothing, though `last_run` of those before it is set. `CheckDeadMan` builds the
messages, filters them by fingerprint and pushes the first of each; the cooldown
starts first, and the push may be lost. `Restart` forgets runs, failures and
cooldowns. An interval is counted in units, the stretch that a dedup key names is
`Window`.

### Invoker: state and actions

`at` is where the call stands: reading, one of the three phases of
`_kill_proc_tree`, waiting for the exit code, or ended; `final` tells whether it is
in its `finally` block. `pipe` holds the lines written and not read, each known by
what the parser makes of it; `decisive` is the event that ended the reading;
`hit_error`, `rate_limit_hit` and `finish` are the variables of the code, `child`
is the process, `result` the `finish_reason` returned. The child (`Writes`,
`Exits`) may do anything but survive SIGKILL. `ReadLine`, `OutputEnds`,
`NoEventTimeout` and `WallTimeout` are the reading loop, `Escalates` and
`ChildIsGone` the kill sequence, `Returns` the classification, `Canceled` and
`ReadingRaises` the ways past it. The API invoker, one HTTP request, and the
processes that the child starts itself are left out.

## 3. Runs

| run | instance | what it shows |
|---|---|---|
| `dispatcher_safety` | two workers, two tasks without a resource, one fault, two attempts, two bounces, a `cancel_task` on one task, STOP and override of the gate | with healthy heartbeats no task is run twice at once; the worker's copy is current; no stranded row; ledger; dead letters are earned; a canceled task comes back only from a worker that fails or meets the limit, or by CONTINUE after a gate's STOP; the abstract queue is implemented |
| `dispatcher_shared_key` | two tasks that compete for one resource, heartbeats that may fail, every outcome of a handler, one fault | never both at once; a success is final |
| `dispatcher_rate_limit` | an ordinary task with two attempts and two bounces, three probes, which may fail outright, two workers, two hits, one fault or manual clear, fairness | the row is coherent; hits count up; the probe waited for is lost only by failing; the limit is lifted and the task settled, unless the probe is lost |
| `ingest` | a filing, a release on a US and the Canadian feed, a dropped file that can be ingested and one that cannot, one fault, fairness | text before task; row and task together; rejections stand; releases settle; the inbox keeps only what cannot be ingested |
| `investigation` | the orchestrator and two dives, one retry of the financial dive, one fault, cancel and override | a stopped dive is in nobody's hands; a finished dive has its report; the queue is used as the dispatcher keeps it |
| `memo_settles` | two dives and the memo, files that stay small and grow old, raising handlers, fairness | the memo is not kept waiting for ever |
| `filing_flow` | a filing, the notes of an earlier one of the same company left to do, one fault, fairness | what follows from a signal is queued; replaced notes were stashed; the queue is used as the dispatcher keeps it; the push arrives or is given up |
| `surfacing` | two runs over midnight, two subjects, two texts of evidence, two dives a day, one fault | the daily cap holds; no idea is pushed again while its first push stands; each investigation has its dive, and one |
| `research` | a query with a question to compile and answer and companies to screen, one fault, four hours, fairness | a node is edited by one task; the memo comes last, and comes; the queue is used as the dispatcher keeps it |
| `scheduler` | two jobs, dispatcher and a poller, one fault, fairness | a job that failed is due until it succeeds; each job recurs; what stays wrong is pushed, up to its fingerprint |
| `invoker` | a pipe of two lines, any output, two cancellations, fairness | a result says what was read; no child is left running; the call ends |

A type invariant that is a theorem (section 4) is not checked by the runs as well;
that of `Scheduler` only says what its variables are.
`UsesQueue` names in each flow its own mapping to `TaskQueue`.

A run that shows a disagreement between the code and what the repository says of
it, a line of `findings`:

| run | the document | the code |
|---|---|---|
| `cancel_overwritten` | "The canceled state wins" (`OVERNIGHT.md`) | the second UPDATE of `_handle_failure` has no status guard and queues a canceled task again |

How far this goes is the property `CancelsHold`, which holds: only a worker that
still has the task, and whose handler failed or met the rate limit
(`requeue_on_rate_limit` has no guard either), brings it back, and the operator's
CONTINUE, which the code means to, and only if the gate's STOP canceled it.

Other places where code and text part, met while modelling. No run shows them; the
models leave room for them, and the properties are stated so that they are excepted:

- A heartbeat that meets a canceled row before the cancel watch does sets the stop
  event that the watch waits on: the watch ends and the handler runs on
  (`worker.py`; "within seconds" in `server.py`).
- A probe that fails outright is dead-lettered at its only attempt, and the state
  stays `probing` without one; an operator must clear it (`rate_limit.py`). This is
  `ProbeLost`. It is in the run: `ProbeLostOnlyByFailing` says that nothing else
  leads to it, and the two liveness properties except it by name.
- `cancel_task` leaves `last_error` as it is. A row that it read as queued and cancels
  just after the gate's STOP did is taken by CONTINUE for one of the gate's
  (`server.py` 517 and 737); `CancelsHold` excepts it with the other rows whose last
  error is the STOP.
- The EDGAR poller goes by its files first: after a crash between files and
  transaction the filing is never taken (`OVERNIGHT.md` has it handled by the
  `sources` table).
- The inbox watcher commits the row before it writes the file; after a failure in
  between the next scan removes the drop as a duplicate.
- `surface_ideas.py:703` gives the cap on dives per UTC day; the code counts and
  names them by the date in New York (`now_et`, lines 710 and 786), and so does the
  model. The dives of two such dates, up to twice the cap, may fall into one UTC day;
  `DailyCapKept` is about the dates of New York.
- A daily job (`CadenceJob`, 86400 s) is due a whole interval after its last run, so
  that it runs up to a minute or so later every day; when it drifts over midnight a date
  goes by without it. `JobsRecur` says that it comes, not on which dates.
- A financial report without any verdict counts as continued for the memo's
  quality test, and the investigation is resolved (`synthesize_memo.py`).
- `synthesize_crosscut_memo.py` says that child dives gate the memo; they belong to
  investigations of their own, which its query does not see.
- One message per fingerprint is pushed, and the others meet its cooldown: an
  outage may stay untold as long as another stands before it (`OutageIsTold` says
  what remains).
- Of ideas whose transaction is lost the push is still sent, and after a crash
  between that transaction and the next an idea is remembered and never pushed.
  `NotPushedTwice` speaks only of ideas whose row was kept.
- The skeleton of a concept lacks the section that its own validator asks for; an
  answer may run before the compile that writes its question, and fails.
- `Invoker`: an error event of earlier on makes an error of a later good result; a
  line flushed during the grace of SIGINT is not read; an error
  result whose child then exits of a signal is taken for a killed call, and the
  attempt is not counted; a second cancellation that meets the `finally` block may
  leave a child, which `NoOrphan` excepts by name.

### Bounds

Two workers and two tasks are enough for each race the properties are about: a
row changes under one worker by the hand of another worker, the claim or a tool,
and resource exclusion is a relation of two. `MaxAttempts = 2` has a first try
that is retried and a last one; a bounce cap of 2 has a bounce that requeues and
one that dead-letters. `AttemptCap` keeps a row from being claimed more than three
(four) times, one more than `MaxAttempts`, so that a claim after the last attempt
(a partial or recovered row) happens. `HitCap` bounds the hits counted; at 2 a
repeated hit differs from the first. One fault suffices for a crash, a shutdown or a
rolled-back settlement during any step; that the safety properties hold under any
number of them is proved.
Three probes let a drained or killed probe, its successor and one more be there at
once. In `ingest` one release on both feeds is the case in which two pollers meet; a
dropped file whose scan failed is the case of a duplicate, since the second scan
finds the row of the first, and the file that cannot be ingested may come before or
after it in the scan. Of faults it has one: the invariants are proved for every
number, and with two the liveness properties hold as well, in three times the time.

In `filing_flow` one attempt is enough: what a crash, a kill or a rate limit ends is
taken again without counting against it, so every retry the properties are about
happens, and the second compile of the company is the task that could overwrite
what was not stashed. In `surfacing` the day is two minutes long: three minutes
reach over midnight and beyond the 24 hours of a row. Two subjects, one with two
tickers, give a batch with more candidates than dives. In `research` the query may
be run again after a crash, with its plan or with the default one; the properties
about nodes and memo relate two tasks, and the question has two. In `scheduler` one
job has a key that outlasts its interval and one a key that does not; a threshold
of one failure makes an alert of it. In `invoker` two lines are an event and the
one behind it, and a second cancellation is the one that meets the `finally` block.

In `investigation` the plan may be read twice with two results, which is the case
of an orchestrator that crashes after enqueuing, and the sibling may be dropped
from it; the financial dive has a second try on the file of the first; one sibling
is enough, for the STOP treats all of them alike. The memo, which takes part in
none of the three properties beyond what each task does, is left to
`memo_settles`, whose faults in turn are only those of the handlers: a crash would
give the memo one more try, no other way to wait. There the sibling has a report
of an earlier investigation, which its dive edits again.

Worker symmetry is used only in runs without liveness. Deadlock is checked for
dispatcher, ingest and scheduler: a dispatcher always has a next tick, a poller a
next poll and the scheduler a next round. It is off where one investigation, filing,
query, batch or call is the whole system: once that is settled nothing is left to
happen.

`EveryTaskSettles` is checked in `dispatcher_rate_limit`, with the outcomes success,
error and rate limit and with the bounce cap, but without "partial", "transient" and
"killed" results of a handler. The code bounds none of these: a partial row is claimed
again whatever its attempts, and a transient or killed call gives its attempt back; a
handler that ends so for ever is never done. A call that a drain kills is in the run.
So is a heartbeat that ends with its worker; one that fails while its worker lives is
not, for then two workers may run one task, and of these one may lift the limit by its
success and the other set it again, without end. `SuccessIsFinal` leaves out the targets of `cancel_task`, which
may overwrite a success that comes between its read and its write; `TaskQueue`
names the tasks this may happen to (`LateCancels`).

### Fairness

In `DispatcherProperties`: the loop ticks while the process is up (`run_loop` is
an endless loop with a sleep; `WF` on `TickStep`), a handler returns (the wall
clock of `execute_task`; `WF`), its settlement is attempted (`WF`), the cancel
watch polls (`WF`), a drain ends by its timeout (`WF`), the stopped process exits
and systemd restarts it (`Restart=always`; `WF`), leases and limits end (`WF`).
The one assumption about the outside world: probes that are sent again and again
succeed at some time (`SF` on the probe's success). Without it a limit need not
lift. No fairness is assumed of producers, operators, heartbeats or faults.

In `Ingest`: each poller and the watcher go on (`WF`), and a page asked for again
and again is served (`SF` on `FetchSucceeds`).

In `InvestigationProperties`: the dispatcher hands out a queued or lost task (`WF`
on `Take`, which is what `EveryTaskSettles` and the leases give), each handler ends
within its wall clock (`WF` on its steps), its settlement is attempted (`WF`), and
files grow old (`WF` on `FileAges`). No fairness is assumed of edits, of the
operator, or of who opens an investigation.

In `FilingFlow` the same for the `notify` tasks alone: they are handed out, end and
are settled (`WF` on `Work`). In `Research` for the memo alone, and hours pass (`WF`
on `MemoStep` and `Later`): nothing is asked of the tasks it waits for. In
`Scheduler` the loop goes on, systemd restarts it, time passes and cooldowns end
(`WF` each); components owe no heartbeat. In `Invoker` the loop goes on (`WF` on
`Run`), and the wall clock comes to its end also while lines keep coming (`WF` on
`WallTimeout`); the child owes nothing, not even an exit: after SIGKILL the code
waits five seconds and goes on.
`Surfacing` has no liveness property and no fairness.

## 4. Proofs

The theorems hold for every number of workers, tasks, probes, feeds, filings, runs
and investigations, every bound and every choice of resources and outcomes. They rest
on the named assumptions of `Dispatcher` (`TaskAssumption`, `PoolAssumption`),
`RateLimit`, `Ingest` (`FeedAssumption`), `Investigation` (`InvestigationAssumption`),
`FilingFlow` (`FilingAssumption`), `Research` (`ResearchAssumption`), `Surfacing`
(`SurfacingAssumption`) and `Invoker` (`InvokerAssumption`), which say of the constants
what the configuration of the code says (a finite pool that is not empty, attempts at
least 1, dives belong to an investigation). `SurfacingAssumption` takes the subjects,
the texts of evidence and the tickers of a subject to be finite sets, without which
the number of a day's dives would mean nothing. TLC evaluates them on every run.

| theorem | states | argument |
|---|---|---|
| `TypeCorrect` | `[]TypeOK` | one lemma per group of actions; what each `Lifecycle` operator keeps of a row's type |
| `NeverStranded` | `[]NoStrandedRow` | each of the writes that `RowSteps` lists keeps a row `Recoverable`; that a waiting row is nobody's is kept by CONTINUE, which leaves the lease columns alone, because a stopped row of an exclusive task has no holder (`StoppedIdle`) |
| `ResourcesExclusive` | `[]ResourceMutex` | inductive: a claim is the only step that makes a worker busy, and it looks at the keys of all busy workers |
| `RateLimitSound` | `[]RateLimitCoherent` | inductive with `TypeOK` |
| `BackoffKept` | `HitsCountUntilClear` | from the coherence of the row |
| `ProbesLostByFailing` | `ProbeLostOnlyByFailing` | a probe in flight leaves the queue only by a settlement or a cancel, and each of its settlements ends the probing, gives the probe back or dead-letters it; probing is entered only by the step that queues one. Nothing is assumed of probes |
| `OneRunnerPerTask`, `SnapshotsStayCurrent`, `LedgerSound` | `[]OneRunner`, `[]SnapshotCurrent`, `[]DeadLetterLedger` | one inductive invariant, `LeaseInv`, the three together, with `StoppedIdle` |
| `DeadLettersEarned` | `DeadLetterEarned` | of the writes that `RowSteps` lists, only that of a worker whose copy says so dead-letters a row, and the copy is current |
| `RefinesQueue` | `ImplementsQueue` | every action is one step of `TaskQueue`: a claim takes a task no worker has in hand (`LeaseInv`) and whose resource is free, a settlement finishes one task, a crash or drain loses tasks; `cancel_task` writes only to rows it has found (`CallsFoundRows`) |
| `SuccessStays` | `SuccessIsFinal` | a successful row has no lease that could end (`SuccessUnleased`), no worker that could settle it again and no dead letter |
| `BouncesStayBelowCap` | `[]BouncesBounded`, of the proof module | the copy of the bounces by which a worker decides is the row's count also while the row is canceled or requeued under it |
| `CanceledTasksStay` | `CancelsHold` | of the writes that `RowSteps` lists three take a canceled row back, two of its own worker and CONTINUE; needs no more than `TypeOK` |
| `TextIsThere`, `AcceptedMeansQueued`, `RejectionsStand` | `[]QueuedHasText`, `[]AcceptedIsQueued`, `[]RejectionStands` | the inductive invariant `IngestInv` |
| `TypeCorrect` (of `InvestigationProofs`) | `[]TypeOK` | one lemma per handler |
| `StoppedDivesAreFree` | `[]StoppedAreFree` | the inductive invariant `HandsInv` |
| `DoneDivesAreOnDisk` | `[]DoneIsOnDisk` | a file is written only by the handler that has its task in hand, and a task in hand has not succeeded (`HandsInv`); success is entered from `Valid` |
| `InvestigationUsesQueue` | `UsesQueue` | the shapes of `StepShape`, each a step of `TaskQueue` under `HandsInv` |
| `TypeCorrect` (of `IngestProofs`) | `[]TypeOK` | one case per action of poller, watcher and world |
| `TypeCorrect` (of `ResearchProofs`) | `[]TypeOK` | what each operator of `HandlerTask` keeps of a row and a hand |
| `NodesEditedByOne` | `[]NodeEditedByOne` | of two tasks with one key one is idle (`Exclusive`), and who edits has a node's key |
| `MemosComeLast` | `[]MemoComesLast` | the inductive invariant `MemoInv` |
| `ResearchUsesQueue` | `UsesQueue` | each action is one step of `TaskQueue`; `InHandIsRunning` of `MemoInv` for the settlements |
| `TypeCorrect` (of `FilingFlowProofs`) | `[]TypeOK` | one lemma per handler |
| `RelevantIsAlwaysQueued`, `ReplacedIsAlwaysStashed` | `[]RelevantIsQueued`, `ReplacedIsStashed` | the inductive invariant `FlowInv` |
| `FilingsUseQueue` | `UsesQueue` | each action is one step of `TaskQueue` under `FlowInv` |
| `TypeCorrect` (of `SurfacingProofs`) | `[](TypeOK /\ IsFiniteSet(dives))` | a transaction opens at most `remaining` dives (`OpensFew`) |
| `DailyCapIsKept`, `NeverPushedTwice` | `[]DailyCapKept`, `[]NotPushedTwice` | the inductive invariant `SurfaceInv` |
| `OpenedOnce` | `[]OneDiveEach` | a handle that is free is that of no dive, so that the dedup key of a new dive is never taken |
| `TypeCorrect` (of `InvokerProofs`) | `[]TypeOK` | for a pipe of any size |
| `NoChildLeftBehind` | `NoOrphan` | the inductive invariant `KillInv` (in the last phase SIGKILL has been sent; reading and waiting are never in the `finally` block), and one case per action for the step that ends the call |
| `OutcomesAreRead` | `[]OutcomeIsRead` | the inductive invariant `ReadInv`: the reason held in memory agrees with the event that ended the reading, through the kill and up to the result |

The three parts of `LeaseInv` need each other, and none is inductive alone. No
second worker can claim a row because its lease is its worker's and runs
(`SnapshotCurrent`), or because its resource key is among those of the pool.
`mark_dead_letter` meets no earlier row of the same id because no listed task is
being run (`DeadLetterLedger`). A canceled row that its worker puts back in the
queue has no other worker because there is only one (`OneRunner`). CONTINUE queues
rows without asking whether a worker has them; the fourth fact, `StoppedIdle`, says
that none has: the STOP of a gate cancels only what is queued, which no worker has, and
a canceled row is not claimed.

These theorems have no hypothesis about heartbeats. They speak of the tasks that
are `Exclusive`: all of them when leases are renewed in time, and those with a
resource key when they may not be. For the others nothing of the kind holds: with a
heartbeat that comes too late two workers do run one task, and
`requeue_on_rate_limit`, which looks at neither status nor holder, may take back
what another worker finished. What such tasks do to their own rows, and what may
happen to the rows of others in the same settlement, is part of every step of the
proofs, which show that it touches no exclusive row.

The lemma `RowSteps` says of every step of the dispatcher how it may change a row:
ten kinds of write (`Written`), of which a worker's own has six forms
(`WrittenByWorker`). What holds of one row over one step (no row stranded, dead letters
earned, successes and cancels kept, bounces counted) is proved over these and not over
the actions.

`IngestInv` adds to the three properties what they rest on: a poll is only ever
busy with items of its own feed (`PollsOwnFeed`), a poller past its first file has
written it (`TextBeforeRows`), a filing a poller has in hand has no row yet
(`InHandIsNew`), and the verdict agrees with what is queued (`RowsAgree`).

`HandsInv` is `InHandRows`, a task in hand has a row that is running or was
canceled under it, together with `StoppedAreFree`. Neither is inductive alone: an
override revives stopped rows without looking whether a worker has them, so that
without `StoppedAreFree` a task in hand could be queued; and the STOP cancels what
is queued, which no worker has only because of `InHandRows`. The lemma `StepShape`
says of each of the many actions only what it does to rows and hands (nothing,
submit, take, settle, lose, cancel or revive); the three theorems are proved over
the shapes.

`MemoInv` adds to `MemoComesLast` what lies between the plan and the memo. A task in
hand has a running row (`InHandIsRunning`), so that only running rows change and
none that is settled comes back. Before its plan is committed an investigation has
no task and no memo (`PlanComesFirst`), so the gate never sees part of a fan-out.
What one plan created grows old together (`CreatedTogether`), so that the four hours
of the oldest are those of all. A query that crashes after its transaction makes
another plan, whose tasks are younger; `MemoComesLast` therefore speaks of
investigations with one plan.

`FlowInv` says what an analysis and a compile may rely on. `RelevantIsFollowed` is
`RelevantIsQueued` one step earlier: when the analysis of a signal has nothing left to
do but to settle, everything that follows is there, and nothing takes a row away. It
is inductive because a settled or settling analysis is not asked again. For the notes,
of two compiles of one company one is in nobody's hands (`Exclusive`, from the
resource key, and `CompileHasTicker`, since only a filing with a ticker has one), so
that between a stash and the edit that follows nobody else writes the file
(`EditStashed`).

`SurfaceInv` rests on the key that all runs share: one run is in hand at a time
(`Exclusive`). The number of dives that a run read in one transaction is therefore
still that of the day, or, after midnight, the new day has none (`DivesArePast`: no
dive has a date to come); in both cases what the run may open fits under the cap
(`OpenFits`). What it keeps for pushing has no push that stands (`KeptNotPushed`): a
push stands only as long as it would make the idea a seen one, and the run that
writes the rows is the run that pushes.

What each flow assumes of the queue and what the dispatcher gives are thus two
theorems over one specification, `RefinesQueue` and the three about `UsesQueue`, and
each is proved for all constants.

Only model-checked, not proved: every liveness property (fairness and ENABLED are
out of the prover's reach), and the invariant `FailingIsDue` of `Scheduler`, whose other
properties are of that kind. Every other invariant and action property of a run that
passes is a theorem. What a recursive definition computes for every input cannot be
proved with the installed provers either, nor anything in a module with a RECURSIVE
operator; no module has one.

## 5. Not modelled

- *Inside modelled components.* Priorities and their aging; payloads, prompts and the
  wording that validators ask for; the titles that `dedup_releases` compares; the
  caches of the filters; the follow-up questions of a dive; the second pages that
  handlers write for readers (`manual/sources.md`, bullets in themes, the batch
  files and `current.md` of surfaced ideas, `notify.log`). `triage_filing` is one LLM
  call from which no task follows. `ingest_source`, `boost_ticker` and
  `reprioritize` queue one task or change a priority.
- *Vault files.* The read-modify-write of section bullets, steering and
  constitution has no lock, and no text of the repository promises that two
  writers keep each other's lines. Files that tasks share are modelled where a
  resource key guards them (nodes, notes) or a gate reads them (dives). The
  validator's look for a backup matches file names by substring, so that another
  company's backup may be the one it finds; names are not modelled.
- *Pure functions.* The research budget gives prompts and calls limits of time and
  money. The plan parser and the parsers of feeds and pages are text.
- *Leaves.* Dashboard, backups, fundamentals server, logging and telemetry, vault
  maintenance (single passes whose result is text and which the scheduler runs
  again), the database schema beyond its initial rows, and the one-off migration:
  nothing that the properties tell apart depends on them.

What would come next: the type invariant of `Scheduler` and `FailingIsDue` as theorems,
with what its fingerprints and cooldowns keep; the followers of a filing across its whole life,
their settlement included; the follow-up questions of a dive.
