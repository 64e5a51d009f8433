------------------------------ MODULE Scheduler ------------------------------
(***************************************************************************)
(* The scheduler process: a loop that queues the cadence jobs that are     *)
(* due, all in one transaction, and then pushes alerts about what has gone *)
(* quiet.  What it knows of earlier runs and alerts is in its memory.      *)
(*                                                                         *)
(* The clock of the jobs counts units of a repeating day.  Heartbeats and  *)
(* cooldowns have no clock: a component that does not beat grows late,     *)
(* stale and dead, and a cooldown that runs comes to an end.               *)
(***************************************************************************)
EXTENDS Naturals, FiniteSets

CONSTANTS
  Jobs,
  Place,        \* where each job stands in JOBS
  Interval,     \* interval_s of each job
  Window,       \* the stretch of time that a job's dedup_key names
  Day,          \* bound: after so many units the clock starts again
  Components,   \* components with a row in heartbeats, the scheduler apart
  Dispatcher,
  EdgarPoller,
  JOB_FAILURE_ALERT_THRESHOLD,
  MaxFaults     \* bound: failed jobs, failed pushes, crashes

ASSUME SchedulerAssumption ==
  /\ Place \in [Jobs -> Nat]
  /\ Interval \in [Jobs -> Nat \ {0}]
  /\ Window \in [Jobs -> Nat \ {0}]
  /\ Day \in Nat \ {0}
  /\ {Dispatcher, EdgarPoller} \subseteq Components
  /\ Components \cap (Jobs \union {"analyses"}) = {}
  /\ "analyses" \notin Jobs
  /\ JOB_FAILURE_ALERT_THRESHOLD \in Nat \ {0}
  /\ MaxFaults \in Nat

VARIABLES
  at,        \* where run_loop is, or "down"
  clock,
  age,       \* per job: time since last_run, as far as due() can tell
  queued,    \* jobs with a task for the current window
  failures,  \* consecutive_failures of each job, as far as alerts can tell
  health,    \* per component: how old its heartbeat is
  idle,      \* market hours, and no analyze_filing succeeded for two hours
  cooldown,  \* _last_alert_fingerprints: those pushed within the cooldown
  told,      \* outages that were pushed since they began
  faults

vars == <<at, clock, age, queued, failures, health, idle, cooldown, told, faults>>

\* Up to two minutes old, up to five, up to ten, and older.
Ages == {"fresh", "late", "stale", "dead"}

Outages == Components \union Jobs \union {"analyses"}

\* What of a message comes before its colon.
Fingerprints == {"Heartbeat stale", "No successful analyze_filing",
                 "Dispatcher not heartbeating", "Scheduler job failing repeatedly"}

TypeOK ==
  /\ at \in {"jobs", "alerts", "down"}
  /\ clock \in 0..(Day - 1)
  /\ \A j \in Jobs : age[j] \in 0..Interval[j]
  /\ queued \subseteq Jobs
  /\ failures \in [Jobs -> 0..JOB_FAILURE_ALERT_THRESHOLD]
  /\ health \in [Components -> Ages]
  /\ idle \in BOOLEAN
  /\ cooldown \subseteq Fingerprints
  /\ told \subseteq Outages
  /\ faults \in 0..MaxFaults

\* last_run is 0, long before any time that the loop compares it with.
NeverRun == Interval

\* A new process has run no job: each is due.
Init ==
  /\ at = "jobs"
  /\ clock = 0
  /\ age = NeverRun
  /\ queued = {}
  /\ failures = [j \in Jobs |-> 0]
  /\ health = [c \in Components |-> "fresh"]
  /\ idle = FALSE
  /\ cooldown = {}
  /\ told = {}
  /\ faults = 0

Fault == faults < MaxFaults /\ faults' = faults + 1

-----------------------------------------------------------------------------
\* Cadence jobs

\* Faulty: as from a crontab, at a time of day that the loop may miss.
DueAtMidnight(j) == age[j] >= Interval[j] /\ clock = 0

\* CadenceJob.due
due(j) == age[j] >= Interval[j]

Due == {j \in Jobs : due(j)}

\* Beyond the threshold the count makes no difference.
FailedOnceMore(n) ==
  IF n = JOB_FAILURE_ALERT_THRESHOLD THEN n ELSE n + 1

\* Faulty: last_run is set before the action is tried.
TakeTurnAnyway(failing) == Due

\* The jobs whose last_run is set.
TakeTurn(failing) == Due \ failing

\* The jobs run one after the other in one session.  A job may raise before its
\* statement is sent.  When a statement fails the transaction is aborted: those
\* after it fail too, and the commit keeps nothing, also of the jobs before it,
\* whose last_run is set.  A dedup_key that is taken inserts no row.
RunJobs ==
  /\ at = "jobs"
  /\ at' = "alerts"
  /\ \E failing \in SUBSET Due, aborted \in BOOLEAN :
       /\ aborted => /\ failing # {}
                     /\ \A i \in failing, j \in Due : Place[i] < Place[j] => j \in failing
       /\ IF failing = {} THEN UNCHANGED faults ELSE Fault
       /\ age' = [j \in Jobs |-> IF j \in TakeTurn(failing) THEN 0 ELSE age[j]]
       /\ failures' = [j \in Jobs |->
            IF j \in failing THEN FailedOnceMore(failures[j])
            ELSE IF j \in Due THEN 0 ELSE failures[j]]
       /\ queued' = IF aborted THEN queued ELSE queued \union (Due \ failing)
       /\ told' = told \ (Due \ failing)
  /\ UNCHANGED <<clock, health, idle, cooldown>>

-----------------------------------------------------------------------------
\* The dead man's switch

\* What _check_dead_man and _job_failure_alerts report under one fingerprint.
Raised(f) ==
  CASE f = "Heartbeat stale" ->
         {c \in Components : health[c] \in {"stale", "dead"}}
    [] f = "No successful analyze_filing" ->
         IF idle /\ health[EdgarPoller] # "dead" THEN {"analyses"} ELSE {}
    [] f = "Dispatcher not heartbeating" ->
         IF health[Dispatcher] # "fresh" THEN {Dispatcher} ELSE {}
    [] f = "Scheduler job failing repeatedly" ->
         {j \in Jobs : failures[j] >= JOB_FAILURE_ALERT_THRESHOLD}

\* The message that comes first in the list; that of the stale heartbeats is any,
\* since the query has no order.
First(f, stale) ==
  CASE f = "Heartbeat stale" -> stale
    [] f = "Scheduler job failing repeatedly" ->
         CHOOSE i \in Raised(f) : \A j \in Raised(f) : Place[i] <= Place[j]
    [] OTHER -> CHOOSE outage \in Raised(f) : TRUE

\* _should_alert, for the first message with the fingerprint
ShouldAlert(f) == Raised(f) # {} /\ f \notin cooldown

ToPush == {f \in Fingerprints : ShouldAlert(f)}

\* The cooldown begins before the push, which may fail three times.  Later
\* messages with the fingerprint meet the cooldown.
CheckDeadMan ==
  /\ at = "alerts"
  /\ at' = "jobs"
  /\ \E stale \in Components, lost \in SUBSET ToPush :
       /\ "Heartbeat stale" \in ToPush => stale \in Raised("Heartbeat stale")
       /\ IF lost = {} THEN UNCHANGED faults ELSE Fault
       /\ told' = told \union {First(f, stale) : f \in ToPush \ lost}
  /\ cooldown' = cooldown \union ToPush
  /\ UNCHANGED <<clock, age, queued, failures, health, idle>>

\* An exception of the check itself is caught.
CheckFails ==
  /\ at = "alerts"
  /\ at' = "jobs"
  /\ Fault
  /\ UNCHANGED <<clock, age, queued, failures, health, idle, cooldown, told>>

-----------------------------------------------------------------------------
\* A commit that fails, or a heartbeat of the scheduler that does, ends the
\* process as a crash does, before or after what was committed.
Crash ==
  /\ at # "down"
  /\ at' = "down"
  /\ Fault
  /\ UNCHANGED <<clock, age, queued, failures, health, idle, cooldown, told>>

Restart ==
  /\ at = "down"
  /\ at' = "jobs"
  /\ age' = NeverRun
  /\ failures' = [j \in Jobs |-> 0]
  /\ cooldown' = {}
  /\ told' = told \ Jobs
  /\ UNCHANGED <<clock, queued, health, idle, faults>>

-----------------------------------------------------------------------------
\* Time, and the components that are watched

TimePasses ==
  /\ clock' = (clock + 1) % Day
  /\ age' = [j \in Jobs |-> IF age[j] < Interval[j] THEN age[j] + 1 ELSE age[j]]
  /\ queued' = {j \in queued : clock' % Window[j] # 0}
  /\ UNCHANGED <<at, failures, health, idle, cooldown, told, faults>>

\* Faulty: each message that meets the cooldown begins it anew.
CooldownEndsInQuiet(f) ==
  /\ f \in cooldown
  /\ Raised(f) = {}
  /\ cooldown' = cooldown \ {f}
  /\ UNCHANGED <<at, clock, age, queued, failures, health, idle, told, faults>>

CooldownEnds(f) ==
  /\ f \in cooldown
  /\ cooldown' = cooldown \ {f}
  /\ UNCHANGED <<at, clock, age, queued, failures, health, idle, told, faults>>

Beats(c) ==
  /\ health[c] # "fresh"
  /\ health' = [health EXCEPT ![c] = "fresh"]
  /\ told' = told \ {c}
  /\ UNCHANGED <<at, clock, age, queued, failures, idle, cooldown, faults>>

\* An age that nothing asks about is passed over.
Older(c, health_of) ==
  IF c = Dispatcher THEN IF health_of = "fresh" THEN "late" ELSE "stale"
  ELSE IF health_of = "fresh" THEN "stale" ELSE "dead"

GrowsQuiet(c) ==
  /\ health[c] # Older(c, health[c])
  /\ health' = [health EXCEPT ![c] = Older(c, @)]
  /\ UNCHANGED <<at, clock, age, queued, failures, idle, cooldown, told, faults>>

AnalysesStopOrResume ==
  /\ idle' = ~idle
  /\ told' = told \ {"analyses"}
  /\ UNCHANGED <<at, clock, age, queued, failures, health, cooldown, faults>>

Loop == RunJobs \/ CheckDeadMan \/ CheckFails

Next ==
  \/ Loop
  \/ Crash
  \/ Restart
  \/ TimePasses
  \/ \E f \in Fingerprints : CooldownEnds(f)
  \/ \E c \in Components : Beats(c) \/ GrowsQuiet(c)
  \/ AnalysesStopOrResume

Spec == Init /\ [][Next]_vars

\* run_loop goes on, systemd restarts it, and time passes.
Fairness ==
  /\ WF_vars(Loop)
  /\ WF_vars(Restart)
  /\ WF_vars(TimePasses)
  /\ \A f \in Fingerprints : WF_vars(CooldownEnds(f))

FairSpec == Spec /\ Fairness

-----------------------------------------------------------------------------
\* A job that failed is tried again in the very next pass, and in each one after it
\* until it succeeds, whatever restarts and lost transactions come in between: a daily
\* job does not lose its day to an error of its own, and the count that the alert
\* waits for is one of passes, a minute apart, and not of days (main.py run_loop,
\* CadenceJob).
FailingIsDue == \A j \in Jobs : failures[j] > 0 => due(j)

\* Each job is queued again and again: a transaction that is lost after last_run
\* was set, a crash, or a key that an earlier run has taken costs a job its turn
\* but never all turns to come (main.py run_loop, CadenceJob.due, enqueue.py).
JobsRecur == \A j \in Jobs : []<>(j \in queued)

\* What goes wrong and stays wrong is pushed, or something else under the same
\* fingerprint is, through failed pushes, cooldowns left by earlier outages and
\* restarts (main.py _check_dead_man, _should_alert, run_loop).
OutageIsTold ==
  \A f \in Fingerprints :
    Raised(f) # {} ~> Raised(f) = {} \/ Raised(f) \cap told # {}
=============================================================================
