\* Two tasks that need no resource: leases alone keep their workers apart.
\* Retries, bounces, cancels, dead letters, one fault; heartbeats are healthy.
SPECIFICATION Spec
CONSTANTS
  w1 = w1
  w2 = w2
  t1 = t1
  t2 = t2
  p1 = p1
  p2 = p2
  p3 = p3
  k1 = k1
  NoWorker = NoWorker
  NoTask = NoTask
  NoKey = NoKey
  Workers = {w1, w2}
  Tasks = {t1, t2}
  Probes = {}
  ResourceKey <- NoKeys
  MaxAttempts <- TwoAttempts
  RateLimitBounceCap = 2
  Investigation = {t1, t2}
  Dives = {t1, t2}
  FinancialDives = {t1}
  CancelTargets = {t1}
  TaskOutcomes = {"success", "partial", "error", "transient", "rate_limit"}
  ProbeOutcomes = {"success", "error", "rate_limit", "killed"}
  OperatorTools = {"cancel_investigation", "override_investability", "requeue_dead_letter", "clear_rate_limit"}
  HeartbeatsMayFail = FALSE
  AttemptCap = 3
  MaxFaults = 1
  HitCap = 1
SYMMETRY WorkerSymmetry
INVARIANTS OneRunner SnapshotCurrent NoStrandedRow DeadLetterLedger
PROPERTIES DeadLetterEarned CancelsHold ImplementsQueue
