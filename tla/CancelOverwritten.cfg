\* An investigation canceled while its tasks are being settled.
SPECIFICATION Spec
CONSTANTS
  w1 = w1
  w2 = w2
  t1 = t1
  t2 = t2
  p1 = p1
  p2 = p2
  p3 = p3
  k1 = k1
  NoWorker = NoWorker
  NoTask = NoTask
  NoKey = NoKey
  Workers = {w1, w2}
  Tasks = {t1, t2}
  Probes = {}
  ResourceKey <- NoKeys
  MaxAttempts <- TwoAttempts
  RateLimitBounceCap = 2
  Investigation = {t1, t2}
  Dives = {t1, t2}
  FinancialDives = {t1}
  CancelTargets = {}
  TaskOutcomes = {"success", "partial", "error", "transient", "rate_limit", "killed"}
  ProbeOutcomes = {"success", "error", "rate_limit", "killed"}
  OperatorTools = {"cancel_investigation", "requeue_dead_letter", "clear_rate_limit"}
  HeartbeatsMayFail = FALSE
  AttemptCap = 3
  MaxFaults = 1
  HitCap = 2
SYMMETRY WorkerSymmetry
PROPERTIES CanceledIsFinal
