\* One task and three probes, which may fail outright, under fairness, with one fault
\* or manual clear.
SPECIFICATION FairSpec
CONSTANTS
  w1 = w1
  w2 = w2
  t1 = t1
  t2 = t2
  p1 = p1
  p2 = p2
  p3 = p3
  k1 = k1
  NoWorker = NoWorker
  NoTask = NoTask
  NoKey = NoKey
  Workers = {w1, w2}
  Tasks = {t1, p1, p2, p3}
  Probes = {p1, p2, p3}
  ResourceKey <- NoKeys
  MaxAttempts <- TwoAttempts
  RateLimitBounceCap = 2
  Investigation = {t1}
  Dives = {t1}
  FinancialDives = {t1}
  CancelTargets = {}
  TaskOutcomes = {"success", "error", "rate_limit"}
  ProbeOutcomes = {"success", "error", "rate_limit", "killed"}
  OperatorTools = {"clear_rate_limit"}
  HeartbeatsMayFail = FALSE
  AttemptCap = 4
  MaxFaults = 1
  HitCap = 2
INVARIANTS RateLimitCoherent
PROPERTIES HitsCountUntilClear ProbeLostOnlyByFailing RateLimitLifts EveryTaskSettles
