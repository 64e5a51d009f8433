\* The orchestrator and two dives, without the memo: a retry of the financial dive,
\* one fault, cancels and overrides.  An investigation may end.
SPECIFICATION Spec
CONSTANTS
  fin = fin
  moat = moat
  orch = orch
  memo = memo
  Dives = {fin, moat}
  Specialties = {fin, moat}
  Financial = fin
  Orchestrate = orch
  Memo = memo
  Droppable = {moat}
  EarlierDives = {}
  LLMPlans <- TwoPlans
  LLMEdits <- FullReports
  LLMFinishes = {"stop", "rate_limit"}
  OperatorTools = {"cancel_investigation", "override_investability"}
  MaxAttempts <- OneRetry
  Aging = {}
  MaxFaults = 1
INVARIANTS StoppedAreFree DoneIsOnDisk
PROPERTIES UsesQueue
CHECK_DEADLOCK FALSE
