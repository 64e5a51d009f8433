\* Two dives and the memo, under fairness: handlers may raise, files may stay small
\* and grow old.  An investigation may end.
SPECIFICATION FairSpec
CONSTANTS
  fin = fin
  moat = moat
  orch = orch
  memo = memo
  Dives = {fin, moat}
  Specialties = {fin, moat}
  Financial = fin
  Orchestrate = orch
  Memo = memo
  Droppable = {}
  EarlierDives = {moat}
  LLMPlans <- OnePlan
  LLMEdits <- Reports
  LLMFinishes = {"stop", "broken"}
  OperatorTools = {}
  MaxAttempts <- OneRetry
  Aging = {fin, moat}
  MaxFaults = 0
PROPERTIES MemoSettles
CHECK_DEADLOCK FALSE
