\* A research query, a question, one fault, four hours.  Everything
\* may be settled.
SPECIFICATION FairSpec
CONSTANTS
  hormuz = hormuz
  urea = urea
  Investigations = {hormuz}
  Nodes = {urea}
  NoNode = NoNode
  TypeOfNode <- OneQuestion
  PlansOf <- OnePlan
  Tickers = {"acme"}
  MaxDeepDives = 1
  MaxAttempts = 1
  MaxFaults = 1
INVARIANTS NodeEditedByOne MemoComesLast
PROPERTIES UsesQueue CrosscutMemoSettles
CHECK_DEADLOCK FALSE
