\* A pipe of two lines, two cancellations.
SPECIFICATION FairSpec
CONSTANTS
  PipeSize = 2
  MaxCancels = 2
INVARIANTS OutcomeIsRead
PROPERTIES NoOrphan CallEnds
CHECK_DEADLOCK FALSE
