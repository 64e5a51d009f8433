\* Two runs, two subjects, two dives a day, over midnight, one fault.  Every run
\* may be settled.
SPECIFICATION Spec
CONSTANTS
  Runs = {r1, r2}
  Subjects = {"anomaly", "pair"}
  Evidence = {e1, e2}
  TypeOf <- TwoTypes
  TickersOf <- TwoTickers
  AUTODISPATCH_DAILY_CAP = 2
  MAX_IDEAS_PER_BATCH = 2
  DayLength = 2
  LastMinute = 2
  MaxAttempts = 1
  MaxFaults = 1
INVARIANTS DailyCapKept NotPushedTwice OneDiveEach
CHECK_DEADLOCK FALSE
