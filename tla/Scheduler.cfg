\* Two jobs, the dispatcher and a poller, faults, fairness.
SPECIFICATION FairSpec
CONSTANTS
  Jobs = {"refresh_index", "surface_ideas"}
  Place <- TwoPlaces
  Interval <- TwoIntervals
  Window <- TwoWindows
  Day = 2
  Components = {"dispatcher", "edgar"}
  Dispatcher = "dispatcher"
  EdgarPoller = "edgar"
  JOB_FAILURE_ALERT_THRESHOLD = 1
  MaxFaults = 1
INVARIANTS FailingIsDue
PROPERTIES JobsRecur OutageIsTold
