CONSTANTS
  s1 = s1
  s2 = s2
  HourMs = 100
  MaxCardinality = 2
  Rankings <- MCOneRanking
  Reasons = {"timeout"}
  Interval = 2
  PostEndInterval = 3
  EndAt = 5
  Bootstraps = FALSE
  MaxFiles = 2
  MaxTime = 8
  MaxCrashes = 1
  MaxDbFaults = 1
  MaxDiskFaults = 1
  Scopes = {s1}
SPECIFICATION Spec
INVARIANTS QueueNeverOutOfOrder
CHECK_DEADLOCK FALSE
