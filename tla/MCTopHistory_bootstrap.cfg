CONSTANTS
  s1 = s1
  s2 = s2
  HourMs = 100
  MaxCardinality = 2
  Rankings <- MCOneRanking
  Reasons = {}
  Interval = 1
  PostEndInterval = 3
  EndAt = 20
  Bootstraps = TRUE
  MaxFiles = 3
  MaxTime = 7
  MaxCrashes = 2
  MaxDbFaults = 0
  MaxDiskFaults = 0
  Scopes = {s1}
SPECIFICATION Spec
INVARIANTS MissedSlotsRecorded
CHECK_DEADLOCK FALSE
