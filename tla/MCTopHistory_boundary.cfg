CONSTANTS
  s1 = s1
  s2 = s2
  HourMs = 100
  MaxCardinality = 2
  Rankings <- MCOneRanking
  Reasons = {"timeout"}
  Interval = 2
  PostEndInterval = 3
  EndAt = 6
  Bootstraps = FALSE
  MaxFiles = 2
  MaxTime = 8
  MaxCrashes = 0
  MaxDbFaults = 0
  MaxDiskFaults = 0
  Scopes = {s1}
SPECIFICATION Spec
INVARIANTS AllMissedSlotsRecorded
CHECK_DEADLOCK FALSE
