CONSTANTS
  s1 = s1
  s2 = s2
  HourMs = 100
  MaxCardinality = 2
  Rankings <- MCOneRanking
  Reasons = {}
  Interval = 2
  PostEndInterval = 1
  EndAt = 9
  Bootstraps = FALSE
  MaxFiles = 2
  MaxTime = 9
  MaxCrashes = 1
  MaxDbFaults = 1
  MaxDiskFaults = 1
  Scopes = {s1}
SPECIFICATION Spec
INVARIANTS AcceptedNotLost SlotUsedOnce CommittedOnce CachedStateCurrent MissedSlotsRecorded
CHECK_DEADLOCK FALSE
