CONSTANTS
  s1 = s1
  s2 = s2
  HourMs = 4
  MaxCardinality = 2
  Rankings <- MCOneRanking
  Reasons = {"timeout"}
  Interval = 1
  PostEndInterval = 3
  EndAt = 20
  Bootstraps = TRUE
  MaxFiles = 2
  MaxTime = 3
  MaxCrashes = 2
  MaxDbFaults = 1
  MaxDiskFaults = 0
  Scopes = {s1, s2}
SPECIFICATION FairSpec
INVARIANTS QueueNeverOutOfOrder
PROPERTIES ImplementsLog AcceptedEventuallyCommitted
CHECK_DEADLOCK FALSE
