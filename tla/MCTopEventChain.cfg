CONSTANTS
  HourMs = 4
  MaxCardinality = 2
  Rankings <- MCRankings
  Reasons = {"timeout"}
  Interval = 2
  PostEndInterval = 2
  EndAt = 5
  Bootstraps = TRUE
  Legacy <- MCLegacy
  MaxTime = 7
  MaxEvents = 3
SPECIFICATION ChainSpec
INVARIANTS DecodedExactly LoadedStateAgrees HistoryIsSlice PointsAreFinal MergedViewInOrder
CHECK_DEADLOCK FALSE
