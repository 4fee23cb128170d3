CONSTANTS
  StartAt = 10
  EndAt = 11
  PostEndInterval = 2
  PostEndMax = 3
  TopInterval = 1
  BorderInterval = 1
  BucketSpan = 11
  MaxTime = 14
  MaxSamples = 3
  MaxMishaps = 1
SPECIFICATION FairSpec
INVARIANTS DocumentsInOrder FinalSampleStored
PROPERTIES RefreshEnds
CHECK_DEADLOCK FALSE
