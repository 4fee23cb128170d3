CONSTANTS
  v1 = v1
  v2 = v2
  Calls = {v1, v2}
  NoWait = {v2}
  Threshold = 1
  Fallback = 1
  MaxVersion = 2
  MaxFaults = 0
SPECIFICATION FairSpec
PROPERTIES DisabledIsTemporary CallsEnd
