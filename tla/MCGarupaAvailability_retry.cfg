CONSTANTS
  v1 = v1
  v2 = v2
  Calls = {v1, v2}
  NoWait = {v2}
  Threshold = 2
  Fallback = 0
  MaxVersion = 2
  MaxFaults = 1
SPECIFICATION Spec
PROPERTIES RejectedIsRetried
