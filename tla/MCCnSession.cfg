CONSTANTS
  monthly = monthly
  event = event
  bootstrap = bootstrap
  Callers = {monthly, event, bootstrap}
  Versions = {1, 2}
  RetryDelay = 2
  MaxCalls = 4
  MaxRestarts = 1
  MaxTime = 3
SPECIFICATION FairSpec
INVARIANTS ServedInOrder NonceInStep
PROPERTIES CallsEnd
CHECK_DEADLOCK FALSE
