SPECIFICATION Spec
CONSTANTS
  Agents = {1, 2}
  Runs = {1, 2}
  MaxIterations = 2
  RetryAttempts = 2
  Threshold = 3
  KeepRecent = 2
  MaxCalls = 2
  KeyChangesDuringRun = TRUE
INVARIANT StopReachesTheRun
CHECK_DEADLOCK FALSE
