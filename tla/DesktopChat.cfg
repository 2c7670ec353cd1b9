SPECIFICATION FairSpec
CONSTANTS
  Agents = {1, 2}
  Runs = {1, 2}
  MaxIterations = 3
  RetryAttempts = 2
  Threshold = 3
  KeepRecent = 2
  MaxCalls = 2
  KeyChangesDuringRun = FALSE
INVARIANTS OneRunAtATime RequestsArePaired BusyMeansWork
PROPERTIES EveryRunEnds
CHECK_DEADLOCK FALSE
