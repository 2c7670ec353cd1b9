SPECIFICATION Spec
CONSTANTS
  a = a
  b = b
  c = c
  d = d
  ghost = ghost
  Tasks <- FourTasks
  Priorities = {0}
  MaxTime = 0
  MaxPlans = 2
  Plans <- ApartPlanIds
  Steps <- ApartPlans
  Calls = {c1, c2}
  MaxConcurrency = 2
  SharesOutput = TRUE
  None = None
CHECK_DEADLOCK FALSE
INVARIANTS
  WithinMaxParallelWorkers
