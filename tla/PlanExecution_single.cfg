SPECIFICATION FairSpec
CONSTANTS
  a = a
  b = b
  c = c
  d = d
  ghost = ghost
  Tasks <- AllTasks
  Priorities = {0, 1}
  MaxTime = 1
  MaxPlans = 1
  Plans <- OnePlanIds
  Steps <- OnePlan
  Calls = {c1}
  MaxConcurrency = 2
  SharesOutput = TRUE
  None = None
CHECK_DEADLOCK FALSE
INVARIANTS
  ReportIsComplete
PROPERTIES
  ApprovalIsAnswered
