SPECIFICATION FairSpec
CONSTANTS
  Children = {1, 2, 3}
  Requests = {r1, r2}
  ServerAsks = TRUE
  None = None
CHECK_DEADLOCK FALSE
INVARIANTS
  WaitersArePending
PROPERTIES
  FailedStartStaysFailed
  RequestsSettle
