SPECIFICATION RoomSpec
CONSTANTS
  ModeRules <- DefaultModeRules
  Policies <- TwoPeoplePolicies
  AutoApproval <- PolicyOn
  Proposals <- FourKinds
  Intents = {i1}
  Requests = {r1}
  Approvers = {u1, u2}
  InitialMode = "code"
  None = None
  Clients = {c1, c2, c3}
  Updates = {e1, e2}
CHECK_DEADLOCK FALSE
INVARIANTS
  ApprovedByConsent
  UnsavedIsScheduled
PROPERTIES
  TimedRequestsSettle
  ImplementsDurableDocument
  EditsArrive
