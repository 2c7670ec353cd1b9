SPECIFICATION Spec
CONSTANTS
  ModeRules <- DefaultModeRules
  Policies <- StricterCode
  AutoApproval <- PolicyOff
  Proposals <- TwoKinds
  Intents = {i1, i2}
  Requests = {r1, r2}
  Approvers = {u1, u2}
  InitialMode = "auto"
  None = None
SYMMETRY Symmetric
CHECK_DEADLOCK FALSE
INVARIANTS
  TypeOK
  NoZombieWaiter
  JudgedUnderCurrentMode
  VerdictReachesIntent
  ObserversSeeTheLife
PROPERTIES
  ImplementsLifecycle
