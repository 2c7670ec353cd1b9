SPECIFICATION Spec
CONSTANTS
  forbidden = forbidden
  ask1 = ask1
  ask2 = ask2
  task = task
  Agents = {1, 2}
  Runs = {1, 2}
  MaxIterations = 2
  RetryAttempts = 2
  Threshold = 3
  KeepRecent = 2
  MaxCalls = 2
  Calls <- FourCalls
  TaskCalls = {task}
  BuiltinDenied = {forbidden}
  Denied = {}
  Allowed = {forbidden, task}
  Asked = {}
  SafeCalls = {}
  Mode = "default"
  Key <- KeyOf
INVARIANTS RanAsJudged AskedOnce SavedIsPaired
CHECK_DEADLOCK FALSE
