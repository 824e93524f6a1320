SPECIFICATION Spec
CONSTANTS
  a = a
  b = b
  ws = ws
  auth = auth
  User = User
  NoRole = NoRole
  NoTask = NoTask
  NoRun = NoRun
  Role = {a, b}
  Task = {1, 2, 3}
  Run = {1, 2}
  Resource = {ws, auth}
  Needs <- SharedNeeds
  UserRequests <- UserAny
  AgentRequests <- Handoff
  WaitKinds = {"user_input", "child_results"}
  Outcome = {"succeeded", "failed"}
  DefaultTo <- Defaults
  MaxLive = 3
  ChainBudget = 100
INVARIANTS
  BarrierHolds
  
  UnknownIsNotRerun
  RecoverySucceeds
PROPERTIES
  ImplementsPromise
CHECK_DEADLOCK FALSE
