SPECIFICATION Spec
CONSTANTS
  a = a
  b = b
  ws = ws
  auth = auth
  User = User
  NoRole = NoRole
  NoTask = NoTask
  NoRun = NoRun
  Role = {a, b}
  Task = {1, 2, 3, 4}
  Run = {1, 2, 3, 4}
  Resource = {ws, auth}
  Needs <- SharedNeeds
  UserRequests <- OnlyA
  AgentRequests <- OnlyB
  WaitKinds = {"child_results"}
  Outcome = {"succeeded", "partial"}
  DefaultTo <- Defaults
  MaxLive = 3
  ChainBudget = 100
INVARIANTS
  TypeOK
  SlotsAgree
  LeasesAgree
  ResourcesExclusive
  ReadyIsExact
  NothingIsAbandoned
CHECK_DEADLOCK FALSE
