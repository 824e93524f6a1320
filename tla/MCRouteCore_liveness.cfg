SPECIFICATION FairSpec
CONSTANTS
  a = a
  b = b
  ws = ws
  auth = auth
  User = User
  NoRole = NoRole
  NoTask = NoTask
  NoRun = NoRun
  Role = {a, b}
  Task = {1, 2}
  Run = {1, 2, 3, 4}
  Resource = {ws, auth}
  Needs <- SharedNeeds
  UserRequests <- Delegate
  AgentRequests <- Delegate
  WaitKinds = {"child_results", "user_input"}
  Outcome = {"succeeded"}
  DefaultTo <- Defaults
  MaxLive = 3
  ChainBudget = 100
PROPERTIES
  DueTaskIsContinued
  QueuedTaskIsStarted
CHECK_DEADLOCK FALSE
