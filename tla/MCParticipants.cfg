SPECIFICATION ParticipantSpec
CONSTANTS
  native = native
  guest = guest
  ws = ws
  k1 = k1
  k2 = k2
  User = User
  NoRole = NoRole
  NoTask = NoTask
  NoRun = NoRun
  Role <- MCRole
  Task = {1, 2, 3}
  Run = {1, 2}
  Resource = {ws}
  Needs <- MCNeeds
  UserRequests <- Work
  AgentRequests <- Delegated
  WaitKinds = {"child_results", "user_input"}
  Outcome = {"succeeded", "failed"}
  DefaultTo <- Defaults
  MaxLive = 3
  ChainBudget = 100
  Profiled <- MCProfiled
  Attached <- MCAttached
  Key = {k1, k2}
SYMMETRY KeySymmetry
INVARIANTS
  TaskSlotsAgree
  AnswersArePaired
  KeysActOnce
PROPERTIES
  OutsideWorkIsSafe
CHECK_DEADLOCK FALSE
