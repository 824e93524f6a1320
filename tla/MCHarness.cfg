SPECIFICATION Spec
CONSTANTS
  Kinds = {"codex", "kimi", "dsh", "pi", "zcode"}
  EarlyLimit = 2
  MaxText = 1
  MaxOld = 1
PROPERTIES
  KeepsPromise
  CancelReachesAgent
  GrantsAreTimely
CHECK_DEADLOCK FALSE
