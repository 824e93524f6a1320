SPECIFICATION Spec
CONSTANTS
  codex = codex
  zcode = zcode
  Harness <- MCHarness
  First = codex
  MaxConfirm = 2
  MaxRetry = 1
  MaxSession = 2
  MaxOp = 1
  MaxTask = 2
  MaxSlot = 1
  MaxTrouble = 2
  MaxCrash = 1
INVARIANTS
  QueueIsDrained
CHECK_DEADLOCK FALSE
