SPECIFICATION Spec
CONSTANTS
  codex = codex
  zcode = zcode
  Harness <- MCHarness
  First = codex
  MaxConfirm = 2
  MaxRetry = 1
  MaxSession = 2
  MaxOp = 1
  MaxTask = 2
  MaxSlot = 1
  MaxTrouble = 1
  MaxCrash = 1
INVARIANTS
  TypeOK
  RunKeepsItsSession
  NothingIsForgotten
  SeededAtMostOnce
  CommittedIsSeeded

  
CHECK_DEADLOCK FALSE
