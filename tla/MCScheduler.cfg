SPECIFICATION Spec
CONSTANTS
  Last = 3
  WorkspaceOf <- MCWorkspaceOf
  MaxQueue = 2
  MaxLive = 2
  RoleLimit = 1
  RoleWindow = 1
  SpaceLimit = 2
  SpaceWindow = 2
  MaxAsk = 3
  MaxBack = 1
  MaxTrouble = 1
INVARIANTS
  NoLostWakeup
  StartRateHolds

  
CHECK_DEADLOCK FALSE
