SPECIFICATION Spec
CONSTANTS
  one = one
  two = two
  Role = {one, two}
  Key = {1, 2, 3, 4, 5}
  RoleOf <- Roles
  ModeOf <- Modes
  WorkspaceOf <- OneOf
  AuthOf <- OneOf
  NoKey = NoKey
  MaxEpoch = 2
  MaxTrouble = 1
INVARIANTS
  TypeOK
  OneProcessPerWorkspace
  LeaseOutlivesProcess
  DeliveredIsResumable
  RetriesAreProven
PROPERTIES
  CancelledIsNotPrompted
  EveryExecutionEnds
  KeepsPromise
CHECK_DEADLOCK FALSE
