SPECIFICATION Spec
CONSTANTS
  one = one
  two = two
  Role = {one, two}
  Key = {1, 2, 3, 4, 5}
  RoleOf <- Roles
  ModeOf <- Modes
  WorkspaceOf <- EachOwn
  AuthOf <- OneOf
  NoKey = NoKey
  MaxEpoch = 1
  MaxTrouble = 0
INVARIANTS
  AuthUnitIsSerial
CHECK_DEADLOCK FALSE
