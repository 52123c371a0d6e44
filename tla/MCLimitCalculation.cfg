SPECIFICATION Spec
CONSTANTS
  MaxCurrents <- MCMaxCurrents
  Vehicles <- MCVehicles
  MaxVehicles = 3
INVARIANTS
  SuspendedOrUsable
  SuspensionFollowsPriority
  ExcessOnlyFromMinimum
  NothingLeftOver
  HeavierGetsMore
CHECK_DEADLOCK FALSE
