SPECIFICATION Spec
CONSTANTS
  MaxCurrents <- MCMaxCurrents
  Vehicles <- MCVehicles
  MaxVehicles = 3
INVARIANT PowerGroupLimit
CHECK_DEADLOCK FALSE
