SPECIFICATION Spec
CONSTANTS
  Sessions = {1, 2}
  Ocpp16 = {}
  Loops = {l1, l2}
  MaxCurrents = {2000}
  Allocate <- MCAllocate
  MinChange = 300
  MaxEdits = 0
  Faults = {}
  Tracked = {}
  NoLoop = NoLoop
  Unset = Unset
INVARIANT
  LoopWhileActive
CHECK_DEADLOCK FALSE
