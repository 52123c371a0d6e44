SPECIFICATION MCFairSpec
CONSTANTS
  Sessions = {1, 2}
  Ocpp16 = {2}
  Loops = {l1, l2}
  MaxCurrents = {600, 800, 1100}
  Allocate <- MCAllocate
  MinChange = 300
  MaxEdits = 2
  Faults = {"event lost"}
  Tracked = {}
  NoLoop = NoLoop
  Unset = Unset
PROPERTIES
  LoopsStop
  SessionsGetLimit
  LimitsConverge
CHECK_DEADLOCK FALSE
