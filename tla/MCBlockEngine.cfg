SPECIFICATION Spec
CONSTANTS
  Sessions = {1}
  Ocpp16 = {1}
  Loops = {l1, l2}
  MaxCurrents = {500, 1100}
  Allocate <- MCAllocate
  MinChange = 300
  MaxEdits = 2
  Faults = {"event lost", "fetch fails", "send fails", "send dropped",
            "answer lost", "write fails", "restart"}
  Tracked = {1}
  NoLoop = NoLoop
  Unset = Unset
INVARIANTS
  TypeOK
  OneLiveLoop
  StationFollowsEngine
  DatabaseFollowsEngine
PROPERTIES
  LoopsOwnBlockOnce
  Ocpp16Settles
CHECK_DEADLOCK FALSE
