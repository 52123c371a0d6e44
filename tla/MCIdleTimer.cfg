SPECIFICATION MCSpec
CONSTANTS
  Timers = {t1, t2, t3}
  Limits = {"zero", "some", "null"}
  Faults = {"event lost", "fetch fails", "update fails", "restart"}
  NoTimer = NoTimer
INVARIANTS
  EntryIsAlive
  MonitoredIsLegal
PROPERTIES
  IdleFoundUnlessBroken
  ResumptionUnlessBroken
  
CHECK_DEADLOCK FALSE
