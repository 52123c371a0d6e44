SPECIFICATION Spec
CONSTANTS
    c1 = c1
    c2 = c2
    c3 = c3
    r1 = r1
    Calls = {c1, c2, c3}
    Requests = {r1}
    Handlers = 2
    MaxDrops = 1
INVARIANTS
    TypeOK
    UnknownOnlyLate
    EntryHasCall
PROPERTIES
    SlotsSpec
    WaitsOnlyForOthers
    RequestsAnswered
CHECK_DEADLOCK FALSE
