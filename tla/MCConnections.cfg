SPECIFICATION Spec
CONSTANTS
    a = a
    b = b
    a1 = a1
    a2 = a2
    b1 = b1
    Stations = {a, b}
    Sockets = {a1, a2, b1}
    StationOf <- MCStationOf
    MaxStations = 2
    MaxAdmin = 1
    NoSocket = NoSocket
    Admin = Admin
INVARIANTS
    TypeOK
    EntryOfLive
    CountMatches
    BoundUnlessRaced
    ClosedIsDeregistered
PROPERTIES
    CanComeBack
CHECK_DEADLOCK FALSE
