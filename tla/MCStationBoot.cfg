SPECIFICATION Spec
CONSTANTS
    h1 = h1
    h2 = h2
    Handlers = {h1, h2}
    UnknownStatus = "Pending"
    AutoAccept = TRUE
    MaxKeys = 2
    MaxEdits = 1
    None = None
INVARIANTS
    TypeOK
    ReportIsFresh
    RejectionHolds
    BlacklistRemembered
PROPERTIES
    EventuallyAccepted
