SPECIFICATION Spec
CONSTANTS
    h1 = h1
    h2 = h2
    Handlers = {h1, h2}
    UnknownStatus = "Rejected"
    AutoAccept = TRUE
    MaxKeys = 1
    MaxEdits = 0
    None = None
INVARIANTS
    OnlyTriggerWhenRejected
