SPECIFICATION Spec
CONSTANTS
    a = a
    b = b
    e1 = e1
    Transactions = {a, b}
    Evses = {e1}
    EvseOf <- MCEvseOf
    Messages <- MCMessages
    SendCostUpdated = TRUE
    MaxQueries = 1
    None = None
INVARIANTS
    TypeOK
    OneActivePerEvse
    EndedStaysInactive
    FinalBill
CHECK_DEADLOCK FALSE
