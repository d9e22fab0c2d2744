CONSTANTS
    c1 = c1
    c2 = c2
    c3 = c3
    d1 = d1
    d2 = d2
    NoReturn = NoReturn
    Callers <- Sync_Callers
    Method <- Sync_Method
    DefaultFns <- MC_DefaultFns
    Async = FALSE
    MaxVals = 2
    MaxResets = 1
SPECIFICATION Spec
INVARIANTS PopsInQueueOrder
CHECK_DEADLOCK FALSE
