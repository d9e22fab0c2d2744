CONSTANTS
    c1 = c1
    c2 = c2
    d1 = d1
    d2 = d2
    NoReturn = NoReturn
    c3 = c3
    Callers <- Async_Callers
    Method <- Async_Method
    DefaultFns <- MC_DefaultFns
    Async = TRUE
    MaxVals = 2
    MaxResets = 1
SPECIFICATION Spec
INVARIANTS LoggedInPopOrder
CHECK_DEADLOCK FALSE
