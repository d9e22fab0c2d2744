CONSTANTS
    t1 = t1
    t2 = t2
    t3 = t3
    NoThread = NoThread
    Threads <- MC_Threads
    ProofLen = {0, 4}
    MaxCalls = 2
SPECIFICATION Spec
INVARIANTS VerifyNeverPanics
CHECK_DEADLOCK FALSE
