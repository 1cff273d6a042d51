SPECIFICATION Spec
CONSTANTS
    NULL = NULL
    GlobalSlab = GlobalSlab
    t1 = t1
    t2 = t2
    Threads = {t1, t2}
    Classes = {0}
    NumPages = 1
    MaxSlots = 3
    MaxThreads = 1
    IdModulus = 8
    OsMayFail = FALSE
    MaxAttempts = 5
    Caches <- MCCaches
    SlotsOf <- MCSlotsOf
CONSTRAINT AttemptsBound
INVARIANTS
    HandsOutFree
