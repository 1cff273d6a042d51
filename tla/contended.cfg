SPECIFICATION FairSpec
CONSTANTS
    NULL = NULL
    GlobalSlab = GlobalSlab
    t1 = t1
    t2 = t2
    t3 = t3
    Threads = {t1, t2, t3}
    Classes = {0}
    NumPages = 1
    MaxSlots = 3
    MaxThreads = 3
    IdModulus = 8
    OsMayFail = FALSE
    MaxAttempts = 8
    Caches <- MCCaches
    SlotsOf <- MCSlotsOf
INVARIANTS
    StacksExact
    HandsOutFree
PROPERTIES
    SomeCallReturns
