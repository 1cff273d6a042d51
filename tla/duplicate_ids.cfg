SPECIFICATION Spec
CONSTANTS
    NULL = NULL
    GlobalSlab = GlobalSlab
    t1 = t1
    t2 = t2
    Threads = {t1, t2}
    Classes = {0}
    NumPages = 1
    MaxSlots = 2
    MaxThreads = 1
    IdModulus = 4
    OsMayFail = FALSE
    MaxAttempts = 8
    Caches <- MCCaches
    SlotsOf <- MCSlotsOf
INVARIANTS
    CacheIdsUnique
