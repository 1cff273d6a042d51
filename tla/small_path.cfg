SPECIFICATION BusySpec
CONSTANTS
    NULL = NULL
    GlobalSlab = GlobalSlab
    t1 = t1
    t2 = t2
    Threads = {t1, t2}
    Classes = {0}
    NumPages = 2
    MaxSlots = 2
    MaxThreads = 2
    IdModulus = 8
    OsMayFail = FALSE
    MaxAttempts = 8
    Caches <- MCCaches
    SlotsOf <- MCSlotsOf
INVARIANTS
    TypeOK
    FreeListsExact
    PartialListsExact
    IInv
    Reached
PROPERTIES
    OwnerExclusive
    PoolSpec
    ParkedReclaimed
