SPECIFICATION Spec
CONSTANTS
    NULL = NULL
    GlobalSlab = GlobalSlab
    t1 = t1
    t2 = t2
    t3 = t3
    Threads = {t1, t2, t3}
    Classes = {0, 1}
    NumPages = 2
    MaxSlots = 2
    MaxThreads = 2
    IdModulus = 8
    OsMayFail = TRUE
    MaxAttempts = 3
    Caches <- MCCaches
    SlotsOf <- MCSlotsOf
SYMMETRY MCSymmetry
CONSTRAINT AttemptsBound
ACTION_CONSTRAINT OneCallAtATime
INVARIANTS
    CacheIdsUnique
    FreeListsExact
    OpenPagesListed
