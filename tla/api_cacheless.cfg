SPECIFICATION Spec
CONSTANTS
    NULL = NULL
    NO_CLASS = NO_CLASS
    NO_OWNER = NO_OWNER
    t1 = t1
    t2 = t2
    Threads = {t1, t2}
    Classes = {2}
    PAGE_SIZE = 4
    META_PAGES = 1
    POOL_PAGES = 1
    PAGES_PER_ARENA = 4
    OsPages <- MCOsPages
    Bases = {1}
    SLAB_MAX_SIZE = 2
    HUGE_ALLOC_THRESHOLD = 3
    Sizes = {1, 2}
    AlignedSizes = {}
    NewSizes = {1}
    MaxBlocks = 3
    CachelessFrees = TRUE
ACTION_CONSTRAINT OneCallAtATime
INVARIANTS
    OnlyStrandedLost
PROPERTIES
    HeapSpec
CHECK_DEADLOCK FALSE
