SPECIFICATION Spec
CONSTANTS
    NULL = NULL
    NO_CLASS = NO_CLASS
    NO_OWNER = NO_OWNER
    t1 = t1
    t2 = t2
    Threads = {t1, t2}
    Classes = {1}
    PAGE_SIZE = 2
    META_PAGES = 1
    POOL_PAGES = 3
    PAGES_PER_ARENA = 6
    OsPages <- MCOsPages
    Bases <- MCBases
    SLAB_MAX_SIZE = 1
    HUGE_ALLOC_THRESHOLD = 5
    Sizes = {1, 3, 5}
    AlignedSizes = {5}
    NewSizes = {3}
    MaxBlocks = 2
    CachelessFrees = FALSE
INVARIANTS
    CopyStaysInside
CHECK_DEADLOCK FALSE
