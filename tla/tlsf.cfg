SPECIFICATION Spec
CONSTANTS
    NULL = NULL
    SL_LOG2 = 1
    FL_MAX = 8
    PoolUnits = 22
    Requests = {10, 40, 100, 450}
INVARIANTS
    TypeOK
    BoundaryTags
    Coalesced
    ListsExact
    GoodFit
    HeldIntact
    HeapInv
PROPERTIES
    HeapSpec
