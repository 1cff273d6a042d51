SPECIFICATION Spec
CONSTANTS
    SL_LOG2 = 4
    FL_MAX = 21
    MaxSize = 524288
INVARIANTS
    SlotsRoundTrip
    BlockInItsList
    RequestRoundsUp
CHECK_DEADLOCK FALSE
