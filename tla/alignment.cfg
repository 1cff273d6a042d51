SPECIFICATION Spec
CONSTANTS
    SL_LOG2 = 4
    FL_MAX = 21
    MaxSize = 2048
INVARIANTS
    AlignedTo16
CHECK_DEADLOCK FALSE
