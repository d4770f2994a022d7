CONSTANTS
    NumRows = 3
    HighWaterMark = 2
    BadRows = {}
    NullRows = {}
    PreAborted = TRUE
SPECIFICATION Spec
INVARIANT AbortReachesCore
CHECK_DEADLOCK FALSE
