CONSTANTS
    NumRows = 3
    HighWaterMark = 2
    BadRows = {}
    NullRows = {2}
    PreAborted = FALSE
SPECIFICATION Spec
INVARIANT FinishedHasEveryRow
CHECK_DEADLOCK FALSE
