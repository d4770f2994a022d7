CONSTANTS
    NumRows = 3
    HighWaterMark = 2
    BadRows = {}
    NullRows = {}
    PreAborted = FALSE
SPECIFICATION Spec
INVARIANT MetadataOnlyAtEnd
CHECK_DEADLOCK FALSE
