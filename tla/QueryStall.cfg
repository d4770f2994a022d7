CONSTANTS
    NumRows = 3
    HighWaterMark = 2
    BadRows = {2}
    NullRows = {}
    PreAborted = FALSE
SPECIFICATION FairSpec
PROPERTY StreamSettles
CHECK_DEADLOCK FALSE
