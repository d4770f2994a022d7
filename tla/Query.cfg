CONSTANTS
    NumRows = 5
    HighWaterMark = 3
    BadRows = {4}
    NullRows = {2, 5}
    PreAborted = FALSE
SPECIFICATION FairSpec
INVARIANT TypeOK
INVARIANT NextRowHasResult
INVARIANT RowsInOrder
INVARIANT FinishedMeansComplete
INVARIANT Backpressure
INVARIANT AbortReachesCore
INVARIANT MetadataTellsTheEnd
INVARIANT NativeResultPinned
INVARIANT OnlyABadRowStalls
PROPERTY AbortIsFinal
PROPERTY PromiseSettles
PROPERTY StreamSettlesOrStuck
PROPERTY ImplementsContract
CHECK_DEADLOCK FALSE
