CONSTANTS
    Queries = {q1, q2}
    Closes = {c1, c2, c3}
SPECIFICATION FairSpec
INVARIANT TypeOK
INVARIANT FreedIsUnused
INVARIANT NobodyWaitsInVain
PROPERTY ClosesSettle
PROPERTY AcceptedQueriesSettle
PROPERTY CollectedIsFreed
CHECK_DEADLOCK FALSE
