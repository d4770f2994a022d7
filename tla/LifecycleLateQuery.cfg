CONSTANTS
    Queries = {q1}
    Closes = {c1}
SPECIFICATION FairSpec
PROPERTY LateQueriesSettle
CHECK_DEADLOCK FALSE
