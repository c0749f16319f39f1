CONSTANTS
    MaxBatches = 5
    BulkBuffer = 4
    MaxAttempts = 3
SPECIFICATION FairSpec
INVARIANTS
    CommitMeansComplete
    OneJob
PROPERTIES
    QueriesEnd
CHECK_DEADLOCK FALSE
