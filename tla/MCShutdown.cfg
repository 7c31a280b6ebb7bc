SPECIFICATION ShutdownSpec
CONSTANTS
    s1 = s1
    s2 = s2
    s3 = s3
    Entries <- MCRequests
    Snapshots <- MCRequests
    Poison <- MCPoison
    Capacity = 2
    BatchSize = 2
    RetryAttempts = 0
    FlushDelays = FALSE
INVARIANTS
    AwaitedAreAudited
PROPERTIES
    ShutdownProceeds
