SPECIFICATION Spec
CONSTANTS
    s1 = s1
    s2 = s2
    s3 = s3
    g1 = g1
    Entries <- MCEntries
    Snapshots <- MCSnapshots
    Poison <- MCPoison
    Capacity = 2
    BatchSize = 2
    RetryAttempts = 1
    FlushDelays = TRUE
INVARIANTS
    TypeOK
    ExactAccounting
    LossIsVisible
    StoredOnce
    FlushedMeansDecided
PROPERTIES
    EverythingDecided
