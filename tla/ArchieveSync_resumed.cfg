\* Three peers with records, no failures, nothing stored: every list is read.
SPECIFICATION FairSpec
CONSTANTS
    b1 = b1  b2 = b2  b3 = b3
    n1 = n1  n2 = n2  n3 = n3
    NoRecord = NoRecord
    Peers = {n1, n2, n3}
    Blocks = {b1, b2, b3}
    Pages <- SharedPages
    InitRecords <- Started
    InitStored = {}
    Deliveries = {}
    Failures = FALSE
    CronRuns = FALSE
INVARIANT CompleteMeansRead
PROPERTY SyncCompletes
