\* After a restart, a peer that was marked as synced.
SPECIFICATION FairSpec
CONSTANTS
    b1 = b1  b2 = b2  b3 = b3
    n1 = n1  n2 = n2  n3 = n3
    NoRecord = NoRecord
    Peers = {n1}
    Blocks = {b1, b2, b3}
    Pages <- OnePeer
    InitRecords <- ReadToEnd
    InitStored = {b1, b2}
    Deliveries = {}
    Failures = FALSE
    CronRuns = FALSE
PROPERTY SyncCompletes
