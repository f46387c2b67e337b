\* Two peers, every failure, the cron job and other deliveries.
SPECIFICATION Spec
CONSTANTS
    b1 = b1  b2 = b2  b3 = b3
    n1 = n1  n2 = n2  n3 = n3
    NoRecord = NoRecord
    Peers = {n1, n2}
    Blocks = {b1, b2, b3}
    Pages <- UnevenPages
    InitRecords <- OneStarted
    InitStored = {}
    Deliveries = {b1}
    Failures = TRUE
    CronRuns = TRUE
INVARIANTS
    TypeOK
    OffsetsFollowAnswers
    SyncedIsReadToEnd
PROPERTY EndsWithPagesStored
