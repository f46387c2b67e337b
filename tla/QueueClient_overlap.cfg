\* Two overlapping polls of two validators, with a failure of every kind.
SPECIFICATION FairSpec
CONSTANTS
    Validators = {v1, v2}
    Polls = {p1, p2}
    MaxItems = 2
    PageSize = 2
    MaxRequests = 1
    MaxFailures = 1
    NoEndpoint = NoEndpoint
INVARIANTS
    TypeOK
    NothingSkipped
    OffsetInQueue
PROPERTIES
    OffsetStoredByPoll
    EveryItemIsOffered
