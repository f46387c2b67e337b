\* An item that accept refuses is never read again.
SPECIFICATION Spec
CONSTANTS
    Validators = {v1}
    Polls = {p1}
    MaxItems = 2
    PageSize = 1
    MaxRequests = 2
    MaxFailures = 1
    NoEndpoint = NoEndpoint
INVARIANT AcceptedBelowOffset
