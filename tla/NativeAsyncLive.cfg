CONSTANTS
    o1 = o1
    o2 = o2
    early = early
    other = other
    late = late
    NoOwner = NoOwner
    Owners <- OneOwner
    Calls <- ThreeCalls
    Async <- AsyncCalls
    ReplaySafe <- EarlyCall
    Serial <- EarlyAndLate
    MaxConcurrency = 1
    MaxResponses = 2
    MaxRequests = 2
SPECIFICATION FairSpec
PROPERTY
    EveryAttemptEnds
CHECK_DEADLOCK FALSE
