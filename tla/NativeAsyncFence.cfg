CONSTANTS
    o1 = o1
    o2 = o2
    early = early
    other = other
    late = late
    NoOwner = NoOwner
    Owners <- TwoOwners
    Calls <- TwoCalls
    Async <- AsyncCalls
    ReplaySafe <- EarlyCall
    Serial <- EarlyAndLate
    MaxConcurrency = 1
    MaxResponses = 2
    MaxRequests = 3
SPECIFICATION Spec
SYMMETRY OwnerSymmetry
INVARIANTS
    TypeOK
    UnsafeRunsOnce
    OneOwnerSubmits
    DeliveredAreRecorded
    CompletionIsTotal
PROPERTY
    JournalMovesForward
CHECK_DEADLOCK FALSE
