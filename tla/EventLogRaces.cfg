SPECIFICATION FairSpec
CONSTANTS
    Flows = {1, 2}
    Appends = {a1, a2, a3}
    Claims = {c1, c2}
    Sole = a3
    NoClaim = NoClaim
    FlowOf <- MCFlowOf
    Started <- MCStarted
    MaxTries = 2
INVARIANTS
    TypeOK
    LogIsSequence
    ClaimNeverConflicts
    ConflictMeansProgress
    ClaimsDoNotDeadlock
PROPERTIES
    EverythingEnds
CHECK_DEADLOCK FALSE
