SPECIFICATION FairSpec
CONSTANTS
    Reapers = {p1}
    Spawner = spawner
    MaxAttempts = 2
INVARIANTS
    TypeOK
    NoFalseOrphan
    AttemptsBounded
    EndsAreReported
PROPERTIES
    FinishedIsFinal
    OrphansEnd
