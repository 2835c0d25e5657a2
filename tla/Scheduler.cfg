SPECIFICATION FairSpec
CONSTANTS
    Instances = {i1, i2}
    NoInstance = none
    MaxConcurrent = 1
    LastOccurrence = 2
    MaxSkew = 1
    MaxTime = 2
    MaxFaults = 2
    MaxCommands = 1
    MaxRecords = 2
CHECK_DEADLOCK FALSE
INVARIANTS
    TypeOK
    TriggeredOnce
    OvershootBounded
PROPERTIES
    DueIsServed
