SPECIFICATION FairSpec
CONSTANTS
    Instances = {i1, i2}
    NoInstance = none
    MaxConcurrent = 1
    LastOccurrence = 4
    MaxSkew = 1
    MaxTime = 2
    MaxFaults = 0
    MaxCommands = 0
    MaxRecords = 2
CHECK_DEADLOCK FALSE
INVARIANT NoDuplicateTriggers
