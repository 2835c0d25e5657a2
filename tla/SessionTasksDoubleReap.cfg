SPECIFICATION Spec
CONSTANTS
    Reapers = {p1, p2}
    Spawner = spawner
    MaxAttempts = 2
INVARIANTS
    OneRunPerAttempt
