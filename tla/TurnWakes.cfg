SPECIFICATION FairSpec
CONSTANTS
    Workers = {w1}
    NoWorker = NoWorker
    Servers = {s1, s2}
    Messages = {m1, m2}
    MaxAttempts = 1
    MaxIterations = 2
    MaxTasks = 8
    Commands = {"message"}
    Reports = {"results", "blocked", "waiting"}
    CrashPoints = {"check", "run", "complete", "fail", "tryFail", "announce",
                   "drain", "effects", "schedule",
                   "start.claim", "start.create", "start.enqueue", "start.signal",
                   "reap.status", "reap.announce"}
INVARIANTS
    WakesAreKept
    OneTaskAtATime
PROPERTIES
    RunningEnds
CHECK_DEADLOCK FALSE
