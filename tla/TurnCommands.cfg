SPECIFICATION Spec
CONSTANTS
    Workers = {w1}
    NoWorker = NoWorker
    Servers = {s1}
    Messages = {m1, m2}
    MaxAttempts = 1
    MaxIterations = 2
    MaxTasks = 4
    Commands = {"message", "resume", "cancel"}
    Reports = {"results", "waiting"}
    CrashPoints = {"check", "run", "complete", "fail", "tryFail", "announce",
                   "drain", "effects", "schedule",
                   "start.claim", "start.create", "start.enqueue", "start.signal",
                   "resume.activate", "resume.read", "resume.reset", "resume.enqueue",
                   "cancel.tasks", "cancel.status", "cancel.settle",
                   "reap.status", "reap.announce"}
SYMMETRY Symmetry
INVARIANTS
    TypeOK
    OrphanedOnlyByDrop
CHECK_DEADLOCK FALSE
