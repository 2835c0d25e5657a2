SPECIFICATION Spec
CONSTANTS
    Workers = {w1, w2}
    NoWorker = NoWorker
    Servers = {s1}
    Messages = {m1}
    MaxAttempts = 2
    MaxIterations = 2
    MaxTasks = 3
    Commands = {"message"}
    Reports = {"results"}
    CrashPoints = {"check", "run", "complete", "fail", "tryFail", "announce",
                   "drain", "effects", "schedule",
                   "start.claim", "start.create", "start.enqueue", "start.signal",
                   "resume.activate", "resume.read", "resume.reset", "resume.enqueue",
                   "cancel.tasks", "cancel.status", "cancel.settle",
                   "reap.status", "reap.announce"}
SYMMETRY Symmetry
INVARIANTS
    OneOutcomePerTask
    OrphanedOnlyByDrop
CHECK_DEADLOCK FALSE
