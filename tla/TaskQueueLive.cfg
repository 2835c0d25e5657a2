SPECIFICATION FairSpec
CONSTANTS
    Tasks = {t1, solo}
    Workers = {w1}
    Flow = f1
    Unstarted = {f1}
    Workflows = {f1}
    NoWorker = NoWorker
    NoWorkflow = NoWorkflow
    Solo = solo
    Once = {}
    Limit = 4
    WorkflowOf <- MCWorkflowOf
    MaxAttempts <- MCMaxAttempts
    SealThreshold = 2
    ClaimBatch = 1
    MaxPendingTasks = 1
    MaxEnqueuers = 1
    MaxSeq = 1
INVARIANTS
    NoProgressCountIsExact
PROPERTIES
    EventuallySettled
    ImplementsLifecycle
CHECK_DEADLOCK FALSE
