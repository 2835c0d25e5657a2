SPECIFICATION Spec
CONSTANTS
    Tasks = {t1, t2, t3}
    Workers = {w1, w2}
    Flow = f1
    Unstarted = {}
    Workflows = {f1}
    NoWorker = NoWorker
    NoWorkflow = NoWorkflow
    Solo = none
    Once = {t2, t3}
    Limit = 2
    WorkflowOf <- MCWorkflowOf
    MaxAttempts <- MCMaxAttempts
    SealThreshold = 1
    ClaimBatch = 2
    MaxPendingTasks = 1
    MaxEnqueuers = 2
    MaxSeq = 0
SYMMETRY Symmetry
INVARIANTS
    TypeOK
    ExecutionFence
    ExhaustedOnlyByHandBack
    PendingOvershootBounded
PROPERTIES
    TerminalIsFinal
    OnlyOwnerCompletes
CHECK_DEADLOCK FALSE
