SPECIFICATION Spec
CONSTANTS
    NumDocs = 2
    Workers = {w1, w2}
    MaxChunks = 2
    Chunks <- MCChunksTwoZero
    MaxAttempts = 2
    LossyHeartbeat = FALSE
    PromptRestart = TRUE
    Deletable = {1, 2}
    MaxCrashes = 2
    MaxFaults = 1
    MaxRetries = 1
    None = None
SYMMETRY WorkerSymmetry
INVARIANTS TypeOK Exclusive DoneIsComplete RowAndFileAgree
PROPERTIES OrphanedOnlyByFailure ImplementsLife
CHECK_DEADLOCK FALSE
