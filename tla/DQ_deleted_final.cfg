SPECIFICATION Spec
CONSTANTS
    NumDocs = 1
    Workers = {w1}
    MaxChunks = 2
    Chunks <- MCChunksTwo
    MaxAttempts = 3
    LossyHeartbeat = FALSE
    PromptRestart = TRUE
    Deletable = {1}
    MaxCrashes = 1
    MaxFaults = 1
    MaxRetries = 1
    None = None
PROPERTY DeletedIsFinal
CHECK_DEADLOCK FALSE
