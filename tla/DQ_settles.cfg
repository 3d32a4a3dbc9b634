SPECIFICATION FairSpec
CONSTANTS
    NumDocs = 2
    Workers = {w1, w2}
    MaxChunks = 0
    Chunks <- MCChunksNone
    MaxAttempts = 2
    LossyHeartbeat = TRUE
    PromptRestart = TRUE
    Deletable = {1}
    MaxCrashes = 1
    MaxFaults = 2
    MaxRetries = 0
    None = None
PROPERTY PendingIsServed
CHECK_DEADLOCK FALSE
