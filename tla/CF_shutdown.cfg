SPECIFICATION Spec
CONSTANTS
    Requests = {r1}
    Inputs <- MCFewInputs
    MaxFaults = 0
    LostAcks = FALSE
    MayShutdown = TRUE
INVARIANTS ExitKeepsIncidents
CHECK_DEADLOCK FALSE
