SPECIFICATION FairSpec
CONSTANTS
    Requests = {r1}
    Inputs <- MCFewInputs
    MaxFaults = 0
    LostAcks = FALSE
    MayShutdown = FALSE
PROPERTY LeakGetsIncident
CHECK_DEADLOCK FALSE
