SPECIFICATION FairSpec
CONSTANTS
    Requests = {r1}
    Inputs <- MCInputs
    MaxFaults = 2
    LostAcks = TRUE
    MayShutdown = TRUE
INVARIANTS TypeOK  AuditedFirst VerdictAgrees ShownAsRecorded RawIsFlagged ConcludedOrGone IncidentJustified
PROPERTY ImplementsAudit BlockedGetsIncident
CHECK_DEADLOCK FALSE
