SPECIFICATION Spec
CONSTANTS
    Users = {ann, bob}
    Privileged = {}
    Requests = {r1, r2, r3, r4}
    Bodies <- MCBodies
    MaxTokens = 2
    Results = {clean, careful}
    TTL = 1
    Limit = 1
    Window = 1
    MaxTime = 2
    MaxRestarts = 1
    None = None
CONSTRAINT AtMostFive
SYMMETRY Symmetry
INVARIANTS TypeOK SingleUse MissHasReason ReportsBounded StormIsVisible
CHECK_DEADLOCK FALSE
