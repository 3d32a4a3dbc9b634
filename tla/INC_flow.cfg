SPECIFICATION Spec
CONSTANTS
    MaxIncidents = 2
    MaxChanges = 2
    MaxFaults = 1
    Events = {e1}
    officer = officer
    colleague = colleague
    tab1 = tab1
    tab2 = tab2
    Users = {officer, colleague}
    Readers = {officer}
    Officers = {officer}
    Sessions = {tab1, tab2}
    UserOf <- MCUserOf
    Severities = {"low", "high"}
    Patches <- MCPatches
    None = None
SYMMETRY TabSymmetry
INVARIANTS TypeOK HistoryIsChain ClosedIsTerminal RepeatsBounded
PROPERTY NoBlindWrite
CHECK_DEADLOCK FALSE
