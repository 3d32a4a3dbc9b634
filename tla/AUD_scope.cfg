SPECIFICATION Spec
CONSTANTS
    Users = {officer, dev}
    Officers = {officer}
    Developers = {dev}
    Types <- MCTypes
    Filters <- MCFilters
    Sizes = {1, 2}
    ExportLimit = 2
    MaxEvents = 3
    MaxTime = 1
    None = None
CONSTRAINT OneReader
INVARIANT ShownCanBeOpened
CHECK_DEADLOCK FALSE
