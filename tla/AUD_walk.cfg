SPECIFICATION Spec
CONSTANTS
    Users = {officer, dev}
    Officers = {officer}
    Developers = {dev}
    Types <- MCTypes
    Filters <- MCFilters
    Sizes = {1, 2}
    ExportLimit = 2
    MaxEvents = 3
    MaxTime = 1
    None = None
CONSTRAINT OneReader
INVARIANTS TypeOK WalkIsComplete WalkDescends ExportIsNewest ListedCanBeOpened
CHECK_DEADLOCK FALSE
