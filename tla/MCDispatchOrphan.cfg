SPECIFICATION Spec
CONSTANTS
    d1 = d1
    d2 = d2
    j1 = j1
    j2 = j2
    Clients = {d1}
    Holder <- OwnHolder
    Jobs = {j1}
    Direct = {}
    None = None
    Orphans = TRUE
    MaxToken = 2
    MaxTasks = 2
    Scope <- OneScope
    Capacity = 1
    Faults = {"kill", "slow", "clean"}
PROPERTIES UsesStore
CHECK_DEADLOCK FALSE
