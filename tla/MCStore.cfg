SPECIFICATION StoresSpec
CONSTANTS
    d1 = d1
    d2 = d2
    j1 = j1
    j2 = j2
    Clients = {d1, d2}
    Holder <- OwnHolder
    Jobs = {j1, j2}
    Direct = {j2}
    None = None
    Orphans = TRUE
    MaxToken = 2
    MaxTasks = 2
    Scope <- OneScope
    Capacity = 1
    Faults = {}
SYMMETRY ClientSymmetry
INVARIANTS TypeOK LeaderOnly RunsOnce
PROPERTIES PauseHonoured JobHistory
CONSTRAINT Lone
