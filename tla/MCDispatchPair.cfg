SPECIFICATION Spec
CONSTANTS
    d1 = d1
    d2 = d2
    j1 = j1
    j2 = j2
    Clients = {d1}
    Holder <- OwnHolder
    Jobs = {j1, j2}
    Direct = {}
    None = None
    Orphans = FALSE
    MaxToken = 2
    MaxTasks = 2
    Scope <- OneScope
    Capacity = 1
    Faults = {"kill", "pause"}
INVARIANTS CapacityHeld GiveUpSettles
SYMMETRY Symmetry
