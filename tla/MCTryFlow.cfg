SPECIFICATION TrySpec
CONSTANTS
    c1 = c1
    c2 = c2
    Commands = {c1, c2}
    Clients = {}
    Holder <- NoHolder
    Jobs = {1, 2}
    Direct = {1, 2}
    None = None
    Orphans = FALSE
    MaxToken = 0
    MaxTasks = 0
    MaxAttempts = 2
    MaxKills = 1
    Ops = {"create", "run","resume", "retry", "reconcile", "conclude", "adopt", "cleanup"}
    Trouble = {"stall", "lose", "daemon"}
SYMMETRY CommandSymmetry
INVARIANTS InvokedOnce RecordsTellTruth
PROPERTIES FirstVerdictStays

CONSTRAINT Focus
