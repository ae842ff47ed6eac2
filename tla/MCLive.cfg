SPECIFICATION LiveSpec
CONSTANTS
    d1 = d1
    j1 = j1
    c1 = c1
    c2 = c2
    Clients = {d1}
    Holder <- OwnHolder
    Jobs = {j1, 1}
    Direct = {1}
    None = None
    Orphans = FALSE
    MaxToken = 1
    MaxTasks = 2
    Scope <- OneScope
    Capacity = 1
    Faults = {"die", "pause", "clean", "slow"}
    Commands = {c1, c2}
    MaxAttempts = 1
    MaxKills = 1
    Ops = {"create", "exec", "resume", "reconcile", "conclude", "cleanup"}
    Trouble = {"daemon"}
INVARIANTS ClosedIsQuiet
PROPERTIES EvidenceImported  Progress
