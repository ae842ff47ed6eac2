SPECIFICATION TrySpec
CONSTANTS
    c1 = c1
    c2 = c2
    Commands = {c1, c2}
    Clients = {}
    Holder <- NoHolder
    Jobs = {1}
    Direct = {1}
    None = None
    Orphans = FALSE
    MaxToken = 0
    MaxTasks = 0
    MaxAttempts = 1
    MaxKills = 1
    Ops = {"run", "retry", "reconcile"}
    Trouble = {}
SYMMETRY CommandSymmetry
PROPERTIES EditsKept
