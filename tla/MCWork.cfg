SPECIFICATION WorkSpec
CONSTANTS
    p1 = p1
    p2 = p2
    w1 = w1
    w2 = w2
    Procs = {p1, p2}
    Worktrees = {w1, w2}
    Home <- SharedHome
    Paths = {1, 2}
    None = None
    Faults = {"kill"}
    Changes = {"write"}
    MaxTx = 2
    MaxCrashes = 1
    MaxEdits = 0
    Retention = 0
    Payloads <- Workloads
    Renames = FALSE
    MaxRuns = 2
    Users = {p1, p2}
    Names = {"plot", "table"}
    Contents = {"x", "y"}
    Profiles <- Storages
    Void = None
    MaxAlterations = 1
    MaxCommands = 4
    Commands = {p1, p2}
    TreePaths = {"a", "b", "m"}
    Globs = {"a", "m"}
    Metadata = {"m"}
    Gone = None
    MaxRounds = 3
    MaxHands = 2
    Hands = {p1, p2}
    SourceIDs = {"s1", "s2", "s3"}
    Keys = {"a", "b"}
    Locators = {"l1", "l2"}
    Homes = {"h1", "h2"}
    Roots = {"r1", "r2"}
    Depth <- Nesting
    Elder = "s1"
    Outer = "r1"
    Hint = "l1"
    Leisure = None
    MaxErrands = 2
    MaxMoves = 2
INVARIANTS OwnWorktree OnePrepared RevisionHeld
PROPERTIES TransactIsAtomic EvidenceHolds ArchiveHonest 
    CloneMeansSource
