SPECIFICATION PartsSpec
CONSTANTS
    None = None
    Procs = {"p1"}
    Worktrees = {"w1"}
    Home <- HomeOfAll
    Paths = {1, 2}
    Faults = {"edit", "kill"}
    Changes = {"write"}
    MaxTx = 1
    MaxCrashes = 1
    MaxEdits = 2
    Retention = 0
    c1 = c1
    c2 = c2
    Clients = {c1, c2}
    Plans = {"a", "b", "d", "e"}
    Findings = {"f0", "f1"}
    Depends <- Belief
    Score <- Scores
    Founding = "f0"
    Underway = "a"
    Waiting <- Line
    Idle = None
    MaxCommands = 3
    Inside = {"x", "u", "v"}
    Outside = {"o"}
    Tracked = {"x", "o"}
    Unset = None
    MaxWork = 2
    Users = {c1, c2}
    Versions = {"v1", "v2", "v3"}
    Defines <- Layout
    Malformed = {"v3"}
    Wants = {"selector"}
    Selections = {TRUE}
    Resting = None
    MaxTasks = 2
    MaxHands = 1
    Surfaces = {"ledger", "readme"}
    Views = {"readme"}
    Others = {"script"}
    Items = {"report", "belief", "idea", "line"}
    Legacy <- LegacyEntries
    Answers <- Reviews
    MaxPlans = 2
    MaxSaves = 2
    MaxKills = 1
    Starters = {c1, c2}
    Trees = {"main", "linked"}
    Nil = None
    MaxInits = 2
    MaxOutside = 2
    MaxDeaths = 1
    Installers = {c1, c2}
    Bundles = {"v1", "v2"}
    Size = 2
    Folders = {"d1", "d2"}
    AtRest = None
    MaxRuns = 2
    MaxTouches = 1
SYMMETRY ActorSymmetry
CHECK_DEADLOCK FALSE
INVARIANT EverythingKept
