SPECIFICATION Spec
CONSTANTS
    Inputs = {i1, i2}
    NoInputs = NoInputs
    Tagged = {i1, i2}
    Commits = {c1, c2}
    NoCommit = NoCommit
    RunResults = {"digest"}
    MaxGen = 1
    MaxLag = 1
    MaxDeliveries = 2
    MaxFaults = 0
    MaxCrashes = 0
    MaxFailures = 2
    MaxDeletes = 0
    Settled = TRUE
    InitInputs = {i1, i2}
    InitRebuild = {TRUE}
    InitDeps <- DepsPresent
    InitOwners = {"absent"}
    InitForeign <- NobodyElse
    LaterForeign = {}
    LaterBuild = FALSE
SYMMETRY Symmetry
INVARIANT TriggerHasCommit
CHECK_DEADLOCK FALSE
