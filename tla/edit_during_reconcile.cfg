SPECIFICATION Spec
CONSTANTS
    Inputs = {i1, i2, i3}
    NoInputs = NoInputs
    Tagged = {}
    Commits = {c1, c2}
    NoCommit = NoCommit
    RunResults = {"digest"}
    MaxGen = 3
    MaxLag = 1
    MaxDeliveries = 0
    MaxFaults = 0
    MaxCrashes = 0
    MaxFailures = 2
    MaxDeletes = 0
    Settled = TRUE
    InitInputs = {i1}
    InitRebuild = {TRUE}
    InitDeps <- DepsPresent
    InitOwners = {"absent"}
    InitForeign <- NobodyElse
    LaterForeign = {}
    LaterBuild = FALSE
SYMMETRY Symmetry
INVARIANT SpecIsBuilt
CHECK_DEADLOCK FALSE
