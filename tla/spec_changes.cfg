SPECIFICATION FairSpec
CONSTANTS
    Inputs = {i1, i2}
    NoInputs = NoInputs
    Tagged = {i1, i2}
    Commits = {c1}
    NoCommit = NoCommit
    RunResults = {"failed"}
    MaxGen = 2
    MaxLag = 1
    MaxDeliveries = 1
    MaxFaults = 1
    MaxCrashes = 1
    MaxFailures = 1
    MaxDeletes = 1
    Settled = TRUE
    InitInputs = {i1}
    InitRebuild = {FALSE}
    InitDeps <- DepsPresent
    InitOwners = {"absent"}
    InitForeign <- SecondNameTaken
    LaterForeign = {}
    LaterBuild = FALSE
INVARIANT StatusSettles
INVARIANT BuildSettles
INVARIANT SettlingInv
PROPERTY CountersStepByOne
PROPERTY ComesToRest
CHECK_DEADLOCK FALSE
