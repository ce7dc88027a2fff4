SPECIFICATION Spec
CONSTANTS
    Inputs = {i1}
    NoInputs = NoInputs
    Tagged = {}
    Commits = {c1}
    NoCommit = NoCommit
    RunResults = {"noDigest", "failed"}
    MaxGen = 1
    MaxLag = 1
    MaxDeliveries = 0
    MaxFaults = 1
    MaxCrashes = 1
    MaxFailures = 2
    MaxDeletes = 1
    Settled = FALSE
    InitInputs = {i1}
    InitRebuild = {FALSE}
    InitDeps <- DepsOneMissing
    InitOwners = {"absent", "orphan", "foreign"}
    InitForeign <- FirstNameTaken
    LaterForeign <- FirstName
    LaterBuild = TRUE
INVARIANT TypeOK
INVARIANT OwnershipInv
INVARIANT RunNumbersTracked
INVARIANT OnlyConflictsStick
PROPERTY ForeignUntouched
CHECK_DEADLOCK FALSE
