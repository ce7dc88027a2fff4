SPECIFICATION Spec
CONSTANTS
    Inputs = {i1}
    NoInputs = NoInputs
    Tagged = {}
    Commits = {c1, c2}
    NoCommit = NoCommit
    a = a
    b = b
    hub = hub
    own = own
    main = main
    k1 = k1
    k2 = k2
    c1 = c1
    c2 = c2
    ImageBuilds = {a, b}
    Repos = {hub, own}
    Hosted = {hub}
    Branches = {main}
    NoBranch = NoBranch
    NoRef = NoRef
    Keys = {k1, k2}
    Configs <- SomeConfigs
    Deliveries <- SomeDeliveries
    InitSecrets = {k1, k2, "empty"}
    MaxRequests = 2
    MaxEdits = 1
    MaxFaults = 1
SYMMETRY Symmetry
INVARIANT WebhookInv
INVARIANT WithheldOnlyByError
INVARIANT OnlyDueWritten
INVARIANT ErrorHasCause
INVARIANT RecordedWasPushed
CHECK_DEADLOCK FALSE
