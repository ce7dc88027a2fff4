SPECIFICATION FairSpec
CONSTANTS
    Unset = Unset
    NoRetention = NoRetention
    NoPolicy = NoPolicy
    s1 = s1
    s2 = s2
    u = u
    v = v
    hour = hour
    Strategies = {s1, s2}
    Values = {u, v}
    Durations = {hour}
    Specs <- SomeSpecs
    Policies <- SomePolicies
    InitStrategies = {{s1}}
    Tampered = {"url", "succeededLimit"}
    InitOwners = {"absent", "orphan", "foreign"}
    MaxChanges = 2
    MaxFaults = 1
INVARIANT PolicyInv
INVARIANT WholeAtRest
PROPERTY FollowsPolicy
