SPECIFICATION FairSpec
CONSTANTS
    Commits = {c1, c2}
    NoCommit = NoCommit
    Debounce = 2
    MinInterval = 6
    Poll = 2
    Retry = 6
INVARIANT NothingForgotten
PROPERTY OnlyPushesDelay
