\* Overlapping requests and tasks.
CONSTANTS
    w1 = w1  w2 = w2  Never = Never
    Worker = {w1, w2}
    Limit = 2
    TTL = 2
    MayExit = TRUE
    MaxNow = 2
    MaxSends = 2
    MaxCalls = 3
SPECIFICATION FairSpec
CHECK_DEADLOCK FALSE
INVARIANTS TypeOK TokenDated
PROPERTIES PendingGetsLink
