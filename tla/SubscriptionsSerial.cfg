\* One request at a time, any of which may be cut off.
CONSTANTS
    w1 = w1  w2 = w2  Never = Never
    Worker = {w1}
    Limit = 2
    TTL = 2
    MayExit = TRUE
    MaxNow = 4
    MaxSends = 3
    MaxCalls = 4
SPECIFICATION Spec
CHECK_DEADLOCK FALSE
INVARIANTS SingleUse FreshTokenUnused ResendSpaced
