CONSTANTS
    p1 = p1  p2 = p2  w1 = w1  w2 = w2  w3 = w3  a1 = a1  a2 = a2
    None = None
    Process = {p1, p2}
    Worker = {w1, w2, w3}
    ProcessOf <- ThreadsOf
    Account = {a1, a2}
    Reply <- Replies
    Profile = {n1}
    StateTTL = 1
    SessionTTL = 1
    MaxNow = 2
    MaxStates = 2
    MaxTokens = 2
SYMMETRY Alike
SPECIFICATION Spec
CHECK_DEADLOCK FALSE
INVARIANTS StateUsedOnce SessionsEarned
PROPERTIES OwnerKept RefusedForAReason
