CONSTANTS
    a1 = a1  a2 = a2  b1 = b1  x1 = x1  siteA = siteA  siteB = siteB
    None = None
    Worker = {w1, w2}
    Url = {a1, a2, b1, x1}
    Domain = {siteA, siteB}
    DomainOf <- Hosts
    Wanted = {a1}
    Safe = {a1, a2, b1}
    Disallowed = {a2}
    Reply <- Replies
    Gap = 2
    MAX_RETRIES = 2
    MAX_REDIRECTS = 2
SPECIFICATION Spec
INVARIANTS RequestsAllowed
PROPERTIES RequestsSpaced FetchReturns
