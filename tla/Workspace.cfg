CONSTANTS
    site = site
    None = None
    w1 = w1  w2 = w2  p1 = p1  p2 = p2
    Worker = {w1, w2}
    Process = {p1, p2}
    Deployments <- Hosts
    Ngo = {n1}
    MaxCalls = 3
    MaxRestarts = 1
    ApiKey = {k1}
    Payload <- Bodies
    Site <- Found
    Lower <- SpeltLower
    SavePayload <- Saves
    FeedbackPayload <- Opinions
    Imported = {2}
    Corpus = {1}
    Status = {"saved", "applied"}
    Note = {"call"}
SPECIFICATION Spec
CHECK_DEADLOCK FALSE
INVARIANTS RowsSound StoredKeyOpens ResultOfStoredKey
PROPERTIES StageMovesOnRequest MergeSound
