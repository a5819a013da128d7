\* Overlapping runs whose steps may raise and whose processes may exit.
CONSTANTS
    s1 = s1  s2 = s2  g1 = g1  g2 = g2  stays = stays  wavers = wavers
    None = None  j1 = j1  j2 = j2  w1 = w1  w2 = w2
    Source = {s1, s2}
    Grant = {g1, g2}
    SourceOf <- HomeOf
    Subscriber = {stays, wavers}
    Loyal = {stays}
    Matches <- Focus
    Worker = {w1, w2}
    Job = {j1}
    StepsFail = TRUE
    MayExit = TRUE
    MaxSingles = 2
SPECIFICATION FairSpec
CHECK_DEADLOCK FALSE
INVARIANTS TypeOK AlertAtMostOnce CountersHonest CompletedMeansAlerted
PROPERTIES JobEnds
