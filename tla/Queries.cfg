SPECIFICATION QueriesSpec
CONSTANTS
    None = None
    water = water
    rivers = rivers
    women = women
    schools = schools
    nonprofit = nonprofit
    individuals = individuals
    pune = pune
    past = past
    funders = funders
    soon = soon
    month = month
    wrong = wrong
    WrongType = wrong
    NONPROFIT = nonprofit
    HARD_EXCLUSION = {individuals}
    GENERIC_TERMS = {schools}
    HISTORICAL = {past}
    RESEARCH = {funders}
    STATUSES = {"open", "closed"}
    LIMITS = {1, 2}
    Words <- MCWords
    Concepts <- MCConcepts
    NGO_TYPE_KEYWORDS <- MCKeywords
    Window <- MCWindow
    Leftover <- MCLeftover
    Similarity <- MCSimilarity
    ROWS <- MCRows
    Seed <- MCSeed
    PROFILE <- MCProfile
    QUERIES <- MCQueriesAsked
    ANSWERS <- MCAnswers
    SHARES <- MCShares
INVARIANTS WalkMissesNothing SurfacesAgree  ScoreFair
