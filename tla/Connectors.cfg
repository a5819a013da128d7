CONSTANTS
    None = None
    list = list  page1 = page1  page2 = page2  page3 = page3
    notText = notText
    NotText = notText
    Url = {list, page1, page2, page3}
    IndianHost = {page3}
    HostOf <- Hosts
    Inside <- WordInside
    Relevant = {page1, page2, page3}
    GRANT_SIGNAL = {"grant"}
    ELIGIBILITY <- Eligibility
    DEADLINE <- Deadlines
    FUNDER <- Funders
    BOUNDARY = {"the", "deadline", "grant"}
    LOCATION_KEYWORDS = {"India", "goa"}
    FOCUS_AREAS <- Areas
    DatePattern <- Patterns
    IsoOf <- Isos
    Before = 1
    After = 3
    FUNDER_MAX_WORDS = 2
    HITS_MAX = 2
    Source <- Sources
    Web <- Internet
    Answer <- Answers
    MAX_PAGES = 2
    Hits <- SearchHits
    Fixture <- Sample
SPECIFICATION Spec
CHECK_DEADLOCK FALSE
INVARIANTS FieldsHaveEvidence PagesIndependent
PROPERTIES EveryLinkFollowed
