\* Every Start and Close gets its answer, if users answer the choosers they are shown.
CONSTANTS
    Peers = {p1}
    Calls = {c1, c2}
    Closes = {k1}
    Handles = {h1}
    TimeoutRequests = {0}
    NotGiven = NotGiven
    None = None
    NoCall = NoCall
    MaxOwnerChanges = 1
    MaxFailedLookups = 1
SPECIFICATION FairSpec
PROPERTIES
    EveryAdmittedAnswered
    EverySentResolved
    EveryCloseResolved
