\* Two callers, two Starts, one Close, two changes of the frontend name and a failed lookup.
CONSTANTS
    Peers = {p1, p2}
    Calls = {c1, c2}
    Closes = {k1}
    Handles = {h1, h2}
    TimeoutRequests = {0}
    NotGiven = NotGiven
    None = None
    NoCall = NoCall
    MaxOwnerChanges = 2
    MaxFailedLookups = 1
SPECIFICATION Spec
SYMMETRY SymmetricHandles
INVARIANTS
    TypeOK
    CacheConverges
    NoOrphan
    ExportedExactlyWhileLive
    CallbacksExactlyWhileLive
PROPERTIES
    AnswersAreFinal
    ServedOnlyToOwner
    FrontendNotRefused
    NoticesSpareTheFrontend
    CloseEnds
    ImplementsContract
