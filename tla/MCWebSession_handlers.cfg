\* The handlers of a session, against every order of engine events.
CONSTANTS
    Hosts = {h1, h2, h3}
    NoHost = NoHost
SPECIFICATION FairSpec
INVARIANTS
    TypeOK
    OriginFollowsLoads
    OwnChallengeIsRelated
PROPERTIES
    DeclineIsNamed
    DeclinedLoadEnds
