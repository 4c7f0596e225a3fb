\* Every accepted completion URI against every navigation.
CONSTANTS
    Schemes <- MCSchemes
    Hosts <- MCHosts
    Paths <- MCPaths
    NoHost = ""
    NoPath = ""
    Wildcards = {"*.host"}
    Lower <- MCLower
    Normalise <- MCNormalise
    NoURI = NoURI
SPECIFICATION Spec
INVARIANT MatchesExactlyTheTarget
