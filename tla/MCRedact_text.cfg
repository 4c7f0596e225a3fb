SPECIFICATION Spec
CONSTANTS
    Characters <- MCCharacters
    Space <- MCSpace
    Unprintable <- MCUnprintable
    Invalid <- MCInvalid
    Width <- MCWidth
    Candidates <- MCCandidates
    Messages <- MCMessages
    Schemes <- MCSchemes
    Elided = Elided
    WEBAUTH_MAX_LOGGED_VALUE = 7
INVARIANTS NoUriIsShown KeepsWhatPrecedes WithinLimit
CHECK_DEADLOCK FALSE
