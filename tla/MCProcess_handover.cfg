CONSTANTS
    first = first
    second = second
    c1 = c1
    c2 = c2
    Instances <- MCInstances
    Calls <- MCCalls
    Nobody = Nobody
SPECIFICATION Spec
INVARIANTS
    TypeOK
    AdmittedIsAnswered
    OnlyTheOwnerStays
PROPERTIES
    NameLeadsToObject
    EveryCallResolved
CHECK_DEADLOCK FALSE
