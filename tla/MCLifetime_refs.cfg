CONSTANTS
    a = a
    b = b
    c = c
    Transactions <- MCTransactions
SPECIFICATION FairSpec
INVARIANTS
    NoUseAfterFree
    EveryRefHasAHolder
    DoneIsFreed
PROPERTY ListedEnds
CHECK_DEADLOCK FALSE
