SPECIFICATION Spec
CONSTANTS
    Transactions = {t1, t2, t3}
    AppIds <- MCAppIds
    Plain = {"a", "b", "_"}
    Other = {"/"}
    WEBAUTH_MAX_DIRECTORY_NAME = 3
SYMMETRY Symmetric
INVARIANTS StaysBelow SpelledOutIsIsolated LeavesNoTrace StoreIsWhole
CHECK_DEADLOCK FALSE
