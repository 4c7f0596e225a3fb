CONSTANTS
    Value <- MCValue
    Texts <- MCTexts
    LongSize = 4096
    XidSize = 256
    Foreign = Foreign
    NoParent = NoParent
SPECIFICATION ParentSpec
CHECK_DEADLOCK FALSE
INVARIANT ParentIsDenoted
