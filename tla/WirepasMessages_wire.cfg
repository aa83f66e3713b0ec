CONSTANTS
    Default = Default
    Other = Other
    Type <- MCType
    MaxFields = 2
    MaxRelays = 1
    Depth = 1
SPECIFICATION Spec
CHECK_DEADLOCK FALSE
INVARIANTS TypeOK NothingLost
