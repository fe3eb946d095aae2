SPECIFICATION FairLogSpec
CONSTANTS
    FieldSizes = {0, 2}
    Nlogs = 3
    Budget = 4
    MaxLog = 5
INVARIANTS
    LogTypeOK
    NothingSkipped
    NothingTwice
PROPERTIES
    CutWhereItMust
    UnmatchedIsOfThePage
    LogPagingEnds
CHECK_DEADLOCK FALSE
