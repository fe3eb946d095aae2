SPECIFICATION FairSpec
CONSTANTS
    DefaultLimit = 2
    MaxLimit = 3
    Names = {a, b, c, d, x}
    Kept = {a, b, c, d}
    MaxEntries = 4
    Limits <- MCLimits
    Offsets <- MCOffsets
INVARIANTS
    TypeOK
    PageInList
    PagesAreTheList
PROPERTIES
    PagingEnds
CHECK_DEADLOCK FALSE
