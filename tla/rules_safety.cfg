SPECIFICATION HistorySpec
CONSTANTS
    Calls = {c1, c2}
    NoCall = NoCall
    Rules = {r1, r2, r3}
    NoRule = NoRule
SYMMETRY Symmetry
INVARIANTS
    TypeOK
    PlanFresh
    OkIsPlaced
    NoHalfPlacedRead
PROPERTY
    ImplementsRuleStore
