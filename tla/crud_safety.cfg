SPECIFICATION Spec
CONSTANTS
    Calls = {c1, c2, c3}
    NoCall = NoCall
    Names = {n1}
    Fields = {f1, f2}
    Values = {v1}
    Tools = {"get", "list", "peek", "create", "update", "upsert", "delete", "malformed"}
    Unset = Unset
    Absent = Absent
    Failed = Failed
    Nothing = Nothing
    Faults = {"lost"}
SYMMETRY Symmetry
INVARIANTS
    LockDiscipline
    SeedFresh
    AnswerCurrent
PROPERTIES
    ImplementsStore
