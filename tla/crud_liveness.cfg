SPECIFICATION FairSpec
CONSTANTS
    Calls = {c1, c2, c3}
    NoCall = NoCall
    Names = {n1}
    Fields = {f1}
    Values = {}
    Tools = {"get", "update", "delete"}
    Unset = Unset
    Absent = Absent
    Failed = Failed
    Nothing = Nothing
    Faults = {"late"}
PROPERTIES
    Answered
