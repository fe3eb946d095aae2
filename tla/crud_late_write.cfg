SPECIFICATION Spec
CONSTANTS
    Calls = {c1, c2}
    NoCall = NoCall
    Names = {n1}
    Fields = {f1, f2}
    Values = {v1}
    Tools = {"update"}
    Unset = Unset
    Absent = Absent
    Failed = Failed
    Nothing = Nothing
    Faults = {"late"}
PROPERTY
    EditKeepsTheRest
