CONSTANTS
    v = v  n1 = n1  n2 = n2
    Vals <- MCVals
    Elements <- MCElements
    Unset = Unset  Empty = Empty  Bad = Bad  AnyValue = AnyValue
    NoField = NoField  Absent = Absent  NoCall = NoCall
    Kinds <- MCKinds
    SchemaOf <- MCSchemaOf
    Inputs <- MCInputs
    Entries <- MCEntries
SPECIFICATION Spec
INVARIANTS StoredOneKind StoredComplete RetryIsIdle NoSecretShown
PROPERTIES KeepsTheRest
