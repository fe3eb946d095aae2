SPECIFICATION ScopeSpec
CONSTANTS
    Families <- MCFamilies
    Refused = Refused
INVARIANTS WhereAsked
