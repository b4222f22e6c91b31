CONSTANTS
    N = 3
    NameRank <- MCNameRank
    MaxForeign = 1
    MaxIgnored = 1
    NoFilter = NoFilter
SPECIFICATION Spec
INVARIANTS InternalDependenciesFirst
CHECK_DEADLOCK FALSE
