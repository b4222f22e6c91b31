CONSTANTS
    N = 3
    NameRank <- MCNameRank
    MaxForeign = 1
    MaxIgnored = 1
    NoFilter = NoFilter
SPECIFICATION Spec
INVARIANTS TypeOK AffectedIsLeast CheckoutHoldsTheChange ReasonsAreChains DependenciesFirst RunIsAccounted
PROPERTIES Terminates
CHECK_DEADLOCK FALSE
