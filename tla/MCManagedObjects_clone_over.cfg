SPECIFICATION Spec
CONSTANTS
    a1 = a1
    a2 = a2
    a3 = a3
    f1 = f1
    f2 = f2
    NULL = NULL
    Attributes <- ThreeAttributes
    Filters <- TwoFilters
    CloneOver = TRUE
INVARIANTS NoUseAfterFree
