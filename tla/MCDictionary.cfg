SPECIFICATION Spec
CONSTANTS
    k1 = k1
    k2 = k2
    k3 = k3
    d1 = d1
    d2 = d2
    NULL = NULL
    Keys = {k1, k2, k3}
    Data = {d1, d2}
    Addresses = {1, 2, 3, 4, 5, 6}
    Limits = {0, 1, 2}
    Faults = {"enomem"}
INVARIANTS TypeOK NoBadAccess NothingLeaked CopyIsCurrent
PROPERTIES ImplementsOrderedDictionary
VIEW HeapView
