SPECIFICATION Spec
CONSTANTS
    a1 = a1
    q1 = q1
    m1 = m1
    x = x
    NULL = NULL
    Accounts = {a1}
    Queues = {q1, x}
    Ids = {m1, x}
    Keys <- SomeKeys
    Filters <- SomeFilters
    Attributes <- SomeAttributes
    DefaultTtl = 2
    Modulus = 8
    MaxTime = 3
    Faults = {"enomem"}
INVARIANTS TypeOK StoreConsistent
PROPERTIES VacantOnlyWithoutMemory DestroyLeavesHidden ImplementsMessageStore HiddenStaysHidden ReportTellsTruth OrderKept
VIEW StoreView
