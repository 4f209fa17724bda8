SPECIFICATION Spec
CONSTANTS
    v1 = v1
    v2 = v2
    n1 = n1
    n2 = n2
    b1 = b1
    b2 = b2
    s1 = s1
    p1 = p1
    p2 = p2
    NULL = NULL
    Calls <- SomeCalls
    Responses <- SomeResponses
    Body <- TwoPieces
    Servers = {s1}
    Ports = {p1, p2}
    Faults = {"no_fds"}
INVARIANTS CompleteMeansAll
