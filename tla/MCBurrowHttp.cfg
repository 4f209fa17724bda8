SPECIFICATION Spec
CONSTANTS
    v1 = v1
    v2 = v2
    b1 = b1
    s1 = s1
    p1 = p1
    NULL = NULL
    Fds = {4, 5}
    Calls <- SomeCalls
    Responses <- SomeResponses
    Body <- OnePiece
    Servers = {s1}
    Ports = {p1}
    AutoProcess = {TRUE, FALSE}
    FrontFaults = {"cancel", "timeout", "poll_error", "enomem"}
    HttpFaults = {"transfer", "multi", "cancel"}
    MaxWatch = 3
INVARIANTS InStep BlocksUntilDone CompletionIsTruthful
PROPERTIES CancelledIsSilent EveryCommandCompletes
