SPECIFICATION FairSpec
CONSTANTS
    fd1 = fd1
    fd2 = fd2
    Fds <- TwoFds
    Commands <- TwoCommands
    Backends <- Http
    EventResults = {"0"}
    ClientWatches = {FALSE}
    AutoProcess = {TRUE, FALSE}
    Faults = {"cancel"}
    Reads <- DocumentedReads
    MaxWatch = 3
PROPERTIES CancelCompletes
