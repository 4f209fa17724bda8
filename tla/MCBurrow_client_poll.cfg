SPECIFICATION FairSpec
CONSTANTS
    fd1 = fd1
    fd2 = fd2
    Fds <- TwoFds
    Commands <- TwoCommands
    Backends <- Http
    EventResults = {"0"}
    ClientWatches = {TRUE}
    AutoProcess = {TRUE, FALSE}
    Faults = {}
    Reads <- DocumentedReads
    MaxWatch = 3
PROPERTIES CommandCompletes
