SPECIFICATION Spec
CONSTANTS
    fd1 = fd1
    fd2 = fd2
    Fds <- TwoFds
    Commands <- AllCommands
    Backends <- HttpOrMemory
    EventResults <- AllResults
    ClientWatches = {TRUE, FALSE}
    AutoProcess = {TRUE, FALSE}
    Faults <- AllFaults
    Reads <- DocumentedReads
    MaxWatch = 3
SYMMETRY FdSymmetry
INVARIANTS TypeOK IndInv NotReentered StateTracksCommand PollInBounds IdleIsUsable
PROPERTIES CompleteAnswersCommand ProcessOnlyWhenBlocked ReturnTellsOutcome 
