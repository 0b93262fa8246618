SPECIFICATION FairSpec
CONSTANTS
    Lines <- Typed
    MaxLines = 2
    MaxCmds = 3
    Items = 2
    PipeSize = 1
    MaxProcesses = 4
    MaxFailures = 1
INVARIANTS SuccessMeansOver OutputIsComplete
PROPERTY EverythingEnds
