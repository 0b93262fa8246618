SPECIFICATION Spec
CONSTANTS
    Lines <- Typed
    MaxLines = 1
    MaxCmds = 3
    Items = 2
    PipeSize = 1
    MaxProcesses = 3
    MaxFailures = 0
INVARIANT ForegroundWaitsForAll
