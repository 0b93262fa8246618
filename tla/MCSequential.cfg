SPECIFICATION Spec
CONSTANTS
    InputLines <- MCInputLines
    MEM_LIMIT = 4
    MaxInput = 4
    Words = {x, y}
    InitialCap = 1
    MaxTokens = 6
    Slots = {s1, s2}
    UNDEF = UNDEF
    MaxEntry = 1
    MaxBody = 3
    MaxTrips = 2
    Kinds = {"lock", "lockfree"}
    MaxBuckets = 6
INVARIANTS SortsItsInput ParsedAsWritten SameValuesSeen
           OnlyLockFailureGoesWild NothingLeaks
CHECK_DEADLOCK FALSE
