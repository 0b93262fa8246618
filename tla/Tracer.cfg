SPECIFICATION Spec
CONSTANTS
    MaxCalls = 4
    MaxSignals = 2
INVARIANT LinesMatchCalls
PROPERTY TracerReturns
CHECK_DEADLOCK FALSE
