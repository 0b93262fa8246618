SPECIFICATION Spec
CONSTANTS
    Threads = {t1, t2}
    Requests <- MCRequests
    Numerals <- MCNumerals
    Fills = {0, 7}
    MAX_CHILDREN = 2
    MaxRestarts = 2
    MaxFailures = 1
    NULL = NULL
INVARIANTS AnsweredChangesSurvive LogMirrorsTree ReadsStayInFile
SYMMETRY Symmetry
CONSTRAINT OnItsWay
CHECK_DEADLOCK FALSE
