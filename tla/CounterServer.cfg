SPECIFICATION FairSpec
CONSTANTS
    Clients = {c1, c2}
    ThreadCounts = {1, 2}
    numMessages = 2
    add = 10
    sub = 3
    INT64 = 16
    INT_MAX = 3
    MayCrash = {c1}
    NONE = NONE
INVARIANTS ServedByOne NoRecvOnIdleClient CounterIsSum AnswersAddUp
PROPERTY EveryClientAnswered
