SPECIFICATION MCSpec
CONSTANTS
    Threads = {t1, t2, t3}
    Values <- SmallValues
    n_buckets = 3
    ULONG = 256
    MaxCalls = 5
    MixedCalls = 2
INVARIANTS
    WalksAreSafe
    NoLiveNodeSkipped
    OneRemoverPerNode
    Linearizable
PROPERTIES
    NodesOnlyAge
    EveryCallReturns
