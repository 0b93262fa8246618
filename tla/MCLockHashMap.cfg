SPECIFICATION FairSpec
CONSTANTS
    Threads = {t1, t2}
    Values <- SmallValues
    n_buckets = 2
    ULONG = 256
    Addrs = {1, 2, 3}
    MaxCalls = 4
INVARIANTS
    EveryNodeHasOneOwner
    WalksStayOnList
PROPERTIES
    ImplementsBag
    LocksUsedAsSpecified
    EveryCallReturns
