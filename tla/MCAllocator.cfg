SPECIFICATION Spec
CONSTANTS
    Threads = {t1, t2}
    NUM_ARENAS = 2
    ALIGN = 2
    HDR = 2
    RESERVE = 6
    SIZE_T = 256
    INT_MAX = 7
    HeapStart = 2
    HeapEnd = 30
    Sizes = {0, 2, 5}
    Items = {52}
    MaxCalls = 5
SYMMETRY Symmetry
INVARIANTS
    BlocksTileHeap
    ListsInOrderAndCoalesced
    AllocatedBlocksHaveOneOwner
    LocksHeldInOrder
