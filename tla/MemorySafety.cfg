SPECIFICATION Spec
CONSTANTS
    Heap = {2, 3, 4, 5, 6, 7}
    Stack = {12, 13, 14, 15}
    Sizes = {1, 2, 3}
    shadow = 2
    MaxObjects = 3
    MaxDepth = 2
INVARIANTS NoFalseAlarm ErrorsCaught FreesBlocksInUse
CHECK_DEADLOCK FALSE
