\* No frees: only the NULLs that remove_ordered_array leaves in the index.
CONSTANTS
    HDR = 12
    FTR = 8
    PAGE = 64
    U32 = 4096
    START = 2560
    INITIAL = 256
    HEAP_MIN_SIZE = 128
    MAX = 2948
    HEAP_INDEX_SIZE = 8
    LowSize = 4000
    Sizes = {40, 200}
    AlignedSizes = {}
    Frees = FALSE
    MaxOps = 4
SPECIFICATION Spec
INVARIANT BlocksDisjoint
CHECK_DEADLOCK FALSE
