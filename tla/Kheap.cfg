CONSTANTS
    HDR = 12
    FTR = 8
    PAGE = 64
    U32 = 4096
    START = 2560
    INITIAL = 192
    HEAP_MIN_SIZE = 128
    MAX = 2948
    HEAP_INDEX_SIZE = 10
    LowSize = 0
    Sizes = {9, 44, 100}
    AlignedSizes = {16}
    Frees = TRUE
    MaxOps = 6
SPECIFICATION Spec
INVARIANTS TypeOK SoundBlocks SoundIndex SoundTiling SoundFree
CHECK_DEADLOCK FALSE
