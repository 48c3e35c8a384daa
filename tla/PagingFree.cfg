\* A larger heap, contracted again.
CONSTANTS
    ByteBits = 2
    NFrames = 32
    Garbage = {{}, {2, 12}, {9, 10}}
    FallOff = {4}
    PageSize = 32
    PPT = 8
    NTables = 5
    IdentityPages = 4
    KheapStart = 8
    KheapInitial = 3
    IndexPages = 1
    HEAP_MIN_SIZE = 64
    HeapMax = 224
    StackStart = 32
    StackSize = 2
    ExpandSizes = {161}
    ContractSizes = {64}
    MaxDirs = 3
SPECIFICATION Spec
PROPERTY FreeReturnsFrame
