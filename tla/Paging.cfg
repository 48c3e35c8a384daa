\* 16 frames, 4 pages a table.  Table 0 is the identity map, 1 and 2 the heap,
\* 3 and 4 the stack.  One fork fits in memory, a larger heap besides does not.  Garbage
\* parts the heap's first frames, or leaves none for some of them or for all.
CONSTANTS
    ByteBits = 2
    NFrames = 16
    Garbage = {{}, {2, 12}, {4, 6}, {5, 6}, {5, 8, 9, 14}, {7, 11, 13},
               {4, 5, 7, 8, 9, 10, 11, 12, 13, 14, 15},
               {0, 1, 2, 3, 4, 5, 6, 7, 8, 9, 10, 11, 12, 13, 14, 15}}
    FallOff = {4}
    PageSize = 16
    PPT = 4
    NTables = 5
    IdentityPages = 4
    KheapStart = 4
    KheapInitial = 3
    IndexPages = 1
    HEAP_MIN_SIZE = 32
    HeapMax = 96
    StackStart = 16
    StackSize = 2
    ExpandSizes = {57, 70, 81, 98}
    ContractSizes = {32}
    MaxDirs = 3
SPECIFICATION Spec
INVARIANTS TypeOK IdentityMap FrameExclusive PrivateTables ContractFindsTable
    HeapBacked HeapReachable HeapInOrder
