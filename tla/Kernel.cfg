\* Widths of 8, 16 and 32 bits become 4, 8 and 16.  A page has 16
\* bytes and the identity map 16 pages.  The user mode loop may
\* find no key and then changes nothing for ever.
CONSTANTS
    MaxTasks = 1
    NIB = 4
    TssAddrs = {1024, 2040}
    TssSize = 7
    MaxKeys = 3
    PAGE = 16
    IDENTITY = 256
    KernelEnd = 40
    InitrdEnds = {56, 57, 61, 62, 200}
    FramesAsked = 2
    FramesUsed = 8
    DirSize = 33
    TableSize = 16
    HeapSize = 1
SPECIFICATION FairSpec
INVARIANTS TypeOK InterruptsAcknowledged StopCauses NoGarbageChar PlacementSound SilencedByFirstKey
PROPERTIES Greets
CHECK_DEADLOCK FALSE
