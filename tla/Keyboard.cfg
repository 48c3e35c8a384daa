\* Ring of 4 slots, one key, right shift and caps lock.
CONSTANTS
    N = 4
    U32 = 8
    Keys = {a}
    CtrlKeys = {4, 5}
    NUL = NUL
SPECIFICATION Spec
INVARIANTS TypeOK IndexInBounds NoStuckModifier
PROPERTIES ImplementsQueue FetchedSlotStable
