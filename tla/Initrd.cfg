\* Two files at most, names of one or two of two characters.
CONSTANTS
    Char = {1, 2}
    MaxName = 2
    HeaderName = 3
    NameLen = 3
    MaxFiles = 2
    Lengths = {0, 2}
    Garbage = {0, 2}
    Sizes = {0, 1, 3, 5}
    Spare = 1
    SCHAR = 16
    HeaderSize = 5
    Location = 7
    U32 = 6
SPECIFICATION Spec
INVARIANTS ReadIsSlice FindsFile ListsDirectory
