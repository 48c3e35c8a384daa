CONSTANTS
    N = 4
    U32 = 8
    Keys = {a}
    CtrlKeys = {}
    NUL = NUL
SPECIFICATION Spec
PROPERTY NoOverrun
