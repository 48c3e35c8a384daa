\* Three lines of four columns, a tab stop every two.  Numbers of three nibbles of
\* two bits: 31 is the largest s32int.
CONSTANTS
    ROWS = 3
    COLS = 4
    TAB = 2
    Letters = {a}
    BS = BS
    HT = HT
    CR = CR
    NL = NL
    IGNORED = IGNORED
    BLANK = BLANK
    BASE = 3
    HEX = 4
    NIBBLES = 3
    DecNumbers = {0, 9, 31, 32}
    HexNumbers = {0, 17, 63}
    PAD = 2
    STATUS = 1
    MessageLens = {1}
SPECIFICATION Spec
INVARIANTS TypeOK NumberShown PaddedLine
PROPERTIES ImplementsTerminal
