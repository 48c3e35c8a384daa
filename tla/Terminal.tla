------------------------------ MODULE Terminal ------------------------------
(***************************************************************************)
(* What the monitor driver (sys/monitor.c) promises: a terminal.  The text *)
(* is a sequence of lines, of which the last ROWS are kept; characters go  *)
(* to the last line, and a full line is followed by a new one.  The cursor *)
(* on the glass is where the next character will go.                       *)
(***************************************************************************)
EXTENDS Integers, Sequences

CONSTANTS
    ROWS, COLS, TAB,
    Glyph, BS, HT, CR, NL, BLANK,
    Char        \* everything that may be written, the above included

VARIABLES
    text,      \* the lines on the screen, the last one being written
    col,       \* the column of the next character
    cursor     \* the cell in which the glass shows the cursor

vars == <<text, col, cursor>>

BlankLine == [x \in 1..COLS |-> BLANK]

Init == text = <<BlankLine>> /\ col = 0 /\ cursor = 0

Keep(lines) == IF Len(lines) > ROWS THEN Tail(lines) ELSE lines

(* The column after character ch at column x; COLS or more is a new line.  *)
Column(x, ch) ==
    CASE ch \in Glyph -> x + 1
      [] ch = BS      -> IF x = 0 THEN 0 ELSE x - 1
      [] ch = HT      -> CHOOSE y \in (x + 1)..(x + TAB) : y % TAB = 0
      [] ch = CR      -> 0
      [] ch = NL      -> COLS
      [] OTHER        -> x

(* Character ch is written at the end of the text.                         *)
Write(ch) ==
    LET typed == IF ch \in Glyph
                 THEN [text EXCEPT ![Len(text)] = [@ EXCEPT ![col + 1] = ch]]
                 ELSE text
        x     == Column(col, ch)
    IN  /\ text' = IF x >= COLS THEN Keep(Append(typed, BlankLine)) ELSE typed
        /\ col' = IF x >= COLS THEN 0 ELSE x
        /\ cursor' = (Len(text') - 1) * COLS + col'

Clear == text' = <<BlankLine>> /\ col' = 0 /\ cursor' = 0

Next == Clear \/ \E ch \in Char : Write(ch)

Spec == Init /\ [][Next]_vars
=============================================================================
