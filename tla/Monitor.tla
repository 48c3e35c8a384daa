------------------------------ MODULE Monitor -------------------------------
(***************************************************************************)
(* The monitor driver (sys/monitor.c): the VGA text framebuffer, the       *)
(* cursor, scrolling, and the conversions of numbers to text.  Nothing     *)
(* interrupts it with another write before tasks are forked.  A step is a  *)
(* call, or one monitor_put of the loop in monitor_write.                  *)
(***************************************************************************)
EXTENDS Integers, Sequences, SequencesExt, FiniteSetsExt

CONSTANTS
    ROWS, COLS,          \* the screen (25 lines of 80)
    TAB,                 \* columns between tab stops (8)
    Letters,             \* the printable characters that are told apart
    BS, HT, CR, NL,      \* backspace, tab, carriage return, newline
    IGNORED,             \* any other character below ' ', or a negative one
    BLANK,               \* a space with the default attributes
    BASE, HEX, NIBBLES,  \* 10, 16 and 8
    DecNumbers,          \* arguments of monitor_write_dec
    HexNumbers,          \* arguments of monitor_write_hex
    PAD, STATUS,         \* columns of a padded message (75) and of its status (4)
    MessageLens          \* lengths of the arguments of monitor_write_padded

(* What a shift by k nibbles divides by, and the values of a u32int.        *)
pow[k \in 0..NIBBLES] == IF k = 0 THEN 1 ELSE HEX * pow[k - 1]

U32 == pow[NIBBLES]

Cells == 0..(ROWS * COLS - 1)
Glyph == Letters \cup {BLANK}

(* The screen tells no digit from another: each is shown as one letter.    *)
Digit == CHOOSE x \in Letters : TRUE

Control == <<BS, HT, CR, NL, IGNORED>>
Char    == Glyph \cup {BS, HT, CR, NL, IGNORED}

ASSUME MonitorAssumption ==
    /\ ROWS \in Nat \ {0, 1} /\ Letters # {}
    /\ \A a, b \in 1..5 : a # b => Control[a] # Control[b]
    /\ \A a \in 1..5 : Control[a] \notin Glyph
    /\ TAB \in Nat \ {0} /\ COLS \in {k * TAB : k \in 1..10}
    /\ {BASE, HEX, NIBBLES} \subseteq Nat
    /\ BASE > 1 /\ HEX > 1 /\ NIBBLES > 0 /\ U32 % 2 = 0
    /\ DecNumbers \subseteq 0..(U32 - 1) /\ HexNumbers \subseteq 0..(U32 - 1)
    /\ PAD \in Nat /\ STATUS \in Nat /\ PAD + STATUS = COLS - 1
    /\ MessageLens \subseteq 0..PAD

VARIABLES
    screen,    \* video_memory, cursor_x, cursor_y and the VGA's own cursor
    string,    \* what monitor_write was given, up to the first zero
    counter,   \* how many characters of it are written
    call       \* history: the call that string comes from, and its arguments

vars == <<screen, string, counter, call>>

None == [fn |-> "none"]

(* After monitor_clear, with which kernel_start begins.                    *)
Init ==
    /\ screen = [video_memory |-> [k \in Cells |-> BLANK],
                 cursor_x |-> 0, cursor_y |-> 0, vga |-> 0]
    /\ string = <<>> /\ counter = 0 /\ call = None

move_cursor(s) == [s EXCEPT !.vga = s.cursor_y * COLS + s.cursor_x]

(* Mutant: the last line keeps its text.                                   *)
scroll_NoBlank(s) ==
    IF s.cursor_y < ROWS THEN s
    ELSE [s EXCEPT !.video_memory =
                       [k \in Cells |-> @[IF k + COLS \in Cells THEN k + COLS ELSE k]],
                   !.cursor_y = ROWS - 1]

scroll(s) ==
    IF s.cursor_y < ROWS THEN s
    ELSE [s EXCEPT !.video_memory =
                       [k \in Cells |-> IF k + COLS \in Cells THEN @[k + COLS] ELSE BLANK],
                   !.cursor_y = ROWS - 1]

(* Mutant: the line is broken one character late.                          *)
EndOfLine_Late(s) ==
    IF s.cursor_x > COLS THEN [s EXCEPT !.cursor_x = 0, !.cursor_y = @ + 1] ELSE s

EndOfLine(s) ==
    IF s.cursor_x >= COLS THEN [s EXCEPT !.cursor_x = 0, !.cursor_y = @ + 1] ELSE s

(* The store at video_memory + (cursor_y * 80 + cursor_x) lands wherever   *)
(* that is, inside the framebuffer or not.                                 *)
Store(mem, k, g) == [n \in DOMAIN mem \cup {k} |-> IF n = k THEN g ELSE mem[n]]

Moved(s, ch) ==
    CASE ch = BS /\ s.cursor_x > 0 -> [s EXCEPT !.cursor_x = @ - 1]
      [] ch = HT    -> [s EXCEPT !.cursor_x = ((@ + TAB) \div TAB) * TAB]
      [] ch = CR    -> [s EXCEPT !.cursor_x = 0]
      [] ch = NL    -> [s EXCEPT !.cursor_x = 0, !.cursor_y = @ + 1]
      [] ch \in Glyph ->
            [s EXCEPT !.video_memory = Store(@, s.cursor_y * COLS + s.cursor_x, ch),
                      !.cursor_x = @ + 1]
      [] OTHER     -> s

Put(s, ch) == move_cursor(scroll(EndOfLine(Moved(s, ch))))

(* No call is being served.                                                *)
Returned == counter = Len(string)

monitor_put(ch) ==
    /\ Returned
    /\ screen' = Put(screen, ch)
    /\ string' = <<>> /\ counter' = 0 /\ call' = None

(* The call cl has monitor_write write str, character by character.        *)
Start(str, cl) ==
    /\ Returned
    /\ string' = str /\ counter' = 0 /\ call' = cl
    /\ UNCHANGED screen

(* The loop of monitor_write.                                              *)
monitor_write ==
    /\ counter < Len(string)
    /\ screen' = Put(screen, string[counter + 1])
    /\ counter' = counter + 1
    /\ UNCHANGED <<string, call>>

-----------------------------------------------------------------------------
s32(n) == IF n >= U32 \div 2 THEN n - U32 ELSE n

(* The digits of acc, least significant first; none if acc is negative.    *)
c[acc \in -(U32 \div 2)..(U32 \div 2 - 1)] ==
    IF acc > 0 THEN <<acc % BASE>> \o c[acc \div BASE] ELSE <<>>

DecDigits(n) == IF n = 0 THEN <<0>> ELSE Reverse(c[s32(n)])

nibble(n, k) == (n \div pow[k]) % HEX

(* Mutant: noZeroes is never cleared, so inner zeroes are skipped too.     *)
HexDigits_NoZeroes(n) ==
    SelectSeq([k \in 1..(NIBBLES - 1) |-> nibble(n, NIBBLES - k)], LAMBDA d : d # 0)
        \o <<nibble(n, 0)>>

(* Leading zeroes are skipped; the last nibble is always written.          *)
HexDigits(n) ==
    LET top == Max({0} \cup {k \in 1..(NIBBLES - 1) : nibble(n, k) # 0})
    IN  [k \in 1..(top + 1) |-> nibble(n, top + 1 - k)]

(* What appears on the screen for a number; "0x" is two characters.        *)
DecText(n) == [k \in 1..Len(DecDigits(n)) |-> Digit]
HexText(n) == [k \in 1..(2 + Len(HexDigits(n))) |-> Digit]

monitor_write_dec(n) ==
    Start(DecText(n), [fn |-> "dec", number |-> n, base |-> BASE, digits |-> DecDigits(n)])

monitor_write_hex(n) ==
    Start(HexText(n), [fn |-> "hex", number |-> n, base |-> HEX, digits |-> HexDigits(n)])

monitor_clear ==
    /\ Returned
    /\ screen' = move_cursor([video_memory |-> [k \in Cells |-> BLANK],
                              cursor_x |-> 0, cursor_y |-> 0, vga |-> screen.vga])
    /\ string' = <<>> /\ counter' = 0 /\ call' = None

(* Mutant: the loop that adds the dots runs one column too far, and the    *)
(* status after it.                                                        *)
buff_Wide(len) ==
    [k \in 1..(PAD + 1) |-> Digit] \o [k \in 1..STATUS |-> Digit] \o <<NL>>

(* The message, dots up to PAD, "[OK]" or "[FL]" and a newline: they fill  *)
(* the buffer, and no terminator follows.  Every glyph is Digit here.      *)
buff(len) ==
    LET message == [k \in 1..len |-> Digit]
        dots    == [k \in 1..(PAD - len) |-> Digit]
        status  == [k \in 1..STATUS |-> Digit]
    IN  message \o dots \o status \o <<NL>>

(* What lies behind the buffer on the stack, up to the first zero.         *)
(* Bound: one character, of two kinds.                                     *)
Garbage == {<<>>, <<Digit>>, <<NL>>}

monitor_write_padded(len, garbage) ==
    Start(buff(len) \o garbage, [fn |-> "padded", len |-> len, before |-> screen])

Next ==
    \/ monitor_clear
    \/ monitor_write
    \/ \E ch \in Char : monitor_put(ch)
    \/ \E n \in DecNumbers : monitor_write_dec(n)
    \/ \E n \in HexNumbers : monitor_write_hex(n)
    \/ \E len \in MessageLens, g \in Garbage : monitor_write_padded(len, g)

Spec == Init /\ [][Next]_vars

-----------------------------------------------------------------------------
(* No character is stored outside the framebuffer, and between characters  *)
(* the cursor is on the screen.                                            *)
TypeOK ==
    /\ screen \in [video_memory : [Cells -> Glyph],
                   cursor_x : 0..(COLS - 1), cursor_y : 0..(ROWS - 1), vga : Cells]
    /\ counter \in Nat

(* Line y of screen s.                                                     *)
Line(s, y) == [x \in 1..COLS |-> s.video_memory[y * COLS + x - 1]]

Glass == INSTANCE Terminal WITH
            text   <- [y \in 1..(screen.cursor_y + 1) |-> Line(screen, y - 1)],
            col    <- screen.cursor_x,
            cursor <- screen.vga

(* The driver, with its line breaks, tab stops, scrolling and hardware     *)
(* cursor, is the terminal of Terminal: the screen down to the cursor is   *)
(* the last lines of everything written.                                   *)
ImplementsTerminal == Glass!Spec

(* A status message begun at the left edge fills its line up to the last   *)
(* column but one, and leaves the cursor at the left edge of the line      *)
(* below: neither wraps, so that no empty line follows, whatever garbage   *)
(* is printed after the newline starts there, and only a message on the    *)
(* last line scrolls the screen.                                           *)
PaddedLine ==
    call.fn = "padded" =>
        LET before == call.before
        IN  before.cursor_x = 0 /\ counter = Len(buff(call.len)) =>
              /\ screen.cursor_x = 0
              /\ screen.cursor_y = IF before.cursor_y < ROWS - 1 THEN before.cursor_y + 1
                                   ELSE ROWS - 1
              /\ \A x \in 1..(COLS - 1) : Line(screen, screen.cursor_y - 1)[x] = Digit
              /\ before.cursor_y < ROWS - 1 =>
                   \A y \in 0..(ROWS - 1) \ {before.cursor_y} : Line(screen, y) = Line(before, y)

Value(digits, base) ==
    LET v[k \in 0..Len(digits)] == IF k = 0 THEN 0 ELSE v[k - 1] * base + digits[k]
    IN  v[Len(digits)]

(* The digits that monitor_write_hex writes denote the number, with no     *)
(* leading zero, and so do those of monitor_write_dec for a number that    *)
(* fits an s32int.  Nothing is claimed of larger ones: for them            *)
(* monitor_write_dec writes nothing, though monitor.h:21 promises to       *)
(* "Output a decimal number".                                              *)
NumberShown ==
    call.fn = "hex" \/ (call.fn = "dec" /\ call.number < U32 \div 2) =>
        /\ call.digits \in Seq(0..(call.base - 1))
        /\ Value(call.digits, call.base) = call.number
        /\ call.digits # <<>>
        /\ call.digits[1] = 0 => Len(call.digits) = 1
=============================================================================
