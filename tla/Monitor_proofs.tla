--------------------------- MODULE Monitor_proofs ---------------------------
(***************************************************************************)
(* Proofs about the monitor driver, for a screen of any size: every store  *)
(* lands in the framebuffer, the driver is a terminal, a status message    *)
(* takes one line, and the digits of a number denote it.                   *)
(*                                                                         *)
(* The work is in one lemma, PutResult: what monitor_put makes of a screen *)
(* by its three cases, a character that stays on the line, one that begins *)
(* a new line, and one that scrolls.  The refinement needs one fact that   *)
(* no step may lose: the lines below the cursor's are blank.               *)
(* The digits are about recursive functions; each is unfolded once, and    *)
(* what it computes follows by induction over a set of numbers.            *)
(***************************************************************************)
EXTENDS Monitor, WellFoundedInduction, SequenceTheorems, TLAPS

Screen == [video_memory : [Cells -> Glyph],
           cursor_x : 0..(COLS - 1), cursor_y : 0..(ROWS - 1), vga : Cells]

LEMMA Constants ==
    /\ ROWS \in Nat /\ ROWS > 1
    /\ COLS \in Nat /\ COLS > 0
    /\ TAB \in Nat /\ TAB > 0
    /\ PAD \in Nat /\ STATUS \in Nat /\ PAD + STATUS = COLS - 1
    /\ MessageLens \subseteq 0..PAD
<1>1. PICK k \in 1..10 : COLS = k * TAB
  BY MonitorAssumption
<1>2. TAB \in Nat /\ TAB > 0
  BY MonitorAssumption
<1>3. k * TAB \in Nat /\ k * TAB > 0
  BY <1>2
<1> QED BY <1>1, <1>2, <1>3, MonitorAssumption

LEMMA Characters ==
    /\ BS \notin Glyph /\ HT \notin Glyph /\ CR \notin Glyph /\ NL \notin Glyph
    /\ BS # HT /\ BS # CR /\ BS # NL /\ HT # CR /\ HT # NL /\ CR # NL
<1>1. /\ Control[1] = BS /\ Control[2] = HT /\ Control[3] = CR /\ Control[4] = NL
  BY DEF Control
<1>2. /\ \A a, b \in 1..5 : a # b => Control[a] # Control[b]
      /\ \A a \in 1..5 : Control[a] \notin Glyph
  BY MonitorAssumption
<1>3. 1 \in 1..5 /\ 2 \in 1..5 /\ 3 \in 1..5 /\ 4 \in 1..5
  OBVIOUS
<1> QED BY <1>1, <1>2, <1>3

LEMMA DigitIsGlyph == Digit \in Glyph /\ BLANK \in Glyph
BY MonitorAssumption DEF Digit, Glyph

-----------------------------------------------------------------------------
(* Lines and columns are cells, one to one.                                *)

LEMMA Multiply ==
    ASSUME NEW a \in Nat, NEW b \in Nat, NEW k \in Nat
    PROVE  /\ a * k \in Nat
           /\ (a + 1) * k = a * k + k
           /\ a <= b => a * k <= b * k
<1>1. a * k \in Nat /\ (a + 1) * k = a * k + k
  OBVIOUS
<1>2. ASSUME a <= b
      PROVE  a * k <= b * k
  <2>1. PICK n \in Nat : b = a + n
    <3>1. b - a \in Nat /\ b = a + (b - a)
      BY <1>2
    <3> QED BY <3>1
  <2>2. b * k = a * k + n * k /\ n * k \in Nat
    BY <2>1
  <2> QED BY <1>1, <2>2
<1> QED BY <1>1, <1>2

LEMMA Cell ==
    ASSUME NEW y \in 0..(ROWS - 1), NEW x \in 0..(COLS - 1)
    PROVE  /\ y * COLS + x \in Cells /\ y * COLS + x \in Nat
           /\ y * COLS \in Nat
           /\ y * COLS + x < (y + 1) * COLS
           /\ (y + 1) * COLS = y * COLS + COLS
           /\ (y + 1) * COLS <= ROWS * COLS
           /\ ROWS * COLS \in Nat
<1> USE Constants
<1>1. y * COLS \in Nat /\ (y + 1) * COLS = y * COLS + COLS
  BY Multiply
<1>2. y + 1 \in Nat /\ y + 1 <= ROWS
  OBVIOUS
<1>3. (y + 1) * COLS <= ROWS * COLS /\ ROWS * COLS \in Nat
  BY <1>2, Multiply
<1> QED BY <1>1, <1>3 DEF Cells

LEMMA CellLess ==
    ASSUME NEW y \in Nat, NEW z \in Nat, y < z, NEW x \in 0..(COLS - 1), NEW w \in Nat
    PROVE  y * COLS + x < z * COLS + w
<1> USE Constants
<1>1. y * COLS \in Nat /\ z * COLS \in Nat /\ (y + 1) * COLS = y * COLS + COLS
  BY Multiply
<1>2. (y + 1) * COLS <= z * COLS
  BY Multiply
<1> QED BY <1>1, <1>2

LEMMA CellUnique ==
    ASSUME NEW y \in Nat, NEW z \in Nat, NEW x \in 0..(COLS - 1), NEW w \in 0..(COLS - 1),
           y * COLS + x = z * COLS + w
    PROVE  y = z /\ x = w
<1> USE Constants
<1>1. y * COLS \in Nat /\ z * COLS \in Nat
  BY Multiply
<1>2. ~(y < z) /\ ~(z < y)
  <2>1. ASSUME y < z PROVE FALSE
    BY <1>1, <2>1, CellLess
  <2>2. ASSUME z < y PROVE FALSE
    BY <1>1, <2>2, CellLess
  <2> QED BY <2>1, <2>2
<1> QED BY <1>1, <1>2

(* The next tab stop, as the driver computes it and as the terminal        *)
(* defines it.                                                             *)
LEMMA TabStop ==
    ASSUME NEW x \in Nat
    PROVE  /\ ((x + TAB) \div TAB) * TAB \in (x + 1)..(x + TAB)
           /\ \A y \in (x + 1)..(x + TAB) :
                 y % TAB = 0 <=> y = ((x + TAB) \div TAB) * TAB
<1> USE Constants
<1> DEFINE q == (x + TAB) \div TAB
<1>1. q \in Nat /\ q * TAB <= x + TAB /\ x + TAB < q * TAB + TAB /\ q * TAB \in Nat
  OBVIOUS
<1> HIDE DEF q
<1>2. ASSUME NEW y \in (x + 1)..(x + TAB)
      PROVE  y % TAB = 0 <=> y = q * TAB
  <2>1. y \in Nat
    OBVIOUS
  <2>2. ASSUME y % TAB = 0 PROVE y = q * TAB
    <3>1. PICK p \in Nat : y = p * TAB
      <4>1. y = (y \div TAB) * TAB + (y % TAB) /\ y \div TAB \in Nat
        BY <2>1
      <4>2. y = (y \div TAB) * TAB
        BY <2>2, <4>1
      <4> QED BY <4>1, <4>2
    <3>2. ~(p < q)
      <4>1. SUFFICES ASSUME p < q PROVE FALSE
        OBVIOUS
      <4>2. p + 1 <= q /\ p + 1 \in Nat
        BY <1>1, <4>1
      <4>3. (p + 1) * TAB <= q * TAB /\ (p + 1) * TAB = p * TAB + TAB /\ p * TAB \in Nat
        BY <1>1, <4>2, Multiply
      <4> QED BY <1>1, <3>1, <4>3
    <3>3. ~(q < p)
      <4>1. SUFFICES ASSUME q < p PROVE FALSE
        OBVIOUS
      <4>2. q + 1 <= p /\ q + 1 \in Nat
        BY <1>1, <4>1
      <4>3. (q + 1) * TAB <= p * TAB /\ (q + 1) * TAB = q * TAB + TAB /\ p * TAB \in Nat
        BY <1>1, <4>2, Multiply
      <4> QED BY <1>1, <3>1, <4>3
    <3>4. p = q
      BY <1>1, <3>2, <3>3
    <3> QED BY <3>1, <3>4
  <2>3. (q * TAB) % TAB = 0
    BY <1>1
  <2> QED BY <2>2, <2>3
<1>3. q * TAB \in (x + 1)..(x + TAB)
  BY <1>1
<1> QED BY <1>2, <1>3 DEF q

-----------------------------------------------------------------------------
(* What monitor_put makes of a screen.                                     *)

(* The framebuffer and the column after ch, before the line is broken; a   *)
(* newline counts as a column past the end.                                *)
Typed(s, ch) ==
    IF ch \in Glyph
    THEN [s.video_memory EXCEPT ![s.cursor_y * COLS + s.cursor_x] = ch]
    ELSE s.video_memory

Reached(x, ch) ==
    IF ch \in Glyph THEN x + 1
    ELSE IF ch = BS THEN IF x = 0 THEN 0 ELSE x - 1
    ELSE IF ch = HT THEN ((x + TAB) \div TAB) * TAB
    ELSE IF ch = CR THEN 0
    ELSE IF ch = NL THEN COLS
    ELSE x

(* The framebuffer one line up.                                            *)
Up(m) == [k \in Cells |-> IF k + COLS \in Cells THEN m[k + COLS] ELSE BLANK]

At(m, x, y) == [video_memory |-> m, cursor_x |-> x, cursor_y |-> y, vga |-> y * COLS + x]

LEMMA TypedType ==
    ASSUME NEW s \in Screen, NEW ch
    PROVE  /\ Typed(s, ch) \in [Cells -> Glyph]
           /\ Reached(s.cursor_x, ch) \in Nat
<1> USE Constants
<1>1. s.cursor_x \in 0..(COLS - 1) /\ s.cursor_y \in 0..(ROWS - 1)
      /\ s.video_memory \in [Cells -> Glyph]
  BY DEF Screen
<1>2. Typed(s, ch) \in [Cells -> Glyph]
  BY <1>1, Cell DEF Typed
<1>3. s.cursor_x \in Nat /\ ((s.cursor_x + TAB) \div TAB) * TAB \in Nat
  <2>1. s.cursor_x \in Nat
    BY <1>1
  <2> DEFINE x == s.cursor_x
             t == ((x + TAB) \div TAB) * TAB
  <2> HIDE DEF x, t
  <2>2. x \in Nat
    BY <2>1 DEF x
  <2>3. t \in (x + 1)..(x + TAB)
    BY <2>2, TabStop DEF t
  <2>4. t \in Nat
    BY <2>2, <2>3
  <2> QED BY <2>1, <2>4 DEF t, x
<1>4. Reached(s.cursor_x, ch) \in Nat
  <2>1. PICK x \in Nat, t \in Nat : x = s.cursor_x /\ t = ((x + TAB) \div TAB) * TAB
    BY <1>3
  <2>2. Reached(x, ch) \in Nat
    <3> DEFINE u == ((x + TAB) \div TAB) * TAB
    <3> HIDE DEF u
    <3>1. u = t
      BY <2>1 DEF u
    <3>2. Reached(x, ch) = IF ch \in Glyph THEN x + 1
                           ELSE IF ch = BS THEN IF x = 0 THEN 0 ELSE x - 1
                           ELSE IF ch = HT THEN u
                           ELSE IF ch = CR THEN 0
                           ELSE IF ch = NL THEN COLS
                           ELSE x
      BY DEF Reached, u
    <3> QED BY <3>1, <3>2
  <2> QED BY <2>1, <2>2
<1> QED BY <1>2, <1>4

(* Moved: the screen before the line is broken.                            *)
LEMMA MovedResult ==
    ASSUME NEW s \in Screen, NEW ch
    PROVE  LET x == Reached(s.cursor_x, ch)
           IN  Moved(s, ch) =
                  IF ch = NL
                  THEN [video_memory |-> s.video_memory, cursor_x |-> 0,
                        cursor_y |-> s.cursor_y + 1, vga |-> s.vga]
                  ELSE [video_memory |-> Typed(s, ch), cursor_x |-> x,
                        cursor_y |-> s.cursor_y, vga |-> s.vga]
<1> USE Constants, Characters
<1>1. /\ s.cursor_x \in 0..(COLS - 1) /\ s.cursor_y \in 0..(ROWS - 1)
      /\ s.video_memory \in [Cells -> Glyph]
      /\ s = [video_memory |-> s.video_memory, cursor_x |-> s.cursor_x,
              cursor_y |-> s.cursor_y, vga |-> s.vga]
  BY DEF Screen
<1>2. CASE ch \in Glyph
  <2>1. ch # BS /\ ch # HT /\ ch # CR /\ ch # NL
    BY <1>2
  <2> DEFINE k == s.cursor_y * COLS + s.cursor_x
  <2>2. k \in Cells
    BY <1>1, Cell
  <2>3. Store(s.video_memory, k, ch) = [s.video_memory EXCEPT ![k] = ch]
    BY <1>1, <2>2 DEF Store
  <2>4. Moved(s, ch) = [s EXCEPT !.video_memory = Store(@, k, ch), !.cursor_x = @ + 1]
    BY <1>2, <2>1 DEF Moved
  <2> QED BY <1>1, <1>2, <2>1, <2>3, <2>4 DEF Typed, Reached
<1>3. CASE ch \notin Glyph
  <2>1. CASE ch = BS
    BY <1>1, <1>3, <2>1 DEF Moved, Typed, Reached
  <2>2. CASE ch = HT
    <3> DEFINE t == ((s.cursor_x + TAB) \div TAB) * TAB
    <3> HIDE DEF t
    <3>1. Moved(s, ch) = [s EXCEPT !.cursor_x = t]
      <4>1. ch # BS /\ ch # CR /\ ch # NL
        BY <2>2
      <4> QED BY <1>3, <2>2, <4>1, Zenon DEF Moved, t
    <3>2. Typed(s, ch) = s.video_memory /\ Reached(s.cursor_x, ch) = t /\ ch # NL
      BY <1>3, <2>2 DEF Typed, Reached, t
    <3> QED BY <1>1, <3>1, <3>2
  <2>3. CASE ch = CR
    BY <1>1, <1>3, <2>3 DEF Moved, Typed, Reached
  <2>4. CASE ch = NL
    <3>1. ch # BS /\ ch # HT /\ ch # CR
      BY <2>4
    <3> DEFINE y == s.cursor_y + 1
    <3> HIDE DEF y
    <3>2. Moved(s, ch) = [[s EXCEPT !.cursor_x = 0] EXCEPT !.cursor_y = y]
      BY <1>3, <2>4, <3>1, Zenon DEF Moved, y
    <3>3. Moved(s, ch) = [video_memory |-> s.video_memory, cursor_x |-> 0,
                          cursor_y |-> y, vga |-> s.vga]
      BY <1>1, <3>2
    <3> QED BY <2>4, <3>3 DEF y
  <2>5. CASE ch \notin {BS, HT, CR, NL}
    <3>1. ch # BS /\ ch # HT /\ ch # CR /\ ch # NL
      BY <2>5
    <3>2. Moved(s, ch) = s
      BY <1>3, <3>1, Zenon DEF Moved
    <3> QED BY <1>1, <1>3, <3>1, <3>2 DEF Typed, Reached
  <2> QED BY <2>1, <2>2, <2>3, <2>4, <2>5
<1> QED BY <1>2, <1>3

LEMMA ScrollResult ==
    ASSUME NEW m, NEW x, NEW v, NEW y \in Nat
    PROVE  move_cursor(scroll([video_memory |-> m, cursor_x |-> x, cursor_y |-> y, vga |-> v]))
           = IF y < ROWS THEN At(m, x, y) ELSE At(Up(m), x, ROWS - 1)
<1> DEFINE r == [video_memory |-> m, cursor_x |-> x, cursor_y |-> y, vga |-> v]
<1>1. CASE y < ROWS
  <2>1. scroll(r) = r
    BY <1>1 DEF scroll
  <2>2. move_cursor(r) = At(m, x, y)
    BY DEF move_cursor, At
  <2> QED BY <1>1, <2>1, <2>2
<1>2. CASE ~(y < ROWS)
  <2> DEFINE u == [video_memory |-> Up(m), cursor_x |-> x, cursor_y |-> ROWS - 1, vga |-> v]
  <2>1. r.cursor_y = y /\ r.video_memory = m
    OBVIOUS
  <2>2. scroll(r) = [[r EXCEPT !.video_memory = Up(m)] EXCEPT !.cursor_y = ROWS - 1]
    <3> HIDE DEF r
    <3> QED BY <1>2, <2>1, Zenon DEF scroll, Up
  <2>3. scroll(r) = u
    BY <2>2
  <2>4. move_cursor(u) = At(Up(m), x, ROWS - 1)
    BY DEF move_cursor, At
  <2> QED BY <1>2, <2>3, <2>4
<1> QED BY <1>1, <1>2

LEMMA PutResult ==
    ASSUME NEW s \in Screen, NEW ch
    PROVE  LET m == Typed(s, ch)
               x == Reached(s.cursor_x, ch)
           IN  Put(s, ch) =
                  IF x < COLS THEN At(m, x, s.cursor_y)
                  ELSE IF s.cursor_y < ROWS - 1 THEN At(m, 0, s.cursor_y + 1)
                  ELSE At(Up(m), 0, ROWS - 1)
<1> USE Constants
<1> DEFINE m == Typed(s, ch)
           x == Reached(s.cursor_x, ch)
           y == s.cursor_y
           Bare(b, c1, d) == [video_memory |-> b, cursor_x |-> c1, cursor_y |-> d, vga |-> s.vga]
<1>1. y \in 0..(ROWS - 1) /\ y \in Nat /\ y + 1 \in Nat
  BY DEF Screen
<1>2. x \in Nat
  BY TypedType
<1>3. EndOfLine(Moved(s, ch)) = IF x < COLS THEN Bare(m, x, y) ELSE Bare(m, 0, y + 1)
  <2>1. CASE ch = NL
    <3>1. m = s.video_memory /\ x = COLS
      BY <2>1, Characters DEF Typed, Reached
    <3>2. Moved(s, ch) = Bare(s.video_memory, 0, y + 1)
      BY <2>1, MovedResult
    <3>3. EndOfLine(Bare(s.video_memory, 0, y + 1)) = Bare(s.video_memory, 0, y + 1)
      BY DEF EndOfLine
    <3> QED BY <3>1, <3>2, <3>3
  <2>2. CASE ch # NL
    <3>1. Moved(s, ch) = Bare(m, x, y)
      BY <2>2, MovedResult
    <3> HIDE DEF m, x, y
    <3>2. EndOfLine(Bare(m, x, y)) = IF x < COLS THEN Bare(m, x, y) ELSE Bare(m, 0, y + 1)
      <4>1. x \in Nat /\ y \in Nat
        BY <1>1, <1>2 DEF x, y
      <4>2. CASE x < COLS
        BY <4>1, <4>2 DEF EndOfLine
      <4>3. CASE ~(x < COLS)
        <5> DEFINE r == Bare(m, x, y)
        <5>1. r.cursor_x = x /\ r.cursor_y = y /\ x >= COLS
          BY <4>1, <4>3
        <5>2. PICK z : z = y + 1
          OBVIOUS
        <5>3. EndOfLine(r) = [[r EXCEPT !.cursor_x = 0] EXCEPT !.cursor_y = z]
          <6> HIDE DEF r
          <6> QED BY <5>1, <5>2, Zenon DEF EndOfLine
        <5>4. [r EXCEPT !.cursor_x = 0] = Bare(m, 0, y)
          OBVIOUS
        <5>5. [Bare(m, 0, y) EXCEPT !.cursor_y = z] = Bare(m, 0, z)
          OBVIOUS
        <5>6. EndOfLine(r) = Bare(m, 0, z)
          <6> HIDE DEF r, Bare
          <6> QED BY <5>3, <5>4, <5>5
        <5> QED BY <4>3, <5>2, <5>6
      <4> QED BY <4>2, <4>3
    <3> QED BY <3>1, <3>2
  <2> QED BY <2>1, <2>2
<1> HIDE DEF m, x, y
<1>4. CASE x < COLS
  BY <1>1, <1>3, <1>4, ScrollResult DEF Put, m, x, y
<1>5. CASE ~(x < COLS)
  <2>1. Put(s, ch) = IF y + 1 < ROWS THEN At(m, 0, y + 1) ELSE At(Up(m), 0, ROWS - 1)
    BY <1>1, <1>3, <1>5, ScrollResult DEF Put
  <2> QED BY <1>1, <1>5, <2>1 DEF m, x, y
<1> QED BY <1>4, <1>5

-----------------------------------------------------------------------------
(* Every store is inside the framebuffer, and the lines below the cursor's *)
(* stay blank.                                                             *)

LEMMA UpType ==
    ASSUME NEW m \in [Cells -> Glyph]
    PROVE  Up(m) \in [Cells -> Glyph]
BY DigitIsGlyph DEF Up

LEMMA AtType ==
    ASSUME NEW m \in [Cells -> Glyph], NEW x \in 0..(COLS - 1), NEW y \in 0..(ROWS - 1)
    PROVE  At(m, x, y) \in Screen
BY Cell DEF At, Screen

(* The three cases of PutResult, with the types of what they are about.    *)
LEMMA PutCases ==
    ASSUME NEW s \in Screen, NEW ch
    PROVE  \E m \in [Cells -> Glyph], x \in Nat, y \in 0..(ROWS - 1) :
              /\ m = Typed(s, ch) /\ x = Reached(s.cursor_x, ch) /\ y = s.cursor_y
              /\ \/ x < COLS /\ Put(s, ch) = At(m, x, y)
                 \/ x >= COLS /\ y < ROWS - 1 /\ Put(s, ch) = At(m, 0, y + 1)
                 \/ x >= COLS /\ y = ROWS - 1 /\ Put(s, ch) = At(Up(m), 0, y)
<1> USE Constants
<1> DEFINE m == Typed(s, ch)
           x == Reached(s.cursor_x, ch)
           y == s.cursor_y
<1>1. m \in [Cells -> Glyph] /\ x \in Nat /\ y \in 0..(ROWS - 1)
  BY TypedType DEF Screen
<1>2. Put(s, ch) = IF x < COLS THEN At(m, x, y)
                   ELSE IF y < ROWS - 1 THEN At(m, 0, y + 1)
                   ELSE At(Up(m), 0, ROWS - 1)
  BY PutResult
<1> HIDE DEF m, x, y
<1>3. \/ x < COLS /\ Put(s, ch) = At(m, x, y)
      \/ x >= COLS /\ y < ROWS - 1 /\ Put(s, ch) = At(m, 0, y + 1)
      \/ x >= COLS /\ y = ROWS - 1 /\ Put(s, ch) = At(Up(m), 0, y)
  BY <1>1, <1>2
<1> QED BY <1>1, <1>3 DEF m, x, y

LEMMA PutType ==
    ASSUME NEW s \in Screen, NEW ch
    PROVE  Put(s, ch) \in Screen
<1> USE Constants
<1>1. PICK m \in [Cells -> Glyph], x \in Nat, y \in 0..(ROWS - 1) :
         \/ x < COLS /\ Put(s, ch) = At(m, x, y)
         \/ x >= COLS /\ y < ROWS - 1 /\ Put(s, ch) = At(m, 0, y + 1)
         \/ x >= COLS /\ y = ROWS - 1 /\ Put(s, ch) = At(Up(m), 0, y)
  BY PutCases
<1>2. CASE x < COLS /\ Put(s, ch) = At(m, x, y)
  BY <1>2, AtType
<1>3. CASE y < ROWS - 1 /\ Put(s, ch) = At(m, 0, y + 1)
  <2>1. y + 1 \in 0..(ROWS - 1) /\ 0 \in 0..(COLS - 1)
    BY <1>3
  <2> QED BY <1>3, <2>1, AtType
<1>4. CASE Put(s, ch) = At(Up(m), 0, y)
  <2>1. 0 \in 0..(COLS - 1)
    OBVIOUS
  <2> QED BY <1>4, <2>1, AtType, UpType
<1> QED BY <1>1, <1>2, <1>3, <1>4

BlankUnder(s) == \A k \in Cells : k >= (s.cursor_y + 1) * COLS => s.video_memory[k] = BLANK

LEMMA TypedBlank ==
    ASSUME NEW s \in Screen, NEW ch, BlankUnder(s), NEW k \in Cells,
           k >= (s.cursor_y + 1) * COLS
    PROVE  Typed(s, ch)[k] = BLANK
<1>1. /\ s.video_memory \in [Cells -> Glyph]
      /\ s.cursor_x \in 0..(COLS - 1) /\ s.cursor_y \in 0..(ROWS - 1)
  BY DEF Screen
<1>2. k \in Nat
  BY DEF Cells
<1>3. PICK c1 \in Nat, e \in Nat : /\ c1 = s.cursor_y * COLS + s.cursor_x
                                  /\ e = (s.cursor_y + 1) * COLS
                                  /\ c1 < e
  <2>1. /\ s.cursor_y * COLS + s.cursor_x \in Nat
        /\ s.cursor_y * COLS + s.cursor_x < (s.cursor_y + 1) * COLS
    BY <1>1, Cell
  <2>2. s.cursor_y \in Nat
    BY <1>1, Constants
  <2>3. (s.cursor_y + 1) * COLS \in Nat
    BY <2>2, Constants, Multiply
  <2> QED BY <2>1, <2>3
<1>4. k # s.cursor_y * COLS + s.cursor_x
  BY <1>2, <1>3
<1>5. s.video_memory[k] = BLANK
  BY DEF BlankUnder
<1> QED BY <1>1, <1>4, <1>5 DEF Typed

LEMMA PutBlank ==
    ASSUME NEW s \in Screen, NEW ch, BlankUnder(s)
    PROVE  BlankUnder(Put(s, ch))
<1> USE Constants
<1>1. PICK m \in [Cells -> Glyph], x \in Nat, y \in 0..(ROWS - 1) :
         /\ m = Typed(s, ch) /\ y = s.cursor_y
         /\ \/ x < COLS /\ Put(s, ch) = At(m, x, y)
            \/ x >= COLS /\ y < ROWS - 1 /\ Put(s, ch) = At(m, 0, y + 1)
            \/ x >= COLS /\ y = ROWS - 1 /\ Put(s, ch) = At(Up(m), 0, y)
  BY PutCases
<1>2. \A k \in Cells : k >= (y + 1) * COLS => m[k] = BLANK
  BY <1>1, TypedBlank
<1>3. CASE Put(s, ch) = At(m, x, y)
  BY <1>2, <1>3 DEF BlankUnder, At
<1>4. CASE Put(s, ch) = At(m, 0, y + 1)
  <2>1. (y + 1) * COLS <= (y + 1 + 1) * COLS /\ (y + 1) * COLS \in Nat
        /\ (y + 1 + 1) * COLS \in Nat
    BY Multiply
  <2>2. \A k \in Cells : k >= (y + 1 + 1) * COLS => k >= (y + 1) * COLS
    BY <2>1 DEF Cells
  <2>3. At(m, 0, y + 1).cursor_y = y + 1 /\ At(m, 0, y + 1).video_memory = m
    BY DEF At
  <2> QED BY <1>2, <1>4, <2>2, <2>3 DEF BlankUnder
<1>5. CASE y = ROWS - 1 /\ Put(s, ch) = At(Up(m), 0, y)
  <2>1. At(Up(m), 0, y).cursor_y = y
    BY DEF At
  <2>2. y + 1 = ROWS
    BY <1>5
  <2>3. \A k \in Cells : ~(k >= (y + 1) * COLS)
    BY <2>2, Multiply DEF Cells
  <2> QED BY <1>5, <2>1, <2>3 DEF BlankUnder
<1> QED BY <1>1, <1>3, <1>4, <1>5

-----------------------------------------------------------------------------
(* The driver is a terminal.                                               *)

(* The lines of framebuffer m down to line y.                              *)
Row(m, r)  == [x \in 1..COLS |-> m[r * COLS + x - 1]]
Rows(m, y) == [r \in 1..(y + 1) |-> Row(m, r - 1)]

LEMMA RowsType ==
    ASSUME NEW m, NEW y \in Nat
    PROVE  Rows(m, y) \in Seq({Row(m, r) : r \in Nat}) /\ Len(Rows(m, y)) = y + 1
BY DEF Rows

(* A glyph changes one column of the last line.                            *)
LEMMA TypedRows ==
    ASSUME NEW s \in Screen, NEW ch
    PROVE  LET text == Rows(s.video_memory, s.cursor_y)
           IN  Rows(Typed(s, ch), s.cursor_y) =
                 IF ch \in Glyph
                 THEN [text EXCEPT ![s.cursor_y + 1] = [@ EXCEPT ![s.cursor_x + 1] = ch]]
                 ELSE text
<1> USE Constants
<1>0. PICK b \in [Cells -> Glyph], x \in 0..(COLS - 1), y \in 0..(ROWS - 1) :
         b = s.video_memory /\ x = s.cursor_x /\ y = s.cursor_y
  BY DEF Screen
<1>1. CASE ch \notin Glyph
  BY <1>1 DEF Typed
<1>2. CASE ch \in Glyph
  <2> DEFINE k == y * COLS + x
             m == [b EXCEPT ![k] = ch]
  <2>1. Typed(s, ch) = m /\ k \in Cells
    BY <1>0, <1>2, Cell DEF Typed
  <2>2. ASSUME NEW r \in 0..y, NEW w \in 1..COLS
        PROVE  Row(m, r)[w] = IF r = y /\ w = x + 1 THEN ch ELSE Row(b, r)[w]
    <3>1. r \in 0..(ROWS - 1) /\ r \in Nat /\ y \in Nat /\ w - 1 \in 0..(COLS - 1)
      OBVIOUS
    <3>2. r * COLS \in Nat /\ r * COLS + (w - 1) \in Cells
      BY <3>1, Cell
    <3>3. r * COLS + w - 1 = r * COLS + (w - 1)
      BY <3>2
    <3>4. r * COLS + (w - 1) = k => r = y /\ w = x + 1
      <4>1. PICK v \in 0..(COLS - 1) : v = w - 1
        BY <3>1
      <4>2. r * COLS + v = k => r = y /\ v = x
        BY <3>1, CellUnique
      <4> QED BY <4>1, <4>2
    <3>5. r = y /\ w = x + 1 => r * COLS + (w - 1) = k
      OBVIOUS
    <3>6. Row(m, r)[w] = m[r * COLS + (w - 1)] /\ Row(b, r)[w] = b[r * COLS + (w - 1)]
      BY <3>3 DEF Row
    <3> HIDE DEF k
    <3> QED BY <3>2, <3>4, <3>5, <3>6
  <2> HIDE DEF m, k
  <2>3. ASSUME NEW r \in 0..y
        PROVE  Row(m, r) = IF r = y THEN [Row(b, r) EXCEPT ![x + 1] = ch] ELSE Row(b, r)
    <3>1. /\ DOMAIN Row(m, r) = 1..COLS /\ DOMAIN Row(b, r) = 1..COLS
          /\ Row(m, r) = [w \in 1..COLS |-> Row(m, r)[w]]
          /\ Row(b, r) = [w \in 1..COLS |-> Row(b, r)[w]]
      BY DEF Row
    <3> QED BY <2>2, <3>1
  <2>4. ASSUME NEW r \in 1..(y + 1)
        PROVE  Rows(m, y)[r] = IF r = y + 1 THEN [Rows(b, y)[r] EXCEPT ![x + 1] = ch]
                                            ELSE Rows(b, y)[r]
    <3>1. r - 1 \in 0..y /\ (r - 1 = y <=> r = y + 1)
      OBVIOUS
    <3> QED BY <2>3, <3>1 DEF Rows
  <2>5. /\ DOMAIN Rows(m, y) = 1..(y + 1) /\ DOMAIN Rows(b, y) = 1..(y + 1)
        /\ Rows(m, y) = [r \in 1..(y + 1) |-> Rows(m, y)[r]]
    BY DEF Rows
  <2>6. Rows(m, y) = [Rows(b, y) EXCEPT ![y + 1] = [@ EXCEPT ![x + 1] = ch]]
    BY <2>4, <2>5
  <2> QED BY <1>0, <1>2, <2>1, <2>6
<1> QED BY <1>1, <1>2

(* A line break below which all is blank appends a blank line.             *)
LEMMA BreakRows ==
    ASSUME NEW m, NEW y \in Nat, y < ROWS - 1,
           \A k \in Cells : k >= (y + 1) * COLS => m[k] = BLANK
    PROVE  Rows(m, y + 1) = Append(Rows(m, y), Glass!BlankLine)
<1> USE Constants
<1>1. Row(m, y + 1) = Glass!BlankLine
  <2>1. ASSUME NEW w \in 1..COLS
        PROVE  m[(y + 1) * COLS + w - 1] = BLANK
    <3>1. y + 1 \in 0..(ROWS - 1) /\ w - 1 \in 0..(COLS - 1) /\ w - 1 \in Nat
      OBVIOUS
    <3>2. (y + 1) * COLS \in Nat /\ (y + 1) * COLS + (w - 1) \in Cells
      BY <3>1, Cell
    <3>3. (y + 1) * COLS + w - 1 = (y + 1) * COLS + (w - 1)
          /\ (y + 1) * COLS + (w - 1) >= (y + 1) * COLS
      BY <3>1, <3>2
    <3> QED BY <3>2, <3>3
  <2> QED BY <2>1 DEF Row, Glass!BlankLine
<1>2. Len(Rows(m, y)) = y + 1
  BY RowsType
<1> DEFINE R == Rows(m, y)
           S == Append(Rows(m, y), Row(m, y + 1))
<1>3. /\ DOMAIN S = 1..(y + 1 + 1)
      /\ \A r \in 1..(y + 1 + 1) : S[r] = IF r = y + 1 + 1 THEN Row(m, y + 1) ELSE R[r]
  BY <1>2, RowsType
<1>4. \A r \in 1..(y + 1 + 1) : Rows(m, y + 1)[r] = S[r]
  BY <1>3 DEF Rows
<1> QED BY <1>1, <1>3, <1>4, RowsType DEF Rows

(* Scrolling drops the first line and appends a blank one.                 *)
LEMMA UpRows ==
    ASSUME NEW m
    PROVE  Rows(Up(m), ROWS - 1) = Tail(Append(Rows(m, ROWS - 1), Glass!BlankLine))
<1> USE Constants
<1> DEFINE R == Rows(m, ROWS - 1)
           S == Append(R, Glass!BlankLine)
<1>1. ASSUME NEW r \in 0..(ROWS - 1)
      PROVE  Row(Up(m), r) = IF r = ROWS - 1 THEN Glass!BlankLine ELSE Row(m, r + 1)
  <2>1. ASSUME NEW w \in 1..COLS
        PROVE  Row(Up(m), r)[w] = IF r = ROWS - 1 THEN BLANK ELSE Row(m, r + 1)[w]
    <3>1. w - 1 \in 0..(COLS - 1) /\ r \in Nat
      OBVIOUS
    <3>2. PICK k \in Cells : k = r * COLS + (w - 1) /\ r * COLS \in Nat
      BY <3>1, Cell
    <3>3. /\ (r + 1) * COLS = r * COLS + COLS
          /\ (r + 1) * COLS + w - 1 = k + COLS
          /\ r * COLS + w - 1 = k
      BY <3>1, <3>2, Multiply
    <3>4. r # ROWS - 1 => k + COLS \in Cells
      <4>1. SUFFICES ASSUME r # ROWS - 1 PROVE k + COLS \in Cells
        OBVIOUS
      <4>2. r + 1 \in 0..(ROWS - 1)
        BY <4>1
      <4>3. (r + 1) * COLS + (w - 1) \in Cells
        BY <3>1, <4>2, Cell
      <4> QED BY <3>2, <3>3, <4>3
    <3>5. r = ROWS - 1 => k + COLS \notin Cells
      <4>1. SUFFICES ASSUME r = ROWS - 1 PROVE k + COLS \notin Cells
        OBVIOUS
      <4>2. (r + 1) * COLS = ROWS * COLS /\ ROWS * COLS \in Nat
        BY <4>1, Multiply
      <4> QED BY <3>1, <3>2, <3>3, <4>2 DEF Cells
    <3>6. Row(Up(m), r)[w] = Up(m)[k]
      BY <3>3 DEF Row
    <3>7. Row(m, r + 1)[w] = m[k + COLS]
      BY <3>3 DEF Row
    <3> QED BY <3>2, <3>4, <3>5, <3>6, <3>7 DEF Up
  <2>2. CASE r = ROWS - 1
    <3>1. Row(Up(m), r) = [w \in 1..COLS |-> Row(Up(m), r)[w]]
      BY DEF Row
    <3> QED BY <2>1, <2>2, <3>1 DEF Glass!BlankLine
  <2>3. CASE r # ROWS - 1
    <3>1. /\ Row(Up(m), r) = [w \in 1..COLS |-> Row(Up(m), r)[w]]
          /\ Row(m, r + 1) = [w \in 1..COLS |-> Row(m, r + 1)[w]]
      BY DEF Row
    <3> QED BY <2>1, <2>3, <3>1
  <2> QED BY <2>2, <2>3
<1>2. R \in Seq({Row(m, r) : r \in Nat}) /\ Len(R) = ROWS
  <2>1. ROWS - 1 \in Nat /\ ROWS - 1 + 1 = ROWS
    OBVIOUS
  <2> QED BY <2>1, RowsType
<1>3. /\ Len(S) = ROWS + 1
      /\ \A r \in 1..(ROWS + 1) : S[r] = IF r = ROWS + 1 THEN Glass!BlankLine ELSE R[r]
  BY <1>2
<1>4. S \in Seq({Row(m, r) : r \in Nat} \cup {Glass!BlankLine})
  BY <1>2
<1> HIDE DEF S
<1>5. Len(Tail(S)) = ROWS /\ \A r \in 1..ROWS : Tail(S)[r] = S[r + 1]
  BY <1>3, <1>4
<1>6. \A r \in 1..ROWS : r < ROWS => R[r + 1] = Row(m, r)
  BY DEF Rows
<1>7. ASSUME NEW r \in 1..ROWS
      PROVE  Rows(Up(m), ROWS - 1)[r] = Tail(S)[r]
  <2>1. Rows(Up(m), ROWS - 1)[r] = Row(Up(m), r - 1)
    BY DEF Rows
  <2>2. r - 1 \in 0..(ROWS - 1) /\ (r - 1 = ROWS - 1 <=> r = ROWS) /\ r - 1 + 1 = r
    OBVIOUS
  <2>3. Row(Up(m), r - 1) = IF r = ROWS THEN Glass!BlankLine ELSE Row(m, r)
    BY <1>1, <2>2
  <2>4. S[r + 1] = IF r = ROWS THEN Glass!BlankLine ELSE R[r + 1]
    BY <1>3
  <2>5. r # ROWS => R[r + 1] = Row(m, r)
    BY <1>6
  <2> QED BY <1>5, <2>1, <2>3, <2>4, <2>5
<1>8. Rows(Up(m), ROWS - 1) = [r \in 1..ROWS |-> Rows(Up(m), ROWS - 1)[r]]
  BY DEF Rows
<1>9. Tail(S) = [r \in 1..ROWS |-> Tail(S)[r]]
  <2>0. Tail(S) \in Seq({Row(m, r) : r \in Nat} \cup {Glass!BlankLine})
    BY <1>3, <1>4
  <2>1. PICK T \in Seq({Row(m, r) : r \in Nat} \cup {Glass!BlankLine}) : T = Tail(S)
    BY <2>0, Zenon
  <2>2. Len(T) = ROWS
    BY <1>5, <2>1
  <2>3. T = [r \in 1..ROWS |-> T[r]]
    BY <2>2
  <2> QED BY <2>1, <2>3
<1> QED BY <1>7, <1>8, <1>9 DEF S

(* The driver and the terminal agree on the column reached.                *)
LEMMA SameColumn ==
    ASSUME NEW x \in Nat, NEW ch
    PROVE  Glass!Column(x, ch) = Reached(x, ch)
<1> USE Constants, Characters
<1>1. CASE ch \in Glyph
  <2>1. ch # BS /\ ch # HT /\ ch # CR /\ ch # NL
    BY <1>1
  <2> QED BY <1>1, <2>1, Zenon DEF Glass!Column, Reached
<1>2. CASE ch = HT
  <2> DEFINE t == ((x + TAB) \div TAB) * TAB
             C == CHOOSE y \in (x + 1)..(x + TAB) : y % TAB = 0
  <2>1. /\ t \in (x + 1)..(x + TAB)
        /\ \A y \in (x + 1)..(x + TAB) : y % TAB = 0 <=> y = t
    BY TabStop
  <2> HIDE DEF t
  <2>2. C = t
    BY <2>1
  <2>3. ch # BS /\ ch # CR /\ ch # NL /\ ch \notin Glyph
    BY <1>2
  <2>4. Glass!Column(x, ch) = C
    BY <1>2, <2>3, Zenon DEF Glass!Column
  <2>5. Reached(x, ch) = t
    BY <1>2, <2>3 DEF Reached, t
  <2> QED BY <2>2, <2>4, <2>5
<1>3. CASE ch = BS
  <2>1. ch \notin Glyph /\ ch # HT /\ ch # CR /\ ch # NL
    BY <1>3
  <2> QED BY <1>3, <2>1, Zenon DEF Glass!Column, Reached
<1>4. CASE ch = CR
  <2>1. ch \notin Glyph /\ ch # HT /\ ch # BS /\ ch # NL
    BY <1>4
  <2> QED BY <1>4, <2>1, Zenon DEF Glass!Column, Reached
<1>5. CASE ch = NL
  <2>1. ch \notin Glyph /\ ch # HT /\ ch # BS /\ ch # CR
    BY <1>5
  <2> QED BY <1>5, <2>1, Zenon DEF Glass!Column, Reached
<1>6. CASE ch \notin Glyph /\ ch # HT /\ ch # BS /\ ch # CR /\ ch # NL
  BY <1>6, Zenon DEF Glass!Column, Reached
<1> QED BY <1>1, <1>2, <1>3, <1>4, <1>5, <1>6

Text == Rows(screen.video_memory, screen.cursor_y)

(* Each character the driver puts is written by the terminal.              *)
LEMMA PutWrites ==
    ASSUME screen \in Screen, BlankUnder(screen), NEW ch, screen' = Put(screen, ch)
    PROVE  LET x == Reached(screen.cursor_x, ch)
               T == Rows(Typed(screen, ch), screen.cursor_y)
           IN  /\ Text' = IF x >= COLS THEN Glass!Keep(Append(T, Glass!BlankLine)) ELSE T
               /\ screen'.cursor_x = IF x >= COLS THEN 0 ELSE x
               /\ Len(Text') = screen'.cursor_y + 1
               /\ screen'.vga = screen'.cursor_y * COLS + screen'.cursor_x
               /\ screen'.cursor_y \in 0..(ROWS - 1)
<1> USE Constants
<1>1. PICK m \in [Cells -> Glyph], x \in Nat, y \in 0..(ROWS - 1) :
         /\ m = Typed(screen, ch) /\ x = Reached(screen.cursor_x, ch) /\ y = screen.cursor_y
         /\ \/ x < COLS /\ screen' = At(m, x, y)
            \/ x >= COLS /\ y < ROWS - 1 /\ screen' = At(m, 0, y + 1)
            \/ x >= COLS /\ y = ROWS - 1 /\ screen' = At(Up(m), 0, y)
  BY PutCases
<1>2. screen' \in Screen
  BY PutType
<1>3. screen'.cursor_y \in 0..(ROWS - 1) /\ screen'.cursor_y \in Nat
  BY <1>2 DEF Screen
<1>4. Text' = Rows(screen'.video_memory, screen'.cursor_y)
  BY DEF Text
<1>5. Len(Text') = screen'.cursor_y + 1
  BY <1>3, <1>4, RowsType
<1>6. y \in Nat /\ Len(Rows(m, y)) = y + 1 /\ Rows(m, y) \in Seq({Row(m, r) : r \in Nat})
  BY RowsType
<1>7. Len(Append(Rows(m, y), Glass!BlankLine)) = y + 2
  BY <1>6
<1>8. CASE x < COLS /\ screen' = At(m, x, y)
  <2>1. screen'.video_memory = m /\ screen'.cursor_x = x /\ screen'.cursor_y = y
        /\ screen'.vga = y * COLS + x
    BY <1>8 DEF At
  <2>2. ~(Reached(screen.cursor_x, ch) >= COLS)
    BY <1>1, <1>8
  <2>3. Text' = Rows(Typed(screen, ch), screen.cursor_y)
    BY <1>1, <1>4, <2>1
  <2> QED BY <1>1, <1>3, <1>5, <2>1, <2>2, <2>3
<1>9. CASE x >= COLS /\ y < ROWS - 1 /\ screen' = At(m, 0, y + 1)
  <2>1. screen'.video_memory = m /\ screen'.cursor_x = 0 /\ screen'.cursor_y = y + 1
        /\ screen'.vga = (y + 1) * COLS + 0
    BY <1>9 DEF At
  <2>2. \A k \in Cells : k >= (y + 1) * COLS => m[k] = BLANK
    BY <1>1, TypedBlank
  <2>3. Rows(m, y + 1) = Append(Rows(m, y), Glass!BlankLine)
    BY <1>6, <1>9, <2>2, BreakRows
  <2>4. Glass!Keep(Append(Rows(m, y), Glass!BlankLine)) = Append(Rows(m, y), Glass!BlankLine)
    <3>1. ~(Len(Append(Rows(m, y), Glass!BlankLine)) > ROWS)
      BY <1>7, <1>9
    <3> QED BY <3>1, Zenon DEF Glass!Keep
  <2> QED BY <1>1, <1>3, <1>4, <1>5, <1>9, <2>1, <2>3, <2>4
<1>10. CASE x >= COLS /\ y = ROWS - 1 /\ screen' = At(Up(m), 0, y)
  <2>1. screen'.video_memory = Up(m) /\ screen'.cursor_x = 0 /\ screen'.cursor_y = y
        /\ screen'.vga = y * COLS + 0
    BY <1>10 DEF At
  <2>2. Rows(Up(m), y) = Tail(Append(Rows(m, y), Glass!BlankLine))
    BY <1>10, UpRows
  <2>3. Glass!Keep(Append(Rows(m, y), Glass!BlankLine))
        = Tail(Append(Rows(m, y), Glass!BlankLine))
    <3>1. Len(Append(Rows(m, y), Glass!BlankLine)) > ROWS
      BY <1>7, <1>10
    <3> QED BY <3>1, Zenon DEF Glass!Keep
  <2> QED BY <1>1, <1>3, <1>4, <1>5, <1>10, <2>1, <2>2, <2>3
<1> QED BY <1>1, <1>8, <1>9, <1>10

LEMMA BlankText == Rows([k \in Cells |-> BLANK], 0) = <<Glass!BlankLine>>
<1> USE Constants
<1> DEFINE m == [k \in Cells |-> BLANK]
<1>1. ASSUME NEW x \in 1..COLS PROVE m[0 * COLS + x - 1] = BLANK
  <2>1. 0 \in 0..(ROWS - 1) /\ x - 1 \in 0..(COLS - 1) /\ 0 * COLS = 0
    OBVIOUS
  <2>2. 0 * COLS + (x - 1) \in Cells /\ 0 * COLS + x - 1 = 0 * COLS + (x - 1)
    BY <2>1, Cell
  <2> QED BY <2>2
<1>2. Row(m, 0) = Glass!BlankLine
  BY <1>1 DEF Row, Glass!BlankLine
<1>3. Rows(m, 0) = [r \in 1..1 |-> Row(m, 0)]
  BY DEF Rows
<1> QED BY <1>2, <1>3

(* Text is the text of the refinement mapping.                             *)
LEMMA TextMapped ==
    /\ Text = [y \in 1..(screen.cursor_y + 1) |-> Line(screen, y - 1)]
    /\ Text' = [y \in 1..(screen.cursor_y + 1) |-> Line(screen, y - 1)]'
BY DEF Text, Rows, Row, Line

CursorShown == screen.vga = screen.cursor_y * COLS + screen.cursor_x

LEMMA WriteRefines ==
    ASSUME screen \in Screen, BlankUnder(screen), CursorShown,
           NEW ch, screen' = Put(screen, ch)
    PROVE  Glass!Next \/ UNCHANGED Glass!vars
<1> USE Constants
<1>0. screen.cursor_x \in 0..(COLS - 1) /\ screen.cursor_y \in 0..(ROWS - 1)
      /\ screen.cursor_x \in Nat /\ screen.cursor_y \in Nat
  BY DEF Screen
<1>1. CASE ch \in Char
  <2>1. Glass!Column(screen.cursor_x, ch) = Reached(screen.cursor_x, ch)
    BY <1>0, SameColumn
  <2>2. Len(Text) = screen.cursor_y + 1
    BY <1>0, RowsType DEF Text
  <2>3. Rows(Typed(screen, ch), screen.cursor_y) =
          IF ch \in Glyph
          THEN [Text EXCEPT ![Len(Text)] = [@ EXCEPT ![screen.cursor_x + 1] = ch]]
          ELSE Text
    BY <2>2, TypedRows DEF Text
  <2>4. screen'.vga = (Len(Text') - 1) * COLS + screen'.cursor_x
    <3>1. /\ Len(Text') = screen'.cursor_y + 1
          /\ screen'.vga = screen'.cursor_y * COLS + screen'.cursor_x
          /\ screen'.cursor_y \in 0..(ROWS - 1)
      BY PutWrites
    <3>2. Len(Text') - 1 = screen'.cursor_y
      BY <3>1
    <3> QED BY <3>1, <3>2
  <2>5. /\ Text' = IF Reached(screen.cursor_x, ch) >= COLS
                   THEN Glass!Keep(Append(Rows(Typed(screen, ch), screen.cursor_y),
                                          Glass!BlankLine))
                   ELSE Rows(Typed(screen, ch), screen.cursor_y)
        /\ screen'.cursor_x = IF Reached(screen.cursor_x, ch) >= COLS THEN 0
                              ELSE Reached(screen.cursor_x, ch)
    BY PutWrites
  <2>6. Glass!Write(ch)
    BY <2>1, <2>3, <2>4, <2>5, TextMapped, Zenon DEF Glass!Write
  <2> QED BY <1>1, <2>6 DEF Glass!Next
<1>2. CASE ch \notin Char
  <2>1. Typed(screen, ch) = screen.video_memory /\ Reached(screen.cursor_x, ch) = screen.cursor_x
    BY <1>2 DEF Char, Typed, Reached
  <2>2. screen' = At(screen.video_memory, screen.cursor_x, screen.cursor_y)
    BY <1>0, <2>1, PutResult
  <2>3. screen' = screen
    BY <2>2 DEF At, CursorShown, Screen
  <2> QED BY <2>3 DEF Glass!vars, Line
<1> QED BY <1>1, <1>2

-----------------------------------------------------------------------------
(* The line of a status message.                                           *)

LEMMA Concatenation ==
    ASSUME NEW T, NEW a \in Seq(T), NEW b \in Seq(T)
    PROVE  /\ Len(a \o b) = Len(a) + Len(b)
           /\ \A k \in 1..Len(a) : (a \o b)[k] = a[k]
           /\ \A k \in (Len(a) + 1)..(Len(a) + Len(b)) : (a \o b)[k] = b[k - Len(a)]
OBVIOUS

LEMMA BufferLength ==
    ASSUME NEW len \in MessageLens
    PROVE  /\ Len(buff(len)) = COLS
           /\ buff(len) \in Seq(Char)
           /\ \A k \in 1..(COLS - 1) : buff(len)[k] = Digit
           /\ buff(len)[COLS] = NL
<1> USE Constants
<1> DEFINE message == [k \in 1..len |-> Digit]
           dots    == [k \in 1..(PAD - len) |-> Digit]
           status  == [k \in 1..STATUS |-> Digit]
<1>0. len \in 0..PAD /\ len \in Nat /\ PAD - len \in Nat
  OBVIOUS
<1>1. Digit \in Char /\ NL \in Char
  BY DigitIsGlyph DEF Char
<1>2. /\ message \in Seq(Char) /\ Len(message) = len
      /\ dots \in Seq(Char) /\ Len(dots) = PAD - len
      /\ status \in Seq(Char) /\ Len(status) = STATUS
      /\ <<NL>> \in Seq(Char) /\ Len(<<NL>>) = 1
  BY <1>0, <1>1
<1>3. /\ \A k \in 1..len : message[k] = Digit
      /\ \A k \in 1..(PAD - len) : dots[k] = Digit
      /\ \A k \in 1..STATUS : status[k] = Digit
      /\ <<NL>>[1] = NL
  OBVIOUS
<1>4. buff(len) = message \o dots \o status \o <<NL>>
  BY DEF buff
<1> HIDE DEF message, dots, status
<1> DEFINE padded == message \o dots
<1>5. padded \in Seq(Char) /\ Len(padded) = PAD /\ \A k \in 1..PAD : padded[k] = Digit
  BY <1>0, <1>2, <1>3
<1> HIDE DEF padded
<1> DEFINE line == padded \o status
<1>6. line \in Seq(Char) /\ Len(line) = COLS - 1 /\ \A k \in 1..(COLS - 1) : line[k] = Digit
  BY <1>2, <1>3, <1>5
<1> HIDE DEF line
<1> DEFINE nl == <<NL>>
<1>7. nl \in Seq(Char) /\ Len(nl) = 1 /\ nl[1] = NL
  BY <1>2, <1>3
<1> HIDE DEF nl
<1>8. line \o nl \in Seq(Char) /\ Len(line \o nl) = COLS
  <2>1. line \o nl \in Seq(Char)
    BY <1>6, <1>7
  <2>2. Len(line \o nl) = Len(line) + Len(nl)
    BY <1>6, <1>7, Concatenation
  <2>3. Len(line \o nl) = (COLS - 1) + 1
    BY <1>6, <1>7, <2>2
  <2> QED BY <2>1, <2>3
<1>9. \A k \in 1..(COLS - 1) : (line \o nl)[k] = Digit
  BY <1>6, <1>7
<1>10. (line \o nl)[COLS] = nl[1]
  <2>1. \A k \in (Len(line) + 1)..(Len(line) + Len(nl)) : (line \o nl)[k] = nl[k - Len(line)]
    BY <1>6, <1>7, Concatenation
  <2>2. COLS \in (Len(line) + 1)..(Len(line) + Len(nl)) /\ COLS - Len(line) = 1
    BY <1>6, <1>7
  <2> QED BY <2>1, <2>2
<1> QED BY <1>4, <1>7, <1>8, <1>9, <1>10 DEF line, padded, nl

(* Screen s with the first n columns of the cursor's line dotted.          *)
Dotted(s, n) ==
    [k \in Cells |-> IF k >= s.cursor_y * COLS /\ k < s.cursor_y * COLS + n
                     THEN Digit ELSE s.video_memory[k]]

(* What PaddedLine says of the screen after the newline.                   *)
LineDone(s, before) ==
    /\ s.cursor_x = 0
    /\ s.cursor_y = IF before.cursor_y < ROWS - 1 THEN before.cursor_y + 1
                    ELSE ROWS - 1
    /\ \A x \in 1..(COLS - 1) : Line(s, s.cursor_y - 1)[x] = Digit
    /\ before.cursor_y < ROWS - 1 =>
         \A y \in 0..(ROWS - 1) \ {before.cursor_y} : Line(s, y) = Line(before, y)

(* The message up to the counter is on its line, and nothing else has      *)
(* changed.                                                                *)
Padding ==
    call.fn = "padded" =>
        /\ call.len \in MessageLens
        /\ call.before \in Screen
        /\ \A k \in 1..(COLS - 1) : string[k] = Digit
        /\ string[COLS] = NL
        /\ call.before.cursor_x = 0 =>
             /\ counter < COLS =>
                   /\ screen.video_memory = Dotted(call.before, counter)
                   /\ screen.cursor_x = counter
                   /\ screen.cursor_y = call.before.cursor_y
             /\ counter = COLS => LineDone(screen, call.before)

LEMMA PaddingNext ==
    ASSUME /\ call'.len \in MessageLens /\ call'.before \in Screen
           /\ \A k \in 1..(COLS - 1) : string'[k] = Digit
           /\ string'[COLS] = NL,
           call'.before.cursor_x = 0 =>
             /\ counter' < COLS =>
                   /\ screen'.video_memory = Dotted(call'.before, counter')
                   /\ screen'.cursor_x = counter'
                   /\ screen'.cursor_y = call'.before.cursor_y
             /\ counter' = COLS => LineDone(screen', call'.before)
    PROVE  Padding'
BY DEF Padding, Dotted, LineDone, Line

(* A character of the message.                                             *)
LEMMA DotStep ==
    ASSUME screen \in Screen, NEW b \in Screen, NEW n \in Nat, n < COLS - 1,
           screen.video_memory = Dotted(b, n), screen.cursor_x = n,
           screen.cursor_y = b.cursor_y, screen' = Put(screen, Digit)
    PROVE  /\ screen'.video_memory = Dotted(b, n + 1)
           /\ screen'.cursor_x = n + 1
           /\ screen'.cursor_y = b.cursor_y
<1> USE Constants, DigitIsGlyph
<1>1. Reached(screen.cursor_x, Digit) = n + 1
  BY DEF Reached
<1>2. PICK y \in 0..(ROWS - 1) : y = b.cursor_y
  BY DEF Screen
<1>3. screen' = At(Typed(screen, Digit), n + 1, y)
  BY <1>1, <1>2, PutResult
<1>4. PICK l \in Nat : l = y * COLS /\ l + n \in Cells
  BY Cell
<1>5. Typed(screen, Digit) = [Dotted(b, n) EXCEPT ![l + n] = Digit]
  BY <1>2, <1>4 DEF Typed
<1>6. Typed(screen, Digit) = Dotted(b, n + 1)
  <2>1. ASSUME NEW k \in Cells
        PROVE  [Dotted(b, n) EXCEPT ![l + n] = Digit][k] = Dotted(b, n + 1)[k]
    <3>1. k \in Nat
      BY DEF Cells
    <3>2. Dotted(b, n)[k] = IF k >= l /\ k < l + n THEN Digit ELSE b.video_memory[k]
      BY <1>2, <1>4 DEF Dotted
    <3>3. Dotted(b, n + 1)[k] = IF k >= l /\ k < l + (n + 1) THEN Digit ELSE b.video_memory[k]
      BY <1>2, <1>4 DEF Dotted
    <3>4. DOMAIN Dotted(b, n) = Cells
      BY DEF Dotted
    <3> QED BY <1>4, <3>1, <3>2, <3>3, <3>4
  <2>2. DOMAIN Dotted(b, n) = Cells /\ Dotted(b, n + 1) = [k \in Cells |-> Dotted(b, n + 1)[k]]
    BY DEF Dotted
  <2> QED BY <1>5, <2>1, <2>2
<1> QED BY <1>2, <1>3, <1>6 DEF At

(* The cells of a line that is, and of one that is not, the dotted one.    *)
LEMMA DottedLine ==
    ASSUME NEW b \in Screen, NEW y \in 0..(ROWS - 1), NEW x \in 1..COLS
    PROVE  /\ y * COLS + x - 1 \in Cells
           /\ Dotted(b, COLS - 1)[y * COLS + x - 1] =
                IF y = b.cursor_y /\ x < COLS THEN Digit
                ELSE b.video_memory[y * COLS + x - 1]
<1> USE Constants
<1>1. PICK z \in 0..(ROWS - 1) : z = b.cursor_y
  BY DEF Screen
<1>2. PICK w \in 0..(COLS - 1) : w = x - 1
  OBVIOUS
<1>3. z \in Nat /\ y \in Nat /\ y * COLS \in Nat /\ z * COLS \in Nat
  BY Multiply
<1>4. y * COLS + x - 1 = y * COLS + w /\ y * COLS + w \in Cells
  BY <1>2, <1>3, Cell
<1>5. Dotted(b, COLS - 1)[y * COLS + w] =
         IF y * COLS + w >= z * COLS /\ y * COLS + w < z * COLS + (COLS - 1)
         THEN Digit ELSE b.video_memory[y * COLS + w]
  BY <1>1, <1>4 DEF Dotted
<1>6. CASE y = z
  BY <1>1, <1>2, <1>3, <1>4, <1>5, <1>6
<1>7. CASE y < z
  <2>1. y * COLS + w < z * COLS + 0
    BY <1>3, <1>7, CellLess
  <2> QED BY <1>1, <1>3, <1>4, <1>5, <1>7, <2>1
<1>8. CASE z < y
  <2>1. COLS - 1 \in 0..(COLS - 1)
    OBVIOUS
  <2>2. z * COLS + (COLS - 1) < y * COLS + w
    BY <1>3, <1>8, <2>1, CellLess
  <2>3. ~(y * COLS + w < z * COLS + (COLS - 1)) /\ y # b.cursor_y
    BY <1>1, <1>3, <1>8, <2>2
  <2>4. Dotted(b, COLS - 1)[y * COLS + w] = b.video_memory[y * COLS + w]
    BY <1>5, <2>3
  <2> QED BY <1>4, <2>3, <2>4
<1> QED BY <1>3, <1>6, <1>7, <1>8

(* The newline after the status.                                           *)
LEMMA NewlineStep ==
    ASSUME screen \in Screen, NEW b \in Screen,
           screen.video_memory = Dotted(b, COLS - 1), screen.cursor_x = COLS - 1,
           screen.cursor_y = b.cursor_y, screen' = Put(screen, NL)
    PROVE  LineDone(screen', b)
<1> USE Constants, Characters
<1>1. PICK y \in 0..(ROWS - 1) : y = b.cursor_y
  BY DEF Screen
<1>2. Reached(screen.cursor_x, NL) = COLS /\ Typed(screen, NL) = Dotted(b, COLS - 1)
  BY DEF Reached, Typed
<1> DEFINE m == Dotted(b, COLS - 1)
<1>3. CASE y < ROWS - 1
  <2>1. screen' = At(m, 0, y + 1)
    BY <1>1, <1>2, <1>3, PutResult
  <2>2. /\ screen'.video_memory = m /\ screen'.cursor_x = 0
        /\ screen'.cursor_y = y + 1
    BY <2>1 DEF At
  <2>3. ASSUME NEW x \in 1..(COLS - 1)
        PROVE  Line(screen', screen'.cursor_y - 1)[x] = Digit
    <3>1. y + 1 - 1 = y /\ x \in 1..COLS /\ x < COLS
      OBVIOUS
    <3>2. Line(screen', screen'.cursor_y - 1)[x] = m[y * COLS + x - 1]
      BY <2>2, <3>1 DEF Line
    <3> QED BY <1>1, <3>1, <3>2, DottedLine
  <2>4. ASSUME NEW z \in 0..(ROWS - 1) \ {b.cursor_y}
        PROVE  Line(screen', z) = Line(b, z)
    <3>1. \A x \in 1..COLS : m[z * COLS + x - 1] = b.video_memory[z * COLS + x - 1]
      BY <2>4, DottedLine
    <3> QED BY <2>2, <3>1 DEF Line
  <2> QED BY <1>1, <1>3, <2>2, <2>3, <2>4 DEF LineDone
<1>4. CASE y = ROWS - 1
  <2>1. screen' = At(Up(m), 0, y)
    BY <1>1, <1>2, <1>4, PutResult
  <2>2. screen'.video_memory = Up(m) /\ screen'.cursor_x = 0 /\ screen'.cursor_y = y
    BY <2>1 DEF At
  <2>3. ASSUME NEW x \in 1..(COLS - 1)
        PROVE  Line(screen', screen'.cursor_y - 1)[x] = Digit
    <3>1. PICK r \in Nat : r = y - 1 /\ y = r + 1 /\ r \in 0..(ROWS - 1)
      BY <1>4
    <3>2. x \in 1..COLS /\ x < COLS /\ x - 1 \in 0..(COLS - 1)
      OBVIOUS
    <3>3. PICK l \in Nat : l = r * COLS
      BY <3>1, Multiply
    <3>4. y * COLS = l + COLS
      BY <3>1, <3>3, Multiply
    <3>5. l + (x - 1) \in Cells /\ l + x - 1 = l + (x - 1)
      BY <3>1, <3>2, <3>3, Cell
    <3>6. y * COLS + x - 1 = (l + (x - 1)) + COLS
      BY <3>4
    <3>7. (l + (x - 1)) + COLS \in Cells /\ m[(l + (x - 1)) + COLS] = Digit
      <4>1. y * COLS + x - 1 \in Cells /\ m[y * COLS + x - 1] = Digit
        BY <1>1, <3>2, DottedLine
      <4> QED BY <3>6, <4>1
    <3>8. Up(m)[l + (x - 1)] = Digit
      BY <3>5, <3>7 DEF Up
    <3>9. Line(screen', screen'.cursor_y - 1)[x] = Up(m)[l + x - 1]
      BY <2>2, <3>1, <3>2, <3>3 DEF Line
    <3> QED BY <3>5, <3>8, <3>9
  <2> QED BY <1>1, <1>4, <2>2, <2>3 DEF LineDone
<1> QED BY <1>3, <1>4

-----------------------------------------------------------------------------
(* The inductive invariant.                                                *)

IInv == TypeOK /\ BlankUnder(screen) /\ CursorShown /\ Padding

LEMMA TypeScreen == TypeOK <=> screen \in Screen /\ counter \in Nat
BY DEF TypeOK, Screen

LEMMA ClearScreen ==
    ASSUME NEW s, s = [video_memory |-> [k \in Cells |-> BLANK],
                       cursor_x |-> 0, cursor_y |-> 0, vga |-> 0]
    PROVE  s \in Screen /\ BlankUnder(s) /\ s.vga = s.cursor_y * COLS + s.cursor_x
<1> USE Constants
<1>1. 0 \in 0..(ROWS - 1) /\ 0 \in 0..(COLS - 1)
  OBVIOUS
<1>2. 0 * COLS = 0 /\ 0 \in Cells
  BY <1>1, Cell
<1>3. [k \in Cells |-> BLANK] \in [Cells -> Glyph]
  BY DigitIsGlyph
<1>4. s \in Screen
  BY <1>1, <1>2, <1>3 DEF Screen
<1>5. BlankUnder(s)
  BY DEF BlankUnder
<1> QED BY <1>2, <1>4, <1>5

LEMMA InitIInv == Init => IInv
<1> SUFFICES ASSUME Init PROVE IInv
  OBVIOUS
<1>1. screen \in Screen /\ BlankUnder(screen) /\ CursorShown
  BY ClearScreen DEF Init, CursorShown
<1>2. counter \in Nat /\ call.fn # "padded"
  BY DEF Init, None
<1> QED BY <1>1, <1>2, TypeScreen DEF IInv, Padding

LEMMA PutIInv ==
    ASSUME screen \in Screen, BlankUnder(screen), NEW ch, screen' = Put(screen, ch)
    PROVE  screen' \in Screen /\ BlankUnder(screen)' /\ CursorShown'
<1>1. screen' \in Screen /\ BlankUnder(screen')
  BY PutType, PutBlank
<1>2. CursorShown'
  BY PutWrites DEF CursorShown
<1> QED BY <1>1, <1>2 DEF BlankUnder

LEMMA StartIInv ==
    ASSUME IInv, NEW str, NEW cl, Start(str, cl),
           cl.fn = "padded" =>
              /\ cl.len \in MessageLens /\ cl.before = screen
              /\ \A k \in 1..(COLS - 1) : str[k] = Digit
              /\ str[COLS] = NL
    PROVE  IInv'
<1> USE Constants
<1>1. screen' = screen /\ string' = str /\ counter' = 0 /\ call' = cl
  BY DEF Start
<1>2. TypeOK' /\ BlankUnder(screen)' /\ CursorShown' /\ screen \in Screen
  BY <1>1, TypeScreen DEF IInv, TypeOK, BlankUnder, CursorShown
<1>3. ASSUME cl.fn = "padded", cl.before.cursor_x = 0
      PROVE  /\ screen.video_memory = Dotted(screen, 0)
             /\ screen.cursor_x = 0
  <2>1. PICK y \in 0..(ROWS - 1) : y = screen.cursor_y
    BY <1>2 DEF Screen
  <2>2. y * COLS \in Nat
    BY Multiply
  <2>3. \A k \in Cells : ~(k >= y * COLS /\ k < y * COLS + 0)
    BY <2>2 DEF Cells
  <2>4. screen.video_memory \in [Cells -> Glyph]
    BY <1>2 DEF Screen
  <2>5. screen.video_memory = Dotted(screen, 0)
    BY <2>1, <2>3, <2>4 DEF Dotted
  <2> QED BY <1>3, <2>5
<1>4. Padding'
  <2>1. SUFFICES ASSUME cl.fn = "padded"
                 PROVE  Padding'
    BY <1>1 DEF Padding
  <2>2. 0 < COLS /\ 0 # COLS
    OBVIOUS
  <2> QED BY <1>1, <1>2, <1>3, <2>1, <2>2 DEF Padding
<1> QED BY <1>2, <1>4 DEF IInv

LEMMA LoopIInv == ASSUME IInv, monitor_write PROVE IInv'
<1> USE Constants
<1>1. /\ screen \in Screen /\ counter \in Nat /\ BlankUnder(screen)
      /\ screen' = Put(screen, string[counter + 1]) /\ counter' = counter + 1
      /\ string' = string /\ call' = call
  BY TypeScreen DEF IInv, monitor_write
<1>2. TypeOK' /\ BlankUnder(screen)' /\ CursorShown'
  BY <1>1, PutIInv DEF TypeOK, Screen
<1>3. ASSUME call.fn = "padded", call.before.cursor_x = 0
      PROVE  /\ counter' < COLS =>
                   /\ screen'.video_memory = Dotted(call.before, counter')
                   /\ screen'.cursor_x = counter'
                   /\ screen'.cursor_y = call.before.cursor_y
             /\ counter' = COLS => LineDone(screen', call'.before)
  <2>1. PICK b \in Screen : b = call.before
    BY <1>3 DEF IInv, Padding
  <2>2. /\ counter < COLS =>
              /\ screen.video_memory = Dotted(b, counter)
              /\ screen.cursor_x = counter
              /\ screen.cursor_y = b.cursor_y
        /\ \A k \in 1..(COLS - 1) : string[k] = Digit
        /\ string[COLS] = NL
    BY <1>3, <2>1 DEF IInv, Padding
  <2>3. CASE counter < COLS - 1
    <3>1. counter + 1 \in 1..(COLS - 1) /\ counter < COLS /\ counter' # COLS
      BY <1>1, <2>3
    <3>2. screen' = Put(screen, Digit)
      BY <1>1, <2>2, <3>1
    <3>3. /\ screen'.video_memory = Dotted(b, counter + 1)
          /\ screen'.cursor_x = counter + 1
          /\ screen'.cursor_y = b.cursor_y
      BY <1>1, <2>2, <2>3, <3>1, <3>2, DotStep
    <3> QED BY <1>1, <2>1, <3>1, <3>3
  <2>4. CASE counter = COLS - 1
    <3>1. counter + 1 = COLS /\ counter < COLS /\ ~(counter' < COLS)
      BY <1>1, <2>4
    <3>2. screen' = Put(screen, NL)
      BY <1>1, <2>2, <3>1
    <3>3. LineDone(screen', b)
      BY <1>1, <2>2, <2>4, <3>1, <3>2, NewlineStep
    <3>4. LineDone(screen', call'.before)
      BY <1>1, <2>1, <3>3
    <3> QED BY <3>1, <3>4
  <2>5. CASE counter >= COLS
    BY <1>1, <2>5
  <2> QED BY <1>1, <2>3, <2>4, <2>5
<1>4. Padding'
  <2>1. SUFFICES ASSUME call.fn = "padded" PROVE Padding'
    BY <1>1 DEF Padding
  <2>2. /\ call'.len \in MessageLens /\ call'.before \in Screen
        /\ \A k \in 1..(COLS - 1) : string'[k] = Digit
        /\ string'[COLS] = NL
    BY <1>1, <2>1 DEF IInv, Padding
  <2>3. call'.before.cursor_x = 0 =>
             /\ counter' < COLS =>
                   /\ screen'.video_memory = Dotted(call'.before, counter')
                   /\ screen'.cursor_x = counter'
                   /\ screen'.cursor_y = call'.before.cursor_y
             /\ counter' = COLS => LineDone(screen', call'.before)
    BY <1>1, <1>3, <2>1
  <2> QED BY <2>2, <2>3, PaddingNext
<1> QED BY <1>2, <1>4 DEF IInv

LEMMA StepIInv == IInv /\ [Next]_vars => IInv'
<1> SUFFICES ASSUME IInv, [Next]_vars PROVE IInv'
  OBVIOUS
<1>0. screen \in Screen /\ BlankUnder(screen)
  BY TypeScreen DEF IInv
<1>1. CASE monitor_clear
  <2>1. screen' = [video_memory |-> [k \in Cells |-> BLANK],
                   cursor_x |-> 0, cursor_y |-> 0, vga |-> 0]
    <3>1. 0 * COLS + 0 = 0
      BY Constants
    <3> QED BY <1>1, <3>1 DEF monitor_clear, move_cursor
  <2>2. screen' \in Screen /\ BlankUnder(screen') /\ CursorShown'
    BY <2>1, ClearScreen DEF CursorShown
  <2>3. counter' \in Nat /\ call'.fn # "padded"
    BY <1>1 DEF monitor_clear, None
  <2> QED BY <2>2, <2>3 DEF IInv, TypeOK, Screen, BlankUnder, Padding
<1>2. CASE monitor_write
  BY <1>2, LoopIInv
<1>3. ASSUME NEW ch, monitor_put(ch) PROVE IInv'
  <2>1. screen' = Put(screen, ch) /\ counter' \in Nat /\ call'.fn # "padded"
    BY <1>3 DEF monitor_put, None
  <2>2. screen' \in Screen /\ BlankUnder(screen)' /\ CursorShown'
    BY <1>0, <2>1, PutIInv
  <2> QED BY <2>1, <2>2 DEF IInv, TypeOK, Screen, Padding
<1>4. ASSUME NEW n, monitor_write_dec(n) PROVE IInv'
  BY <1>4, StartIInv DEF monitor_write_dec
<1>5. ASSUME NEW n, monitor_write_hex(n) PROVE IInv'
  BY <1>5, StartIInv DEF monitor_write_hex
<1>6. ASSUME NEW len \in MessageLens, NEW g \in Garbage, monitor_write_padded(len, g)
      PROVE  IInv'
  <2> DEFINE str == buff(len) \o g
             cl  == [fn |-> "padded", len |-> len, before |-> screen]
  <2>1. /\ buff(len) \in Seq(Char) /\ Len(buff(len)) = COLS
        /\ \A k \in 1..(COLS - 1) : buff(len)[k] = Digit
        /\ buff(len)[COLS] = NL
    BY BufferLength
  <2>2. g \in Seq(Char)
    <3>1. Digit \in Char /\ NL \in Char
      BY DigitIsGlyph DEF Char
    <3>2. <<>> \in Seq(Char) /\ <<Digit>> \in Seq(Char) /\ <<NL>> \in Seq(Char)
      BY <3>1
    <3> QED BY <3>2 DEF Garbage
  <2>3. (\A k \in 1..(COLS - 1) : str[k] = Digit) /\ str[COLS] = NL
    BY <2>1, <2>2, Constants
  <2>4. Start(str, cl)
    BY <1>6 DEF monitor_write_padded
  <2>5. cl.len \in MessageLens /\ cl.before = screen
    OBVIOUS
  <2> HIDE DEF str, cl
  <2> QED BY <2>3, <2>4, <2>5, StartIInv
<1>7. CASE UNCHANGED vars
  <2>1. screen' = screen /\ string' = string /\ counter' = counter /\ call' = call
    BY <1>7 DEF vars
  <2>2. TypeOK' /\ BlankUnder(screen)' /\ CursorShown'
    BY <2>1 DEF IInv, TypeOK, BlankUnder, CursorShown
  <2>3. CASE call.fn = "padded"
    <3>1. /\ call'.len \in MessageLens /\ call'.before \in Screen
          /\ \A k \in 1..(COLS - 1) : string'[k] = Digit
          /\ string'[COLS] = NL
      BY <2>1, <2>3 DEF IInv, Padding
    <3>2. call'.before.cursor_x = 0 =>
             /\ counter' < COLS =>
                   /\ screen'.video_memory = Dotted(call'.before, counter')
                   /\ screen'.cursor_x = counter'
                   /\ screen'.cursor_y = call'.before.cursor_y
             /\ counter' = COLS => LineDone(screen', call'.before)
      BY <2>1, <2>3 DEF IInv, Padding
    <3>3. Padding'
      BY <3>1, <3>2, PaddingNext
    <3> QED BY <2>2, <3>3 DEF IInv
  <2>4. CASE call.fn # "padded"
    BY <2>1, <2>2, <2>4 DEF IInv, Padding
  <2> QED BY <2>3, <2>4
<1> QED BY <1>1, <1>2, <1>3, <1>4, <1>5, <1>6, <1>7 DEF Next

(* Whatever is written, by characters, numbers or status messages, and     *)
(* however often the screen scrolls, no store of monitor_put is outside    *)
(* the framebuffer and the cursor it leaves is on the screen.              *)
THEOREM MonitorTypes == Spec => []TypeOK
<1>1. IInv => TypeOK
  BY DEF IInv
<1> QED BY <1>1, InitIInv, StepIInv, PTL DEF Spec

(* A status message of monitor_write_padded begun at the left edge takes   *)
(* exactly its own line.                                                   *)
THEOREM StatusTakesOneLine == Spec => []PaddedLine
<1>1. IInv => PaddedLine
  BY BufferLength, Constants DEF IInv, Padding, PaddedLine, LineDone
<1> QED BY <1>1, InitIInv, StepIInv, PTL DEF Spec

LEMMA StepRefines ==
    IInv /\ [Next]_vars => [Glass!Next]_Glass!vars
<1> SUFFICES ASSUME IInv, [Next]_vars PROVE Glass!Next \/ UNCHANGED Glass!vars
  BY DEF Glass!vars
<1>0. screen \in Screen /\ BlankUnder(screen) /\ CursorShown
  BY TypeScreen DEF IInv
<1>1. CASE monitor_clear
  <2>1. screen' = [video_memory |-> [k \in Cells |-> BLANK],
                   cursor_x |-> 0, cursor_y |-> 0, vga |-> 0]
    <3>1. 0 * COLS + 0 = 0
      BY Constants
    <3> QED BY <1>1, <3>1 DEF monitor_clear, move_cursor
  <2>2. Text' = <<Glass!BlankLine>>
    BY <2>1, BlankText DEF Text
  <2> QED BY <2>1, <2>2, TextMapped DEF Glass!Next, Glass!Clear
<1>2. ASSUME NEW ch, screen' = Put(screen, ch)
      PROVE  Glass!Next \/ UNCHANGED Glass!vars
  BY <1>0, <1>2, WriteRefines
<1>3. CASE screen' = screen
  BY <1>3 DEF Glass!vars, Line
<1>4. screen' = screen \/ monitor_clear \/ \E ch : screen' = Put(screen, ch)
  BY DEF Next, vars, monitor_write, monitor_put, monitor_write_dec, monitor_write_hex,
         monitor_write_padded, Start
<1> QED BY <1>1, <1>2, <1>3, <1>4

(* The driver, with its line breaks, tab stops, scrolling and hardware     *)
(* cursor, implements the terminal of module Terminal.                     *)
THEOREM DriverImplementsTerminal == Spec => ImplementsTerminal
<1>1. Init => Glass!Init
  <2> SUFFICES ASSUME Init PROVE Glass!Init
    OBVIOUS
  <2>1. screen = [video_memory |-> [k \in Cells |-> BLANK],
                  cursor_x |-> 0, cursor_y |-> 0, vga |-> 0]
    BY DEF Init
  <2>2. Text = <<Glass!BlankLine>>
    BY <2>1, BlankText DEF Text
  <2> QED BY <2>1, <2>2, TextMapped DEF Glass!Init
<1> QED BY <1>1, InitIInv, StepIInv, StepRefines, PTL DEF Spec, ImplementsTerminal, Glass!Spec

-----------------------------------------------------------------------------
(* The digits of a number.                                                 *)

LEMMA LeastNat ==
    ASSUME NEW S, S \subseteq Nat, S # {}
    PROVE  \E x \in S : \A y \in S : x <= y
<1>1. IsWellFoundedOn(OpToRel(<, Nat), Nat)
  BY NatLessThanWellFounded
<1>2. PICK x \in S : \A y \in S : ~ (<<y, x>> \in OpToRel(<, Nat))
  BY <1>1, WFMin
<1>3. ASSUME NEW y \in S PROVE x <= y
  <2>1. <<y, x>> \in Nat \X Nat /\ x \in Nat /\ y \in Nat
    OBVIOUS
  <2>2. ~(<<y, x>>[1] < <<y, x>>[2])
    BY <1>2, <2>1, Zenon DEF OpToRel
  <2> QED BY <2>1, <2>2
<1> QED BY <1>3

(* Induction, over a set in place of a predicate.                           *)
LEMMA Induction ==
    ASSUME NEW S, 0 \in S, \A n \in Nat : n \in S => n + 1 \in S
    PROVE  Nat \subseteq S
<1> SUFFICES ASSUME Nat \ S # {} PROVE FALSE
  OBVIOUS
<1>1. PICK x \in Nat \ S : \A y \in Nat \ S : x <= y
  BY LeastNat
<1>2. x # 0 /\ x - 1 \in Nat /\ x - 1 < x /\ (x - 1) + 1 = x
  BY <1>1
<1>3. x - 1 \in S
  BY <1>1, <1>2
<1> QED BY <1>1, <1>2, <1>3

LEMMA Bases ==
    /\ BASE \in Nat /\ BASE > 1 /\ HEX \in Nat /\ HEX > 1 /\ HEX > 0
    /\ NIBBLES \in Nat /\ NIBBLES > 0
    /\ U32 % 2 = 0
    /\ DecNumbers \subseteq 0..(U32 - 1) /\ HexNumbers \subseteq 0..(U32 - 1)
BY MonitorAssumption

LEMMA DivMod ==
    ASSUME NEW x \in Nat, NEW m \in Nat, m > 0
    PROVE  /\ x \div m \in Nat /\ x % m \in 0..(m - 1)
           /\ x = (x \div m) * m + (x % m)
OBVIOUS

LEMMA DivUnique ==
    ASSUME NEW x \in Nat, NEW m \in Nat, m > 0, NEW q \in Nat, NEW r \in Nat, r < m,
           x = q * m + r
    PROVE  x \div m = q
OBVIOUS

LEMMA AddThree ==
    ASSUME NEW a \in Nat, NEW b \in Nat, NEW e \in Nat
    PROVE  (a + b) + e = a + (b + e)
OBVIOUS

(* Dividing by h * p is dividing by p and then by h.                       *)
LEMMA NestedDivision ==
    ASSUME NEW x \in Nat, NEW p \in Nat, p > 0, NEW h \in Nat, h > 0
    PROVE  /\ h * p \in Nat /\ h * p > 0
           /\ x \div (h * p) = (x \div p) \div h
           /\ x \div p = (x \div (h * p)) * h + ((x \div p) % h)
<1> DEFINE q == x \div p
           r == x % p
           s == q \div h
           t == q % h
<1>1. q \in Nat /\ r \in Nat /\ r < p /\ x = q * p + r
  BY DivMod
<1>2. s \in Nat /\ t \in Nat /\ t < h /\ q = s * h + t
  BY <1>1, DivMod
<1>3. h * p \in Nat /\ h * p > 0
  OBVIOUS
<1> HIDE DEF q, r, s, t
<1>4. x = s * (h * p) + (t * p + r)
  <2>1. q * p = s * (h * p) + t * p
    <3>1. (s * h + t) * p = (s * h) * p + t * p
      BY <1>2
    <3>2. (s * h) * p = s * (h * p)
      BY <1>2
    <3> QED BY <1>2, <3>1, <3>2
  <2>2. s * (h * p) \in Nat /\ t * p \in Nat
    BY <1>2, <1>3
  <2>3. PICK a \in Nat, b \in Nat : a = s * (h * p) /\ b = t * p
    BY <2>2
  <2>4. x = (a + b) + r
    BY <1>1, <2>1, <2>3, Zenon
  <2>5. (a + b) + r = a + (b + r)
    <3>1. r \in Nat
      BY <1>1
    <3> QED BY <3>1, AddThree
  <2> QED BY <2>3, <2>4, <2>5, Zenon
<1>5. t * p + r \in Nat /\ t * p + r < h * p
  <2>1. t + 1 <= h /\ t * p \in Nat /\ (t + 1) * p = t * p + p
    BY <1>2
  <2>2. (t + 1) * p <= h * p
    BY <1>2, <2>1
  <2> QED BY <1>1, <1>3, <2>1, <2>2
<1>6. x \div (h * p) = s
  BY <1>2, <1>3, <1>4, <1>5, DivUnique
<1> QED BY <1>2, <1>3, <1>6 DEF q, s, t

(* One more nibble of x: the quotient before it, and its digit.             *)
LEMMA HexStep ==
    ASSUME NEW x \in Nat, NEW p \in Nat, p > 0
    PROVE  x \div p = (x \div (HEX * p)) * HEX + ((x \div p) % HEX)
<1>1. HEX \in Nat /\ HEX > 0
  BY Bases
<1> QED BY <1>1, NestedDivision, Zenon

(* A division of acc by BASE comes down.                                    *)
LEMMA Smaller ==
    ASSUME NEW x \in Nat, x > 0
    PROVE  x \div BASE \in Nat /\ x \div BASE < x
<1>1. PICK b \in Nat : b = BASE /\ b > 1
  BY Bases
<1>2. PICK q \in Nat, r \in Nat : q = x \div b /\ x = q * b + r
  BY <1>1, DivMod
<1>3. q < x
  <2>1. SUFFICES ASSUME q >= x PROVE FALSE
    BY <1>2
  <2>2. q * b >= q * 2 /\ q > 0
    BY <1>1, <1>2, <2>1
  <2> QED BY <1>2, <2>1, <2>2
<1> QED BY <1>1, <1>2, <1>3

(* pow and c have solutions, and so mean what they say.                    *)
LEMMA PowUnfolds ==
    pow = [k \in 0..NIBBLES |-> IF k = 0 THEN 1 ELSE HEX * pow[k - 1]]
<1> DEFINE Step(n, f) == [k \in 0..n |-> IF k = 0 THEN 1 ELSE HEX * f[k - 1]]
           S == {n \in Nat : \E f : f = Step(n, f)}
<1>1. 0 \in S
  <2>1. [k \in 0..0 |-> 1] = Step(0, [k \in 0..0 |-> 1])
    OBVIOUS
  <2> QED BY <2>1
<1>2. ASSUME NEW n \in Nat, n \in S PROVE n + 1 \in S
  <2>1. PICK f : f = Step(n, f)
    BY <1>2
  <2> DEFINE g == Step(n + 1, f)
  <2>2. \A k \in 0..n : g[k] = f[k]
    <3>1. \A k \in 0..n : f[k] = Step(n, f)[k]
      BY <2>1, Zenon
    <3>2. \A k \in 0..n : g[k] = Step(n, f)[k]
      OBVIOUS
    <3> QED BY <3>1, <3>2
  <2>3. \A k \in 0..(n + 1) : k # 0 => g[k - 1] = f[k - 1]
    <3> HIDE DEF g
    <3> QED BY <2>2
  <2>4. \A k \in 0..(n + 1) : g[k] = Step(n + 1, g)[k]
    <3> SUFFICES ASSUME NEW k \in 0..(n + 1) PROVE g[k] = Step(n + 1, g)[k]
      OBVIOUS
    <3>1. g[k] = IF k = 0 THEN 1 ELSE HEX * f[k - 1]
      OBVIOUS
    <3> HIDE DEF g
    <3>2. Step(n + 1, g)[k] = IF k = 0 THEN 1 ELSE HEX * g[k - 1]
      OBVIOUS
    <3> QED BY <2>3, <3>1, <3>2
  <2>5. g = Step(n + 1, g)
    BY <2>4
  <2>6. n + 1 \in Nat /\ \E h : h = Step(n + 1, h)
    <3> HIDE DEF g, Step
    <3> QED BY <2>5
  <2> HIDE DEF Step
  <2> QED BY <2>6
<1> HIDE DEF S
<1>3. NIBBLES \in S
  BY <1>1, <1>2, Induction, Bases
<1>4. \E f : f = Step(NIBBLES, f)
  BY <1>3 DEF S
<1>5. pow = CHOOSE f : f = Step(NIBBLES, f)
  BY Zenon DEF pow
<1> HIDE DEF Step
<1>6. pow = Step(NIBBLES, pow)
  BY <1>4, <1>5, Zenon
<1> QED BY <1>6 DEF Step

LEMMA Powers ==
    /\ pow[0] = 1
    /\ \A k \in 0..NIBBLES : pow[k] \in Nat /\ pow[k] > 0
    /\ \A k \in 0..(NIBBLES - 1) : pow[k + 1] = HEX * pow[k]
<1> USE Bases
<1>1. pow[0] = 1
  <2>1. 0 \in 0..NIBBLES
    OBVIOUS
  <2>2. pow[0] = IF 0 = 0 THEN 1 ELSE HEX * pow[0 - 1]
    BY <2>1, PowUnfolds
  <2> QED BY <2>2
<1>2. \A k \in 0..(NIBBLES - 1) : pow[k + 1] = HEX * pow[k]
  <2> SUFFICES ASSUME NEW k \in 0..(NIBBLES - 1) PROVE pow[k + 1] = HEX * pow[k]
    OBVIOUS
  <2>1. k + 1 \in 0..NIBBLES /\ k + 1 # 0 /\ (k + 1) - 1 = k
    OBVIOUS
  <2>2. pow[k + 1] = IF k + 1 = 0 THEN 1 ELSE HEX * pow[(k + 1) - 1]
    BY <2>1, PowUnfolds
  <2> QED BY <2>1, <2>2
<1> DEFINE S == {k \in Nat : k <= NIBBLES => pow[k] \in Nat /\ pow[k] > 0}
<1>3. 0 \in S
  BY <1>1
<1>4. ASSUME NEW k \in Nat, k \in S PROVE k + 1 \in S
  <2>1. ASSUME k + 1 <= NIBBLES PROVE pow[k + 1] \in Nat /\ pow[k + 1] > 0
    <3>1. k \in 0..(NIBBLES - 1) /\ pow[k] \in Nat /\ pow[k] > 0
      BY <1>4, <2>1
    <3>2. pow[k + 1] = HEX * pow[k]
      BY <1>2, <3>1
    <3>3. HEX * pow[k] \in Nat /\ HEX * pow[k] > 0
      BY <3>1
    <3> QED BY <3>2, <3>3
  <2> QED BY <2>1
<1> HIDE DEF S
<1>5. Nat \subseteq S
  BY <1>3, <1>4, Induction
<1>6. \A k \in 0..NIBBLES : pow[k] \in Nat /\ pow[k] > 0
  BY <1>5 DEF S
<1> QED BY <1>1, <1>2, <1>6

LEMMA Words ==
    /\ U32 \in Nat /\ U32 > 1
    /\ U32 \div 2 \in Nat /\ U32 \div 2 > 0 /\ U32 = 2 * (U32 \div 2)
<1>1. U32 \in Nat /\ U32 > 0 /\ U32 % 2 = 0
  BY Powers, Bases DEF U32
<1> QED BY <1>1

(* A function that counts as Value does, counts to Value.                  *)
LEMMA ValueIs ==
    ASSUME NEW digits, Len(digits) \in Nat, NEW base, NEW f, f[0] = 0,
           \A k \in 1..Len(digits) : f[k] = f[k - 1] * base + digits[k]
    PROVE  Value(digits, base) = f[Len(digits)]
<1> DEFINE Step(v) == [k \in 0..Len(digits) |->
                         IF k = 0 THEN 0 ELSE v[k - 1] * base + digits[k]]
           g == [k \in 0..Len(digits) |-> f[k]]
<1>1. g = Step(g)
  <2> SUFFICES ASSUME NEW k \in 0..Len(digits) PROVE g[k] = Step(g)[k]
    OBVIOUS
  <2>1. CASE k = 0
    BY <2>1
  <2>2. CASE k # 0
    <3>1. k \in 1..Len(digits) /\ k - 1 \in 0..Len(digits)
      BY <2>2
    <3>2. f[k] = f[k - 1] * base + digits[k]
      BY <3>1
    <3>3. g[k] = f[k] /\ g[k - 1] = f[k - 1]
      BY <3>1
    <3>4. Step(g)[k] = g[k - 1] * base + digits[k]
      <4> HIDE DEF g
      <4> QED BY <2>2
    <3> QED BY <3>2, <3>3, <3>4
  <2> QED BY <2>1, <2>2
<1>2. PICK v : v = Step(v) /\ Value(digits, base) = v[Len(digits)]
  <2>1. Value(digits, base) = (CHOOSE v : v = Step(v))[Len(digits)]
    BY Zenon DEF Value
  <2> HIDE DEF Step, g
  <2>2. (CHOOSE v : v = Step(v)) = Step(CHOOSE v : v = Step(v))
    BY <1>1, Zenon
  <2> QED BY <2>1, <2>2
<1> DEFINE S == {k \in Nat : k <= Len(digits) => v[k] = f[k]}
<1>3. 0 \in S
  <2>1. v[0] = Step(v)[0]
    BY <1>2, Zenon
  <2>2. Step(v)[0] = 0
    OBVIOUS
  <2> QED BY <2>1, <2>2
<1>4. ASSUME NEW k \in Nat, k \in S PROVE k + 1 \in S
  <2>1. ASSUME k + 1 <= Len(digits) PROVE v[k + 1] = f[k + 1]
    <3>1. k + 1 \in 1..Len(digits) /\ (k + 1) - 1 = k /\ k + 1 # 0 /\ v[k] = f[k]
      BY <1>4, <2>1
    <3>2. v[k + 1] = Step(v)[k + 1]
      BY <1>2, Zenon
    <3>3. Step(v)[k + 1] = v[(k + 1) - 1] * base + digits[k + 1]
      BY <3>1
    <3>4. f[k + 1] = f[(k + 1) - 1] * base + digits[k + 1]
      BY <3>1
    <3> QED BY <3>1, <3>2, <3>3, <3>4
  <2> QED BY <2>1
<1> HIDE DEF S
<1>5. Len(digits) \in S
  BY <1>3, <1>4, Induction
<1> QED BY <1>2, <1>5 DEF S

(* The highest nibble that is not zero.                                    *)
LEMMA Greatest ==
    ASSUME NEW S, S \subseteq Nat, S # {}, NEW b \in Nat, \A y \in S : y <= b
    PROVE  Max(S) \in S /\ \A y \in S : y <= Max(S)
<1> DEFINE U == {u \in Nat : \A y \in S : y <= u}
<1>1. b \in U
  OBVIOUS
<1>2. PICK u \in U : \A w \in U : u <= w
  BY <1>1, LeastNat
<1>3. u \in S
  <2> SUFFICES ASSUME u \notin S PROVE FALSE
    OBVIOUS
  <2>1. \A y \in S : y < u
    BY <1>2
  <2>2. u # 0 /\ u - 1 \in Nat
    <3>1. PICK y \in S : y \in Nat
      OBVIOUS
    <3> QED BY <1>2, <2>1, <3>1
  <2>3. \A y \in S : y <= u - 1
    BY <1>2, <2>1, <2>2
  <2>4. u - 1 \in U
    BY <2>2, <2>3
  <2> QED BY <1>2, <2>2, <2>4
<1>4. u \in S /\ \A y \in S : u >= y
  BY <1>2, <1>3
<1>5. \E x \in S : \A y \in S : x >= y
  BY <1>4
<1>6. Max(S) \in S /\ \A y \in S : Max(S) >= y
  BY <1>5, Zenon DEF Max
<1> QED BY <1>6

(* If the nibbles above k are zero, n is below what the next one counts.   *)
LEMMA ZeroNibbles ==
    ASSUME NEW n \in Nat, n < U32, NEW top \in 0..(NIBBLES - 1),
           \A k \in 1..(NIBBLES - 1) : k > top => nibble(n, k) = 0
    PROVE  n < pow[top + 1]
<1> USE Bases
<1> DEFINE S == {j \in Nat : j <= NIBBLES - (top + 1) => n < pow[NIBBLES - j]}
<1>1. 0 \in S
  BY DEF U32
<1>2. ASSUME NEW j \in Nat, j \in S PROVE j + 1 \in S
  <2>1. ASSUME j + 1 <= NIBBLES - (top + 1) PROVE n < pow[NIBBLES - (j + 1)]
    <3>1. PICK k \in Nat : k = NIBBLES - (j + 1)
      BY <2>1
    <3>2. k \in 1..(NIBBLES - 1) /\ k > top /\ k + 1 = NIBBLES - j /\ k \in 0..NIBBLES
          /\ k \in 0..(NIBBLES - 1)
      BY <2>1, <3>1
    <3>3. n < pow[k + 1]
      BY <1>2, <2>1, <3>2
    <3>4. PICK p \in Nat : p = pow[k] /\ p > 0
      BY <3>2, Powers
    <3>5. pow[k + 1] = HEX * p
      BY <3>2, <3>4, Powers
    <3>6. (n \div p) % HEX = 0
      BY <3>2, <3>4 DEF nibble
    <3>7. n \div (HEX * p) = 0
      <4>1. HEX * p \in Nat /\ HEX * p > 0 /\ n = 0 * (HEX * p) + n /\ n < HEX * p
        BY <3>3, <3>4, <3>5
      <4> QED BY <4>1, DivUnique
    <3>8. n \div p = 0
      <4>1. n \div p = (n \div (HEX * p)) * HEX + ((n \div p) % HEX)
        BY <3>4, HexStep, Zenon
      <4>2. n \div p = 0 * HEX + 0
        BY <3>6, <3>7, <4>1, Zenon
      <4> QED BY <4>2
    <3>9. n < p
      <4>1. n = (n \div p) * p + (n % p) /\ n % p \in 0..(p - 1)
        BY <3>4, DivMod
      <4> QED BY <3>4, <3>8, <4>1
    <3> QED BY <3>1, <3>4, <3>9
  <2> QED BY <2>1
<1> HIDE DEF S
<1>3. NIBBLES - (top + 1) \in S
  <2>1. NIBBLES - (top + 1) \in Nat
    OBVIOUS
  <2> QED BY <1>1, <1>2, <2>1, Induction
<1>4. NIBBLES - (NIBBLES - (top + 1)) = top + 1 /\ NIBBLES - (top + 1) <= NIBBLES - (top + 1)
  OBVIOUS
<1> QED BY <1>3, <1>4 DEF S

(* What is shown of a number: digits of the base that denote it, none of   *)
(* them a leading zero.                                                    *)
Denotes(digits, base, n) ==
    /\ digits \in Seq(0..(base - 1))
    /\ Value(digits, base) = n
    /\ digits # <<>>
    /\ digits[1] = 0 => Len(digits) = 1

(* monitor_write_hex writes digits that denote n.                           *)
LEMMA HexShown ==
    ASSUME NEW n \in 0..(U32 - 1)
    PROVE  Denotes(HexDigits(n), HEX, n)
<1> USE Bases, Words
<1> DEFINE K   == {0} \cup {k \in 1..(NIBBLES - 1) : nibble(n, k) # 0}
           top == Max(K)
           d   == [k \in 1..(top + 1) |-> nibble(n, top + 1 - k)]
           f   == [k \in 0..(top + 1) |-> n \div pow[top + 1 - k]]
<1>1. /\ top \in K /\ (\A k \in K : k <= top)
      /\ top \in 0..(NIBBLES - 1)
  <2>1. K \subseteq Nat /\ K # {} /\ (\A y \in K : y <= NIBBLES - 1) /\ NIBBLES - 1 \in Nat
    OBVIOUS
  <2> HIDE DEF K
  <2>2. top \in K /\ (\A k \in K : k <= top)
    BY <2>1, Greatest
  <2> HIDE DEF top
  <2> QED BY <2>1, <2>2
<1>2. HexDigits(n) = d
  BY DEF HexDigits
<1>3. \A k \in 1..(NIBBLES - 1) : k > top => nibble(n, k) = 0
  <2> SUFFICES ASSUME NEW k \in 1..(NIBBLES - 1), nibble(n, k) # 0 PROVE ~(k > top)
    OBVIOUS
  <2>1. k \in K
    OBVIOUS
  <2> HIDE DEF K, top
  <2> QED BY <1>1, <2>1
<1>4. nibble(n, top) = 0 => top = 0
  BY <1>1
<1> HIDE DEF K, top
<1>5. n \in Nat /\ n < U32
  OBVIOUS
<1>6. \A k \in 0..NIBBLES : nibble(n, k) \in 0..(HEX - 1)
  <2> SUFFICES ASSUME NEW k \in 0..NIBBLES PROVE nibble(n, k) \in 0..(HEX - 1)
    OBVIOUS
  <2>1. n \div pow[k] \in Nat
    BY <1>5, Powers, DivMod
  <2>2. (n \div pow[k]) % HEX \in 0..(HEX - 1)
    BY <2>1, DivMod
  <2> QED BY <2>2 DEF nibble
<1>7. d \in Seq(0..(HEX - 1)) /\ Len(d) = top + 1 /\ d[1] = nibble(n, top)
  <2>1. \A k \in 1..(top + 1) : top + 1 - k \in 0..NIBBLES
    BY <1>1
  <2>2. \A k \in 1..(top + 1) : nibble(n, top + 1 - k) \in 0..(HEX - 1)
    BY <1>6, <2>1
  <2>3. top + 1 \in Nat /\ 1 \in 1..(top + 1) /\ top + 1 - 1 = top
    BY <1>1
  <2>4. d[1] = nibble(n, top + 1 - 1)
    BY <2>3
  <2> QED BY <2>2, <2>3, <2>4
<1>8. f[0] = 0
  <2>1. top + 1 \in 0..NIBBLES /\ 0 \in 0..(top + 1) /\ top + 1 - 0 = top + 1
    BY <1>1
  <2>2. PICK p \in Nat : p = pow[top + 1] /\ p > 0 /\ n < p
    BY <1>1, <1>3, <1>5, <2>1, Powers, ZeroNibbles
  <2>3. n = 0 * p + n
    BY <1>5, <2>2
  <2>4. n \div p = 0
    BY <1>5, <2>2, <2>3, DivUnique
  <2> QED BY <2>1, <2>2, <2>4
<1>9. ASSUME NEW k \in 1..(top + 1) PROVE f[k] = f[k - 1] * HEX + d[k]
  <2>1. PICK m \in Nat : m = top + 1 - k
    BY <1>1
  <2>2. m \in 0..(NIBBLES - 1) /\ m \in 0..NIBBLES /\ top + 1 - (k - 1) = m + 1
        /\ k \in 0..(top + 1) /\ k - 1 \in 0..(top + 1)
    BY <1>1, <2>1
  <2>3. PICK p \in Nat : p = pow[m] /\ p > 0 /\ pow[m + 1] = HEX * p
    BY <2>2, Powers
  <2>4. f[k] = n \div p /\ f[k - 1] = n \div (HEX * p) /\ d[k] = (n \div p) % HEX
    BY <2>1, <2>2, <2>3 DEF nibble
  <2>5. n \div p = (n \div (HEX * p)) * HEX + ((n \div p) % HEX)
    BY <1>5, <2>3, HexStep, Zenon
  <2> QED BY <2>4, <2>5, Zenon
<1>10. f[top + 1] = n
  <2>1. top + 1 \in 0..(top + 1) /\ top + 1 - (top + 1) = 0
    BY <1>1
  <2>2. n \div 1 = n
    BY <1>5
  <2> QED BY <2>1, <2>2, Powers
<1> HIDE DEF d, f
<1>11. Value(d, HEX) = n
  <2>1. \A k \in 1..Len(d) : f[k] = f[k - 1] * HEX + d[k]
    BY <1>7, <1>9
  <2>2. Len(d) \in Nat
    BY <1>1, <1>7
  <2>3. Value(d, HEX) = f[Len(d)]
    BY <1>8, <2>1, <2>2, ValueIs
  <2> QED BY <1>7, <1>10, <2>3
<1>12. d # <<>> /\ (d[1] = 0 => Len(d) = 1)
  BY <1>1, <1>4, <1>7
<1> QED BY <1>2, <1>7, <1>11, <1>12 DEF Denotes

-----------------------------------------------------------------------------
Half == U32 \div 2

(* The definition of c, as an equation.                                     *)
LEMMA DecUnfolds ==
    c = [acc \in -Half..(Half - 1) |->
            IF acc > 0 THEN <<acc % BASE>> \o c[acc \div BASE] ELSE <<>>]
<1> DEFINE Step(n, f) == [acc \in -Half..n |->
                            IF acc > 0 THEN <<acc % BASE>> \o f[acc \div BASE] ELSE <<>>]
           S == {n \in Nat : \E f : f = Step(n, f)}
<1>0. Half \in Nat /\ Half > 0 /\ Half - 1 \in Nat
  BY Words DEF Half
<1> HIDE DEF Half
<1>1. 0 \in S
  <2>1. [acc \in -Half..0 |-> <<>>] = Step(0, [acc \in -Half..0 |-> <<>>])
    BY <1>0
  <2> QED BY <2>1
<1>2. ASSUME NEW n \in Nat, n \in S PROVE n + 1 \in S
  <2>1. PICK f : f = Step(n, f)
    BY <1>2
  <2> DEFINE g == Step(n + 1, f)
  <2>2. \A k \in -Half..n : g[k] = f[k]
    <3>1. \A k \in -Half..n : f[k] = Step(n, f)[k]
      BY <2>1, Zenon
    <3>2. \A k \in -Half..n : g[k] = Step(n, f)[k]
      BY <1>0
    <3> QED BY <3>1, <3>2
  <2>3. \A k \in -Half..(n + 1) : k > 0 => g[k \div BASE] = f[k \div BASE]
    <3> HIDE DEF g
    <3> SUFFICES ASSUME NEW k \in -Half..(n + 1), k > 0 PROVE k \div BASE \in -Half..n
      BY <2>2
    <3>1. k \in Nat
      BY <1>0
    <3>2. k \div BASE \in Nat /\ k \div BASE < k
      BY <3>1, Smaller
    <3> QED BY <1>0, <3>1, <3>2
  <2>4. \A k \in -Half..(n + 1) : g[k] = Step(n + 1, g)[k]
    <3> SUFFICES ASSUME NEW k \in -Half..(n + 1) PROVE g[k] = Step(n + 1, g)[k]
      OBVIOUS
    <3>1. g[k] = IF k > 0 THEN <<k % BASE>> \o f[k \div BASE] ELSE <<>>
      OBVIOUS
    <3> HIDE DEF g
    <3>2. Step(n + 1, g)[k] = IF k > 0 THEN <<k % BASE>> \o g[k \div BASE] ELSE <<>>
      OBVIOUS
    <3> QED BY <2>3, <3>1, <3>2
  <2>5. g = Step(n + 1, g)
    BY <2>4
  <2>6. n + 1 \in Nat /\ \E h : h = Step(n + 1, h)
    <3> HIDE DEF g, Step
    <3> QED BY <2>5
  <2> HIDE DEF Step
  <2> QED BY <2>6
<1> HIDE DEF S
<1>3. Half - 1 \in S
  BY <1>0, <1>1, <1>2, Induction
<1>4. \E f : f = Step(Half - 1, f)
  BY <1>3 DEF S
<1>5. c = CHOOSE f : f = Step(Half - 1, f)
  BY Zenon DEF c, Half
<1> HIDE DEF Step
<1>6. c = Step(Half - 1, c)
  BY <1>4, <1>5, Zenon
<1> QED BY <1>6 DEF Step

(* The digits of acc, reversed, and a function that counts them up.        *)
Counts(s, f, acc) ==
    /\ s \in Seq(0..(BASE - 1))
    /\ f[0] = 0 /\ f[Len(s)] = acc
    /\ \A k \in 1..Len(s) : f[k] = f[k - 1] * BASE + s[k]
    /\ IF acc = 0 THEN s = <<>> ELSE s # <<>> /\ s[1] # 0

(* One more digit at the right.                                            *)
LEMMA CountOne ==
    ASSUME NEW acc \in Nat, acc > 0, NEW s, NEW f, Counts(s, f, acc \div BASE),
           NEW w, w = Append(s, acc % BASE)
    PROVE  \E g : Counts(w, g, acc)
<1> USE Bases
<1>1. /\ acc \div BASE \in Nat /\ acc % BASE \in 0..(BASE - 1)
      /\ acc = (acc \div BASE) * BASE + (acc % BASE)
  BY DivMod
<1>2. s \in Seq(0..(BASE - 1)) /\ Len(s) \in Nat
  BY DEF Counts
<1> DEFINE g == [k \in 0..(Len(s) + 1) |-> IF k <= Len(s) THEN f[k] ELSE acc]
<1>3. /\ w \in Seq(0..(BASE - 1)) /\ Len(w) = Len(s) + 1 /\ w[Len(s) + 1] = acc % BASE
      /\ \A k \in 1..Len(s) : w[k] = s[k]
  BY <1>1, <1>2
<1>4. g[0] = 0 /\ g[Len(s)] = acc \div BASE /\ g[Len(s) + 1] = acc
  BY <1>2 DEF Counts
<1>5. ASSUME NEW k \in 1..Len(w) PROVE g[k] = g[k - 1] * BASE + w[k]
  <2>1. CASE k = Len(s) + 1
    <3>1. k - 1 = Len(s) /\ g[k] = acc /\ g[k - 1] = acc \div BASE /\ w[k] = acc % BASE
      BY <1>2, <1>3, <1>4, <2>1
    <3> QED BY <1>1, <3>1, Zenon
  <2>2. CASE k # Len(s) + 1
    <3>1. k \in 1..Len(s) /\ k - 1 \in 0..Len(s)
      BY <1>2, <1>3, <2>2
    <3>2. g[k] = f[k] /\ g[k - 1] = f[k - 1] /\ w[k] = s[k]
      BY <1>2, <1>3, <3>1
    <3>3. f[k] = f[k - 1] * BASE + s[k]
      BY <3>1 DEF Counts
    <3> QED BY <3>2, <3>3, Zenon
  <2> QED BY <2>1, <2>2
<1> HIDE DEF g
<1>6. w # <<>> /\ w[1] # 0
  <2>1. CASE acc \div BASE > 0
    <3>1. s # <<>> /\ s[1] # 0
      BY <1>1, <2>1 DEF Counts
    <3>2. 1 \in 1..Len(s)
      BY <1>2, <3>1
    <3> QED BY <1>2, <1>3, <3>1, <3>2
  <2>2. CASE ~(acc \div BASE > 0)
    <3>1. acc \div BASE = 0 /\ acc % BASE # 0
      <4>1. acc \div BASE = 0
        BY <1>1, <2>2
      <4>2. acc = 0 * BASE + (acc % BASE)
        BY <1>1, <4>1, Zenon
      <4> QED BY <1>1, <4>1, <4>2
    <3>2. s = <<>> /\ Len(s) = 0
      BY <3>1 DEF Counts
    <3> QED BY <1>3, <3>1, <3>2
  <2> QED BY <2>1, <2>2
<1>7. Counts(w, g, acc)
  BY <1>3, <1>4, <1>5, <1>6 DEF Counts
<1> QED BY <1>7

LEMMA AppendIs ==
    ASSUME NEW T, NEW r \in Seq(T), NEW d \in T, NEW l \in Nat, Len(r) = l
    PROVE  Append(r, d) = [k \in 1..(l + 1) |-> IF k <= l THEN r[k] ELSE d]
<1>1. Append(r, d) \in Seq(T) /\ Len(Append(r, d)) = l + 1
  OBVIOUS
<1>2. Append(r, d) = [k \in 1..(l + 1) |-> Append(r, d)[k]]
  <2>1. Append(r, d) \in [1..(l + 1) -> T]
    BY <1>1, LenProperties
  <2> QED BY <2>1
<1>3. ASSUME NEW k \in 1..(l + 1) PROVE Append(r, d)[k] = IF k <= l THEN r[k] ELSE d
  <2>1. CASE k <= l
    <3>1. k \in 1..Len(r)
      BY <2>1
    <3> QED BY <2>1, <3>1
  <2>2. CASE ~(k <= l)
    <3>1. k = Len(r) + 1
      BY <2>2
    <3> QED BY <2>2, <3>1
  <2> QED BY <2>1, <2>2
<1> QED BY <1>2, <1>3

LEMMA Mirror ==
    ASSUME NEW l \in Nat, NEW k \in 1..l
    PROVE  \E j \in 1..l : j = (l - k) + 1 /\ (l + 1 - k) + 1 = j + 1
<1>1. (l - k) + 1 \in 1..l /\ (l + 1 - k) + 1 = ((l - k) + 1) + 1
  OBVIOUS
<1> QED BY <1>1

(* The digit that comes first is the last one of the reversed string.       *)
LEMMA ReverseFirst ==
    ASSUME NEW T, NEW s \in Seq(T), NEW d \in T
    PROVE  Reverse(<<d>> \o s) = Append(Reverse(s), d)
<1> DEFINE u == <<d>> \o s
<1>1. /\ Len(s) \in Nat /\ u \in Seq(T) /\ Len(u) = Len(s) + 1 /\ u[1] = d
      /\ \A k \in 1..Len(s) : u[k + 1] = s[k]
  <2>1. <<d>> \in Seq(T) /\ Len(<<d>>) = 1 /\ <<d>>[1] = d
    OBVIOUS
  <2>2. \A k \in 1..Len(s) : u[k + 1] = s[k]
    <3> SUFFICES ASSUME NEW k \in 1..Len(s) PROVE u[k + 1] = s[k]
      OBVIOUS
    <3>1. Len(s) \in Nat /\ k + 1 \in 1..(1 + Len(s)) /\ ~(k + 1 <= 1) /\ k + 1 - 1 = k
      OBVIOUS
    <3> QED BY <2>1, <3>1
  <2> QED BY <2>1, <2>2
<1> HIDE DEF u
<1>2. Reverse(s) \in Seq(T) /\ Len(Reverse(s)) = Len(s)
      /\ \A k \in 1..Len(s) : Reverse(s)[k] = s[(Len(s) - k) + 1]
  <2>1. \A k \in 1..Len(s) : s[(Len(s) - k) + 1] \in T
    <3> SUFFICES ASSUME NEW k \in 1..Len(s) PROVE s[(Len(s) - k) + 1] \in T
      OBVIOUS
    <3>1. (Len(s) - k) + 1 \in 1..Len(s)
      BY <1>1
    <3> QED BY <3>1
  <2> QED BY <1>1, <2>1 DEF Reverse
<1>3. Reverse(u) = [k \in 1..(Len(s) + 1) |-> u[(Len(s) + 1 - k) + 1]]
  BY <1>1 DEF Reverse
<1>4. Append(Reverse(s), d) = [k \in 1..(Len(s) + 1) |->
                                 IF k <= Len(s) THEN Reverse(s)[k] ELSE d]
  BY <1>1, <1>2, AppendIs
<1>5. ASSUME NEW k \in 1..(Len(s) + 1)
      PROVE  u[(Len(s) + 1 - k) + 1] = IF k <= Len(s) THEN Reverse(s)[k] ELSE d
  <2>1. CASE k <= Len(s)
    <3>0. k \in 1..Len(s)
      BY <1>1, <2>1
    <3>1. PICK j \in 1..Len(s) : j = (Len(s) - k) + 1 /\ (Len(s) + 1 - k) + 1 = j + 1
      BY <1>1, <3>0, Mirror
    <3> QED BY <1>1, <1>2, <2>1, <3>0, <3>1
  <2>2. CASE ~(k <= Len(s))
    <3>1. (Len(s) + 1 - k) + 1 = 1
      BY <1>1, <2>2
    <3> QED BY <1>1, <2>2, <3>1
  <2> QED BY <2>1, <2>2
<1> QED BY <1>3, <1>4, <1>5 DEF u

(* The digits that monitor_write_dec writes, by induction on acc.           *)
LEMMA DecCounts ==
    ASSUME NEW acc \in Nat, acc < Half
    PROVE  \E f : Counts(Reverse(c[acc]), f, acc)
<1> USE Bases
<1>0. Half \in Nat /\ Half > 0
  BY Words DEF Half
<1> DEFINE Good(x) == c[x] \in Seq(0..(BASE - 1)) /\ \E f : Counts(Reverse(c[x]), f, x)
           S == {n \in Nat : \A x \in 0..n : x < Half => Good(x)}
<1>1. Good(0)
  <2>1. c[0] = <<>>
    <3>1. 0 \in -Half..(Half - 1)
      BY <1>0
    <3>2. c[0] = IF 0 > 0 THEN <<0 % BASE>> \o c[0 \div BASE] ELSE <<>>
      BY <3>1, DecUnfolds
    <3> QED BY <3>2
  <2>2. Reverse(<<>>) = <<>>
    BY DEF Reverse
  <2>3. Counts(<<>>, [k \in {0} |-> 0], 0)
    BY DEF Counts
  <2>4. <<>> \in Seq(0..(BASE - 1))
    OBVIOUS
  <2> QED BY <2>1, <2>2, <2>3, <2>4
<1>2. ASSUME NEW x \in Nat, x > 0, x < Half, Good(x \div BASE) PROVE Good(x)
  <2> DEFINE s == c[x \div BASE]
             d == x % BASE
  <2>1. c[x] = <<d>> \o s
    <3>1. x \in -Half..(Half - 1)
      BY <1>0, <1>2
    <3>2. c[x] = IF x > 0 THEN <<x % BASE>> \o c[x \div BASE] ELSE <<>>
      BY <3>1, DecUnfolds
    <3> QED BY <1>2, <3>2
  <2>2. d \in 0..(BASE - 1)
    BY DivMod
  <2>3. s \in Seq(0..(BASE - 1))
    BY <1>2
  <2>4. PICK f : Counts(Reverse(s), f, x \div BASE)
    BY <1>2
  <2>5. Reverse(<<d>> \o s) = Append(Reverse(s), d)
    <3> HIDE DEF s, d
    <3> QED BY <2>2, <2>3, ReverseFirst
  <2>6. <<d>> \o s \in Seq(0..(BASE - 1))
    <3> HIDE DEF s, d
    <3> QED BY <2>2, <2>3
  <2>7. \E g : Counts(Reverse(<<d>> \o s), g, x)
    <3> HIDE DEF s
    <3> QED BY <1>2, <2>4, <2>5, CountOne
  <2> QED BY <2>1, <2>6, <2>7
<1> HIDE DEF Good
<1>3. 0 \in S
  BY <1>1
<1>4. ASSUME NEW n \in Nat, n \in S PROVE n + 1 \in S
  <2>1. ASSUME n + 1 < Half PROVE Good(n + 1)
    <3>1. n + 1 \in Nat /\ n + 1 > 0
      OBVIOUS
    <3>2. (n + 1) \div BASE \in Nat /\ (n + 1) \div BASE < n + 1
      BY <3>1, Smaller
    <3>3. (n + 1) \div BASE \in 0..n /\ (n + 1) \div BASE < Half
      BY <1>0, <2>1, <3>2
    <3>4. Good((n + 1) \div BASE)
      BY <1>4, <3>3
    <3> QED BY <1>2, <2>1, <3>1, <3>4
  <2>2. \A x \in 0..(n + 1) : x \in 0..n \/ x = n + 1
    OBVIOUS
  <2> QED BY <1>4, <2>1, <2>2
<1> HIDE DEF S
<1>5. acc \in S
  BY <1>3, <1>4, Induction
<1>6. Good(acc)
  BY <1>5 DEF S
<1> QED BY <1>6 DEF Good

(* monitor_write_dec writes digits that denote n, if n fits an s32int.      *)
LEMMA DecShown ==
    ASSUME NEW n \in 0..(U32 - 1), n < U32 \div 2
    PROVE  Denotes(DecDigits(n), BASE, n)
<1> USE Bases
<1>0. /\ Half \in Nat /\ Half > 0 /\ U32 = 2 * Half /\ n \in Nat /\ n < U32
      /\ U32 \div 2 = Half
  BY Words DEF Half
<1>2. CASE n = 0
  <2> DEFINE f == [k \in 0..1 |-> 0]
  <2>1. DecDigits(n) = <<0>>
    BY <1>2 DEF DecDigits
  <2>2. Len(<<0>>) = 1 /\ <<0>>[1] = 0 /\ f[0] = 0 /\ f[1] = 0
    OBVIOUS
  <2>3. \A k \in 1..Len(<<0>>) : f[k] = f[k - 1] * BASE + <<0>>[k]
    <3> SUFFICES ASSUME NEW k \in 1..1 PROVE f[k] = f[k - 1] * BASE + <<0>>[k]
      BY <2>2
    <3>1. k = 1 /\ k - 1 = 0
      OBVIOUS
    <3>2. 0 = 0 * BASE + 0
      OBVIOUS
    <3> QED BY <2>2, <3>1, <3>2
  <2> HIDE DEF f
  <2>4. Value(<<0>>, BASE) = f[Len(<<0>>)]
    BY <2>2, <2>3, ValueIs
  <2>5. <<0>> \in Seq(0..(BASE - 1)) /\ <<0>> # <<>>
    OBVIOUS
  <2>6. Denotes(<<0>>, BASE, 0)
    BY <2>2, <2>4, <2>5 DEF Denotes
  <2> QED BY <1>0, <1>2, <2>1, <2>6
<1>3. CASE n < Half /\ n # 0
  <2>1. s32(n) = n
    BY <1>0, <1>3 DEF s32
  <2> DEFINE d == Reverse(c[n])
  <2>2. DecDigits(n) = d
    BY <1>3, <2>1 DEF DecDigits
  <2>3. PICK f : Counts(d, f, n)
    BY <1>0, <1>3, DecCounts
  <2> HIDE DEF d
  <2>4. /\ d \in Seq(0..(BASE - 1)) /\ f[0] = 0 /\ f[Len(d)] = n
        /\ \A k \in 1..Len(d) : f[k] = f[k - 1] * BASE + d[k]
        /\ d # <<>> /\ d[1] # 0
    BY <1>3, <2>3 DEF Counts
  <2>5. Value(d, BASE) = n
    <3>1. Len(d) \in Nat
      BY <2>4
    <3>2. Value(d, BASE) = f[Len(d)]
      BY <2>4, <3>1, ValueIs
    <3> QED BY <2>4, <3>2
  <2>6. Denotes(d, BASE, n)
    BY <2>4, <2>5 DEF Denotes
  <2> QED BY <1>0, <1>3, <2>2, <2>6
<1> QED BY <1>0, <1>2, <1>3

(* The digits that monitor_write_hex and monitor_write_dec put on the      *)
(* screen denote the number they were given, in any base and for words of  *)
(* any width, a decimal number as long as it fits an s32int.               *)
THEOREM NumbersAreReadable == Spec => []NumberShown
<1>1. Init => NumberShown
  BY DEF Init, None, NumberShown
<1>2. NumberShown /\ [Next]_vars => NumberShown'
  <2> SUFFICES ASSUME NumberShown, [Next]_vars PROVE NumberShown'
    OBVIOUS
  <2>1. CASE call' = call
    BY <2>1 DEF NumberShown
  <2>2. CASE call'.fn \in {"none", "padded"}
    BY <2>2 DEF NumberShown
  <2>3. ASSUME NEW n \in DecNumbers, monitor_write_dec(n) PROVE NumberShown'
    <3>1. call' = [fn |-> "dec", number |-> n, base |-> BASE, digits |-> DecDigits(n)]
      BY <2>3 DEF monitor_write_dec, Start
    <3>2. /\ call'.fn = "dec" /\ call'.number = n /\ call'.base = BASE
          /\ call'.digits = DecDigits(n)
      BY <3>1
    <3>3. n \in 0..(U32 - 1)
      BY Bases
    <3>4. n < U32 \div 2 => Denotes(DecDigits(n), BASE, n)
      BY <3>3, DecShown
    <3> QED BY <3>2, <3>4 DEF NumberShown, Denotes
  <2>4. ASSUME NEW n \in HexNumbers, monitor_write_hex(n) PROVE NumberShown'
    <3>1. call' = [fn |-> "hex", number |-> n, base |-> HEX, digits |-> HexDigits(n)]
      BY <2>4 DEF monitor_write_hex, Start
    <3>2. /\ call'.fn = "hex" /\ call'.number = n /\ call'.base = HEX
          /\ call'.digits = HexDigits(n)
      BY <3>1
    <3>3. n \in 0..(U32 - 1)
      BY Bases
    <3>4. Denotes(HexDigits(n), HEX, n)
      BY <3>3, HexShown
    <3> QED BY <3>2, <3>4 DEF NumberShown, Denotes
  <2>5. \/ call' = call
        \/ call'.fn \in {"none", "padded"}
        \/ \E n \in DecNumbers : monitor_write_dec(n)
        \/ \E n \in HexNumbers : monitor_write_hex(n)
    BY DEF Next, vars, monitor_clear, monitor_write, monitor_put, monitor_write_padded, Start,
           None
  <2> QED BY <2>1, <2>2, <2>3, <2>4, <2>5
<1> QED BY <1>1, <1>2, PTL DEF Spec
=============================================================================
