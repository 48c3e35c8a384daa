--------------------------- MODULE Keyboard_proofs ---------------------------
(***************************************************************************)
(* Proofs about the ring of the keyboard driver, for any size of the ring, *)
(* any keys and control keys.                                              *)
(***************************************************************************)
EXTENDS Keyboard, SequenceTheorems, TLAPS

(* TypeOK alone is not inductive: that the increment keeps start within    *)
(* 0..N, and that the mask brings it back, depends on where the loop is.   *)
IInv == TypeOK /\ IndexInBounds

(* What scancodes looks up, and what an interrupt does to the ring.        *)
LEMMA ScancodesType ==
    ASSUME NEW k \in Keys PROVE scancodes(k) \in Char
BY DEF scancodes, shifted, Char

LEMMA PutCharType ==
    ASSUME TypeOK, NEW ch \in Char, PutChar(ch)
    PROVE  /\ keyboard_buffer' \in [Slot -> Char]
           /\ keyboard_buffer_end' \in Slot
           /\ lapped' \in BOOLEAN
<1> USE SizeAssumption DEF TypeOK, PutChar, ring, Slot, Wrap
<1>1. CASE HasRoom
  <2>1. keyboard_buffer' \in [Slot -> Char]
    BY <1>1 DEF end
  <2>2. keyboard_buffer_end' \in Slot
    BY <1>1 DEF end
  <2>3. lapped' \in BOOLEAN
    BY <1>1 DEF Lapping
  <2> QED BY <2>1, <2>2, <2>3
<1>2. CASE ~HasRoom
  BY <1>2
<1> QED BY <1>1, <1>2

LEMMA InitIInv == Init => IInv
<1> SUFFICES ASSUME Init PROVE IInv
  OBVIOUS
<1>1. NUL \in Char
  BY DEF Char
<1>2. 0 \in Slot
  BY SizeAssumption DEF Slot
<1>3. keyboard_buffer \in [Slot -> Char]
  BY <1>1 DEF Init
<1>4. lapped \in BOOLEAN
  BY DEF Init
<1>5. IndexInBounds
  BY SizeAssumption DEF Init, IndexInBounds, start
<1>6. keyboard_buffer_start \in 0..N
  BY SizeAssumption DEF Init
<1> QED
  BY <1>1, <1>2, <1>3, <1>4, <1>5, <1>6 DEF Init, IInv, TypeOK

LEMMA NextIInv == IInv /\ [Next]_vars => IInv'
<1> SUFFICES ASSUME IInv, [Next]_vars PROVE IInv'
  OBVIOUS
<1> USE SizeAssumption, KeysAssumption
<1>1. CASE \E n \in CtrlKeys : PressControl(n)
  <2> PICK n \in CtrlKeys : PressControl(n) BY <1>1
  <2>1. CASE n \in controls
    <3>1. PutChar(NUL) BY <2>1 DEF PressControl
    <3>2. NUL \in Char BY DEF Char
    <3>3. /\ keyboard_buffer' \in [Slot -> Char]
          /\ keyboard_buffer_end' \in Slot
          /\ lapped' \in BOOLEAN
      BY <3>1, <3>2, PutCharType DEF IInv
    <3>4. controls' \subseteq 0..7 /\ held' \subseteq CtrlKeys
      BY <2>1 DEF IInv, TypeOK, PressControl
    <3> QED
      BY <3>3, <3>4 DEF IInv, TypeOK, IndexInBounds, PressControl, loop, start
  <2>2. CASE n \notin controls
    <3>1. controls' = controls \cup {n} /\ held' = held \cup {n} /\ n \in 0..7
      BY <2>2 DEF PressControl
    <3>2. controls' \subseteq 0..7 /\ held' \subseteq CtrlKeys
      BY <3>1 DEF IInv, TypeOK
    <3> QED
      BY <2>2, <3>2 DEF IInv, TypeOK, IndexInBounds, PressControl, loop, ring, start
  <2> QED BY <2>1, <2>2
<1>2. CASE \E n \in CtrlKeys : Release(n)
  <2> PICK n \in CtrlKeys : Release(n) BY <1>2
  <2>1. controls' \subseteq 0..7 /\ held' \subseteq CtrlKeys
    BY DEF IInv, TypeOK, Release
  <2> QED
    BY <2>1 DEF IInv, TypeOK, IndexInBounds, Release, loop, ring, start
<1>3. CASE \E k \in Keys : PressKey(k)
  <2> PICK k \in Keys : PressKey(k) BY <1>3
  <2>1. /\ keyboard_buffer' \in [Slot -> Char]
        /\ keyboard_buffer_end' \in Slot
        /\ lapped' \in BOOLEAN
    BY PutCharType, ScancodesType DEF IInv, PressKey
  <2> QED
    BY <2>1 DEF IInv, TypeOK, IndexInBounds, PressKey, loop, start
<1>4. CASE GetcharEmpty
  <2>1. NUL \in Char BY DEF Char
  <2> QED BY <1>4, <2>1 DEF GetcharEmpty, IInv, TypeOK, IndexInBounds, ring, start
<1>5. CASE GetcharCheck
  BY <1>5 DEF GetcharCheck, IInv, TypeOK, IndexInBounds, ring, start, end, Slot
<1>6. CASE FetchFirst
  BY <1>6 DEF FetchFirst, IInv, TypeOK, IndexInBounds, ring, start, Slot
<1>7. CASE Increment
  <2>1. start \in Slot
    BY <1>7 DEF Increment, IInv, IndexInBounds
  <2>2. keyboard_buffer_start' \in 0..N /\ pc' \in {"fetch", "mask"}
    BY <1>7, <2>1 DEF Increment, Slot, start
  <2>3. lapped' \in BOOLEAN
    BY <1>7 DEF Increment
  <2>4. TypeOK'
    BY <1>7, <2>2, <2>3 DEF Increment, IInv, TypeOK
  <2>5. IndexInBounds'
    BY <1>7, <2>1, <2>2 DEF Increment, IndexInBounds, start, Slot
  <2> QED BY <2>4, <2>5 DEF IInv
<1>8. CASE FetchLast
  BY <1>8 DEF FetchLast, IInv, TypeOK, IndexInBounds, ring, start, Slot
<1>9. CASE Mask
  BY <1>9 DEF Mask, IInv, TypeOK, IndexInBounds, ring, start, Slot, Wrap
<1>10. CASE UNCHANGED vars
  BY <1>10 DEF vars, ring, loop, IInv, TypeOK, IndexInBounds, start
<1> QED
  BY <1>1, <1>2, <1>3, <1>4, <1>5, <1>6, <1>7, <1>8, <1>9, <1>10
  DEF Next, keyboard_handler, keyboard_getchar

(* The state of keyboard.c keeps its type, start included, which is out of *)
(* range of the ring between its increment and its mask.                   *)
THEOREM KeyboardTypes == Spec => []TypeOK
<1>1. Spec => []IInv
  BY InitIInv, NextIInv, PTL DEF Spec
<1> QED BY <1>1, PTL DEF IInv

(* Every access of keyboard_handler and keyboard_getchar stays inside      *)
(* keyboard_buffer, whatever the interleaving.                             *)
THEOREM KeyboardSafety == Spec => []IndexInBounds
<1>1. Spec => []IInv
  BY InitIInv, NextIInv, PTL DEF Spec
<1> QED BY <1>1, PTL DEF IInv

-----------------------------------------------------------------------------
(* Repeated make codes toggle the bit of a control key, but only a key     *)
(* that is down sends them, and its break code clears the bit.             *)
LEMMA StepKeepsModifiers ==
    NoStuckModifier /\ [Next]_vars => NoStuckModifier'
<1> SUFFICES ASSUME NoStuckModifier, [Next]_vars PROVE NoStuckModifier'
  OBVIOUS
<1> USE DEF NoStuckModifier
<1>1. ASSUME NEW n \in CtrlKeys, PressControl(n) PROVE NoStuckModifier'
  <2>1. controls' \subseteq controls \cup {n} /\ held' = held \cup {n}
    BY <1>1 DEF PressControl
  <2> QED BY <2>1
<1>2. ASSUME NEW n \in CtrlKeys, Release(n) PROVE NoStuckModifier'
  <2>1. CASE n < 5
    BY <1>2, <2>1 DEF Release
  <2>2. CASE ~(n < 5)
    BY <1>2, <2>2 DEF Release
  <2> QED BY <2>1, <2>2
<1>3. ASSUME NEW k \in Keys, PressKey(k) PROVE NoStuckModifier'
  BY <1>3 DEF PressKey
<1>4. CASE keyboard_getchar
  BY <1>4 DEF keyboard_getchar, GetcharEmpty, GetcharCheck, FetchFirst, Increment,
              FetchLast, Mask
<1>5. CASE UNCHANGED vars
  BY <1>5 DEF vars
<1> QED BY <1>1, <1>2, <1>3, <1>4, <1>5 DEF Next, keyboard_handler

(* The control keys that act while held are recorded as set only while     *)
(* they are down, for any sequence of presses, repeats and releases.       *)
THEOREM ModifiersFollowKeys == Spec => []NoStuckModifier
<1>1. Init => NoStuckModifier
  BY DEF Init, NoStuckModifier
<1> QED BY <1>1, StepKeepsModifiers, PTL DEF Spec

-----------------------------------------------------------------------------
(* A step of Next leaves the slot that is being fetched alone: between the *)
(* increment and the fetch of keyboard_getchar, start - 1 is the one slot  *)
(* that the test in keyboard_handler keeps the handler out of.             *)
LEMMA StepKeepsFetchedSlot ==
    IInv /\ [Next]_vars =>
        [pc = "fetch" => keyboard_buffer'[start - 1] = keyboard_buffer[start - 1]]_vars
<1> SUFFICES ASSUME IInv, [Next]_vars, pc = "fetch"
             PROVE  keyboard_buffer'[start - 1] = keyboard_buffer[start - 1]
  OBVIOUS
<1> USE SizeAssumption
<1>1. /\ start - 1 \in Slot
      /\ SubU32(start, 1) = start - 1
      /\ keyboard_buffer \in [Slot -> Char]
      /\ end \in Slot
  BY DEF IInv, TypeOK, IndexInBounds, Slot, SubU32, start, end
<1>2. ASSUME NEW ch, PutChar(ch)
      PROVE  keyboard_buffer'[start - 1] = keyboard_buffer[start - 1]
  <2>1. CASE HasRoom
    <3>1. end # start - 1 BY <1>1, <2>1 DEF HasRoom
    <3> QED BY <1>1, <1>2, <2>1, <3>1 DEF PutChar
  <2>2. CASE ~HasRoom
    BY <1>2, <2>2 DEF PutChar, ring
  <2> QED BY <2>1, <2>2
<1>3. CASE keyboard_handler
  <2>1. CASE \E n \in CtrlKeys : PressControl(n)
    BY <1>2, <2>1 DEF PressControl, ring
  <2>2. CASE \E n \in CtrlKeys : Release(n)
    BY <2>2 DEF Release, ring
  <2>3. CASE \E k \in Keys : PressKey(k)
    BY <1>2, <2>3 DEF PressKey
  <2> QED BY <1>3, <2>1, <2>2, <2>3 DEF keyboard_handler
<1>4. CASE keyboard_getchar
  BY <1>4 DEF keyboard_getchar, GetcharEmpty, GetcharCheck, FetchFirst, Increment,
              FetchLast, Mask, ring
<1>5. CASE UNCHANGED vars
  BY <1>5 DEF vars, ring
<1> QED BY <1>3, <1>4, <1>5 DEF Next

(* The character that keyboard_getchar is about to fetch is the one that   *)
(* was there when it moved keyboard_buffer_start past it: no interrupt in  *)
(* between overwrites it, for any size of the ring.                        *)
THEOREM FetchIsStable == Spec => FetchedSlotStable
<1>1. Spec => []IInv
  BY InitIInv, NextIInv, PTL DEF Spec
<1> QED
  BY <1>1, StepKeepsFetchedSlot, PTL DEF Spec, FetchedSlotStable

-----------------------------------------------------------------------------
(* The driver implements KeyQueue.  Sequences first: what a function on    *)
(* 1..n is as a sequence.                                                  *)
LEMMA FcnIsSeq ==
    ASSUME NEW S, NEW n \in Nat, NEW s \in [1..n -> S]
    PROVE  s \in Seq(S) /\ Len(s) = n
<1>1. s \in Seq(S)
  BY SeqDef, Zenon
<1>2. 1..Len(s) = 1..n /\ Len(s) \in Nat
  BY <1>1, LenProperties, Zenon
<1> QED BY <1>1, <1>2

LEMMA ShortFcn ==
    ASSUME NEW S, NEW n \in 0..1, NEW s \in [1..n -> S]
    PROVE  s = IF n = 0 THEN <<>> ELSE <<s[1]>>
<1>1. s \in Seq(S) /\ Len(s) = n
  BY FcnIsSeq
<1> QED BY <1>1

LEMMA AppendFcn ==
    ASSUME NEW S, NEW n \in Nat, NEW s \in [1..n -> S], NEW t \in [1..(n + 1) -> S],
           \A i \in 1..n : t[i] = s[i]
    PROVE  t = Append(s, t[n + 1])
<1>1. s \in Seq(S) /\ Len(s) = n /\ t \in Seq(S) /\ Len(t) = n + 1
  BY FcnIsSeq
<1> QED BY <1>1

LEMMA TailFcn ==
    ASSUME NEW S, NEW n \in Nat \ {0}, NEW s \in [1..n -> S],
           NEW t \in [1..(n - 1) -> S], \A i \in 1..(n - 1) : t[i] = s[i + 1]
    PROVE  s # <<>> /\ t = Tail(s) /\ Head(s) = s[1]
<1>1. s \in Seq(S) /\ Len(s) = n /\ t \in Seq(S) /\ Len(t) = n - 1
  BY FcnIsSeq
<1>2. s # <<>> /\ Head(s) = s[1]
  BY <1>1
<1>3. /\ Tail(s) \in Seq(S)
      /\ Len(Tail(s)) = n - 1
      /\ \A i \in 1..(n - 1) : Tail(s)[i] = s[i + 1]
  BY <1>1, <1>2
<1> QED BY <1>1, <1>2, <1>3, SeqEqual

(* The abstract queue, and the slot of its i-th character.                 *)
Wrapped == {<<ch>> : ch \in Char}

Q == [i \in 1..Unread |-> <<Visible[i]>>]

Pos(s, i) == IF s + i - 1 < N THEN s + i - 1 ELSE s + i - 1 - N

QIsRing ==
    /\ Unread \in 0..N
    /\ Q \in [1..Unread -> Wrapped]
    /\ \A i \in 1..Unread : Pos(start, i) \in Slot /\ Q[i] = <<keyboard_buffer[Pos(start, i)]>>

LEMMA QueueContents == IInv => QIsRing
<1> SUFFICES ASSUME IInv PROVE QIsRing
  OBVIOUS
<1> USE SizeAssumption
<1>1. start \in 0..N /\ end \in 0..(N - 1) /\ keyboard_buffer \in [Slot -> Char]
  BY DEF IInv, TypeOK, start, end, Slot
<1>2. Unread \in 0..N
  BY <1>1 DEF Unread
<1>3. ASSUME NEW i \in 1..Unread
      PROVE  Pos(start, i) \in Slot /\ (start + i - 1) % N = Pos(start, i)
  BY <1>1, <1>2 DEF Pos, Slot
<1>4. ASSUME NEW i \in 1..Unread
      PROVE  Q[i] = <<keyboard_buffer[Pos(start, i)]>> /\ Q[i] \in Wrapped
  BY <1>1, <1>3 DEF Q, Visible, Wrapped
<1>5. Q \in [1..Unread -> Wrapped]
  BY <1>4 DEF Q
<1> QED BY <1>2, <1>3, <1>4, <1>5 DEF QIsRing

(* keyboard_getchar has fetched what the oldest slot holds, unless the     *)
(* handler has lapped it since.                                            *)
CharFetched == pc = "store" => lapped \/ c = keyboard_buffer[start]

RInv == IInv /\ CharFetched

LEMMA NextCharFetched == RInv /\ [Next]_vars => CharFetched'
<1> SUFFICES ASSUME RInv, [Next]_vars PROVE CharFetched'
  OBVIOUS
<1> USE SizeAssumption
<1>1. /\ keyboard_buffer \in [Slot -> Char] /\ end \in Slot /\ lapped \in BOOLEAN
      /\ pc \in {"take", "store"} => start \in Slot
  BY DEF RInv, IInv, TypeOK, IndexInBounds, end
<1>2. ASSUME NEW ch, PutChar(ch), UNCHANGED loop PROVE CharFetched'
  <2>1. CASE HasRoom
    BY <1>1, <1>2, <2>1 DEF PutChar, RInv, CharFetched, loop, start, end, Lapping
  <2>2. CASE ~HasRoom
    BY <1>2, <2>2 DEF PutChar, RInv, CharFetched, loop, ring, start
  <2> QED BY <2>1, <2>2
<1>3. CASE keyboard_handler
  <2>1. CASE \E n \in CtrlKeys : PressControl(n)
    BY <1>2, <2>1 DEF PressControl, ring, RInv, CharFetched, loop, start
  <2>2. CASE \E n \in CtrlKeys : Release(n)
    BY <2>2 DEF Release, ring, RInv, CharFetched, loop, start
  <2>3. CASE \E k \in Keys : PressKey(k)
    BY <1>2, <2>3 DEF PressKey, loop
  <2> QED BY <1>3, <2>1, <2>2, <2>3 DEF keyboard_handler
<1>4. CASE keyboard_getchar
  BY <1>4 DEF keyboard_getchar, GetcharEmpty, GetcharCheck, FetchFirst, Increment,
              FetchLast, Mask, ring, CharFetched, start
<1>5. CASE UNCHANGED vars
  BY <1>5 DEF vars, ring, loop, RInv, CharFetched, start
<1> QED BY <1>3, <1>4, <1>5 DEF Next

(* A stored character: the queue grows at its end, or is at its limit.     *)
LEMMA PutCharRefines ==
    ASSUME RInv, RInv', QIsRing, QIsRing', NEW ch \in Char, PutChar(ch), UNCHANGED loop,
           InHand' = InHand
    PROVE  Queue!Put(<<ch>>) \/ Queue!Overflow(<<ch>>) \/ UNCHANGED Queue!vars
<1> USE SizeAssumption
<1>1. /\ start \in 0..N /\ end \in 0..(N - 1) /\ keyboard_buffer \in [Slot -> Char]
      /\ start = N => pc \notin {"take", "store"}
      /\ start' = start /\ pc' = pc /\ lapped \in BOOLEAN
      /\ Pos(start, 1) = IF start = N THEN 0 ELSE start
  BY DEF RInv, IInv, TypeOK, IndexInBounds, loop, start, end, Slot, Pos
<1>2. CASE ~HasRoom
  <2>1. UNCHANGED ring
    BY <1>2 DEF PutChar
  <2> QED BY <2>1, <1>1 DEF ring, Queue!vars, Unread, Visible, Lapping, start, end
<1>3. CASE HasRoom
  <2> PICK n \in 0..N : n = Unread
    BY DEF QIsRing
  <2>1. /\ keyboard_buffer' = [keyboard_buffer EXCEPT ![end] = ch]
        /\ end' = Wrap(end + 1) /\ lapped' = (lapped \/ Lapping)
        /\ end # start - 1
    BY <1>1, <1>3 DEF PutChar, end, HasRoom, SubU32
  <2>2. ASSUME NEW i \in 1..n, Unread' = n + 1, Pos(start, i) # end, Pos(start, i) \in Slot
        PROVE  Q'[i] = Q[i]
    <3>1. i \in 1..Unread' /\ i \in 1..Unread
      BY <2>2
    <3>2. Q[i] = <<keyboard_buffer[Pos(start, i)]>>
      BY <3>1 DEF QIsRing
    <3>3. Q'[i] = <<keyboard_buffer'[Pos(start, i)]>>
      BY <1>1, <3>1 DEF QIsRing
    <3>4. keyboard_buffer'[Pos(start, i)] = keyboard_buffer[Pos(start, i)]
      BY <1>1, <2>1, <2>2
    <3> QED BY <3>2, <3>3, <3>4
  <2>3. CASE Lapping
    <3>1. Unread' = 1 /\ n = N /\ start < N
      BY <1>1, <2>1, <2>3 DEF Unread, Lapping, Wrap
    <3>2. lapped' = TRUE
      BY <2>1, <2>3
    <3>3. keyboard_buffer'[start] = ch
      BY <1>1, <2>1, <2>3 DEF Lapping, Slot
    <3>4. Q' = <<<<ch>>>>
      <4>1. Q'[1] = <<ch>> /\ Q' \in [1..1 -> Wrapped]
        BY <1>1, <3>1, <3>3 DEF QIsRing, Pos
      <4> QED BY <4>1, ShortFcn
    <3>5. Len(Q) = N
      BY <3>1, FcnIsSeq DEF QIsRing
    <3> QED BY <3>1, <3>2, <3>4, <3>5 DEF Queue!Overflow, Q
  <2>4. CASE ~Lapping /\ Wrap(end + 1) = start
    <3>1. n = N - 1 /\ Len(Q) = N - 1 /\ lapped' = lapped
      <4>1. n = N - 1
        BY <1>1, <2>1, <2>4 DEF Unread, Wrap
      <4> QED BY <4>1, <1>1, <2>1, <2>4, FcnIsSeq DEF QIsRing
    <3>2. CASE pc \in {"take", "store"}
      <4>1. Unread' = n + 1
        BY <1>1, <2>1, <2>4, <3>1, <3>2 DEF Unread, Lapping
      <4>2. \A i \in 1..n : Q'[i] = Q[i]
        <5> SUFFICES ASSUME NEW i \in 1..n PROVE Q'[i] = Q[i]
          OBVIOUS
        <5>1. Pos(start, i) # end /\ Pos(start, i) \in Slot
          BY <1>1, <2>4, <3>1 DEF Pos, Wrap, Slot
        <5> QED BY <2>2, <4>1, <5>1
      <4>3. Q'[n + 1] = <<ch>>
        <5>1. Pos(start, n + 1) = end
          BY <1>1, <2>4, <3>1, <3>2 DEF Pos, Wrap
        <5> QED BY <1>1, <2>1, <4>1, <5>1, <3>1 DEF QIsRing, Slot
      <4>4. Q' = Append(Q, <<ch>>)
        BY <3>1, <4>1, <4>2, <4>3, AppendFcn DEF QIsRing
      <4> QED BY <3>1, <4>4 DEF Queue!Overflow, Q
    <3>3. CASE pc \notin {"take", "store"}
      <4>1. Unread' = 0
        BY <1>1, <2>1, <2>4, <3>3 DEF Unread, Lapping
      <4>2. Q' = <<>>
        BY <4>1, ShortFcn DEF QIsRing
      <4> QED BY <3>1, <4>2 DEF Queue!Overflow, Q
    <3> QED BY <3>2, <3>3
  <2>5. CASE ~Lapping /\ Wrap(end + 1) # start
    <3>1. n < N - 1 /\ n \in Nat /\ Unread' = n + 1 /\ lapped' = lapped
      <4>1. n < N - 1 /\ n \in Nat
        BY <1>1, <2>1, <2>5 DEF Unread, Wrap
      <4>2. Unread' = n + 1
        BY <1>1, <2>1, <2>5 DEF Unread, Wrap, Lapping
      <4> QED BY <4>1, <4>2, <1>1, <2>1, <2>5
    <3>2. Len(Q) = n
      BY <3>1, FcnIsSeq DEF QIsRing
    <3>3. \A i \in 1..n : Q'[i] = Q[i]
      <4> SUFFICES ASSUME NEW i \in 1..n PROVE Q'[i] = Q[i]
        OBVIOUS
      <4>1. Pos(start, i) # end /\ Pos(start, i) \in Slot
        BY <1>1, <2>5, <3>1 DEF Pos, Unread, Slot
      <4> QED BY <2>2, <3>1, <4>1
    <3>4. Q'[n + 1] = <<ch>>
      <4>1. Pos(start, n + 1) = end
        BY <1>1, <2>5, <3>1 DEF Pos, Unread
      <4> QED BY <1>1, <2>1, <3>1, <4>1 DEF QIsRing, Slot
    <3>5. Q' = Append(Q, <<ch>>)
      BY <3>1, <3>3, <3>4, AppendFcn DEF QIsRing
    <3> QED BY <3>1, <3>2, <3>5 DEF Queue!Put, Q
  <2> QED BY <2>3, <2>4, <2>5
<1> QED BY <1>2, <1>3

(* The increment takes the oldest character out of the queue; where it is  *)
(* stored after the fetch, c holds that character unless lapped.           *)
LEMMA IncrementRefines ==
    ASSUME RInv, RInv', QIsRing, QIsRing', Increment
    PROVE  Queue!Get
<1> USE SizeAssumption
<1>1. /\ start \in 0..(N - 1) /\ end \in 0..(N - 1) /\ start' = start + 1
      /\ end' = end /\ keyboard_buffer' = keyboard_buffer
      /\ pc \in {"take", "store"} /\ pc' \in {"fetch", "mask"} /\ c \in Char
  BY DEF RInv, IInv, TypeOK, IndexInBounds, Increment, start, end, Slot
<1> PICK n \in 0..N : n = Unread
  BY DEF QIsRing
<1>2. n > 0 /\ Unread' = n - 1
  BY <1>1 DEF Unread, Lapping
<1>3. \A i \in 1..(n - 1) : Q'[i] = Q[i + 1]
  <2> SUFFICES ASSUME NEW i \in 1..(n - 1) PROVE Q'[i] = Q[i + 1]
    OBVIOUS
  <2>1. i \in 1..Unread' /\ i + 1 \in 1..Unread /\ Pos(start + 1, i) = Pos(start, i + 1)
    BY <1>1, <1>2 DEF Pos
  <2>2. Q[i + 1] = <<keyboard_buffer[Pos(start, i + 1)]>>
    BY <2>1 DEF QIsRing
  <2>3. Q'[i] = <<keyboard_buffer[Pos(start + 1, i)]>>
    BY <1>1, <2>1 DEF QIsRing
  <2> QED BY <2>1, <2>2, <2>3
<1>4. Q # <<>> /\ Q' = Tail(Q) /\ Head(Q) = Q[1]
  BY <1>2, <1>3, TailFcn DEF QIsRing
<1>5. Q[1] = <<keyboard_buffer[start]>>
  <2>1. 1 \in 1..Unread /\ Pos(start, 1) = start
    BY <1>1, <1>2 DEF Pos
  <2> QED BY <2>1 DEF QIsRing
<1>6. InHand = <<>> /\ lapped' = FALSE
  BY <1>1 DEF InHand, Increment
<1>7. InHand' = Head(Q) \/ (lapped /\ InHand' \in Wrapped)
  <2>1. CASE pc = "take"
    <3>1. InHand' = <<keyboard_buffer'[start' - 1]>>
      BY <2>1 DEF InHand, Increment, start
    <3> QED BY <1>1, <1>4, <1>5, <3>1
  <2>2. CASE pc = "store"
    <3>1. InHand' = <<c>>
      BY <2>2 DEF InHand, Increment
    <3>2. lapped \/ c = keyboard_buffer[start]
      BY <2>2 DEF RInv, CharFetched
    <3>3. <<c>> \in Wrapped
      BY <1>1 DEF Wrapped
    <3> QED BY <1>4, <1>5, <3>1, <3>2, <3>3
  <2> QED BY <1>1, <2>1, <2>2
<1> QED BY <1>4, <1>6, <1>7 DEF Queue!Get, Queue!None, Q, Wrapped

LEMMA StepRefines ==
    RInv /\ RInv' /\ QIsRing /\ QIsRing' /\ [Next]_vars => [Queue!Next]_Queue!vars
<1> SUFFICES ASSUME RInv, RInv', QIsRing, QIsRing', [Next]_vars
             PROVE  Queue!Next \/ UNCHANGED Queue!vars
  OBVIOUS
<1> USE SizeAssumption
<1>1. ASSUME NEW ch \in Char, PutChar(ch), UNCHANGED loop
      PROVE  Queue!Next \/ UNCHANGED Queue!vars
  <2>1. [Next]_vars /\ pc = "fetch" => keyboard_buffer'[start - 1] = keyboard_buffer[start - 1]
    BY StepKeepsFetchedSlot DEF RInv, vars, ring
  <2>2. InHand' = InHand
    BY <1>1, <2>1 DEF InHand, loop, start
  <2>3. Queue!Put(<<ch>>) \/ Queue!Overflow(<<ch>>) \/ UNCHANGED Queue!vars
    BY <1>1, <2>2, PutCharRefines
  <2>4. <<ch>> \in Wrapped
    BY DEF Wrapped
  <2> QED BY <2>3, <2>4 DEF Queue!Next, Wrapped
<1>2. ASSUME UNCHANGED <<keyboard_buffer, Unread, start, lapped, InHand>>
      PROVE  UNCHANGED Queue!vars
  BY <1>2 DEF Queue!vars, Visible
<1>3. ASSUME NEW m \in CtrlKeys, PressControl(m)
      PROVE  Queue!Next \/ UNCHANGED Queue!vars
  <2>1. CASE m \in controls
    <3>1. NUL \in Char
      BY DEF Char
    <3> QED BY <1>1, <1>3, <2>1, <3>1 DEF PressControl
  <2>2. CASE m \notin controls
    BY <1>2, <1>3, <2>2 DEF PressControl, loop, ring, Unread, Lapping, InHand, start, end
  <2> QED BY <2>1, <2>2
<1>4. ASSUME NEW m \in CtrlKeys, Release(m) PROVE UNCHANGED Queue!vars
  BY <1>2, <1>4 DEF Release, loop, ring, Unread, Lapping, InHand, start, end
<1>5. ASSUME NEW k \in Keys, PressKey(k) PROVE Queue!Next \/ UNCHANGED Queue!vars
  BY <1>1, <1>5, ScancodesType DEF PressKey
<1>6. CASE GetcharEmpty \/ GetcharCheck \/ FetchFirst \/ FetchLast
  <2>1. UNCHANGED <<keyboard_buffer, start, end, lapped>>
    BY <1>6 DEF GetcharEmpty, GetcharCheck, FetchFirst, FetchLast, ring, start, end
  <2>2. UNCHANGED Lapping
    BY <1>6, <2>1 DEF GetcharEmpty, GetcharCheck, FetchFirst, FetchLast, Lapping
  <2>3. UNCHANGED InHand
    BY <1>6, <2>1 DEF GetcharEmpty, GetcharCheck, FetchFirst, FetchLast, InHand
  <2> QED BY <1>2, <2>1, <2>2, <2>3 DEF Unread
<1>7. CASE Increment
  BY <1>7, IncrementRefines DEF Queue!Next
<1>8. CASE Mask
  <2>1. /\ start \in 0..N /\ end \in 0..(N - 1) /\ start' = Wrap(start)
        /\ end' = end /\ keyboard_buffer' = keyboard_buffer /\ lapped' = lapped
        /\ pc = "mask" /\ pc' = "idle"
    BY <1>8 DEF RInv, IInv, TypeOK, Mask, ring, start, end, Slot
  <2>2. Unread' = Unread
    BY <2>1 DEF Unread, Lapping, Wrap
  <2>3. Q' = Q
    <3>1. ASSUME NEW i \in 1..Unread PROVE Q'[i] = Q[i]
      <4>1. i \in 1..Unread' /\ Pos(start', i) = Pos(start, i)
        BY <2>1, <2>2, <3>1 DEF Pos, Wrap, QIsRing
      <4>2. Q[i] = <<keyboard_buffer[Pos(start, i)]>>
        BY DEF QIsRing
      <4>3. Q'[i] = <<keyboard_buffer'[Pos(start', i)]>>
        BY <4>1 DEF QIsRing
      <4> QED BY <2>1, <4>1, <4>2, <4>3
    <3> QED BY <2>2, <3>1 DEF QIsRing
  <2>4. InHand = <<c>> /\ InHand' = <<>>
    BY <2>1 DEF InHand
  <2> QED BY <2>1, <2>3, <2>4 DEF Queue!Next, Queue!Return, Queue!None, Q
<1>9. CASE UNCHANGED vars
  BY <1>2, <1>9 DEF vars, loop, ring, Unread, Lapping, InHand, start, end
<1> QED
  BY <1>3, <1>4, <1>5, <1>6, <1>7, <1>8, <1>9 DEF Next, keyboard_handler, keyboard_getchar

(* The driver behaves as the queue of KeyQueue, whatever the interleaving  *)
(* of keyboard_handler with the accesses of keyboard_getchar: characters   *)
(* come out in the order typed and each once, and only at the limit of the *)
(* ring is one dropped, overwritten or the whole queue lost.  For any size *)
(* of the ring.                                                            *)
THEOREM DriverImplementsQueue == Spec => ImplementsQueue
<1>1. Init => RInv
  BY InitIInv DEF RInv, CharFetched, Init
<1>2. RInv /\ [Next]_vars => RInv'
  BY NextIInv, NextCharFetched DEF RInv
<1>3. Init => Queue!Init
  <2> SUFFICES ASSUME Init PROVE Queue!Init
    OBVIOUS
  <2>1. Unread = 0 /\ QIsRing
    BY InitIInv, QueueContents DEF Init, Unread, Lapping, start, end
  <2>2. Q = <<>>
    BY <2>1, ShortFcn DEF QIsRing
  <2>3. InHand = <<>> /\ lapped = FALSE
    BY DEF Init, InHand
  <2> QED BY <2>2, <2>3 DEF Queue!Init, Queue!None, Q
<1>4. RInv => QIsRing
  BY QueueContents DEF RInv
<1> QED
  BY <1>1, <1>2, <1>3, <1>4, StepRefines, PTL DEF Spec, ImplementsQueue, Queue!Spec
=============================================================================
