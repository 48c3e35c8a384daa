------------------------------ MODULE Keyboard ------------------------------
(***************************************************************************)
(* The keyboard driver (sys/keyboard.c): the IRQ1 handler, which tracks    *)
(* the control keys and stores characters in a ring, and keyboard_getchar, *)
(* polled in a loop as kernel_start (sys/main.c) does.                     *)
(*                                                                         *)
(* The handler runs with interrupts disabled and is one step.  The loop    *)
(* can be interrupted between any two of its accesses to the ring, so      *)
(* keyboard_getchar is cut there.  C leaves open whether the increment in  *)
(*     c = keyboard_buffer[keyboard_buffer_start++]                        *)
(* is stored before or after the character is fetched; both orders are     *)
(* modelled.                                                               *)
(*                                                                         *)
(* This is the driver's own behaviour, for a caller that may write to the  *)
(* ring and runs with interrupts on.  The shipped kernel_start enters user *)
(* mode before its loop; what becomes of it there is in module Kernel.     *)
(***************************************************************************)
EXTENDS Integers, Sequences

CONSTANTS
    N,          \* size of keyboard_buffer (256)
    U32,        \* number of values of a u32int (2^32)
    Keys,       \* scancodes of the keys that have a character
    CtrlKeys,   \* the control keys that can be pressed, as indices into control_map
    NUL         \* the character '\0'

ASSUME SizeAssumption == N \in Nat \ {0} /\ U32 \in Nat /\ U32 > N

ASSUME KeysAssumption ==
    /\ Keys \cap (0..7) = {}
    /\ CtrlKeys \subseteq 0..7
    /\ NUL \notin Keys \X BOOLEAN

VARIABLES
    keyboard_buffer,
    keyboard_buffer_start,
    keyboard_buffer_end,
    controls,   \* the set bits of current_layout->controls
    held,       \* the control keys that are physically down (the device)
    pc,         \* where the loop is in keyboard_getchar
    c,          \* the local c of keyboard_getchar
    lapped      \* history: the handler overwrote the slot the loop is fetching

start == keyboard_buffer_start
end   == keyboard_buffer_end

ring == <<keyboard_buffer, keyboard_buffer_end, lapped>>
loop == <<keyboard_buffer_start, pc, c>>
vars == <<ring, loop, controls, held>>

Slot == 0..(N - 1)

(* A character is a key and the table it was looked up in; the control     *)
(* keys have 0 in both tables.                                             *)
Char == (Keys \X BOOLEAN) \cup {NUL}

CONTROL  == 0
LSHIFT   == 3
RSHIFT   == 4
CAPSLOCK == 5

TypeOK ==
    /\ keyboard_buffer \in [Slot -> Char]
    /\ keyboard_buffer_start \in 0..N
    /\ keyboard_buffer_end \in Slot
    /\ controls \subseteq 0..7
    /\ held \subseteq CtrlKeys
    /\ pc \in {"idle", "take", "store", "fetch", "mask"}
    /\ c \in Char
    /\ lapped \in BOOLEAN

(* init_keyboard_driver.  The ring is a zeroed global.                     *)
Init ==
    /\ keyboard_buffer = [s \in Slot |-> NUL]
    /\ keyboard_buffer_start = 0
    /\ keyboard_buffer_end = 0
    /\ controls = {}
    /\ held = {}
    /\ pc = "idle"
    /\ c = NUL
    /\ lapped = FALSE

-----------------------------------------------------------------------------
(* u32int subtraction, and x & 255 for an index that has just been         *)
(* incremented.                                                            *)
SubU32(a, b) == IF a >= b THEN a - b ELSE U32 + a - b

(* Mutant: the mask is forgotten.                                          *)
Wrap_Unmasked(x) == x

Wrap(x) == IF x = N THEN 0 ELSE x

shifted == controls \cap {LSHIFT, RSHIFT, CAPSLOCK} # {} /\ CONTROL \notin controls

scancodes(k) == IF k \in Keys THEN <<k, shifted>> ELSE NUL

(* The ring is full and the loop has already seen it non-empty.            *)
Lapping == start = end /\ pc \in {"take", "store"}

(* Mutant: the ring is never full.                                         *)
HasRoom_Always == TRUE

(* "Avoid buffer overruns if possible": the test is made in u32int, so it  *)
(* can only fail when start is not 0.                                      *)
HasRoom == end # SubU32(start, 1)

(* Mutant: the index is advanced before the character is stored.           *)
PutChar_AdvanceFirst(ch) ==
    IF HasRoom
    THEN /\ keyboard_buffer' = [keyboard_buffer EXCEPT ![Wrap(end + 1)] = ch]
         /\ keyboard_buffer_end' = Wrap(end + 1)
         /\ lapped' = (lapped \/ Lapping)
    ELSE UNCHANGED ring

PutChar(ch) ==
    IF HasRoom
    THEN /\ keyboard_buffer' = [keyboard_buffer EXCEPT ![end] = ch]
         /\ keyboard_buffer_end' = Wrap(end + 1)
         /\ lapped' = (lapped \/ Lapping)
    ELSE UNCHANGED ring

(* keyboard_handler for a make code.  A control key whose bit is clear     *)
(* sets it and returns; one whose bit is set clears it and falls through   *)
(* to the code that stores a character.  The keyboard repeats the make     *)
(* code of a key that is held down.                                        *)
PressControl(i) ==
    /\ held' = held \cup {i}
    /\ IF i \in controls
       THEN controls' = controls \ {i} /\ PutChar(NUL)
       ELSE controls' = controls \cup {i} /\ UNCHANGED ring
    /\ UNCHANGED loop

PressKey(k) ==
    /\ PutChar(scancodes(k))
    /\ UNCHANGED <<loop, controls, held>>

(* Mutant: the loop over control_map stops one entry early.                *)
Release_FirstFour(i) ==
    /\ i \in held
    /\ held' = held \ {i}
    /\ controls' = IF i < 4 THEN controls \ {i} ELSE controls
    /\ UNCHANGED <<ring, loop>>

(* keyboard_handler for a break code: only the first five entries of       *)
(* control_map are looked at.                                              *)
Release(i) ==
    /\ i \in held
    /\ held' = held \ {i}
    /\ controls' = IF i < 5 THEN controls \ {i} ELSE controls
    /\ UNCHANGED <<ring, loop>>

keyboard_handler ==
    \/ \E i \in CtrlKeys : PressControl(i) \/ Release(i)
    \/ \E k \in Keys : PressKey(k)

-----------------------------------------------------------------------------
(* keyboard_getchar, called over and over by the loop.                     *)
GetcharEmpty ==
    /\ pc = "idle"
    /\ start = end
    /\ c' = NUL
    /\ UNCHANGED <<ring, keyboard_buffer_start, pc, controls, held>>

GetcharCheck ==
    /\ pc = "idle"
    /\ start # end
    /\ pc' = "take"
    /\ UNCHANGED <<ring, keyboard_buffer_start, c, controls, held>>

FetchFirst ==
    /\ pc = "take"
    /\ c' = keyboard_buffer[start]
    /\ pc' = "store"
    /\ UNCHANGED <<ring, keyboard_buffer_start, controls, held>>

(* The increment is stored: after the fetch, or before it.  From here on   *)
(* the slot counts as read.                                                *)
Increment ==
    /\ pc \in {"take", "store"}
    /\ keyboard_buffer_start' = start + 1
    /\ pc' = IF pc = "take" THEN "fetch" ELSE "mask"
    /\ lapped' = FALSE
    /\ UNCHANGED <<keyboard_buffer, keyboard_buffer_end, c, controls, held>>

FetchLast ==
    /\ pc = "fetch"
    /\ c' = keyboard_buffer[start - 1]
    /\ pc' = "mask"
    /\ UNCHANGED <<ring, keyboard_buffer_start, controls, held>>

(* Mutant: start is left unmasked.                                         *)
Mask_Dropped ==
    /\ pc = "mask"
    /\ pc' = "idle"
    /\ UNCHANGED <<ring, keyboard_buffer_start, c, controls, held>>

(* keyboard_buffer_start &= 255, and the return of c to the loop.          *)
Mask ==
    /\ pc = "mask"
    /\ keyboard_buffer_start' = Wrap(start)
    /\ pc' = "idle"
    /\ UNCHANGED <<ring, c, controls, held>>

keyboard_getchar ==
    GetcharEmpty \/ GetcharCheck \/ FetchFirst \/ Increment \/ FetchLast \/ Mask

Next == keyboard_handler \/ keyboard_getchar

Spec == Init /\ [][Next]_vars
-----------------------------------------------------------------------------
(* The characters that the loop has still to read, oldest first.           *)
Unread ==
    IF Lapping THEN N ELSE IF end >= start THEN end - start ELSE N - start + end

Visible == [i \in 1..Unread |-> keyboard_buffer[(start + i - 1) % N]]

(* The character a getchar call has taken out of the ring.                 *)
InHand ==
    CASE pc = "fetch" -> <<keyboard_buffer[start - 1]>>
      [] pc = "mask"  -> <<c>>
      [] OTHER        -> <<>>

(* Abstraction to KeyQueue, whose characters are the driver's wrapped in a *)
(* one-element sequence so that "none" is a value of the same kind.        *)
Queue == INSTANCE KeyQueue WITH
            Cap    <- N,
            Char   <- {<<ch>> : ch \in Char},
            q      <- [i \in 1..Unread |-> <<Visible[i]>>],
            got    <- InHand,
            lapped <- lapped

(* keyboard_handler and keyboard_getchar, interleaved at every access to   *)
(* the ring, behave as the queue of KeyQueue: characters come out in the   *)
(* order they were stored in, each once, and those stored are lost only at *)
(* the buffer's limit.                                                     *)
ImplementsQueue == Queue!Spec

(* No access of the handler or of keyboard_getchar is outside the ring,    *)
(* although start is out of range between its increment and its mask.      *)
IndexInBounds ==
    /\ pc \in {"take", "store"} => start \in Slot
    /\ pc = "fetch" => start - 1 \in Slot
    /\ start = N => pc \in {"fetch", "mask"}

(* While keyboard_getchar has stored the increment and not yet fetched the *)
(* character, no interrupt overwrites the slot: the one slot the handler   *)
(* leaves free is the one being read.                                      *)
FetchedSlotStable ==
    [][pc = "fetch" => keyboard_buffer'[start - 1] = keyboard_buffer[start - 1]]_vars

(* No modifier is stuck: the status bit of a control key that acts while  *)
(* held (the first five entries of control_map) is set only while the key  *)
(* is down, however often its make code is repeated.                       *)
NoStuckModifier == controls \cap (0..4) \subseteq held

(* keyboard.c:209 "Avoid buffer overruns if possible."  No interrupt makes *)
(* characters that are still unread disappear.                             *)
NoOverrun == [][Unread' >= Unread - 1]_vars
=============================================================================
