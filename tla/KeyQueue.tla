------------------------------ MODULE KeyQueue ------------------------------
(***************************************************************************)
(* What the keyboard driver promises the loop that echoes typed keys: a    *)
(* queue of characters, oldest first, of which at most Cap - 1 are unread. *)
(* The promise is weaker than a bounded FIFO, and exactly as weak as the   *)
(* driver is: a key that arrives when Cap - 1 characters are unread may be *)
(* dropped, may lap a reader that is already fetching (Cap unread          *)
(* characters, then only the newest), or may make the whole queue vanish.  *)
(***************************************************************************)
EXTENDS Naturals, Sequences

CONSTANTS Cap, Char

VARIABLES
    q,      \* the unread characters
    got,    \* the character a getchar call has in hand, or none
    lapped  \* the call in progress may return an overwritten character

vars == <<q, got, lapped>>

None == <<>>

TypeOK ==
    /\ q \in Seq(Char)
    /\ Len(q) <= Cap
    /\ got \in Char \cup {None}
    /\ lapped \in BOOLEAN

Init == q = <<>> /\ got = None /\ lapped = FALSE

Put(ch) ==
    /\ Len(q) < Cap - 1
    /\ q' = Append(q, ch)
    /\ UNCHANGED <<got, lapped>>

(* The driver's only losses, all at the limit of the buffer.               *)
Overflow(ch) ==
    /\ UNCHANGED got
    /\ \/ Len(q) = Cap - 1 /\ q' \in {<<>>, Append(q, ch)} /\ UNCHANGED lapped
       \/ Len(q) = Cap /\ q' = <<ch>> /\ lapped' = TRUE

Get ==
    /\ got = None
    /\ q # <<>>
    /\ \/ got' = Head(q)
       \/ lapped /\ got' \in Char
    /\ q' = Tail(q)
    /\ lapped' = FALSE

Return == got # None /\ got' = None /\ UNCHANGED <<q, lapped>>

Next == (\E ch \in Char : Put(ch) \/ Overflow(ch)) \/ Get \/ Return

Spec == Init /\ [][Next]_vars
=============================================================================
