---------------------------- MODULE Kheap_proofs ----------------------------
(***************************************************************************)
(* Proofs about the kernel heap, for every page size, heap and sequence of *)
(* calls: what alloc and free rely on is kept by every step that is not    *)
(* one of the listed defects.                                              *)
(*                                                                         *)
(* The holes in the index and the blocks handed out are the pieces of the  *)
(* heap.  Every operation replaces some adjacent pieces by others that     *)
(* take up the same room (or the room up to the new end of the heap), and  *)
(* stores nothing outside of it; the lemma Replace shows that the heap is  *)
(* then still tiled, and the operations are instances of it.               *)
(***************************************************************************)
EXTENDS Kheap, WellFoundedInduction, SequenceTheorems, TLAPS

Bytes == 0..(U32 - 1)
Least == HDR + FTR

HolesIn(ix) == {ix[k] : k \in 1..Len(ix)} \ {NULL}
Heads(L)    == {b[1] - HDR : b \in L}

End(m, a)  == a + m[a].size
Foot(m, a) == a + m[a].size - FTR

(* The pieces that begin at the addresses in T are the heap up to e, and a *)
(* footer at the end of a piece names the piece.                           *)
Placed(m, T, e) ==
    \A a \in T : /\ a \in Nat /\ START <= a /\ Is(m, a, "hdr")
                 /\ Least <= m[a].size /\ End(m, a) <= e
Apart(m, T)     == \A a, c \in T : a # c => End(m, a) <= c \/ End(m, c) <= a
Covered(m, T, e) == \A x \in START..(e - 1) : \E a \in T : a <= x /\ x < End(m, a)
Named(m, T)     == \A a \in T : Is(m, Foot(m, a), "ftr") => m[Foot(m, a)].header = a
Tiles(m, T, e)  == Placed(m, T, e) /\ Apart(m, T) /\ Covered(m, T, e) /\ Named(m, T)

(* A block that can be freed.                                              *)
Owned(m, b) ==
    LET h == b[1] - HDR
    IN  ~m[h].is_hole /\ b[2] + Least <= m[h].size /\ Is(m, Foot(m, h), "ftr")

Distinct(ix) == \A k, l \in 1..Len(ix) : k # l /\ ix[k] # NULL => ix[k] # ix[l]

Sound(m, ix, L, e) ==
    /\ Tiles(m, HolesIn(ix) \cup Heads(L), e)
    /\ \A a \in DOMAIN m : START <= a
    /\ Distinct(ix)
    /\ \A a \in HolesIn(ix) : m[a].is_hole
    /\ \A b \in L : Owned(m, b)
    /\ \A b, c \in L : b[1] = c[1] => b = c

IInv ==
    /\ TypeOK
    /\ HEAP_MIN_SIZE <= end_address - START
    /\ defects = {} => /\ Sound(mem, index, live, end_address) /\ end_address <= top
                       /\ status \in {"ok", "full"}

-----------------------------------------------------------------------------
(* Constants and numbers.                                                  *)

LEMMA Constants ==
    /\ HDR \in Nat /\ FTR \in Nat /\ PAGE \in Nat /\ U32 \in Nat /\ START \in Nat
    /\ INITIAL \in Nat /\ HEAP_MIN_SIZE \in Nat /\ MAX \in Nat
    /\ HDR > 0 /\ FTR > 0 /\ PAGE > 0 /\ U32 > 0 /\ START > 0
    /\ LowSize \in Bytes
    /\ START % PAGE = 0 /\ HEAP_MIN_SIZE % PAGE = 0
    /\ HDR + FTR <= PAGE /\ 2 * PAGE <= HEAP_MIN_SIZE /\ HEAP_MIN_SIZE <= INITIAL
    /\ START + INITIAL <= MAX /\ MAX + PAGE < U32
    /\ U32 \div 2 \in Nat /\ 2 * (U32 \div 2) <= U32
    /\ HEAP_INDEX_SIZE \in Nat /\ 1 <= HEAP_INDEX_SIZE
<1>1. {HDR, FTR, PAGE, U32, START, INITIAL, HEAP_MIN_SIZE, MAX, HEAP_INDEX_SIZE}
         \subseteq Nat \ {0}
  BY KheapAssumption
<1>2. U32 \in Nat /\ MAX \in Nat
  BY <1>1
<1>3. U32 \div 2 \in Nat /\ 2 * (U32 \div 2) <= U32
  BY <1>2
<1> QED BY <1>1, <1>2, <1>3, KheapAssumption DEF Bytes

LEMMA Linear ==
    /\ HDR \in Nat /\ FTR \in Nat /\ PAGE \in Nat /\ U32 \in Nat /\ START \in Nat
    /\ HEAP_MIN_SIZE \in Nat /\ MAX \in Nat
    /\ HDR > 0 /\ FTR > 0 /\ PAGE > 0 /\ U32 > 0 /\ START > 0
    /\ HDR + FTR <= PAGE /\ PAGE <= MAX /\ MAX + PAGE < U32 /\ MAX < U32
BY Constants

LEMMA u32Small == ASSUME NEW x \in Bytes PROVE u32(x) = x
BY Constants DEF Bytes, u32

LEMMA u32Type == ASSUME NEW x \in Int PROVE u32(x) \in Bytes
BY Constants DEF Bytes, u32

-----------------------------------------------------------------------------
(* Memory.                                                                 *)

Typed(m) == \A a \in DOMAIN m : a \in Bytes /\ m[a] \in Cell

LEMMA CellType ==
    ASSUME NEW x \in Cell
    PROVE  /\ x.kind \in {"hdr", "ftr"}
           /\ x.kind = "hdr" => x.is_hole \in BOOLEAN /\ x.size \in Bytes
           /\ x.kind = "ftr" => x.header \in Bytes
           /\ SizeOf(x) \in Nat /\ SizeOf(x) > 0
           /\ x.kind = "hdr" => SizeOf(x) = HDR
           /\ x.kind = "ftr" => SizeOf(x) = FTR
BY Constants DEF Cell, SizeOf, Bytes

LEMMA HeaderType ==
    ASSUME NEW hole \in BOOLEAN, NEW s \in Bytes
    PROVE  /\ header(hole, s) \in Cell /\ SizeOf(header(hole, s)) = HDR
           /\ header(hole, s).kind = "hdr" /\ header(hole, s).is_hole = hole
           /\ header(hole, s).size = s
BY DEF header, Cell, SizeOf, Bytes

LEMMA FooterType ==
    ASSUME NEW a \in Bytes
    PROVE  /\ footer(a) \in Cell /\ SizeOf(footer(a)) = FTR
           /\ footer(a).kind = "ftr" /\ footer(a).header = a
BY DEF footer, Cell, SizeOf, Bytes

LEMMA WipeIs ==
    ASSUME NEW m, NEW a, NEW n
    PROVE  /\ \A b : b \in DOMAIN Wipe(m, a, n) <=>
                        b \in DOMAIN m /\ ~Overlap(a, n, b, SizeOf(m[b]))
           /\ \A b \in DOMAIN Wipe(m, a, n) : Wipe(m, a, n)[b] = m[b]
BY DEF Wipe, Restrict

LEMMA StoreIs ==
    ASSUME NEW m, NEW a, NEW x
    PROVE  /\ \A b : b \in DOMAIN Store(m, a, x) <=>
                        b = a \/ b \in DOMAIN Wipe(m, a, SizeOf(x))
           /\ Store(m, a, x)[a] = x
           /\ \A b \in DOMAIN Wipe(m, a, SizeOf(x)) : b # a => Store(m, a, x)[b] = m[b]
<1>1. PICK w : w = Wipe(m, a, SizeOf(x))
  OBVIOUS
<1>2. \A b \in DOMAIN w : w[b] = m[b]
  BY <1>1, WipeIs
<1>3. Store(m, a, x) = [b \in DOMAIN w \cup {a} |-> IF b = a THEN x ELSE w[b]]
  BY <1>1 DEF Store
<1> QED BY <1>1, <1>2, <1>3

LEMMA WipeTyped == ASSUME NEW m, Typed(m), NEW a, NEW n PROVE Typed(Wipe(m, a, n))
BY WipeIs DEF Typed

LEMMA StoreTyped ==
    ASSUME NEW m, Typed(m), NEW a \in Bytes, NEW x \in Cell
    PROVE  Typed(Store(m, a, x))
<1> DEFINE w == Wipe(m, a, SizeOf(x))
           s == Store(m, a, x)
<1>1. /\ (\A b : b \in DOMAIN s <=> b = a \/ b \in DOMAIN w) /\ s[a] = x
      /\ \A b \in DOMAIN w : b # a => s[b] = m[b]
  BY StoreIs
<1>2. DOMAIN w \subseteq DOMAIN m
  BY WipeIs
<1> HIDE DEF w, s
<1> QED BY <1>1, <1>2 DEF Typed, s

(* m2 differs from m only within the bytes from lo to hi.                  *)
Outside(m, a, lo, hi) == a + SizeOf(m[a]) <= lo \/ hi <= a

Frame(m, m2, lo, hi) ==
    /\ \A a \in DOMAIN m : Outside(m, a, lo, hi) => a \in DOMAIN m2 /\ m2[a] = m[a]
    /\ \A a \in DOMAIN m2 : Outside(m2, a, lo, hi) => a \in DOMAIN m /\ m[a] = m2[a]

LEMMA FrameRefl == ASSUME NEW m, NEW lo, NEW hi PROVE Frame(m, m, lo, hi)
BY DEF Frame

LEMMA FrameTrans ==
    ASSUME NEW m, NEW m2, NEW m3, NEW lo, NEW hi, Frame(m, m2, lo, hi), Frame(m2, m3, lo, hi)
    PROVE  Frame(m, m3, lo, hi)
BY DEF Frame, Outside

LEMMA WipeFrame ==
    ASSUME NEW m, Typed(m), NEW lo \in Int, NEW hi \in Int, NEW a \in Int, NEW n \in Nat,
           lo <= a, a + n <= hi
    PROVE  Frame(m, Wipe(m, a, n), lo, hi)
<1> DEFINE w == Wipe(m, a, n)
<1>1. ASSUME NEW b \in DOMAIN m, Outside(m, b, lo, hi) PROVE b \in DOMAIN w
  <2>1. b \in Nat /\ SizeOf(m[b]) \in Nat
    BY CellType DEF Typed, Bytes
  <2>2. ~Overlap(a, n, b, SizeOf(m[b]))
    BY <1>1, <2>1 DEF Outside, Overlap
  <2> QED BY <2>2, WipeIs
<1>2. \A b \in DOMAIN w : b \in DOMAIN m /\ w[b] = m[b]
  BY WipeIs
<1> HIDE DEF w
<1> QED BY <1>1, <1>2 DEF Frame, Outside, w

LEMMA StoreFrame ==
    ASSUME NEW m, Typed(m), NEW lo \in Int, NEW hi \in Int, NEW a \in Int, NEW x \in Cell,
           lo <= a, a + SizeOf(x) <= hi
    PROVE  Frame(m, Store(m, a, x), lo, hi)
<1> DEFINE w == Wipe(m, a, SizeOf(x))
           s == Store(m, a, x)
<1>0. SizeOf(x) \in Nat /\ SizeOf(x) > 0
  BY CellType
<1>1. Frame(m, w, lo, hi)
  BY <1>0, WipeFrame
<1>2. /\ (\A b : b \in DOMAIN s <=> b = a \/ b \in DOMAIN w) /\ s[a] = x
      /\ \A b \in DOMAIN w : b # a => s[b] = m[b]
  BY StoreIs
<1>3. \A b \in DOMAIN w : w[b] = m[b] /\ b \in DOMAIN m
  BY WipeIs
<1>4. ASSUME NEW b, b = a, SizeOf(m[b]) \in Nat, SizeOf(m[b]) > 0
      PROVE  ~Outside(m, b, lo, hi)
  BY <1>0, <1>4 DEF Outside
<1>5. ~Outside(s, a, lo, hi)
  BY <1>0, <1>2 DEF Outside
<1>6. \A b \in DOMAIN m : SizeOf(m[b]) \in Nat /\ SizeOf(m[b]) > 0
  BY CellType DEF Typed
<1> HIDE DEF w, s
<1>7. ASSUME NEW b \in DOMAIN m, Outside(m, b, lo, hi) PROVE b \in DOMAIN s /\ s[b] = m[b]
  BY <1>1, <1>2, <1>4, <1>6, <1>7 DEF Frame
<1>8. ASSUME NEW b \in DOMAIN s, Outside(s, b, lo, hi) PROVE b \in DOMAIN m /\ m[b] = s[b]
  BY <1>2, <1>3, <1>5, <1>8
<1> QED BY <1>7, <1>8 DEF Frame, s

(* A cell outside of what is stored is kept.                               *)
LEMMA StoreKeeps ==
    ASSUME NEW m, Typed(m), NEW a \in Int, NEW x \in Cell, NEW b \in DOMAIN m,
           b + SizeOf(m[b]) <= a \/ a + SizeOf(x) <= b
    PROVE  b \in DOMAIN Store(m, a, x) /\ Store(m, a, x)[b] = m[b]
<1>1. b \in Nat /\ SizeOf(m[b]) \in Nat /\ SizeOf(m[b]) > 0 /\ SizeOf(x) \in Nat
      /\ SizeOf(x) > 0
  BY CellType DEF Typed, Bytes
<1>2. ~Overlap(a, SizeOf(x), b, SizeOf(m[b])) /\ b # a
  BY <1>1 DEF Overlap
<1> QED BY <1>2, WipeIs, StoreIs

-----------------------------------------------------------------------------
(* Pieces.                                                                 *)

LEMMA PieceType ==
    ASSUME NEW m, Typed(m), NEW a, Is(m, a, "hdr")
    PROVE  /\ a \in Bytes /\ a \in Nat /\ m[a] \in Cell /\ m[a].size \in Bytes
           /\ m[a].size \in Nat /\ SizeOf(m[a]) = HDR /\ m[a].is_hole \in BOOLEAN
           /\ End(m, a) \in Nat /\ Foot(m, a) \in Int /\ Foot(m, a) + FTR = End(m, a)
BY CellType, Constants DEF Typed, Is, End, Foot, Bytes

(* Between lo and hi, the pieces R give way to the pieces N, which go up   *)
(* to hi2; either hi2 is hi, or the two are the old and the new end of the *)
(* heap.                                                                   *)
Replaces(m, m2, T, R, N, e, e2, lo, hi, hi2, hh) ==
    /\ Typed(m) /\ Typed(m2) /\ R \subseteq T
    /\ e \in Nat /\ e2 \in Nat /\ lo \in Nat /\ hi \in Nat /\ hi2 \in Nat /\ hh \in Nat
    /\ Tiles(m, T, e) /\ Frame(m, m2, lo, hh)
    /\ START <= lo /\ lo <= hi /\ lo <= hi2 /\ hi <= e
    /\ \/ hi2 = hi /\ hh = hi /\ e2 = e
       \/ hi = e /\ hi2 = e2 /\ hi <= hh /\ hi2 <= hh
    /\ \A a \in R : lo <= a /\ End(m, a) <= hi
    /\ \A a \in T \ R : End(m, a) <= lo \/ hi <= a
    /\ \A a \in N : /\ lo <= a /\ Is(m2, a, "hdr")
                    /\ Least <= m2[a].size /\ End(m2, a) <= hi2
    /\ Apart(m2, N) /\ Named(m2, N)
    /\ \A x \in lo..(hi2 - 1) : \E a \in N : a <= x /\ x < End(m2, a)

LEMMA Replace ==
    ASSUME NEW m, NEW m2, NEW T, NEW R, NEW N, NEW e, NEW e2, NEW lo, NEW hi, NEW hi2, NEW hh,
           Replaces(m, m2, T, R, N, e, e2, lo, hi, hi2, hh)
    PROVE  /\ Tiles(m2, (T \ R) \cup N, e2)
           /\ \A a \in T \ R : /\ m2[a] = m[a] /\ Is(m2, a, "hdr")
                               /\ Is(m, Foot(m, a), "ftr") => Is(m2, Foot(m, a), "ftr")
<1> USE DEF Replaces
<1> USE Constants
<1>0. Least \in Nat /\ Least >= HDR /\ Least >= FTR /\ Least > 0 /\ START \in Nat
  BY DEF Least
<1>1. \A a \in T : /\ a \in Nat /\ START <= a /\ Is(m, a, "hdr") /\ Least <= m[a].size
                   /\ End(m, a) <= e /\ m[a].size \in Nat /\ End(m, a) \in Nat
                   /\ End(m, a) = a + m[a].size /\ Foot(m, a) \in Int
                   /\ Foot(m, a) + FTR = End(m, a) /\ SizeOf(m[a]) = HDR
  BY PieceType DEF Tiles, Placed, End
<1>2. \A a \in N : /\ a \in Nat /\ m2[a].size \in Nat /\ End(m2, a) \in Nat
                   /\ End(m2, a) = a + m2[a].size
  BY PieceType DEF End
<1>3. \A a \in T \ R : End(m, a) <= lo \/ hh <= a
  <2> SUFFICES ASSUME NEW a \in T \ R PROVE End(m, a) <= lo \/ hh <= a
    OBVIOUS
  <2> QED BY <1>0, <1>1
<1>4. ASSUME NEW a \in T \ R
      PROVE  /\ a \in DOMAIN m2 /\ m2[a] = m[a]
             /\ Is(m, Foot(m, a), "ftr") => Is(m2, Foot(m, a), "ftr")
             /\ Is(m2, Foot(m, a), "ftr") => m2[Foot(m, a)].header = a
  <2>1. a \in DOMAIN m /\ Outside(m, a, lo, hh)
    BY <1>0, <1>1, <1>3 DEF Outside, Is
  <2>2. a \in DOMAIN m2 /\ m2[a] = m[a]
    BY <2>1 DEF Frame
  <2>3. ASSUME NEW mm, Typed(mm), Is(mm, Foot(m, a), "ftr")
        PROVE  Foot(m, a) \in DOMAIN mm /\ Outside(mm, Foot(m, a), lo, hh)
    <3>1. SizeOf(mm[Foot(m, a)]) = FTR
      BY <2>3, CellType DEF Typed, Is
    <3>2. Foot(m, a) >= a
      BY <1>0, <1>1
    <3> QED BY <1>1, <1>3, <2>3, <3>1, <3>2 DEF Outside, Is
  <2>4. ASSUME Is(m, Foot(m, a), "ftr") PROVE Is(m2, Foot(m, a), "ftr")
    BY <2>3, <2>4 DEF Frame, Is
  <2>5. ASSUME Is(m2, Foot(m, a), "ftr") PROVE m2[Foot(m, a)].header = a
    <3>1. Foot(m, a) \in DOMAIN m /\ m[Foot(m, a)] = m2[Foot(m, a)]
      BY <2>3, <2>5 DEF Frame
    <3>2. Is(m, Foot(m, a), "ftr")
      BY <2>5, <3>1 DEF Is
    <3> QED BY <3>1, <3>2 DEF Tiles, Named
  <2> QED BY <2>2, <2>4, <2>5
<1>5. \A a \in T \ R : m2[a] = m[a] /\ Is(m2, a, "hdr") /\ End(m2, a) = End(m, a)
                       /\ Foot(m2, a) = Foot(m, a)
  BY <1>1, <1>4 DEF Is, End, Foot
<1>6. Placed(m2, (T \ R) \cup N, e2)
  <2>1. \A a \in T \ R : End(m, a) <= e2
    BY <1>0, <1>1
  <2> QED BY <1>1, <1>2, <1>5, <2>1 DEF Placed
<1>7. Apart(m2, (T \ R) \cup N)
  <2> SUFFICES ASSUME NEW a \in (T \ R) \cup N, NEW k \in (T \ R) \cup N, a # k
               PROVE  End(m2, a) <= k \/ End(m2, k) <= a
    BY DEF Apart
  <2>1. CASE a \in N /\ k \in N
    BY <2>1 DEF Apart
  <2>2. CASE a \in T \ R /\ k \in T \ R
    BY <1>5, <2>2 DEF Apart, Tiles
  <2>3. CASE a \in T \ R /\ k \in N
    BY <1>1, <1>2, <1>3, <1>5, <2>3
  <2>4. CASE a \in N /\ k \in T \ R
    BY <1>1, <1>2, <1>3, <1>5, <2>4
  <2> QED BY <2>1, <2>2, <2>3, <2>4
<1>8. Covered(m2, (T \ R) \cup N, e2)
  <2> SUFFICES ASSUME NEW x \in START..(e2 - 1)
               PROVE  \E a \in (T \ R) \cup N : a <= x /\ x < End(m2, a)
    BY DEF Covered
  <2>1. CASE lo <= x /\ x < hi2
    <3>1. x \in lo..(hi2 - 1)
      BY <2>1
    <3> QED BY <3>1
  <2>2. CASE ~(lo <= x /\ x < hi2)
    <3>1. x \in START..(e - 1)
      BY <2>2
    <3>2. PICK a \in T : a <= x /\ x < End(m, a)
      BY <3>1 DEF Tiles, Covered
    <3>3. a \notin R
      BY <1>1, <2>2, <3>2
    <3> QED BY <1>5, <3>2, <3>3
  <2> QED BY <2>1, <2>2
<1>9. Named(m2, (T \ R) \cup N)
  BY <1>4, <1>5 DEF Named
<1> QED BY <1>4, <1>5, <1>6, <1>7, <1>8, <1>9 DEF Tiles

-----------------------------------------------------------------------------
(* The index.                                                              *)

(* A set of natural numbers has a least element, and a bounded one a       *)
(* greatest.                                                               *)
LEMMA LeastNat ==
    ASSUME NEW S, S \subseteq Nat, S # {}
    PROVE  \E x \in S : \A y \in S : x <= y
<1>1. IsWellFoundedOn(OpToRel(<, Nat), Nat)
  BY NatLessThanWellFounded
<1>2. PICK x \in S : \A y \in S : ~ (<<y, x>> \in OpToRel(<, Nat))
  BY <1>1, WFMin
<1>3. ASSUME NEW y \in S PROVE x <= y
  <2>1. <<y, x>> \in Nat \X Nat /\ x \in Nat /\ y \in Nat
    OBVIOUS
  <2>2. ~(<<y, x>>[1] < <<y, x>>[2])
    BY <1>2, <2>1, Zenon DEF OpToRel
  <2> QED BY <2>1, <2>2
<1> QED BY <1>3

LEMMA Greatest ==
    ASSUME NEW S, S \subseteq Nat, S # {}, NEW b \in Nat, \A y \in S : y <= b
    PROVE  Max(S) \in S /\ \A y \in S : y <= Max(S)
<1> DEFINE U == {u \in Nat : \A y \in S : y <= u}
<1>1. b \in U
  OBVIOUS
<1>2. PICK u \in U : \A w \in U : u <= w
  BY <1>1, LeastNat
<1>3. u \in S
  <2> SUFFICES ASSUME u \notin S PROVE FALSE
    OBVIOUS
  <2>1. \A y \in S : y < u
    BY <1>2
  <2>2. u # 0 /\ u - 1 \in Nat
    <3>1. PICK y \in S : y \in Nat
      OBVIOUS
    <3> QED BY <1>2, <2>1, <3>1
  <2>3. \A y \in S : y <= u - 1
    BY <1>2, <2>1, <2>2
  <2>4. u - 1 \in U
    BY <2>2, <2>3
  <2> QED BY <1>2, <2>2, <2>4
<1>4. u \in S /\ \A y \in S : u >= y
  BY <1>2, <1>3
<1>5. \E x \in S : \A y \in S : x >= y
  BY <1>4
<1>6. Max(S) \in S /\ \A y \in S : Max(S) >= y
  BY <1>5, Zenon DEF Max
<1> QED BY <1>6

LEMMA Smallest ==
    ASSUME NEW S, S \subseteq Nat, S # {}
    PROVE  Min(S) \in S
<1>1. \E x \in S : \A y \in S : x <= y
  BY LeastNat
<1> QED BY <1>1, Zenon DEF Min

(* What remove_ordered_array makes of the index: the item is gone, and two *)
(* NULLs are at the end.                                                   *)
LEMMA RemoveIs ==
    ASSUME NEW ix \in Seq(Bytes), NEW k \in 1..Len(ix)
    PROVE  /\ remove_ordered_array(ix, k) \in Seq(Bytes)
           /\ Len(remove_ordered_array(ix, k)) = Len(ix) + 1
           /\ \A j \in 1..(Len(ix) + 1) :
                 remove_ordered_array(ix, k)[j] = IF j < k THEN ix[j]
                                                  ELSE IF j < Len(ix) THEN ix[j + 1]
                                                  ELSE NULL
<1> DEFINE l == SubSeq(ix, 1, k - 1)
           r == SubSeq(ix, k + 1, Len(ix))
           z == <<NULL, NULL>>
<1>0. Len(ix) \in Nat /\ \A i \in 1..Len(ix) : ix[i] \in Bytes
  OBVIOUS
<1>1. /\ l \in Seq(Bytes) /\ Len(l) = k - 1 /\ \A i \in 1..(k - 1) : l[i] = ix[i]
  <2>1. \A i \in 1..(k - 1) : ix[i] \in Bytes
    BY <1>0
  <2>2. /\ l \in Seq(Bytes) /\ Len(l) = IF 1 <= k - 1 THEN k - 1 - 1 + 1 ELSE 0
        /\ \A i \in 1..(k - 1 - 1 + 1) : l[i] = ix[1 + i - 1]
    BY <2>1, SubSeqProperties
  <2> HIDE DEF l
  <2> QED BY <2>2
<1>2. /\ r \in Seq(Bytes) /\ Len(r) = Len(ix) - k
      /\ \A i \in 1..(Len(ix) - k) : r[i] = ix[k + i]
  <2>1. \A i \in (k + 1)..Len(ix) : ix[i] \in Bytes
    BY <1>0
  <2>2. /\ r \in Seq(Bytes) /\ Len(r) = IF k + 1 <= Len(ix) THEN Len(ix) - (k + 1) + 1 ELSE 0
        /\ \A i \in 1..(Len(ix) - (k + 1) + 1) : r[i] = ix[(k + 1) + i - 1]
    BY <1>0, <2>1, SubSeqProperties
  <2> HIDE DEF r
  <2>3. Len(r) = Len(ix) - k
    BY <1>0, <2>2
  <2>4. ASSUME NEW i \in 1..(Len(ix) - k) PROVE r[i] = ix[k + i]
    <3>1. i \in 1..(Len(ix) - (k + 1) + 1) /\ (k + 1) + i - 1 = k + i
      BY <1>0
    <3> QED BY <2>2, <3>1
  <2> QED BY <2>2, <2>3, <2>4
<1>3. z \in Seq(Bytes) /\ Len(z) = 2 /\ z[1] = NULL /\ z[2] = NULL
  BY Constants DEF NULL, Bytes
<1>4. remove_ordered_array(ix, k) = (l \o r) \o z
  BY DEF remove_ordered_array, RemoveAt
<1> HIDE DEF l, r, z
<1>5. /\ l \o r \in Seq(Bytes) /\ Len(l \o r) = Len(ix) - 1
      /\ \A j \in 1..(Len(ix) - 1) : (l \o r)[j] = IF j < k THEN ix[j] ELSE ix[j + 1]
  <2>1. /\ l \o r \in Seq(Bytes) /\ Len(l \o r) = Len(l) + Len(r)
        /\ \A j \in 1..(Len(l) + Len(r)) :
               (l \o r)[j] = IF j <= Len(l) THEN l[j] ELSE r[j - Len(l)]
    BY <1>1, <1>2, ConcatProperties
  <2>2. Len(l) + Len(r) = Len(ix) - 1
    BY <1>0, <1>1, <1>2
  <2>3. ASSUME NEW j \in 1..(Len(ix) - 1)
        PROVE  (l \o r)[j] = IF j < k THEN ix[j] ELSE ix[j + 1]
    <3>1. CASE j < k
      <4>1. j \in 1..(k - 1) /\ j <= Len(l)
        BY <1>0, <1>1, <3>1
      <4> QED BY <1>1, <2>1, <2>2, <3>1, <4>1
    <3>2. CASE ~(j < k)
      <4>1. j - Len(l) \in 1..(Len(ix) - k) /\ ~(j <= Len(l)) /\ k + (j - Len(l)) = j + 1
        BY <1>0, <1>1, <3>2
      <4> QED BY <1>2, <2>1, <2>2, <3>2, <4>1
    <3> QED BY <3>1, <3>2
  <2> QED BY <2>1, <2>2, <2>3
<1>6. PICK q \in Seq(Bytes) : q = l \o r
  BY <1>5
<1>7. /\ q \o z \in Seq(Bytes) /\ Len(q \o z) = Len(q) + Len(z)
      /\ \A j \in 1..(Len(q) + Len(z)) :
             (q \o z)[j] = IF j <= Len(q) THEN q[j] ELSE z[j - Len(q)]
  BY <1>3, ConcatProperties
<1>8. Len(q) + Len(z) = Len(ix) + 1
  BY <1>0, <1>3, <1>5, <1>6
<1>9. ASSUME NEW j \in 1..(Len(ix) + 1)
      PROVE  (q \o z)[j] = IF j < k THEN ix[j] ELSE IF j < Len(ix) THEN ix[j + 1] ELSE NULL
  <2>1. CASE j < Len(ix)
    <3>1. j \in 1..(Len(ix) - 1) /\ j <= Len(q)
      BY <1>0, <1>5, <1>6, <2>1
    <3> QED BY <1>5, <1>6, <1>7, <1>8, <2>1, <3>1
  <2>2. CASE ~(j < Len(ix))
    <3>1. ~(j <= Len(q)) /\ j - Len(q) \in 1..2 /\ ~(j < k)
      <4>1. Len(q) = Len(ix) - 1 /\ k <= Len(ix) /\ Len(ix) \in Nat /\ k \in Nat
        BY <1>0, <1>5, <1>6
      <4>2. j \in Nat /\ Len(ix) <= j /\ j <= Len(ix) + 1
        BY <2>2, <4>1
      <4> QED BY <4>1, <4>2
    <3>2. z[j - Len(q)] = NULL
      <4>1. j - Len(q) = 1 \/ j - Len(q) = 2
        BY <3>1
      <4> QED BY <1>3, <4>1
    <3> QED BY <1>7, <1>8, <2>2, <3>1, <3>2
  <2> QED BY <2>1, <2>2
<1> QED BY <1>4, <1>6, <1>7, <1>8, <1>9

LEMMA RemoveHoles ==
    ASSUME NEW ix \in Seq(Bytes), NEW k \in 1..Len(ix), Distinct(ix), ix[k] # NULL
    PROVE  /\ HolesIn(remove_ordered_array(ix, k)) = HolesIn(ix) \ {ix[k]}
           /\ Distinct(remove_ordered_array(ix, k))
<1>1. PICK r : r = remove_ordered_array(ix, k)
  OBVIOUS
<1>2. PICK n \in Nat : n = Len(ix)
  OBVIOUS
<1>3. /\ Len(r) = n + 1 /\ k \in 1..n
      /\ \A j \in 1..(n + 1) : r[j] = IF j < k THEN ix[j] ELSE IF j < n THEN ix[j + 1] ELSE NULL
  BY <1>1, <1>2, RemoveIs
<1> DEFINE old(j) == IF j < k THEN j ELSE j + 1
<1>4. ASSUME NEW j \in 1..(n + 1), r[j] # NULL
      PROVE  old(j) \in 1..n /\ old(j) # k /\ r[j] = ix[old(j)]
  BY <1>3, <1>4
<1>5. ASSUME NEW x \in HolesIn(r) PROVE x \in HolesIn(ix) \ {ix[k]}
  <2>1. PICK j \in 1..(n + 1) : x = r[j] /\ x # NULL
    BY <1>3 DEF HolesIn
  <2>2. old(j) \in 1..n /\ old(j) # k /\ x = ix[old(j)]
    BY <1>4, <2>1
  <2> HIDE DEF old
  <2>3. x # ix[k]
    BY <1>2, <1>3, <2>1, <2>2 DEF Distinct
  <2> QED BY <1>2, <2>1, <2>2, <2>3 DEF HolesIn
<1>6. ASSUME NEW x \in HolesIn(ix) \ {ix[k]} PROVE x \in HolesIn(r)
  <2>1. PICK i \in 1..n : x = ix[i] /\ x # NULL /\ i # k
    BY <1>2 DEF HolesIn
  <2>2. CASE i < k
    <3>1. i \in 1..(n + 1) /\ r[i] = x
      BY <1>3, <2>1, <2>2
    <3> QED BY <1>3, <2>1, <3>1 DEF HolesIn
  <2>3. CASE i > k
    <3>1. i - 1 \in 1..(n + 1) /\ ~(i - 1 < k) /\ i - 1 < n /\ (i - 1) + 1 = i
      BY <1>3, <2>1, <2>3
    <3>2. r[i - 1] = x
      BY <1>3, <2>1, <3>1
    <3> QED BY <1>3, <2>1, <3>1, <3>2 DEF HolesIn
  <2> QED BY <1>3, <2>1, <2>2, <2>3
<1>7. ASSUME NEW i \in 1..(n + 1), NEW j \in 1..(n + 1), i # j, r[i] # NULL PROVE r[i] # r[j]
  <2> SUFFICES ASSUME r[i] = r[j] PROVE FALSE
    OBVIOUS
  <2>1. old(i) \in 1..n /\ r[i] = ix[old(i)] /\ old(j) \in 1..n /\ r[j] = ix[old(j)]
    BY <1>4, <1>7
  <2>2. old(i) # old(j)
    BY <1>3, <1>7
  <2> HIDE DEF old
  <2> QED BY <1>2, <1>7, <2>1, <2>2 DEF Distinct
<1>8. Distinct(r)
  BY <1>3, <1>7 DEF Distinct
<1> QED BY <1>1, <1>5, <1>6, <1>8

(* What insert_ordered_array makes of the index, wherever the item goes.   *)
Inserted(r, ix, item) ==
    \E s \in 1..(Len(ix) + 1) :
        /\ r \in Seq(Bytes) /\ Len(r) = Len(ix) + 1
        /\ \A j \in 1..(Len(ix) + 1) :
              r[j] = IF j < s THEN ix[j] ELSE IF j = s THEN item ELSE ix[j - 1]

LEMMA InsertIs ==
    ASSUME NEW ix \in Seq(Bytes), NEW item \in Bytes, NEW lesser
    PROVE  Inserted(insert_ordered_array(ix, item, lesser), ix, item)
<1> SUFFICES \E s \in 1..(Len(ix) + 1) :
                /\ insert_ordered_array(ix, item, lesser) \in Seq(Bytes)
                /\ Len(insert_ordered_array(ix, item, lesser)) = Len(ix) + 1
                /\ \A j \in 1..(Len(ix) + 1) :
                      insert_ordered_array(ix, item, lesser)[j] =
                          IF j < s THEN ix[j] ELSE IF j = s THEN item ELSE ix[j - 1]
  BY DEF Inserted
<1> DEFINE stop == SelectInSeq(ix, LAMBDA x : x \notin lesser)
           I    == {i \in 1..Len(ix) : ix[i] \notin lesser}
           res  == insert_ordered_array(ix, item, lesser)
<1>0. Len(ix) \in Nat /\ \A i \in 1..Len(ix) : ix[i] \in Bytes
  OBVIOUS
<1>1. stop = 0 \/ stop \in 1..Len(ix)
  <2>1. stop = IF I # {} THEN Min(I) ELSE 0
    BY DEF SelectInSeq
  <2>2. I \subseteq Nat
    OBVIOUS
  <2>3. I # {} => Min(I) \in I
    BY <2>2, Smallest
  <2>4. I \subseteq 1..Len(ix)
    OBVIOUS
  <2> HIDE DEF I, stop
  <2> QED BY <2>1, <2>3, <2>4
<1>2. res = IF stop = 0 THEN Append(ix, item) ELSE InsertAt(ix, stop, item)
  BY DEF insert_ordered_array
<1> HIDE DEF stop, res
<1>3. CASE stop = 0
  <2>1. /\ Append(ix, item) \in Seq(Bytes) /\ Len(Append(ix, item)) = Len(ix) + 1
    OBVIOUS
  <2>2. ASSUME NEW j \in 1..(Len(ix) + 1)
        PROVE  Append(ix, item)[j] = IF j < Len(ix) + 1 THEN ix[j]
                                     ELSE IF j = Len(ix) + 1 THEN item ELSE ix[j - 1]
    <3>1. CASE j < Len(ix) + 1
      <4>1. j \in 1..Len(ix)
        BY <1>0, <3>1
      <4> QED BY <3>1, <4>1
    <3>2. CASE j = Len(ix) + 1
      BY <1>0, <3>2
    <3> QED BY <1>0, <3>1, <3>2
  <2>3. Len(ix) + 1 \in 1..(Len(ix) + 1)
    BY <1>0
  <2>4. res = Append(ix, item)
    BY <1>2, <1>3
  <2> QED BY <2>1, <2>2, <2>3, <2>4 DEF res
<1>4. CASE stop \in 1..Len(ix)
  <2>1. PICK s \in 1..Len(ix) : s = stop
    BY <1>4
  <2> DEFINE l == SubSeq(ix, 1, s - 1)
             d == <<item>>
             r == SubSeq(ix, s, Len(ix))
  <2>2. /\ l \in Seq(Bytes) /\ Len(l) = s - 1 /\ \A i \in 1..(s - 1) : l[i] = ix[i]
    <3>1. \A i \in 1..(s - 1) : ix[i] \in Bytes
      BY <1>0
    <3>2. /\ l \in Seq(Bytes) /\ Len(l) = IF 1 <= s - 1 THEN s - 1 - 1 + 1 ELSE 0
          /\ \A i \in 1..(s - 1 - 1 + 1) : l[i] = ix[1 + i - 1]
      BY <3>1, SubSeqProperties
    <3> HIDE DEF l
    <3> QED BY <3>2
  <2>3. /\ r \in Seq(Bytes) /\ Len(r) = Len(ix) - s + 1
        /\ \A i \in 1..(Len(ix) - s + 1) : r[i] = ix[s + i - 1]
    <3>1. \A i \in s..Len(ix) : ix[i] \in Bytes
      BY <1>0
    <3>2. /\ r \in Seq(Bytes) /\ Len(r) = IF s <= Len(ix) THEN Len(ix) - s + 1 ELSE 0
          /\ \A i \in 1..(Len(ix) - s + 1) : r[i] = ix[s + i - 1]
      BY <1>0, <3>1, SubSeqProperties
    <3> HIDE DEF r
    <3> QED BY <1>0, <3>2
  <2>4. d \in Seq(Bytes) /\ Len(d) = 1 /\ d[1] = item
    OBVIOUS
  <2>5. res = (l \o d) \o r
    BY <1>2, <1>4, <2>1 DEF InsertAt
  <2> HIDE DEF l, d, r
  <2>6. PICK q \in Seq(Bytes) : q = l \o d
    BY <2>2, <2>4, ConcatProperties
  <2>7. /\ Len(q) = Len(l) + Len(d)
        /\ \A j \in 1..(Len(l) + Len(d)) : q[j] = IF j <= Len(l) THEN l[j] ELSE d[j - Len(l)]
    BY <2>2, <2>4, <2>6, ConcatProperties
  <2>8. Len(q) = s /\ \A j \in 1..s : q[j] = IF j < s THEN ix[j] ELSE item
    <3>1. Len(q) = s /\ Len(l) + Len(d) = s
      BY <2>2, <2>4, <2>7
    <3>2. ASSUME NEW j \in 1..s PROVE q[j] = IF j < s THEN ix[j] ELSE item
      <4>1. CASE j < s
        <5>1. j \in 1..(s - 1) /\ j <= Len(l)
          BY <2>2, <4>1
        <5> QED BY <2>2, <2>7, <3>1, <4>1, <5>1
      <4>2. CASE ~(j < s)
        <5>1. j - Len(l) = 1 /\ ~(j <= Len(l))
          BY <2>2, <4>2
        <5> QED BY <2>4, <2>7, <3>1, <4>2, <5>1
      <4> QED BY <4>1, <4>2
    <3> QED BY <3>1, <3>2
  <2>9. /\ q \o r \in Seq(Bytes) /\ Len(q \o r) = Len(q) + Len(r)
        /\ \A j \in 1..(Len(q) + Len(r)) :
               (q \o r)[j] = IF j <= Len(q) THEN q[j] ELSE r[j - Len(q)]
    BY <2>3, ConcatProperties
  <2>10. Len(q) + Len(r) = Len(ix) + 1
    BY <1>0, <2>3, <2>8
  <2>11. ASSUME NEW j \in 1..(Len(ix) + 1)
         PROVE  (q \o r)[j] = IF j < s THEN ix[j] ELSE IF j = s THEN item ELSE ix[j - 1]
    <3>1. CASE j <= s
      <4>1. j \in 1..s /\ j <= Len(q)
        BY <2>8, <3>1
      <4>2. (q \o r)[j] = q[j] /\ (~(j < s) => j = s)
        BY <2>9, <2>10, <3>1, <4>1
      <4> QED BY <2>8, <4>1, <4>2
    <3>2. CASE ~(j <= s)
      <4>1. /\ ~(j <= Len(q)) /\ j - Len(q) \in 1..(Len(ix) - s + 1)
            /\ s + (j - Len(q)) - 1 = j - 1 /\ ~(j < s) /\ j # s
        BY <1>0, <2>8, <3>2
      <4> QED BY <2>3, <2>9, <2>10, <4>1
    <3> QED BY <3>1, <3>2
  <2>12. s \in 1..(Len(ix) + 1)
    BY <1>0
  <2>13. /\ res = q \o r /\ q \o r \in Seq(Bytes) /\ Len(q \o r) = Len(ix) + 1
    BY <2>5, <2>6, <2>9, <2>10
  <2> QED BY <2>11, <2>12, <2>13 DEF res
<1> QED BY <1>1, <1>3, <1>4

LEMMA InsertHoles ==
    ASSUME NEW ix \in Seq(Bytes), NEW item \in Bytes, NEW m
    PROVE  /\ Insert(ix, m, item) \in Seq(Bytes)
           /\ item # NULL => HolesIn(Insert(ix, m, item)) = HolesIn(ix) \cup {item}
           /\ Distinct(ix) /\ item \notin HolesIn(ix) /\ item # NULL =>
                  Distinct(Insert(ix, m, item))
<1>1. PICK r : r = Insert(ix, m, item)
  OBVIOUS
<1>2. PICK n \in Nat : n = Len(ix)
  OBVIOUS
<1>3. PICK s \in 1..(n + 1) :
        /\ r \in Seq(Bytes) /\ Len(r) = n + 1
        /\ \A j \in 1..(n + 1) : r[j] = IF j < s THEN ix[j] ELSE IF j = s THEN item ELSE ix[j - 1]
  <2>1. PICK lesser : r = insert_ordered_array(ix, item, lesser)
    BY <1>1 DEF Insert
  <2>2. Inserted(r, ix, item)
    BY <2>1, InsertIs
  <2> QED BY <1>2, <2>2, Zenon DEF Inserted
<1> DEFINE old(j) == IF j < s THEN j ELSE j - 1
<1>4. ASSUME NEW j \in 1..(n + 1), j # s PROVE old(j) \in 1..n /\ r[j] = ix[old(j)]
  BY <1>3, <1>4
<1>5. r[s] = item
  BY <1>3
<1>6. ASSUME item # NULL PROVE HolesIn(r) = HolesIn(ix) \cup {item}
  <2>1. ASSUME NEW x \in HolesIn(r) PROVE x \in HolesIn(ix) \cup {item}
    <3>1. PICK j \in 1..(n + 1) : x = r[j] /\ x # NULL
      BY <1>3 DEF HolesIn
    <3>2. CASE j = s
      BY <1>5, <3>1, <3>2
    <3>3. CASE j # s
      <4>1. old(j) \in 1..n /\ x = ix[old(j)]
        BY <1>4, <3>1, <3>3
      <4> HIDE DEF old
      <4> QED BY <1>2, <3>1, <4>1 DEF HolesIn
    <3> QED BY <3>2, <3>3
  <2>2. item \in HolesIn(r)
    BY <1>3, <1>5, <1>6 DEF HolesIn
  <2>3. ASSUME NEW x \in HolesIn(ix) PROVE x \in HolesIn(r)
    <3>1. PICK i \in 1..n : x = ix[i] /\ x # NULL
      BY <1>2 DEF HolesIn
    <3>2. CASE i < s
      <4>1. i \in 1..(n + 1) /\ r[i] = x
        BY <1>3, <3>1, <3>2
      <4> QED BY <1>3, <3>1, <4>1 DEF HolesIn
    <3>3. CASE ~(i < s)
      <4>1. i + 1 \in 1..(n + 1) /\ ~(i + 1 < s) /\ i + 1 # s /\ (i + 1) - 1 = i
        BY <3>1, <3>3
      <4>2. r[i + 1] = x
        BY <1>3, <3>1, <4>1
      <4> QED BY <1>3, <3>1, <4>1, <4>2 DEF HolesIn
    <3> QED BY <3>2, <3>3
  <2> QED BY <2>1, <2>2, <2>3
<1>7. ASSUME Distinct(ix), item \notin HolesIn(ix), item # NULL PROVE Distinct(r)
  <2>1. ASSUME NEW i \in 1..(n + 1), NEW j \in 1..(n + 1), i # j, r[i] # NULL, r[i] = r[j]
        PROVE  FALSE
    <3>1. ASSUME NEW k \in 1..(n + 1), k # s, r[k] = item PROVE FALSE
      <4>1. old(k) \in 1..n /\ item = ix[old(k)]
        BY <1>4, <3>1
      <4> HIDE DEF old
      <4> QED BY <1>2, <1>7, <4>1 DEF HolesIn
    <3>2. i # s /\ j # s
      BY <1>5, <2>1, <3>1
    <3>3. old(i) \in 1..n /\ r[i] = ix[old(i)] /\ old(j) \in 1..n /\ r[j] = ix[old(j)]
      BY <1>4, <3>2
    <3>4. old(i) # old(j)
      BY <1>3, <2>1, <3>2
    <3> HIDE DEF old
    <3> QED BY <1>2, <1>7, <2>1, <3>3, <3>4 DEF Distinct
  <2> QED BY <1>3, <2>1 DEF Distinct
<1> QED BY <1>1, <1>3, <1>6, <1>7

-----------------------------------------------------------------------------
(* Rounding.                                                               *)

LEMMA DivMod ==
    ASSUME NEW x \in Nat, NEW m \in Nat, m > 0
    PROVE  /\ x \div m \in Nat /\ x % m \in 0..(m - 1)
           /\ x = (x \div m) * m + (x % m)
OBVIOUS

LEMMA Multiples ==
    ASSUME NEW a \in Nat, NEW b \in Nat, a < b, NEW m \in Nat
    PROVE  a * m + m <= b * m
<1>1. PICK d \in Nat : b = a + 1 + d
  <2>1. b - a - 1 \in Nat /\ b = a + 1 + (b - a - 1)
    OBVIOUS
  <2> QED BY <2>1
<1>2. b * m = a * m + m + d * m
  BY <1>1
<1>3. d * m \in Nat /\ a * m \in Nat
  OBVIOUS
<1> QED BY <1>2, <1>3

LEMMA DivMonotone ==
    ASSUME NEW x \in Nat, NEW y \in Nat, x <= y, NEW m \in Nat, m > 0
    PROVE  (x \div m) * m <= (y \div m) * m
<1>1. PICK q \in Nat : q = x \div m /\ q * m <= x
  <2>1. x \div m \in Nat /\ (x \div m) * m <= x
    BY DivMod
  <2> QED BY <2>1
<1>2. PICK s \in Nat : s = y \div m /\ y < s * m + m
  <2>1. y \div m \in Nat /\ y < (y \div m) * m + m
    BY DivMod
  <2> QED BY <2>1
<1>3. q * m \in Nat /\ s * m \in Nat
  OBVIOUS
<1>4. CASE s < q
  <2>1. s * m + m <= q * m
    BY <1>4, Multiples
  <2> QED BY <1>1, <1>2, <1>3, <2>1
<1>5. CASE q < s
  <2>1. q * m + m <= s * m
    BY <1>5, Multiples
  <2> QED BY <1>1, <1>2, <1>3, <2>1
<1>6. CASE q = s
  BY <1>1, <1>2, <1>3, <1>6
<1> QED BY <1>4, <1>5, <1>6

LEMMA Rounding ==
    ASSUME NEW x \in Nat
    PROVE  /\ RoundDown(x) \in Nat /\ RoundDown(x) <= x /\ x < RoundDown(x) + PAGE
           /\ RoundUp(x) \in Nat /\ x <= RoundUp(x)
<1>1. PICK p \in Nat : p = PAGE /\ p > 0
  BY Constants
<1>2. (x \div p) * p \in Nat /\ (x \div p) * p <= x /\ x < (x \div p) * p + p
  BY <1>1, DivMod
<1>3. PICK y \in Nat : y = x + p - 1
  BY <1>1
<1>4. (y \div p) * p \in Nat /\ y < (y \div p) * p + p
  BY <1>1, DivMod
<1>5. (y \div p) * p >= x
  BY <1>1, <1>3, <1>4
<1> QED BY <1>1, <1>2, <1>3, <1>4, <1>5 DEF RoundDown, RoundUp

LEMMA RoundUpMonotone ==
    ASSUME NEW x \in Nat, NEW y \in Nat, x <= y
    PROVE  RoundUp(x) <= RoundUp(y)
<1>1. PAGE \in Nat /\ PAGE > 0
  BY Constants
<1>2. x + PAGE - 1 \in Nat /\ y + PAGE - 1 \in Nat /\ x + PAGE - 1 <= y + PAGE - 1
  BY <1>1
<1> QED BY <1>1, <1>2, DivMonotone DEF RoundUp

LEMMA RoundDownAbove ==
    ASSUME NEW x \in Nat, NEW b \in Nat, b % PAGE = 0, b <= x
    PROVE  b <= RoundDown(x)
<1>1. PAGE \in Nat /\ PAGE > 0
  BY Constants
<1>2. b = (b \div PAGE) * PAGE
  BY <1>1, DivMod
<1> QED BY <1>1, <1>2, DivMonotone DEF RoundDown

LEMMA Largest ==
    ASSUME NEW a \in Int, NEW b \in Int
    PROVE  Max({a, b}) = IF a >= b THEN a ELSE b
<1>1. \E x \in {a, b} : \A y \in {a, b} : x >= y
  OBVIOUS
<1>2. Max({a, b}) \in {a, b} /\ \A y \in {a, b} : Max({a, b}) >= y
  BY <1>1, Zenon DEF Max
<1> QED BY <1>2

LEMMA Expansion ==
    ASSUME NEW x \in Nat
    PROVE  RoundExpand(x) \in Nat /\ x <= RoundExpand(x)
BY Rounding, Constants DEF RoundExpand

(* expand maps pages up to less than a page before the new end, and no     *)
(* page beyond the one in which max_address is.                            *)
LEMMA MappedEndIs ==
    ASSUME NEW old \in Nat, NEW new \in Nat, old < new, START + new <= MAX
    PROVE  /\ MappedEnd(old, new) \in Nat /\ START <= MappedEnd(old, new)
           /\ START + new < MappedEnd(old, new) + PAGE
           /\ MappedEnd(old, new) <= RoundUp(MAX)
<1> USE Linear
<1>1. PICK d \in Nat : d = new - old - 1
  OBVIOUS
<1>2. PICK z \in Nat : z = PAGE * (d \div PAGE) /\ z <= d /\ d < z + PAGE
  <2>1. d \div PAGE \in Nat /\ (d \div PAGE) * PAGE <= d /\ d < (d \div PAGE) * PAGE + PAGE
    BY DivMod
  <2>2. PICK q \in Nat : q = d \div PAGE
    BY <2>1
  <2>3. PAGE * q = q * PAGE /\ q * PAGE \in Nat
    OBVIOUS
  <2> QED BY <2>1, <2>2, <2>3
<1>3. PICK x \in Nat : /\ x = START + old + z /\ x + 1 <= START + new
                       /\ START + new <= x + PAGE /\ START <= x
  BY <1>1, <1>2
<1>4. MappedEnd(old, new) = RoundDown(x) + PAGE
  BY <1>1, <1>2, <1>3 DEF MappedEnd
<1>5. RoundDown(x) \in Nat /\ RoundDown(x) <= x /\ x < RoundDown(x) + PAGE
  BY Rounding
<1>6. (RoundDown(x) + PAGE) % PAGE = 0
  <2>1. PICK q \in Nat : q = x \div PAGE
    BY DivMod
  <2>2. RoundDown(x) + PAGE = (q + 1) * PAGE
    BY <2>1 DEF RoundDown
  <2>3. ASSUME NEW k \in Nat, NEW p \in Nat, p > 0 PROVE (k * p) % p = 0
    BY <2>3
  <2>4. ((q + 1) * PAGE) % PAGE = 0
    <3>1. q + 1 \in Nat
      OBVIOUS
    <3> QED BY <2>3, <3>1, Zenon
  <2> QED BY <2>2, <2>4
<1>7. RoundDown(x) + PAGE <= RoundUp(MAX)
  <2>1. PICK y \in Nat : y = MAX + PAGE - 1 /\ RoundDown(x) + PAGE <= y
    BY <1>3, <1>5
  <2>2. RoundDown(x) + PAGE \in Nat
    BY <1>5
  <2>3. RoundDown(x) + PAGE <= RoundDown(y)
    BY <1>6, <2>1, <2>2, RoundDownAbove
  <2>4. RoundUp(MAX) = RoundDown(y)
    BY <2>1 DEF RoundUp, RoundDown
  <2> QED BY <2>3, <2>4
<1> QED BY <1>3, <1>4, <1>5, <1>7

(* What contract makes of the size is the least size, or no room for the   *)
(* hole is left.                                                           *)
LEMMA Contraction ==
    ASSUME NEW x \in Nat
    PROVE  /\ RoundContract(x) \in Nat /\ HEAP_MIN_SIZE <= RoundContract(x)
           /\ RoundContract(x) = HEAP_MIN_SIZE \/ RoundContract(x) = x
<1> DEFINE y == IF (x \div PAGE) % 2 = 1 THEN 2 * PAGE ELSE x
<1>1. y \in Nat /\ HEAP_MIN_SIZE \in Nat /\ (y = x \/ y <= HEAP_MIN_SIZE)
  BY Constants
<1>2. RoundContract(x) = Max({HEAP_MIN_SIZE, y})
  BY DEF RoundContract
<1> HIDE DEF y
<1>3. RoundContract(x) = IF HEAP_MIN_SIZE >= y THEN HEAP_MIN_SIZE ELSE y
  BY <1>1, <1>2, Largest
<1> QED BY <1>1, <1>3

(* The pages that contract gives up lie behind the new end of the heap.    *)
LEMMA GivenUpBehind ==
    ASSUME NEW old \in Nat, HEAP_MIN_SIZE < old
    PROVE  /\ GivenUp(old, HEAP_MIN_SIZE) \in Nat
           /\ START + HEAP_MIN_SIZE <= GivenUp(old, HEAP_MIN_SIZE)
           /\ GivenUp(old, HEAP_MIN_SIZE) <= START + old
<1> USE Constants
<1>1. PICK d \in Nat : d = old - HEAP_MIN_SIZE - 1
  OBVIOUS
<1>2. PICK z \in Nat : z = PAGE * (d \div PAGE) /\ z <= d
  <2>1. (d \div PAGE) \in Nat /\ (d \div PAGE) * PAGE <= d
    BY DivMod
  <2>2. PICK q \in Nat : q = d \div PAGE
    BY <2>1
  <2>3. PAGE * q = q * PAGE /\ q * PAGE \in Nat
    OBVIOUS
  <2> QED BY <2>1, <2>2, <2>3
<1>3. PICK x \in Nat : x = START + old - z /\ START + HEAP_MIN_SIZE <= x /\ x <= START + old
  BY <1>1, <1>2
<1>4. (START + HEAP_MIN_SIZE) % PAGE = 0
  <2>1. START = (START \div PAGE) * PAGE /\ START \div PAGE \in Nat
    BY DivMod
  <2>2. HEAP_MIN_SIZE = (HEAP_MIN_SIZE \div PAGE) * PAGE /\ HEAP_MIN_SIZE \div PAGE \in Nat
    BY DivMod
  <2>3. PICK a \in Nat, b \in Nat : START = a * PAGE /\ HEAP_MIN_SIZE = b * PAGE
    BY <2>1, <2>2
  <2>4. START + HEAP_MIN_SIZE = (a + b) * PAGE
    BY <2>3
  <2>5. ASSUME NEW k \in Nat, NEW p \in Nat, p > 0 PROVE (k * p) % p = 0
    BY <2>5
  <2>6. a + b \in Nat
    OBVIOUS
  <2>7. ((a + b) * PAGE) % PAGE = 0
    BY <2>5, <2>6, Zenon
  <2> QED BY <2>4, <2>7
<1>5. GivenUp(old, HEAP_MIN_SIZE) = RoundDown(x)
  BY <1>1, <1>2, <1>3 DEF GivenUp
<1>6. START + HEAP_MIN_SIZE <= RoundDown(x)
  <2>1. START + HEAP_MIN_SIZE \in Nat
    OBVIOUS
  <2> QED BY <1>3, <1>4, <2>1, RoundDownAbove
<1> QED BY <1>3, <1>5, <1>6, Rounding

-----------------------------------------------------------------------------
(* Types.                                                                  *)

LEMMA RequestType ==
    ASSUME NEW r \in Requests
    PROVE  r[1] \in Nat /\ MAX + r[1] + HDR + FTR + PAGE < U32 /\ r[2] \in BOOLEAN
<1>1. r[1] \in Sizes \cup AlignedSizes /\ r[2] \in BOOLEAN
  BY DEF Requests
<1> QED BY <1>1, KheapAssumption, Constants

LEMMA RequestPair == ASSUME NEW r \in Requests PROVE r = <<r[1], r[2]>>
<1>1. r \in (Sizes \cup AlignedSizes) \X BOOLEAN
  BY DEF Requests
<1> QED BY <1>1

LEMMA SizeAtType == ASSUME NEW m, Typed(m), NEW a PROVE SizeAt(m, a) \in Bytes
BY PieceType, Constants DEF SizeAt

LEMMA TypeParts ==
    ASSUME TypeOK
    PROVE  /\ Typed(mem) /\ index \in Seq(Bytes) /\ end_address \in Nat /\ top \in Nat
           /\ START <= end_address /\ end_address <= MAX /\ end_address < top + PAGE
           /\ end_address \in Bytes
           /\ \A b \in live : b[1] \in Nat /\ b[2] \in Nat /\ b = <<b[1], b[2]>>
<1>1. RoundUp(MAX) \in Nat
  BY Rounding, Constants
<1> QED BY <1>1, Constants DEF TypeOK, Typed, Bytes

(* An index that has not overrun its array.                                *)
LEMMA InArray ==
    ASSUME NEW ix \in Seq(Bytes), ~Overrun(ix) PROVE Len(ix) <= HEAP_INDEX_SIZE
BY Constants DEF Overrun

LEMMA StopType ==
    ASSUME TypeOK, Stop("full") \/ Stop("assert") \/ Stop("page_fault") \/ Stop("wild")
                   \/ Stop("overrun")
    PROVE  TypeOK' /\ end_address' = end_address
BY DEF Stop, TypeOK, RoundUp, Requests, Cell

LEMMA Found ==
    ASSUME TypeOK, NEW size, NEW page_align
    PROVE  /\ find_smallest_hole(size, page_align) \in 0..Len(index)
           /\ find_smallest_hole(size, page_align) # 0 =>
                 /\ index[find_smallest_hole(size, page_align)] \in Bytes
                 /\ Fits(index[find_smallest_hole(size, page_align)], size, page_align)
<1> DEFINE I == {k \in 1..Len(index) : Fits(index[k], size, page_align)}
           f == find_smallest_hole(size, page_align)
<1>0. index \in Seq(Bytes)
  BY TypeParts
<1>1. f = IF I # {} THEN Min(I) ELSE 0
  BY DEF find_smallest_hole, SelectInSeq
<1>2. I # {} => Min(I) \in I
  BY Smallest
<1>3. CASE I = {}
  BY <1>0, <1>1, <1>3
<1>4. CASE I # {}
  <2>1. f \in I
    BY <1>1, <1>2, <1>4
  <2> QED BY <1>0, <2>1
<1> QED BY <1>3, <1>4

LEMMA FitsRoom ==
    ASSUME Typed(mem), NEW a \in Bytes, NEW size \in Nat, NEW page_align, Fits(a, size, page_align)
    PROVE  size <= SizeAt(mem, a)
<1> USE Constants
<1>1. SizeAt(mem, a) \in Bytes
  BY SizeAtType
<1>2. PICK s \in Nat : s = SizeAt(mem, a)
  BY <1>1 DEF Bytes
<1>3. s32(s) \in Int /\ s32(s) <= s
  BY DEF s32
<1>4. CASE page_align
  <2>1. PICK off \in Int : off >= 0 /\ s32(SizeAt(mem, a)) - off >= size
    <3>1. (a + HDR) % PAGE \in 0..(PAGE - 1)
      BY DivMod DEF Bytes
    <3> QED BY <1>4, <3>1 DEF Fits
  <2> QED BY <1>2, <1>3, <2>1
<1>5. CASE ~page_align
  BY <1>5 DEF Fits
<1> QED BY <1>4, <1>5

(* The values that Carve computes.                                         *)
LEMMA PutBlockTyped ==
    ASSUME NEW m, Typed(m), NEW pos \in Bytes, NEW n \in Bytes
    PROVE  Typed(PutBlock(m, pos, n))
<1>1. Typed(Store(m, pos, header(FALSE, n)))
  BY StoreTyped, HeaderType
<1>2. u32(pos + n - FTR) \in Bytes
  BY u32Type, Constants DEF Bytes
<1> QED BY <1>1, <1>2, StoreTyped, FooterType DEF PutBlock

LEMMA CarveType ==
    ASSUME TypeOK, NEW r \in Requests, Carve(r[1], r[2])
    PROVE  TypeOK' /\ end_address' = end_address
<1> USE Constants
<1> DEFINE asked == r[1]
           page_align == r[2]
           it    == find_smallest_hole(asked + HDR + FTR, page_align)
           hole  == index[it]
           osize == SizeAt(mem, hole)
           whole == osize - (asked + HDR + FTR) < HDR + FTR
           size  == IF whole THEN osize - HDR - FTR ELSE asked
           new   == size + HDR + FTR
           front == page_align /\ hole >= PAGE
           pos   == IF front THEN u32(hole + PAGE - (hole % PAGE) - HDR) ELSE hole
           fsize == u32(pos - hole)
           mem1  == IF front
                    THEN Store(Store(mem, hole, header(TRUE, fsize)), u32(pos - FTR),
                               footer(hole))
                    ELSE mem
           mem2  == PutBlock(mem1, pos, new)
           left  == u32(osize - (IF front THEN fsize ELSE 0) - new)
           tail  == u32(pos + new)
           mem3  == Store(mem2, tail, header(TRUE, left))
           tfoot == u32(tail + left - FTR)
           mem4  == IF tfoot < end_address THEN Store(mem3, tfoot, footer(tail)) ELSE mem3
           rest  == IF front THEN index ELSE remove_ordered_array(index, it)
           ix    == IF left > 0 THEN Insert(rest, mem4, tail) ELSE rest
           final == IF left > 0 THEN mem4 ELSE mem2
           Done  == /\ index' = ix
                    /\ mem' = final \/ mem' = Wipe(final, pos + HDR, asked)
                    /\ live' = live \cup {<<pos + HDR, asked>>}
                    /\ req' = <<>> /\ UNCHANGED <<end_address, top, status>>
<1>0. it > 0 /\ (Stop("page_fault") \/ Stop("overrun") \/ (~Overrun(ix) /\ Done))
  BY DEF Carve
<1> SUFFICES ASSUME ~Overrun(ix), Done PROVE TypeOK' /\ end_address' = end_address
  <2> HIDE DEF ix, Done
  <2> QED BY <1>0, StopType
<1>1. /\ it > 0 /\ index' = ix
      /\ mem' = final \/ mem' = Wipe(final, pos + HDR, asked)
      /\ live' = live \cup {<<pos + HDR, asked>>}
      /\ req' = <<>> /\ UNCHANGED <<end_address, top, status>>
  BY <1>0
<1> HIDE DEF Done
<1>2. Typed(mem) /\ index \in Seq(Bytes)
  BY TypeParts
<1>3. it \in 1..Len(index) /\ hole \in Bytes
  <2>1. it \in 0..Len(index) /\ (it # 0 => hole \in Bytes)
    BY Found
  <2> HIDE DEF it, hole, pos, ix, final
  <2>2. it > 0
    BY <1>1
  <2>3. Len(index) \in Nat
    BY <1>2
  <2> QED BY <2>1, <2>2, <2>3
<1>4. asked \in Nat /\ asked + HDR + FTR \in Bytes /\ page_align \in BOOLEAN
  BY RequestType DEF Bytes
<1>5. osize \in Bytes
  BY <1>2, SizeAtType
<1> HIDE DEF asked, page_align, it, hole, osize
<1>6. new \in Bytes
  BY <1>4, <1>5 DEF Bytes
<1> HIDE DEF new
<1>7. pos \in Bytes
  <2>1. hole % PAGE \in Int
    BY <1>3 DEF Bytes
  <2>2. hole + PAGE - (hole % PAGE) - HDR \in Int
    BY <1>3, <2>1 DEF Bytes
  <2>3. u32(hole + PAGE - (hole % PAGE) - HDR) \in Bytes
    BY <2>2, u32Type
  <2> QED BY <1>3, <2>3
<1> HIDE DEF pos
<1>8. fsize \in Bytes
  <2>1. pos - hole \in Int
    BY <1>3, <1>7 DEF Bytes
  <2> QED BY <2>1, u32Type
<1> HIDE DEF fsize
<1>9. Typed(mem1)
  <2>1. Typed(Store(mem, hole, header(TRUE, fsize)))
    BY <1>2, <1>3, <1>8, StoreTyped, HeaderType
  <2>2. u32(pos - FTR) \in Bytes
    BY <1>7, u32Type DEF Bytes
  <2> QED BY <1>2, <1>3, <2>1, <2>2, StoreTyped, FooterType
<1> HIDE DEF mem1, front
<1>10. Typed(mem2)
  BY <1>6, <1>7, <1>9, PutBlockTyped
<1> HIDE DEF mem2
<1>11. left \in Bytes /\ tail \in Bytes
  BY <1>5, <1>6, <1>7, <1>8, u32Type DEF Bytes
<1> HIDE DEF left, tail
<1>12. Typed(mem3)
  BY <1>10, <1>11, StoreTyped, HeaderType
<1> HIDE DEF mem3
<1>13. Typed(mem4)
  <2>1. tfoot \in Bytes
    BY <1>11, u32Type DEF Bytes
  <2> HIDE DEF tfoot
  <2> QED BY <1>11, <1>12, <2>1, StoreTyped, FooterType
<1> HIDE DEF mem4, tfoot
<1>14. Typed(mem')
  BY <1>1, <1>10, <1>13, WipeTyped
<1>15. rest \in Seq(Bytes)
  BY <1>2, <1>3, RemoveIs
<1> HIDE DEF rest
<1>16. index' \in Seq(Bytes) /\ Len(index') <= HEAP_INDEX_SIZE
  <2>1. ix \in Seq(Bytes)
    BY <1>11, <1>15, InsertHoles
  <2> HIDE DEF ix
  <2> QED BY <1>1, <2>1, InArray
<1>17. live' \subseteq Nat \X Nat
  <2>1. <<pos + HDR, asked>> \in Nat \X Nat
    BY <1>4, <1>7 DEF Bytes
  <2> QED BY <1>1, <2>1 DEF TypeOK
<1> HIDE DEF ix
<1> QED BY <1>1, <1>14, <1>16, <1>17 DEF TypeOK, Typed, Bytes

(* The endmost hole, or NULL.                                              *)
LEMMA LastHole ==
    ASSUME TypeOK
    PROVE  LET last == Max({0} \cup {index[k] : k \in 1..Len(index)})
           IN  /\ last \in Bytes /\ (last # 0 => last \in HolesIn(index))
               /\ \A a \in HolesIn(index) : a <= last
<1> DEFINE S == {0} \cup {index[k] : k \in 1..Len(index)}
<1>1. index \in Seq(Bytes)
  BY TypeParts
<1>2. S \subseteq Bytes /\ 0 \in S
  BY <1>1, Constants DEF Bytes
<1>3. HolesIn(index) = S \ {0}
  BY DEF HolesIn, NULL
<1> HIDE DEF S
<1>4. S \subseteq Nat /\ (\A y \in S : y <= U32) /\ U32 \in Nat
  BY <1>2, Constants DEF Bytes
<1>5. Max(S) \in S /\ \A y \in S : y <= Max(S)
  BY <1>2, <1>4, Greatest
<1>6. /\ Max(S) \in Bytes /\ (Max(S) # 0 => Max(S) \in HolesIn(index))
      /\ \A a \in HolesIn(index) : a <= Max(S)
  BY <1>2, <1>3, <1>5
<1> QED BY <1>6 DEF S

LEMMA Resized ==
    ASSUME NEW x \in Cell, x.kind = "hdr", NEW s \in Bytes
    PROVE  /\ [x EXCEPT !.size = s] \in Cell /\ [x EXCEPT !.size = s].kind = "hdr"
           /\ [x EXCEPT !.size = s].is_hole = x.is_hole
           /\ [x EXCEPT !.size = s].size = s
           /\ SizeOf([x EXCEPT !.size = s]) = HDR
BY DEF Cell, Bytes, SizeOf

LEMMA Sizing == ASSUME NEW x \in Bytes, NEW y \in Bytes PROVE x + y \in Nat /\ x - y \in Int
BY Constants DEF Bytes

TInv == TypeOK /\ HEAP_MIN_SIZE <= end_address - START

LEMMA ExpandType ==
    ASSUME TInv, Readable, NEW r \in Requests, Expand(r[1], r[2])
    PROVE  TInv'
<1> USE Constants
<1> DEFINE asked == r[1]
           old  == end_address - START
           new  == RoundExpand(old + asked + HDR + FTR)
           last == Max({0} \cup {index[k] : k \in 1..Len(index)})
           hole == IF last = 0 THEN end_address ELSE last
           size == u32(new - old + (IF last = 0 THEN 0 ELSE SizeAt(mem, last)))
           head == IF last = 0 THEN header(TRUE, size) ELSE [mem[last] EXCEPT !.size = size]
           foot == u32(hole + size - FTR)
           mem1 == Store(Store(mem, hole, head), foot, footer(hole))
           ix   == IF last = 0 THEN Insert(index, mem1, hole) ELSE index
           high == Max({top, MappedEnd(old, new)})
<1>1. \/ Stop("full") \/ Stop("page_fault") \/ Stop("overrun")
      \/ /\ START + new <= MAX /\ ~Overrun(ix)
         /\ end_address' = START + new /\ top' = high /\ mem' = mem1 /\ index' = ix
         /\ req' = r /\ UNCHANGED <<live, status>>
  <2>1. START + new \in Nat
    <3>1. end_address \in Nat /\ START <= end_address
      BY TypeParts DEF TInv
    <3>2. old + asked + HDR + FTR \in Nat
      BY <3>1, RequestType
    <3> QED BY <3>2, Expansion
  <2>2. r = <<r[1], r[2]>>
    BY RequestPair
  <2>3. Overreach(new) <=> START + new > MAX
    BY DEF Overreach
  <2>4. IF Overreach(new) THEN Stop("full")
        ELSE IF foot + FTR > high THEN Stop("page_fault")
        ELSE IF Overrun(ix) THEN Stop("overrun")
        ELSE /\ end_address' = START + new /\ top' = high /\ mem' = mem1 /\ index' = ix
             /\ req' = <<r[1], r[2]>> /\ UNCHANGED <<live, status>>
    BY DEF Expand
  <2> HIDE DEF new, mem1, last, hole, foot, ix, high
  <2>5. CASE Overreach(new)
    BY <2>4, <2>5
  <2>6. CASE ~Overreach(new)
    <3>1. START + new <= MAX
      BY <2>1, <2>3, <2>6
    <3> QED BY <2>2, <2>4, <2>6, <3>1
  <2> QED BY <2>5, <2>6
<1>2. CASE Stop("full") \/ Stop("page_fault") \/ Stop("overrun")
  BY <1>2, StopType DEF TInv
<1>3. ASSUME START + new <= MAX, ~Overrun(ix), end_address' = START + new,
             top' = high, mem' = mem1, index' = ix, req' = r, UNCHANGED <<live, status>>
      PROVE  TInv'
  <2>1. /\ Typed(mem) /\ index \in Seq(Bytes) /\ end_address \in Nat /\ top \in Nat
        /\ START <= end_address /\ end_address <= MAX
        /\ end_address \in Bytes
    BY TypeParts DEF TInv
  <2>2. last \in Bytes /\ (last # 0 => last \in HolesIn(index))
    BY LastHole DEF TInv
  <2>3. old \in Nat /\ new \in Nat /\ old < new
    <3>1. old \in Nat /\ asked \in Nat
      <4>1. old \in Nat
        BY <2>1
      <4>2. asked \in Nat
        BY RequestType
      <4> QED BY <4>1, <4>2
    <3> HIDE DEF old, asked
    <3>2. old + asked + HDR + FTR \in Nat /\ old < old + asked + HDR + FTR
      BY <3>1
    <3>3. new \in Nat /\ old + asked + HDR + FTR <= new
      BY <3>2, Expansion
    <3> HIDE DEF new
    <3> QED BY <3>1, <3>2, <3>3
  <2> HIDE DEF last, new
  <2>4. hole \in Bytes
    BY <2>1, <2>2
  <2>5. size \in Bytes
    <3>1. SizeAt(mem, last) \in Int
      BY <2>1, SizeAtType DEF Bytes
    <3> HIDE DEF old
    <3>2. new - old + (IF last = 0 THEN 0 ELSE SizeAt(mem, last)) \in Int
      BY <2>3, <3>1
    <3> QED BY <3>2, u32Type
  <2> HIDE DEF size
  <2>6. head \in Cell
    <3>1. CASE last = 0
      BY <2>5, <3>1, HeaderType
    <3>2. CASE last # 0
      <4>1. Is(mem, last, "hdr")
        BY <2>2, <3>2 DEF Readable, HolesIn, NULL
      <4>2. mem[last] \in Cell /\ mem[last].kind = "hdr"
        BY <2>1, <4>1 DEF Is, Typed
      <4> QED BY <2>5, <3>2, <4>2, Resized
    <3> QED BY <3>1, <3>2
  <2> HIDE DEF head, hole
  <2>7. Typed(mem1)
    <3>1. Typed(Store(mem, hole, head))
      BY <2>1, <2>4, <2>6, StoreTyped
    <3>2. u32(hole + size - FTR) \in Bytes
      BY <2>4, <2>5, u32Type DEF Bytes
    <3> QED BY <2>4, <3>1, <3>2, StoreTyped, FooterType
  <2> HIDE DEF mem1
  <2>8. index' \in Seq(Bytes) /\ Len(index') <= HEAP_INDEX_SIZE
    <3>1. ix \in Seq(Bytes)
      BY <2>1, <2>4, InsertHoles
    <3> HIDE DEF ix
    <3> QED BY <1>3, <3>1, InArray
  <2>9. top' \in START..RoundUp(MAX) /\ START + new < top' + PAGE
    <3> DEFINE e == MappedEnd(old, new)
    <3> HIDE DEF old
    <3>1. e \in Nat /\ START <= e /\ START + new < e + PAGE /\ e <= RoundUp(MAX)
      BY <1>3, <2>3, MappedEndIs
    <3>2. top \in Nat /\ top <= RoundUp(MAX) /\ RoundUp(MAX) \in Nat
      BY <2>1, Rounding DEF TInv, TypeOK
    <3>3. top' = Max({top, e})
      BY <1>3
    <3> HIDE DEF e
    <3>4. top' = IF top >= e THEN top ELSE e
      BY <3>1, <3>2, <3>3, Largest
    <3> QED BY <2>3, <3>1, <3>2, <3>4
  <2>10. /\ end_address' \in START..MAX /\ end_address' < top' + PAGE
         /\ HEAP_MIN_SIZE <= end_address' - START
    BY <1>3, <2>1, <2>3, <2>9 DEF TInv
  <2>11. /\ \A a \in DOMAIN mem' : a \in Bytes /\ mem'[a] \in Cell
    BY <1>3, <2>7 DEF Typed
  <2> QED BY <1>3, <2>8, <2>9, <2>10, <2>11 DEF TInv, TypeOK, Bytes, RoundUp, Requests, Cell
<1> QED BY <1>1, <1>2, <1>3

(* Cells that change in place.                                             *)
Patch(m, p, a) ==
    /\ Typed(p) /\ DOMAIN p = DOMAIN m /\ p[a].kind = m[a].kind
    /\ \A b \in DOMAIN m : b # a => p[b] = m[b]

LEMMA PatchFrame ==
    ASSUME NEW m, NEW p, NEW a \in DOMAIN m, Typed(m), Patch(m, p, a),
           NEW lo \in Int, NEW hi \in Int, lo <= a, a + SizeOf(m[a]) <= hi
    PROVE  Frame(m, p, lo, hi)
<1>1. SizeOf(p[a]) = SizeOf(m[a])
  BY DEF SizeOf, Patch
<1>2. a \in Nat /\ SizeOf(m[a]) \in Nat /\ SizeOf(m[a]) > 0
  BY CellType DEF Typed, Bytes
<1>3. ~Outside(m, a, lo, hi) /\ ~Outside(p, a, lo, hi)
  BY <1>1, <1>2 DEF Outside
<1> QED BY <1>3 DEF Frame, Patch

LEMMA Marked ==
    ASSUME NEW m, Typed(m), NEW a, Is(m, a, "hdr")
    PROVE  /\ Patch(m, [m EXCEPT ![a].is_hole = TRUE], a)
           /\ [m EXCEPT ![a].is_hole = TRUE][a].is_hole = TRUE
           /\ [m EXCEPT ![a].is_hole = TRUE][a].size = m[a].size
<1> DEFINE x == [m[a] EXCEPT !.is_hole = TRUE]
           p == [m EXCEPT ![a].is_hole = TRUE]
<1>1. a \in DOMAIN m /\ m[a] \in Cell /\ m[a].kind = "hdr"
  BY DEF Is, Typed
<1>2. x \in Cell /\ x.kind = "hdr" /\ x.is_hole = TRUE /\ x.size = m[a].size
  BY <1>1 DEF Cell
<1>3. DOMAIN p = DOMAIN m /\ p[a] = x /\ \A b \in DOMAIN m : b # a => p[b] = m[b]
  BY <1>1
<1> HIDE DEF x, p
<1> QED BY <1>1, <1>2, <1>3 DEF Patch, Typed, p

LEMMA Renamed ==
    ASSUME NEW m, Typed(m), NEW a, Is(m, a, "ftr"), NEW h \in Bytes
    PROVE  /\ Patch(m, [m EXCEPT ![a].header = h], a)
           /\ [m EXCEPT ![a].header = h][a].header = h
<1> DEFINE x == [m[a] EXCEPT !.header = h]
           p == [m EXCEPT ![a].header = h]
<1>1. a \in DOMAIN m /\ m[a] \in Cell /\ m[a].kind = "ftr"
  BY DEF Is, Typed
<1>2. x \in Cell /\ x.kind = "ftr" /\ x.header = h
  BY <1>1 DEF Cell, Bytes
<1>3. DOMAIN p = DOMAIN m /\ p[a] = x /\ \A b \in DOMAIN m : b # a => p[b] = m[b]
  BY <1>1
<1> HIDE DEF x, p
<1> QED BY <1>1, <1>2, <1>3 DEF Patch, Typed, p

LEMMA Unified ==
    ASSUME NEW m, Typed(m), NEW a, Is(m, a, "hdr"), NEW n \in Bytes
    PROVE  /\ Patch(m, Unify(m, a, n), a)
           /\ Unify(m, a, n)[a].is_hole = m[a].is_hole
           /\ Unify(m, a, n)[a].size = u32(m[a].size + n)
<1> DEFINE x == [m[a] EXCEPT !.size = u32(m[a].size + n)]
           p == Unify(m, a, n)
<1>1. a \in DOMAIN m /\ m[a] \in Cell /\ m[a].kind = "hdr"
  BY DEF Is, Typed
<1>2. u32(m[a].size + n) \in Bytes
  BY <1>1, PieceType, u32Type, Constants DEF Bytes
<1>3. /\ x \in Cell /\ x.kind = "hdr" /\ x.is_hole = m[a].is_hole
      /\ x.size = u32(m[a].size + n)
  BY <1>1, <1>2, Resized
<1>4. DOMAIN p = DOMAIN m /\ p[a] = x /\ \A b \in DOMAIN m : b # a => p[b] = m[b]
  BY <1>1 DEF Unify
<1> HIDE DEF x, p
<1> QED BY <1>1, <1>3, <1>4 DEF Patch, Typed, p

LEMMA PatchIs ==
    ASSUME NEW m, NEW p, NEW a, Patch(m, p, a), NEW k, NEW b
    PROVE  Is(p, b, k) <=> Is(m, b, k)
<1>1. CASE b = a
  BY <1>1 DEF Patch, Is
<1>2. CASE b # a
  BY <1>2 DEF Patch, Is
<1> QED BY <1>1, <1>2

(* The sanity check of contract says that the hole is in the heap.         *)
LEMMA ContractsIs ==
    ASSUME TInv, NEW h \in Bytes, Contracts(h)
    PROVE  START <= h /\ h < end_address /\ h - START \in Nat
<1> USE Linear
<1>1. /\ end_address \in Nat /\ end_address <= MAX /\ h \in Nat /\ h < U32
      /\ START <= end_address
  BY TypeParts DEF TInv, Bytes
<1>2. CASE START <= h
  <2>1. h - START \in Bytes
    BY <1>1, <1>2 DEF Bytes
  <2>2. u32(h - START) = h - START
    BY <2>1, u32Small
  <2> QED BY <1>1, <1>2, <2>2 DEF Contracts
<1>3. CASE h < START
  <2>1. (h - START) + U32 \in 0..(U32 - 1)
    BY <1>1, <1>3
  <2>2. u32(h - START) = (h - START) + U32
    BY <1>1, <2>1 DEF u32
  <2> QED BY <1>1, <1>3, <2>2 DEF Contracts
<1> QED BY <1>1, <1>2, <1>3

LEMMA ContractedTyped ==
    ASSUME NEW m, Typed(m), NEW h, Is(m, h, "hdr"), NEW new \in Int, end_address \in Int
    PROVE  Typed(Contracted(m, h, new))
<1> USE Constants
<1> DEFINE old  == end_address - START
           m1   == IF new < old - PAGE
                   THEN Wipe(m, GivenUp(old, new), end_address - GivenUp(old, new)) ELSE m
           size == u32(m[h].size - (old - new))
           head == [m[h] EXCEPT !.size = size]
<1>1. Contracted(m, h, new) =
        IF size > 0 THEN Store(Store(m1, h, head), u32(h + size - FTR), footer(h)) ELSE m1
  BY DEF Contracted
<1>2. Typed(m1)
  BY WipeTyped
<1>3. h \in Bytes /\ m[h] \in Cell /\ m[h].kind = "hdr" /\ m[h].size \in Bytes
  BY PieceType DEF Is
<1>4. size \in Bytes
  BY <1>3, u32Type DEF Bytes
<1> HIDE DEF size, m1
<1>5. head \in Cell
  BY <1>3, <1>4, Resized
<1> HIDE DEF head
<1>6. Typed(Store(m1, h, head)) /\ u32(h + size - FTR) \in Bytes /\ footer(h) \in Cell
  <2>1. Typed(Store(m1, h, head))
    BY <1>2, <1>3, <1>5, StoreTyped
  <2>2. h + size - FTR \in Int
    BY <1>3, <1>4 DEF Bytes
  <2> QED BY <1>3, <2>1, <2>2, u32Type, FooterType
<1> QED BY <1>1, <1>2, <1>6, StoreTyped

LEMMA FreeType ==
    ASSUME TInv, NEW b \in live, Intact(b), Free(b)
    PROVE  TInv'
<1> DEFINE h0    == b[1] - HDR
           f0    == u32(h0 + mem[h0].size - FTR)
           mem1  == [mem EXCEPT ![h0].is_hole = TRUE]
           lf    == u32(h0 - FTR)
           lh    == mem[lf].header
           left  == Is(mem, lf, "ftr") /\ Is(mem1, lh, "hdr") /\ mem1[lh].is_hole
           h     == IF left THEN lh ELSE h0
           named == [mem1 EXCEPT ![f0].header = lh]
           mem2  == IF left THEN Unify(named, lh, mem1[h0].size) ELSE mem1
           rh    == u32(f0 + FTR)
           right == Is(mem2, rh, "hdr") /\ mem2[rh].is_hole
           mem3  == IF right THEN Unify(mem2, h, mem2[rh].size) ELSE mem2
           f     == IF right THEN u32(rh + mem2[rh].size - FTR) ELSE f0
           at    == SelectInSeq(index, LAMBDA x : x = rh)
           ix    == IF right THEN remove_ordered_array(index, at) ELSE index
           cut   == f + FTR = end_address
           new   == RoundContract(h - START)
           mem4  == IF cut THEN Contracted(mem3, h, new) ELSE mem3
           ix1   == IF do_add(left) THEN Insert(ix, mem4, h) ELSE ix
<1>1. \/ Stop("page_fault") \/ Stop("wild") \/ Stop("assert") \/ Stop("overrun")
      \/ /\ ~(right /\ at = 0) /\ ~(cut /\ ~Contracts(h)) /\ ~Overrun(ix1)
         /\ mem' = mem4 /\ index' = ix1
         /\ end_address' = (IF cut THEN START + new ELSE end_address)
         /\ live' = live \ {b} /\ UNCHANGED <<top, req, status>>
  <2>1. IF lf >= top \/ rh >= top THEN Stop("page_fault")
        ELSE IF Is(mem, lf, "ftr") /\ ~Is(mem, lh, "hdr") THEN Stop("wild")
        ELSE IF (right /\ at = 0) \/ (cut /\ ~Contracts(h)) THEN Stop("assert")
        ELSE IF Overrun(ix1) THEN Stop("overrun")
        ELSE /\ mem' = mem4 /\ index' = ix1
             /\ end_address' = (IF cut THEN START + new ELSE end_address)
             /\ live' = live \ {b} /\ UNCHANGED <<top, req, status>>
    BY DEF Free
  <2> HIDE DEF mem4, h, lf, lh, rh, left, right, at, ix, ix1, cut, new
  <2> QED BY <2>1
<1> USE Constants
<1>2. CASE Stop("page_fault") \/ Stop("wild") \/ Stop("assert") \/ Stop("overrun")
  BY <1>2, StopType DEF TInv
<1>3. ASSUME ~(right /\ at = 0), ~(cut /\ ~Contracts(h)), ~Overrun(ix1), mem' = mem4,
             index' = ix1,
             end_address' = IF cut THEN START + new ELSE end_address,
             live' = live \ {b}, UNCHANGED <<top, req, status>>
      PROVE  TInv'
  <2>1. /\ Typed(mem) /\ index \in Seq(Bytes) /\ end_address \in Nat /\ top \in Nat
        /\ START <= end_address /\ end_address <= MAX /\ end_address < top + PAGE
    BY TypeParts DEF TInv
  <2>2. Is(mem, h0, "hdr") /\ Is(mem, f0, "ftr")
    BY DEF Intact
  <2>3. Patch(mem, mem1, h0)
    BY <2>1, <2>2, Marked
  <2> HIDE DEF mem1
  <2>4. Typed(mem1) /\ (\A a, k : Is(mem1, a, k) <=> Is(mem, a, k))
    BY <2>3, PatchIs DEF Patch
  <2> HIDE DEF f0
  <2>5. mem1[h0].size \in Bytes
    BY <2>2, <2>4, PieceType
  <2> HIDE DEF h0
  <2>6. ASSUME left
        PROVE  /\ lh \in Bytes /\ Patch(mem1, named, f0)
               /\ Patch(named, Unify(named, lh, mem1[h0].size), lh)
    <3>1. lh \in Bytes
      BY <2>1, <2>6, CellType DEF Typed, Is
    <3> HIDE DEF lh
    <3>2. Patch(mem1, named, f0)
      BY <2>2, <2>4, <3>1, Renamed
    <3> HIDE DEF named
    <3>3. Typed(named) /\ Is(named, lh, "hdr")
      BY <2>6, <3>2, PatchIs DEF Patch
    <3> QED BY <2>5, <3>1, <3>2, <3>3, Unified
  <2>7. Typed(mem2) /\ (\A a, k : Is(mem2, a, k) <=> Is(mem, a, k))
    <3>1. CASE left
      <4> DEFINE u == Unify(named, lh, mem1[h0].size)
      <4>1. mem2 = u
        BY <3>1
      <4>2. Patch(mem1, named, f0) /\ Patch(named, u, lh)
        BY <2>6, <3>1
      <4> HIDE DEF u, named, lh, mem2
      <4>3. Typed(u)
        BY <4>2 DEF Patch
      <4>4. \A a, k : Is(u, a, k) <=> Is(mem1, a, k)
        BY <4>2, PatchIs
      <4> QED BY <2>4, <4>1, <4>3, <4>4
    <3>2. CASE ~left
      BY <2>4, <3>2
    <3> QED BY <3>1, <3>2
  <2>8. h \in Bytes /\ Is(mem, h, "hdr")
    <3>1. CASE left
      BY <2>4, <2>6, <3>1
    <3>2. CASE ~left
      BY <2>1, <2>2, <3>2, PieceType
    <3> QED BY <3>1, <3>2
  <2> HIDE DEF mem2, h, left, rh
  <2>9. Typed(mem3) /\ Is(mem3, h, "hdr")
    <3>1. CASE right
      <4>1. mem2[rh].size \in Bytes /\ Is(mem2, h, "hdr")
        BY <2>7, <2>8, <3>1, PieceType
      <4>2. Patch(mem2, Unify(mem2, h, mem2[rh].size), h)
        BY <2>7, <4>1, Unified
      <4> QED BY <3>1, <4>1, <4>2, PatchIs DEF Patch
    <3>2. CASE ~right
      BY <2>7, <2>8, <3>2
    <3> QED BY <3>1, <3>2
  <2>10. ASSUME right PROVE at \in 1..Len(index)
    <3> DEFINE I == {k \in 1..Len(index) : index[k] = rh}
    <3>1. at = IF I # {} THEN Min(I) ELSE 0
      BY DEF SelectInSeq
    <3>2. I \subseteq 1..Len(index)
      OBVIOUS
    <3> HIDE DEF I, at
    <3>3. I \subseteq Nat
      BY <3>2
    <3>4. I # {} => Min(I) \in I
      BY <3>3, Smallest
    <3> QED BY <1>3, <2>10, <3>1, <3>2, <3>4
  <2> HIDE DEF at
  <2>11. ix \in Seq(Bytes)
    BY <2>1, <2>10, RemoveIs
  <2> HIDE DEF ix, mem3, right, f
  <2>12. ASSUME cut PROVE START <= h /\ h < end_address /\ h - START \in Nat
    BY <1>3, <2>8, <2>12, ContractsIs
  <2>13. ASSUME cut
         PROVE  /\ new \in Nat /\ HEAP_MIN_SIZE <= new
                /\ new = HEAP_MIN_SIZE \/ new = h - START
    BY <2>12, <2>13, Contraction
  <2> HIDE DEF new
  <2>14. Typed(mem4)
    <3>1. CASE cut
      BY <2>1, <2>9, <2>13, <3>1, ContractedTyped
    <3>2. CASE ~cut
      BY <2>9, <3>2
    <3> QED BY <3>1, <3>2
  <2> HIDE DEF mem4
  <2>15. index' \in Seq(Bytes) /\ Len(index') <= HEAP_INDEX_SIZE
    <3>1. ix1 \in Seq(Bytes)
      BY <2>8, <2>11, InsertHoles
    <3> HIDE DEF ix1
    <3> QED BY <1>3, <3>1, InArray
  <2>16. /\ end_address' \in START..MAX /\ top' = top /\ end_address' < top' + PAGE
         /\ HEAP_MIN_SIZE <= end_address' - START
    <3>1. CASE cut
      <4>1. end_address' = START + new
        BY <1>3, <3>1
      <4>2. h \in Nat /\ h < end_address /\ new \in Nat /\ HEAP_MIN_SIZE <= new
        BY <2>8, <2>12, <2>13, <3>1 DEF Bytes
      <4>3. new <= end_address - START
        BY <2>1, <2>13, <3>1, <4>2 DEF TInv
      <4>4. top' = top
        BY <1>3
      <4> HIDE DEF cut
      <4> QED BY <2>1, <4>1, <4>2, <4>3, <4>4
    <3>2. CASE ~cut
      BY <1>3, <3>2 DEF TInv, TypeOK
    <3> QED BY <3>1, <3>2
  <2>17. \A a \in DOMAIN mem' : a \in Bytes /\ mem'[a] \in Cell
    BY <1>3, <2>14 DEF Typed
  <2> QED BY <1>3, <2>15, <2>16, <2>17 DEF TInv, TypeOK, Bytes, RoundUp, Requests, Cell
<1> QED BY <1>1, <1>2, <1>3

LEMMA TypeStep == TInv /\ [Next]_vars => TInv'
<1> SUFFICES ASSUME TInv, [Next]_vars PROVE TInv'
  OBVIOUS
<1>1. ASSUME NEW r \in Requests, Alloc(r) PROVE TInv'
  <2>1. CASE Carve(r[1], r[2])
    BY <2>1, CarveType DEF TInv
  <2>2. CASE Expand(r[1], r[2])
    BY <1>1, <2>2, ExpandType DEF Alloc
  <2> QED BY <1>1, <2>1, <2>2 DEF Alloc
<1>2. ASSUME NEW b \in live, IF Intact(b) THEN Free(b) ELSE Stop("assert") PROVE TInv'
  <2>1. CASE Intact(b)
    BY <1>2, <2>1, FreeType
  <2>2. CASE ~Intact(b)
    BY <1>2, <2>2, StopType DEF TInv
  <2> QED BY <2>1, <2>2
<1>3. CASE UNCHANGED vars
  BY <1>3 DEF vars, TInv, TypeOK, RoundUp, Requests, Cell
<1>4. CASE FreeBlock
  <2>1. PICK b \in live : IF Intact(b) THEN Free(b) ELSE Stop("assert")
    BY <1>4 DEF FreeBlock
  <2> QED BY <1>2, <2>1
<1> QED BY <1>1, <1>3, <1>4 DEF Next

LEMMA TypeInit == Init => TInv
<1> USE Constants
<1> SUFFICES ASSUME Init PROVE TInv
  OBVIOUS
<1>1. START \in Bytes /\ INITIAL \in Bytes
  BY DEF Bytes
<1>2. header(TRUE, INITIAL) \in Cell
  BY <1>1, HeaderType
<1>3. \A a \in DOMAIN mem : a \in Bytes /\ mem[a] \in Cell
  BY <1>1, <1>2 DEF Init
<1>4. top \in START..RoundUp(MAX) /\ end_address < top + PAGE
  <2>1. MAX <= RoundUp(MAX) /\ RoundUp(MAX) \in Nat
    BY Rounding
  <2> QED BY <2>1 DEF Init
<1>5. index \in Seq(Bytes) /\ Len(index) <= HEAP_INDEX_SIZE
  BY <1>1 DEF Init
<1>6. end_address \in START..MAX /\ HEAP_MIN_SIZE <= end_address - START
  BY DEF Init
<1>7. /\ req \in {<<>>} \cup Requests /\ live \subseteq Nat \X Nat
      /\ status \in {"ok", "full", "assert", "page_fault", "wild", "overrun"}
  BY DEF Init
<1> QED BY <1>3, <1>4, <1>5, <1>6, <1>7 DEF TInv, TypeOK, Bytes

-----------------------------------------------------------------------------
(* Soundness.                                                              *)

Above(m) == \A a \in DOMAIN m : START <= a

(* The piece with header hd stands at a, and its footer names it.          *)
Stands(m, a, hd) ==
    /\ Is(m, a, "hdr") /\ m[a] = hd
    /\ Is(m, a + hd.size - FTR, "ftr") /\ m[a + hd.size - FTR].header = a

PutPiece(m, a, hd) == Store(Store(m, a, hd), u32(a + hd.size - FTR), footer(a))

LEMMA StandsKeeps ==
    ASSUME NEW m, NEW m2, Typed(m), NEW a \in Nat, NEW hd \in Cell, Stands(m, a, hd),
           Least <= hd.size, NEW lo \in Int, NEW hi \in Int, Frame(m, m2, lo, hi),
           a + HDR <= lo \/ hi <= a, a + hd.size <= lo \/ hi <= a + hd.size - FTR
    PROVE  Stands(m2, a, hd)
<1> USE Linear
<1>1. hd.kind = "hdr" /\ hd.size \in Nat /\ SizeOf(m[a]) = HDR
  BY CellType DEF Stands, Is, Bytes
<1> DEFINE f == a + hd.size - FTR
<1>2. f \in DOMAIN m /\ SizeOf(m[f]) = FTR /\ a \in DOMAIN m
  BY CellType DEF Stands, Is, Typed
<1>3. f \in Int /\ f + FTR = a + hd.size /\ a + HDR <= f
  BY <1>1 DEF Least
<1>4. Outside(m, a, lo, hi)
  BY <1>1, <1>3 DEF Outside
<1>5. Outside(m, f, lo, hi)
  <2> HIDE DEF f
  <2> QED BY <1>1, <1>2, <1>3 DEF Outside
<1>6. a \in DOMAIN m2 /\ m2[a] = m[a] /\ f \in DOMAIN m2 /\ m2[f] = m[f]
  <2> HIDE DEF f
  <2> QED BY <1>2, <1>4, <1>5 DEF Frame
<1> QED BY <1>6 DEF Stands, Is

LEMMA PutPieceIs ==
    ASSUME NEW m, Typed(m), NEW a \in Nat, NEW hd \in Cell, hd.kind = "hdr",
           Least <= hd.size, a + hd.size <= U32
    PROVE  /\ Typed(PutPiece(m, a, hd)) /\ Stands(PutPiece(m, a, hd), a, hd)
           /\ \A lo, hi \in Int : lo <= a /\ a + hd.size <= hi =>
                                  Frame(m, PutPiece(m, a, hd), lo, hi)
           /\ START <= a /\ Above(m) => Above(PutPiece(m, a, hd))
<1> USE Linear
<1> DEFINE f  == a + hd.size - FTR
           m1 == Store(m, a, hd)
           m2 == Store(m1, f, footer(a))
<1>1. hd.size \in Bytes /\ hd.size \in Nat /\ SizeOf(hd) = HDR
  BY CellType DEF Bytes
<1>2. f \in Nat /\ f \in Bytes /\ a \in Bytes /\ a + HDR <= f /\ f + FTR = a + hd.size
  BY <1>1 DEF Bytes, Least
<1>3. PutPiece(m, a, hd) = m2
  BY <1>2, u32Small DEF PutPiece
<1> HIDE DEF f
<1>4. footer(a) \in Cell /\ SizeOf(footer(a)) = FTR /\ footer(a).kind = "ftr"
      /\ footer(a).header = a
  BY <1>2, FooterType
<1>5. Typed(m1) /\ a \in DOMAIN m1 /\ m1[a] = hd
  BY <1>1, <1>2, StoreTyped, StoreIs
<1>6. DOMAIN m1 \subseteq DOMAIN m \cup {a}
  BY StoreIs, WipeIs
<1> HIDE DEF m1
<1>7. Typed(m2) /\ f \in DOMAIN m2 /\ m2[f] = footer(a)
  BY <1>2, <1>4, <1>5, StoreTyped, StoreIs
<1>8. a \in DOMAIN m2 /\ m2[a] = hd
  BY <1>1, <1>2, <1>4, <1>5, StoreKeeps
<1>9. DOMAIN m2 \subseteq DOMAIN m \cup {a, f}
  BY <1>6, StoreIs, WipeIs
<1>10. Stands(m2, a, hd)
  BY <1>4, <1>7, <1>8 DEF Stands, Is, f
<1>11. ASSUME NEW lo \in Int, NEW hi \in Int, lo <= a, a + hd.size <= hi
       PROVE  Frame(m, m2, lo, hi)
  <2>1. a + SizeOf(hd) <= hi /\ lo <= f /\ f + SizeOf(footer(a)) <= hi
    BY <1>1, <1>2, <1>4, <1>11
  <2>2. Frame(m, m1, lo, hi)
    BY <1>11, <2>1, StoreFrame DEF m1
  <2>3. Frame(m1, m2, lo, hi)
    BY <1>2, <1>4, <1>5, <2>1, StoreFrame
  <2> QED BY <2>2, <2>3, FrameTrans
<1>12. START <= a /\ Above(m) => Above(m2)
  BY <1>2, <1>9 DEF Above
<1> HIDE DEF m2
<1> QED BY <1>3, <1>7, <1>10, <1>11, <1>12

(* A step that replaces pieces keeps the heap sound.                       *)
LEMMA Reassemble ==
    ASSUME NEW m, NEW m2, NEW ix, NEW ix2, NEW L, NEW L2, NEW T, NEW R, NEW N,
           NEW e, NEW e2, NEW lo, NEW hi, NEW hi2, NEW hh,
           Sound(m, ix, L, e), T = HolesIn(ix) \cup Heads(L),
           Replaces(m, m2, T, R, N, e, e2, lo, hi, hi2, hh),
           HolesIn(ix2) \cup Heads(L2) = (T \ R) \cup N,
           Above(m2), Distinct(ix2),
           \A a \in HolesIn(ix2) : a \in HolesIn(ix) \ R \/ m2[a].is_hole,
           \A b \in L2 : (b \in L /\ b[1] - HDR \notin R) \/ Owned(m2, b),
           \A b, c \in L2 : b[1] = c[1] => b = c
    PROVE  Sound(m2, ix2, L2, e2)
<1>1. /\ Tiles(m2, (T \ R) \cup N, e2)
      /\ \A a \in T \ R : /\ m2[a] = m[a] /\ Is(m2, a, "hdr")
                          /\ Is(m, Foot(m, a), "ftr") => Is(m2, Foot(m, a), "ftr")
  <2>1. Replaces(m, m2, T, R, N, e, e2, lo, hi, hi2, hh)
    OBVIOUS
  <2> QED BY ONLY <2>1, Replace
<1>2. Tiles(m2, HolesIn(ix2) \cup Heads(L2), e2)
  BY <1>1
<1>3. \A a \in HolesIn(ix2) : m2[a].is_hole
  BY <1>1 DEF Sound
<1>4. ASSUME NEW b \in L2 PROVE Owned(m2, b)
  <2>1. CASE b \in L /\ b[1] - HDR \notin R
    <3>1. b[1] - HDR \in T \ R
      BY <2>1 DEF Heads
    <3>2. Owned(m, b)
      BY <2>1 DEF Sound
    <3>3. /\ m2[b[1] - HDR] = m[b[1] - HDR]
          /\ Is(m, Foot(m, b[1] - HDR), "ftr") => Is(m2, Foot(m, b[1] - HDR), "ftr")
      BY <1>1, <3>1
    <3>4. Foot(m2, b[1] - HDR) = Foot(m, b[1] - HDR)
      BY <3>3 DEF Foot
    <3> QED BY <3>2, <3>3, <3>4 DEF Owned
  <2> QED BY <2>1
<1> QED BY <1>2, <1>3, <1>4 DEF Sound, Above

LEMMA SoundPieces ==
    ASSUME TInv, Sound(mem, index, live, end_address)
    PROVE  /\ \A a \in HolesIn(index) \cup Heads(live) :
                 /\ a \in Nat /\ START <= a /\ Is(mem, a, "hdr") /\ mem[a] \in Cell
                 /\ mem[a].size \in Nat /\ Least <= mem[a].size
                 /\ End(mem, a) = a + mem[a].size /\ End(mem, a) <= end_address
                 /\ a < End(mem, a)
           /\ \A a \in HolesIn(index) : mem[a].is_hole /\ a \notin Heads(live)
           /\ \A a \in Heads(live) : ~mem[a].is_hole
           /\ Above(mem)
<1> USE Linear
<1>1. Typed(mem)
  BY TypeParts DEF TInv
<1>2. ASSUME NEW a \in HolesIn(index) \cup Heads(live)
      PROVE  /\ a \in Nat /\ START <= a /\ Is(mem, a, "hdr") /\ mem[a] \in Cell
             /\ mem[a].size \in Nat /\ Least <= mem[a].size
             /\ End(mem, a) = a + mem[a].size /\ End(mem, a) <= end_address
             /\ a < End(mem, a)
  <2>1. START <= a /\ Is(mem, a, "hdr") /\ Least <= mem[a].size /\ End(mem, a) <= end_address
    BY DEF Sound, Tiles, Placed
  <2>2. a \in Nat /\ mem[a] \in Cell /\ mem[a].size \in Nat
    BY <1>1, <2>1, PieceType
  <2> QED BY <2>1, <2>2 DEF End, Least
<1>3. \A a \in Heads(live) : ~mem[a].is_hole
  BY DEF Sound, Owned, Heads
<1>4. \A a \in HolesIn(index) : mem[a].is_hole
  BY DEF Sound
<1> QED BY <1>2, <1>3, <1>4 DEF Sound, Above

(* A byte is in one piece.                                                 *)
LEMMA OnePiece ==
    ASSUME TInv, Sound(mem, index, live, end_address),
           NEW a \in HolesIn(index) \cup Heads(live), NEW c \in HolesIn(index) \cup Heads(live),
           NEW x \in Int, a <= x, x < End(mem, a), c <= x, x < End(mem, c)
    PROVE  a = c
<1>1. a # c => End(mem, a) <= c \/ End(mem, c) <= a
  BY DEF Sound, Tiles, Apart
<1>2. a \in Nat /\ c \in Nat /\ End(mem, a) \in Nat /\ End(mem, c) \in Nat
  BY SoundPieces
<1> QED BY <1>1, <1>2

(* What Carve leaves in the room of the hole: a hole in front, the block,  *)
(* a hole behind, with the headers A, B and C.                             *)
CutUp(m, m1, m2, m3, m4, hole, pos, new, rest, asked, A, B, C) ==
    /\ Typed(m) /\ Above(m)
    /\ hole \in Nat /\ pos \in Nat /\ new \in Nat /\ rest \in Nat /\ asked \in Nat
    /\ A \in Cell /\ B \in Cell /\ C \in Cell
    /\ A.kind = "hdr" /\ B.kind = "hdr" /\ C.kind = "hdr"
    /\ hole < pos => A.size = pos - hole /\ Least <= A.size
    /\ B.size = new /\ C.size = rest
    /\ START <= hole /\ hole <= pos /\ asked + Least <= new
    /\ rest = 0 \/ Least <= rest
    /\ pos + new + rest <= MAX
    /\ m1 = IF hole < pos THEN PutPiece(m, hole, A) ELSE m
    /\ m2 = PutPiece(m1, pos, B)
    /\ m3 = IF rest > 0 THEN PutPiece(m2, pos + new, C) ELSE m2
    /\ m4 = m3 \/ m4 = Wipe(m3, pos + HDR, asked)

LEMMA CarvedMemory ==
    ASSUME NEW m, NEW m1, NEW m2, NEW m3, NEW m4, NEW hole, NEW pos, NEW new, NEW rest,
           NEW asked, NEW A, NEW B, NEW C,
           CutUp(m, m1, m2, m3, m4, hole, pos, new, rest, asked, A, B, C)
    PROVE  /\ Typed(m4) /\ Above(m4) /\ Frame(m, m4, hole, pos + new + rest)
           /\ hole < pos => Stands(m4, hole, A)
           /\ Stands(m4, pos, B)
           /\ rest > 0 => Stands(m4, pos + new, C)
<1> USE Linear DEF CutUp
<1> DEFINE hi == pos + new + rest
<1>0. hi \in Nat /\ hi <= U32 /\ Least \in Nat /\ Least > 0
  BY DEF Least
<1>1. hole < pos => A.size \in Nat
  OBVIOUS
<1>2. Typed(m1) /\ Above(m1) /\ Frame(m, m1, hole, hi) /\ (hole < pos => Stands(m1, hole, A))
  <2>1. CASE hole < pos
    <3>1. m1 = PutPiece(m, hole, A) /\ Least <= A.size
      BY <1>1, <2>1
    <3>2. hole + A.size <= U32 /\ hole <= hole /\ hole + A.size <= hi
      BY <1>0, <1>1, <2>1
    <3> HIDE DEF hi
    <3> QED BY <1>0, <1>1, <3>1, <3>2, PutPieceIs
  <2>2. CASE ~(hole < pos)
    BY <2>2, FrameRefl
  <2> QED BY <2>1, <2>2
<1>3. /\ Typed(m2) /\ Above(m2) /\ Frame(m1, m2, hole, hi) /\ Frame(m1, m2, pos, hi)
      /\ Stands(m2, pos, B)
  <2>1. m2 = PutPiece(m1, pos, B)
    OBVIOUS
  <2>2. pos + B.size <= U32 /\ pos + B.size <= hi /\ Least <= B.size /\ START <= pos
    BY <1>0 DEF Least
  <2> HIDE DEF hi
  <2> QED BY <1>0, <1>2, <2>1, <2>2, PutPieceIs
<1>4. hole < pos => Stands(m2, hole, A)
  <2> SUFFICES ASSUME hole < pos PROVE Stands(m2, hole, A)
    OBVIOUS
  <2>1. hole + HDR <= pos /\ hole + A.size <= pos /\ Least <= A.size
    BY <1>1 DEF Least
  <2> HIDE DEF hi
  <2> QED BY <1>0, <1>1, <1>2, <1>3, <2>1, StandsKeeps
<1>5. /\ Typed(m3) /\ Above(m3) /\ Frame(m2, m3, hole, hi) /\ Frame(m2, m3, pos + new, hi)
      /\ rest > 0 => Stands(m3, pos + new, C)
  <2>1. CASE rest > 0
    <3>1. m3 = PutPiece(m2, pos + new, C)
      BY <2>1
    <3>2. /\ (pos + new) + C.size <= U32 /\ (pos + new) + C.size <= hi /\ Least <= C.size
          /\ START <= pos + new /\ pos + new \in Nat /\ hole <= pos + new
      BY <1>0, <2>1
    <3> HIDE DEF hi
    <3>3. PICK tail \in Nat : tail = pos + new
      BY <3>2
    <3>4. /\ tail + C.size <= U32 /\ tail + C.size <= hi /\ START <= tail /\ hole <= tail
          /\ tail \in Int /\ tail <= tail /\ m3 = PutPiece(m2, tail, C)
      BY <3>1, <3>2, <3>3
    <3>5. Typed(m3) /\ Above(m3) /\ Frame(m2, m3, tail, hi) /\ Stands(m3, tail, C)
      BY <1>0, <1>3, <3>2, <3>4, PutPieceIs
    <3>6. Frame(m2, m3, hole, hi)
      BY <1>0, <1>3, <3>2, <3>4, PutPieceIs
    <3> QED BY <3>3, <3>5, <3>6
  <2>2. CASE ~(rest > 0)
    BY <1>3, <2>2, FrameRefl
  <2> QED BY <2>1, <2>2
<1>6. /\ Stands(m3, pos, B) /\ (hole < pos => Stands(m3, hole, A))
  <2>1. /\ pos + HDR <= pos + new /\ pos + B.size <= pos + new /\ Least <= B.size
        /\ pos + new \in Int
    BY DEF Least
  <2>2. ASSUME hole < pos
        PROVE  hole + HDR <= pos + new /\ hole + A.size <= pos + new /\ Least <= A.size
    BY <1>1, <2>2 DEF Least
  <2> HIDE DEF hi
  <2>3. Stands(m3, pos, B)
    BY <1>0, <1>3, <1>5, <2>1, StandsKeeps
  <2> QED BY <1>0, <1>1, <1>3, <1>4, <1>5, <2>1, <2>2, <2>3, StandsKeeps
<1>7. CASE m4 = m3
  <2>1. Frame(m, m4, hole, hi)
    BY <1>2, <1>3, <1>5, <1>7, FrameTrans
  <2> QED BY <1>5, <1>6, <1>7, <2>1
<1>8. CASE m4 = Wipe(m3, pos + HDR, asked)
  <2>1. PICK lo \in Nat : lo = pos + HDR
    OBVIOUS
  <2>2. PICK h \in Nat : h = lo + asked
    BY <2>1
  <2>3. /\ hole <= lo /\ lo + asked <= hi /\ h <= pos + new - FTR /\ lo <= h
        /\ pos + new \in Nat /\ h <= pos + new
    BY <2>1, <2>2 DEF Least
  <2>4. Typed(m4) /\ Above(m4)
    BY <1>5, <1>8, WipeTyped, WipeIs DEF Above
  <2>5. Frame(m3, m4, hole, hi)
    <3> HIDE DEF hi
    <3> QED BY <1>0, <1>5, <1>8, <2>1, <2>3, WipeFrame
  <2>6. Frame(m3, m4, lo, h)
    BY <1>5, <1>8, <2>1, <2>2, <2>3, WipeFrame
  <2>7. Frame(m, m4, hole, hi)
    BY <1>2, <1>3, <1>5, <2>5, FrameTrans
  <2>8. Stands(m4, pos, B)
    <3>1. pos + HDR <= lo /\ h <= pos + B.size - FTR /\ Least <= B.size
      BY <1>0, <2>1, <2>3
    <3> QED BY <1>5, <1>6, <2>6, <3>1, StandsKeeps
  <2>9. ASSUME hole < pos PROVE Stands(m4, hole, A)
    <3>1. hole + HDR <= lo /\ hole + A.size <= lo /\ Least <= A.size
      BY <1>1, <2>1, <2>9
    <3> QED BY <1>1, <1>5, <1>6, <2>6, <2>9, <3>1, StandsKeeps
  <2>10. ASSUME rest > 0 PROVE Stands(m4, pos + new, C)
    <3>1. h <= pos + new /\ h <= (pos + new) + C.size - FTR /\ Least <= C.size
      BY <2>3, <2>10 DEF Least
    <3> QED BY <1>5, <2>3, <2>6, <2>10, <3>1, StandsKeeps
  <2> QED BY <2>4, <2>7, <2>8, <2>9, <2>10
<1> QED BY <1>7, <1>8

LEMMA StandsIs ==
    ASSUME NEW m, NEW a, NEW hd, Stands(m, a, hd)
    PROVE  /\ Is(m, a, "hdr") /\ m[a] = hd /\ End(m, a) = a + hd.size
           /\ Is(m, Foot(m, a), "ftr") /\ m[Foot(m, a)].header = a
BY DEF Stands, End, Foot

(* The sizes that Carve computes, if there is room.                        *)
Measured(hole, osize, asked, front, new, pos, fsize, rest, tail) ==
    /\ hole \in Nat /\ osize \in Nat /\ asked \in Nat /\ front \in BOOLEAN
    /\ START <= hole /\ hole + osize <= MAX /\ asked + Least <= osize
    /\ front => PAGE <= hole
    /\ new = (IF osize - (asked + HDR + FTR) < HDR + FTR
              THEN osize - HDR - FTR ELSE asked) + HDR + FTR
    /\ pos = IF front THEN u32(hole + PAGE - (hole % PAGE) - HDR) ELSE hole
    /\ fsize = u32(pos - hole)
    /\ rest = u32(osize - (IF front THEN fsize ELSE 0) - new)
    /\ tail = u32(pos + new)
    /\ ~(front /\ pos - hole < HDR + FTR)
    /\ ~(pos + new + HDR + FTR > hole + osize /\ pos + new # hole + osize)

LEMMA CarveRoom ==
    ASSUME NEW hole, NEW osize, NEW asked, NEW front, NEW new, NEW pos, NEW fsize, NEW rest,
           NEW tail, Measured(hole, osize, asked, front, new, pos, fsize, rest, tail)
    PROVE  /\ pos \in Nat /\ hole <= pos /\ (~front => pos = hole) /\ (front <=> hole < pos)
           /\ front => /\ fsize = pos - hole /\ Least <= fsize
                       /\ u32(pos - FTR) = u32(hole + fsize - FTR)
           /\ new \in Nat /\ asked + Least <= new
           /\ rest \in Nat /\ (rest = 0 \/ Least <= rest)
           /\ tail = pos + new /\ tail + rest = hole + osize
           /\ fsize \in Bytes /\ new \in Bytes /\ rest \in Bytes
           /\ u32(tail + rest - FTR) = hole + osize - FTR
<1> USE Linear
<1>0. /\ hole \in Nat /\ osize \in Nat /\ asked \in Nat /\ front \in BOOLEAN
      /\ START <= hole /\ hole + osize <= MAX /\ asked + Least <= osize
      /\ front => PAGE <= hole
      /\ new = (IF osize - (asked + HDR + FTR) < HDR + FTR
                THEN osize - HDR - FTR ELSE asked) + HDR + FTR
      /\ pos = IF front THEN u32(hole + PAGE - (hole % PAGE) - HDR) ELSE hole
      /\ fsize = u32(pos - hole)
      /\ rest = u32(osize - (IF front THEN fsize ELSE 0) - new)
      /\ tail = u32(pos + new)
      /\ ~(front /\ pos - hole < HDR + FTR)
      /\ ~(pos + new + HDR + FTR > hole + osize /\ pos + new # hole + osize)
  BY Zenon DEF Measured
<1> USE <1>0
<1>1. new \in Nat /\ asked + Least <= new
  BY DEF Least
<1>2. pos \in Nat /\ hole <= pos /\ (~front => pos = hole) /\ (front => Least <= pos - hole)
  <2>1. CASE front
    <3>1. hole % PAGE \in 0..(PAGE - 1)
      BY DivMod
    <3>2. PICK k \in Nat : k = hole % PAGE /\ k < PAGE
      BY <3>1
    <3>3. hole + PAGE - k - HDR \in Bytes
      BY <2>1, <3>2 DEF Bytes
    <3>4. pos = hole + PAGE - k - HDR
      BY <2>1, <3>2, <3>3, u32Small
    <3>5. pos \in Nat
      BY <3>3, <3>4 DEF Bytes
    <3>6. Least <= pos - hole
      BY <2>1, <3>5 DEF Least
    <3> QED BY <2>1, <3>5, <3>6 DEF Least
  <2>2. CASE ~front
    BY <2>2
  <2> QED BY <2>1, <2>2
<1>3. pos + new <= hole + osize /\ (pos + new = hole + osize \/ pos + new + Least <= hole + osize)
  BY <1>1, <1>2 DEF Least
<1>4. pos - hole \in Bytes /\ new \in Bytes /\ pos + new \in Bytes
      /\ hole + osize - pos - new \in Bytes
  BY <1>1, <1>2, <1>3 DEF Bytes
<1>5. fsize = pos - hole /\ tail = pos + new
  BY <1>4, u32Small
<1>6. osize - (IF front THEN fsize ELSE 0) - new = hole + osize - pos - new
  BY <1>1, <1>2, <1>5
<1>7. rest = hole + osize - pos - new
  BY <1>4, <1>6, u32Small
<1>8. rest \in Nat /\ tail + rest = hole + osize /\ (rest = 0 \/ Least <= rest)
  BY <1>1, <1>2, <1>3, <1>5, <1>7 DEF Least
<1>9. u32(tail + rest - FTR) = hole + osize - FTR
  <2>1. hole + osize - FTR \in Bytes
    BY DEF Bytes, Least
  <2>2. tail + rest - FTR = hole + osize - FTR
    BY <1>1, <1>2, <1>5, <1>8
  <2> QED BY <2>1, <2>2, u32Small
<1>10. pos - FTR = hole + fsize - FTR /\ (front <=> hole < pos)
  BY <1>2, <1>5 DEF Least
<1> QED BY <1>1, <1>2, <1>4, <1>5, <1>7, <1>8, <1>9, <1>10

(* The pieces that Carve leaves of a hole: one in front, the block and one *)
(* behind.                                                                 *)
Pieced(m, hole, pos, new, rest, A, B, C, N) ==
    /\ Typed(m) /\ pos \in Nat /\ new \in Nat /\ rest \in Nat
    /\ hole < pos => A.size = pos - hole /\ Least <= A.size
    /\ B.size = new /\ C.size = rest
    /\ hole <= pos /\ Least <= new /\ (rest = 0 \/ Least <= rest)
    /\ pos + new + rest = hole + mem[hole].size
    /\ Frame(mem, m, hole, pos + new + rest) /\ (hole < pos => Stands(m, hole, A))
    /\ Stands(m, pos, B) /\ (rest > 0 => Stands(m, pos + new, C))
    /\ \A a : a \in N <=> a = pos \/ (hole < pos /\ a = hole) \/ (rest > 0 /\ a = pos + new)

(* They take up the room of the hole.                                      *)
LEMMA CarvedPieces ==
    ASSUME TInv, Sound(mem, index, live, end_address), NEW hole \in HolesIn(index),
           NEW m, NEW pos, NEW new, NEW rest, NEW A, NEW B, NEW C, NEW N,
           Pieced(m, hole, pos, new, rest, A, B, C, N)
    PROVE  Replaces(mem, m, HolesIn(index) \cup Heads(live), {hole}, N, end_address, end_address,
                    hole, pos + new + rest, pos + new + rest, pos + new + rest)
<1> USE Linear
<1>0. /\ Typed(m) /\ pos \in Nat /\ new \in Nat /\ rest \in Nat
      /\ hole < pos => A.size = pos - hole /\ Least <= A.size
      /\ B.size = new /\ C.size = rest
      /\ hole <= pos /\ Least <= new /\ (rest = 0 \/ Least <= rest)
      /\ pos + new + rest = hole + mem[hole].size
      /\ Frame(mem, m, hole, pos + new + rest) /\ (hole < pos => Stands(m, hole, A))
      /\ Stands(m, pos, B) /\ (rest > 0 => Stands(m, pos + new, C))
      /\ \A a : a \in N <=> a = pos \/ (hole < pos /\ a = hole) \/ (rest > 0 /\ a = pos + new)
  BY Zenon DEF Pieced
<1> USE <1>0
<1> DEFINE T == HolesIn(index) \cup Heads(live)
           hi == pos + new + rest
<1>1. Typed(mem) /\ end_address \in Nat
  BY TypeParts DEF TInv
<1>2. /\ hole \in Nat /\ START <= hole /\ End(mem, hole) = hi /\ hi <= end_address
      /\ hole < hi
  BY SoundPieces
<1>3. Tiles(mem, T, end_address)
  BY DEF Sound
<1>4. \A a \in {hole} : hole <= a /\ End(mem, a) <= hi
  BY <1>2
<1>5. \A a \in T \ {hole} : End(mem, a) <= hole \/ hi <= a
  BY <1>2, <1>3 DEF Tiles, Apart
<1>6. /\ pos \in N /\ End(m, pos) = pos + new /\ Is(m, pos, "hdr") /\ m[pos].size = new
      /\ m[Foot(m, pos)].header = pos
  <2>1. pos \in N
    OBVIOUS
  <2>2. /\ Is(m, pos, "hdr") /\ m[pos] = B /\ End(m, pos) = pos + B.size
        /\ m[Foot(m, pos)].header = pos
    BY StandsIs
  <2> QED BY <2>1, <2>2
<1>7. ASSUME hole < pos
      PROVE  /\ hole \in N /\ End(m, hole) = pos /\ Is(m, hole, "hdr") /\ Least <= m[hole].size
             /\ m[Foot(m, hole)].header = hole
  <2>1. Stands(m, hole, A) /\ A.size = pos - hole /\ Least <= A.size
    BY <1>7
  <2>2. hole \in N
    BY <1>7
  <2>3. /\ Is(m, hole, "hdr") /\ m[hole] = A /\ End(m, hole) = hole + A.size
        /\ m[Foot(m, hole)].header = hole
    BY <2>1, StandsIs
  <2> QED BY <1>2, <2>1, <2>2, <2>3
<1>8. ASSUME rest > 0
      PROVE  /\ pos + new \in N /\ End(m, pos + new) = hi /\ Is(m, pos + new, "hdr")
             /\ m[pos + new].size = rest /\ m[Foot(m, pos + new)].header = pos + new
  <2>1. Stands(m, pos + new, C) /\ C.size = rest
    BY <1>8
  <2> QED BY <1>8, <2>1, StandsIs
<1>9. \A a \in N : hole <= a /\ Is(m, a, "hdr") /\ Least <= m[a].size /\ End(m, a) <= hi
  <2> SUFFICES ASSUME NEW a \in N
               PROVE  hole <= a /\ Is(m, a, "hdr") /\ Least <= m[a].size /\ End(m, a) <= hi
    OBVIOUS
  <2>1. CASE a = pos
    BY <1>2, <1>6, <2>1
  <2>2. CASE hole < pos /\ a = hole
    BY <1>2, <1>7, <2>2
  <2>3. CASE rest > 0 /\ a = pos + new
    BY <1>2, <1>8, <2>3
  <2> QED BY <2>1, <2>2, <2>3
<1>10. Apart(m, N)
  <2> SUFFICES ASSUME NEW a \in N, NEW k \in N, a # k PROVE End(m, a) <= k \/ End(m, k) <= a
    BY DEF Apart
  <2> QED BY <1>2, <1>6, <1>7, <1>8
<1>11. Named(m, N)
  BY <1>6, <1>7, <1>8 DEF Named
<1>12. \A x \in hole..(hi - 1) : \E a \in N : a <= x /\ x < End(m, a)
  <2> SUFFICES ASSUME NEW x \in hole..(hi - 1) PROVE \E a \in N : a <= x /\ x < End(m, a)
    OBVIOUS
  <2>1. CASE x < pos
    BY <1>2, <1>7, <2>1
  <2>2. CASE pos <= x /\ x < pos + new
    BY <1>6, <2>2
  <2>3. CASE pos + new <= x
    BY <1>2, <1>8, <2>3
  <2> QED BY <1>2, <2>1, <2>2, <2>3
<1>13. hi \in Nat /\ {hole} \subseteq T /\ hole <= hi
  BY <1>2
<1> HIDE DEF T, hi
<1>14. Replaces(mem, m, T, {hole}, N, end_address, end_address, hole, hi, hi, hi)
  <2>1. Frame(mem, m, hole, hi)
    BY DEF hi
  <2> QED BY <1>1, <1>2, <1>3, <1>4, <1>5, <1>9, <1>10, <1>11, <1>12, <1>13, <2>1 DEF Replaces
<1> QED BY <1>14 DEF T, hi

LEMMA CarveSound ==
    ASSUME TInv, Sound(mem, index, live, end_address), NEW r \in Requests, Carve(r[1], r[2]),
           defects' = {}, end_address <= top
    PROVE  /\ Sound(mem', index', live', end_address') /\ end_address' <= top'
           /\ status' = status
<1> USE Linear
<1> DEFINE asked == r[1]
           page_align == r[2]
           it    == find_smallest_hole(asked + HDR + FTR, page_align)
           hole  == index[it]
           osize == SizeAt(mem, hole)
           whole == osize - (asked + HDR + FTR) < HDR + FTR
           size  == IF whole THEN osize - HDR - FTR ELSE asked
           new   == size + HDR + FTR
           front == page_align /\ hole >= PAGE
           pos   == IF front THEN u32(hole + PAGE - (hole % PAGE) - HDR) ELSE hole
           fsize == u32(pos - hole)
           mem1  == IF front
                    THEN Store(Store(mem, hole, header(TRUE, fsize)), u32(pos - FTR),
                               footer(hole))
                    ELSE mem
           mem2  == PutBlock(mem1, pos, new)
           left  == u32(osize - (IF front THEN fsize ELSE 0) - new)
           tail  == u32(pos + new)
           mem3  == Store(mem2, tail, header(TRUE, left))
           tfoot == u32(tail + left - FTR)
           mem4  == IF tfoot < end_address THEN Store(mem3, tfoot, footer(tail)) ELSE mem3
           rest  == IF front THEN index ELSE remove_ordered_array(index, it)
           ix    == IF left > 0 THEN Insert(rest, mem4, tail) ELSE rest
           final == IF left > 0 THEN mem4 ELSE mem2
           fault == \/ pos + new > top
                    \/ left > 0 /\ tail + HDR > top
                    \/ left > 0 /\ tfoot < end_address /\ tfoot + FTR > top
           Done  == /\ index' = ix
                    /\ mem' = final \/ mem' = Wipe(final, pos + HDR, asked)
                    /\ live' = live \cup {<<pos + HDR, asked>>}
                    /\ end_address' = end_address /\ top' = top /\ status' = status
<1>1. it > 0 /\ ~Overrun(ix) /\ (fault \/ Done)
  <2>1. /\ it > 0
        /\ IF fault THEN Stop("page_fault") ELSE IF Overrun(ix) THEN Stop("overrun") ELSE Done
    BY DEF Carve
  <2>2. ~Overrun(ix)
    BY DEF Carve, Note
  <2> HIDE DEF it, fault, ix, Done
  <2> QED BY <2>1, <2>2
<1>2. /\ hole # NULL /\ ~(front /\ pos - hole < HDR + FTR)
      /\ ~(pos + new + HDR + FTR > hole + osize /\ pos + new # hole + osize)
  BY DEF Carve, Note
<1>3. /\ Typed(mem) /\ index \in Seq(Bytes) /\ end_address \in Nat /\ end_address <= MAX
      /\ TypeOK
  BY TypeParts DEF TInv
<1>4. it \in 1..Len(index) /\ hole \in Bytes /\ Fits(hole, asked + HDR + FTR, page_align)
  <2>1. /\ it \in 0..Len(index)
        /\ it # 0 => hole \in Bytes /\ Fits(hole, asked + HDR + FTR, page_align)
    BY <1>3, Found
  <2>2. it > 0
    BY <1>1, Zenon
  <2>3. Len(index) \in Nat
    BY <1>3
  <2> HIDE DEF it, hole, asked, page_align
  <2> QED BY <2>1, <2>2, <2>3
<1>5. asked \in Nat /\ page_align \in BOOLEAN
  BY RequestType
<1> HIDE DEF asked, page_align, it
<1>6. hole \in HolesIn(index)
  BY <1>2, <1>4 DEF HolesIn
<1>7. Distinct(index) /\ Above(mem) /\ \A a \in Heads(live) : a # hole
  BY <1>6, SoundPieces DEF Sound
<1> HIDE DEF hole
<1>8. /\ hole \in Nat /\ START <= hole /\ Is(mem, hole, "hdr") /\ mem[hole].size \in Nat
      /\ hole + mem[hole].size <= end_address
  BY <1>6, SoundPieces
<1>9. osize = mem[hole].size
  BY <1>8 DEF SizeAt
<1>10. asked + Least <= osize
  <2>1. asked + HDR + FTR \in Nat /\ asked + HDR + FTR = asked + Least
    BY <1>5 DEF Least
  <2> QED BY <1>3, <1>4, <2>1, FitsRoom
<1> HIDE DEF osize
<1>11. front \in BOOLEAN /\ (front => PAGE <= hole)
  BY <1>5
<1> HIDE DEF front
<1>12. /\ pos \in Nat /\ hole <= pos /\ (~front => pos = hole)
       /\ front => /\ fsize = pos - hole /\ Least <= fsize
                   /\ u32(pos - FTR) = u32(hole + fsize - FTR)
       /\ new \in Nat /\ asked + Least <= new
       /\ left \in Nat /\ (left = 0 \/ Least <= left)
       /\ tail = pos + new /\ tail + left = hole + osize
       /\ fsize \in Bytes /\ new \in Bytes /\ left \in Bytes
       /\ tfoot = hole + osize - FTR /\ (front <=> hole < pos)
  <2>1. hole + osize <= MAX
    BY <1>3, <1>8, <1>9
  <2>2. new = (IF osize - (asked + HDR + FTR) < HDR + FTR
               THEN osize - HDR - FTR ELSE asked) + HDR + FTR
    OBVIOUS
  <2>3. /\ pos = IF front THEN u32(hole + PAGE - (hole % PAGE) - HDR) ELSE hole
        /\ fsize = u32(pos - hole)
    OBVIOUS
  <2>4. /\ left = u32(osize - (IF front THEN fsize ELSE 0) - new) /\ tail = u32(pos + new)
        /\ tfoot = u32(tail + left - FTR)
    OBVIOUS
  <2>5. osize \in Nat
    BY <1>8, <1>9
  <2> HIDE DEF new, pos, fsize, left, tail, tfoot
  <2>6. Measured(hole, osize, asked, front, new, pos, fsize, left, tail)
    BY <1>2, <1>5, <1>8, <1>10, <1>11, <2>1, <2>2, <2>3, <2>4, <2>5 DEF Measured
  <2> QED BY <2>4, <2>6, CarveRoom
<1> HIDE DEF pos, fsize, new, left, tail, tfoot
<1>normal. /\ index' = IF left > 0 THEN Insert(rest, mem4, tail) ELSE rest
           /\ mem' = final \/ mem' = Wipe(final, pos + HDR, asked)
           /\ live' = live \cup {<<pos + HDR, asked>>}
           /\ end_address' = end_address /\ top' = top /\ status' = status
  <2>1. top \in Nat
    BY TypeParts DEF TInv
  <2>2. hole + osize <= top /\ osize \in Nat /\ tail \in Nat
    BY <1>3, <1>8, <1>9, <1>12, <2>1
  <2>3. tail <= top /\ (left > 0 => tail + HDR <= top) /\ tfoot + FTR <= top
    BY <1>8, <1>12, <2>1, <2>2 DEF Least
  <2>4. ~fault
    BY <1>12, <2>1, <2>2, <2>3
  <2> HIDE DEF fault
  <2> QED BY <1>1, <2>4, Zenon
<1> HIDE DEF fault, ix, Done
<1> DEFINE A == header(TRUE, fsize)
           B == header(FALSE, new)
           C == header(TRUE, left)
<1>13. A \in Cell /\ A.kind = "hdr" /\ A.size = fsize /\ A.is_hole = TRUE
  BY <1>12, HeaderType
<1>14. B \in Cell /\ B.kind = "hdr" /\ B.size = new /\ B.is_hole = FALSE
  BY <1>12, HeaderType
<1>15. C \in Cell /\ C.kind = "hdr" /\ C.size = left /\ C.is_hole = TRUE
  BY <1>12, HeaderType
<1>16. mem1 = IF front THEN PutPiece(mem, hole, A) ELSE mem
  <2>1. CASE front
    <3>1. u32(pos - FTR) = u32(hole + A.size - FTR)
      <4> HIDE DEF A
      <4> QED BY <1>12, <1>13, <2>1
    <3> QED BY <2>1, <3>1, Zenon DEF PutPiece
  <2>2. CASE ~front
    BY <2>2, Zenon
  <2> QED BY <2>1, <2>2, Zenon
<1> HIDE DEF mem1
<1>17. mem2 = PutPiece(mem1, pos, B)
  BY <1>14, Zenon DEF PutBlock, PutPiece
<1> HIDE DEF mem2, A, B
<1>18. left > 0 => mem4 = PutPiece(mem2, tail, C)
  <2>1. tfoot < end_address
    <3>1. /\ tfoot = hole + osize - FTR /\ hole \in Nat /\ osize \in Nat
          /\ hole + osize <= end_address
      BY <1>8, <1>9, <1>12
    <3> QED BY <1>3, <3>1
  <2>2. C.size = left
    BY <1>15
  <2> QED BY <2>1, <2>2, Zenon DEF PutPiece, tfoot
<1> HIDE DEF mem3, mem4, C
<1>19. final = IF left > 0 THEN PutPiece(mem2, pos + new, C) ELSE mem2
  BY <1>12, <1>18
<1> HIDE DEF final
<1>20. /\ Typed(mem') /\ Above(mem') /\ Frame(mem, mem', hole, pos + new + left)
       /\ hole < pos => Stands(mem', hole, A)
       /\ Stands(mem', pos, B)
       /\ left > 0 => Stands(mem', pos + new, C)
  <2>1. mem' = final \/ mem' = Wipe(final, pos + HDR, asked)
    BY <1>normal
  <2>2. pos + new + left <= MAX
    <3>1. pos + new + left = hole + osize
      BY <1>12
    <3> QED BY <1>3, <1>8, <1>9, <3>1
  <2>3. hole < pos => A.size = pos - hole /\ Least <= A.size
    BY <1>12, <1>13
  <2>4. B.size = new /\ C.size = left
    BY <1>14, <1>15
  <2>5. mem1 = IF hole < pos THEN PutPiece(mem, hole, A) ELSE mem
    BY <1>12, <1>16
  <2>6. CutUp(mem, mem1, mem2, final, mem', hole, pos, new, left, asked, A, B, C)
    BY <1>3, <1>5, <1>7, <1>8, <1>12, <1>13, <1>14, <1>15, <1>17, <1>19, <2>1, <2>2, <2>3,
       <2>4, <2>5 DEF CutUp
  <2> QED BY <2>6, CarvedMemory
<1> DEFINE N == {pos} \cup (IF front THEN {hole} ELSE {}) \cup (IF left > 0 THEN {tail} ELSE {})
           T == HolesIn(index) \cup Heads(live)
           hi == pos + new + left
<1>21. Replaces(mem, mem', T, {hole}, N, end_address, end_address, hole, hi, hi, hi)
  <2>1. \A a : a \in N <=> a = pos \/ (hole < pos /\ a = hole) \/ (left > 0 /\ a = pos + new)
    BY <1>12
  <2>2. pos + new + left = hole + mem[hole].size /\ Least <= new
    BY <1>5, <1>8, <1>9, <1>12 DEF Least
  <2>3. hole < pos => A.size = pos - hole /\ Least <= A.size
    BY <1>12, <1>13
  <2>4. B.size = new /\ C.size = left
    BY <1>14, <1>15
  <2> HIDE DEF N
  <2>5. Pieced(mem', hole, pos, new, left, A, B, C, N)
    BY <1>12, <1>20, <2>1, <2>2, <2>3, <2>4 DEF Pieced
  <2> QED BY <1>6, <2>5, CarvedPieces
<1>22. ASSUME NEW x \in Nat, hole <= x, x < hi, x # hole PROVE x \notin T
  <2> SUFFICES ASSUME x \in T PROVE FALSE
    OBVIOUS
  <2>1. x < End(mem, x) /\ End(mem, hole) = hi
    BY <1>6, <1>8, <1>9, <1>12, SoundPieces
  <2> QED BY <1>6, <1>22, <2>1, OnePiece
<1>23. /\ index' \in Seq(Bytes) /\ Distinct(index')
       /\ \A a : a \in HolesIn(index') <=>
                    \/ a \in HolesIn(index) \ {hole} \/ (front /\ a = hole)
                    \/ (left > 0 /\ a = tail)
  <2>1. /\ rest \in Seq(Bytes) /\ Distinct(rest)
        /\ HolesIn(rest) = IF front THEN HolesIn(index) ELSE HolesIn(index) \ {hole}
    <3>1. index[it] = hole
      BY DEF hole
    <3>2. /\ remove_ordered_array(index, it) \in Seq(Bytes)
          /\ HolesIn(remove_ordered_array(index, it)) = HolesIn(index) \ {hole}
          /\ Distinct(remove_ordered_array(index, it))
      BY <1>2, <1>3, <1>4, <1>7, <3>1, RemoveIs, RemoveHoles
    <3> QED BY <1>3, <1>7, <3>2
  <2> HIDE DEF rest
  <2>2. CASE left > 0
    <3>1. tail \in Nat /\ hole <= tail /\ tail < hi /\ tail # hole
      BY <1>5, <1>8, <1>12, <2>2 DEF Least
    <3>2. tail \notin T
      BY <1>22, <3>1
    <3>3. tail \notin HolesIn(rest)
      BY <2>1, <3>2
    <3>4. tail \in Bytes /\ tail # NULL
      BY <1>3, <1>8, <1>9, <1>12, <3>1 DEF Bytes, NULL
    <3>5. index' = Insert(rest, mem4, tail)
      BY <1>normal, <2>2
    <3>6. /\ index' \in Seq(Bytes) /\ HolesIn(index') = HolesIn(rest) \cup {tail}
          /\ Distinct(index')
      BY <2>1, <3>3, <3>4, <3>5, InsertHoles
    <3> QED BY <1>6, <2>1, <2>2, <3>6
  <2>3. CASE ~(left > 0)
    BY <1>normal, <1>6, <2>1, <2>3
  <2> QED BY <2>2, <2>3
<1>24. Heads(live') = Heads(live) \cup {pos}
  <2>1. (pos + HDR) - HDR = pos
    BY <1>12
  <2>2. \A a : a \in Heads(live') <=> \E b \in live' : a = b[1] - HDR
    BY DEF Heads
  <2>3. \A a : a \in Heads(live) <=> \E b \in live : a = b[1] - HDR
    BY DEF Heads
  <2>4. <<pos + HDR, asked>>[1] - HDR = pos
    BY <2>1
  <2>5. ASSUME NEW a \in Heads(live') PROVE a \in Heads(live) \cup {pos}
    <3>1. PICK b \in live' : a = b[1] - HDR
      BY <2>2
    <3>2. b \in live \/ b = <<pos + HDR, asked>>
      BY <1>normal
    <3> QED BY <2>3, <2>4, <3>1, <3>2
  <2>6. ASSUME NEW a \in Heads(live) \cup {pos} PROVE a \in Heads(live')
    <3>1. <<pos + HDR, asked>> \in live' /\ live \subseteq live'
      BY <1>normal
    <3> QED BY <2>2, <2>3, <2>4, <3>1
  <2> QED BY <2>5, <2>6
<1>25. HolesIn(index') \cup Heads(live') = (T \ {hole}) \cup N
  BY <1>6, <1>7, <1>23, <1>24
<1>26. \A a \in HolesIn(index') : a \in HolesIn(index) \ {hole} \/ mem'[a].is_hole
  <2>1. front => mem'[hole].is_hole
    BY <1>12, <1>13, <1>20, StandsIs
  <2>2. left > 0 => mem'[tail].is_hole
    BY <1>12, <1>15, <1>20, StandsIs
  <2> QED BY <1>23, <2>1, <2>2
<1>27. \A b \in live' : (b \in live /\ b[1] - HDR \notin {hole}) \/ Owned(mem', b)
  <2>1. \A b \in live : b[1] - HDR \notin {hole}
    BY <1>7 DEF Heads
  <2>2. Owned(mem', <<pos + HDR, asked>>)
    <3>1. /\ mem'[pos] = B /\ B.is_hole = FALSE /\ asked + Least <= B.size
          /\ Is(mem', Foot(mem', pos), "ftr")
      BY <1>12, <1>14, <1>20, StandsIs
    <3>2. <<pos + HDR, asked>>[1] - HDR = pos
      BY <1>12
    <3> QED BY <3>1, <3>2 DEF Owned
  <2> QED BY <1>normal, <2>1, <2>2
<1>28. \A b, c \in live' : b[1] = c[1] => b = c
  <2>1. \A b, c \in live : b[1] = c[1] => b = c
    BY DEF Sound
  <2>2. pos \notin Heads(live)
    <3>1. pos < hi
      BY <1>5, <1>12 DEF Least
    <3> QED BY <1>7, <1>12, <1>22, <3>1
  <2>3. \A b \in live : b[1] # pos + HDR
    <3>1. (pos + HDR) - HDR = pos
      BY <1>12
    <3> QED BY <2>2, <3>1 DEF Heads
  <2> QED BY <1>normal, <2>1, <2>3
<1> HIDE DEF N, hi
<1>29. T = HolesIn(index) \cup Heads(live)
  OBVIOUS
<1> HIDE DEF T
<1>30. Sound(mem', index', live', end_address)
  BY <1>20, <1>21, <1>23, <1>25, <1>26, <1>27, <1>28, <1>29, Reassemble, ZenonT(60)
<1> QED BY <1>normal, <1>30

LEMMA ExpandSound ==
    ASSUME TInv, Sound(mem, index, live, end_address), NEW r \in Requests, Expand(r[1], r[2]),
           defects' = {}, end_address <= top
    PROVE  /\ Sound(mem', index', live', end_address') /\ end_address' <= top'
           /\ status' \in {status, "full"}
<1> USE Linear
<1> DEFINE asked == r[1]
           old  == end_address - START
           new  == RoundExpand(old + asked + HDR + FTR)
           last == Max({0} \cup {index[k] : k \in 1..Len(index)})
           hole == IF last = 0 THEN end_address ELSE last
           size == u32(new - old + (IF last = 0 THEN 0 ELSE SizeAt(mem, last)))
           head == IF last = 0 THEN header(TRUE, size) ELSE [mem[last] EXCEPT !.size = size]
           foot == u32(hole + size - FTR)
           mem1 == Store(Store(mem, hole, head), foot, footer(hole))
           ix   == IF last = 0 THEN Insert(index, mem1, hole) ELSE index
           high == Max({top, MappedEnd(old, new)})
           Done == /\ end_address' = START + new /\ top' = high /\ mem' = mem1
                   /\ index' = ix /\ live' = live /\ status' = status
<1>1. \/ UNCHANGED <<mem, index, end_address, top, live>> /\ status' = "full"
      \/ /\ ~(START + new > MAX)
         /\ ~(last # 0 /\ last + SizeAt(mem, last) # end_address)
         /\ ~(START + new > high)
         /\ foot + FTR > high \/ Done
  <2>1. IF Overreach(new) THEN Stop("full")
        ELSE /\ defects' = defects
                   \cup Note("not the last", last # 0 /\ last + SizeAt(mem, last) # end_address)
                   \cup Note("page left out", START + new > high)
                   \cup Note("index full", Overrun(ix))
             /\ IF foot + FTR > high THEN Stop("page_fault")
                ELSE IF Overrun(ix) THEN Stop("overrun") ELSE Done
    BY DEF Expand
  <2> HIDE DEF new, mem1, last, hole, foot, ix, high, Done
  <2>2. CASE Overreach(new)
    BY <2>1, <2>2 DEF Stop
  <2>3. CASE ~Overreach(new)
    BY <2>1, <2>3 DEF Overreach, Note
  <2> QED BY <2>2, <2>3
<1>2. CASE UNCHANGED <<mem, index, end_address, top, live>> /\ status' = "full"
  BY <1>2
<1>3. ASSUME ~(START + new > MAX),
             ~(last # 0 /\ last + SizeAt(mem, last) # end_address),
             ~(START + new > high), foot + FTR > high \/ Done
      PROVE  /\ Sound(mem', index', live', end_address') /\ end_address' <= top'
             /\ status' = status
  <2>1. /\ Typed(mem) /\ index \in Seq(Bytes) /\ end_address \in Nat /\ START <= end_address
        /\ end_address <= MAX /\ end_address \in Bytes
    BY TypeParts DEF TInv
  <2>2. /\ last \in Bytes /\ (last # 0 => last \in HolesIn(index))
        /\ \A a \in HolesIn(index) : a <= last
    BY LastHole DEF TInv
  <2>3. old \in Nat /\ asked \in Nat
    BY <2>1, RequestType
  <2> HIDE DEF last, asked, old
  <2>4. new \in Nat /\ old + Least <= new
    <3>1. old + asked + HDR + FTR \in Nat
      BY <2>3
    <3>2. new \in Nat /\ old + asked + HDR + FTR <= new
      BY <3>1, Expansion
    <3> HIDE DEF new
    <3> QED BY <2>3, <3>2 DEF Least
  <2> HIDE DEF new
  <2>5. START + new \in Nat /\ START + new <= MAX /\ end_address + Least <= START + new
    <3>1. START + old = end_address /\ old \in Nat
      BY <2>1 DEF old
    <3>2. START + new <= MAX
      BY <1>3, <2>4
    <3> QED BY <2>4, <3>1, <3>2 DEF Least
  <2>6. /\ hole \in Nat /\ START <= hole /\ size \in Bytes /\ size \in Nat /\ Least <= size
        /\ hole + size = START + new /\ hole <= end_address
        /\ last # 0 => End(mem, last) = end_address /\ Is(mem, last, "hdr")
    <3>1. CASE last = 0
      <4>1. new - old \in Bytes
        BY <2>3, <2>4, <2>5 DEF Bytes, Least
      <4>2. size = new - old
        BY <2>3, <2>4, <3>1, <4>1, u32Small
      <4>3. hole = end_address
        BY <3>1
      <4> HIDE DEF size, hole
      <4> QED BY <2>1, <2>3, <2>4, <3>1, <4>1, <4>2, <4>3 DEF Bytes, Least, old
    <3>2. CASE last # 0
      <4>1. /\ last \in Nat /\ START <= last /\ Is(mem, last, "hdr") /\ mem[last].size \in Nat
            /\ End(mem, last) = last + mem[last].size /\ Least <= mem[last].size
        BY <2>2, <3>2, SoundPieces
      <4>2. SizeAt(mem, last) = mem[last].size
        BY <4>1 DEF SizeAt
      <4>3. End(mem, last) = end_address
        BY <1>3, <3>2, <4>1, <4>2
      <4>4. PICK z \in Nat : z = mem[last].size /\ last + z = end_address
        BY <4>1, <4>3
      <4>5. new - old + z = START + new - last /\ last <= end_address
        <5>1. old = end_address - START /\ end_address \in Nat
          BY <2>1 DEF old
        <5>2. last \in Nat /\ z \in Nat /\ last + z = end_address /\ new \in Nat
          BY <2>4, <4>1, <4>4
        <5> QED BY <5>1, <5>2
      <4>6. new - old + mem[last].size = START + new - last
        BY <4>4, <4>5
      <4>7. START + new - last \in Bytes /\ Least <= START + new - last
        <5>1. last \in Nat /\ last <= end_address
          BY <4>1, <4>5
        <5>2. Least <= START + new - last
          BY <2>1, <2>4, <2>5, <5>1 DEF Least
        <5>3. START + new - last \in Nat /\ START + new - last < U32
          BY <2>1, <2>4, <2>5, <5>1, <5>2 DEF Least
        <5> QED BY <5>2, <5>3 DEF Bytes
      <4>8. size = START + new - last
        BY <3>2, <4>2, <4>6, <4>7, u32Small
      <4>9. hole = last
        BY <3>2
      <4> HIDE DEF size, hole
      <4> QED BY <2>1, <2>4, <4>1, <4>3, <4>7, <4>8, <4>9 DEF Bytes, Least
    <3> QED BY <3>1, <3>2
  <2>normal. /\ end_address' = START + new /\ mem' = mem1 /\ live' = live /\ status' = status
             /\ index' = IF last = 0 THEN Insert(index, mem1, hole) ELSE index
             /\ end_address' <= top'
    <3>1. hole + size - FTR \in Bytes
      BY <2>5, <2>6 DEF Bytes, Least
    <3>2. foot + FTR = START + new
      <4>1. foot = hole + size - FTR
        BY <3>1, u32Small
      <4> HIDE DEF foot, hole, size
      <4> QED BY <2>5, <2>6, <4>1
    <3>3. Done
      <4> HIDE DEF foot, high, Done
      <4> QED BY <1>3, <3>2
    <3>4. high \in Nat
      <4>0. top \in Nat
        BY TypeParts DEF TInv
      <4>1. old < new /\ top \in Nat
        BY <2>3, <2>4, <4>0 DEF Least
      <4>2. MappedEnd(old, new) \in Nat
        BY <2>3, <2>4, <2>5, <4>1, MappedEndIs
      <4> QED BY <4>1, <4>2, Largest
    <3>5. START + new <= high
      <4> HIDE DEF high
      <4> QED BY <1>3, <2>5, <3>4
    <3> HIDE DEF high, mem1, hole
    <3> QED BY <3>3, <3>5
  <2>7. head \in Cell /\ head.kind = "hdr" /\ head.size = size /\ head.is_hole = TRUE
    <3>1. CASE last = 0
      <4> HIDE DEF size
      <4> QED BY <2>6, <3>1, HeaderType
    <3>2. CASE last # 0
      <4>1. mem[last] \in Cell /\ mem[last].kind = "hdr" /\ mem[last].is_hole = TRUE
        <5>1. mem[last].is_hole /\ mem[last] \in Cell /\ Is(mem, last, "hdr")
          BY <2>2, <3>2, SoundPieces
        <5>2. mem[last].is_hole \in BOOLEAN
          BY <2>1, <5>1, PieceType
        <5> QED BY <5>1, <5>2 DEF Is
      <4> HIDE DEF size
      <4> QED BY <2>6, <3>2, <4>1, Resized
    <3> QED BY <3>1, <3>2
  <2> HIDE DEF size, head
  <2>8. mem1 = PutPiece(mem, hole, head)
    BY <2>7 DEF PutPiece
  <2> HIDE DEF mem1
  <2> DEFINE R == IF last = 0 THEN {} ELSE {last}
             N == {hole}
             T == HolesIn(index) \cup Heads(live)
             e2 == START + new
  <2>9. Typed(mem') /\ Stands(mem', hole, head) /\ Frame(mem, mem', hole, e2) /\ Above(mem')
    <3>1. /\ hole + head.size <= U32 /\ Least <= head.size /\ hole <= hole
          /\ hole + head.size <= e2 /\ hole \in Int /\ e2 \in Int
      BY <2>5, <2>6, <2>7
    <3>2. Above(mem)
      BY SoundPieces
    <3> HIDE DEF hole, e2
    <3> QED BY <2>normal, <2>1, <2>6, <2>7, <2>8, <3>1, <3>2, PutPieceIs
  <2>10. /\ Is(mem', hole, "hdr") /\ mem'[hole].size = size /\ End(mem', hole) = e2
         /\ mem'[Foot(mem', hole)].header = hole /\ mem'[hole].is_hole = TRUE
    <3> HIDE DEF hole, e2
    <3>1. /\ Is(mem', hole, "hdr") /\ mem'[hole] = head /\ End(mem', hole) = hole + head.size
          /\ mem'[Foot(mem', hole)].header = hole
      BY <2>9, StandsIs
    <3> QED BY <2>6, <2>7, <3>1 DEF e2
  <2>11. \A a \in T \ R : End(mem, a) <= hole \/ end_address <= a
    <3>1. CASE last = 0
      BY <3>1, SoundPieces
    <3>2. CASE last # 0
      <4>1. last \in T /\ hole = last /\ R = {last}
        BY <2>2, <3>2
      <4> QED BY <2>6, <3>2, <4>1 DEF Sound, Tiles, Apart
    <3> QED BY <3>1, <3>2
  <2>12. \A a \in R : hole <= a /\ End(mem, a) <= end_address
    BY <2>1, <2>6
  <2>13. R \subseteq T /\ Tiles(mem, T, end_address)
    BY <2>2 DEF Sound
  <2>14. T = HolesIn(index) \cup Heads(live)
    OBVIOUS
  <2>15. HolesIn(index') \cup Heads(live') = (T \ R) \cup N /\ Distinct(index')
         /\ \A a \in HolesIn(index') : a \in HolesIn(index) \ R \/ a = hole
    <3>1. CASE last = 0
      <4>1. HolesIn(index) = {}
        <5>1. \A a \in HolesIn(index) : a \in Nat /\ a <= 0 /\ START <= a
          BY <2>2, <3>1, SoundPieces
        <5> QED BY <5>1
      <4>2. hole = end_address /\ end_address # NULL /\ R = {}
        BY <2>1, <3>1 DEF NULL
      <4>3. HolesIn(index') = {hole} /\ Distinct(index')
        <5>1. index' = Insert(index, mem1, end_address) /\ Distinct(index)
          BY <2>normal, <3>1 DEF Sound
        <5> QED BY <2>1, <4>1, <4>2, <5>1, InsertHoles
      <4> QED BY <2>normal, <4>1, <4>2, <4>3
    <3>2. CASE last # 0
      <4>1. index' = index /\ hole = last /\ R = {last} /\ last \in HolesIn(index)
        BY <2>normal, <2>2, <3>2
      <4>2. Distinct(index)
        BY DEF Sound
      <4>3. last \notin Heads(live)
        BY <4>1, SoundPieces
      <4> QED BY <2>normal, <4>1, <4>2, <4>3
    <3> QED BY <3>1, <3>2
  <2>16. \A b \in live : b[1] - HDR \notin R
    <3>1. \A b \in live : b[1] - HDR \in Heads(live)
      BY DEF Heads
    <3> QED BY <2>2, <3>1, SoundPieces
  <2>17. \A b, c \in live' : b[1] = c[1] => b = c
    BY <2>normal DEF Sound
  <2>18. \A b \in live' : (b \in live /\ b[1] - HDR \notin R) \/ Owned(mem', b)
    BY <2>normal, <2>16
  <2>19. \A a \in HolesIn(index') : a \in HolesIn(index) \ R \/ mem'[a].is_hole
    BY <2>10, <2>15
  <2> HIDE DEF T, R, hole
  <2>20. Replaces(mem, mem', T, R, N, end_address, e2, hole, end_address, e2, e2)
    <3>1. /\ e2 \in Nat /\ hole <= e2 /\ end_address <= e2 /\ Least <= mem'[hole].size
          /\ End(mem', hole) <= e2
      BY <2>1, <2>5, <2>6, <2>10 DEF Least
    <3>2. Apart(mem', N) /\ Named(mem', N)
      BY <2>10 DEF Apart, Named
    <3>3. \A x \in hole..(e2 - 1) : hole <= x /\ x < End(mem', hole)
      BY <2>6, <2>10, <3>1
    <3>4. /\ \A a \in N : /\ hole <= a /\ Is(mem', a, "hdr") /\ Least <= mem'[a].size
                          /\ End(mem', a) <= e2
      BY <2>6, <2>10, <3>1
    <3>5. \A x \in hole..(e2 - 1) : \E a \in N : a <= x /\ x < End(mem', a)
      BY <3>3
    <3> HIDE DEF e2, N
    <3> QED BY <2>1, <2>6, <2>9, <2>11, <2>12, <2>13, <3>1, <3>2, <3>4, <3>5 DEF Replaces
  <2> HIDE DEF N
  <2>21. Sound(mem', index', live', e2)
    <3> HIDE DEF e2
    <3> QED BY <2>9, <2>14, <2>15, <2>17, <2>18, <2>19, <2>20, Reassemble
  <2> QED BY <2>normal, <2>21
<1> QED BY <1>1, <1>2, <1>3

(* One piece takes the room of several.                                    *)
Merged(m, m2, T, R, a, e, e2, hi, hi2, hh) ==
    /\ Typed(m) /\ Typed(m2) /\ R \subseteq T /\ a \in Nat
    /\ e \in Nat /\ e2 \in Nat /\ hi \in Nat /\ hi2 \in Nat /\ hh \in Nat
    /\ Tiles(m, T, e) /\ Frame(m, m2, a, hh) /\ START <= a /\ a <= hi /\ hi <= e
    /\ \/ hi2 = hi /\ hh = hi /\ e2 = e
       \/ hi = e /\ hi2 = e2 /\ hi <= hh /\ hi2 <= hh
    /\ \A c \in R : a <= c /\ End(m, c) <= hi
    /\ \A c \in T \ R : End(m, c) <= a \/ hi <= c
    /\ Is(m2, a, "hdr") /\ Least <= m2[a].size /\ End(m2, a) = hi2
    /\ m2[Foot(m2, a)].header = a

LEMMA Single ==
    ASSUME NEW m, NEW m2, NEW T, NEW R, NEW a, NEW e, NEW e2, NEW hi, NEW hi2, NEW hh,
           Merged(m, m2, T, R, a, e, e2, hi, hi2, hh)
    PROVE  Replaces(m, m2, T, R, {a}, e, e2, a, hi, hi2, hh)
<1> USE Linear DEF Merged
<1>1. m2[a].size \in Nat /\ End(m2, a) = a + m2[a].size
  BY PieceType DEF End
<1>2. a <= hi2
  BY <1>1
<1>3. Apart(m2, {a}) /\ Named(m2, {a})
  BY DEF Apart, Named
<1>4. \A x \in a..(hi2 - 1) : \E c \in {a} : c <= x /\ x < End(m2, c)
  OBVIOUS
<1>5. \A c \in {a} : a <= c /\ Is(m2, c, "hdr") /\ Least <= m2[c].size /\ End(m2, c) <= hi2
  OBVIOUS
<1> QED BY <1>2, <1>3, <1>4, <1>5 DEF Replaces

LEMMA StartPage == PAGE <= START
<1> USE Linear
<1>1. START = (START \div PAGE) * PAGE /\ START \div PAGE \in Nat
  BY Constants, DivMod
<1>2. PICK q \in Nat : START = q * PAGE
  BY <1>1
<1>3. 0 < q
  BY <1>2
<1>4. 0 * PAGE + PAGE <= q * PAGE
  BY <1>3, Multiples
<1> QED BY <1>2, <1>4

(* A footer in front of a piece is that of the piece on its left.          *)
LEMMA LeftPiece ==
    ASSUME TInv, Sound(mem, index, live, end_address),
           NEW a \in HolesIn(index) \cup Heads(live), Is(mem, a - FTR, "ftr")
    PROVE  LET l == mem[a - FTR].header
           IN  l \in HolesIn(index) \cup Heads(live) /\ l < a /\ End(mem, l) = a
<1> USE Linear
<1>0. end_address \in Nat
  BY TypeParts DEF TInv
<1>1. a \in Nat /\ a < End(mem, a) /\ End(mem, a) <= end_address /\ End(mem, a) \in Nat
  BY SoundPieces
<1>2. START <= a - FTR
  BY SoundPieces DEF Above, Is
<1>3. a - 1 \in START..(end_address - 1)
  BY <1>0, <1>1, <1>2
<1>4. PICK l \in HolesIn(index) \cup Heads(live) : l <= a - 1 /\ a - 1 < End(mem, l)
  BY <1>3 DEF Sound, Tiles, Covered
<1>5. l \in Nat /\ End(mem, l) \in Nat /\ End(mem, l) = l + mem[l].size /\ mem[l].size \in Nat
  BY SoundPieces
<1>6. End(mem, l) <= a \/ End(mem, a) <= l
  <2>1. l # a
    BY <1>1, <1>4, <1>5
  <2> QED BY <2>1 DEF Sound, Tiles, Apart
<1>7. l < a /\ End(mem, l) = a
  BY <1>1, <1>4, <1>5, <1>6
<1>8. Foot(mem, l) = a - FTR
  BY <1>5, <1>7 DEF Foot
<1>9. mem[a - FTR].header = l
  BY <1>8 DEF Sound, Tiles, Named
<1> QED BY <1>7, <1>9

(* A piece that does not end at the end of the heap has one on its right.  *)
LEMMA RightPiece ==
    ASSUME TInv, Sound(mem, index, live, end_address),
           NEW a \in HolesIn(index) \cup Heads(live), End(mem, a) < end_address
    PROVE  End(mem, a) \in HolesIn(index) \cup Heads(live)
<1> USE Linear
<1>0. end_address \in Nat
  BY TypeParts DEF TInv
<1>1. a \in Nat /\ a < End(mem, a) /\ START <= a /\ End(mem, a) \in Nat
  BY SoundPieces
<1>2. End(mem, a) \in START..(end_address - 1)
  BY <1>0, <1>1
<1>3. PICK c \in HolesIn(index) \cup Heads(live) : c <= End(mem, a) /\ End(mem, a) < End(mem, c)
  BY <1>2 DEF Sound, Tiles, Covered
<1>4. c \in Nat /\ End(mem, c) \in Nat
  BY SoundPieces
<1>5. End(mem, a) <= c \/ End(mem, c) <= a
  <2>1. c # a
    BY <1>1, <1>3
  <2> QED BY <2>1 DEF Sound, Tiles, Apart
<1>6. c = End(mem, a)
  BY <1>1, <1>3, <1>4, <1>5
<1> QED BY <1>3, <1>6

(* The freed block joins the hole on its left.                             *)
Joins(m, m1, m2, h0, f0, lh) ==
    /\ Typed(m) /\ Is(m, h0, "hdr") /\ Is(m, f0, "ftr") /\ Is(m, lh, "hdr") /\ lh # h0
    /\ m[lh].size + m[h0].size \in Bytes
    /\ Patch(m, m1, h0) /\ m1[h0].size = m[h0].size
    /\ m2 = Unify([m1 EXCEPT ![f0].header = lh], lh, m1[h0].size)

LEMMA JoinedLeft ==
    ASSUME NEW m, NEW m1, NEW m2, NEW h0, NEW f0, NEW lh, Joins(m, m1, m2, h0, f0, lh)
    PROVE  /\ Typed(m2) /\ DOMAIN m2 = DOMAIN m /\ (\A a, k : Is(m2, a, k) <=> Is(m, a, k))
           /\ \A b \in DOMAIN m : b \notin {h0, f0, lh} => m2[b] = m[b]
           /\ m2[lh].is_hole = m[lh].is_hole /\ m2[lh].size = m[lh].size + m[h0].size
           /\ m2[f0].header = lh
           /\ \A lo, hi \in Int :
                 /\ lo <= lh /\ lo <= h0 /\ lo <= f0
                 /\ lh + HDR <= hi /\ h0 + HDR <= hi /\ f0 + FTR <= hi
                 => Frame(m, m2, lo, hi)
<1> USE Linear DEF Joins
<1>1. /\ h0 \in DOMAIN m /\ f0 \in DOMAIN m /\ lh \in DOMAIN m /\ f0 # lh /\ f0 # h0
      /\ h0 \in Bytes /\ f0 \in Bytes /\ lh \in Bytes
      /\ SizeOf(m[h0]) = HDR /\ SizeOf(m[f0]) = FTR /\ SizeOf(m[lh]) = HDR
  BY CellType DEF Is, Typed
<1>2. Patch(m, m1, h0) /\ m1[h0].size = m[h0].size
  OBVIOUS
<1> DEFINE n == [m1 EXCEPT ![f0].header = lh]
<1>3. Typed(m1) /\ DOMAIN m1 = DOMAIN m /\ (\A a, k : Is(m1, a, k) <=> Is(m, a, k))
      /\ \A b \in DOMAIN m : b # h0 => m1[b] = m[b]
  BY <1>2, PatchIs DEF Patch
<1>4. Patch(m1, n, f0) /\ n[f0].header = lh
  <2>1. Is(m1, f0, "ftr") /\ Typed(m1) /\ lh \in Bytes
    BY <1>1, <1>3
  <2> QED BY <2>1, Renamed
<1>5. m2 = Unify(n, lh, m1[h0].size)
  OBVIOUS
<1> HIDE DEF n
<1>6. Typed(n) /\ DOMAIN n = DOMAIN m /\ (\A a, k : Is(n, a, k) <=> Is(m, a, k))
      /\ \A b \in DOMAIN m : b # f0 => n[b] = m1[b]
  <2>1. Typed(n) /\ DOMAIN n = DOMAIN m1 /\ \A b \in DOMAIN m1 : b # f0 => n[b] = m1[b]
    BY <1>4 DEF Patch
  <2>2. \A a, k : Is(n, a, k) <=> Is(m1, a, k)
    BY <1>4, PatchIs
  <2> QED BY <1>3, <2>1, <2>2
<1>7. n[lh] = m[lh] /\ m1[h0].size = m[h0].size /\ m1[h0].size \in Bytes
  BY <1>1, <1>2, <1>3, <1>6, PieceType
<1>8. /\ Patch(n, m2, lh) /\ m2[lh].is_hole = n[lh].is_hole
      /\ m2[lh].size = u32(n[lh].size + m1[h0].size)
  BY <1>5, <1>6, <1>7, Unified
<1>9. Typed(m2) /\ DOMAIN m2 = DOMAIN m /\ (\A a, k : Is(m2, a, k) <=> Is(m, a, k))
      /\ \A b \in DOMAIN m : b # lh => m2[b] = n[b]
  <2>1. Typed(m2) /\ DOMAIN m2 = DOMAIN n /\ \A b \in DOMAIN n : b # lh => m2[b] = n[b]
    BY <1>8 DEF Patch
  <2>2. \A a, k : Is(m2, a, k) <=> Is(n, a, k)
    BY <1>8, PatchIs
  <2> QED BY <1>6, <2>1, <2>2
<1>10. m2[lh].size = m[lh].size + m[h0].size
  BY <1>7, <1>8, u32Small
<1>11. m2[f0].header = lh
  BY <1>1, <1>4, <1>9
<1>12. ASSUME NEW lo \in Int, NEW hi \in Int, lo <= lh, lo <= h0, lo <= f0,
              lh + HDR <= hi, h0 + HDR <= hi, f0 + FTR <= hi
       PROVE  Frame(m, m2, lo, hi)
  <2>1. Frame(m, m1, lo, hi)
    BY <1>1, <1>2, <1>12, PatchFrame
  <2>2. SizeOf(m1[f0]) = FTR
    BY <1>1, <1>3
  <2>3. Frame(m1, n, lo, hi)
    BY <1>1, <1>3, <1>4, <1>12, <2>2, PatchFrame
  <2>4. SizeOf(n[lh]) = HDR
    BY <1>1, <1>7
  <2>5. Frame(n, m2, lo, hi)
    BY <1>1, <1>6, <1>8, <1>12, <2>4, PatchFrame
  <2> QED BY <2>1, <2>3, <2>5, FrameTrans
<1>13. \A b \in DOMAIN m : b \notin {h0, f0, lh} => m2[b] = m[b]
  BY <1>3, <1>6, <1>9
<1> QED BY <1>7, <1>8, <1>9, <1>10, <1>11, <1>12, <1>13

(* What is left of the hole at the end of the heap when contract has made  *)
(* the heap as small as it gets.                                           *)
LEMMA ContractedIs ==
    ASSUME TInv, NEW m, Typed(m), Above(m), NEW h \in Nat, Is(m, h, "hdr"),
           m[h].is_hole = TRUE, START <= h, End(m, h) = end_address,
           h + Least <= START + HEAP_MIN_SIZE, NEW p, p = Contracted(m, h, HEAP_MIN_SIZE)
    PROVE  /\ Typed(p) /\ Above(p) /\ Frame(m, p, h, end_address)
           /\ Is(p, h, "hdr") /\ p[h].is_hole = TRUE /\ Least <= p[h].size
           /\ End(p, h) = START + HEAP_MIN_SIZE /\ p[Foot(p, h)].header = h
<1> USE Linear
<1> DEFINE old  == end_address - START
           new  == HEAP_MIN_SIZE
           g    == GivenUp(old, new)
           m1   == IF new < old - PAGE THEN Wipe(m, g, end_address - g) ELSE m
           size == u32(m[h].size - (old - new))
           head == [m[h] EXCEPT !.size = size]
<1>1. end_address \in Nat /\ START <= end_address /\ end_address <= MAX /\ old \in Nat
      /\ new <= old
  BY TypeParts DEF TInv
<1>2. p = IF size > 0 THEN Store(Store(m1, h, head), u32(h + size - FTR), footer(h)) ELSE m1
  BY DEF Contracted
<1>3. PICK z \in Nat : z = m[h].size /\ h + z = end_address
  BY PieceType DEF End
<1>4. size = START + HEAP_MIN_SIZE - h /\ size \in Nat /\ Least <= size /\ size \in Bytes
  <2>1. z - (old - new) = START + HEAP_MIN_SIZE - h
    BY <1>1, <1>3
  <2>2. START + HEAP_MIN_SIZE - h \in Nat /\ Least <= START + HEAP_MIN_SIZE - h
    BY DEF Least
  <2>3. START + HEAP_MIN_SIZE - h \in Bytes
    BY <1>1, <2>2 DEF Bytes
  <2>4. size = START + HEAP_MIN_SIZE - h
    BY <1>3, <2>1, <2>3, u32Small
  <2> QED BY <2>2, <2>3, <2>4
<1> HIDE DEF size
<1>5. head \in Cell /\ head.kind = "hdr" /\ head.is_hole = TRUE /\ head.size = size
  <2>1. m[h] \in Cell /\ m[h].kind = "hdr"
    BY DEF Is, Typed
  <2> QED BY <1>4, <2>1, Resized
<1> HIDE DEF head
<1>6. Typed(m1) /\ Above(m1) /\ Frame(m, m1, h, end_address)
  <2>1. CASE new < old - PAGE
    <3>1. /\ g \in Nat /\ START + HEAP_MIN_SIZE <= g /\ g <= START + old
      <4>1. HEAP_MIN_SIZE < old
        BY <1>1, <2>1
      <4> QED BY <1>1, <4>1, GivenUpBehind
    <3> HIDE DEF g
    <3>2. h <= g /\ end_address - g \in Nat /\ g + (end_address - g) <= end_address
      BY <1>1, <3>1 DEF Least
    <3>3. m1 = Wipe(m, g, end_address - g)
      BY <2>1
    <3>4. Frame(m, m1, h, end_address)
      BY <1>1, <3>1, <3>2, <3>3, WipeFrame
    <3> HIDE DEF m1
    <3> QED BY <3>3, <3>4, WipeTyped, WipeIs DEF Above
  <2>2. CASE ~(new < old - PAGE)
    BY <2>2, FrameRefl
  <2> QED BY <2>1, <2>2
<1> HIDE DEF m1
<1>7. p = PutPiece(m1, h, head)
  <2>1. size > 0
    BY <1>4 DEF Least
  <2> QED BY <1>2, <1>5, <2>1 DEF PutPiece
<1>8. Typed(p) /\ Stands(p, h, head) /\ Frame(m1, p, h, end_address) /\ Above(p)
  <2>1. h + head.size <= U32 /\ Least <= head.size /\ h + head.size <= end_address
        /\ h \in Int /\ end_address \in Int /\ h <= h
    BY <1>1, <1>4, <1>5
  <2> QED BY <1>5, <1>6, <1>7, <2>1, PutPieceIs
<1>9. /\ Is(p, h, "hdr") /\ p[h] = head /\ End(p, h) = h + head.size
      /\ p[Foot(p, h)].header = h
  BY <1>8, StandsIs
<1>10. End(p, h) = START + HEAP_MIN_SIZE
  BY <1>4, <1>5, <1>9
<1>11. Frame(m, p, h, end_address)
  BY <1>6, <1>8, FrameTrans
<1> QED BY <1>4, <1>5, <1>8, <1>9, <1>10, <1>11

LEMMA SoundIntact ==
    ASSUME TInv, Sound(mem, index, live, end_address), NEW b \in live
    PROVE  LET h == b[1] - HDR
           IN  /\ h \in Heads(live)
               /\ u32(h + mem[h].size - FTR) = Foot(mem, h) /\ Is(mem, Foot(mem, h), "ftr")
               /\ Foot(mem, h) + FTR = End(mem, h) /\ h + HDR <= Foot(mem, h)
               /\ Intact(b)
<1> USE Linear
<1> DEFINE h == b[1] - HDR
<1>1. h \in Heads(live)
  BY DEF Heads
<1>2. Is(mem, Foot(mem, h), "ftr")
  BY DEF Sound, Owned
<1> HIDE DEF h
<1>3. /\ h \in Nat /\ mem[h].size \in Nat /\ Least <= mem[h].size /\ Is(mem, h, "hdr")
      /\ End(mem, h) = h + mem[h].size /\ End(mem, h) <= end_address
  BY <1>1, SoundPieces
<1>4. end_address \in Nat /\ end_address <= MAX
  BY TypeParts DEF TInv
<1>5. PICK z \in Nat : z = mem[h].size
  BY <1>3
<1>6. h + z - FTR \in Bytes /\ h + HDR <= h + z - FTR
  BY <1>3, <1>4, <1>5 DEF Bytes, Least
<1>7. u32(h + z - FTR) = h + z - FTR
  BY <1>6, u32Small
<1>8. Foot(mem, h) = h + z - FTR /\ End(mem, h) = h + z
  BY <1>3, <1>5 DEF Foot
<1>9. Foot(mem, h) + FTR = End(mem, h)
  BY <1>3, <1>8
<1>10. Is(mem, u32(h + mem[h].size - FTR), "ftr")
  BY <1>2, <1>5, <1>7, <1>8
<1>11. Intact(b)
  BY <1>3, <1>10 DEF Intact, h
<1>12. u32(h + mem[h].size - FTR) = Foot(mem, h) /\ h + HDR <= Foot(mem, h)
  BY <1>5, <1>6, <1>7, <1>8
<1> QED BY <1>1, <1>2, <1>9, <1>11, <1>12 DEF h

LEMMA FreeSound ==
    ASSUME TInv, Sound(mem, index, live, end_address), NEW b \in live, Free(b), defects' = {},
           end_address <= top
    PROVE  /\ Sound(mem', index', live', end_address') /\ end_address' <= top'
           /\ status' = status
<1> USE Linear
<1> DEFINE h0    == b[1] - HDR
           f0    == u32(h0 + mem[h0].size - FTR)
           mem1  == [mem EXCEPT ![h0].is_hole = TRUE]
           lf    == u32(h0 - FTR)
           lh    == mem[lf].header
           left  == Is(mem, lf, "ftr") /\ Is(mem1, lh, "hdr") /\ mem1[lh].is_hole
           h     == IF left THEN lh ELSE h0
           mem2  == IF left
                    THEN Unify([mem1 EXCEPT ![f0].header = lh], lh, mem1[h0].size) ELSE mem1
           rh    == u32(f0 + FTR)
           right == Is(mem2, rh, "hdr") /\ mem2[rh].is_hole
           mem3  == IF right THEN Unify(mem2, h, mem2[rh].size) ELSE mem2
           f     == IF right THEN u32(rh + mem2[rh].size - FTR) ELSE f0
           at    == SelectInSeq(index, LAMBDA x : x = rh)
           ix    == IF right THEN remove_ordered_array(index, at) ELSE index
           cut   == f + FTR = end_address
           new   == RoundContract(h - START)
           mem4  == IF cut THEN Contracted(mem3, h, new) ELSE mem3
           ix1   == IF do_add(left) THEN Insert(ix, mem4, h) ELSE ix
           T     == HolesIn(index) \cup Heads(live)
<1>0. ~(rh >= end_address)
  BY DEF Free, Note
<1>1. ~(right /\ ~cut) /\ ~(cut /\ START + new - h < HDR + FTR)
  BY DEF Free, Note
<1>2. IF lf >= top \/ rh >= top THEN Stop("page_fault")
      ELSE IF Is(mem, lf, "ftr") /\ ~Is(mem, lh, "hdr") THEN Stop("wild")
      ELSE IF (right /\ at = 0) \/ (cut /\ ~Contracts(h)) THEN Stop("assert")
      ELSE /\ mem' = mem4
           /\ index' = (IF do_add(left) THEN Insert(ix, mem4, h) ELSE ix)
           /\ end_address' = (IF cut THEN START + new ELSE end_address)
           /\ live' = live \ {b} /\ status' = status /\ top' = top
  <2>1. ~Overrun(ix1)
    BY DEF Free, Note
  <2>2. IF lf >= top \/ rh >= top THEN Stop("page_fault")
        ELSE IF Is(mem, lf, "ftr") /\ ~Is(mem, lh, "hdr") THEN Stop("wild")
        ELSE IF (right /\ at = 0) \/ (cut /\ ~Contracts(h)) THEN Stop("assert")
        ELSE IF Overrun(ix1) THEN Stop("overrun")
        ELSE /\ mem' = mem4 /\ index' = ix1
             /\ end_address' = (IF cut THEN START + new ELSE end_address)
             /\ live' = live \ {b} /\ status' = status /\ top' = top
    BY DEF Free
  <2> QED BY <2>1, <2>2, Zenon
<1> HIDE DEF ix1
<1>3. /\ Typed(mem) /\ index \in Seq(Bytes) /\ end_address \in Nat /\ START <= end_address
      /\ end_address <= MAX /\ top \in Nat
  BY TypeParts DEF TInv
<1>4. /\ h0 \in Heads(live) /\ f0 = Foot(mem, h0) /\ Is(mem, f0, "ftr")
      /\ f0 + FTR = End(mem, h0) /\ h0 + HDR <= f0
  BY SoundIntact
<1> HIDE DEF f0
<1>5. \A c \in live : c[1] - HDR = h0 => c = b
  <2>1. \A c \in live : c[1] \in Nat /\ b[1] \in Nat
    BY TypeParts DEF TInv
  <2>2. \A c \in live : c[1] = b[1] => c = b
    BY DEF Sound
  <2> QED BY <2>1, <2>2
<1> HIDE DEF h0
<1>6. /\ h0 \in T /\ h0 \in Nat /\ START <= h0 /\ Is(mem, h0, "hdr") /\ mem[h0].size \in Nat
      /\ Least <= mem[h0].size /\ End(mem, h0) = h0 + mem[h0].size
      /\ End(mem, h0) <= end_address /\ ~mem[h0].is_hole
  BY <1>4, SoundPieces
<1>7. lf = h0 - FTR
  <2>1. h0 \in Nat /\ START <= h0 /\ h0 <= MAX /\ FTR <= START
    BY <1>3, <1>6, StartPage DEF Least
  <2>2. h0 - FTR \in Bytes
    BY <2>1 DEF Bytes
  <2> QED BY <2>2, u32Small
<1>8. rh = End(mem, h0) /\ rh \in Nat /\ rh < end_address /\ h0 + Least <= rh
  <2>1. h0 + mem[h0].size \in Bytes
    <3>1. PICK z \in Nat : z = mem[h0].size /\ h0 + z <= end_address
      BY <1>6
    <3>2. h0 + z \in Bytes
      BY <1>3, <1>6, <3>1 DEF Bytes
    <3> QED BY <3>1, <3>2
  <2>2. f0 + FTR \in Bytes
    BY <1>4, <1>6, <2>1
  <2>3. rh = End(mem, h0) /\ rh \in Nat
    BY <1>4, <2>2, u32Small DEF Bytes
  <2> HIDE DEF rh
  <2>4. h0 + Least <= rh
    BY <1>6, <2>3 DEF Least
  <2> QED BY <1>0, <1>3, <2>3, <2>4
<1>9. ~(lf >= top \/ rh >= top)
  <2> HIDE DEF lf, rh
  <2>1. lf \in Int /\ lf < h0 /\ h0 < rh
    BY <1>6, <1>7, <1>8 DEF Least
  <2> QED BY <1>3, <1>6, <1>8, <2>1
<1>10. Patch(mem, mem1, h0) /\ mem1[h0].is_hole = TRUE /\ mem1[h0].size = mem[h0].size
  BY <1>3, <1>6, Marked
<1>11. Is(mem, lf, "ftr") => lh \in T /\ lh < h0 /\ End(mem, lh) = h0 /\ Is(mem, lh, "hdr")
  BY <1>6, <1>7, LeftPiece, SoundPieces
<1> HIDE DEF mem1, lf
<1>12. /\ Typed(mem1) /\ DOMAIN mem1 = DOMAIN mem /\ (\A a, k : Is(mem1, a, k) <=> Is(mem, a, k))
       /\ \A a \in DOMAIN mem : a # h0 => mem1[a] = mem[a]
  BY <1>10, PatchIs DEF Patch
<1>13. ASSUME left
       PROVE  /\ lh \in HolesIn(index) /\ lh < h0 /\ End(mem, lh) = h0 /\ Is(mem, lh, "hdr")
              /\ mem[lh].is_hole
  <2>1. lh \in T /\ lh < h0 /\ End(mem, lh) = h0 /\ Is(mem, lh, "hdr")
    BY <1>11, <1>13
  <2>2. mem1[lh].is_hole /\ lh \in DOMAIN mem /\ lh # h0
    BY <1>6, <1>13, <2>1, SoundPieces DEF Is
  <2>3. mem[lh].is_hole
    BY <1>12, <2>2
  <2> QED BY <2>1, <2>3, SoundPieces
<1> HIDE DEF lh, left
<1>14. /\ h \in T /\ h \in Nat /\ START <= h /\ h <= h0 /\ Is(mem, h, "hdr")
       /\ left => h = lh /\ h \in HolesIn(index) /\ h < h0 /\ End(mem, h) = h0
       /\ ~left => h = h0
  <2>1. CASE left
    <3>1. h = lh
      BY <2>1
    <3> HIDE DEF h
    <3>2. h \in HolesIn(index) /\ h < h0 /\ End(mem, h) = h0 /\ Is(mem, h, "hdr")
      BY <1>13, <2>1, <3>1
    <3>3. h \in Nat /\ START <= h
      BY <3>2, SoundPieces
    <3> QED BY <1>6, <2>1, <3>1, <3>2, <3>3
  <2>2. CASE ~left
    BY <1>6, <2>2
  <2> QED BY <2>1, <2>2
<1>15. /\ Typed(mem2) /\ DOMAIN mem2 = DOMAIN mem /\ (\A a, k : Is(mem2, a, k) <=> Is(mem, a, k))
       /\ \A a \in DOMAIN mem : a \notin {h0, f0, h} => mem2[a] = mem[a]
       /\ mem2[h].is_hole = TRUE /\ h + mem2[h].size = rh /\ mem2[f0].header = h
       /\ \A hi \in Int : rh <= hi => Frame(mem, mem2, h, hi)
  <2>1. CASE left
    <3>1. lh = h /\ h # h0 /\ h < h0 /\ End(mem, h) = h0 /\ mem[h].is_hole
      BY <1>6, <1>13, <1>14, <2>1
    <3>2. PICK x \in Nat, y \in Nat : x = mem[h].size /\ y = mem[h0].size /\ h + x = h0
                                      /\ h0 + y = rh
      <4>1. mem[h].size \in Nat /\ End(mem, h) = h + mem[h].size
        BY <1>14, SoundPieces
      <4> QED BY <1>6, <1>8, <3>1, <4>1
    <3>3. x + y \in Bytes
      <4> HIDE DEF h, rh
      <4>1. h \in Nat /\ h0 \in Nat /\ rh \in Nat
        BY <1>6, <1>8, <1>14
      <4>2. rh < U32
        BY <1>3, <1>8
      <4> QED BY <3>2, <4>1, <4>2 DEF Bytes
    <3>4. mem[h].size + mem[h0].size \in Bytes
      BY <3>2, <3>3
    <3>5. mem2 = Unify([mem1 EXCEPT ![f0].header = h], h, mem1[h0].size)
      BY <2>1, <3>1
    <3> HIDE DEF mem2, h, rh
    <3>6. /\ Typed(mem2) /\ DOMAIN mem2 = DOMAIN mem
          /\ (\A a, k : Is(mem2, a, k) <=> Is(mem, a, k))
          /\ \A a \in DOMAIN mem : a \notin {h0, f0, h} => mem2[a] = mem[a]
          /\ mem2[h].is_hole = mem[h].is_hole /\ mem2[h].size = mem[h].size + mem[h0].size
          /\ mem2[f0].header = h
          /\ \A lo, hi \in Int :
                /\ lo <= h /\ lo <= h0 /\ lo <= f0
                /\ h + HDR <= hi /\ h0 + HDR <= hi /\ f0 + FTR <= hi
                => Frame(mem, mem2, lo, hi)
      <4>1. Joins(mem, mem1, mem2, h0, f0, h)
        BY <1>3, <1>4, <1>6, <1>10, <1>14, <3>1, <3>4, <3>5 DEF Joins
      <4> QED BY <4>1, JoinedLeft
    <3>7. mem2[h].is_hole = TRUE
      <4>1. mem[h].is_hole \in BOOLEAN
        BY <1>3, <1>14, PieceType
      <4> QED BY <3>1, <3>6, <4>1
    <3>8. h + mem2[h].size = rh
      BY <1>6, <1>8, <1>14, <3>2, <3>6
    <3>9. ASSUME NEW hi \in Int, rh <= hi PROVE Frame(mem, mem2, h, hi)
      <4>1. /\ h \in Int /\ h <= h /\ h <= h0 /\ h <= f0 /\ h + HDR <= hi /\ h0 + HDR <= hi
            /\ f0 + FTR <= hi
        <5>1. h \in Nat /\ h0 \in Nat /\ rh \in Nat /\ h < h0 /\ h0 + Least <= rh
          BY <1>6, <1>8, <1>14, <3>1
        <5>2. f0 \in Nat /\ f0 + FTR = rh /\ h0 + HDR <= f0
          BY <1>3, <1>4, <1>8 DEF Is, Typed, Bytes
        <5> QED BY <3>9, <5>1, <5>2 DEF Least
      <4> QED BY <3>6, <4>1
    <3> QED BY <3>6, <3>7, <3>8, <3>9
  <2>2. CASE ~left
    <3>1. h = h0 /\ mem2 = mem1
      BY <2>2
    <3>2. f0 # h0 /\ f0 \in DOMAIN mem
      BY <1>4, <1>6 DEF Is
    <3>3. mem2[f0].header = h0
      BY <1>4, <1>6, <1>12, <3>1, <3>2 DEF Sound, Tiles, Named
    <3>4. ASSUME NEW hi \in Int, rh <= hi PROVE Frame(mem, mem1, h0, hi)
      <4>1. SizeOf(mem[h0]) = HDR /\ h0 \in DOMAIN mem /\ h0 + HDR <= hi /\ h0 \in Int
        BY <1>3, <1>4, <1>6, <1>8, <3>4, PieceType DEF Is
      <4> QED BY <1>3, <1>10, <4>1, PatchFrame
    <3> HIDE DEF h, mem2
    <3> QED BY <1>6, <1>8, <1>10, <1>12, <3>1, <3>3, <3>4
  <2> QED BY <2>1, <2>2
<1> HIDE DEF h, mem2
<1>16. rh \in T /\ rh \notin {h0, f0, h} /\ mem2[rh] = mem[rh] /\ Is(mem2, rh, "hdr")
  <2>1. rh \in T
    BY <1>6, <1>8, RightPiece
  <2>2. rh \notin {h0, f0, h} /\ rh \in DOMAIN mem /\ Is(mem, rh, "hdr")
    BY <1>4, <1>6, <1>8, <1>14, <2>1, SoundPieces DEF Is, Least
  <2> QED BY <1>15, <2>1, <2>2
<1> HIDE DEF rh
<1>17. ASSUME right PROVE rh \in HolesIn(index)
  BY <1>16, <1>17, SoundPieces
<1>18. ASSUME right
       PROVE  /\ mem3 = Unify(mem2, h, mem2[rh].size) /\ f + FTR = End(mem, rh)
              /\ End(mem, rh) = rh + mem[rh].size /\ mem[rh].size \in Nat
  <2>1. /\ mem[rh].size \in Nat /\ End(mem, rh) = rh + mem[rh].size
        /\ End(mem, rh) <= end_address /\ Least <= mem[rh].size
    BY <1>16, SoundPieces
  <2>2. PICK z \in Nat : z = mem[rh].size /\ z = mem2[rh].size /\ rh + z <= end_address
                         /\ Least <= z
    BY <1>16, <2>1
  <2>3. rh + z - FTR \in Bytes
    <3> HIDE DEF f
    <3>1. rh \in Nat /\ end_address \in Nat /\ end_address < U32
      BY <1>3, <1>8
    <3> QED BY <2>2, <3>1 DEF Bytes, Least
  <2>4. f = rh + z - FTR
    BY <1>18, <2>2, <2>3, u32Small
  <2>5. f + FTR = rh + z
    BY <1>8, <2>2, <2>4
  <2> HIDE DEF f
  <2> QED BY <1>18, <2>1, <2>2, <2>5
<1>19. right <=> cut
  <2>1. CASE right
    BY <1>1, <2>1
  <2>2. CASE ~right
    <3>1. f = f0
      BY <2>2
    <3> HIDE DEF f
    <3> QED BY <1>3, <1>4, <1>8, <2>2, <3>1
  <2> QED BY <2>1, <2>2
<1>20. right => End(mem, rh) = end_address
  BY <1>18, <1>19
<1>21. ~(Is(mem, lf, "ftr") /\ ~Is(mem, lh, "hdr"))
  BY <1>11 DEF lh
<1>22. ASSUME right PROVE at \in 1..Len(index) /\ index[at] = rh
  <2> DEFINE I == {k \in 1..Len(index) : index[k] = rh}
  <2>1. at = IF I # {} THEN Min(I) ELSE 0
    BY DEF SelectInSeq
  <2>2. I # {}
    BY <1>17, <1>22 DEF HolesIn
  <2>3. I \subseteq Nat
    OBVIOUS
  <2>4. Min(I) \in I
    BY <2>2, <2>3, Smallest
  <2>5. at \in I
    BY <2>1, <2>2, <2>4
  <2> QED BY <2>5
<1> HIDE DEF at
<1>23. Contracts(h)
  <2>1. h - START \in Bytes /\ h < end_address
    BY <1>3, <1>6, <1>8, <1>14 DEF Bytes, Least
  <2>2. u32(h - START) = h - START
    BY <2>1, u32Small
  <2> QED BY <1>3, <1>14, <2>1, <2>2 DEF Contracts
<1>24. /\ mem' = mem4 /\ index' = (IF do_add(left) THEN Insert(ix, mem4, h) ELSE ix)
       /\ end_address' = (IF right THEN START + new ELSE end_address)
       /\ live' = live \ {b} /\ status' = status /\ top' = top
  <2>1. ~((right /\ at = 0) \/ (cut /\ ~Contracts(h)))
    BY <1>22, <1>23
  <2> HIDE DEF cut, mem4, ix, new, right
  <2> QED BY <1>2, <1>9, <1>19, <1>21, <2>1
<1>25. ASSUME right PROVE new = HEAP_MIN_SIZE /\ h + Least <= START + HEAP_MIN_SIZE
  <2>1. ~(START + new - h < HDR + FTR)
    BY <1>1, <1>19, <1>25
  <2>2. h - START \in Nat
    BY <1>14
  <2>3. new \in Nat /\ (new = HEAP_MIN_SIZE \/ new = h - START)
    BY <2>2, Contraction
  <2> HIDE DEF new
  <2> QED BY <1>14, <2>1, <2>3 DEF Least
<1> HIDE DEF new
<1>26. Above(mem2)
  BY <1>15, SoundPieces DEF Above
<1>27. ASSUME right
       PROVE  /\ Typed(mem3) /\ Above(mem3) /\ Is(mem3, h, "hdr") /\ mem3[h].is_hole = TRUE
              /\ End(mem3, h) = end_address /\ Frame(mem, mem3, h, end_address)
  <2>1. mem3 = Unify(mem2, h, mem2[rh].size)
    BY <1>18, <1>27
  <2>2. Is(mem2, h, "hdr") /\ mem2[rh].size \in Bytes
    BY <1>14, <1>15, <1>16, PieceType
  <2>3. /\ Patch(mem2, mem3, h) /\ mem3[h].is_hole = mem2[h].is_hole
        /\ mem3[h].size = u32(mem2[h].size + mem2[rh].size)
    <3> HIDE DEF mem3
    <3> QED BY <1>15, <2>1, <2>2, Unified
  <2> HIDE DEF mem3
  <2>4. Typed(mem3) /\ DOMAIN mem3 = DOMAIN mem2 /\ Is(mem3, h, "hdr")
    BY <2>2, <2>3, PatchIs DEF Patch
  <2>5. mem3[h].is_hole = TRUE
    BY <1>15, <2>3
  <2>6. PICK x \in Nat, y \in Nat : /\ x = mem2[h].size /\ y = mem2[rh].size
                                    /\ h + x = rh /\ rh + y = end_address
    <3>1. mem2[h].size \in Nat
      BY <1>15, <2>2, PieceType
    <3> QED BY <1>15, <1>16, <1>18, <1>20, <1>27, <3>1
  <2>7. x + y \in Bytes /\ h + (x + y) = end_address
    <3>1. h \in Nat /\ rh \in Nat /\ end_address < U32 /\ end_address \in Nat
      BY <1>3, <1>8, <1>14
    <3> QED BY <2>6, <3>1 DEF Bytes
  <2>8. mem3[h].size = x + y
    BY <2>3, <2>6, <2>7, u32Small
  <2>9. End(mem3, h) = end_address
    BY <2>7, <2>8 DEF End
  <2>10. rh <= end_address /\ end_address \in Int
    BY <1>3, <1>8
  <2>11. Frame(mem2, mem3, h, end_address)
    <3>1. /\ h \in DOMAIN mem2 /\ SizeOf(mem2[h]) = HDR
      BY <1>15, <2>2, PieceType DEF Is
    <3>2. h + HDR <= end_address /\ h \in Int
      BY <1>3, <1>6, <1>8, <1>14 DEF Least
    <3> QED BY <1>15, <2>3, <2>10, <3>1, <3>2, PatchFrame
  <2>12. Frame(mem, mem3, h, end_address)
    <3>1. Frame(mem, mem2, h, end_address)
      BY <1>15, <2>10
    <3> QED BY <2>11, <3>1, FrameTrans
  <2>13. Above(mem3)
    BY <1>26, <2>4 DEF Above
  <2> QED BY <2>4, <2>5, <2>9, <2>12, <2>13
<1> DEFINE hi  == IF right THEN end_address ELSE rh
           e2  == IF right THEN START + HEAP_MIN_SIZE ELSE end_address
           hi2 == IF right THEN START + HEAP_MIN_SIZE ELSE rh
           R   == {h0, h} \cup (IF right THEN {rh} ELSE {})
<1>28. /\ Typed(mem') /\ Above(mem') /\ Frame(mem, mem', h, hi) /\ Is(mem', h, "hdr")
       /\ mem'[h].is_hole = TRUE /\ Least <= mem'[h].size /\ End(mem', h) = hi2
       /\ mem'[Foot(mem', h)].header = h
  <2>1. CASE right
    <3>1. mem' = Contracted(mem3, h, HEAP_MIN_SIZE)
      BY <1>19, <1>24, <1>25, <2>1
    <3>2. h + Least <= START + HEAP_MIN_SIZE
      BY <1>25, <2>1
    <3>3. /\ Typed(mem3) /\ Above(mem3) /\ Is(mem3, h, "hdr") /\ mem3[h].is_hole = TRUE
          /\ End(mem3, h) = end_address /\ Frame(mem, mem3, h, end_address)
      BY <1>27, <2>1
    <3> HIDE DEF mem3, mem4
    <3>4. /\ Typed(mem') /\ Above(mem') /\ Frame(mem3, mem', h, end_address)
          /\ Is(mem', h, "hdr") /\ mem'[h].is_hole = TRUE /\ Least <= mem'[h].size
          /\ End(mem', h) = START + HEAP_MIN_SIZE /\ mem'[Foot(mem', h)].header = h
      BY <1>14, <3>1, <3>2, <3>3, ContractedIs
    <3>5. Frame(mem, mem', h, end_address)
      BY <3>3, <3>4, FrameTrans
    <3>6. hi = end_address /\ hi2 = START + HEAP_MIN_SIZE
      BY <2>1
    <3> QED BY <3>4, <3>5, <3>6
  <2>2. CASE ~right
    <3>1. mem' = mem2
      BY <1>19, <1>24, <2>2
    <3>2. hi = rh /\ hi2 = rh
      BY <2>2
    <3>3. Frame(mem, mem2, h, rh)
      BY <1>8, <1>15
    <3>4. Is(mem2, h, "hdr") /\ mem2[h].size \in Nat
      BY <1>14, <1>15, PieceType
    <3>5. End(mem2, h) = rh /\ Foot(mem2, h) = f0
      <4>1. PICK z \in Nat : z = mem2[h].size /\ h + z = rh
        BY <1>15, <3>4
      <4>2. End(mem2, h) = h + z /\ Foot(mem2, h) = h + z - FTR
        BY <4>1 DEF End, Foot
      <4>3. f0 \in Int /\ f0 + FTR = rh
        BY <1>3, <1>4, <1>8 DEF Is, Typed, Bytes
      <4> QED BY <1>14, <4>1, <4>2, <4>3
    <3>6. Least <= mem2[h].size
      BY <1>6, <1>8, <1>14, <1>15, <3>4 DEF Least
    <3> HIDE DEF hi, hi2
    <3> QED BY <1>15, <1>26, <3>1, <3>2, <3>3, <3>4, <3>5, <3>6
  <2> QED BY <2>1, <2>2
<1> HIDE DEF mem3, mem4, f, cut
<1>29. Replaces(mem, mem', T, R, {h}, end_address, e2, h, hi, hi2, hi)
  <2>1. /\ hi \in Nat /\ hi2 \in Nat /\ e2 \in Nat /\ h <= hi /\ hi <= end_address
        /\ \/ hi2 = hi /\ e2 = end_address
           \/ hi = end_address /\ hi2 = e2 /\ hi2 <= hi
    <3>1. START + HEAP_MIN_SIZE \in Nat /\ START + HEAP_MIN_SIZE <= end_address
      BY <1>3 DEF TInv
    <3>2. h <= rh /\ rh <= end_address
      <4>1. /\ h \in Nat /\ h0 \in Nat /\ rh \in Nat /\ end_address \in Nat
            /\ h <= h0 /\ h0 + Least <= rh /\ rh < end_address
        BY <1>3, <1>6, <1>8, <1>14
      <4> QED BY <4>1 DEF Least
    <3> QED BY <1>3, <1>8, <1>14, <3>1, <3>2
  <2>2. R \subseteq T
    BY <1>6, <1>14, <1>16
  <2>3. \A c \in R : h <= c /\ End(mem, c) <= hi
    <3> SUFFICES ASSUME NEW c \in R PROVE h <= c /\ End(mem, c) <= hi
      OBVIOUS
    <3>1. rh <= hi /\ h <= rh /\ (left => h0 <= rh)
      BY <1>3, <1>6, <1>8, <1>14 DEF Least
    <3>2. CASE c = h0
      BY <1>6, <1>8, <1>14, <3>1, <3>2
    <3>3. CASE c = h
      <4>1. h = h0 \/ (End(mem, h) = h0 /\ h0 <= rh)
        BY <1>14, <3>1
      <4> QED BY <1>3, <1>6, <1>8, <1>14, <3>1, <3>3, <4>1
    <3>4. CASE right /\ c = rh
      BY <1>3, <1>8, <1>14, <1>20, <3>1, <3>4
    <3> QED BY <3>2, <3>3, <3>4
  <2>4. ASSUME NEW c \in T \ R PROVE End(mem, c) <= h \/ hi <= c
    <3>1. c \in Nat /\ End(mem, c) \in Nat /\ c < End(mem, c)
      BY SoundPieces
    <3>2. /\ End(mem, c) <= h \/ End(mem, h) <= c
          /\ End(mem, c) <= h0 \/ End(mem, h0) <= c
          /\ right => End(mem, c) <= rh \/ End(mem, rh) <= c
      BY <1>6, <1>14, <1>16 DEF Sound, Tiles, Apart
    <3>3. End(mem, c) <= h \/ rh <= c
      BY <1>6, <1>8, <1>14, <3>1, <3>2
    <3> QED BY <1>8, <1>14, <1>20, <3>1, <3>2, <3>3
  <2>5. Tiles(mem, T, end_address)
    BY DEF Sound
  <2> HIDE DEF T, R, hi, hi2, e2
  <2>6. hi2 <= hi
    BY <2>1
  <2>7. Merged(mem, mem', T, R, h, end_address, e2, hi, hi2, hi)
    BY <1>3, <1>14, <1>28, <2>1, <2>2, <2>3, <2>4, <2>5, <2>6 DEF Merged
  <2> QED BY <2>7, Single
<1>30. Distinct(index') /\ HolesIn(index') = (HolesIn(index) \ R) \cup {h}
  <2>1. /\ ix \in Seq(Bytes) /\ Distinct(ix)
        /\ HolesIn(ix) = HolesIn(index) \ (IF right THEN {rh} ELSE {})
    <3>1. Distinct(index)
      BY DEF Sound
    <3>2. CASE right
      <4>1. at \in 1..Len(index) /\ index[at] = rh /\ rh # NULL
        BY <1>17, <1>22, <3>2 DEF HolesIn
      <4>2. ix = remove_ordered_array(index, at)
        BY <3>2
      <4> HIDE DEF ix
      <4>3. ix \in Seq(Bytes) /\ Distinct(ix) /\ HolesIn(ix) = HolesIn(index) \ {rh}
        BY <1>3, <3>1, <4>1, <4>2, RemoveIs, RemoveHoles
      <4> QED BY <3>2, <4>3
    <3>3. CASE ~right
      BY <1>3, <3>1, <3>3
    <3> QED BY <3>2, <3>3
  <2> HIDE DEF ix
  <2>2. h0 \notin HolesIn(index)
    BY <1>4, SoundPieces
  <2>3. h # rh /\ h0 # rh
    BY <1>16
  <2>4. CASE left
    <3>1. index' = ix
      BY <1>24, <2>4 DEF do_add
    <3>2. h \in HolesIn(index)
      BY <1>14, <2>4
    <3> QED BY <2>1, <2>2, <2>3, <3>1, <3>2
  <2>5. CASE ~left
    <3>1. index' = Insert(ix, mem', h0) /\ h = h0
      BY <1>14, <1>24, <2>5 DEF do_add
    <3>2. h0 \in Bytes /\ h0 # NULL /\ h0 \notin HolesIn(ix)
      BY <1>3, <1>6, <2>1, <2>2, PieceType DEF NULL
    <3>3. Distinct(index') /\ HolesIn(index') = HolesIn(ix) \cup {h0}
      BY <2>1, <3>1, <3>2, InsertHoles
    <3> QED BY <2>1, <2>2, <2>3, <3>1, <3>3
  <2> QED BY <2>4, <2>5
<1>31. Heads(live') = Heads(live) \ {h0}
  <2>1. b[1] - HDR = h0
    BY DEF h0
  <2> QED BY <1>5, <1>24, <2>1 DEF Heads
<1>32. Heads(live) \cap R = {h0}
  <2>1. left => h \notin Heads(live)
    BY <1>14, SoundPieces
  <2>2. right => rh \notin Heads(live)
    BY <1>17, SoundPieces
  <2> QED BY <1>4, <1>14, <2>1, <2>2
<1>33. HolesIn(index') \cup Heads(live') = (T \ R) \cup {h}
  <2> HIDE DEF R
  <2> QED BY <1>30, <1>31, <1>32
<1>34. \A a \in HolesIn(index') : a \in HolesIn(index) \ R \/ mem'[a].is_hole
  <2> HIDE DEF R
  <2> QED BY <1>28, <1>30
<1>35. \A c \in live' : (c \in live /\ c[1] - HDR \notin R) \/ Owned(mem', c)
  <2> SUFFICES ASSUME NEW c \in live' PROVE c \in live /\ c[1] - HDR \notin R
    OBVIOUS
  <2>1. c \in live /\ c # b
    BY <1>24
  <2>2. c[1] - HDR # h0 /\ c[1] - HDR \in Heads(live)
    BY <1>5, <2>1 DEF Heads
  <2> HIDE DEF R
  <2> QED BY <1>32, <2>1, <2>2
<1>36. \A c, d \in live' : c[1] = d[1] => c = d
  BY <1>24 DEF Sound
<1>37. T = HolesIn(index) \cup Heads(live)
  OBVIOUS
<1>38. end_address' = e2
  BY <1>24, <1>25
<1> HIDE DEF T, R, hi, hi2, e2
<1>39. Sound(mem', index', live', e2)
  BY <1>28, <1>29, <1>30, <1>33, <1>34, <1>35, <1>36, <1>37, Reassemble
<1>40. e2 <= end_address /\ e2 \in Nat
  <2>1. START + HEAP_MIN_SIZE \in Nat /\ START + HEAP_MIN_SIZE <= end_address
    BY <1>3 DEF TInv
  <2> QED BY <1>3, <2>1 DEF e2
<1>41. end_address' <= top'
  <2>1. e2 <= top
    BY <1>3, <1>40
  <2> QED BY <1>24, <1>38, <2>1
<1> QED BY <1>24, <1>38, <1>39, <1>41

-----------------------------------------------------------------------------
(* The inductive invariant.                                                *)

LEMMA InitIInv == Init => IInv
<1> USE Linear
<1> SUFFICES ASSUME Init PROVE IInv
  OBVIOUS
<1>1. TInv
  BY TypeInit
<1>2. INITIAL \in Nat /\ Least <= INITIAL /\ INITIAL \in Bytes
  BY Constants DEF Least, Bytes
<1> DEFINE first == header(TRUE, INITIAL)
<1>3. mem = [a \in {START} |-> first]
  BY DEF Init
<1>4. first.kind = "hdr" /\ first.size = INITIAL /\ first.is_hole = TRUE
  BY <1>2, HeaderType
<1> HIDE DEF first
<1>5. DOMAIN mem = {START} /\ mem[START] = first
  BY <1>3
<1>6. mem[START].kind = "hdr" /\ mem[START].size = INITIAL /\ mem[START].is_hole = TRUE
  BY <1>4, <1>5
<1>7. /\ end_address = START + INITIAL /\ live = {} /\ status = "ok" /\ defects = {}
      /\ top = end_address /\ end_address \in Nat
  BY <1>2 DEF Init
<1>8. HolesIn(index) = {START} /\ Distinct(index)
  <2>1. index = <<START>>
    BY DEF Init
  <2>2. Len(index) = 1 /\ index[1] = START
    BY <2>1
  <2>3. \A k \in 1..Len(index) : k = 1
    BY <2>2
  <2> QED BY <2>2, <2>3 DEF HolesIn, Distinct, NULL
<1>9. Heads(live) = {}
  BY <1>7 DEF Heads
<1>10. Is(mem, START, "hdr") /\ End(mem, START) = START + INITIAL
      /\ ~Is(mem, Foot(mem, START), "ftr")
  BY <1>5, <1>6 DEF Is, End
<1>11. Tiles(mem, {START}, end_address)
  <2>1. Placed(mem, {START}, end_address)
    BY <1>2, <1>6, <1>7, <1>10 DEF Placed
  <2>2. Apart(mem, {START}) /\ Named(mem, {START})
    BY <1>10 DEF Apart, Named
  <2>3. Covered(mem, {START}, end_address)
    BY <1>2, <1>7, <1>10 DEF Covered
  <2> QED BY <2>1, <2>2, <2>3 DEF Tiles
<1>12. Sound(mem, index, live, end_address)
  <2>1. HolesIn(index) \cup Heads(live) = {START}
    BY <1>8, <1>9
  <2>2. Tiles(mem, HolesIn(index) \cup Heads(live), end_address)
    BY <1>11, <2>1
  <2>3. \A a \in DOMAIN mem : START <= a
    BY <1>5
  <2>4. \A a \in HolesIn(index) : mem[a].is_hole
    BY <1>6, <1>8
  <2> QED BY <1>7, <1>8, <2>2, <2>3, <2>4 DEF Sound
<1> QED BY <1>1, <1>7, <1>12 DEF IInv, TInv

LEMMA NextIInv == IInv /\ [Next]_vars => IInv'
<1> SUFFICES ASSUME IInv, [Next]_vars PROVE IInv'
  OBVIOUS
<1>1. TInv /\ TInv'
  BY TypeStep DEF IInv, TInv
<1>2. ASSUME defects' = {}
      PROVE  /\ Sound(mem', index', live', end_address') /\ end_address' <= top'
             /\ status' \in {"ok", "full"}
  <2>1. defects = {} => /\ Sound(mem, index, live, end_address) /\ end_address <= top
                        /\ status \in {"ok", "full"}
    BY DEF IInv
  <2>2. ASSUME NEW r \in Requests, Alloc(r)
        PROVE  /\ Sound(mem', index', live', end_address') /\ end_address' <= top'
               /\ status' \in {"ok", "full"}
    <3>1. CASE Carve(r[1], r[2])
      <4>1. defects = {}
        <5>1. defects \subseteq defects'
          BY <3>1, Zenon DEF Carve
        <5> QED BY <1>2, <5>1
      <4> QED BY <1>1, <1>2, <2>1, <3>1, <4>1, CarveSound
    <3>2. CASE Expand(r[1], r[2])
      <4>1. defects = {}
        <5>1. defects \subseteq defects'
          BY <3>2, Zenon DEF Expand
        <5> QED BY <1>2, <5>1
      <4> QED BY <1>1, <1>2, <2>1, <3>2, <4>1, ExpandSound
    <3> QED BY <2>2, <3>1, <3>2 DEF Alloc
  <2>3. CASE FreeBlock
    <3>1. PICK b \in live : IF Intact(b) THEN Free(b) ELSE Stop("assert") /\ UNCHANGED defects
      BY <2>3 DEF FreeBlock
    <3>2. defects = {}
      <4>1. Free(b) => defects \subseteq defects'
        BY Zenon DEF Free
      <4> QED BY <1>2, <3>1, <4>1
    <3>3. Intact(b)
      BY <1>1, <2>1, <3>2, SoundIntact
    <3> QED BY <1>1, <1>2, <2>1, <3>1, <3>2, <3>3, FreeSound
  <2>4. CASE UNCHANGED vars
    BY <1>2, <2>1, <2>4 DEF vars
  <2> QED BY <2>2, <2>3, <2>4 DEF Next
<1> QED BY <1>1, <1>2 DEF IInv, TInv

LEMMA AlwaysIInv == Spec => []IInv
BY InitIInv, NextIInv, PTL DEF Spec

-----------------------------------------------------------------------------
(* What the invariant says of the blocks, the index and the heap.          *)

(* The extent of a live block is within its piece.                         *)
LEMMA BlockPiece ==
    ASSUME TInv, Sound(mem, index, live, end_address), NEW p \in Blocks
    PROVE  /\ p[1] \in Heads(live) /\ p[1] \in Nat /\ p[2] \in Nat /\ START <= p[1]
           /\ p[1] + p[2] <= End(mem, p[1]) /\ End(mem, p[1]) <= end_address
           /\ End(mem, p[1]) \in Nat
           /\ \E b \in live : p = <<b[1] - HDR, b[2] + HDR + FTR>>
<1> USE Linear
<1>1. PICK b \in live : p = <<b[1] - HDR, b[2] + HDR + FTR>>
  BY DEF Blocks
<1>2. b[1] \in Nat /\ b[2] \in Nat
  BY TypeParts DEF TInv
<1>3. p[1] = b[1] - HDR /\ p[2] = b[2] + HDR + FTR
  BY <1>1
<1>4. p[1] \in Heads(live)
  BY <1>3 DEF Heads
<1>5. b[2] + Least <= mem[p[1]].size
  BY <1>3 DEF Sound, Owned
<1>6. /\ p[1] \in Nat /\ START <= p[1] /\ mem[p[1]].size \in Nat
      /\ End(mem, p[1]) = p[1] + mem[p[1]].size /\ End(mem, p[1]) <= end_address
  BY <1>4, SoundPieces
<1>7. p[2] \in Nat /\ p[2] <= mem[p[1]].size
  BY <1>2, <1>3, <1>5, <1>6 DEF Least
<1>8. p[1] + p[2] <= End(mem, p[1])
  BY <1>6, <1>7
<1> QED BY <1>1, <1>4, <1>6, <1>7, <1>8

LEMMA Disjoint ==
    ASSUME TInv, Sound(mem, index, live, end_address)
    PROVE  BlocksDisjoint
<1>1. ASSUME NEW p \in Blocks, NEW q \in Blocks, p # q
      PROVE  ~Overlap(p[1], p[2], q[1], q[2])
  <2>1. PICK b \in live : p = <<b[1] - HDR, b[2] + HDR + FTR>>
    BY BlockPiece
  <2>2. PICK c \in live : q = <<c[1] - HDR, c[2] + HDR + FTR>>
    BY BlockPiece
  <2>3. b # c /\ b[1] \in Nat /\ c[1] \in Nat
    BY <1>1, <2>1, <2>2, TypeParts DEF TInv
  <2>4. b[1] # c[1]
    BY <2>3 DEF Sound
  <2>5. p[1] # q[1]
    BY <2>1, <2>2, <2>3, <2>4, Linear
  <2>6. End(mem, p[1]) <= q[1] \/ End(mem, q[1]) <= p[1]
    <3>1. p[1] \in Heads(live) /\ q[1] \in Heads(live)
      BY BlockPiece
    <3> QED BY <2>5, <3>1 DEF Sound, Tiles, Apart
  <2>7. /\ p[1] \in Nat /\ p[2] \in Nat /\ p[1] + p[2] <= End(mem, p[1])
        /\ End(mem, p[1]) \in Nat
    BY BlockPiece
  <2>8. /\ q[1] \in Nat /\ q[2] \in Nat /\ q[1] + q[2] <= End(mem, q[1])
        /\ End(mem, q[1]) \in Nat
    BY BlockPiece
  <2> QED BY <2>6, <2>7, <2>8 DEF Overlap
<1>2. ASSUME NEW p \in Blocks PROVE p[1] >= START /\ p[1] + p[2] <= end_address
  <2>1. /\ p[1] \in Nat /\ p[2] \in Nat /\ START <= p[1] /\ p[1] + p[2] <= End(mem, p[1])
        /\ End(mem, p[1]) <= end_address /\ End(mem, p[1]) \in Nat
    BY BlockPiece
  <2>2. end_address \in Nat
    BY TypeParts DEF TInv
  <2> QED BY <2>1, <2>2, Linear
<1> QED BY <1>1, <1>2 DEF BlocksDisjoint

LEMMA IndexSound ==
    ASSUME TInv, Sound(mem, index, live, end_address)
    PROVE  /\ Readable
           /\ \A k, l \in 1..Len(index) : k # l /\ index[k] # NULL => index[k] # index[l]
           /\ \A a \in Holes :
                 /\ mem[a].is_hole /\ a >= START /\ a + mem[a].size <= end_address
                 /\ \A b \in Blocks : ~Overlap(a, mem[a].size, b[1], b[2])
<1>0. Holes = HolesIn(index)
  BY DEF Holes, HolesIn
<1>1. Readable
  <2>1. \A k \in 1..Len(index) : index[k] = NULL \/ index[k] \in HolesIn(index)
    BY DEF HolesIn
  <2> QED BY <2>1, SoundPieces DEF Readable
<1>2. Distinct(index)
  BY DEF Sound
<1>3. ASSUME NEW a \in Holes
      PROVE  mem[a].is_hole /\ a >= START /\ a + mem[a].size <= end_address
  <2>1. /\ mem[a].is_hole /\ a \in Nat /\ START <= a /\ End(mem, a) = a + mem[a].size
        /\ End(mem, a) <= end_address
    BY <1>0, SoundPieces
  <2> QED BY <2>1, Linear
<1>4. ASSUME NEW a \in Holes, NEW p \in Blocks PROVE ~Overlap(a, mem[a].size, p[1], p[2])
  <2>1. /\ a \in Nat /\ mem[a].size \in Nat /\ End(mem, a) = a + mem[a].size
        /\ a \notin Heads(live)
    BY <1>0, SoundPieces
  <2>2. /\ p[1] \in Heads(live) /\ p[1] \in Nat /\ p[2] \in Nat
        /\ p[1] + p[2] <= End(mem, p[1]) /\ End(mem, p[1]) \in Nat
    BY BlockPiece
  <2>3. End(mem, a) <= p[1] \/ End(mem, p[1]) <= a
    BY <1>0, <2>1, <2>2 DEF Sound, Tiles, Apart
  <2> QED BY <2>1, <2>2, <2>3 DEF Overlap
<1> QED BY <1>1, <1>2, <1>3, <1>4 DEF Distinct

LEMMA Tiled ==
    ASSUME TInv, Sound(mem, index, live, end_address)
    PROVE  NothingLost
<1> DEFINE T == HolesIn(index) \cup Heads(live)
<1>1. Holes = HolesIn(index)
  BY DEF Holes, HolesIn
<1>2. {b[1] : b \in Blocks} = Heads(live)
  <2>1. \A p \in Blocks : p[1] \in Heads(live)
    BY BlockPiece
  <2>2. ASSUME NEW b \in live PROVE \E p \in Blocks : p[1] = b[1] - HDR
    <3>1. <<b[1] - HDR, b[2] + HDR + FTR>> \in Blocks
      BY DEF Blocks
    <3>2. <<b[1] - HDR, b[2] + HDR + FTR>>[1] = b[1] - HDR
      OBVIOUS
    <3> QED BY <3>1, <3>2
  <2> QED BY <2>1, <2>2 DEF Heads
<1>3. Pieces = {<<a, mem[a].size>> : a \in T}
  BY <1>1, <1>2 DEF Pieces
<1>4. ASSUME NEW x \in START..(end_address - 1)
      PROVE  LET around == {p \in Pieces : p[1] <= x /\ x < p[1] + p[2]}
             IN  \E p \in around : around = {p}
  <2> DEFINE around == {p \in Pieces : p[1] <= x /\ x < p[1] + p[2]}
  <2>1. PICK a \in T : a <= x /\ x < End(mem, a)
    BY DEF Sound, Tiles, Covered
  <2>2. PICK p : p = <<a, mem[a].size>>
    OBVIOUS
  <2>3. x \in Int
    BY Linear, TypeParts DEF TInv
  <2>4. \A c \in T : End(mem, c) = c + mem[c].size
    BY DEF End
  <2>5. p \in around
    <3>1. p \in Pieces /\ p[1] = a /\ p[2] = mem[a].size
      BY <1>3, <2>2
    <3> QED BY <2>1, <2>4, <3>1
  <2>6. ASSUME NEW q \in around PROVE q = p
    <3>1. PICK c \in T : q = <<c, mem[c].size>>
      BY <1>3
    <3>2. c <= x /\ x < End(mem, c)
      BY <2>4, <3>1
    <3>3. c = a
      BY <2>1, <2>3, <3>2, OnePiece
    <3> QED BY <2>2, <3>1, <3>3
  <2> HIDE DEF around
  <2>7. \E y \in around : around = {y}
    BY <2>5, <2>6
  <2> QED BY <2>7 DEF around
<1> QED BY <1>4 DEF NothingLost

-----------------------------------------------------------------------------
(* Whatever happens, defects included: what is stored in memory and in the *)
(* index are values of a u32int, the index is in its array, expand never   *)
(* passes max_address and leaves less than a page of the heap unmapped.    *)
THEOREM HeapTypes == Spec => []TypeOK
<1>1. IInv => TypeOK
  BY DEF IInv
<1> QED BY <1>1, AlwaysIInv, PTL

(* Blocks that alloc has handed out and that are not freed do not overlap  *)
(* and lie in the heap, as long as no defect has happened.                 *)
THEOREM BlocksStaySound == Spec => []SoundBlocks
<1>1. IInv => SoundBlocks
  BY Disjoint DEF IInv, TInv, SoundBlocks
<1> QED BY <1>1, AlwaysIInv, PTL

(* The index of holes that find_smallest_hole and free walk holds holes of *)
(* the heap, each once, none overlapping a block handed out, as long as no *)
(* defect has happened.                                                    *)
THEOREM IndexStaysSound == Spec => []SoundIndex
<1>1. IInv => SoundIndex
  BY IndexSound DEF IInv, TInv, SoundIndex
<1> QED BY <1>1, AlwaysIInv, PTL

(* Splitting a hole in alloc, unifying holes in free, expand and contract  *)
(* neither lose a byte of the heap nor put it into two pieces, as long as  *)
(* no defect has happened.                                                 *)
THEOREM HeapStaysTiled == Spec => []SoundTiling
<1>1. IInv => SoundTiling
  BY Tiled DEF IInv, TInv, SoundTiling
<1> QED BY <1>1, AlwaysIInv, PTL

(* The ASSERTs of free and contract hold, free follows no footer that is   *)
(* not there, and neither alloc nor free touches a page beyond those that  *)
(* expand has mapped, as long as no defect has happened.                   *)
THEOREM FreeStaysSound == Spec => []SoundFree
<1>1. IInv => SoundFree
  BY DEF IInv, SoundFree
<1> QED BY <1>1, AlwaysIInv, PTL
=============================================================================
