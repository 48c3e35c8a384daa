------------------------------- MODULE Kheap --------------------------------
(***************************************************************************)
(* The kernel heap (sys/kheap.c): alloc, free, expand and contract on a    *)
(* memory of headers and footers, with the holes in an ordered array.      *)
(*                                                                         *)
(* mem maps an address to the header or footer stored there; storing one   *)
(* destroys those it overlaps, and so does the owner of a block when it    *)
(* writes to it.  Addresses, sizes and the tests on them are the code's,   *)
(* at a smaller scale.  Which pages back the heap is in module Paging.     *)
(***************************************************************************)
EXTENDS OrderedArray

CONSTANTS
    HDR, FTR,           \* sizeof (header_t), sizeof (footer_t)
    PAGE,               \* 0x1000
    U32,                \* number of values of a u32int
    START,              \* heap->start_address after create_heap
    INITIAL,            \* the heap's first size
    HEAP_MIN_SIZE,
    MAX,                \* heap->max_address
    HEAP_INDEX_SIZE,    \* heap->index.max_size
    LowSize,            \* the word at physical address 8: the size field of a header at NULL
    Sizes,              \* the sizes alloc is called with
    AlignedSizes,       \* the sizes alloc is called with, with page_align = 1
    Frees,              \* is free called?
    MaxOps              \* bound: calls

(* The kernel's numbers: 12, 8, 0x1000, 2^32, 0xC0080000, 0x80000,         *)
(* 0x70000, 0xCFFFF000 and 0x20000.  Requests are small enough that        *)
(* expand's sums do not wrap.                                              *)
ASSUME KheapAssumption ==
    /\ {HDR, FTR, PAGE, U32, START, INITIAL, HEAP_MIN_SIZE, MAX, HEAP_INDEX_SIZE,
        MaxOps} \subseteq Nat \ {0}
    /\ LowSize \in 0..(U32 - 1)
    /\ START % PAGE = 0 /\ INITIAL % PAGE = 0 /\ HEAP_MIN_SIZE % PAGE = 0 /\ PAGE % 2 = 0
    /\ HDR + FTR <= PAGE /\ 2 * PAGE <= HEAP_MIN_SIZE /\ HEAP_MIN_SIZE <= INITIAL
    /\ START + INITIAL <= MAX /\ MAX + PAGE < U32
    /\ \A n \in Sizes \cup AlignedSizes :
          n \in Nat /\ n + HDR + FTR < U32 \div 2 /\ MAX + n + HDR + FTR + PAGE < U32
    /\ Frees \in BOOLEAN

VARIABLES
    mem,
    index,          \* heap->index
    end_address,    \* heap->end_address
    top,            \* end of the highest page the heap ever had
    req,            \* the call of alloc that has expanded the heap and recurses, or none
    live,           \* the blocks handed out and not freed: pointer and size asked for
    status,         \* "ok", or why the machine has stopped; "overrun" when it goes on,
                    \* but the index has left its array
    defects,        \* history: the steps so far that break what alloc and free rely on
    ops             \* calls so far

vars == <<mem, index, end_address, top, req, live, status, defects, ops>>

header(hole, size) == [kind |-> "hdr", is_hole |-> hole, size |-> size]
footer(a)          == [kind |-> "ftr", header |-> a]

SizeOf(cell) == IF cell.kind = "hdr" THEN HDR ELSE FTR

Overlap(a, n, b, m) == a < b + m /\ b < a + n

(* Memory m after n bytes at a have been overwritten, and after a cell has *)
(* been stored at a.                                                       *)
Wipe(m, a, n) ==
    Restrict(m, {b \in DOMAIN m : ~Overlap(a, n, b, SizeOf(m[b]))})

Store(m, a, cell) ==
    LET rest == Wipe(m, a, SizeOf(cell))
    IN  [b \in DOMAIN rest \cup {a} |-> IF b = a THEN cell ELSE rest[b]]

Is(m, a, kind) == a \in DOMAIN m /\ m[a].kind = kind

(* The size field of a header; the one at NULL is in the first page of     *)
(* physical memory, which is identity mapped.                              *)
SizeAt(m, a) == IF Is(m, a, "hdr") THEN m[a].size ELSE LowSize

Insert(ix, m, a) ==
    insert_ordered_array(ix, a, {x \in Range(ix) : SizeAt(m, x) < SizeAt(m, a)})

u32(x) == x % U32
s32(x) == IF x >= U32 \div 2 THEN x - U32 ELSE x

(* create_heap.  The first hole has no footer.                             *)
Init ==
    /\ mem = [a \in {START} |-> header(TRUE, INITIAL)]
    /\ index = <<START>>
    /\ end_address = START + INITIAL
    /\ top = START + INITIAL
    /\ req = <<>>
    /\ live = {}
    /\ status = "ok"
    /\ defects = {}
    /\ ops = 0

-----------------------------------------------------------------------------
(* Mutant: the footer's size is not asked for.                             *)
Fits_NoFooter(a, size, page_align) == SizeAt(mem, a) >= size - FTR

(* Does find_smallest_hole take the hole at a?  The alignment is allowed   *)
(* for at an odd address only, since the test is                           *)
(* (location + 12) & (0xFFFFF000 != 0).                                    *)
Fits(a, size, page_align) ==
    IF page_align
    THEN LET offset == IF (a + HDR) % 2 = 1 THEN PAGE - ((a + HDR) % PAGE) ELSE 0
         IN  s32(SizeAt(mem, a)) - offset >= size
    ELSE SizeAt(mem, a) >= size

find_smallest_hole(size, page_align) ==
    SelectInSeq(index, LAMBDA a : Fits(a, size, page_align))

(* Mutant: the footer of a block is forgotten.                             *)
PutBlock_NoFooter(m, pos, n) == Store(m, pos, header(FALSE, n))

(* A block of n bytes with its header and footer.                          *)
PutBlock(m, pos, n) ==
    Store(Store(m, pos, header(FALSE, n)), u32(pos + n - FTR), footer(pos))

RoundUp(n)   == ((n + PAGE - 1) \div PAGE) * PAGE
RoundDown(n) == (n \div PAGE) * PAGE

(* Every hole in the index can be read.                                    *)
Readable == \A k \in 1..Len(index) : index[k] = NULL \/ Is(mem, index[k], "hdr")

Note(name, happened) == IF happened THEN {name} ELSE {}

Stop(why) ==
    status' = why /\ UNCHANGED <<mem, index, end_address, top, req, live>>

(* The array of the index lies below the first block of the heap.  An      *)
(* index of more than max_size elements has been written, or read, beyond  *)
(* it; nothing tests for that.                                             *)
Overrun(ix) == Len(ix) > HEAP_INDEX_SIZE

(* alloc when a hole fits.  The owner of the block may overwrite it or     *)
(* leave what is there.                                                    *)
Carve(asked, page_align) ==
    LET it    == find_smallest_hole(asked + HDR + FTR, page_align)
        hole  == index[it]
        osize == SizeAt(mem, hole)
        whole == osize - (asked + HDR + FTR) < HDR + FTR
        size  == IF whole THEN osize - HDR - FTR ELSE asked
        new   == size + HDR + FTR
        front == page_align /\ hole >= PAGE
        pos   == IF front THEN u32(hole + PAGE - (hole % PAGE) - HDR) ELSE hole
        fsize == u32(pos - hole)
        mem1  == IF front
                 THEN Store(Store(mem, hole, header(TRUE, fsize)), u32(pos - FTR), footer(hole))
                 ELSE mem
        mem2  == PutBlock(mem1, pos, new)
        left  == u32(osize - (IF front THEN fsize ELSE 0) - new)
        tail  == u32(pos + new)
        mem3  == Store(mem2, tail, header(TRUE, left))
        tfoot == u32(tail + left - FTR)
        mem4  == IF tfoot < end_address THEN Store(mem3, tfoot, footer(tail)) ELSE mem3
        rest  == IF front THEN index ELSE remove_ordered_array(index, it)
        ix    == IF left > 0 THEN Insert(rest, mem4, tail) ELSE rest
        final == IF left > 0 THEN mem4 ELSE mem2
    IN  /\ it > 0
        /\ defects' = defects
              \cup Note("null hole", hole = NULL)
              \cup Note("no room in front", front /\ pos - hole < HDR + FTR)
              \cup Note("no room behind", pos + new + HDR + FTR > hole + osize
                                          /\ pos + new # hole + osize)
              \cup Note("index full", Overrun(ix))
        /\ IF \/ pos + new > top
              \/ left > 0 /\ tail + HDR > top
              \/ left > 0 /\ tfoot < end_address /\ tfoot + FTR > top
           THEN Stop("page_fault")
           ELSE IF Overrun(ix) THEN Stop("overrun")
           ELSE /\ mem' \in {final, Wipe(final, pos + HDR, asked)}
                /\ index' = ix
                /\ live' = live \cup {<<pos + HDR, asked>>}
                /\ req' = <<>>
                /\ UNCHANGED <<end_address, top, status>>

(* Mutant: no sanity check.                                                *)
Overreach_Never(n) == FALSE

Overreach(n) == START + n > MAX

(* expand (n): only an odd size is rounded up to a page.                   *)
RoundExpand(n) == IF n % 2 = 1 THEN RoundDown(n) + PAGE ELSE n

(* The end of the last page that expand maps between the sizes old and     *)
(* new: it maps the pages of old, old + PAGE and so on below new, so that  *)
(* one that old does not begin may leave out the page in which new ends.   *)
(* kheap.c:96 "This should always be on a page boundary" is not so.        *)
MappedEnd(old, new) == RoundDown(START + old + PAGE * ((new - old - 1) \div PAGE)) + PAGE

(* alloc when no hole fits: the heap is expanded and the endmost hole of   *)
(* the index, or a new one, takes the new space; then alloc starts again.  *)
(* The footer is the last thing written, and the highest.                  *)
Expand(asked, page_align) ==
    LET old  == end_address - START
        new  == RoundExpand(old + asked + HDR + FTR)
        last == Max({0} \cup {index[k] : k \in 1..Len(index)})
        hole == IF last = 0 THEN end_address ELSE last
        size == u32(new - old + (IF last = 0 THEN 0 ELSE SizeAt(mem, last)))
        head == IF last = 0 THEN header(TRUE, size) ELSE [mem[last] EXCEPT !.size = size]
        foot == u32(hole + size - FTR)
        mem1 == Store(Store(mem, hole, head), foot, footer(hole))
        ix   == IF last = 0 THEN Insert(index, mem1, hole) ELSE index
        high == Max({top, MappedEnd(old, new)})
    IN  /\ find_smallest_hole(asked + HDR + FTR, page_align) = 0
        /\ IF Overreach(new) THEN Stop("full") /\ UNCHANGED defects
           ELSE /\ defects' = defects
                      \cup Note("not the last",
                                last # 0 /\ last + SizeAt(mem, last) # end_address)
                      \cup Note("page left out", START + new > high)
                      \cup Note("index full", Overrun(ix))
                /\ IF foot + FTR > high THEN Stop("page_fault")
                   ELSE IF Overrun(ix) THEN Stop("overrun")
                   ELSE /\ end_address' = START + new
                        /\ top' = high
                        /\ mem' = mem1
                        /\ index' = ix
                        /\ req' = <<asked, page_align>>
                        /\ UNCHANGED <<live, status>>

(* A call of alloc (or its recursion).                                     *)
Alloc(r) ==
    /\ status = "ok" /\ Readable
    /\ \/ req = <<>> /\ ops < MaxOps /\ ops' = ops + 1
       \/ req = r /\ UNCHANGED ops
    /\ Carve(r[1], r[2]) \/ Expand(r[1], r[2])

-----------------------------------------------------------------------------
(* The sanity check of contract: the heap gets smaller.                    *)
Contracts(h) == u32(h - START) < end_address - START

(* contract (n) returns the new size: the rounding keeps one bit of n.     *)
RoundContract(n) ==
    Max({HEAP_MIN_SIZE, IF (n \div PAGE) % 2 = 1 THEN 2 * PAGE ELSE n})

(* The first byte of the pages that contract from old to new gives up.     *)
GivenUp(old, new) == RoundDown(START + old - PAGE * ((old - new - 1) \div PAGE))

(* The end of free: what is left of the hole h, which ends at the heap's   *)
(* end, after contract.  The hole is looked for under the name of its      *)
(* right neighbour, which is not in the index any more.                    *)
Contracted(m, h, new) ==
    LET old  == end_address - START
        m1   == IF new < old - PAGE
                THEN Wipe(m, GivenUp(old, new), end_address - GivenUp(old, new)) ELSE m
        size == u32(m[h].size - (old - new))
    IN  IF size > 0
        THEN Store(Store(m1, h, [m[h] EXCEPT !.size = size]), u32(h + size - FTR), footer(h))
        ELSE m1

(* The hole at h grows by the n bytes behind it.                           *)
Unify(m, h, n) == [m EXCEPT ![h].size = u32(@ + n)]

(* Mutant: do_add stays 1.                                                 *)
do_add_Always(left) == TRUE

(* Mutant: a freed block that touches no hole is not added either.         *)
do_add_Never(left) == FALSE

do_add(left) == ~left

(* The sanity checks of free: the magic numbers are where they should be.  *)
Intact(b) ==
    LET h == b[1] - HDR
    IN  Is(mem, h, "hdr") /\ Is(mem, u32(h + mem[h].size - FTR), "ftr")

(* free (p).  Nothing is done about the footer of the hole on the right.   *)
Free(b) ==
    LET h0    == b[1] - HDR
        f0    == u32(h0 + mem[h0].size - FTR)
        mem1  == [mem EXCEPT ![h0].is_hole = TRUE]
        lf    == u32(h0 - FTR)
        lh    == mem[lf].header
        left  == Is(mem, lf, "ftr") /\ Is(mem1, lh, "hdr") /\ mem1[lh].is_hole
        h     == IF left THEN lh ELSE h0
        mem2  == IF left
                 THEN Unify([mem1 EXCEPT ![f0].header = lh], lh, mem1[h0].size)
                 ELSE mem1
        rh    == u32(f0 + FTR)
        right == Is(mem2, rh, "hdr") /\ mem2[rh].is_hole
        mem3  == IF right THEN Unify(mem2, h, mem2[rh].size) ELSE mem2
        f     == IF right THEN u32(rh + mem2[rh].size - FTR) ELSE f0
        at    == SelectInSeq(index, LAMBDA x : x = rh)
        ix    == IF right THEN remove_ordered_array(index, at) ELSE index
        cut   == f + FTR = end_address
        new   == RoundContract(h - START)
        mem4  == IF cut THEN Contracted(mem3, h, new) ELSE mem3
        ix1   == IF do_add(left) THEN Insert(ix, mem4, h) ELSE ix
    IN  /\ defects' = defects
              \cup Note("past the end", rh >= end_address)
              \cup Note("stale footer", right /\ ~cut)
              \cup Note("cut off", cut /\ START + new - h < HDR + FTR)
              \cup Note("index full", Overrun(ix1))
        /\ IF lf >= top \/ rh >= top THEN Stop("page_fault")
           ELSE IF Is(mem, lf, "ftr") /\ ~Is(mem, lh, "hdr") THEN Stop("wild")
           ELSE IF (right /\ at = 0) \/ (cut /\ ~Contracts(h)) THEN Stop("assert")
           ELSE IF Overrun(ix1) THEN Stop("overrun")
           ELSE /\ mem' = mem4
                /\ index' = ix1
                /\ end_address' = IF cut THEN START + new ELSE end_address
                /\ live' = live \ {b}
                /\ UNCHANGED <<top, req, status>>

FreeBlock ==
    /\ Frees /\ status = "ok" /\ Readable /\ req = <<>>
    /\ ops < MaxOps /\ ops' = ops + 1
    /\ \E b \in live : IF Intact(b) THEN Free(b) ELSE Stop("assert") /\ UNCHANGED defects

Requests == (Sizes \X {FALSE}) \cup (AlignedSizes \X {TRUE})

Next == (\E r \in Requests : Alloc(r)) \/ FreeBlock

Spec == Init /\ [][Next]_vars
-----------------------------------------------------------------------------
(* What is stored in memory, as far as the heap is concerned.              *)
Cell == [kind : {"hdr"}, is_hole : BOOLEAN, size : 0..(U32 - 1)]
        \cup [kind : {"ftr"}, header : 0..(U32 - 1)]

(* Addresses and sizes are those of a u32int, the index is in its array,   *)
(* and the heap ends within its limits and less than a page beyond the     *)
(* pages it has had.                                                       *)
TypeOK ==
    /\ \A a \in DOMAIN mem : a \in 0..(U32 - 1) /\ mem[a] \in Cell
    /\ index \in Seq(0..(U32 - 1)) /\ Len(index) <= HEAP_INDEX_SIZE
    /\ end_address \in START..MAX
    /\ top \in START..RoundUp(MAX) /\ end_address < top + PAGE
    /\ req \in {<<>>} \cup Requests
    /\ live \subseteq Nat \X Nat
    /\ status \in {"ok", "full", "assert", "page_fault", "wild", "overrun"}

Holes == {index[k] : k \in 1..Len(index)} \ {NULL}

(* Start and length of the live blocks, headers and footers included.      *)
Blocks == {<<b[1] - HDR, b[2] + HDR + FTR>> : b \in live}

(* Blocks handed out and not freed do not overlap and lie in the heap.     *)
BlocksDisjoint ==
    /\ \A b \in Blocks : b[1] >= START /\ b[1] + b[2] <= end_address
    /\ \A b, c \in Blocks : b # c => ~Overlap(b[1], b[2], c[1], c[2])

(* As long as none of the listed defects has happened, BlocksDisjoint is   *)
(* true after any sequence of alloc and free.                              *)
SoundBlocks == defects = {} => BlocksDisjoint

(* As long as no defect has happened: the holes in the index, NULLs aside, *)
(* are holes of the heap, each once, none overlapping a live block.        *)
SoundIndex ==
    defects = {} /\ status = "ok" =>
        /\ Readable
        /\ \A k, l \in 1..Len(index) : k # l /\ index[k] # NULL => index[k] # index[l]
        /\ \A a \in Holes :
              /\ mem[a].is_hole /\ a >= START /\ a + mem[a].size <= end_address
              /\ \A b \in Blocks : ~Overlap(a, mem[a].size, b[1], b[2])

(* Start and length of holes and blocks, as their headers have them.       *)
Pieces == {<<a, mem[a].size>> : a \in Holes \cup {b[1] : b \in Blocks}}

(* Every byte of the heap is in exactly one hole or block: none is lost.   *)
NothingLost ==
    \A x \in START..(end_address - 1) :
        LET around == {p \in Pieces : p[1] <= x /\ x < p[1] + p[2]}
        IN  \E p \in around : around = {p}

(* As long as no defect has happened, nothing is lost.                     *)
SoundTiling == defects = {} => NothingLost

(* As long as no defect has happened, no ASSERT of free fires, it follows  *)
(* no pointer out of a footer that is not there, and no call touches a     *)
(* page that the heap has not had.                                         *)
SoundFree == defects = {} => status \in {"ok", "full"}
=============================================================================
