------------------------------- MODULE Paging -------------------------------
(***************************************************************************)
(* Physical frames, page tables and page directories (sys/paging.c), with  *)
(* the loops of other files that allocate and free frames: expand and      *)
(* contract (sys/kheap.c) and move_stack (sys/task.c).                     *)
(*                                                                         *)
(* Every caller runs with interrupts off, or before a second task exists,  *)
(* so one operation runs at a time; it is cut at each call of alloc_frame, *)
(* free_frame or get_page.                                                 *)
(*                                                                         *)
(* A page table is created at most once for an index of a directory, so it *)
(* is named by that directory and index: tables[d][t] is the directory the *)
(* table was made for (0 is NULL), and page[o][p] is the entry of virtual  *)
(* page p in o's own table.  Two directories share a table when they name  *)
(* the same owner.                                                         *)
(***************************************************************************)
EXTENDS Integers

CONSTANTS
    ByteBits,       \* bits in a byte (8)
    NFrames,        \* nframes (4096)
    Garbage,        \* what may be set in the bitset when memory is handed out
    FallOff,        \* what a call of first_frame may leave in its result register
    PageSize,       \* 0x1000
    PPT,            \* entries of a page table (1024)
    NTables,        \* tables of a page directory (1024)
    IdentityPages,  \* 0x400000 in pages
    KheapStart,     \* KHEAP_START in pages
    KheapInitial,   \* KHEAP_INITIAL_SIZE in pages
    IndexPages,     \* pages taken by the heap's index; the heap proper starts after them
    HEAP_MIN_SIZE,  \* in bytes
    HeapMax,        \* max_address - start_address, in bytes
    StackStart,     \* 0xE0000000 in pages
    StackSize,      \* 0x2000 in pages
    ExpandSizes,    \* heap sizes that alloc may ask expand for
    ContractSizes,  \* heap sizes that free may ask contract for
    MaxDirs         \* bound: page directories

WordBits == 4 * ByteBits

(* Mutant: only that many bits are cleared.                                *)
ZeroedBits_AsBits == NFrames \div WordBits

(* INDEX_FROM_BIT(nframes) words are needed; that many bytes are cleared.  *)
ZeroedBits == (NFrames \div WordBits) * ByteBits

Frame == 0..(NFrames - 1)
Page  == 0..(PPT * NTables - 1)
Index == 0..(NTables - 1)
Dir   == 1..MaxDirs

kernel_directory == 1
HeapStart        == KheapStart + IndexPages
TableOf(p)       == p \div PPT

(* The page that holds byte i of the heap.                                 *)
HeapPage(i) == HeapStart + i \div PageSize

(* Numbers are what they are in the code up to scale; the layout keeps the *)
(* identity map, the heap and the stack in different page tables.          *)
ASSUME PagingAssumption ==
    /\ {ByteBits, NFrames, PageSize, PPT, NTables, IdentityPages,
        KheapInitial} \subseteq Nat \ {0}
    /\ {KheapStart, IndexPages, StackStart, StackSize, HeapMax} \subseteq Nat
    /\ MaxDirs \in Nat /\ MaxDirs >= 2
    /\ NFrames % WordBits = 0 /\ NFrames <= PageSize
    /\ Garbage \subseteq SUBSET Frame
    /\ FallOff \subseteq 0..NFrames /\ FallOff # {}
    /\ ExpandSizes \cup ContractSizes \subseteq Nat
    /\ HEAP_MIN_SIZE \in (2 * PageSize)..((KheapInitial - IndexPages) * PageSize)
    /\ HEAP_MIN_SIZE % PageSize = 0
    /\ (KheapInitial - IndexPages) * PageSize <= HeapMax
    /\ 4 * IdentityPages <= NFrames
    /\ TableOf(IdentityPages - 1) < TableOf(KheapStart)
    /\ TableOf(HeapPage(HeapMax)) < TableOf(StackStart - StackSize)
    /\ StackStart \in Page

VARIABLES
    frames,             \* the set bits of the bitset
    page,               \* page tables
    tables,             \* page directories
    ndirs,              \* directories made so far
    current_directory,
    heap_size,          \* heap->end_address - heap->start_address
    pc,                 \* the loop being run, "idle" between operations
    i, j,               \* its counters (0 when no loop uses them)
    new_size,           \* argument of expand and contract, after rounding
    exhausted           \* history: first_frame found no free frame

mem  == <<frames, page, exhausted>>
dirs == <<tables, ndirs, current_directory>>
vars == <<mem, dirs, heap_size, pc, i, j, new_size>>

Entry == [present : BOOLEAN, rw : BOOLEAN, frame : 0..NFrames]
Blank == [present |-> FALSE, rw |-> FALSE, frame |-> 0]

TypeOK ==
    /\ frames \subseteq Frame
    /\ page \in [Dir -> [Page -> Entry]]
    /\ tables \in [Dir -> [Index -> Dir \cup {0}]]
    /\ ndirs \in Dir
    /\ current_directory \in 1..ndirs
    /\ heap_size \in HEAP_MIN_SIZE..HeapMax
    /\ pc \in {"heap_tables", "identity", "heap_pages", "idle", "expand",
               "contract", "move_stack", "clone", "clone_table"}
    /\ i \in Nat /\ j \in Nat
    /\ new_size \in 0..HeapMax
    /\ exhausted \in BOOLEAN

(* initialise_paging, up to its first loop.                                *)
Init ==
    /\ \E garbage \in Garbage : frames = garbage \ 0..(ZeroedBits - 1)
    /\ page = [d \in Dir |-> [p \in Page |-> Blank]]
    /\ tables = [d \in Dir |-> [t \in Index |-> 0]]
    /\ ndirs = kernel_directory
    /\ current_directory = kernel_directory
    /\ heap_size = (KheapInitial - IndexPages) * PageSize
    /\ pc = "heap_tables"
    /\ i = KheapStart
    /\ j = 0
    /\ new_size = 0
    /\ exhausted = FALSE

-----------------------------------------------------------------------------
(* Mutant: the bits of the bitset are searched from the top.               *)
first_frame_Last ==
    IF Frame \subseteq frames
    THEN FallOff
    ELSE {f \in Frame \ frames : \A g \in Frame \ frames : f >= g}

(* The possible results of first_frame.  It runs off its end without a     *)
(* return when every bit is set (unoptimised code then returns nframes/32, *)
(* the last value it computed); NFrames stands for no frame of the bitset. *)
first_frame ==
    IF Frame \subseteq frames
    THEN FallOff
    ELSE {f \in Frame \ frames : \A g \in Frame \ frames : f <= g}

(* alloc_frame on page p of o's own table.  Every caller passes            *)
(* is_kernel = 0, so the user bit is left out.                             *)
alloc_frame(o, p, w) ==
    IF page[o][p].frame # 0
    THEN UNCHANGED mem
    ELSE \E idx \in first_frame :
            /\ frames' = frames \cup ({idx} \cap Frame)
            /\ page' = [page EXCEPT ![o][p] =
                          [present |-> TRUE, rw |-> w, frame |-> idx]]
            /\ exhausted' = (exhausted \/ Frame \subseteq frames)

(* free_frame passes the frame's number to clear_frame, which takes an     *)
(* address and divides it by the page size.  present stays set.            *)
free_frame(o, p) ==
    IF page[o][p].frame = 0
    THEN UNCHANGED mem
    ELSE /\ frames' = frames \ {page[o][p].frame \div PageSize}
         /\ page' = [page EXCEPT ![o][p].frame = 0]
         /\ UNCHANGED exhausted

(* get_page with make = 1: a missing table is made, blank.                 *)
get_page(d, p) ==
    /\ tables' = IF tables[d][TableOf(p)] = 0
                 THEN [tables EXCEPT ![d][TableOf(p)] = d]
                 ELSE tables
    /\ UNCHANGED <<ndirs, current_directory>>

(* alloc_frame (get_page (p, 1, d), 0, w)                                  *)
MapPage(d, p, w) ==
    /\ get_page(d, p)
    /\ alloc_frame(tables'[d][TableOf(p)], p, w)

-----------------------------------------------------------------------------
(* initialise_paging.  The tables of the heap's first pages come first,    *)
(* then the identity map, then frames for those heap pages.                *)
HeapTables ==
    /\ pc = "heap_tables"
    /\ IF i < KheapStart + KheapInitial
       THEN get_page(kernel_directory, i) /\ i' = i + 1 /\ UNCHANGED pc
       ELSE UNCHANGED dirs /\ i' = 0 /\ pc' = "identity"
    /\ UNCHANGED <<mem, heap_size, j, new_size>>

IdentityMapping ==
    /\ pc = "identity"
    /\ IF i < IdentityPages
       THEN MapPage(kernel_directory, i, FALSE) /\ i' = i + 1 /\ UNCHANGED pc
       ELSE UNCHANGED <<mem, dirs>> /\ i' = KheapStart /\ pc' = "heap_pages"
    /\ UNCHANGED <<heap_size, j, new_size>>

(* clone_directory (current_directory), up to its loop: a blank directory. *)
CloneStart ==
    /\ ndirs' = ndirs + 1
    /\ i' = 0
    /\ pc' = "clone"

(* Paging is enabled, the heap created and kernel_directory cloned.        *)
HeapPages ==
    /\ pc = "heap_pages"
    /\ \/ /\ i < KheapStart + KheapInitial
          /\ MapPage(kernel_directory, i, FALSE)
          /\ i' = i + 1
          /\ UNCHANGED pc
       \/ /\ i >= KheapStart + KheapInitial
          /\ CloneStart
          /\ UNCHANGED <<mem, tables, current_directory>>
    /\ UNCHANGED <<heap_size, j, new_size>>

(* The argument of clone_directory, in the boot sequence and in fork.      *)
src == tables[current_directory]

(* Mutant: the test against kernel_directory is dropped.                   *)
CloneTable_Shared ==
    /\ pc = "clone" /\ i < NTables
    /\ tables' = [tables EXCEPT ![ndirs][i] = src[i]]
    /\ i' = i + 1
    /\ UNCHANGED <<pc, j>>
    /\ UNCHANGED <<mem, ndirs, current_directory, heap_size, new_size>>

(* Mutant: no table is shared with the kernel.                             *)
CloneTable_Private ==
    /\ pc = "clone" /\ i < NTables
    /\ IF src[i] = 0
       THEN /\ i' = i + 1
            /\ UNCHANGED pc
       ELSE /\ pc' = "clone_table"
            /\ UNCHANGED i
    /\ UNCHANGED <<mem, dirs, heap_size, j, new_size>>

(* clone_directory, one table of the source a step.  A table that is also  *)
(* the kernel's is shared; any other is cloned.                            *)
CloneTable ==
    /\ pc = "clone" /\ i < NTables
    /\ IF src[i] = 0 \/ src[i] = tables[kernel_directory][i]
       THEN /\ tables' = [tables EXCEPT ![ndirs][i] = src[i]]
            /\ i' = i + 1
            /\ UNCHANGED <<pc, j>>
       ELSE /\ pc' = "clone_table"
            /\ UNCHANGED <<tables, i, j>>
    /\ UNCHANGED <<mem, ndirs, current_directory, heap_size, new_size>>

(* Mutant: an entry that has a frame is copied, not skipped.               *)
CloneEntry_CopyEntry ==
    /\ pc = "clone_table" /\ j < PPT
    /\ LET p == i * PPT + j
           e == page[src[i]][p]
       IN  IF e.frame # 0
           THEN page' = [page EXCEPT ![ndirs][p] = e] /\ UNCHANGED <<frames, exhausted>>
           ELSE alloc_frame(ndirs, p, e.rw)
    /\ j' = j + 1
    /\ UNCHANGED <<dirs, heap_size, pc, i, new_size>>

(* clone_table, one entry a step.  An entry that has a frame is skipped;   *)
(* one that has none is given a frame and the source's flags.              *)
CloneEntry ==
    /\ pc = "clone_table" /\ j < PPT
    /\ LET p == i * PPT + j
           e == page[src[i]][p]
       IN  IF e.frame # 0 THEN UNCHANGED mem ELSE alloc_frame(ndirs, p, e.rw)
    /\ j' = j + 1
    /\ UNCHANGED <<dirs, heap_size, pc, i, new_size>>

CloneTableDone ==
    /\ pc = "clone_table" /\ j = PPT
    /\ tables' = [tables EXCEPT ![ndirs][i] = ndirs]
    /\ i' = i + 1
    /\ j' = 0
    /\ pc' = "clone"
    /\ UNCHANGED <<mem, ndirs, current_directory, heap_size, new_size>>

(* The boot sequence switches to the clone; fork leaves it to switch_task. *)
CloneDone ==
    /\ pc = "clone" /\ i = NTables
    /\ current_directory' = IF current_directory = kernel_directory
                            THEN ndirs ELSE current_directory
    /\ pc' = "idle"
    /\ i' = 0
    /\ UNCHANGED <<mem, tables, ndirs, heap_size, j, new_size>>

-----------------------------------------------------------------------------
(* The first task exists once move_stack has run, in the boot clone.       *)
tasking == tables[kernel_directory + 1][TableOf(StackStart)] # 0

Fork ==
    /\ pc = "idle" /\ tasking /\ ndirs < MaxDirs
    /\ CloneStart
    /\ UNCHANGED <<mem, tables, current_directory, heap_size, j, new_size>>

(* switch_task, as far as the memory manager is concerned.                 *)
SwitchTask ==
    /\ pc = "idle" /\ tasking
    /\ current_directory' \in (kernel_directory + 1)..ndirs
    /\ UNCHANGED <<mem, tables, ndirs, heap_size, pc, i, j, new_size>>

(* move_stack (StackStart, StackSize): downwards, one page more than asked.*)
MoveStackStart ==
    /\ pc = "idle" /\ ~tasking
    /\ pc' = "move_stack"
    /\ i' = StackStart
    /\ UNCHANGED <<mem, dirs, heap_size, j, new_size>>

MoveStack ==
    /\ pc = "move_stack"
    /\ IF i >= StackStart - StackSize
       THEN MapPage(current_directory, i, TRUE) /\ i' = i - 1 /\ UNCHANGED pc
       ELSE UNCHANGED <<mem, dirs>> /\ i' = 0 /\ pc' = "idle"
    /\ UNCHANGED <<heap_size, j, new_size>>

(* Only an odd size is rounded up to a page, because the test is           *)
(* new_size & (0xFFFFF000 != 0).                                           *)
RoundExpand(n) == IF n % 2 = 1 THEN (n \div PageSize) * PageSize + PageSize ELSE n

(* Mutant: the sanity check on max_address is dropped.                     *)
ExpandStart_Unchecked(n) ==
    /\ pc = "idle"
    /\ n > heap_size
    /\ new_size' = RoundExpand(n)
    /\ i' = heap_size
    /\ pc' = "expand"
    /\ UNCHANGED <<mem, dirs, heap_size, j>>

(* expand (n).  A failed ASSERT stops the machine.                         *)
ExpandStart(n) ==
    /\ pc = "idle"
    /\ n > heap_size
    /\ RoundExpand(n) <= HeapMax
    /\ new_size' = RoundExpand(n)
    /\ i' = heap_size
    /\ pc' = "expand"
    /\ UNCHANGED <<mem, dirs, heap_size, j>>

(* Mutant: the last page is left out.                                      *)
Expand_OneShort ==
    /\ pc = "expand"
    /\ IF i + PageSize < new_size
       THEN /\ MapPage(kernel_directory, HeapPage(i), TRUE)
            /\ i' = i + PageSize
            /\ UNCHANGED <<pc, heap_size, new_size>>
       ELSE /\ heap_size' = new_size
            /\ pc' = "idle" /\ i' = 0 /\ new_size' = 0
            /\ UNCHANGED <<mem, dirs>>
    /\ UNCHANGED j

Expand ==
    /\ pc = "expand"
    /\ IF i < new_size
       THEN /\ MapPage(kernel_directory, HeapPage(i), TRUE)
            /\ i' = i + PageSize
            /\ UNCHANGED <<pc, heap_size, new_size>>
       ELSE /\ heap_size' = new_size
            /\ pc' = "idle" /\ i' = 0 /\ new_size' = 0
            /\ UNCHANGED <<mem, dirs>>
    /\ UNCHANGED j

(* contract (n): the "rounding" looks at one bit of the page number and    *)
(* throws the others away.                                                 *)
RoundContract(n) ==
    LET r == IF (n \div PageSize) % 2 = 1 THEN 2 * PageSize ELSE n
    IN  IF r < HEAP_MIN_SIZE THEN HEAP_MIN_SIZE ELSE r

ContractStart(n) ==
    /\ pc = "idle"
    /\ n < heap_size
    /\ new_size' = RoundContract(n)
    /\ i' = heap_size - PageSize
    /\ pc' = "contract"
    /\ UNCHANGED <<mem, dirs, heap_size, j>>

Contract ==
    /\ pc = "contract"
    /\ IF new_size < i
       THEN /\ free_frame(tables[kernel_directory][TableOf(HeapPage(i))], HeapPage(i))
            /\ i' = i - PageSize
            /\ UNCHANGED <<pc, heap_size, new_size>>
       ELSE /\ heap_size' = new_size
            /\ pc' = "idle" /\ i' = 0 /\ new_size' = 0
            /\ UNCHANGED mem
    /\ UNCHANGED <<dirs, j>>

Boot  == HeapTables \/ IdentityMapping \/ HeapPages
Clone == CloneTable \/ CloneEntry \/ CloneTableDone \/ CloneDone
Heap  == \/ \E n \in ExpandSizes : ExpandStart(n)
         \/ \E n \in ContractSizes : ContractStart(n)
         \/ Expand \/ Contract
Tasks == MoveStackStart \/ MoveStack \/ Fork \/ SwitchTask

Next == Boot \/ Clone \/ Heap \/ Tasks

Spec == Init /\ [][Next]_vars
-----------------------------------------------------------------------------
booted == pc \notin {"heap_tables", "identity"}

(* The directories that are ready for use.                                 *)
Ready == 1..(IF pc \in {"clone", "clone_table"} THEN ndirs - 1 ELSE ndirs)

Mapped(d, p) ==
    LET o == tables[d][TableOf(p)] IN o # 0 /\ page[o][p].present

(* The whole heap, when no operation is changing it.                       *)
HeapPagesNow == {HeapPage(b) : b \in 0..(heap_size - 1)}

(* From the second loop of initialise_paging on, in every directory, each  *)
(* low page is the frame of the same number and is read-only: whatever the *)
(* three quarters of the bitset that were never cleared hold, and whatever *)
(* expand, contract, move_stack and clone_directory do afterwards.         *)
IdentityMap ==
    booted =>
        \A p \in 0..(IdentityPages - 1) :
            /\ page[kernel_directory][p] = [present |-> TRUE, rw |-> FALSE, frame |-> p]
            /\ \A d \in Ready : tables[d][TableOf(p)] = kernel_directory

(* As long as first_frame has found a free frame every time, no frame but  *)
(* frame 0 is the target of two page table entries, of whatever tables.    *)
FrameExclusive ==
    ~exhausted =>
        \A d, e \in Dir : \A p, q \in Page :
            page[d][p].frame = page[e][q].frame /\ page[d][p].frame # 0
                => d = e /\ p = q

(* Address spaces of clone_directory share a table only if it is the       *)
(* kernel's: what one task maps privately no other task can reach.         *)
PrivateTables ==
    \A d, e \in Ready : \A t \in Index :
        d # e /\ tables[d][t] # 0 /\ tables[d][t] = tables[e][t]
            => tables[d][t] = tables[kernel_directory][t]

(* get_page (..., 0, ...) in contract finds a table, so free_frame is not  *)
(* called with NULL: after any expansions and contractions, of sizes that  *)
(* expand rounds and of sizes that it does not.                            *)
ContractFindsTable ==
    pc = "contract" /\ new_size < i
        => tables[kernel_directory][TableOf(HeapPage(i))] # 0

(* Between operations, whenever the heap ends on a page boundary, every    *)
(* page of it is mapped: the page that an expansion to a size it does not  *)
(* round leaves out is taken by the next one, which starts inside it.      *)
HeapBacked ==
    pc = "idle" /\ heap_size % PageSize = 0
        => \A p \in HeapPagesNow : Mapped(kernel_directory, p)

(* The tables that the first loop of initialise_paging makes.              *)
FirstTables == {TableOf(p) : p \in KheapStart..(KheapStart + KheapInitial - 1)}

(* Whatever directory the CPU uses, a heap page that expand maps in        *)
(* kernel_directory is mapped there too, if its table is older than the    *)
(* first clone; a table that expand makes is missing in every clone.       *)
HeapReachable ==
    pc = "idle" /\ heap_size % PageSize = 0
        => \A p \in HeapPagesNow :
              TableOf(p) \in FirstTables => Mapped(current_directory, p)

(* The part of the heap that contract never gives up.                      *)
FirstHeapPages == KheapStart..(HeapPage(HEAP_MIN_SIZE - 1))

(* paging.c:304 "the physical address of dir->tablesPhysical is phys +     *)
(* offset" takes consecutive heap pages for consecutive frames.  Garbage   *)
(* in the bitset may part them, but nothing else does: as long as memory   *)
(* lasts, the frames of the first part of the heap ascend, and a frame     *)
(* between two of them is marked as used and is that of no page but those  *)
(* between the two, whatever is mapped, freed and cloned afterwards.       *)
HeapInOrder ==
    ~exhausted /\ pc \notin {"heap_tables", "identity", "heap_pages"} =>
        \A p, q \in FirstHeapPages : p < q =>
            LET a == page[kernel_directory][p].frame
                b == page[kernel_directory][q].frame
            IN  /\ a < b
                /\ \A f \in (a + 1)..(b - 1) :
                      /\ f \in frames
                      /\ \A d \in Dir : \A x \in Page :
                            page[d][x].frame = f => d = kernel_directory /\ x \in p..q

(* paging.c:107 "Function to dealocate a frame": free_frame makes the      *)
(* page's frame, and no other, free again.                                 *)
FreeReturnsFrame ==
    [][pc = "contract" /\ new_size < i =>
        frames' = frames \ ({page[kernel_directory][HeapPage(i)].frame} \ {0})]_vars

(* task.c:187 "It clones the address space": when clone_directory is done, *)
(* every page that is mapped in the source is mapped in the clone.         *)
CloneIsComplete ==
    [][pc = "clone" /\ pc' = "idle" =>
        \A p \in Page : Mapped(current_directory, p) => Mapped(ndirs, p)]_vars
=============================================================================
