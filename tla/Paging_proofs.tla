---------------------------- MODULE Paging_proofs ----------------------------
(***************************************************************************)
(* Proofs about frames, page tables and page directories, for any amount   *)
(* of memory, any layout that satisfies PagingAssumption and any number of *)
(* forks.                                                                  *)
(***************************************************************************)
EXTENDS Paging, TLAPS

(* What the loop in progress has established, as far as TypeOK and the     *)
(* tables depend on it: no directory is made before the boot clone, the    *)
(* heap keeps at least its smallest size, and a table that is being cloned *)
(* exists.                                                                 *)
Loops ==
    /\ pc \in {"heap_tables", "identity", "heap_pages"}
          => ndirs = 1 /\ heap_size = (KheapInitial - IndexPages) * PageSize
    /\ pc \in {"clone", "clone_table"} => ndirs >= 2
    /\ pc = "expand" => new_size >= heap_size /\ i \in heap_size..(new_size + PageSize)
    /\ pc = "contract"
          => new_size \in HEAP_MIN_SIZE..heap_size /\ i + PageSize <= heap_size
    /\ pc = "clone_table" => i < NTables /\ src[i] # 0

(* How far the heap's page tables are there.  Sizes that expand does not   *)
(* round may leave the heap's last, partial page without one, so the bound *)
(* is a page below the end of the heap: that is where contract starts.     *)
Covered == IF pc = "expand" THEN i ELSE heap_size

HeapTablesMade ==
    /\ pc = "heap_tables" =>
          /\ i >= KheapStart
          /\ \A p \in KheapStart..(i - 1) : tables[kernel_directory][TableOf(p)] # 0
    /\ pc # "heap_tables" =>
          \A b \in Nat : b + PageSize <= Covered
                            => tables[kernel_directory][TableOf(HeapPage(b))] # 0

(* A page table of a directory is its own or the kernel's, and then the    *)
(* kernel's directory still has it.                                        *)
Owners ==
    \A d \in Dir : \A t \in Index :
        /\ tables[d][t] \in {0, d, kernel_directory}
        /\ tables[d][t] = kernel_directory
              => tables[kernel_directory][t] = kernel_directory

(* While memory lasts, the frame of an entry, if it is not frame 0, is     *)
(* marked in the bitset.                                                   *)
FramesTaken ==
    ~exhausted =>
        \A d \in Dir : \A p \in Page :
            page[d][p].frame # 0 => page[d][p].frame \in frames

-----------------------------------------------------------------------------
(* The constants, one by one.                                              *)
LEMMA Constants ==
    /\ ByteBits \in Nat \ {0} /\ NFrames \in Nat \ {0} /\ PageSize \in Nat \ {0}
    /\ PPT \in Nat \ {0} /\ NTables \in Nat \ {0} /\ KheapInitial \in Nat \ {0}
    /\ IdentityPages \in Nat \ {0}
    /\ KheapStart \in Nat /\ IndexPages \in Nat /\ HeapMax \in Nat
    /\ StackStart \in Nat /\ StackSize \in Nat
    /\ MaxDirs \in Nat /\ MaxDirs >= 2
    /\ NFrames <= PageSize
    /\ FallOff \subseteq 0..NFrames
    /\ ExpandSizes \subseteq Nat /\ ContractSizes \subseteq Nat
    /\ HEAP_MIN_SIZE \in Nat /\ HEAP_MIN_SIZE >= 2 * PageSize
    /\ HEAP_MIN_SIZE <= (KheapInitial - IndexPages) * PageSize
    /\ (KheapInitial - IndexPages) * PageSize <= HeapMax
    /\ (KheapInitial - IndexPages) * PageSize \in Int
    /\ StackStart \in Page
BY PagingAssumption

(* Division, for a symbolic divisor.                                       *)
LEMMA Division ==
    ASSUME NEW n \in Nat, NEW k \in Nat \ {0}
    PROVE  /\ n \div k \in Nat
           /\ (n \div k) * k <= n
           /\ n < (n \div k) * k + k
           /\ n < k => n \div k = 0
OBVIOUS

LEMMA DivisionBound ==
    ASSUME NEW n \in Nat, NEW k \in Nat \ {0}, NEW m \in Nat
    PROVE  /\ n < m * k => n \div k < m
           /\ n >= m * k => n \div k >= m
OBVIOUS

LEMMA DivisionMonotone ==
    ASSUME NEW n \in Nat, NEW m \in Nat, NEW k \in Nat \ {0}, n <= m
    PROVE  n \div k <= m \div k
OBVIOUS

LEMMA DivisionStep ==
    ASSUME NEW n \in Nat, NEW k \in Nat \ {0}
    PROVE  (n + k) \div k = (n \div k) + 1
OBVIOUS

LEMMA KernelDirectory == kernel_directory \in Dir
BY Constants DEF kernel_directory, Dir

(* Numbers are natural, and smallest elements of the free frames are       *)
(* frames.                                                                 *)
LEMMA FirstFrame ==
    ASSUME TypeOK, NEW idx \in first_frame
    PROVE  /\ idx \in 0..NFrames
           /\ ~(Frame \subseteq frames) => idx \in Frame /\ idx \notin frames
BY Constants DEF first_frame, Frame

(* alloc_frame keeps the types of what it writes.                          *)
LEMMA AllocType ==
    ASSUME TypeOK, NEW o, NEW p, NEW w \in BOOLEAN, alloc_frame(o, p, w)
    PROVE  /\ frames' \subseteq Frame
           /\ page' \in [Dir -> [Page -> Entry]]
           /\ exhausted' \in BOOLEAN
<1>1. CASE page[o][p].frame # 0
  BY <1>1 DEF alloc_frame, mem, TypeOK
<1>2. CASE page[o][p].frame = 0
  <2> PICK idx \in first_frame :
         /\ frames' = frames \cup ({idx} \cap Frame)
         /\ page' = [page EXCEPT ![o][p] =
                        [present |-> TRUE, rw |-> w, frame |-> idx]]
         /\ exhausted' = (exhausted \/ Frame \subseteq frames)
    BY <1>2 DEF alloc_frame
  <2>1. frames' \subseteq Frame
    BY DEF TypeOK
  <2>2. [present |-> TRUE, rw |-> w, frame |-> idx] \in Entry
    BY FirstFrame DEF Entry
  <2>3. page' \in [Dir -> [Page -> Entry]]
    BY <2>2 DEF TypeOK
  <2>4. exhausted' \in BOOLEAN
    BY DEF TypeOK
  <2> QED BY <2>1, <2>3, <2>4
<1> QED BY <1>1, <1>2

(* alloc_frame gives an entry a frame that no entry has.                   *)
LEMMA AllocExclusive ==
    ASSUME TypeOK, FramesTaken, FrameExclusive,
           NEW o, NEW p, NEW w \in BOOLEAN, alloc_frame(o, p, w)
    PROVE  FramesTaken' /\ FrameExclusive'
<1>1. CASE page[o][p].frame # 0
  BY <1>1 DEF alloc_frame, mem, FramesTaken, FrameExclusive
<1>2. CASE page[o][p].frame = 0
  <2> SUFFICES ASSUME ~exhausted'
               PROVE  FramesTaken' /\ FrameExclusive'
    BY DEF FramesTaken, FrameExclusive
  <2> PICK idx \in first_frame :
         /\ frames' = frames \cup ({idx} \cap Frame)
         /\ page' = [page EXCEPT ![o][p] =
                        [present |-> TRUE, rw |-> w, frame |-> idx]]
         /\ exhausted' = (exhausted \/ Frame \subseteq frames)
    BY <1>2 DEF alloc_frame
  <2>1. ~exhausted /\ idx \in Frame /\ idx \notin frames /\ idx \in frames'
    BY FirstFrame
  <2>2. ASSUME NEW d \in Dir, NEW q \in Page, ~(d = o /\ q = p)
        PROVE  page'[d][q] = page[d][q]
    BY <2>2 DEF TypeOK
  <2>3. ASSUME o \in Dir, p \in Page
        PROVE  page'[o][p].frame = idx
    BY <2>3 DEF TypeOK
  <2>4. ASSUME NEW d \in Dir, NEW q \in Page, page[d][q].frame # 0
        PROVE  page[d][q].frame \in frames
    BY <2>1, <2>4 DEF FramesTaken
  <2>5. FramesTaken'
    BY <2>1, <2>2, <2>3, <2>4 DEF FramesTaken
  <2>6. FrameExclusive'
    <3> SUFFICES ASSUME NEW d \in Dir, NEW e \in Dir, NEW q \in Page, NEW r \in Page,
                        page'[d][q].frame = page'[e][r].frame,
                        page'[d][q].frame # 0
                 PROVE  d = e /\ q = r
      BY DEF FrameExclusive
    <3>1. CASE d = o /\ q = p /\ ~(e = o /\ r = p)
      BY <2>1, <2>2, <2>3, <2>4, <3>1
    <3>2. CASE e = o /\ r = p /\ ~(d = o /\ q = p)
      BY <2>1, <2>2, <2>3, <2>4, <3>2
    <3>3. CASE ~(d = o /\ q = p) /\ ~(e = o /\ r = p)
      BY <2>1, <2>2, <3>3 DEF FrameExclusive
    <3> QED BY <3>1, <3>2, <3>3
  <2> QED BY <2>5, <2>6
<1> QED BY <1>1, <1>2

(* free_frame keeps the types of what it writes, and takes no frame but    *)
(* frame 0 out of the bitset: the number it divides by the page size is    *)
(* that of a frame, and there are no more frames than bytes in a page.     *)
LEMMA FreeType ==
    ASSUME TypeOK, NEW o \in Dir, NEW p \in Page, free_frame(o, p)
    PROVE  /\ frames' \subseteq Frame
           /\ page' \in [Dir -> [Page -> Entry]]
           /\ exhausted' \in BOOLEAN
<1>1. CASE page[o][p].frame = 0
  BY <1>1 DEF free_frame, mem, TypeOK
<1>2. CASE page[o][p].frame # 0
  <2>1. /\ frames' = frames \ {page[o][p].frame \div PageSize}
        /\ page' = [page EXCEPT ![o][p].frame = 0]
        /\ exhausted' = exhausted
    BY <1>2 DEF free_frame
  <2>2. page' \in [Dir -> [Page -> Entry]]
    <3>1. page[o] \in [Page -> Entry] /\ page[o][p] \in Entry
      BY DEF TypeOK
    <3>2. [page[o][p] EXCEPT !.frame = 0] \in Entry
      BY <3>1, Constants DEF Entry
    <3>3. [page[o] EXCEPT ![p].frame = 0] \in [Page -> Entry]
      BY <3>1, <3>2
    <3> QED BY <2>1, <3>3 DEF TypeOK
  <2> QED BY <2>1, <2>2 DEF TypeOK
<1> QED BY <1>1, <1>2

LEMMA FreeExclusive ==
    ASSUME TypeOK, FramesTaken, FrameExclusive,
           NEW o \in Dir, NEW p \in Page, free_frame(o, p)
    PROVE  FramesTaken' /\ FrameExclusive'
<1>1. CASE page[o][p].frame = 0
  BY <1>1 DEF free_frame, mem, FramesTaken, FrameExclusive
<1>2. CASE page[o][p].frame # 0
  <2> SUFFICES ASSUME ~exhausted'
               PROVE  FramesTaken' /\ FrameExclusive'
    BY DEF FramesTaken, FrameExclusive
  <2>1. /\ frames' = frames \ {page[o][p].frame \div PageSize}
        /\ page' = [page EXCEPT ![o][p].frame = 0]
        /\ ~exhausted
    BY <1>2 DEF free_frame
  <2>2. page[o][p].frame \div PageSize = 0
    <3>1. page[o][p].frame \in Frame
      BY <1>2, <2>1 DEF FramesTaken, TypeOK
    <3>2. page[o][p].frame \in Nat /\ page[o][p].frame < PageSize
      BY <3>1, Constants DEF Frame
    <3> QED BY <3>2, Division, Constants
  <2>3. ASSUME NEW d \in Dir, NEW q \in Page, page'[d][q].frame # 0
        PROVE  page'[d][q].frame = page[d][q].frame
    BY <2>1, <2>3 DEF TypeOK, Entry
  <2>4. FramesTaken'
    BY <2>1, <2>2, <2>3 DEF FramesTaken
  <2>5. FrameExclusive'
    BY <2>1, <2>3 DEF FrameExclusive
  <2> QED BY <2>4, <2>5
<1> QED BY <1>1, <1>2

(* get_page makes a table that belongs to the directory it is made for.    *)
LEMMA GetPageTables ==
    ASSUME TypeOK, Owners, NEW d \in Dir, NEW p, get_page(d, p)
    PROVE  /\ tables' \in [Dir -> [Index -> Dir \cup {0}]]
           /\ Owners'
<1>1. tables' \in [Dir -> [Index -> Dir \cup {0}]]
  BY DEF get_page, TypeOK
<1>2. Owners'
  <2> SUFFICES ASSUME NEW e \in Dir, NEW t \in Index
               PROVE  /\ tables'[e][t] \in {0, e, kernel_directory}
                      /\ tables'[e][t] = kernel_directory
                            => tables'[kernel_directory][t] = kernel_directory
    BY DEF Owners
  <2>1. kernel_directory \in Dir
    BY Constants DEF kernel_directory, Dir
  <2>2. tables'[e][t] = tables[e][t] \/ (tables'[e][t] = e /\ e = d /\ t = TableOf(p))
    BY DEF get_page, TypeOK
  <2>3. tables[kernel_directory][t] = kernel_directory
           => tables'[kernel_directory][t] = kernel_directory
    BY <2>1 DEF get_page, TypeOK, kernel_directory
  <2> QED BY <2>2, <2>3 DEF Owners
<1> QED BY <1>1, <1>2

(* The kernel's tables are never taken away or replaced.                   *)
KeepTables ==
    \A t \in Index : tables[kernel_directory][t] # 0
                        => tables'[kernel_directory][t] = tables[kernel_directory][t]

(* alloc_frame (get_page (...)).                                           *)
LEMMA MapPageStep ==
    ASSUME TypeOK, Owners, FramesTaken, FrameExclusive,
           NEW d \in Dir, NEW p, NEW w \in BOOLEAN, MapPage(d, p, w)
    PROVE  /\ frames' \subseteq Frame
           /\ page' \in [Dir -> [Page -> Entry]]
           /\ exhausted' \in BOOLEAN
           /\ tables' \in [Dir -> [Index -> Dir \cup {0}]]
           /\ ndirs' = ndirs /\ current_directory' = current_directory
           /\ Owners' /\ FramesTaken' /\ FrameExclusive'
           /\ KeepTables
           /\ TableOf(p) \in Index => tables'[d][TableOf(p)] # 0
<1>1. get_page(d, p) /\ alloc_frame(tables'[d][TableOf(p)], p, w)
  BY DEF MapPage
<1>2. /\ frames' \subseteq Frame
      /\ page' \in [Dir -> [Page -> Entry]]
      /\ exhausted' \in BOOLEAN
  BY <1>1, AllocType
<1>3. FramesTaken' /\ FrameExclusive'
  BY <1>1, AllocExclusive
<1>4. tables' \in [Dir -> [Index -> Dir \cup {0}]] /\ Owners'
  BY <1>1, GetPageTables
<1>5. /\ ndirs' = ndirs /\ current_directory' = current_directory
      /\ KeepTables
      /\ TableOf(p) \in Index => tables'[d][TableOf(p)] # 0
  BY <1>1, Constants, KernelDirectory DEF get_page, TypeOK, KeepTables, Dir
<1> QED BY <1>2, <1>3, <1>4, <1>5

(* The layout: a page number up to the end of the largest heap is one that *)
(* a directory has a table entry for.                                      *)
LEMMA TableRange ==
    ASSUME NEW p \in Page PROVE TableOf(p) \in Index
BY Constants, DivisionBound, Division DEF TableOf, Page, Index

LEMMA HeapPageType ==
    ASSUME NEW b \in Nat
    PROVE  HeapPage(b) \in Nat /\ HeapPage(b) >= KheapStart
BY Constants, Division DEF HeapPage, HeapStart

LEMMA BelowStack == HeapPage(HeapMax) < StackStart - StackSize
<1>1. HeapPage(HeapMax) \in Nat
  BY Constants, HeapPageType
<1>2. TableOf(HeapPage(HeapMax)) < TableOf(StackStart - StackSize)
  BY PagingAssumption
<1>3. CASE StackStart - StackSize \in Nat
  BY <1>1, <1>2, <1>3, Constants, DivisionMonotone, Division DEF TableOf
<1>4. CASE StackStart - StackSize \notin Nat
  <2>1. StackStart - StackSize \in Int /\ StackStart - StackSize < 0
    BY <1>4, Constants
  <2>2. TableOf(StackStart - StackSize) < 0
    BY <2>1, Constants DEF TableOf
  <2> QED BY <1>1, <1>2, <2>2, Constants, Division DEF TableOf
<1> QED BY <1>3, <1>4

LEMMA HeapPageRange ==
    ASSUME NEW p \in Nat, p <= HeapPage(HeapMax)
    PROVE  p \in Page /\ TableOf(p) \in Index
<1>1. p \in Page
  BY BelowStack, Constants, HeapPageType DEF Page
<1> QED BY <1>1, TableRange

LEMMA HeapByteRange ==
    ASSUME NEW b \in 0..HeapMax
    PROVE  HeapPage(b) \in Page /\ TableOf(HeapPage(b)) \in Index
<1>1. b \in Nat /\ b <= HeapMax
  BY Constants
<1>2. HeapPage(b) <= HeapPage(HeapMax)
  <2>1. b \div PageSize <= HeapMax \div PageSize
    BY <1>1, Constants, DivisionMonotone
  <2>2. PICK x \in Nat : x = b \div PageSize
    BY <1>1, Constants, Division
  <2>3. PICK y \in Nat : y = HeapMax \div PageSize
    BY Constants, Division
  <2>4. PICK z \in Nat : z = HeapStart
    BY Constants DEF HeapStart
  <2>5. HeapPage(b) = z + x /\ HeapPage(HeapMax) = z + y
    BY <2>2, <2>3, <2>4, Zenon DEF HeapPage
  <2> QED BY <2>1, <2>2, <2>3, <2>5
<1> QED BY <1>1, <1>2, HeapPageRange, HeapPageType

(* The first pages of the heap, index included, are below its end.         *)
LEMMA InitialHeap ==
    ASSUME NEW p \in Nat, p < KheapStart + KheapInitial
    PROVE  p \in Page /\ TableOf(p) \in Index
<1>1. KheapInitial - IndexPages \in Nat
  <2> SUFFICES ASSUME KheapInitial - IndexPages < 0 PROVE FALSE
    BY Constants
  <2> QED BY Constants
<1>2. HeapMax \div PageSize >= KheapInitial - IndexPages
  BY <1>1, Constants, DivisionBound
<1>3. p <= HeapPage(HeapMax)
  BY <1>2, Constants, Division DEF HeapPage, HeapStart
<1> QED BY <1>3, HeapPageRange

-----------------------------------------------------------------------------
IInv == TypeOK /\ Loops /\ HeapTablesMade /\ Owners /\ FramesTaken /\ FrameExclusive

(* The bytes whose tables HeapTablesMade speaks of are bytes of the        *)
(* largest heap.                                                           *)
LEMMA CoveredRange ==
    ASSUME TypeOK, Loops, NEW b \in Nat, b + PageSize <= Covered
    PROVE  /\ b \in 0..HeapMax
           /\ TableOf(HeapPage(b)) \in Index
<1>1. b \in 0..HeapMax
  BY Constants DEF TypeOK, Loops, Covered
<1> QED BY <1>1, HeapByteRange

(* A step that covers no more, and takes no table away.                    *)
LEMMA TablesStayMade ==
    ASSUME TypeOK, Loops, HeapTablesMade, KeepTables,
           pc # "heap_tables", pc' # "heap_tables",
           Covered \in Nat, Covered' \in Nat, Covered' <= Covered
    PROVE  HeapTablesMade'
<1> SUFFICES ASSUME NEW b \in Nat, b + PageSize <= Covered'
             PROVE  tables'[kernel_directory][TableOf(HeapPage(b))] # 0
  BY DEF HeapTablesMade
<1>1. b + PageSize <= Covered
  BY Constants
<1>2. tables[kernel_directory][TableOf(HeapPage(b))] # 0
  BY <1>1 DEF HeapTablesMade
<1>3. TableOf(HeapPage(b)) \in Index
  BY <1>1, CoveredRange
<1> QED BY <1>2, <1>3, KernelDirectory DEF KeepTables

(* A step that does not touch the bitset or a page table.                  *)
LEMMA MemUnchanged ==
    ASSUME TypeOK, FramesTaken, FrameExclusive, UNCHANGED mem
    PROVE  /\ frames' \subseteq Frame
           /\ page' \in [Dir -> [Page -> Entry]]
           /\ exhausted' \in BOOLEAN
           /\ FramesTaken' /\ FrameExclusive'
BY DEF mem, TypeOK, FramesTaken, FrameExclusive

(* A step that does not touch a page directory.                            *)
LEMMA TablesUnchanged ==
    ASSUME TypeOK, Owners, UNCHANGED tables
    PROVE  tables' \in [Dir -> [Index -> Dir \cup {0}]] /\ Owners' /\ KeepTables
BY DEF TypeOK, Owners, KeepTables

LEMMA InitIInv == Init => IInv
<1> SUFFICES ASSUME Init PROVE IInv
  OBVIOUS
<1> USE Constants
<1>1. page \in [Dir -> [Page -> Entry]]
  BY DEF Init, Entry, Blank
<1>2. tables \in [Dir -> [Index -> Dir \cup {0}]]
  BY DEF Init
<1>3. frames \subseteq Frame
  BY PagingAssumption DEF Init
<1>4. exhausted \in BOOLEAN
  BY DEF Init
<1>5. TypeOK
  <2>1. ndirs \in Dir /\ current_directory \in 1..ndirs
    BY KernelDirectory DEF Init, kernel_directory
  <2>2. heap_size \in HEAP_MIN_SIZE..HeapMax
    BY DEF Init
  <2>3. i \in Nat /\ j \in Nat /\ new_size \in 0..HeapMax
    BY DEF Init
  <2> QED BY <1>1, <1>2, <1>3, <1>4, <2>1, <2>2, <2>3 DEF TypeOK, Init
<1>6. Loops
  BY DEF Init, Loops, kernel_directory
<1>7. HeapTablesMade
  BY DEF Init, HeapTablesMade
<1>8. Owners
  BY KernelDirectory DEF Init, Owners, kernel_directory
<1>9. FramesTaken /\ FrameExclusive
  BY DEF Init, FramesTaken, FrameExclusive, Blank
<1> QED BY <1>5, <1>6, <1>7, <1>8, <1>9 DEF IInv

(* The boot sequence.                                                      *)
LEMMA HeapTablesStep ==
    ASSUME IInv, HeapTables PROVE IInv'
<1> USE Constants
<1>0. /\ pc = "heap_tables" /\ UNCHANGED mem /\ UNCHANGED <<heap_size, j, new_size>>
      /\ TypeOK /\ Loops /\ HeapTablesMade /\ Owners /\ FramesTaken /\ FrameExclusive
  BY DEF HeapTables, IInv
<1>1. CASE i < KheapStart + KheapInitial
  <2>1. get_page(kernel_directory, i) /\ i' = i + 1 /\ pc' = pc
    BY <1>1 DEF HeapTables
  <2>2. tables' \in [Dir -> [Index -> Dir \cup {0}]] /\ Owners'
    BY <1>0, <2>1, GetPageTables, KernelDirectory
  <2>3. TypeOK'
    BY <1>0, <2>1, <2>2, MemUnchanged DEF TypeOK, get_page
  <2>4. Loops'
    BY <1>0, <2>1 DEF Loops, get_page
  <2>5. HeapTablesMade'
    <3>1. i \in Nat /\ i >= KheapStart
      BY <1>0 DEF HeapTablesMade, TypeOK
    <3>2. TableOf(i) \in Index
      BY <1>1, <3>1, InitialHeap
    <3>3. tables'[kernel_directory][TableOf(i)] # 0
      BY <1>0, <2>1, <3>2, KernelDirectory DEF get_page, TypeOK, kernel_directory
    <3>4. ASSUME NEW p \in KheapStart..i
          PROVE  tables'[kernel_directory][TableOf(p)] # 0
      <4>1. CASE p = i
        BY <3>3, <4>1
      <4>2. CASE p # i
        <5>1. tables[kernel_directory][TableOf(p)] # 0
          BY <1>0, <3>1, <4>2 DEF HeapTablesMade
        <5>2. TableOf(p) \in Index
          BY <1>1, <3>1, InitialHeap
        <5> QED BY <1>0, <2>1, <5>1, <5>2, KernelDirectory DEF get_page, TypeOK
      <4> QED BY <4>1, <4>2
    <3> QED BY <1>0, <2>1, <3>1, <3>4 DEF HeapTablesMade
  <2> QED BY <1>0, <2>2, <2>3, <2>4, <2>5, MemUnchanged DEF IInv
<1>2. CASE ~(i < KheapStart + KheapInitial)
  <2>1. UNCHANGED dirs /\ i' = 0 /\ pc' = "identity"
    BY <1>2 DEF HeapTables
  <2>2. tables' \in [Dir -> [Index -> Dir \cup {0}]] /\ Owners'
    BY <1>0, <2>1, TablesUnchanged DEF dirs
  <2>3. TypeOK'
    BY <1>0, <2>1, <2>2, MemUnchanged DEF TypeOK, dirs
  <2>4. Loops'
    BY <1>0, <2>1 DEF Loops, dirs
  <2>5. HeapTablesMade'
    <3> SUFFICES ASSUME NEW b \in Nat, b + PageSize <= Covered'
                 PROVE  tables'[kernel_directory][TableOf(HeapPage(b))] # 0
      BY <2>1 DEF HeapTablesMade
    <3>1. Covered' = (KheapInitial - IndexPages) * PageSize
      BY <1>0, <2>1 DEF Covered, Loops
    <3>2. KheapInitial - IndexPages \in Nat
      <4> SUFFICES ASSUME KheapInitial - IndexPages < 0 PROVE FALSE
        OBVIOUS
      <4> QED OBVIOUS
    <3>3. b < (KheapInitial - IndexPages) * PageSize
      BY <3>1
    <3>4. b \div PageSize < KheapInitial - IndexPages
      BY <3>2, <3>3, DivisionBound
    <3>5. HeapPage(b) \in KheapStart..(i - 1)
      <4>1. i \in Nat /\ b \div PageSize \in Nat
        BY <1>0, Division DEF TypeOK
      <4>2. HeapPage(b) = KheapStart + IndexPages + (b \div PageSize)
        BY DEF HeapPage, HeapStart
      <4> QED BY <1>2, <3>4, <4>1, <4>2
    <3>6. tables[kernel_directory][TableOf(HeapPage(b))] # 0
      BY <1>0, <3>5 DEF HeapTablesMade
    <3> QED BY <2>1, <3>6 DEF dirs
  <2> QED BY <1>0, <2>2, <2>3, <2>4, <2>5, MemUnchanged DEF IInv
<1> QED BY <1>1, <1>2

LEMMA IdentityMappingStep ==
    ASSUME IInv, IdentityMapping PROVE IInv'
<1> USE Constants
<1>0. /\ pc = "identity" /\ UNCHANGED <<heap_size, j, new_size>>
      /\ TypeOK /\ Loops /\ HeapTablesMade /\ Owners /\ FramesTaken /\ FrameExclusive
  BY DEF IdentityMapping, IInv
<1>1. CASE i < IdentityPages
  <2>1. MapPage(kernel_directory, i, FALSE) /\ i' = i + 1 /\ pc' = pc
    BY <1>1 DEF IdentityMapping
  <2>2. /\ frames' \subseteq Frame
        /\ page' \in [Dir -> [Page -> Entry]]
        /\ exhausted' \in BOOLEAN
        /\ tables' \in [Dir -> [Index -> Dir \cup {0}]]
        /\ ndirs' = ndirs /\ current_directory' = current_directory
        /\ Owners' /\ FramesTaken' /\ FrameExclusive'
        /\ KeepTables
    BY <1>0, <2>1, MapPageStep, KernelDirectory
  <2>3. TypeOK'
    BY <1>0, <2>1, <2>2 DEF TypeOK
  <2>4. Loops'
    BY <1>0, <2>1, <2>2 DEF Loops
  <2>5. HeapTablesMade'
    BY <1>0, <2>1, <2>2, TablesStayMade DEF Covered, TypeOK
  <2> QED BY <2>2, <2>3, <2>4, <2>5 DEF IInv
<1>2. CASE ~(i < IdentityPages)
  <2>1. UNCHANGED <<mem, dirs>> /\ i' = KheapStart /\ pc' = "heap_pages"
    BY <1>2 DEF IdentityMapping
  <2>2. tables' \in [Dir -> [Index -> Dir \cup {0}]] /\ Owners' /\ KeepTables
    BY <1>0, <2>1, TablesUnchanged DEF dirs
  <2>3. TypeOK'
    BY <1>0, <2>1, <2>2, MemUnchanged DEF TypeOK, dirs
  <2>4. Loops'
    BY <1>0, <2>1 DEF Loops, dirs
  <2>5. HeapTablesMade'
    BY <1>0, <2>1, <2>2, TablesStayMade DEF Covered, TypeOK
  <2> QED BY <1>0, <2>1, <2>2, <2>3, <2>4, <2>5, MemUnchanged DEF IInv
<1> QED BY <1>1, <1>2

LEMMA HeapPagesStep ==
    ASSUME IInv, HeapPages PROVE IInv'
<1> USE Constants
<1>0. /\ pc = "heap_pages" /\ UNCHANGED <<heap_size, j, new_size>>
      /\ TypeOK /\ Loops /\ HeapTablesMade /\ Owners /\ FramesTaken /\ FrameExclusive
  BY DEF HeapPages, IInv
<1>1. CASE i < KheapStart + KheapInitial
  <2>1. MapPage(kernel_directory, i, FALSE) /\ i' = i + 1 /\ pc' = pc
    <3>1. i \in Nat BY <1>0 DEF TypeOK
    <3>2. ~(i >= KheapStart + KheapInitial) BY <1>1, <3>1
    <3> QED BY <3>2 DEF HeapPages
  <2>2. /\ frames' \subseteq Frame
        /\ page' \in [Dir -> [Page -> Entry]]
        /\ exhausted' \in BOOLEAN
        /\ tables' \in [Dir -> [Index -> Dir \cup {0}]]
        /\ ndirs' = ndirs /\ current_directory' = current_directory
        /\ Owners' /\ FramesTaken' /\ FrameExclusive'
        /\ KeepTables
    BY <1>0, <2>1, MapPageStep, KernelDirectory
  <2>3. TypeOK'
    BY <1>0, <2>1, <2>2 DEF TypeOK
  <2>4. Loops'
    BY <1>0, <2>1, <2>2 DEF Loops
  <2>5. HeapTablesMade'
    BY <1>0, <2>1, <2>2, TablesStayMade DEF Covered, TypeOK
  <2> QED BY <2>2, <2>3, <2>4, <2>5 DEF IInv
<1>2. CASE ~(i < KheapStart + KheapInitial)
  <2>1. /\ ndirs' = ndirs + 1 /\ i' = 0 /\ pc' = "clone"
        /\ UNCHANGED <<mem, tables, current_directory>>
    BY <1>0, <1>2 DEF HeapPages, CloneStart, TypeOK
  <2>2. tables' \in [Dir -> [Index -> Dir \cup {0}]] /\ Owners' /\ KeepTables
    BY <1>0, <2>1, TablesUnchanged
  <2>3. TypeOK'
    BY <1>0, <2>1, <2>2, MemUnchanged DEF TypeOK, Loops, Dir
  <2>4. Loops'
    BY <1>0, <2>1 DEF Loops
  <2>5. HeapTablesMade'
    BY <1>0, <2>1, <2>2, TablesStayMade DEF Covered, TypeOK
  <2> QED BY <1>0, <2>1, <2>2, <2>3, <2>4, <2>5, MemUnchanged DEF IInv
<1> QED BY <1>1, <1>2

(* clone_directory and clone_table.                                        *)
LEMMA CloneTableStep ==
    ASSUME IInv, CloneTable PROVE IInv'
<1> USE Constants
<1>0. /\ pc = "clone" /\ i < NTables /\ UNCHANGED <<mem, ndirs, current_directory, heap_size, new_size>>
      /\ TypeOK /\ Loops /\ HeapTablesMade /\ Owners /\ FramesTaken /\ FrameExclusive
  BY DEF CloneTable, IInv
<1>1. ndirs \in Dir /\ ndirs # kernel_directory /\ i \in Index /\ current_directory \in Dir
  BY <1>0 DEF TypeOK, Loops, Dir, Index, kernel_directory
<1>2. CASE src[i] = 0 \/ src[i] = tables[kernel_directory][i]
  <2>1. /\ tables' = [tables EXCEPT ![ndirs][i] = src[i]]
        /\ i' = i + 1 /\ pc' = pc /\ j' = j
    BY <1>2 DEF CloneTable
  <2>2. src[i] \in {0, kernel_directory} /\ src[i] \in Dir \cup {0}
    BY <1>0, <1>1, <1>2, KernelDirectory DEF Owners, src, TypeOK, kernel_directory
  <2>3. tables' \in [Dir -> [Index -> Dir \cup {0}]] /\ KeepTables
    BY <1>0, <1>1, <2>1, <2>2, KernelDirectory DEF TypeOK, KeepTables
  <2>4. Owners'
    <3> SUFFICES ASSUME NEW d \in Dir, NEW t \in Index
                 PROVE  /\ tables'[d][t] \in {0, d, kernel_directory}
                        /\ tables'[d][t] = kernel_directory
                              => tables'[kernel_directory][t] = kernel_directory
      BY DEF Owners
    <3>1. tables'[kernel_directory][t] = tables[kernel_directory][t]
      BY <1>0, <1>1, <2>1, KernelDirectory DEF TypeOK
    <3>2. CASE d = ndirs /\ t = i
      <4>1. tables'[d][t] = src[i]
        BY <1>0, <1>1, <2>1, <3>2 DEF TypeOK
      <4> QED BY <1>2, <2>2, <3>1, <3>2, <4>1 DEF kernel_directory
    <3>3. CASE ~(d = ndirs /\ t = i)
      <4>1. tables'[d][t] = tables[d][t]
        BY <1>0, <1>1, <2>1, <3>3 DEF TypeOK
      <4> QED BY <1>0, <3>1, <4>1 DEF Owners
    <3> QED BY <3>2, <3>3
  <2>5. TypeOK'
    BY <1>0, <2>1, <2>3, MemUnchanged DEF TypeOK
  <2>6. Loops'
    BY <1>0, <2>1 DEF Loops
  <2>7. HeapTablesMade'
    BY <1>0, <2>1, <2>3, TablesStayMade DEF Covered, TypeOK
  <2> QED BY <1>0, <2>4, <2>5, <2>6, <2>7, MemUnchanged DEF IInv
<1>3. CASE ~(src[i] = 0 \/ src[i] = tables[kernel_directory][i])
  <2>1. pc' = "clone_table" /\ UNCHANGED <<tables, i, j>>
    BY <1>3 DEF CloneTable
  <2>2. tables' \in [Dir -> [Index -> Dir \cup {0}]] /\ Owners' /\ KeepTables
    BY <1>0, <2>1, TablesUnchanged
  <2>3. TypeOK'
    BY <1>0, <2>1, <2>2, MemUnchanged DEF TypeOK
  <2>4. Loops'
    BY <1>0, <1>3, <2>1 DEF Loops, src
  <2>5. HeapTablesMade'
    BY <1>0, <2>1, <2>2, TablesStayMade DEF Covered, TypeOK
  <2> QED BY <1>0, <2>2, <2>3, <2>4, <2>5, MemUnchanged DEF IInv
<1> QED BY <1>2, <1>3

LEMMA CloneEntryStep ==
    ASSUME IInv, CloneEntry PROVE IInv'
<1> USE Constants
<1> DEFINE p == i * PPT + j
           e == page[src[i]][p]
<1>0. /\ pc = "clone_table" /\ j < PPT /\ j' = j + 1
      /\ UNCHANGED <<dirs, heap_size, pc, i, new_size>>
      /\ IF e.frame # 0 THEN UNCHANGED mem ELSE alloc_frame(ndirs, p, e.rw)
      /\ TypeOK /\ Loops /\ HeapTablesMade /\ Owners /\ FramesTaken /\ FrameExclusive
  BY DEF CloneEntry, IInv
<1>1. current_directory \in Dir /\ i \in Index
  BY <1>0 DEF TypeOK, Loops, Dir, Index
<1>2. src[i] \in Dir
  BY <1>0, <1>1 DEF TypeOK, Loops, src
<1>3. p \in Page
  <2>1. i \in Nat /\ j \in Nat /\ i + 1 <= NTables
    BY <1>0 DEF TypeOK, Loops
  <2>2. i * PPT + PPT <= PPT * NTables
    BY <2>1
  <2> QED BY <1>0, <2>1, <2>2 DEF Page
<1>4. e.rw \in BOOLEAN
  BY <1>0, <1>2, <1>3 DEF TypeOK, Entry
<1> HIDE DEF p, e
<1>5. /\ frames' \subseteq Frame
      /\ page' \in [Dir -> [Page -> Entry]]
      /\ exhausted' \in BOOLEAN
      /\ FramesTaken' /\ FrameExclusive'
  BY <1>0, <1>4, MemUnchanged, AllocType, AllocExclusive
<1>6. tables' \in [Dir -> [Index -> Dir \cup {0}]] /\ Owners' /\ KeepTables
  BY <1>0, TablesUnchanged DEF dirs
<1>7. TypeOK'
  BY <1>0, <1>5, <1>6 DEF TypeOK, dirs
<1>8. Loops'
  BY <1>0 DEF Loops, dirs, src
<1>9. HeapTablesMade'
  BY <1>0, <1>6, TablesStayMade DEF Covered, TypeOK
<1> QED BY <1>5, <1>6, <1>7, <1>8, <1>9 DEF IInv

LEMMA CloneTableDoneStep ==
    ASSUME IInv, CloneTableDone PROVE IInv'
<1> USE Constants
<1>0. /\ pc = "clone_table" /\ pc' = "clone" /\ i' = i + 1 /\ j' = 0
      /\ tables' = [tables EXCEPT ![ndirs][i] = ndirs]
      /\ UNCHANGED <<mem, ndirs, current_directory, heap_size, new_size>>
      /\ TypeOK /\ Loops /\ HeapTablesMade /\ Owners /\ FramesTaken /\ FrameExclusive
  BY DEF CloneTableDone, IInv
<1>1. ndirs \in Dir /\ ndirs # kernel_directory /\ i \in Index
  BY <1>0 DEF TypeOK, Loops, Dir, Index, kernel_directory
<1>2. tables' \in [Dir -> [Index -> Dir \cup {0}]] /\ KeepTables
  BY <1>0, <1>1, KernelDirectory DEF TypeOK, KeepTables
<1>3. Owners'
  <2> SUFFICES ASSUME NEW d \in Dir, NEW t \in Index
               PROVE  /\ tables'[d][t] \in {0, d, kernel_directory}
                      /\ tables'[d][t] = kernel_directory
                            => tables'[kernel_directory][t] = kernel_directory
    BY DEF Owners
  <2>1. tables'[kernel_directory][t] = tables[kernel_directory][t]
    BY <1>0, <1>1, KernelDirectory DEF TypeOK
  <2>2. tables'[d][t] = IF d = ndirs /\ t = i THEN ndirs ELSE tables[d][t]
    BY <1>0, <1>1 DEF TypeOK
  <2> QED BY <1>0, <1>1, <2>1, <2>2 DEF Owners
<1>4. TypeOK'
  BY <1>0, <1>2, MemUnchanged DEF TypeOK
<1>5. Loops'
  BY <1>0 DEF Loops
<1>6. HeapTablesMade'
  BY <1>0, <1>2, TablesStayMade DEF Covered, TypeOK
<1> QED BY <1>0, <1>3, <1>4, <1>5, <1>6, MemUnchanged DEF IInv

(* The steps that only start or end a loop, or change the directory.       *)
LEMMA QuietStep ==
    ASSUME IInv, CloneDone \/ Fork \/ SwitchTask \/ MoveStackStart PROVE IInv'
<1> USE Constants
<1>0. /\ UNCHANGED <<mem, tables, heap_size, new_size, j>>
      /\ TypeOK /\ Loops /\ HeapTablesMade /\ Owners /\ FramesTaken /\ FrameExclusive
  BY DEF CloneDone, Fork, SwitchTask, MoveStackStart, IInv, dirs
<1>1. /\ pc \in {"clone", "idle"} /\ pc' \in {"clone", "idle", "move_stack"}
      /\ i' \in Nat
      /\ ndirs' \in Dir /\ current_directory' \in 1..ndirs'
      /\ pc' = "clone" => ndirs' >= 2
  BY <1>0 DEF CloneDone, Fork, SwitchTask, MoveStackStart, CloneStart, TypeOK, dirs, Dir,
              kernel_directory
<1>2. tables' \in [Dir -> [Index -> Dir \cup {0}]] /\ Owners' /\ KeepTables
  BY <1>0, TablesUnchanged
<1>3. TypeOK'
  BY <1>0, <1>1, <1>2, MemUnchanged DEF TypeOK
<1>4. Loops'
  BY <1>0, <1>1 DEF Loops
<1>5. HeapTablesMade'
  BY <1>0, <1>1, <1>2, TablesStayMade DEF Covered, TypeOK
<1> QED BY <1>0, <1>2, <1>3, <1>4, <1>5, MemUnchanged DEF IInv

LEMMA MoveStackStep ==
    ASSUME IInv, MoveStack PROVE IInv'
<1> USE Constants
<1>0. /\ pc = "move_stack" /\ UNCHANGED <<heap_size, j, new_size>>
      /\ TypeOK /\ Loops /\ HeapTablesMade /\ Owners /\ FramesTaken /\ FrameExclusive
  BY DEF MoveStack, IInv
<1>1. CASE i >= StackStart - StackSize
  <2>1. MapPage(current_directory, i, TRUE) /\ i' = i - 1 /\ pc' = pc
    BY <1>1 DEF MoveStack
  <2>2. current_directory \in Dir
    BY <1>0 DEF TypeOK, Dir
  <2>3. i' \in Nat
    BY <1>0, <1>1, <2>1, BelowStack, HeapPageType DEF TypeOK
  <2>4. /\ frames' \subseteq Frame
        /\ page' \in [Dir -> [Page -> Entry]]
        /\ exhausted' \in BOOLEAN
        /\ tables' \in [Dir -> [Index -> Dir \cup {0}]]
        /\ ndirs' = ndirs /\ current_directory' = current_directory
        /\ Owners' /\ FramesTaken' /\ FrameExclusive'
        /\ KeepTables
    BY <1>0, <2>1, <2>2, MapPageStep
  <2>5. TypeOK'
    BY <1>0, <2>1, <2>3, <2>4 DEF TypeOK
  <2>6. Loops'
    BY <1>0, <2>1, <2>4 DEF Loops
  <2>7. HeapTablesMade'
    BY <1>0, <2>1, <2>4, TablesStayMade DEF Covered, TypeOK
  <2> QED BY <2>4, <2>5, <2>6, <2>7 DEF IInv
<1>2. CASE ~(i >= StackStart - StackSize)
  <2>1. UNCHANGED <<mem, dirs>> /\ i' = 0 /\ pc' = "idle"
    BY <1>2 DEF MoveStack
  <2>2. tables' \in [Dir -> [Index -> Dir \cup {0}]] /\ Owners' /\ KeepTables
    BY <1>0, <2>1, TablesUnchanged DEF dirs
  <2>3. TypeOK'
    BY <1>0, <2>1, <2>2, MemUnchanged DEF TypeOK, dirs
  <2>4. Loops'
    BY <1>0, <2>1 DEF Loops, dirs
  <2>5. HeapTablesMade'
    BY <1>0, <2>1, <2>2, TablesStayMade DEF Covered, TypeOK
  <2> QED BY <1>0, <2>1, <2>2, <2>3, <2>4, <2>5, MemUnchanged DEF IInv
<1> QED BY <1>1, <1>2

(* expand and contract.                                                    *)
LEMMA RoundExpandBound ==
    ASSUME NEW n \in Nat PROVE RoundExpand(n) \in Nat /\ RoundExpand(n) >= n
BY Constants, Division DEF RoundExpand

LEMMA ExpandStartStep ==
    ASSUME IInv, NEW n \in ExpandSizes, ExpandStart(n) PROVE IInv'
<1> USE Constants
<1>0. /\ pc = "idle" /\ pc' = "expand" /\ i' = heap_size /\ n > heap_size
      /\ new_size' = RoundExpand(n) /\ RoundExpand(n) <= HeapMax
      /\ UNCHANGED <<mem, dirs, heap_size, j>>
      /\ TypeOK /\ Loops /\ HeapTablesMade /\ Owners /\ FramesTaken /\ FrameExclusive
  BY DEF ExpandStart, IInv
<1>1. RoundExpand(n) \in Nat /\ RoundExpand(n) >= n /\ n \in Nat
  BY RoundExpandBound
<1>2. tables' \in [Dir -> [Index -> Dir \cup {0}]] /\ Owners' /\ KeepTables
  BY <1>0, TablesUnchanged DEF dirs
<1>3. TypeOK'
  BY <1>0, <1>1, <1>2, MemUnchanged DEF TypeOK, dirs
<1>4. Loops'
  BY <1>0, <1>1 DEF Loops, dirs, TypeOK
<1>5. HeapTablesMade'
  BY <1>0, <1>2, TablesStayMade DEF Covered, TypeOK
<1> QED BY <1>0, <1>2, <1>3, <1>4, <1>5, MemUnchanged DEF IInv

LEMMA ExpandStep ==
    ASSUME IInv, Expand PROVE IInv'
<1> USE Constants
<1>0. /\ pc = "expand" /\ j' = j
      /\ TypeOK /\ Loops /\ HeapTablesMade /\ Owners /\ FramesTaken /\ FrameExclusive
  BY DEF Expand, IInv
<1>1. /\ i \in Nat /\ heap_size \in Nat /\ new_size \in Nat
      /\ heap_size <= HeapMax /\ new_size <= HeapMax /\ heap_size >= HEAP_MIN_SIZE
      /\ i >= heap_size /\ i <= new_size + PageSize /\ new_size >= heap_size
  BY <1>0 DEF TypeOK, Loops
<1>2. CASE i < new_size
  <2>1. /\ MapPage(kernel_directory, HeapPage(i), TRUE)
        /\ i' = i + PageSize
        /\ pc' = pc /\ heap_size' = heap_size /\ new_size' = new_size
    BY <1>2 DEF Expand
  <2>2. TableOf(HeapPage(i)) \in Index
    BY <1>1, <1>2, HeapByteRange
  <2>3. /\ frames' \subseteq Frame
        /\ page' \in [Dir -> [Page -> Entry]]
        /\ exhausted' \in BOOLEAN
        /\ tables' \in [Dir -> [Index -> Dir \cup {0}]]
        /\ ndirs' = ndirs /\ current_directory' = current_directory
        /\ Owners' /\ FramesTaken' /\ FrameExclusive'
        /\ KeepTables
        /\ tables'[kernel_directory][TableOf(HeapPage(i))] # 0
    BY <1>0, <2>1, <2>2, MapPageStep, KernelDirectory
  <2>4. TypeOK'
    BY <1>0, <1>1, <2>1, <2>3 DEF TypeOK
  <2>5. Loops'
    BY <1>0, <1>1, <1>2, <2>1 DEF Loops
  <2>6. HeapTablesMade'
    <3> SUFFICES ASSUME NEW b \in Nat, b + PageSize <= Covered'
                 PROVE  tables'[kernel_directory][TableOf(HeapPage(b))] # 0
      BY <1>0, <2>1 DEF HeapTablesMade
    <3>1. b <= i
      BY <1>0, <1>1, <2>1 DEF Covered
    <3>2. ASSUME NEW a \in Nat, a + PageSize <= i
          PROVE  tables'[kernel_directory][TableOf(HeapPage(a))] # 0
      <4>1. a + PageSize <= Covered
        BY <1>0, <3>2 DEF Covered
      <4>2. tables[kernel_directory][TableOf(HeapPage(a))] # 0
        BY <1>0, <4>1 DEF HeapTablesMade
      <4>3. TableOf(HeapPage(a)) \in Index
        BY <1>0, <4>1, CoveredRange
      <4> QED BY <2>3, <4>2, <4>3 DEF KeepTables
    <3>3. CASE b + PageSize <= i
      BY <3>2, <3>3
    <3>4. CASE i < PageSize
      <4>1. b \div PageSize = 0 /\ i \div PageSize = 0
        BY <1>1, <3>1, <3>4, Division
      <4>2. HeapPage(b) = HeapPage(i)
        BY <4>1 DEF HeapPage
      <4> QED BY <2>3, <4>2
    <3>5. CASE b + PageSize > i /\ i >= PageSize
      <4> DEFINE a == i - PageSize
      <4>1. a \in Nat /\ a + PageSize = i /\ a <= b
        BY <1>1, <3>1, <3>5
      <4>2. a \div PageSize <= b \div PageSize /\ b \div PageSize <= i \div PageSize
        BY <1>1, <3>1, <4>1, DivisionMonotone
      <4>3. i \div PageSize = (a \div PageSize) + 1
        BY <4>1, DivisionStep
      <4>4. HeapPage(b) \in {HeapPage(a), HeapPage(i)}
        <5> HIDE DEF a
        <5>1. a \div PageSize \in Nat /\ b \div PageSize \in Nat
          BY <4>1, Division
        <5>2. \/ b \div PageSize = a \div PageSize
              \/ b \div PageSize = i \div PageSize
          BY <4>2, <4>3, <5>1
        <5> QED BY <5>2 DEF HeapPage
      <4>5. tables'[kernel_directory][TableOf(HeapPage(a))] # 0
        BY <3>2, <4>1
      <4> QED BY <2>3, <4>4, <4>5
    <3> QED BY <1>1, <3>3, <3>4, <3>5
  <2> QED BY <2>3, <2>4, <2>5, <2>6 DEF IInv
<1>3. CASE ~(i < new_size)
  <2>1. /\ heap_size' = new_size /\ pc' = "idle" /\ i' = 0 /\ new_size' = 0
        /\ UNCHANGED <<mem, dirs>>
    BY <1>3 DEF Expand
  <2>2. tables' \in [Dir -> [Index -> Dir \cup {0}]] /\ Owners' /\ KeepTables
    BY <1>0, <2>1, TablesUnchanged DEF dirs
  <2>3. TypeOK'
    BY <1>0, <1>1, <2>1, <2>2, MemUnchanged DEF TypeOK, dirs
  <2>4. Loops'
    BY <2>1 DEF Loops
  <2>5. HeapTablesMade'
    <3>1. Covered = i /\ Covered' = new_size
      BY <1>0, <2>1 DEF Covered
    <3> QED BY <1>0, <1>1, <1>3, <2>1, <2>2, <3>1, TablesStayMade
  <2> QED BY <1>0, <2>1, <2>2, <2>3, <2>4, <2>5, MemUnchanged DEF IInv
<1> QED BY <1>2, <1>3

LEMMA RoundContractBound ==
    ASSUME NEW n \in Nat, NEW m \in Nat, n < m, HEAP_MIN_SIZE <= m
    PROVE  RoundContract(n) \in HEAP_MIN_SIZE..m
BY Constants DEF RoundContract

LEMMA ContractStartStep ==
    ASSUME IInv, NEW n \in ContractSizes, ContractStart(n) PROVE IInv'
<1> USE Constants
<1>0. /\ pc = "idle" /\ pc' = "contract" /\ i' = heap_size - PageSize /\ n < heap_size
      /\ new_size' = RoundContract(n)
      /\ UNCHANGED <<mem, dirs, heap_size, j>>
      /\ TypeOK /\ Loops /\ HeapTablesMade /\ Owners /\ FramesTaken /\ FrameExclusive
  BY DEF ContractStart, IInv
<1>1. /\ heap_size \in Nat /\ HEAP_MIN_SIZE <= heap_size /\ heap_size <= HeapMax
      /\ n \in Nat
  BY <1>0 DEF TypeOK
<1>2. RoundContract(n) \in HEAP_MIN_SIZE..heap_size
  BY <1>0, <1>1, RoundContractBound
<1>3. tables' \in [Dir -> [Index -> Dir \cup {0}]] /\ Owners' /\ KeepTables
  BY <1>0, TablesUnchanged DEF dirs
<1>4. i' \in Nat /\ new_size' \in 0..HeapMax
  BY <1>0, <1>1, <1>2
<1>5. TypeOK'
  BY <1>0, <1>3, <1>4, MemUnchanged DEF TypeOK, dirs
<1>6. Loops'
  BY <1>0, <1>1, <1>2 DEF Loops
<1>7. HeapTablesMade'
  BY <1>0, <1>3, TablesStayMade DEF Covered, TypeOK
<1> QED BY <1>0, <1>3, <1>5, <1>6, <1>7, MemUnchanged DEF IInv

(* The page that contract frees is in a table that is there.               *)
LEMMA ContractHasTable ==
    ASSUME IInv, pc = "contract", new_size < i
    PROVE  /\ HeapPage(i) \in Page
           /\ tables[kernel_directory][TableOf(HeapPage(i))] \in Dir
<1> USE Constants
<1>1. TypeOK /\ Loops /\ HeapTablesMade
  BY DEF IInv
<1>2. i \in Nat /\ i + PageSize <= Covered
  BY <1>1 DEF TypeOK, Loops, Covered
<1>3. i \in 0..HeapMax /\ TableOf(HeapPage(i)) \in Index
  BY <1>1, <1>2, CoveredRange
<1>4. tables[kernel_directory][TableOf(HeapPage(i))] # 0
  BY <1>1, <1>2 DEF HeapTablesMade
<1>5. tables[kernel_directory][TableOf(HeapPage(i))] \in Dir \cup {0}
  BY <1>1, <1>3, KernelDirectory DEF TypeOK
<1> QED BY <1>3, <1>4, <1>5, HeapByteRange

LEMMA ContractStep ==
    ASSUME IInv, Contract PROVE IInv'
<1> USE Constants
<1>0. /\ pc = "contract" /\ UNCHANGED <<dirs, j>>
      /\ TypeOK /\ Loops /\ HeapTablesMade /\ Owners /\ FramesTaken /\ FrameExclusive
  BY DEF Contract, IInv
<1>1. /\ i \in Nat /\ heap_size \in Nat /\ new_size \in Nat
      /\ heap_size <= HeapMax /\ new_size >= HEAP_MIN_SIZE /\ new_size <= heap_size
      /\ i + PageSize <= heap_size
  BY <1>0 DEF TypeOK, Loops
<1>2. tables' \in [Dir -> [Index -> Dir \cup {0}]] /\ Owners' /\ KeepTables
  BY <1>0, TablesUnchanged DEF dirs
<1>3. CASE new_size < i
  <2>1. /\ free_frame(tables[kernel_directory][TableOf(HeapPage(i))], HeapPage(i))
        /\ i' = i - PageSize
        /\ pc' = pc /\ heap_size' = heap_size /\ new_size' = new_size
    BY <1>3 DEF Contract
  <2>2. /\ HeapPage(i) \in Page
        /\ tables[kernel_directory][TableOf(HeapPage(i))] \in Dir
    BY <1>0, <1>3, ContractHasTable
  <2>3. /\ frames' \subseteq Frame
        /\ page' \in [Dir -> [Page -> Entry]]
        /\ exhausted' \in BOOLEAN
    BY <1>0, <2>1, <2>2, FreeType
  <2>4. FramesTaken' /\ FrameExclusive'
    BY <1>0, <2>1, <2>2, FreeExclusive
  <2>5. i' \in Nat
    BY <1>1, <1>3, <2>1
  <2>6. TypeOK'
    BY <1>0, <1>2, <2>1, <2>3, <2>5 DEF TypeOK, dirs
  <2>7. Loops'
    BY <1>0, <1>1, <2>1, <2>5 DEF Loops
  <2>8. HeapTablesMade'
    BY <1>0, <1>1, <1>2, <2>1, TablesStayMade DEF Covered
  <2> QED BY <1>2, <2>4, <2>6, <2>7, <2>8 DEF IInv
<1>4. CASE ~(new_size < i)
  <2>1. /\ heap_size' = new_size /\ pc' = "idle" /\ i' = 0 /\ new_size' = 0
        /\ UNCHANGED mem
    BY <1>4 DEF Contract
  <2>2. TypeOK'
    BY <1>0, <1>1, <1>2, <2>1, MemUnchanged DEF TypeOK, dirs
  <2>3. Loops'
    BY <2>1 DEF Loops
  <2>4. HeapTablesMade'
    BY <1>0, <1>1, <1>2, <2>1, TablesStayMade DEF Covered
  <2> QED BY <1>0, <1>2, <2>1, <2>2, <2>3, <2>4, MemUnchanged DEF IInv
<1> QED BY <1>3, <1>4

LEMMA NextIInv == IInv /\ [Next]_vars => IInv'
<1> SUFFICES ASSUME IInv, [Next]_vars PROVE IInv'
  OBVIOUS
<1>1. CASE Boot
  BY <1>1, HeapTablesStep, IdentityMappingStep, HeapPagesStep DEF Boot
<1>2. CASE Clone
  BY <1>2, CloneTableStep, CloneEntryStep, CloneTableDoneStep, QuietStep DEF Clone
<1>3. CASE Heap
  BY <1>3, ExpandStartStep, ExpandStep, ContractStartStep, ContractStep DEF Heap
<1>4. CASE Tasks
  BY <1>4, QuietStep, MoveStackStep DEF Tasks
<1>5. CASE UNCHANGED vars
  BY <1>5 DEF vars, mem, dirs, IInv, TypeOK, Loops, HeapTablesMade, Covered, Owners,
              FramesTaken, FrameExclusive, src
<1> QED BY <1>1, <1>2, <1>3, <1>4, <1>5 DEF Next

LEMMA Invariance == Spec => []IInv
BY InitIInv, NextIInv, PTL DEF Spec

-----------------------------------------------------------------------------
(* The bitset, page tables, directories and heap bounds of paging.c and    *)
(* kheap.c keep their types; in particular expand and contract keep the    *)
(* heap between HEAP_MIN_SIZE and its largest size.                        *)
THEOREM TypeCorrect == Spec => []TypeOK
BY Invariance, PTL DEF IInv

(* alloc_frame never gives out a frame that some page table entry already  *)
(* has, for any amount of memory, although free_frame clears the wrong bit *)
(* of the bitset; frame 0 is the exception.                                *)
THEOREM ExclusiveFrames == Spec => []FrameExclusive
BY Invariance, PTL DEF IInv

(* clone_directory gives every address space its own page tables, apart    *)
(* from those of the kernel's directory, for any number of forks.          *)
THEOREM TablesArePrivate == Spec => []PrivateTables
<1>1. IInv => PrivateTables
  <2> SUFFICES ASSUME IInv, NEW d \in Ready, NEW e \in Ready, NEW t \in Index,
                      d # e, tables[d][t] # 0, tables[d][t] = tables[e][t]
               PROVE  tables[d][t] = tables[kernel_directory][t]
    BY DEF PrivateTables
  <2>1. d \in Dir /\ e \in Dir
    BY Constants DEF IInv, TypeOK, Ready, Dir
  <2> QED BY <2>1 DEF IInv, Owners
<1> QED BY <1>1, Invariance, PTL

(* contract never passes NULL to free_frame: get_page finds a table for    *)
(* every page that it gives up.                                            *)
THEOREM ContractNeverFreesNull == Spec => []ContractFindsTable
<1>1. IInv => ContractFindsTable
  BY ContractHasTable, Constants DEF ContractFindsTable, Dir
<1> QED BY <1>1, Invariance, PTL

-----------------------------------------------------------------------------
(* The identity map of initialise_paging is right and stays so.            *)

Low   == 0..(IdentityPages - 1)
Id(p) == [present |-> TRUE, rw |-> FALSE, frame |-> p]

(* Before and during the identity loop: page p gets frame p because the    *)
(* loop has taken every lower frame and nobody has taken frame p.          *)
Filling ==
    /\ pc = "heap_tables" =>
          \A p \in Low : page[kernel_directory][p] = Blank /\ p \notin frames
    /\ pc = "identity" =>
          /\ i <= IdentityPages
          /\ \A p \in Low :
                /\ p < i => /\ page[kernel_directory][p] = Id(p)
                            /\ tables[kernel_directory][TableOf(p)] = kernel_directory
                            /\ p \in frames
                /\ p >= i => page[kernel_directory][p] = Blank /\ p \notin frames
    /\ pc = "heap_pages" => i >= KheapStart

(* While a directory is cloned: the source is ready, the tables of the     *)
(* identity map met so far are shared, and the one being copied is private.*)
Sharing ==
    /\ pc \in {"clone", "clone_table"} =>
          /\ current_directory < ndirs
          /\ \A p \in Low : TableOf(p) < i => tables[ndirs][TableOf(p)] = kernel_directory
    /\ pc = "clone_table" => src[i] # tables[kernel_directory][i]

IdInv == Filling /\ Sharing /\ IdentityMap

-----------------------------------------------------------------------------
(* The layout: low pages exist, and are below the heap.                    *)
LEMMA LowPages ==
    /\ IdentityPages <= KheapStart
    /\ \A p \in Low : p \in Nat /\ p \in Page /\ TableOf(p) \in Index
<1> USE Constants
<1>1. IdentityPages <= KheapStart
  <2>1. TableOf(IdentityPages - 1) < TableOf(KheapStart)
    BY PagingAssumption
  <2> SUFFICES ASSUME KheapStart <= IdentityPages - 1 PROVE FALSE
    OBVIOUS
  <2>2. TableOf(KheapStart) <= TableOf(IdentityPages - 1)
    BY DivisionMonotone DEF TableOf
  <2>3. TableOf(KheapStart) \in Nat /\ TableOf(IdentityPages - 1) \in Nat
    BY Division DEF TableOf
  <2> QED BY <2>1, <2>2, <2>3
<1>2. ASSUME NEW p \in Low PROVE p \in Nat /\ p \in Page /\ TableOf(p) \in Index
  <2>1. p \in Nat /\ p < KheapStart + KheapInitial
    BY <1>1 DEF Low
  <2> QED BY <2>1, InitialHeap
<1> QED BY <1>1, <1>2

(* A quarter of the bitset is cleared, which covers the low frames.        *)
LEMMA LowFrames ==
    /\ \A p \in Low : p \in Frame
    /\ \A p \in Low : p \in 0..(ZeroedBits - 1)
<1> USE Constants
<1>1. 4 * IdentityPages <= NFrames
  BY PagingAssumption
<1>2. WordBits \in Nat \ {0} /\ NFrames % WordBits = 0
  BY PagingAssumption DEF WordBits
<1>3. (NFrames \div WordBits) * WordBits = NFrames /\ NFrames \div WordBits \in Nat
  BY <1>2
<1>4. 4 * ZeroedBits = NFrames /\ ZeroedBits \in Nat
  BY <1>3 DEF ZeroedBits, WordBits
<1> QED BY <1>1, <1>4 DEF Low, Frame

(* Allocation for a page above the identity map leaves the map alone.      *)
LEMMA MapHighPage ==
    ASSUME TypeOK, NEW d \in Dir, NEW p, p \notin Low, NEW w, MapPage(d, p, w)
    PROVE  /\ \A q \in Low : page'[kernel_directory][q] = page[kernel_directory][q]
           /\ \A e \in Dir : \A t \in Index :
                 tables[e][t] = kernel_directory => tables'[e][t] = kernel_directory
<1>1. ASSUME NEW q \in Low
      PROVE  page'[kernel_directory][q] = page[kernel_directory][q]
  <2> DEFINE o == tables'[d][TableOf(p)]
  <2>1. CASE page[o][p].frame # 0
    BY <2>1 DEF MapPage, alloc_frame, mem
  <2>2. CASE page[o][p].frame = 0
    <3>1. PICK idx : page' = [page EXCEPT ![o][p] =
                                [present |-> TRUE, rw |-> w, frame |-> idx]]
      BY <2>2 DEF MapPage, alloc_frame
    <3>2. q \in Page /\ q # p
      BY LowPages
    <3> HIDE DEF o
    <3> QED BY <3>1, <3>2, KernelDirectory DEF TypeOK
  <2> QED BY <2>1, <2>2
<1>2. ASSUME NEW e \in Dir, NEW t \in Index, tables[e][t] = kernel_directory
      PROVE  tables'[e][t] = kernel_directory
  BY <1>2 DEF MapPage, get_page, TypeOK, kernel_directory
<1> QED BY <1>1, <1>2

(* A step after the boot sequence that keeps the low pages and the tables  *)
(* of the ready directories, and makes no other directory ready.           *)
LEMMA IdentityKept ==
    ASSUME TypeOK, IdentityMap, booted, booted',
           \A q \in Low : page'[kernel_directory][q] = page[kernel_directory][q],
           \A e \in Ready : \A t \in Index :
               tables[e][t] = kernel_directory => tables'[e][t] = kernel_directory,
           Ready' \subseteq Ready
    PROVE  IdentityMap'
<1> SUFFICES ASSUME NEW p \in Low
             PROVE  /\ page'[kernel_directory][p] = Id(p)
                    /\ \A d \in Ready' : tables'[d][TableOf(p)] = kernel_directory
  BY DEF IdentityMap, Low, Id
<1>1. /\ page[kernel_directory][p] = Id(p)
      /\ \A d \in Ready : tables[d][TableOf(p)] = kernel_directory
  BY DEF IdentityMap, Low, Id
<1> QED BY <1>1, LowPages

-----------------------------------------------------------------------------
LEMMA InitIdInv == Init => IdInv
<1> SUFFICES ASSUME Init PROVE IdInv
  OBVIOUS
<1>1. Filling
  BY LowPages, LowFrames, KernelDirectory DEF Init, Filling
<1>2. Sharing /\ IdentityMap
  BY DEF Init, Sharing, IdentityMap, booted
<1> QED BY <1>1, <1>2 DEF IdInv

LEMMA HeapTablesId ==
    ASSUME IInv, IdInv, HeapTables PROVE IdInv'
<1>1. pc = "heap_tables" /\ UNCHANGED mem /\ pc' \in {"heap_tables", "identity"}
  BY DEF HeapTables
<1>2. pc' = "identity" => i' = 0
  BY <1>1 DEF HeapTables
<1>3. Filling'
  BY <1>1, <1>2, LowPages, Constants DEF IdInv, Filling, mem
<1>4. Sharing' /\ IdentityMap'
  BY <1>1 DEF Sharing, IdentityMap, booted
<1> QED BY <1>3, <1>4 DEF IdInv

LEMMA IdentityMappingId ==
    ASSUME IInv, IdInv, IdentityMapping PROVE IdInv'
<1> USE Constants
<1>0. /\ pc = "identity" /\ TypeOK /\ Loops /\ Owners /\ Filling /\ i \in Nat
  BY DEF IdentityMapping, IInv, IdInv, TypeOK
<1>1. CASE i < IdentityPages
  <2>1. MapPage(kernel_directory, i, FALSE) /\ i' = i + 1 /\ pc' = pc
    BY <1>1 DEF IdentityMapping
  <2>2. i \in Low /\ i \in Page /\ TableOf(i) \in Index /\ i \in Frame
    BY <1>0, <1>1, LowPages, LowFrames DEF Low
  <2>3. tables'[kernel_directory][TableOf(i)] = kernel_directory
    BY <1>0, <2>1, <2>2, KernelDirectory DEF MapPage, get_page, TypeOK, Owners, kernel_directory
  <2>4. page[kernel_directory][i] = Blank /\ i \notin frames
    BY <1>0, <2>2 DEF Filling
  <2>5. PICK idx \in first_frame :
          /\ frames' = frames \cup ({idx} \cap Frame)
          /\ page' = [page EXCEPT ![kernel_directory][i] =
                         [present |-> TRUE, rw |-> FALSE, frame |-> idx]]
    BY <2>1, <2>3, <2>4 DEF MapPage, alloc_frame, Blank
  <2>6. idx = i
    <3>1. idx \in Frame /\ idx \notin frames /\ idx <= i
      BY <2>2, <2>4 DEF first_frame
    <3>2. idx \in Nat
      BY <3>1 DEF Frame
    <3>3. ASSUME idx < i PROVE FALSE
      <4>1. idx \in Low
        BY <1>0, <1>1, <3>2, <3>3 DEF Low
      <4> QED BY <1>0, <3>1, <3>3, <4>1 DEF Filling
    <3> QED BY <1>0, <3>1, <3>2, <3>3
  <2>7. Filling'
    <3> SUFFICES ASSUME NEW p \in Low
                 PROVE  /\ p < i + 1 =>
                              /\ page'[kernel_directory][p] = Id(p)
                              /\ tables'[kernel_directory][TableOf(p)] = kernel_directory
                              /\ p \in frames'
                        /\ p >= i + 1 => page'[kernel_directory][p] = Blank /\ p \notin frames'
      BY <1>0, <1>1, <2>1 DEF Filling
    <3>1. p \in Nat /\ p \in Page /\ TableOf(p) \in Index
      BY LowPages
    <3>2. CASE p = i
      <4>1. page'[kernel_directory][p] = Id(p)
        BY <1>0, <2>5, <2>6, <3>1, <3>2, KernelDirectory DEF TypeOK, Id
      <4> QED BY <1>0, <2>2, <2>3, <2>5, <2>6, <3>1, <3>2, <4>1
    <3>3. CASE p # i
      <4>1. page'[kernel_directory][p] = page[kernel_directory][p]
        BY <1>0, <2>5, <3>1, <3>3, KernelDirectory DEF TypeOK
      <4>2. p \in frames' <=> p \in frames
        BY <2>5, <2>6, <3>3
      <4>3. tables[kernel_directory][TableOf(p)] = kernel_directory
              => tables'[kernel_directory][TableOf(p)] = kernel_directory
        BY <1>0, <2>1, <3>1, KernelDirectory DEF MapPage, get_page, TypeOK, kernel_directory
      <4> QED BY <1>0, <3>1, <3>3, <4>1, <4>2, <4>3 DEF Filling
    <3> QED BY <3>2, <3>3
  <2>8. Sharing' /\ IdentityMap'
    BY <1>0, <2>1 DEF Sharing, IdentityMap, booted
  <2> QED BY <2>7, <2>8 DEF IdInv
<1>2. CASE ~(i < IdentityPages)
  <2>1. UNCHANGED <<mem, dirs>> /\ pc' = "heap_pages" /\ i' = KheapStart
    BY <1>2 DEF IdentityMapping
  <2>2. Ready' = {kernel_directory}
    BY <1>0, <2>1 DEF Ready, Loops, dirs, kernel_directory
  <2>3. IdentityMap'
    <3> SUFFICES ASSUME NEW p \in Low
                 PROVE  /\ page[kernel_directory][p] = Id(p)
                        /\ tables[kernel_directory][TableOf(p)] = kernel_directory
      BY <2>1, <2>2 DEF IdentityMap, Low, Id, mem, dirs
    <3>1. p < i
      BY <1>0, <1>2 DEF Low
    <3> QED BY <1>0, <3>1 DEF Filling
  <2> QED BY <2>1, <2>3 DEF IdInv, Filling, Sharing
<1> QED BY <1>1, <1>2

(* A page that the loops after the identity loop map is not a low one.     *)
LEMMA MapStep ==
    ASSUME TypeOK, IdentityMap, booted, booted', pc' = pc,
           pc \notin {"clone", "clone_table"},
           NEW d \in Dir, NEW p, p \notin Low, NEW w, MapPage(d, p, w)
    PROVE  Sharing' /\ IdentityMap'
<1>1. ndirs' = ndirs
  BY DEF MapPage, get_page
<1>2. Ready' = Ready /\ Ready \subseteq Dir
  BY <1>1, Constants DEF Ready, TypeOK, Dir
<1>3. IdentityMap'
  BY <1>2, MapHighPage, IdentityKept
<1> QED BY <1>3 DEF Sharing

LEMMA HeapPagesId ==
    ASSUME IInv, IdInv, HeapPages PROVE IdInv'
<1> USE Constants
<1>0. /\ pc = "heap_pages" /\ TypeOK /\ Loops /\ IdentityMap /\ i \in Nat /\ i >= KheapStart
      /\ booted
  BY DEF HeapPages, IInv, IdInv, TypeOK, Filling, booted
<1>1. CASE i < KheapStart + KheapInitial
  <2>1. MapPage(kernel_directory, i, FALSE) /\ pc' = pc /\ i' = i + 1
    <3>1. ~(i >= KheapStart + KheapInitial) BY <1>0, <1>1
    <3> QED BY <3>1 DEF HeapPages
  <2>2. i \notin Low
    BY <1>0, LowPages DEF Low
  <2>3. Sharing' /\ IdentityMap'
    BY <1>0, <2>1, <2>2, MapStep, KernelDirectory DEF booted
  <2>4. Filling'
    BY <1>0, <2>1 DEF Filling
  <2> QED BY <2>3, <2>4 DEF IdInv
<1>2. CASE ~(i < KheapStart + KheapInitial)
  <2>1. /\ ndirs' = ndirs + 1 /\ pc' = "clone" /\ i' = 0
        /\ UNCHANGED <<mem, tables, current_directory>>
    BY <1>0, <1>2 DEF HeapPages, CloneStart
  <2>2. Ready' = Ready
    BY <1>0, <2>1 DEF Ready, TypeOK, Dir
  <2>3. IdentityMap'
    BY <1>0, <2>1, <2>2, IdentityKept DEF booted, mem
  <2>4. Sharing'
    <3>1. current_directory' < ndirs'
      BY <1>0, <2>1 DEF TypeOK, Dir
    <3>2. ASSUME NEW p \in Low PROVE ~(TableOf(p) < i')
      BY <2>1, LowPages DEF Index
    <3> QED BY <2>1, <3>1, <3>2 DEF Sharing
  <2>5. Filling'
    BY <2>1 DEF Filling
  <2> QED BY <2>3, <2>4, <2>5 DEF IdInv
<1> QED BY <1>1, <1>2

(* The directories that clone_directory's source and kernel are among.     *)
LEMMA LowTablesShared ==
    ASSUME IInv, IdInv, pc \in {"clone", "clone_table"}, NEW p \in Low
    PROVE  /\ src[TableOf(p)] = kernel_directory
           /\ tables[kernel_directory][TableOf(p)] = kernel_directory
<1>1. current_directory \in Ready /\ kernel_directory \in Ready
  BY Constants DEF IInv, TypeOK, Loops, IdInv, Sharing, Ready, Dir, kernel_directory
<1> QED BY <1>1 DEF IdInv, IdentityMap, booted, Low, src

LEMMA CloneTableId ==
    ASSUME IInv, IdInv, CloneTable PROVE IdInv'
<1> USE Constants
<1>0. /\ pc = "clone" /\ i < NTables
      /\ UNCHANGED <<mem, ndirs, current_directory>>
      /\ pc' \in {"clone", "clone_table"}
      /\ TypeOK /\ Loops /\ Sharing /\ IdentityMap /\ booted
  BY DEF CloneTable, IInv, IdInv, booted
<1>1. ndirs \in Dir /\ i \in Index /\ i \in Nat /\ ndirs \notin Ready /\ Ready' = Ready
      /\ Ready \subseteq Dir
  BY <1>0 DEF TypeOK, Loops, Dir, Index, Ready
<1>2. \A e \in Ready : \A t \in Index : tables'[e][t] = tables[e][t]
  BY <1>0, <1>1 DEF CloneTable, TypeOK
<1>3. IdentityMap'
  BY <1>0, <1>1, <1>2, IdentityKept DEF booted, mem
<1>4. CASE src[i] = 0 \/ src[i] = tables[kernel_directory][i]
  <2>1. /\ tables' = [tables EXCEPT ![ndirs][i] = src[i]] /\ i' = i + 1 /\ pc' = pc
    BY <1>4 DEF CloneTable
  <2>2. ASSUME NEW p \in Low, TableOf(p) < i'
        PROVE  tables'[ndirs][TableOf(p)] = kernel_directory
    <3>1. TableOf(p) \in Index /\ TableOf(p) \in Nat
      BY LowPages DEF Index
    <3>2. CASE TableOf(p) = i
      BY <1>0, <1>1, <2>1, <3>2, LowTablesShared DEF TypeOK
    <3>3. CASE TableOf(p) # i
      <4>1. TableOf(p) < i
        BY <1>1, <2>1, <2>2, <3>1, <3>3
      <4> QED BY <1>0, <1>1, <2>1, <3>1, <3>3, <4>1 DEF TypeOK, Sharing
    <3> QED BY <3>2, <3>3
  <2>3. Sharing'
    BY <1>0, <2>1, <2>2 DEF Sharing
  <2> QED BY <1>0, <1>3, <2>1, <2>3 DEF IdInv, Filling
<1>5. CASE ~(src[i] = 0 \/ src[i] = tables[kernel_directory][i])
  <2>1. pc' = "clone_table" /\ UNCHANGED <<tables, i>>
    BY <1>5 DEF CloneTable
  <2>2. Sharing'
    BY <1>0, <1>5, <2>1 DEF Sharing, src
  <2> QED BY <1>3, <2>1, <2>2 DEF IdInv, Filling
<1> QED BY <1>4, <1>5

LEMMA CloneEntryId ==
    ASSUME IInv, IdInv, CloneEntry PROVE IdInv'
<1> USE Constants
<1> DEFINE p == i * PPT + j
           e == page[src[i]][p]
<1>0. /\ pc = "clone_table" /\ UNCHANGED <<dirs, pc, i>>
      /\ IF e.frame # 0 THEN UNCHANGED mem ELSE alloc_frame(ndirs, p, e.rw)
      /\ TypeOK /\ Loops /\ Sharing /\ IdentityMap /\ booted
  BY DEF CloneEntry, IInv, IdInv, booted
<1> HIDE DEF p, e
<1>1. ndirs # kernel_directory /\ ndirs \in Dir
  BY <1>0 DEF Loops, TypeOK, Dir, kernel_directory
<1>2. page'[kernel_directory] = page[kernel_directory]
  BY <1>0, <1>1, KernelDirectory DEF alloc_frame, mem, TypeOK
<1>3. Ready' = Ready
  BY <1>0 DEF Ready, dirs
<1>4. IdentityMap'
  BY <1>0, <1>2, <1>3, IdentityKept DEF booted, dirs
<1>5. Sharing'
  BY <1>0 DEF Sharing, dirs, src
<1> QED BY <1>0, <1>4, <1>5 DEF IdInv, Filling

LEMMA CloneTableDoneId ==
    ASSUME IInv, IdInv, CloneTableDone PROVE IdInv'
<1> USE Constants
<1>0. /\ pc = "clone_table" /\ pc' = "clone" /\ i' = i + 1
      /\ tables' = [tables EXCEPT ![ndirs][i] = ndirs]
      /\ UNCHANGED <<mem, ndirs, current_directory>>
      /\ TypeOK /\ Loops /\ Sharing /\ IdentityMap /\ booted
  BY DEF CloneTableDone, IInv, IdInv, booted
<1>1. /\ ndirs \in Dir /\ i \in Nat /\ ndirs \notin Ready /\ Ready' = Ready
      /\ Ready \subseteq Dir
  BY <1>0 DEF TypeOK, Loops, Dir, Ready
<1>2. \A f \in Ready : \A t \in Index : tables'[f][t] = tables[f][t]
  BY <1>0, <1>1 DEF TypeOK
<1>3. IdentityMap'
  BY <1>0, <1>1, <1>2, IdentityKept DEF booted, mem
<1>4. ASSUME NEW p \in Low, TableOf(p) < i'
      PROVE  tables'[ndirs][TableOf(p)] = kernel_directory
  <2>1. TableOf(p) \in Index /\ TableOf(p) \in Nat
    BY LowPages DEF Index
  <2>2. TableOf(p) # i
    BY <1>0, LowTablesShared DEF Sharing
  <2>3. TableOf(p) < i
    BY <1>0, <1>1, <1>4, <2>1, <2>2
  <2> QED BY <1>0, <1>1, <2>1, <2>2, <2>3 DEF TypeOK, Sharing
<1>5. Sharing'
  BY <1>0, <1>4 DEF Sharing
<1> QED BY <1>0, <1>3, <1>5 DEF IdInv, Filling

(* clone_directory is done: the clone becomes ready.                       *)
LEMMA CloneDoneId ==
    ASSUME IInv, IdInv, CloneDone PROVE IdInv'
<1> USE Constants
<1>0. /\ pc = "clone" /\ i = NTables /\ pc' = "idle"
      /\ UNCHANGED <<mem, tables, ndirs>>
      /\ TypeOK /\ Sharing /\ IdentityMap /\ booted
  BY DEF CloneDone, IInv, IdInv, booted
<1>1. Ready' = Ready \cup {ndirs}
  BY <1>0 DEF Ready, TypeOK, Dir
<1>2. IdentityMap'
  <2> SUFFICES ASSUME NEW p \in Low
               PROVE  /\ page'[kernel_directory][p] = Id(p)
                      /\ \A d \in Ready' : tables'[d][TableOf(p)] = kernel_directory
    BY DEF IdentityMap, Low, Id
  <2>1. /\ page[kernel_directory][p] = Id(p)
        /\ \A d \in Ready : tables[d][TableOf(p)] = kernel_directory
    BY <1>0 DEF IdentityMap, Low, Id
  <2>2. tables[ndirs][TableOf(p)] = kernel_directory
    BY <1>0, LowPages DEF Sharing, Index
  <2> QED BY <1>0, <1>1, <2>1, <2>2 DEF mem
<1> QED BY <1>0, <1>2 DEF IdInv, Filling, Sharing

LEMMA ForkId ==
    ASSUME IInv, IdInv, Fork PROVE IdInv'
<1> USE Constants
<1>0. /\ pc = "idle" /\ pc' = "clone" /\ i' = 0 /\ ndirs' = ndirs + 1
      /\ UNCHANGED <<mem, tables, current_directory>>
      /\ TypeOK /\ IdentityMap /\ booted
  BY DEF Fork, CloneStart, IInv, IdInv, booted
<1>1. Ready' = Ready
  BY <1>0 DEF Ready, TypeOK, Dir
<1>2. IdentityMap'
  BY <1>0, <1>1, IdentityKept DEF booted, mem
<1>3. Sharing'
  <2>1. current_directory' < ndirs'
    BY <1>0 DEF TypeOK, Dir
  <2>2. ASSUME NEW p \in Low PROVE ~(TableOf(p) < i')
    BY <1>0, LowPages DEF Index
  <2> QED BY <1>0, <2>1, <2>2 DEF Sharing
<1> QED BY <1>0, <1>2, <1>3 DEF IdInv, Filling

(* The other steps that leave the bitset, tables and directories alone.    *)
LEMMA QuietId ==
    ASSUME IInv, IdInv,
           \/ SwitchTask \/ MoveStackStart
           \/ \E n \in ExpandSizes : ExpandStart(n)
           \/ \E n \in ContractSizes : ContractStart(n)
    PROVE  IdInv'
<1>0. /\ pc = "idle" /\ pc' \in {"idle", "move_stack", "expand", "contract"}
      /\ UNCHANGED <<mem, tables, ndirs>>
      /\ TypeOK /\ IdentityMap /\ booted
  BY DEF SwitchTask, MoveStackStart, ExpandStart, ContractStart, dirs, IInv, IdInv, booted
<1>1. Ready' = Ready
  BY <1>0 DEF Ready
<1>2. IdentityMap'
  BY <1>0, <1>1, IdentityKept DEF booted, mem
<1> QED BY <1>0, <1>2 DEF IdInv, Filling, Sharing

LEMMA MoveStackId ==
    ASSUME IInv, IdInv, MoveStack PROVE IdInv'
<1> USE Constants
<1>0. /\ pc = "move_stack" /\ TypeOK /\ IdentityMap /\ booted
  BY DEF MoveStack, IInv, IdInv, booted
<1>1. CASE i >= StackStart - StackSize
  <2>1. MapPage(current_directory, i, TRUE) /\ pc' = pc
    BY <1>1 DEF MoveStack
  <2>2. current_directory \in Dir /\ i \in Nat
    BY <1>0 DEF TypeOK, Dir
  <2>3. i \notin Low
    <3>1. HeapPage(HeapMax) \in Nat /\ HeapPage(HeapMax) >= KheapStart
      BY HeapPageType
    <3> QED BY <1>1, <2>2, <3>1, BelowStack, LowPages DEF Low
  <2>4. Sharing' /\ IdentityMap'
    BY <1>0, <2>1, <2>2, <2>3, MapStep DEF booted
  <2> QED BY <1>0, <2>1, <2>4 DEF IdInv, Filling
<1>2. CASE ~(i >= StackStart - StackSize)
  <2>1. UNCHANGED <<mem, dirs>> /\ pc' = "idle"
    BY <1>2 DEF MoveStack
  <2>2. Ready' = Ready
    BY <1>0, <2>1 DEF Ready, dirs
  <2>3. IdentityMap'
    BY <1>0, <2>1, <2>2, IdentityKept DEF booted, mem, dirs
  <2> QED BY <2>1, <2>3 DEF IdInv, Filling, Sharing
<1> QED BY <1>1, <1>2

LEMMA ExpandId ==
    ASSUME IInv, IdInv, Expand PROVE IdInv'
<1> USE Constants
<1>0. /\ pc = "expand" /\ TypeOK /\ IdentityMap /\ booted /\ i \in Nat
  BY DEF Expand, IInv, IdInv, booted, TypeOK
<1>1. CASE i < new_size
  <2>1. MapPage(kernel_directory, HeapPage(i), TRUE) /\ pc' = pc
    BY <1>1 DEF Expand
  <2>2. HeapPage(i) \notin Low
    BY <1>0, HeapPageType, LowPages DEF Low
  <2>3. Sharing' /\ IdentityMap'
    BY <1>0, <2>1, <2>2, KernelDirectory, MapStep DEF booted
  <2> QED BY <1>0, <2>1, <2>3 DEF IdInv, Filling
<1>2. CASE ~(i < new_size)
  <2>1. UNCHANGED <<mem, dirs>> /\ pc' = "idle"
    BY <1>2 DEF Expand
  <2>2. Ready' = Ready
    BY <1>0, <2>1 DEF Ready, dirs
  <2>3. IdentityMap'
    BY <1>0, <2>1, <2>2, IdentityKept DEF booted, mem, dirs
  <2> QED BY <2>1, <2>3 DEF IdInv, Filling, Sharing
<1> QED BY <1>1, <1>2

LEMMA ContractId ==
    ASSUME IInv, IdInv, Contract PROVE IdInv'
<1> USE Constants
<1>0. /\ pc = "contract" /\ TypeOK /\ IdentityMap /\ booted /\ i \in Nat /\ UNCHANGED dirs
      /\ pc' \in {"contract", "idle"}
  BY DEF Contract, IInv, IdInv, booted, TypeOK
<1>1. Ready' = Ready
  BY <1>0 DEF Ready, dirs
<1>2. ASSUME NEW q \in Low PROVE page'[kernel_directory][q] = page[kernel_directory][q]
  <2>1. CASE new_size < i
    <3> DEFINE o == tables[kernel_directory][TableOf(HeapPage(i))]
    <3>1. free_frame(o, HeapPage(i))
      BY <2>1 DEF Contract
    <3>2. o \in Dir /\ HeapPage(i) \in Page
      BY <1>0, <2>1, ContractHasTable
    <3>3. HeapPage(i) # q /\ q \in Page
      BY <1>0, HeapPageType, LowPages DEF Low
    <3> HIDE DEF o
    <3> QED BY <1>0, <3>1, <3>2, <3>3, KernelDirectory DEF free_frame, mem, TypeOK
  <2>2. CASE ~(new_size < i)
    BY <2>2 DEF Contract, mem
  <2> QED BY <2>1, <2>2
<1>3. IdentityMap'
  BY <1>0, <1>1, <1>2, IdentityKept DEF booted, dirs
<1> QED BY <1>0, <1>3 DEF IdInv, Filling, Sharing

LEMMA NextIdInv == IInv /\ IdInv /\ [Next]_vars => IdInv'
<1> SUFFICES ASSUME IInv, IdInv, [Next]_vars PROVE IdInv'
  OBVIOUS
<1>1. CASE Boot
  BY <1>1, HeapTablesId, IdentityMappingId, HeapPagesId DEF Boot
<1>2. CASE Clone
  BY <1>2, CloneTableId, CloneEntryId, CloneTableDoneId, CloneDoneId DEF Clone
<1>3. CASE Heap
  BY <1>3, QuietId, ExpandId, ContractId DEF Heap
<1>4. CASE Tasks
  BY <1>4, QuietId, MoveStackId, ForkId DEF Tasks
<1>5. CASE UNCHANGED vars
  BY <1>5 DEF vars, mem, dirs, IdInv, Filling, Sharing, IdentityMap, Ready, booted, src
<1> QED BY <1>1, <1>2, <1>3, <1>4, <1>5 DEF Next

(* Once initialise_paging has filled the identity map, every low page is   *)
(* the frame of its own number in every directory that clone_directory has *)
(* finished, whatever the part of the bitset that was not cleared held and *)
(* whatever expand, contract, move_stack and fork do.                      *)
THEOREM IdentityMapHolds == Spec => []IdentityMap
<1>1. Spec => []IdInv
  BY InitIdInv, NextIdInv, Invariance, PTL DEF Spec
<1> QED BY <1>1, PTL DEF IdInv
=============================================================================
