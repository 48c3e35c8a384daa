-------------------------- MODULE PagingHeap_proofs --------------------------
(***************************************************************************)
(* Proofs about the pages of the kernel heap: that they are mapped, in the *)
(* kernel's directory and in every clone of it, and that the frames of the *)
(* first of them ascend, with nobody else's frame between them.  They rest *)
(* on the invariants of Paging_proofs.                                     *)
(***************************************************************************)
EXTENDS Paging_proofs

InBoot == {"heap_tables", "identity", "heap_pages"}

(* The heap's pages that initialise_paging maps.                           *)
Initial == KheapStart..(KheapStart + KheapInitial - 1)

(* An entry that has a frame is present; free_frame leaves present set.    *)
PresentFrames ==
    \A d \in Dir : \A p \in Page : page[d][p].frame # 0 => page[d][p].present

(* How far the heap is mapped.  As for its tables, the bound is a page     *)
(* below its end: expand may leave out the last page of a size that it     *)
(* does not round, and maps it when it is next called.                     *)
HeapMapped ==
    /\ pc = "heap_pages" =>
          \A p \in KheapStart..(i - 1) : Mapped(kernel_directory, p)
    /\ pc \notin InBoot =>
          \A b \in Nat : b + PageSize <= Covered => Mapped(kernel_directory, HeapPage(b))

(* The tables made before the first clone are the kernel's, everywhere.    *)
FirstShared ==
    /\ pc # "heap_tables" =>
          \A t \in FirstTables : \A d \in Ready : tables[d][t] = kernel_directory
    /\ pc \in {"clone", "clone_table"} =>
          \A t \in FirstTables : t < i => tables[ndirs][t] = kernel_directory

HeapInv == PresentFrames /\ HeapMapped /\ FirstShared

FrameOf(p) == page[kernel_directory][p].frame

(* The frames between a and b are marked, and those of no page outside     *)
(* p..q of the kernel's tables.                                            *)
Gap(p, q, a, b) ==
    \A f \in (a + 1)..(b - 1) :
        /\ f \in frames
        /\ \A d \in Dir : \A x \in Page :
              page[d][x].frame = f => d = kernel_directory /\ x \in p..q

InOrder(S) ==
    \A p, q \in S : p < q =>
        FrameOf(p) < FrameOf(q) /\ Gap(p, q, FrameOf(p), FrameOf(q))

(* The pages that have a frame are low ones, or in S.                      *)
Given(S) ==
    \A d \in Dir : \A x \in Page :
        page[d][x].frame # 0 => d = kernel_directory /\ x \in Low \cup S

(* Frames below r's are taken.                                             *)
Packed(r) ==
    FrameOf(r) \in Frame \ Low /\ \A f \in Frame : f <= FrameOf(r) => f \in frames

(* How the order comes about: first_frame takes the lowest free frame, no  *)
(* frame is freed while initialise_paging runs, and the identity map has   *)
(* taken the lowest ones.                                                  *)
HeapFilling ==
    /\ pc \in {"heap_tables", "identity"} => Given({})
    /\ pc = "heap_pages" =>
          /\ i <= KheapStart + KheapInitial
          /\ Low \subseteq frames
          /\ Given(KheapStart..(i - 1))
          /\ ~exhausted =>
                /\ \A r \in KheapStart..(i - 1) : Packed(r)
                /\ InOrder(KheapStart..(i - 1))
    /\ HeapInOrder

-----------------------------------------------------------------------------
(* No step takes the present bit or a table of the kernel away.            *)
KeepPresent ==
    \A d \in Dir : \A p \in Page : page[d][p].present => page'[d][p].present

LEMMA AllocPresent ==
    ASSUME TypeOK, PresentFrames, NEW o, NEW p, NEW w \in BOOLEAN, alloc_frame(o, p, w)
    PROVE  /\ PresentFrames' /\ KeepPresent
           /\ o \in Dir /\ p \in Page => page'[o][p].present
<1>1. CASE page[o][p].frame # 0
  BY <1>1 DEF alloc_frame, mem, PresentFrames, KeepPresent
<1>2. CASE page[o][p].frame = 0
  <2>1. PICK idx \in first_frame :
          page' = [page EXCEPT ![o][p] = [present |-> TRUE, rw |-> w, frame |-> idx]]
    BY <1>2 DEF alloc_frame
  <2>2. ASSUME NEW d \in Dir, NEW q \in Page
        PROVE  page'[d][q] = IF d = o /\ q = p
                             THEN [present |-> TRUE, rw |-> w, frame |-> idx]
                             ELSE page[d][q]
    BY <2>1 DEF TypeOK
  <2> QED BY <2>2 DEF PresentFrames, KeepPresent
<1> QED BY <1>1, <1>2

LEMMA FreePresent ==
    ASSUME TypeOK, PresentFrames, NEW o \in Dir, NEW p \in Page, free_frame(o, p)
    PROVE  PresentFrames' /\ KeepPresent
<1>1. CASE page[o][p].frame = 0
  BY <1>1 DEF free_frame, mem, PresentFrames, KeepPresent
<1>2. CASE page[o][p].frame # 0
  <2>1. page' = [page EXCEPT ![o][p].frame = 0]
    BY <1>2 DEF free_frame
  <2>2. ASSUME NEW d \in Dir, NEW q \in Page
        PROVE  /\ page'[d][q].present <=> page[d][q].present
               /\ page'[d][q].frame \in {0, page[d][q].frame}
    <3>1. page[d][q] \in Entry /\ page \in [Dir -> [Page -> Entry]]
      BY DEF TypeOK
    <3>2. page'[d][q] = IF d = o /\ q = p THEN [page[d][q] EXCEPT !.frame = 0]
                        ELSE page[d][q]
      BY <2>1, <3>1
    <3> QED BY <3>1, <3>2 DEF Entry
  <2> QED BY <2>2 DEF PresentFrames, KeepPresent
<1> QED BY <1>1, <1>2

LEMMA MapPresent ==
    ASSUME IInv, PresentFrames, NEW d \in Dir, NEW p, NEW w \in BOOLEAN, MapPage(d, p, w)
    PROVE  /\ PresentFrames' /\ KeepPresent /\ KeepTables
           /\ p \in Page => Mapped(d, p)'
<1>1. TypeOK /\ Owners /\ FramesTaken /\ FrameExclusive
  BY DEF IInv
<1>2. alloc_frame(tables'[d][TableOf(p)], p, w)
  BY DEF MapPage
<1>3. /\ KeepTables /\ tables' \in [Dir -> [Index -> Dir \cup {0}]]
      /\ TableOf(p) \in Index => tables'[d][TableOf(p)] # 0
  BY <1>1, MapPageStep
<1>4. /\ PresentFrames' /\ KeepPresent
      /\ tables'[d][TableOf(p)] \in Dir /\ p \in Page
            => page'[tables'[d][TableOf(p)]][p].present
  BY <1>1, <1>2, AllocPresent
<1>5. p \in Page => tables'[d][TableOf(p)] \in Dir
  BY <1>3, TableRange
<1> QED BY <1>3, <1>4, <1>5, Constants DEF Mapped, Dir

(* Steps that leave the page tables alone.                                 *)
LEMMA MemPresent ==
    ASSUME PresentFrames, UNCHANGED mem
    PROVE  PresentFrames' /\ KeepPresent
BY DEF PresentFrames, KeepPresent, mem

LEMMA StepPresent ==
    ASSUME IInv, PresentFrames, [Next]_vars
    PROVE  PresentFrames' /\ KeepPresent /\ KeepTables
<1> USE Constants
<1>0. TypeOK /\ Loops /\ Owners
  BY DEF IInv
<1>1. CASE HeapTables
  <2>1. UNCHANGED mem
    BY <1>1 DEF HeapTables
  <2>2. KeepTables
    BY <1>0, <1>1, KernelDirectory DEF HeapTables, get_page, dirs, KeepTables, TypeOK
  <2> QED BY <2>1, <2>2, MemPresent
<1>2. CASE IdentityMapping \/ HeapPages \/ MoveStack \/ Expand
  <2>1. current_directory \in Dir /\ TRUE \in BOOLEAN /\ FALSE \in BOOLEAN
    BY <1>0 DEF TypeOK, Dir
  <2>2. \/ \E d \in Dir, w \in BOOLEAN : \E p : MapPage(d, p, w)
        \/ UNCHANGED <<mem, tables>>
    BY <1>2, <2>1, KernelDirectory DEF IdentityMapping, HeapPages, MoveStack, Expand, dirs
  <2>3. CASE \E d \in Dir, w \in BOOLEAN : \E p : MapPage(d, p, w)
    BY <2>3, MapPresent
  <2>4. CASE UNCHANGED <<mem, tables>>
    BY <2>4, MemPresent DEF KeepTables
  <2> QED BY <2>2, <2>3, <2>4
<1>3. CASE CloneTable \/ CloneTableDone
  <2>1. UNCHANGED mem /\ ndirs \in Dir /\ ndirs # kernel_directory
    BY <1>0, <1>3 DEF CloneTable, CloneTableDone, TypeOK, Loops, kernel_directory
  <2>2. tables'[kernel_directory] = tables[kernel_directory]
    BY <1>0, <1>3, <2>1, KernelDirectory DEF CloneTable, CloneTableDone, TypeOK
  <2> QED BY <2>1, <2>2, MemPresent DEF KeepTables
<1>4. CASE CloneEntry
  <2> DEFINE p == i * PPT + j
             e == page[src[i]][p]
  <2>1. /\ IF e.frame # 0 THEN UNCHANGED mem ELSE alloc_frame(ndirs, p, e.rw)
        /\ UNCHANGED dirs /\ pc = "clone_table" /\ j < PPT
    BY <1>4 DEF CloneEntry
  <2>2. e.rw \in BOOLEAN
    <3>1. current_directory \in Dir /\ i \in Index /\ i \in Nat /\ j \in Nat
      BY <1>0, <2>1 DEF TypeOK, Loops, Dir, Index
    <3>2. src[i] \in Dir
      BY <1>0, <2>1, <3>1 DEF TypeOK, Loops, src
    <3>3. i * PPT + PPT <= PPT * NTables
      BY <3>1 DEF Index
    <3>4. p \in Page
      BY <2>1, <3>1, <3>3 DEF Page
    <3> QED BY <1>0, <3>2, <3>4 DEF TypeOK, Entry
  <2> HIDE DEF p, e
  <2>3. PresentFrames' /\ KeepPresent
    BY <1>0, <2>1, <2>2, AllocPresent, MemPresent
  <2> QED BY <2>1, <2>3 DEF KeepTables, dirs
<1>5. CASE Contract
  <2>1. UNCHANGED dirs
    BY <1>5 DEF Contract
  <2>2. CASE new_size < i
    <3>1. free_frame(tables[kernel_directory][TableOf(HeapPage(i))], HeapPage(i))
      BY <1>5, <2>2 DEF Contract
    <3>2. /\ HeapPage(i) \in Page
          /\ tables[kernel_directory][TableOf(HeapPage(i))] \in Dir
      BY <1>5, <2>2, ContractHasTable DEF Contract
    <3> QED BY <1>0, <2>1, <3>1, <3>2, FreePresent DEF KeepTables, dirs
  <2>3. CASE ~(new_size < i)
    BY <1>5, <2>1, <2>3, MemPresent DEF Contract, KeepTables, dirs
  <2> QED BY <2>2, <2>3
<1>6. CASE \/ CloneDone \/ Fork \/ SwitchTask \/ MoveStackStart \/ UNCHANGED vars
           \/ \E n \in ExpandSizes : ExpandStart(n)
           \/ \E n \in ContractSizes : ContractStart(n)
  <2>1. UNCHANGED <<mem, tables>>
    BY <1>6 DEF CloneDone, Fork, SwitchTask, MoveStackStart, ExpandStart, ContractStart,
       vars, dirs
  <2> QED BY <2>1, MemPresent DEF KeepTables
<1> QED BY <1>1, <1>2, <1>3, <1>4, <1>5, <1>6 DEF Next, Boot, Clone, Heap, Tasks

(* What is mapped in the kernel's directory stays mapped there.            *)
LEMMA MappedStays ==
    ASSUME IInv, KeepPresent, KeepTables, NEW p \in Page, Mapped(kernel_directory, p)
    PROVE  Mapped(kernel_directory, p)'
<1> DEFINE o == tables[kernel_directory][TableOf(p)]
<1>1. o # 0 /\ page[o][p].present
  BY DEF Mapped
<1>2. TableOf(p) \in Index
  BY TableRange
<1>3. o \in Dir
  BY <1>1, <1>2, KernelDirectory DEF IInv, TypeOK
<1>4. tables'[kernel_directory][TableOf(p)] = o
  BY <1>1, <1>2 DEF KeepTables
<1> HIDE DEF o
<1>5. page'[o][p].present
  BY <1>1, <1>3 DEF KeepPresent
<1> QED BY <1>1, <1>4, <1>5 DEF Mapped

(* A step that covers no more of the heap.                                 *)
LEMMA HeapStaysMapped ==
    ASSUME IInv, HeapMapped, KeepPresent, KeepTables, pc \notin InBoot, pc' \notin InBoot,
           Covered \in Nat, Covered' \in Nat, Covered' <= Covered
    PROVE  HeapMapped'
<1> SUFFICES ASSUME NEW b \in Nat, b + PageSize <= Covered'
             PROVE  Mapped(kernel_directory, HeapPage(b))'
  BY DEF HeapMapped, InBoot, HeapPage
<1>1. b + PageSize <= Covered
  BY Constants
<1>2. Mapped(kernel_directory, HeapPage(b))
  BY <1>1 DEF HeapMapped
<1>3. HeapPage(b) \in Page
  BY <1>1, CoveredRange, HeapByteRange DEF IInv
<1> QED BY <1>2, <1>3, MappedStays

LEMMA HeapPagesMapped ==
    ASSUME IInv, IdInv, HeapInv, HeapPages PROVE HeapMapped'
<1> USE Constants
<1>0. /\ pc = "heap_pages" /\ TypeOK /\ Loops /\ PresentFrames /\ HeapMapped
      /\ i \in Nat /\ i >= KheapStart /\ heap_size' = heap_size
  BY DEF HeapPages, IInv, IdInv, HeapInv, Filling, TypeOK
<1>1. KeepPresent /\ KeepTables
  BY <1>0, StepPresent DEF Next, Boot
<1>2. ASSUME NEW p \in KheapStart..(i - 1), p < KheapStart + KheapInitial
      PROVE  Mapped(kernel_directory, p)'
  <2>1. p \in Page
    BY <1>2, InitialHeap
  <2>2. Mapped(kernel_directory, p)
    BY <1>0 DEF HeapMapped
  <2> QED BY <1>1, <2>1, <2>2, MappedStays
<1>3. CASE i < KheapStart + KheapInitial
  <2>1. MapPage(kernel_directory, i, FALSE) /\ pc' = pc /\ i' = i + 1
    <3>1. ~(i >= KheapStart + KheapInitial) BY <1>0, <1>3
    <3> QED BY <3>1 DEF HeapPages
  <2>2. i \in Page
    BY <1>0, <1>3, InitialHeap
  <2>3. PICK h \in Page : h = i
    BY <2>2
  <2>4. Mapped(kernel_directory, h)'
    <3>1. FALSE \in BOOLEAN /\ MapPage(kernel_directory, h, FALSE)
      BY <2>1, <2>3
    <3> QED BY <1>0, <3>1, MapPresent, KernelDirectory
  <2>5. ASSUME NEW p \in KheapStart..i PROVE Mapped(kernel_directory, p)'
    <3>1. CASE p = i
      BY <2>3, <2>4, <3>1
    <3>2. CASE p # i
      <4>1. p \in KheapStart..(i - 1) /\ p < KheapStart + KheapInitial
        BY <1>0, <1>3, <3>2
      <4> QED BY <1>2, <4>1
    <3> QED BY <3>1, <3>2
  <2> QED BY <1>0, <2>1, <2>5 DEF HeapMapped, InBoot
<1>4. CASE ~(i < KheapStart + KheapInitial)
  <2>1. pc' = "clone"
    BY <1>0, <1>4 DEF HeapPages, CloneStart
  <2> SUFFICES ASSUME NEW b \in Nat, b + PageSize <= Covered'
               PROVE  Mapped(kernel_directory, HeapPage(b))'
    BY <2>1 DEF HeapMapped, InBoot
  <2>2. Covered' = (KheapInitial - IndexPages) * PageSize
    BY <1>0, <2>1 DEF Covered, Loops
  <2>3. KheapInitial - IndexPages \in Nat
    <3> SUFFICES ASSUME KheapInitial - IndexPages < 0 PROVE FALSE
      OBVIOUS
    <3> QED OBVIOUS
  <2>4. b < (KheapInitial - IndexPages) * PageSize
    BY <2>2
  <2>5. b \div PageSize < KheapInitial - IndexPages /\ b \div PageSize \in Nat
    BY <2>3, <2>4, DivisionBound, Division
  <2>6. HeapPage(b) \in KheapStart..(i - 1) /\ HeapPage(b) < KheapStart + KheapInitial
    <3>1. HeapPage(b) = KheapStart + IndexPages + (b \div PageSize)
      BY DEF HeapPage, HeapStart
    <3> QED BY <1>0, <1>4, <2>5, <3>1
  <2> QED BY <1>2, <2>6
<1> QED BY <1>3, <1>4

LEMMA ExpandMapped ==
    ASSUME IInv, HeapInv, Expand PROVE HeapMapped'
<1> USE Constants
<1>0. /\ pc = "expand" /\ TypeOK /\ Loops /\ PresentFrames /\ HeapMapped
      /\ i \in Nat /\ heap_size \in Nat /\ new_size \in Nat /\ new_size <= HeapMax
      /\ i >= heap_size
  BY DEF Expand, IInv, HeapInv, TypeOK, Loops
<1>1. KeepPresent /\ KeepTables
  BY <1>0, StepPresent DEF Next, Heap
<1>2. CASE i < new_size
  <2>1. MapPage(kernel_directory, HeapPage(i), TRUE) /\ i' = i + PageSize /\ pc' = pc
    BY <1>2 DEF Expand
  <2>2. HeapPage(i) \in Page
    BY <1>0, <1>2, HeapByteRange
  <2>3. PICK h \in Page : h = HeapPage(i)
    BY <2>2
  <2>9. Mapped(kernel_directory, h)'
    <3>1. TRUE \in BOOLEAN /\ MapPage(kernel_directory, h, TRUE)
      BY <2>1, <2>3
    <3> QED BY <1>0, <3>1, MapPresent, KernelDirectory
  <2> SUFFICES ASSUME NEW b \in Nat, b + PageSize <= Covered'
               PROVE  Mapped(kernel_directory, HeapPage(b))'
    BY <1>0, <2>1 DEF HeapMapped, InBoot
  <2>4. b <= i
    BY <1>0, <2>1 DEF Covered
  <2>5. ASSUME NEW a \in Nat, a + PageSize <= i
        PROVE  Mapped(kernel_directory, HeapPage(a))'
    <3>1. a + PageSize <= Covered
      BY <1>0, <2>5 DEF Covered
    <3>2. Mapped(kernel_directory, HeapPage(a))
      BY <1>0, <3>1 DEF HeapMapped, InBoot
    <3>3. HeapPage(a) \in Page
      BY <1>0, <3>1, CoveredRange, HeapByteRange
    <3> QED BY <1>1, <3>2, <3>3, MappedStays
  <2>6. CASE b + PageSize <= i
    BY <2>5, <2>6
  <2>7. CASE b + PageSize > i /\ i < PageSize
    <3>1. b \div PageSize = 0 /\ i \div PageSize = 0
      BY <1>0, <2>4, <2>7, Division
    <3>2. HeapPage(b) = HeapPage(i)
      BY <3>1 DEF HeapPage
    <3> QED BY <2>3, <2>9, <3>2
  <2>8. CASE b + PageSize > i /\ i >= PageSize
    <3>1. PICK a \in Nat : a = i - PageSize /\ a + PageSize = i /\ a <= b
      BY <1>0, <2>4, <2>8
    <3>2. a \div PageSize <= b \div PageSize /\ b \div PageSize <= i \div PageSize
      BY <1>0, <2>4, <3>1, DivisionMonotone
    <3>3. i \div PageSize = (a \div PageSize) + 1
      BY <3>1, DivisionStep
    <3>4. a \div PageSize \in Nat /\ b \div PageSize \in Nat
      BY <3>1, Division
    <3>5. \/ b \div PageSize = a \div PageSize
          \/ b \div PageSize = i \div PageSize
      BY <3>2, <3>3, <3>4
    <3>6. HeapPage(b) \in {HeapPage(a), HeapPage(i)}
      BY <3>5 DEF HeapPage
    <3> QED BY <2>3, <2>5, <2>9, <3>1, <3>6
  <2> QED BY <1>0, <2>6, <2>7, <2>8
<1>3. CASE ~(i < new_size)
  <2>1. heap_size' = new_size /\ pc' = "idle"
    BY <1>3 DEF Expand
  <2>2. Covered = i /\ Covered' = new_size
    BY <1>0, <2>1 DEF Covered
  <2> QED BY <1>0, <1>1, <1>3, <2>1, <2>2, HeapStaysMapped DEF InBoot
<1> QED BY <1>2, <1>3

LEMMA NextHeapMapped ==
    ASSUME IInv, IdInv, HeapInv, [Next]_vars PROVE HeapMapped'
<1> USE Constants
<1>0. /\ TypeOK /\ Loops /\ PresentFrames /\ HeapMapped
      /\ heap_size \in Nat /\ KeepPresent /\ KeepTables
  BY StepPresent DEF IInv, HeapInv, TypeOK
<1>1. CASE HeapTables
  BY <1>1 DEF HeapTables, HeapMapped, InBoot
<1>2. CASE IdentityMapping
  <2>1. pc' = "identity" \/ (pc' = "heap_pages" /\ i' = KheapStart)
    BY <1>2 DEF IdentityMapping
  <2> QED BY <2>1 DEF HeapMapped, InBoot
<1>3. CASE HeapPages
  BY <1>3, HeapPagesMapped
<1>4. CASE Expand
  BY <1>4, ExpandMapped
<1>5. CASE Contract
  <2>1. /\ pc = "contract" /\ pc' \in {"contract", "idle"}
        /\ heap_size' \in Nat /\ heap_size' <= heap_size
    BY <1>0, <1>5 DEF Contract, Loops, TypeOK
  <2> QED BY <1>0, <2>1, HeapStaysMapped DEF Covered, InBoot
<1>6. CASE \/ Clone \/ Fork \/ SwitchTask \/ MoveStackStart \/ MoveStack
           \/ \E n \in ExpandSizes : ExpandStart(n)
           \/ \E n \in ContractSizes : ContractStart(n)
  <2>1. /\ pc \notin InBoot /\ pc' \notin InBoot /\ pc # "expand"
        /\ heap_size' = heap_size
        /\ pc' = "expand" => i' = heap_size
    BY <1>6 DEF Clone, CloneTable, CloneEntry, CloneTableDone, CloneDone, Fork, CloneStart,
       SwitchTask, MoveStackStart, MoveStack, ExpandStart, ContractStart, InBoot
  <2> QED BY <1>0, <2>1, HeapStaysMapped DEF Covered
<1>7. CASE UNCHANGED vars
  BY <1>0, <1>7 DEF vars, mem, dirs, HeapMapped, Covered, Mapped
<1> QED BY <1>1, <1>2, <1>3, <1>4, <1>5, <1>6, <1>7 DEF Next, Boot, Heap, Tasks

-----------------------------------------------------------------------------
(* The tables that the first loop of initialise_paging makes.              *)
LEMMA FirstIndex ==
    ASSUME NEW t \in FirstTables PROVE t \in Index /\ t \in Nat
<1>1. PICK p \in KheapStart..(KheapStart + KheapInitial - 1) : t = TableOf(p)
  BY DEF FirstTables
<1>2. p \in Nat /\ p < KheapStart + KheapInitial
  BY Constants
<1> QED BY <1>1, <1>2, InitialHeap, Constants DEF Index

(* A directory's shared table is not replaced.                             *)
KeepShared ==
    \A d \in Ready : \A t \in Index :
        tables[d][t] = kernel_directory => tables'[d][t] = kernel_directory

(* A step outside clone_directory.                                         *)
LEMMA FirstKept ==
    ASSUME FirstShared, KeepShared, Ready' \subseteq Ready, pc # "heap_tables",
           pc' \notin {"clone", "clone_table"} \/ i' = 0
    PROVE  FirstShared'
<1>1. ASSUME NEW t \in FirstTables, NEW d \in Ready' PROVE tables'[d][t] = kernel_directory
  BY <1>1, FirstIndex DEF FirstShared, KeepShared
<1>2. ASSUME NEW t \in FirstTables, i' = 0 PROVE ~(t < i')
  BY <1>2, FirstIndex
<1> QED BY <1>1, <1>2 DEF FirstShared, FirstTables

LEMMA GetPageShared ==
    ASSUME IInv, NEW d \in Dir, NEW p, get_page(d, p) PROVE KeepShared
<1>1. Ready \subseteq Dir
  BY Constants DEF IInv, TypeOK, Ready, Dir
<1> QED BY <1>1, Constants DEF get_page, IInv, TypeOK, KeepShared, kernel_directory

LEMMA HeapTablesFirst ==
    ASSUME IInv, HeapTables PROVE FirstShared'
<1> USE Constants
<1>0. pc = "heap_tables" /\ TypeOK /\ Loops /\ Owners /\ HeapTablesMade
  BY DEF HeapTables, IInv
<1>1. CASE i < KheapStart + KheapInitial
  BY <1>0, <1>1 DEF HeapTables, FirstShared
<1>2. CASE ~(i < KheapStart + KheapInitial)
  <2>1. UNCHANGED dirs /\ pc' = "identity"
    BY <1>2 DEF HeapTables
  <2>2. Ready' = {kernel_directory}
    BY <1>0, <2>1 DEF Ready, Loops, dirs, kernel_directory
  <2>3. ASSUME NEW t \in FirstTables PROVE tables[kernel_directory][t] = kernel_directory
    <3>1. PICK p \in KheapStart..(KheapStart + KheapInitial - 1) : t = TableOf(p)
      BY DEF FirstTables
    <3>2. p \in KheapStart..(i - 1)
      BY <1>0, <1>2 DEF TypeOK
    <3>3. tables[kernel_directory][t] # 0
      BY <1>0, <3>1, <3>2 DEF HeapTablesMade
    <3> QED BY <1>0, <3>3, FirstIndex, KernelDirectory DEF Owners
  <2> QED BY <2>1, <2>2, <2>3 DEF FirstShared, dirs, FirstTables
<1> QED BY <1>1, <1>2

(* clone_directory shares them, because its source does.                   *)
LEMMA SourceShares ==
    ASSUME IInv, IdInv, FirstShared, pc \in {"clone", "clone_table"}, NEW t \in FirstTables
    PROVE  src[t] = kernel_directory /\ tables[kernel_directory][t] = kernel_directory
<1>1. current_directory \in Ready /\ kernel_directory \in Ready
  BY Constants DEF IInv, TypeOK, Loops, IdInv, Sharing, Ready, Dir, kernel_directory
<1> QED BY <1>1 DEF FirstShared, src

LEMMA CloneFirst ==
    ASSUME IInv, IdInv, FirstShared, CloneTable \/ CloneEntry \/ CloneTableDone
    PROVE  FirstShared'
<1> USE Constants
<1>0. /\ pc \in {"clone", "clone_table"} /\ pc' \in {"clone", "clone_table"}
      /\ ndirs' = ndirs /\ TypeOK /\ Loops /\ Sharing
  BY DEF CloneTable, CloneEntry, CloneTableDone, dirs, IInv, IdInv
<1>1. ndirs \in Dir /\ i \in Nat /\ ndirs \notin Ready /\ Ready' = Ready /\ Ready \subseteq Dir
  BY <1>0 DEF TypeOK, Loops, Dir, Ready
<1>2. \/ /\ tables' = [tables EXCEPT ![ndirs][i] = src[i]] /\ i' = i + 1
      \/ tables' = tables /\ i' = i
      \/ /\ tables' = [tables EXCEPT ![ndirs][i] = ndirs] /\ i' = i + 1
         /\ pc = "clone_table"
  BY DEF CloneTable, CloneEntry, CloneTableDone, dirs
<1>3. ASSUME NEW d \in Ready, NEW t \in FirstTables
      PROVE  tables'[d][t] = kernel_directory
  <2>1. tables[d][t] = kernel_directory
    BY <1>0 DEF FirstShared
  <2>2. tables'[d][t] = tables[d][t]
    BY <1>0, <1>1, <1>2 DEF TypeOK
  <2> QED BY <2>1, <2>2
<1>4. ASSUME NEW t \in FirstTables, t < i' PROVE tables'[ndirs][t] = kernel_directory
  <2>1. t \in Index /\ t \in Nat
    BY FirstIndex
  <2>2. CASE t = i
    <3>1. src[i] = kernel_directory /\ tables[kernel_directory][i] = kernel_directory
      BY <1>0, <2>2, SourceShares
    <3>2. pc # "clone_table"
      BY <1>0, <3>1 DEF Sharing
    <3>3. tables' = [tables EXCEPT ![ndirs][i] = src[i]]
      BY <1>2, <1>4, <2>1, <2>2, <3>2
    <3> QED BY <1>0, <1>1, <2>1, <2>2, <3>1, <3>3 DEF TypeOK
  <2>3. CASE t # i
    <3>1. t < i
      BY <1>1, <1>2, <1>4, <2>1, <2>3
    <3>2. tables[ndirs][t] = kernel_directory
      BY <1>0, <3>1 DEF FirstShared
    <3>3. tables'[ndirs][t] = tables[ndirs][t]
      BY <1>0, <1>1, <1>2, <2>1, <2>3 DEF TypeOK
    <3> QED BY <3>2, <3>3
  <2> QED BY <2>2, <2>3
<1> QED BY <1>0, <1>1, <1>3, <1>4 DEF FirstShared, FirstTables

LEMMA CloneDoneFirst ==
    ASSUME IInv, FirstShared, CloneDone PROVE FirstShared'
<1>0. pc = "clone" /\ i = NTables /\ pc' = "idle" /\ UNCHANGED <<tables, ndirs>> /\ TypeOK
  BY DEF CloneDone, IInv
<1>1. Ready' = Ready \cup {ndirs}
  BY <1>0, Constants DEF Ready, TypeOK, Dir
<1>2. ASSUME NEW t \in FirstTables PROVE t < i
  BY <1>0, FirstIndex, Constants DEF Index
<1> QED BY <1>0, <1>1, <1>2 DEF FirstShared, FirstTables

LEMMA NextFirst ==
    ASSUME IInv, IdInv, FirstShared, [Next]_vars PROVE FirstShared'
<1> USE Constants
<1>0. TypeOK /\ Loops /\ current_directory \in Dir
  BY DEF IInv, TypeOK, Dir
<1>1. CASE HeapTables
  BY <1>1, HeapTablesFirst
<1>2. CASE CloneTable \/ CloneEntry \/ CloneTableDone
  BY <1>2, CloneFirst
<1>3. CASE CloneDone
  BY <1>3, CloneDoneFirst
<1>4. CASE IdentityMapping \/ HeapPages \/ MoveStack \/ Expand
  <2>1. /\ pc \in {"identity", "heap_pages", "move_stack", "expand"}
        /\ pc' \notin {"clone", "clone_table"} \/ i' = 0
    BY <1>4 DEF IdentityMapping, HeapPages, CloneStart, MoveStack, Expand
  <2>2. Ready' = Ready
    <3>1. \/ ndirs' = ndirs /\ pc' \notin {"clone", "clone_table"}
          \/ ndirs' = ndirs + 1 /\ pc' = "clone"
      BY <1>4 DEF IdentityMapping, HeapPages, CloneStart, MoveStack, Expand, MapPage,
         get_page, dirs
    <3> QED BY <1>0, <2>1, <3>1 DEF Ready, TypeOK, Dir
  <2>3. \/ UNCHANGED tables
        \/ \E d \in Dir : \E p : get_page(d, p)
    BY <1>0, <1>4, KernelDirectory DEF IdentityMapping, HeapPages, MoveStack, Expand,
       MapPage, dirs
  <2>4. KeepShared
    BY <2>3, GetPageShared DEF KeepShared
  <2> QED BY <2>1, <2>2, <2>4, FirstKept
<1>5. CASE \/ Fork \/ SwitchTask \/ MoveStackStart \/ Contract
           \/ \E n \in ExpandSizes : ExpandStart(n)
           \/ \E n \in ContractSizes : ContractStart(n)
  <2>1. /\ pc \in {"idle", "contract"} /\ UNCHANGED tables
        /\ pc' \notin {"clone", "clone_table"} \/ i' = 0
    BY <1>5 DEF Fork, SwitchTask, MoveStackStart, Contract, ExpandStart, ContractStart,
       CloneStart, dirs
  <2>2. Ready' = Ready
    BY <1>0, <1>5 DEF Fork, SwitchTask, MoveStackStart, Contract, ExpandStart,
       ContractStart, CloneStart, dirs, Ready, TypeOK, Dir
  <2> QED BY <2>1, <2>2, FirstKept DEF KeepShared
<1>6. CASE UNCHANGED vars
  BY <1>6 DEF vars, dirs, FirstShared, Ready
<1> QED BY <1>1, <1>2, <1>3, <1>4, <1>5, <1>6 DEF Next, Boot, Clone, Heap, Tasks

-----------------------------------------------------------------------------
LEMMA InitHeapInv == Init => HeapInv
<1> SUFFICES ASSUME Init PROVE HeapInv
  OBVIOUS
<1>1. PresentFrames
  BY DEF Init, PresentFrames, Blank
<1>2. HeapMapped /\ FirstShared
  BY DEF Init, HeapMapped, FirstShared, InBoot
<1> QED BY <1>1, <1>2 DEF HeapInv

LEMMA NextHeapInv == IInv /\ IdInv /\ HeapInv /\ [Next]_vars => HeapInv'
BY StepPresent, NextHeapMapped, NextFirst DEF HeapInv

LEMMA IdInvariance == Spec => []IdInv
BY InitIdInv, NextIdInv, Invariance, PTL DEF Spec

LEMMA HeapInvariance == Spec => [](IInv /\ HeapInv)
BY InitHeapInv, NextHeapInv, Invariance, IdInvariance, PTL DEF Spec

(* A page of a heap that ends on a page boundary holds a whole page below  *)
(* that end.                                                               *)
LEMMA WholePages ==
    ASSUME IInv, pc = "idle", heap_size % PageSize = 0, NEW p \in HeapPagesNow
    PROVE  \E b \in Nat : p = HeapPage(b) /\ b + PageSize <= Covered
<1> USE Constants
<1>1. heap_size \in Nat /\ heap_size <= HeapMax /\ Covered = heap_size
  BY DEF IInv, TypeOK, Covered
<1>2. PICK c \in 0..(heap_size - 1) : p = HeapPage(c)
  BY DEF HeapPagesNow
<1>3. PICK q \in Nat : q = c \div PageSize
  BY <1>1, <1>2, Division
<1>4. PICK h \in Nat : h = heap_size \div PageSize
  BY <1>1, Division
<1>5. heap_size = h * PageSize
  BY <1>1, <1>4
<1>6. c \in Nat /\ c < h * PageSize
  BY <1>1, <1>2, <1>5
<1>7. q < h
  BY <1>3, <1>6, DivisionBound
<1>8. q * PageSize + PageSize <= h * PageSize /\ q * PageSize \in Nat
  BY <1>7
<1>9. (q * PageSize) \div PageSize = q
  OBVIOUS
<1>10. HeapPage(q * PageSize) = p
  BY <1>2, <1>3, <1>9 DEF HeapPage
<1> QED BY <1>1, <1>5, <1>8, <1>10

(* expand and contract leave every page of the heap mapped whenever it     *)
(* ends on a page boundary, although expand rounds only odd sizes: for     *)
(* every sequence of sizes.                                                *)
THEOREM HeapIsBacked == Spec => []HeapBacked
<1>1. IInv /\ HeapInv => HeapBacked
  BY WholePages DEF HeapBacked, HeapInv, HeapMapped, InBoot
<1> QED BY <1>1, HeapInvariance, PTL

(* A heap page whose table was there before the first clone_directory is   *)
(* mapped in whatever directory the CPU uses, after any number of forks    *)
(* and task switches.                                                      *)
THEOREM HeapIsReachable == Spec => []HeapReachable
<1>1. IInv /\ HeapInv => HeapReachable
  <2> SUFFICES ASSUME IInv, HeapInv, pc = "idle", heap_size % PageSize = 0,
                      NEW p \in HeapPagesNow, TableOf(p) \in FirstTables
               PROVE  Mapped(current_directory, p)
    BY DEF HeapReachable
  <2>1. Mapped(kernel_directory, p)
    BY WholePages DEF HeapInv, HeapMapped, InBoot
  <2>2. current_directory \in Ready /\ kernel_directory \in Ready
    BY Constants DEF IInv, TypeOK, Ready, Dir, kernel_directory
  <2>3. tables[current_directory][TableOf(p)] = tables[kernel_directory][TableOf(p)]
    BY <2>2 DEF HeapInv, FirstShared
  <2> QED BY <2>1, <2>3 DEF Mapped
<1> QED BY <1>1, HeapInvariance, PTL

-----------------------------------------------------------------------------
(* The layout of the heap's first pages.                                   *)
LEMMA AboveFirst ==
    ASSUME NEW b \in Nat, b >= HEAP_MIN_SIZE
    PROVE  HeapPage(b) \notin FirstHeapPages
<1> USE Constants
<1>1. HEAP_MIN_SIZE % PageSize = 0
  BY PagingAssumption
<1>2. PICK m \in Nat : m = HEAP_MIN_SIZE \div PageSize
  BY Division
<1>3. HEAP_MIN_SIZE = m * PageSize
  BY <1>1, <1>2
<1>4. b \div PageSize >= m /\ b \div PageSize \in Nat
  BY <1>3, DivisionBound, Division
<1>5. HEAP_MIN_SIZE - 1 \in Nat /\ HEAP_MIN_SIZE - 1 < m * PageSize
  BY <1>3
<1>6. (HEAP_MIN_SIZE - 1) \div PageSize < m /\ (HEAP_MIN_SIZE - 1) \div PageSize \in Nat
  BY <1>5, DivisionBound, Division
<1> QED BY <1>4, <1>6 DEF HeapPage, HeapStart, FirstHeapPages

LEMMA InOrderPart ==
    ASSUME NEW T, InOrder(T), NEW S, S \subseteq T
    PROVE  InOrder(S)
BY Zenon DEF InOrder

LEMMA OrderOfHeap ==
    HeapInOrder <=> (~exhausted /\ pc \notin InBoot => InOrder(FirstHeapPages))
BY DEF HeapInOrder, InOrder, Gap, FrameOf, InBoot

LEMMA FirstInitial ==
    /\ FirstHeapPages \subseteq Initial
    /\ \A p \in Initial : p \in Nat /\ p \in Page /\ p \notin Low
    /\ HeapPage(HEAP_MIN_SIZE - 1) \in Nat
<1> USE Constants
<1>1. KheapInitial - IndexPages \in Nat
  <2> SUFFICES ASSUME KheapInitial - IndexPages < 0 PROVE FALSE
    OBVIOUS
  <2> QED OBVIOUS
<1>2. HEAP_MIN_SIZE - 1 \in Nat /\ HEAP_MIN_SIZE - 1 < (KheapInitial - IndexPages) * PageSize
  OBVIOUS
<1>3. /\ (HEAP_MIN_SIZE - 1) \div PageSize < KheapInitial - IndexPages
      /\ (HEAP_MIN_SIZE - 1) \div PageSize \in Nat
  BY <1>1, <1>2, DivisionBound, Division
<1>4. /\ HeapPage(HEAP_MIN_SIZE - 1) \in Nat
      /\ HeapPage(HEAP_MIN_SIZE - 1) < KheapStart + KheapInitial
  BY <1>3 DEF HeapPage, HeapStart
<1>5. ASSUME NEW p \in Initial PROVE p \in Nat /\ p \in Page /\ p \notin Low
  <2>1. p \in Nat /\ p < KheapStart + KheapInitial /\ p >= KheapStart
    BY DEF Initial
  <2> QED BY <2>1, InitialHeap, LowPages DEF Low
<1> QED BY <1>4, <1>5 DEF FirstHeapPages, Initial

(* What a step does to the bitset while memory lasts: it frees no frame    *)
(* but frame 0, and a page gets a frame that was not marked.               *)
FreshFrames ==
    ~exhausted' =>
        /\ ~exhausted
        /\ frames \ {0} \subseteq frames'
        /\ \A d \in Dir : \A x \in Page :
              \/ page'[d][x].frame \in {0, page[d][x].frame}
              \/ page'[d][x].frame \notin frames

LEMMA AllocFresh ==
    ASSUME TypeOK, NEW o, NEW p, NEW w, alloc_frame(o, p, w)
    PROVE  FreshFrames
<1>1. CASE page[o][p].frame # 0
  BY <1>1 DEF alloc_frame, mem, FreshFrames
<1>2. CASE page[o][p].frame = 0
  <2> SUFFICES ASSUME ~exhausted' PROVE FreshFrames
    BY DEF FreshFrames
  <2>1. PICK idx \in first_frame :
          /\ frames' = frames \cup ({idx} \cap Frame)
          /\ page' = [page EXCEPT ![o][p] = [present |-> TRUE, rw |-> w, frame |-> idx]]
          /\ exhausted' = (exhausted \/ Frame \subseteq frames)
    BY <1>2 DEF alloc_frame
  <2>2. ~exhausted /\ idx \notin frames
    BY <2>1, FirstFrame
  <2>3. ASSUME NEW d \in Dir, NEW x \in Page
        PROVE  page'[d][x].frame \in {idx, page[d][x].frame}
    BY <2>1 DEF TypeOK
  <2> QED BY <2>1, <2>2, <2>3 DEF FreshFrames
<1> QED BY <1>1, <1>2

LEMMA FreeFresh ==
    ASSUME TypeOK, FramesTaken, NEW o \in Dir, NEW p \in Page, free_frame(o, p)
    PROVE  FreshFrames
<1>1. CASE page[o][p].frame = 0
  BY <1>1 DEF free_frame, mem, FreshFrames
<1>2. CASE page[o][p].frame # 0
  <2> SUFFICES ASSUME ~exhausted' PROVE FreshFrames
    BY DEF FreshFrames
  <2>1. /\ frames' = frames \ {page[o][p].frame \div PageSize}
        /\ page' = [page EXCEPT ![o][p].frame = 0]
        /\ ~exhausted
    BY <1>2 DEF free_frame
  <2>2. page[o][p].frame \div PageSize = 0
    <3>1. page[o][p].frame \in Frame
      BY <1>2, <2>1 DEF FramesTaken, TypeOK
    <3>2. page[o][p].frame \in Nat /\ page[o][p].frame < PageSize
      BY <3>1, Constants DEF Frame
    <3> QED BY <3>2, Division, Constants
  <2>3. ASSUME NEW d \in Dir, NEW x \in Page
        PROVE  page'[d][x].frame \in {0, page[d][x].frame}
    BY <2>1 DEF TypeOK, Entry
  <2> QED BY <2>1, <2>2, <2>3 DEF FreshFrames
<1> QED BY <1>1, <1>2

LEMMA MemFresh ==
    ASSUME UNCHANGED mem PROVE FreshFrames
BY DEF mem, FreshFrames

(* A gap stays one.                                                        *)
LEMMA GapKept ==
    ASSUME FreshFrames, ~exhausted', NEW p, NEW q, NEW a \in Nat, NEW b, Gap(p, q, a, b)
    PROVE  Gap(p, q, a, b)'
<1> SUFFICES ASSUME NEW f \in (a + 1)..(b - 1)
             PROVE  /\ f \in frames'
                    /\ \A d \in Dir : \A x \in Page :
                          page'[d][x].frame = f => d = kernel_directory /\ x \in p..q
  BY DEF Gap
<1>1. f \in frames /\ f # 0
  BY DEF Gap
<1>2. f \in frames'
  BY <1>1 DEF FreshFrames
<1>3. ASSUME NEW d \in Dir, NEW x \in Page, page'[d][x].frame = f
      PROVE  d = kernel_directory /\ x \in p..q
  <2>1. page[d][x].frame = f
    BY <1>1, <1>3 DEF FreshFrames
  <2> QED BY <2>1 DEF Gap
<1> QED BY <1>2, <1>3

(* After the boot sequence: steps that leave the first pages' frames.      *)
LEMMA FirstFramesKept ==
    ASSUME TypeOK, HeapFilling, pc \notin InBoot, pc' \notin InBoot, FreshFrames,
           \A p \in FirstHeapPages : FrameOf(p)' = FrameOf(p)
    PROVE  HeapFilling'
<1> SUFFICES HeapInOrder'
  BY DEF HeapFilling, InBoot
<1> SUFFICES ASSUME ~exhausted' PROVE InOrder(FirstHeapPages)'
  BY DEF HeapInOrder, InOrder, Gap, FrameOf
<1>1. InOrder(FirstHeapPages)
  BY OrderOfHeap DEF HeapFilling, FreshFrames
<1> SUFFICES ASSUME NEW p \in FirstHeapPages, NEW q \in FirstHeapPages, p < q
             PROVE  (FrameOf(p) < FrameOf(q) /\ Gap(p, q, FrameOf(p), FrameOf(q)))'
  BY DEF InOrder
<1>2. FrameOf(p) < FrameOf(q) /\ Gap(p, q, FrameOf(p), FrameOf(q))
  BY <1>1 DEF InOrder
<1>3. PICK a \in Nat, b \in Nat : a = FrameOf(p) /\ b = FrameOf(q)
  <2>1. p \in Page /\ q \in Page
    BY FirstInitial
  <2> QED BY <2>1, KernelDirectory, Constants DEF TypeOK, Entry, FrameOf
<1>4. Gap(p, q, a, b)'
  BY <1>2, <1>3, GapKept
<1>5. FrameOf(p)' = a /\ FrameOf(q)' = b
  BY <1>3
<1> QED BY <1>2, <1>3, <1>4, <1>5 DEF Gap

(* The identity loop takes the frame of the page's number.                 *)
LEMMA IdentityTakes ==
    ASSUME IInv, IdInv, pc = "identity", i < IdentityPages,
           MapPage(kernel_directory, i, FALSE)
    PROVE  /\ frames' = frames \cup {i} /\ i \in Low
           /\ page' = [page EXCEPT ![kernel_directory][i] = Id(i)]
<1> USE Constants
<1>0. TypeOK /\ Loops /\ Owners /\ Filling /\ i \in Nat
  BY DEF IInv, IdInv, TypeOK
<1>1. i \in Low /\ TableOf(i) \in Index /\ i \in Frame
  BY <1>0, LowPages, LowFrames DEF Low
<1>2. tables'[kernel_directory][TableOf(i)] = kernel_directory
  BY <1>0, <1>1, KernelDirectory DEF MapPage, get_page, TypeOK, Owners, kernel_directory
<1>3. page[kernel_directory][i] = Blank /\ i \notin frames
  BY <1>0, <1>1 DEF Filling
<1>4. PICK idx \in first_frame :
        /\ frames' = frames \cup ({idx} \cap Frame)
        /\ page' = [page EXCEPT ![kernel_directory][i] =
                       [present |-> TRUE, rw |-> FALSE, frame |-> idx]]
  BY <1>2, <1>3 DEF MapPage, alloc_frame, Blank
<1>5. idx \in Frame /\ idx \notin frames /\ idx <= i /\ idx \in Nat
  BY <1>1, <1>3 DEF first_frame, Frame
<1>6. ASSUME idx < i PROVE FALSE
  <2>1. idx \in Low
    BY <1>0, <1>5, <1>6 DEF Low
  <2> QED BY <1>0, <1>5, <1>6, <2>1 DEF Filling
<1>7. idx = i
  BY <1>0, <1>5, <1>6
<1> QED BY <1>1, <1>4, <1>7 DEF Id

LEMMA IdentityFilling ==
    ASSUME IInv, IdInv, HeapFilling, IdentityMapping PROVE HeapFilling'
<1> USE Constants
<1>0. pc = "identity" /\ TypeOK /\ Filling /\ i \in Nat /\ Given({})
  BY DEF IdentityMapping, IInv, IdInv, TypeOK, HeapFilling
<1>1. CASE i < IdentityPages
  <2>1. MapPage(kernel_directory, i, FALSE) /\ i' = i + 1 /\ pc' = pc
    BY <1>1 DEF IdentityMapping
  <2>2. i \in Low /\ page' = [page EXCEPT ![kernel_directory][i] = Id(i)]
    BY <1>0, <1>1, <2>1, IdentityTakes
  <2>3. Given({})'
    <3>1. ASSUME NEW d \in Dir, NEW x \in Page, ~(d = kernel_directory /\ x = i)
          PROVE  page'[d][x] = page[d][x]
      BY <1>0, <2>2, <3>1 DEF TypeOK
    <3> QED BY <1>0, <2>2, <3>1 DEF Given
  <2> QED BY <1>0, <2>1, <2>3 DEF HeapFilling, HeapInOrder
<1>2. CASE ~(i < IdentityPages)
  <2>1. UNCHANGED mem /\ i' = KheapStart /\ pc' = "heap_pages"
    BY <1>2 DEF IdentityMapping
  <2>2. i = IdentityPages
    BY <1>0, <1>2 DEF Filling
  <2>3. Low \subseteq frames'
    BY <1>0, <2>1, <2>2 DEF Filling, Low, mem
  <2>4. KheapStart..(i' - 1) = {}
    BY <2>1
  <2>5. Given(KheapStart..(i - 1))' /\ InOrder(KheapStart..(i - 1))'
    BY <1>0, <2>1, <2>4 DEF Given, InOrder, mem
  <2> QED BY <2>1, <2>3, <2>4, <2>5 DEF HeapFilling, HeapInOrder
<1> QED BY <1>1, <1>2

(* Each of them gets the lowest frame that is free, and so one above those *)
(* of the pages before it.                                                 *)
LEMMA HeapPagesFilling ==
    ASSUME IInv, IdInv, HeapFilling, HeapPages PROVE HeapFilling'
<1> USE Constants
<1> DEFINE R == KheapStart..(i - 1)
<1>0. /\ pc = "heap_pages" /\ TypeOK /\ Owners /\ i \in Nat /\ i >= KheapStart
      /\ i <= KheapStart + KheapInitial
  BY DEF HeapPages, IInv, IdInv, TypeOK, Filling, HeapFilling
<1>1. /\ Low \subseteq frames /\ Given(R)
      /\ ~exhausted => InOrder(R) /\ \A r \in R : Packed(r)
  BY <1>0 DEF HeapFilling
<1>2. CASE i < KheapStart + KheapInitial
  <2>1. MapPage(kernel_directory, i, FALSE) /\ i' = i + 1 /\ pc' = pc
    <3>1. ~(i >= KheapStart + KheapInitial) BY <1>0, <1>2
    <3> QED BY <3>1 DEF HeapPages
  <2>2. /\ i \in Initial /\ i \in Page /\ TableOf(i) \in Index /\ i \notin Low
        /\ i \notin R /\ \A r \in R : r \in Page
    <3>1. i \in Initial /\ \A r \in R : r \in Initial
      BY <1>0, <1>2 DEF Initial
    <3> QED BY <1>0, <3>1, FirstInitial, TableRange
  <2>3. tables'[kernel_directory][TableOf(i)] = kernel_directory
    BY <1>0, <2>1, <2>2, KernelDirectory DEF MapPage, get_page, TypeOK, Owners,
       kernel_directory
  <2>4. page[kernel_directory][i].frame = 0
    BY <1>1, <2>2, KernelDirectory DEF Given
  <2>5. PICK idx \in first_frame :
          /\ frames' = frames \cup ({idx} \cap Frame)
          /\ page' = [page EXCEPT ![kernel_directory][i] =
                         [present |-> TRUE, rw |-> FALSE, frame |-> idx]]
          /\ exhausted' = (exhausted \/ Frame \subseteq frames)
    BY <2>1, <2>3, <2>4 DEF MapPage, alloc_frame
  <2>6. /\ page'[kernel_directory][i].frame = idx
        /\ \A d \in Dir : \A x \in Page :
              ~(d = kernel_directory /\ x = i) => page'[d][x] = page[d][x]
    BY <1>0, <2>2, <2>5, KernelDirectory DEF TypeOK
  <2>7. i' - 1 = i /\ Low \subseteq frames' /\ i' <= KheapStart + KheapInitial
    <3>1. i' - 1 = i /\ i' <= KheapStart + KheapInitial
      BY <1>0, <1>2, <2>1
    <3>2. Low \subseteq frames'
      BY <1>1, <2>5
    <3> QED BY <3>1, <3>2
  <2>8. Given(KheapStart..(i - 1))'
    <3> SUFFICES ASSUME NEW d \in Dir, NEW x \in Page, page'[d][x].frame # 0
                 PROVE  d = kernel_directory /\ x \in Low \cup KheapStart..i
      BY <2>7 DEF Given
    <3>1. CASE d = kernel_directory /\ x = i
      BY <1>0, <3>1
    <3>2. CASE ~(d = kernel_directory /\ x = i)
      <4>1. d = kernel_directory /\ x \in Low \cup R
        BY <1>1, <2>6, <3>2 DEF Given
      <4>2. \A r \in R : r \in KheapStart..i
        BY <1>0
      <4> QED BY <4>1, <4>2
    <3> QED BY <3>1, <3>2
  <2>9. ASSUME ~exhausted'
        PROVE  /\ \A r \in KheapStart..(i' - 1) : Packed(r)'
               /\ InOrder(KheapStart..(i - 1))'
    <3>1. /\ ~exhausted /\ idx \in Frame /\ idx \notin frames
          /\ \A f \in Frame : f < idx => f \in frames
      <4>1. ~exhausted /\ ~(Frame \subseteq frames)
        BY <2>5, <2>9
      <4>2. idx \in {f \in Frame \ frames : \A g \in Frame \ frames : f <= g}
        BY <4>1, <2>5 DEF first_frame
      <4> QED BY <4>1, <4>2 DEF Frame
    <3>2. idx \in Nat /\ idx \notin Low /\ frames' = frames \cup {idx}
      <4>1. idx \in Nat
        BY <3>1 DEF Frame
      <4>2. {idx} \cap Frame = {idx}
        BY <3>1
      <4> QED BY <1>1, <2>5, <3>1, <4>1, <4>2
    <3>3. ASSUME NEW r \in R
          PROVE  /\ FrameOf(r)' = FrameOf(r) /\ FrameOf(r) \in Nat /\ FrameOf(r) < idx
                 /\ Packed(r)
      <4>1. FrameOf(r)' = FrameOf(r)
        BY <2>2, <2>6, KernelDirectory DEF FrameOf
      <4>2. Packed(r)
        BY <1>1, <3>1
      <4>3. FrameOf(r) \in Nat
        BY <4>2 DEF Packed, Frame
      <4>4. ~(idx <= FrameOf(r))
        BY <3>1, <4>2 DEF Packed
      <4> QED BY <3>2, <4>1, <4>2, <4>3, <4>4
    <3>4. ASSUME NEW r \in KheapStart..i PROVE Packed(r)'
      <4>1. CASE r = i
        <5>1. FrameOf(r)' = idx
          BY <2>6, <4>1 DEF FrameOf
        <5>2. \A f \in Frame : f <= idx => f \in frames \cup {idx}
          BY <3>1, <3>2 DEF Frame
        <5> QED BY <3>1, <3>2, <5>1, <5>2 DEF Packed
      <4>2. CASE r # i
        <5>1. r \in R
          BY <1>0, <4>2
        <5> QED BY <3>2, <3>3, <5>1 DEF Packed
      <4> QED BY <4>1, <4>2
    <3>5. FreshFrames
      <4>1. alloc_frame(kernel_directory, i, FALSE)
        BY <2>1, <2>3 DEF MapPage
      <4> QED BY <1>0, <4>1, AllocFresh
    <3>6. ASSUME NEW p \in KheapStart..i, NEW q \in KheapStart..i, p < q
          PROVE  (FrameOf(p) < FrameOf(q) /\ Gap(p, q, FrameOf(p), FrameOf(q)))'
      <4>0. p \in R
        BY <1>0, <3>6
      <4>1. CASE q # i
        <5>1. q \in R
          BY <1>0, <4>1
        <5>2. FrameOf(p) < FrameOf(q) /\ Gap(p, q, FrameOf(p), FrameOf(q))
          BY <1>1, <3>1, <3>6, <4>0, <5>1 DEF InOrder
        <5>3. PICK a \in Nat, b \in Nat : a = FrameOf(p) /\ b = FrameOf(q)
          BY <3>3, <4>0, <5>1
        <5>4. FrameOf(p)' = a /\ FrameOf(q)' = b
          BY <3>3, <4>0, <5>1, <5>3
        <5>5. Gap(p, q, a, b)'
          BY <2>9, <3>5, <5>2, <5>3, GapKept
        <5> QED BY <5>2, <5>3, <5>4, <5>5 DEF Gap
      <4>2. CASE q = i
        <5>1. /\ FrameOf(q)' = idx /\ FrameOf(p)' = FrameOf(p)
              /\ FrameOf(p) < idx /\ FrameOf(p) \in Nat /\ Packed(p)
          BY <2>6, <3>3, <4>0, <4>2 DEF FrameOf
        <5>2. ASSUME NEW f \in (FrameOf(p) + 1)..(idx - 1)
              PROVE  /\ f \in frames'
                     /\ \A d \in Dir : \A x \in Page :
                           page'[d][x].frame = f => d = kernel_directory /\ x \in p..q
          <6>1. f \in Nat /\ FrameOf(p) < f /\ f < idx /\ f \in Frame
            BY <3>1, <3>2, <5>1 DEF Frame
          <6>2. f \in frames'
            BY <3>1, <3>2, <6>1
          <6>3. f \notin Low
            BY <5>1, <6>1 DEF Packed, Low, Frame
          <6>4. ASSUME NEW d \in Dir, NEW x \in Page, page'[d][x].frame = f
                PROVE  d = kernel_directory /\ x \in p..q
            <7>1. page[d][x].frame = f /\ f # 0
              BY <2>6, <3>2, <5>1, <6>1, <6>4
            <7>2. d = kernel_directory /\ x \in Low \cup R
              BY <1>1, <7>1 DEF Given
            <7>3. x \notin Low
              <8> SUFFICES ASSUME x \in Low PROVE FALSE
                OBVIOUS
              <8>1. page[kernel_directory][x] = Id(x)
                BY <1>0 DEF IdInv, IdentityMap, booted, Low, Id
              <8>2. f = x
                BY <7>1, <7>2, <8>1 DEF Id
              <8> QED BY <6>3, <8>2
            <7>4. x \in R /\ FrameOf(x) = f
              BY <7>1, <7>2, <7>3 DEF FrameOf
            <7>5. ~(x < p)
              <8> SUFFICES ASSUME x < p PROVE FALSE
                OBVIOUS
              <8>1. FrameOf(x) < FrameOf(p)
                BY <1>1, <3>1, <4>0, <7>4 DEF InOrder
              <8> QED BY <5>1, <6>1, <7>4, <8>1
            <7> QED BY <1>0, <4>0, <4>2, <7>2, <7>4, <7>5
          <6> QED BY <6>2, <6>4
        <5>3. Gap(p, q, FrameOf(p), FrameOf(q))'
          BY <5>1, <5>2 DEF Gap
        <5> QED BY <5>1, <5>3
      <4> QED BY <4>1, <4>2
    <3>7. InOrder(KheapStart..(i - 1))'
      BY <2>7, <3>6 DEF InOrder
    <3> QED BY <2>7, <3>4, <3>7
  <2> QED BY <1>0, <2>1, <2>7, <2>8, <2>9 DEF HeapFilling, HeapInOrder
<1>3. CASE ~(i < KheapStart + KheapInitial)
  <2>1. UNCHANGED mem /\ pc' = "clone"
    BY <1>0, <1>3 DEF HeapPages, CloneStart
  <2>2. R = Initial
    BY <1>0, <1>3 DEF Initial
  <2>3. ~exhausted => InOrder(FirstHeapPages)
    <3>1. ~exhausted => InOrder(Initial)
      BY <1>1, <2>2, Zenon
    <3>2. FirstHeapPages \subseteq Initial
      BY FirstInitial
    <3> QED BY <3>1, <3>2, InOrderPart
  <2>4. ~exhausted' => InOrder(FirstHeapPages)'
    BY <2>1, <2>3 DEF InOrder, Gap, FrameOf, mem
  <2>5. HeapInOrder'
    BY <2>4 DEF HeapInOrder, InOrder, Gap, FrameOf
  <2> QED BY <2>1, <2>5 DEF HeapFilling
<1> QED BY <1>2, <1>3

(* The steps that allocate or free later do so for other pages.            *)
LEMMA LaterFresh ==
    ASSUME IInv, MoveStack \/ Expand \/ Contract \/ CloneEntry
    PROVE  FreshFrames
<1>0. TypeOK /\ FramesTaken
  BY DEF IInv
<1>1. ASSUME NEW d, NEW p, NEW w, MapPage(d, p, w) PROVE FreshFrames
  BY <1>0, <1>1, AllocFresh DEF MapPage
<1>2. CASE MoveStack
  <2>1. UNCHANGED mem \/ MapPage(current_directory, i, TRUE)
    BY <1>2 DEF MoveStack
  <2> QED BY <1>1, <2>1, MemFresh
<1>3. CASE Expand
  <2>1. UNCHANGED mem \/ MapPage(kernel_directory, HeapPage(i), TRUE)
    BY <1>3 DEF Expand
  <2> QED BY <1>1, <2>1, MemFresh
<1>4. CASE Contract
  <2>1. CASE new_size < i
    <3> DEFINE o == tables[kernel_directory][TableOf(HeapPage(i))]
    <3>1. free_frame(o, HeapPage(i)) /\ pc = "contract"
      BY <1>4, <2>1 DEF Contract
    <3>2. o \in Dir /\ HeapPage(i) \in Page
      BY <2>1, <3>1, ContractHasTable
    <3> HIDE DEF o
    <3> QED BY <1>0, <3>1, <3>2, FreeFresh
  <2>2. CASE ~(new_size < i)
    BY <1>4, <2>2, MemFresh DEF Contract
  <2> QED BY <2>1, <2>2
<1>5. CASE CloneEntry
  <2> DEFINE a == i * PPT + j
             e == page[src[i]][a]
  <2>1. IF e.frame # 0 THEN UNCHANGED mem ELSE alloc_frame(ndirs, a, e.rw)
    BY <1>5 DEF CloneEntry
  <2> HIDE DEF a, e
  <2> QED BY <1>0, <2>1, AllocFresh, MemFresh
<1> QED BY <1>2, <1>3, <1>4, <1>5

LEMMA LaterFilling ==
    ASSUME IInv, HeapFilling, MoveStack \/ Expand \/ Contract \/ CloneEntry
    PROVE  HeapFilling'
<1> USE Constants
<1>0. /\ TypeOK /\ Loops /\ pc \notin InBoot /\ pc' \notin InBoot
  BY DEF IInv, MoveStack, Expand, Contract, CloneEntry, InBoot
<1>1. ASSUME NEW p \in FirstHeapPages
      PROVE  page'[kernel_directory][p].frame = page[kernel_directory][p].frame
  <2>0. p \in Page /\ p \in Nat /\ p <= HeapPage(HEAP_MIN_SIZE - 1)
    BY FirstInitial DEF FirstHeapPages
  <2>1. ASSUME NEW d \in Dir, NEW q, q # p, NEW w, MapPage(d, q, w)
        PROVE  page'[kernel_directory][p] = page[kernel_directory][p]
    <3>1. PICK o : alloc_frame(o, q, w)
      BY <2>1 DEF MapPage
    <3> QED BY <1>0, <2>0, <2>1, <3>1, KernelDirectory DEF alloc_frame, mem, TypeOK
  <2>2. CASE MoveStack
    <3>1. CASE i >= StackStart - StackSize
      <4>0. MapPage(current_directory, i, TRUE)
        BY <2>2, <3>1 DEF MoveStack
      <4>1. current_directory \in Dir /\ i \in Nat
        BY <1>0 DEF TypeOK, Dir
      <4>2. HeapPage(HEAP_MIN_SIZE - 1) <= HeapPage(HeapMax)
        <5> DEFINE a == HEAP_MIN_SIZE - 1
                   b == HeapMax
        <5>1. a \in Nat /\ b \in Nat /\ a <= b
          OBVIOUS
        <5> HIDE DEF a, b
        <5>2. a \div PageSize \in Nat /\ b \div PageSize \in Nat
          BY <5>1, Division
        <5>3. a \div PageSize <= b \div PageSize
          BY <5>1, DivisionMonotone
        <5>4. HeapPage(a) <= HeapPage(b)
          BY <5>2, <5>3 DEF HeapPage, HeapStart
        <5> QED BY <5>4 DEF a, b
      <4>3. i # p
        <5>1. HeapPage(HeapMax) \in Nat
          BY HeapPageType
        <5> QED BY <2>0, <3>1, <4>1, <4>2, <5>1, BelowStack, FirstInitial
      <4> QED BY <2>1, <4>0, <4>1, <4>3
    <3>2. CASE ~(i >= StackStart - StackSize)
      BY <2>2, <3>2 DEF MoveStack, mem
    <3> QED BY <3>1, <3>2
  <2>3. CASE Expand
    <3>1. i \in Nat /\ i >= HEAP_MIN_SIZE
      BY <1>0, <2>3 DEF Expand, Loops, TypeOK
    <3>2. HeapPage(i) # p
      BY <3>1, AboveFirst
    <3> QED BY <2>1, <2>3, <3>2, KernelDirectory DEF Expand, mem
  <2>4. CASE Contract
    <3>1. CASE new_size < i
      <4> DEFINE o == tables[kernel_directory][TableOf(HeapPage(i))]
      <4>1. free_frame(o, HeapPage(i)) /\ pc = "contract"
        BY <2>4, <3>1 DEF Contract
      <4>2. i \in Nat /\ i >= HEAP_MIN_SIZE
        BY <1>0, <3>1, <4>1 DEF Loops, TypeOK
      <4>3. HeapPage(i) # p
        BY <4>2, AboveFirst
      <4>4. o \in Dir /\ HeapPage(i) \in Page
        BY <3>1, <4>1, ContractHasTable
      <4> HIDE DEF o
      <4> QED BY <1>0, <2>0, <4>1, <4>3, <4>4, KernelDirectory DEF free_frame, mem, TypeOK
    <3>2. CASE ~(new_size < i)
      BY <2>4, <3>2 DEF Contract, mem
    <3> QED BY <3>1, <3>2
  <2>5. CASE CloneEntry
    <3>1. ndirs # kernel_directory /\ ndirs \in Dir
      BY <1>0, <2>5 DEF CloneEntry, Loops, TypeOK, kernel_directory, Dir
    <3>2. page'[kernel_directory] = page[kernel_directory]
      <4> DEFINE a == i * PPT + j
                 e == page[src[i]][a]
      <4>1. IF e.frame # 0 THEN UNCHANGED mem ELSE alloc_frame(ndirs, a, e.rw)
        BY <2>5 DEF CloneEntry
      <4> HIDE DEF a, e
      <4> QED BY <1>0, <3>1, <4>1, KernelDirectory DEF alloc_frame, mem, TypeOK
    <3> QED BY <3>2
  <2> QED BY <2>2, <2>3, <2>4, <2>5
<1> QED BY <1>0, <1>1, LaterFresh, FirstFramesKept DEF FrameOf

LEMMA NextFilling ==
    ASSUME IInv, IdInv, HeapFilling, [Next]_vars PROVE HeapFilling'
<1>1. CASE HeapTables
  <2>1. /\ pc = "heap_tables" /\ UNCHANGED mem
        /\ pc' \in {"heap_tables", "identity"}
    BY <1>1 DEF HeapTables
  <2> QED BY <2>1 DEF HeapFilling, HeapInOrder, Given, mem
<1>2. CASE IdentityMapping
  BY <1>2, IdentityFilling
<1>3. CASE HeapPages
  BY <1>3, HeapPagesFilling
<1>4. CASE MoveStack \/ Expand \/ Contract \/ CloneEntry
  BY <1>4, LaterFilling
<1>5. CASE \/ CloneTable \/ CloneTableDone \/ CloneDone \/ Fork \/ SwitchTask
           \/ MoveStackStart
           \/ \E n \in ExpandSizes : ExpandStart(n)
           \/ \E n \in ContractSizes : ContractStart(n)
  <2>1. pc \notin InBoot /\ pc' \notin InBoot /\ UNCHANGED mem
    BY <1>5 DEF CloneTable, CloneTableDone, CloneDone, Fork, CloneStart, SwitchTask,
       MoveStackStart, ExpandStart, ContractStart, InBoot
  <2>2. TypeOK /\ FreshFrames
    BY <2>1, MemFresh DEF IInv
  <2> QED BY <2>1, <2>2, FirstFramesKept DEF mem, FrameOf
<1>6. CASE UNCHANGED vars
  BY <1>6 DEF vars, mem, HeapFilling, HeapInOrder, InOrder, Gap, Given, Packed, FrameOf
<1> QED BY <1>1, <1>2, <1>3, <1>4, <1>5, <1>6 DEF Next, Boot, Clone, Heap, Tasks

(* The first part of the heap, which contract never gives up, has frames   *)
(* that ascend with its pages, and whatever the uncleared bits of the      *)
(* bitset held, a frame between two of them is marked and nobody else's:   *)
(* it is there that clone_directory computes a physical address by adding  *)
(* an offset.  It holds for as long as memory lasts.                       *)
THEOREM HeapIsInOrder == Spec => []HeapInOrder
<1>1. Init => HeapFilling
  <2> SUFFICES ASSUME Init PROVE HeapFilling
    OBVIOUS
  <2>1. Given({})
    BY DEF Init, Given, Blank
  <2> QED BY <2>1 DEF Init, HeapFilling, HeapInOrder
<1>2. IInv /\ IdInv /\ HeapFilling /\ [Next]_vars => HeapFilling'
  BY NextFilling
<1>3. HeapFilling => HeapInOrder
  BY DEF HeapFilling
<1> QED BY <1>1, <1>2, <1>3, Invariance, IdInvariance, PTL DEF Spec
=============================================================================
