# A TLA+ model of the fotix kernel

fotix is a small 32-bit kernel: a boot stub, descriptor tables, interrupt
dispatch, a timer, a keyboard and a text-mode monitor driver, paging, a kernel
heap, a round-robin scheduler with `fork`, a ramdisk behind a virtual file system
and three system calls. This directory holds TLA+ modules for all of it that is
built (the ELF loader is not), TLC
configurations that check them on small instances, and TLAPS proofs of the main
safety properties for every instance.

## Inventory

| Part | State it keeps | Operations | Interaction | What makes it correct |
|---|---|---|---|---|
| keyboard (`sys/keyboard.c`) | ring of 256 characters, two indices, control bits | IRQ1 handler; `keyboard_getchar` | the handler interrupts a caller of `keyboard_getchar` anywhere | stored characters come out once, in order; indices stay in the ring; no stuck shift |
| paging (`sys/paging.c`) | frame bitset, page tables, directories, `current_directory` | `initialise_paging`, `alloc_frame`, `free_frame`, `get_page`, `clone_directory` | called by the heap (`expand`, `contract`), by `move_stack` and `fork` | low memory stays identity mapped; a frame has one user; address spaces share only kernel tables |
| heap (`sys/kheap.c`) | headers and footers in memory, index of holes, end address | `alloc`, `free`, `expand`, `contract` | every `kmalloc`; calls paging | blocks are disjoint, holes and blocks tile the heap, index is exact |
| ordered array (`sys/ordered_array.c`) | array, size | insert, lookup, remove | index of the heap | sorted; removal removes |
| tasks (`sys/task.c`) | task list, current task, saved registers, IF | `initialise_tasking`, `fork`, `switch_task`, `switch_to_user_mode` | timer interrupt; paging | the queue is never seen half linked; tasks run in their own directories; a forked task is reached (where, in this code, it faults) |
| monitor (`sys/monitor.c`) | framebuffer, cursor | `monitor_put`, `_write`, `_write_dec`, `_write_hex`, `_write_padded`, `_clear` | called by everything; system calls | no store outside the screen; scrolling keeps the text; numbers are readable |
| timer, interrupt dispatch (`sys/timer.c`, `sys/isr.c`, `sys/interrupt.s`) | handler table, tick | `irq_handler`, `isr_handler`, `register_interrupt_handler` | call the handlers with IF clear | every IRQ is acknowledged and dispatched |
| placement allocator (`kmalloc_int` before the heap) | `placement_address` | `kmalloc*` | paging's first tables | disjoint, aligned |
| VFS, ramdisk, `mkinit` (`sys/fs.c`, `sys/initrd.c`, `utils/mkinit.c`) | node tables, one static `dirent` | read, readdir, finddir | image written by `mkinit` | reads stay in the file; names are found |
| system calls (`sys/syscall.c`) | table of three | `int 0x80` | user mode to monitor | number checked |
| string functions (`sys/common.c`) | none | `memcpy`, `memset`, `strcmp`, `strcpy`, `strcat` | everywhere | as in C |
| descriptor tables, boot (`sys/descriptor_tables.c`, `sys/boot.s`, `sys/main.c`) | GDT, IDT, TSS | written once | order of initialisation | |
| ELF loader (`sys/elf.c`) | | | not in the Makefile | |

Hard to test here: interrupts that land between two instructions of the code they
share data with (keyboard ring, task list, heap); operations whose outcome depends
on a long history (the heap's index and footers, the bitset of frames); values at
a limit (index 0, a full ring, a full heap, memory exhausted, numbers from 2^31);
data that is copied and then diverges (directories cloned from the kernel's, saved
registers). `PROJECT.json` lists the hazards line by line with the properties that
would catch each one.

## Modules

| Module | Models | Composes |
|---|---|---|
| `KeyQueue` | abstract: a bounded queue of characters that may be lost only at its limit | |
| `Keyboard` | `sys/keyboard.c`, with a caller that polls it | refines `KeyQueue` |
| `Keyboard_proofs` | theorems | `Keyboard` |
| `Paging` | `sys/paging.c`; the page loops of `expand`, `contract`, `move_stack` | |
| `Paging_proofs`, `PagingHeap_proofs` | theorems | `Paging`; the second uses the invariants of the first |
| `Task` | `sys/task.c`, the IRQ0 path of `sys/isr.c` and `sys/timer.c` | |
| `Task_proofs` | theorems | `Task` |
| `OrderedArray` | `sys/ordered_array.c`, as operators on sequences | |
| `Kheap` | `sys/kheap.c` | `OrderedArray` |
| `Kheap_proofs` | theorems | `Kheap` |
| `Terminal` | abstract: a terminal that keeps its last lines | |
| `Monitor` | `sys/monitor.c` | refines `Terminal` |
| `Monitor_proofs` | theorems | `Monitor` |
| `Strings` | `strlen`, `strcmp`, `strcpy`, `memcpy` of `sys/common.c`, as operators on buffers | |
| `Initrd` | `utils/mkinit.c`, `sys/initrd.c`, `sys/fs.c` | `Strings` |
| `Initrd_proofs` | theorems | `Initrd` |
| `Kernel` | `sys/boot.s`, `sys/main.c`, `sys/descriptor_tables.c`, `sys/isr.c`, `sys/interrupt.s`, `sys/timer.c`, `sys/syscall.c`, `init_keyboard_driver`, the placement branch of `kmalloc_int`; as environment the PICs, the keyboard controller and the CPU's descriptor lookups | `Task` |
| `Kernel_proofs` | theorems | `Kernel` |

Names of variables and actions are those of the code. An operator whose name ends
in `_Something` and whose comment starts with "Mutant" is a deliberately wrong
variant of the definition after it. It is not used by any specification; replacing
the definition by it must break the property `PROJECT.json` pairs it with.

**Keyboard.** `keyboard_handler` is one step per scancode: it runs with interrupts
off. `keyboard_getchar` is cut at each access to shared data: the test, the fetch,
the store of the incremented index and the mask. C does not order the fetch and the
store, so there are two paths (`FetchFirst` then `Increment`, or `Increment` then
`FetchLast`). Subtraction is unsigned (`SubU32`). A character is a pair (key,
shifted); control keys have NUL in both tables. `held` is the device, `lapped` a
history variable: a full ring overwritten while the loop is fetching, which the
abstraction needs to tell a full ring from an empty one. The caller polls
`keyboard_getchar` as the loop of `kernel_start` does, but with interrupts on and in
a mode that may write to the ring. The shipped loop has neither: it runs in user mode,
which is in `Kernel`. So nothing is said here about keys being read eventually. The
refinement does not tie the character stored to the key typed (`Put` is for any
character); the look-up is `shifted` and `scancodes`.

**Paging.** One operation runs at a time; each loop is cut at every page table
entry. A table is named by the directory it was made for, so that sharing is
equality of names. Only the first quarter of the bitset is cleared (the code clears
`nframes/32` bytes, not words), so `Init` lets the bits outside it be any of the sets
in `Garbage`. `first_frame` without a free frame returns an element of `FallOff`.
Memory for tables and directories (`kmalloc_ap`) is taken as always available,
and its possible re-entry into `expand` is left out. `RoundExpand` and
`RoundContract` are what the expressions compute: `new_size & 0xFFFFF000 != 0` is
`new_size & 1`, and contract keeps one bit of the size.

**Task.** The running task's code is cut where an interrupt matters; the interrupt
(`irq_handler`) can come at any cut while `IF_flag` is set, and `switch_task` is one
step because the gate clears IF. `fork` appends the child behind the last task of a
walk from `ready_queue`; `Queue`, the tasks of that walk, is the least set that
contains the first task and is closed under `next`. `parent_task`, `new_task` and `ret` are per task:
they live on the stack that the clone copies. `eip` says where a task resumes: in
`fork`, in `switch_task`, or nowhere yet. `child_stack` is chosen at
the start and says whether a clone of the directory contains the stack. "missing" is
what the code does (`PagingFork` shows it): a child faults as soon as it is switched to,
which is the known bug in the repository's `README.md:46` and the property
`ForkedTaskFaults`. "cloned" is a kernel in which `clone_table` is mended; the
invariants are checked and proved for both, since with the code's clone no child ever
gets to fork or to be switched out. `Kernel` uses "missing".

**Kheap.** Memory is a map from addresses to headers and footers; storing one
destroys what it overlaps, and an owner may overwrite its block. `alloc` that has
to expand is two steps, as the recursion is. `SizeAt(NULL)` is `LowSize`, the word
at physical address 8, because the index contains NULLs. `top` is the end of the highest
page ever mapped: `contract` does not unmap. `MappedEnd` is how far the loop of
`expand` gets: it steps by whole pages from the old size, which, against the comment at
`kheap.c:96` ("This should always be on a page boundary"), need not begin a page, and
may then leave out the page in which the new end lies. A header or footer stored there
is a page fault. The index has `HEAP_INDEX_SIZE` slots; the first step that uses more
stops the model with the status "overrun", although the machine would go on.
Addresses and sizes are computed modulo
`U32`, as a `u32int` is; only `expand`'s sums are kept from wrapping, by the sizes that
`alloc` is called with. `defects` is a history of steps that break
what `alloc` and `free` rely on; see the run `Kheap`. Most of these steps do not stop
the machine, so the model goes on after them and `TypeOK` is checked there too.

**Monitor.** A call hands its text to `monitor_write`, whose loop is one step per
`monitor_put`; `string` and `counter` are its variables, and no other call begins
before it has returned. The abstract `Terminal` takes one character per step, too; the
refinement says what a character does to the screen, not which one is written when.
The screen is one record with the source's names. A store is allowed to land anywhere, and
`TypeOK` says that it lands on the screen. Digits are not told apart on the screen,
but their values are kept in `call`, with the other arguments of the call. `monitor_write_padded` fills its buffer to the
last byte, so what lies behind on the stack (`Garbage`) is printed too.

**Initrd.** `Init` chooses the files, `mkinit` is the image of them (`off` is the
offset that its first loop counts up, `written` the data that its second loop
writes; the image is taken to fit the address space; `Spare` is an argument without a
partner, as the Makefile passes one, and a name must fit the `HeaderName` bytes of a
header). A file that cannot be opened ends `mkinit` before it writes: there is no image,
and that is the missing ramdisk of `Kernel`. A behaviour
is `initialise_initrd` followed by calls of the VFS on any node. Names are terminated
buffers, because `strcpy` does not copy the terminator (`sys/common.c:96`): node
names are right only where `kmalloc` returned clean memory (`garbage = 0`), and
`initrd_readdir` writes the terminator itself. `strcmp` answers 0 or 1, never the -1
of its comment (`sys/common.c:63`); no caller asks for more. Every byte of data says
which file and position it comes from.

**Kernel.** `kernel_start` is one step per call, and `init_keyboard_driver`, whose
statements race with the keyboard, one per statement; `stage` is the next step.
Interrupts come between steps while IF is set: a device puts its line into `irr`, the
PICs deliver the highest line that none in service shuts out, `irq_handler`
acknowledges and then calls what the handler table holds. The keyboard controller
raises IRQ1 only for a new scancode in an empty buffer, and only a read of port 0x60
empties it. `initialise_tasking`, `switch_task` and `switch_to_user_mode` are the
actions of `Task`, to which the TSS's `esp0` and the never initialised `kernel_stack`
are added. A system call or a fault in ring 3 (`Trap`) goes through the GDT entry of
the TSS, the gate and the stub as the CPU would, so that the bit fields and the sign
extension of the vector matter. `placed` holds the addresses of what
`initialise_paging` takes from the placement allocator. `Kernel` only says where
those blocks lie; what happens when the bitset's end lies in the directory is not
followed further.

## Runs

| Run | Checks | Shows |
|---|---|---|
| `Keyboard` | `TypeOK`, `IndexInBounds`, `NoStuckModifier`, `ImplementsQueue`, `FetchedSlotStable` | The ring is a queue under every interleaving. Although `start` is out of range between increment and mask, no access uses it then; the free slot that the overrun test reserves is the one being read. Shift and ctrl bits are set only while the key is down, with repeated make codes too. |
| `KeyboardOverrun` | `NoOverrun`, violated | `start - 1` wraps for `start = 0`: the full ring is then not recognised and becomes empty. |
| `Paging` | `TypeOK`, `IdentityMap`, `FrameExclusive`, `PrivateTables`, `ContractFindsTable`, `HeapBacked`, `HeapReachable`, `HeapInOrder` | The identity map is right in spite of the uncleared bitset; no frame but 0 has two users until memory is exhausted; clones share only kernel tables; `free_frame` is never given NULL. A heap that ends on a page boundary is mapped without gaps, although `expand` does not round even sizes, and in every directory as far as its first tables reach. The frames of the first heap pages ascend and are parted by garbage only (`clone_directory` relies on consecutive ones), as long as memory lasts. |
| `PagingFree` | `FreeReturnsFrame`, violated | `free_frame` clears bit 0 instead of the frame's. |
| `PagingFork` | `CloneIsComplete`, violated | `clone_table` skips exactly the entries that have a frame. |
| `Task` | `TypeOK`, `QueueIntact`, `ResumableTasks`, `OwnDirectory`, `ForkedTaskFaults` | `cli`/`sti` in `fork` and `initialise_tasking` are enough to keep the timer from the half-linked queue and the half-made task; round robin reaches a forked task, whoever forked it, unless a task has entered user mode first, and with the code's clone it faults there. |
| `TaskUser` | `UserModeInterruptible`, violated | `pushf` comes after `cli`, so `iret` restores IF = 0. In the shipped kernel, `kernel_start` enters user mode before the keyboard loop: neither keys nor ticks arrive from then on. |
| `Kheap` | `TypeOK`, `SoundBlocks`, `SoundIndex`, `SoundTiling`, `SoundFree` | Outside nine kinds of defective step, recorded in `defects`, alloc and free are right: blocks disjoint, index exact, no byte lost, no failing assertion, no access to a page that `expand` has not mapped. |
| `KheapNull` | `BlocksDisjoint`, violated | `size++` in `remove_ordered_array` puts NULL into the index, and `alloc` hands out address 12. |
| `Monitor` | `TypeOK`, `NumberShown`, `ImplementsTerminal`, `PaddedLine` | Line breaks, tabs, backspace, scrolling, clearing and hardware cursor together are a terminal; hexadecimal numbers and decimal ones below 2^31 are written correctly (of larger decimal ones nothing is claimed: `monitor_write_dec` writes no character for them, though `monitor.h:21` says "Output a decimal number on the monitor"); a status message begun at the left edge takes exactly one line. |
| `Kernel` | `TypeOK`, `InterruptsAcknowledged`, `StopCauses`, `NoGarbageChar`, `PlacementSound`, `SilencedByFirstKey`, `Greets` | Interrupts are on from `main.c:60`, before anything is ready for them, and no interrupt at any step stops the boot. The kernel stops only for a missing ramdisk, one that ends too high for the identity map, a `kernel_stack` that happens not to be mapped, or a key in the last steps before user mode, whose `keyboard_getchar` faults there. Otherwise it prints the greeting through the system call. No line is left unacknowledged; a character looked up without a layout is never read; a key that interrupts before the handler is registered stays in the controller and silences the keyboard for good, but only the first key ever can do that: once one has been read, no interleaving with the boot silences it. The first allocations are aligned, behind the ramdisk and disjoint, except that the bitset's end overlaps the kernel directory for just those ramdisks that leave less than 384 bytes of the page behind the 128 bytes that are asked for it. |
| `Initrd` | `ReadIsSlice`, `FindsFile`, `ListsDirectory` | What is read is what was packed, cut at the file's end, unless `offset + size` wraps; `finddir_fs` finds the first file of a name, not one of which it is a prefix; a walk lists `/dev` and every file once with its own name, whatever the shared `dirent` held. |

`defects` in `Kheap` has these elements. Each stands for a step of the code after
which the properties need not hold, and each can be seen by checking
`BlocksDisjoint`, `NothingLost` or the status with other constants in `Kheap.cfg`:

- "null hole" (`ordered_array.c:92`): the run `KheapNull`;
- "no room in front" (`kheap.c:302`): `AlignedSizes = {44, 100}`, no other sizes, no
  frees;
- "no room behind" (`kheap.c:154`): `AlignedSizes = {130}`, no other sizes, no frees:
  the block reaches beyond the heap;
- "not the last" (`kheap.c:271`): `INITIAL` and `HEAP_MIN_SIZE` 384, `MAX` 3348,
  `Sizes = {172, 300}`, four calls: the endmost hole of the index is extended over
  the live block behind it;
- "cut off" (`kheap.c:118`): `MAX` 3148, `Sizes = {109, 173}`: contract cuts below a
  live block;
- "stale footer" (`kheap.c:396`): `INITIAL` 512, `HEAP_MIN_SIZE` 448, `MAX` 3148,
  `Sizes = {8, 40}`: `NothingLost` fails;
- "past the end" (`kheap.c:392`): `Sizes = {172}`: free reads a header behind the
  last page;
- "page left out" (`kheap.c:99`): the run's own constants, calls for 100, 44, 100 and
  44 bytes: the heap grows from 192 to 312 and then to 376 bytes, and the page of the
  last 56 is never mapped;
- "index full" (`ordered_array.c:60`): the run's own constants, any six calls that
  remove often enough.

The theorems of `Kheap_proofs` say that this list is complete: from any state reached
without one of these steps, every other step of `alloc` and `free`, for every page size,
heap and request, keeps blocks, index and tiling right and touches only mapped pages.

### Bounds

- *Keyboard*: a ring of 4 instead of 256, `U32 = 8`. Wrap-around, full, full with
  `start = 0` and one-free-slot states all occur; nothing in the code depends on
  256 but the mask, and the proofs cover any size. One key and two control keys
  (one that acts while held, one that toggles).
- *Paging*: 16 frames, 4 entries to a table, 5 tables: one for
  the identity map, two for the heap, two for the stack, as the proportions of the
  real layout demand. `MaxDirs = 3`: the kernel's, the boot clone, one fork. The
  sizes lead to memory exhaustion, to unaligned heap ends and to contraction. `Garbage`
  has sets that part the frames of the first heap, that leave it one frame, and that
  mark all of memory. The numbers are again arbitrary in the proofs.
- *Task*: 5 tasks, so that forks by different tasks, forks by children and switches
  between them interleave.
- *Kheap*: six calls, sizes that split a hole, use it up, force an expansion, and an
  aligned one. `PAGE` is 64, header and footer have their real sizes, and the heap lies
  in the upper half of the address space, as the kernel's does. The index has room for
  10 elements, which six calls can exceed.
- *Monitor*: 3 lines of 4 columns with tab stops every 2; bases 3 and 4 for 10 and
  16; three nibbles. Both sides of the largest s32int are among the numbers. Padded
  messages have two columns of text and dots and one of status, and one character of
  garbage follows.
- *Initrd*: up to two files, with names of one or two of two characters, so that
  equal names, prefixes and "dev" itself occur; lengths 0 and 2; offsets and sizes up
  to the largest of `U32 = 6`, so that sums wrap.
- *Kernel*: one task (nothing calls `fork`), three keys. Fields of 4, 8, 16 and 32
  bits become 2, 4, 8 and 16 (`NIB = 4`), with TSS addresses in which every field of
  the descriptor is used. A page has 16 bytes; the ends of the ramdisk lie on both
  sides of the two limits in `PlacementSound`, and one is beyond the identity map.

Deadlock is checked in the runs of `Keyboard`, `Paging`, `Monitor` and `Initrd`. In
`Task` a task in user mode has no further step (interrupts are off), in `Kheap` the
calls are bounded and a failed assertion stops the machine, and in `Kernel` the
user mode loop that finds no key changes nothing.

### Fairness

- `Task!FairSpec`: weak fairness of the timer interrupt (the PIT keeps ticking at 50
  Hz) and strong fairness of the running code's steps: a task is switched out over
  and over, and between two ticks it gets far further than one step. Calling `fork`
  or `switch_to_user_mode` is never assumed.
- `Kernel!FairSpec`: weak fairness of `kernel_start`: interrupt handlers return to it.
  Nothing is assumed of the devices.

## Proofs

All theorems hold for every value of the constants that the named assumptions
allow; TLC evaluates the assumptions in each run.

| Theorem | States | Inductive invariant |
|---|---|---|
| `KeyboardTypes`, `KeyboardSafety` | `TypeOK`, `IndexInBounds` | `IInv` = both. `IndexInBounds` alone is not inductive: the mask is the identity unless `start = N`, and that needs the range of `start`; the range of `start` after an increment needs that `start` was a slot when `pc` is "take" or "store". |
| `ModifiersFollowKeys` | `NoStuckModifier` | itself: a make code that toggles the bit comes only from a key that is down |
| `FetchIsStable` | `FetchedSlotStable` | from `IInv`: when `pc = "fetch"`, `start` is at least 1, so the subtraction does not wrap and the overrun test really keeps `end` from passing the slot |
| `DriverImplementsQueue` | `ImplementsQueue` | `RInv` = `IInv` and `CharFetched`; one step per action |
| `TypeCorrect`, `ExclusiveFrames`, `TablesArePrivate`, `ContractNeverFreesNull` | `TypeOK`, `FrameExclusive`, `PrivateTables`, `ContractFindsTable` of `Paging` | `IInv` of `Paging_proofs` |
| `IdentityMapHolds` | `IdentityMap` | `IInv /\ IdInv` |
| `HeapIsBacked`, `HeapIsReachable` | `HeapBacked`, `HeapReachable` | `IInv /\ HeapInv` |
| `HeapIsInOrder` | `HeapInOrder` | `IInv /\ IdInv /\ HeapFilling` |
| `TaskTypes`, `QueueStaysIntact`, `TasksAreResumable`, `TasksOwnDirectories` | `TypeOK`, `QueueIntact`, `ResumableTasks`, `OwnDirectory` | `IInv` of `Task_proofs` |
| `KernelTypes`, `InterruptsAreAcknowledged`, `BootStopsOnlyForCause`, `GarbageIsDropped`, `PlacementIsSound`, `KeyboardIsNotShutOut` | `TypeOK`, `InterruptsAcknowledged`, `StopCauses`, `NoGarbageChar`, `PlacementSound`, `SilencedByFirstKey` | `IInv` of `Kernel_proofs` |
| `HeapTypes`, `BlocksStaySound`, `IndexStaysSound`, `HeapStaysTiled`, `FreeStaysSound` | `TypeOK`, `SoundBlocks`, `SoundIndex`, `SoundTiling`, `SoundFree` of `Kheap` | `IInv` of `Kheap_proofs` |
| `MonitorTypes`, `StatusTakesOneLine`, `DriverImplementsTerminal` | `TypeOK`, `PaddedLine`, `ImplementsTerminal` | `IInv` of `Monitor_proofs` |
| `NumbersAreReadable` | `NumberShown` | `NumberShown` itself, from `HexShown` and `DecShown` |
| `ReadIsExact`, `FindIsExact`, `WalkIsExact` | `ReadIsSlice`, `FindsFile`, `ListsDirectory` | `Built`, for reads also `Relocated` |

### Assumptions

- `SizeAssumption` and `KeysAssumption` ask for a ring of at least one slot that is
  smaller than the range of a `u32int`.
- `PagingAssumption` describes the memory layout: sizes are positive, the bitset is a
  whole number of words, `HEAP_MIN_SIZE` is a whole number of pages, the identity map
  is as long as the part of the bitset that is cleared at most, and identity map,
  heap and stack lie in different page tables, in this order. The kernel's own numbers
  satisfy it (4096 frames, 1024 identity-mapped pages, `HEAP_MIN_SIZE` 0x70000 in a
  heap of 0x80000), and `Garbage` may be any collection of sets of frames.
- `TaskAssumption` asks for at least one task.
- `KernelAssumption`: every field width is a power of `NIB`, so that the bit fields
  add up; the TSS does not cross a multiple of 1 MB (the kernel is linked at 1 MB and
  is far smaller), so that the limit `base + size` that `write_tss` gives does not
  fall short of it in the 20 bits that are kept; the ramdisk lies behind the kernel;
  what the bitset uses beyond what was asked for is no more than a directory.
- `KheapAssumption`: the heap begins on a page boundary and is at first no smaller than
  `HEAP_MIN_SIZE`, which is a whole number of pages and at least two; a header and a
  footer fit a page; a page beyond the heap's limit is still in the address space; and
  requests are positive as an `s32int` and so small that `expand` does not wrap around.
  The kernel's numbers (header 12, footer 8, page 0x1000, start 0xC0080000 behind the
  index of 0x20000 elements, size 0x80000, minimum 0x70000, limit 0xCFFFF000) satisfy it, for requests below
  0x2FFFFFEC bytes. A `HEAP_MIN_SIZE` of one page would let contract, which cuts to two
  pages for odd page numbers, make a heap larger than it was.
- `MonitorAssumption`: at least two lines, whole tab stops to a line, distinct control
  characters, a message and its status one column short of a line; bases above 1, at
  least one nibble, an even number of values of a word, and arguments that fit one.
- `InitrdAssumption`: a name and its terminator fit a header's name, which is no longer
  than a node's (64 and 128 in the code), the count of arguments fits a `char`, lengths
  and sizes fit a `u32int`.

### Arguments

*Keyboard.* The refinement maps the queue to the slots from `start` to `end`: the
increment takes a character out, whether it is fetched already (`CharFetched`: then
the slot still holds it, or the reader has been lapped) or later, and every other
access of `keyboard_getchar` is a stutter or the return. A full ring whose overrun
test fails (`start = 0`) is the step that loses the whole queue, which `KeyQueue`
allows, and `lapped` tells a full ring from an empty one.

*Paging.* `IInv` is `TypeOK`, `Loops` (the counters of each loop are
in its range), `HeapTablesMade` (the kernel directory has every table up to the
heap's end, and up to the pages that a running expansion has passed), `Owners` (a
table of a directory is missing, its own, or one the kernel's directory has too),
`FramesTaken` (a frame in an entry has its bit
set) and `FrameExclusive`. `FramesTaken` makes `first_frame`'s result new, and it
survives `free_frame`, which clears the wrong bit, because that bit is 0 and
frame 0 is excepted. `Owners` gives `PrivateTables`, `HeapTablesMade` gives
`ContractFindsTable`. For the identity map, `IdInv` adds `Filling` (while the boot
loop runs, exactly the pages below the counter are mapped, to themselves, and the
bits below are set while those above, in the cleared part, are not), and `Sharing`
(every finished directory has the kernel's low table). Page 0 is the subtle case: its
entry has frame 0, which `alloc_frame` takes for "none", so the proof needs that
nobody asks for a frame for it a second time. `HeapInv` says that the heap
is mapped up to a page below its end and below what a running expansion has passed:
`expand` may leave out the last page of a size it does not round, but then the heap
does not end on a page boundary, and it maps it when it is next called. `contract`
takes no present bit away, and the tables made before the first clone stay the
kernel's in every directory (`FirstShared`). `HeapFilling` says that the pages filled so
far have ascending frames, all bits between them are set, and none of the frames in
between is in an entry of another page; the next frame is above them all because
`first_frame` takes the lowest and the bits below stay set. Afterwards nothing gets a
frame in between, since their bits are set and `free_frame` clears only bit 0. Without
garbage between them the frames are consecutive.

*Task.* `IInv` is `TypeOK` and either `Booting` (until `initialise_tasking` is done,
with interrupts off from its `cli` on) or `Running`: `Chain` (`next` links the tasks in
the order of their ids, up to the one that `fork` has not yet linked), `Directories`
(each task has the one made for it), `ForkSteps` (how far the running task is in `fork`,
and that IF is clear there) and `Waiting` for every other task (it is parked where it
can resume, unless it is the child being made). That the queue is this chain is shown
by the least task that a walk would not reach.

*Kernel.* `IInv` ties `stage` to what the boot has done: the handler table, the
gates, the PICs' vectors, the tasks (an instance of `Task` with one task), the
controller's buffer and the ring: while a key waits unread without a request, it is the
only one typed and the ring is untouched. Each device or boot step changes few of its parts,
and the others are kept by a lemma each. The bit fields are arithmetic on powers of
`NIB`, the alignment of `kmalloc_int` on multiples of `PAGE`.

*Kheap.* The pieces of the heap are the holes in the index and the blocks handed out.
`Sound` says that they tile it: each begins with a header (`Placed`), they do not
overlap (`Apart`), every byte is in one (`Covered`), and a footer at the end of one
names its header (`Named`; the first hole has none). Further, the index has each hole
once and holes are marked as such, a block has the size asked for at least, its footer
and the mark of a block, and nothing is stored below the heap. `IInv` is `TypeOK`, a
heap no smaller than `HEAP_MIN_SIZE`, and, while `defects` is empty, `Sound`, an end of
the heap that is not beyond the pages mapped, and a machine that has not failed. None of the four properties is inductive without the
others: free finds its neighbours through footers, so blocks stay disjoint only if
footers name headers; footers stay right only if what is written lies in one piece;
and the index stays right only if a piece that vanishes was in it. Every operation is
seen as a replacement (`Replaces`) of adjacent pieces by others that take the same room,
or the room up to the new end of the heap, storing nothing outside of it. `Replace`
shows once that the heap is then tiled again, `Reassemble` that it is sound again.
What remains for each operation is which pieces it replaces: `Carve` one hole by up to
three pieces, `Expand` the last hole or nothing by a larger hole, `Free` the block and
up to two holes around it by one hole, which contract may cut short. That it is there
that the defects come in shows in the proofs: each is used as the negation of a case
that could not be excluded otherwise. `TypeOK` holds after a defect too, and is proved
without `Sound`.

*Monitor.* `IInv` has the screen's type, that the lines below the cursor are blank,
that the hardware cursor is the driver's, and for a padded message what its line looks
like after each character. The refinement is shown for
each kind of character: before a line break, after it, and with scrolling, which drops
the terminal's first line. The digits need no invariant: a call writes all of them.
For `HexShown`, dividing by `HEX * pow[k]` is dividing by `pow[k]` and then by `HEX`,
so that the nibbles from the highest one that is not zero count up to the number; for
`DecShown`, for a number that fits an `s32int`, reversing the remainders of `acc` puts the one found last in front, by
induction on `acc`.

*Initrd.* A buffer `Says` a name if its characters up to the first zero are those of
the name; `strlen`, `strcmp` and `strcpy` are characterised for such buffers. `Built`
says that nodes and files agree. For reads, `Laid` says that after `i` files the
offset counted is the length written and that each file's data is where its header
points; it is shown by induction over `i`.

Induction is done with sets: the least natural number outside a set exists
(`NatLessThanWellFounded`), so that a set with 0 that is closed under successor has
them all. That recursive functions (`off` and `written` of `Initrd`, `pow` and `c` of
`Monitor`) satisfy their own equations is shown the same way: up to each number, some
function satisfies them.

### Only model-checked

- The liveness properties `ForkedTaskFaults` and `Greets`: fairness and `ENABLED` are outside the prover's reach.
- The properties that the code violates.

Every invariant and action property of a passing run, and both refinements, are proved.

## Not modelled

- The ELF loader (`sys/elf.c`): it is not in the Makefile, and it does not compile.
- `strcat`, `create_ordered_array`, `test_frame`: no caller. `getpid` and `inw` change
  nothing.
- `clone_table` clears 8 KB of a 4 KB table, and `move_stack` rewrites values on the
  stack that look like base pointers: contents of heap blocks and stacks are not
  modelled.
- Preemption inside the heap or the monitor driver: it needs a second task, and
  nothing in the repository calls `fork`.
- Sizes, not contents, connect `Kernel` with `Paging`: an overlap of bitset and
  directory is detected, its consequences are not followed.
- Scancode tables, access bytes of descriptors, the PIT's divisor, colours: data that
  no property tells apart.

## Plan

Every part that is built is modelled, and every safety property that a run checks is a
theorem. Of the properties, only the two of liveness rest on the bounds of their runs.
