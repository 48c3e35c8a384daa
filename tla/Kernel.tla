------------------------------- MODULE Kernel -------------------------------
(***************************************************************************)
(* The composition: kernel_start (sys/main.c) brings up descriptor tables, *)
(* timer, paging, tasks, system calls and keyboard one after the other     *)
(* while interrupts are already on, enters user mode and loops there.      *)
(*                                                                         *)
(* Modelled here: sys/descriptor_tables.c, sys/isr.c, sys/interrupt.s,     *)
(* sys/timer.c, sys/syscall.c, init_keyboard_driver, and what the hardware *)
(* does with them (8259 PICs, 8042 keyboard controller, descriptor and TSS *)
(* lookups of the CPU).  Tasks are those of module Task; kernel_start is   *)
(* the only one.  Paging, heap, ramdisk, ring buffer and monitor have      *)
(* modules of their own and appear here as single steps.                   *)
(***************************************************************************)
EXTENDS Integers

CONSTANTS
    MaxTasks,   \* as in Task
    NIB,        \* values of four bits (16); every field width is a power of it
    TssAddrs,   \* where the linker may put tss_entry
    TssSize,    \* sizeof (tss_entry_t)
    MaxKeys,    \* bound: keys typed
    PAGE,       \* 0x1000
    IDENTITY,   \* 0x400000, the end of the identity map
    KernelEnd,  \* &end
    InitrdEnds, \* where the boot loader may have put the end of the ramdisk
    FramesAsked, FramesUsed, DirSize, TableSize, HeapSize
                \* bytes of the frame bitset (128, of 512 used), of a directory
                \* (8196), of a page table (4096) and of a heap_t

U8  == NIB * NIB
U12 == NIB * U8
U16 == U8 * U8
U20 == NIB * U16
U32 == U16 * U16

(* The kernel is linked at 1 MB, and the TSS does not reach the next one.  *)
(* The bytes of the bitset that are used but not asked for are fewer than  *)
(* those of a directory.                                                   *)
ASSUME KernelAssumption ==
    /\ MaxTasks \in Nat \ {0} /\ MaxKeys \in Nat
    /\ NIB \in Nat /\ NIB >= 4 /\ U32 % 256 = 0
    /\ TssSize \in 4..U20
    /\ \A a \in TssAddrs : a \in 0..(U32 - 1) /\ (a % U20) + TssSize < U20
    /\ PAGE \in Nat \ {0} /\ IDENTITY \in Nat /\ KernelEnd \in Nat /\ PAGE < KernelEnd
    /\ InitrdEnds \subseteq Nat /\ \A e \in InitrdEnds : KernelEnd < e
    /\ FramesUsed \in Nat /\ FramesAsked \in 1..FramesUsed
    /\ DirSize \in Nat \ {0} /\ TableSize \in Nat \ {0} /\ HeapSize \in Nat \ {0}
    /\ FramesUsed - FramesAsked <= DirSize

VARIABLES
    next_pid, ready_queue, current_task, current_directory, ndirs, next, eip,
    page_directory, parent_task, new_task, ret, pc, IF_flag, status,  \* of Task
    stage,              \* the next step of kernel_start
    tss_addr,           \* &tss_entry
    gdt_entries,        \* the table lgdt has loaded
    idt_entries,        \* the gates of the table lidt has loaded
    interrupt_handlers, \* by vector; "none" is NULL
    esp0, kernel_stack, \* "null", "mapped" or "unmapped": of the TSS, of the task
    vector_base,        \* PICs: vector of the first line of master and slave
    irr, isr,           \* PICs: lines requesting, lines in service
    obf,                \* keyboard controller: its output buffer holds a scancode
    typed,              \* keys sent to the controller so far
    current_layout,     \* "NULL" or "us"
    keyboard_buffer, keyboard_buffer_start, keyboard_buffer_end,
    printed,            \* what the system call has written
    placement_address, initrd_end,
    placed              \* the pointers to what initialise_paging allocates

(* clone_table leaves the stack out of a clone (paging.c:268).             *)
T == INSTANCE Task WITH child_stack <- "missing"

tasks    == <<next_pid, ready_queue, current_task, current_directory, ndirs, next, eip,
              page_directory, parent_task, new_task, ret, pc>>
machine  == <<tasks, IF_flag, status>>
dt       == <<tss_addr, gdt_entries, idt_entries>>
pics     == <<vector_base, irr, isr>>
tss      == <<esp0, kernel_stack>>
ring     == <<keyboard_buffer, keyboard_buffer_start, keyboard_buffer_end>>
keyboard == <<obf, typed, current_layout, ring>>
memory   == <<placement_address, initrd_end, placed>>
vars     == <<machine, stage, dt, interrupt_handlers, tss, pics, keyboard, printed,
              memory>>

Line   == {0, 1, 2, 8}      \* timer, keyboard, cascade, real-time clock
Vector == 0..255
IRQ0   == 32
IRQ1   == 33

Handler == {"none", "timer_callback", "page_fault", "syscall_handler",
            "keyboard_handler"}

TypeOK ==
    /\ stage \in {"gdt", "idt", "handlers", "sti", "timer", "mods", "paging",
                  "tasking", "initrd", "syscalls", "kb_register", "kb_layout",
                  "kb_start", "kb_end", "user_mode", "hello", "loop"}
    /\ idt_entries \subseteq Vector
    /\ interrupt_handlers \in [Vector -> Handler]
    /\ esp0 \in {"null", "mapped", "unmapped"}
    /\ kernel_stack \in {"null", "mapped", "unmapped"}
    /\ irr \subseteq Line /\ isr \subseteq Line
    /\ obf \in BOOLEAN /\ typed \in 0..MaxKeys
    /\ current_layout \in {"NULL", "us"}
    /\ keyboard_buffer \in [0..MaxKeys -> {"zero", "char", "garbage"}]
    /\ keyboard_buffer_start = 0
    /\ keyboard_buffer_end \in 0..MaxKeys
    /\ printed \in {"nothing", "text", "number"}
    /\ status \in {"ok", "wild", "panic", "assert", "reset"}
    /\ placement_address \in Nat /\ initrd_end \in {0} \cup InitrdEnds
    /\ placed \in [{"frames", "kernel_directory", "heap_table", "identity_table",
                    "kheap"} -> Nat]

-----------------------------------------------------------------------------
(* gdt_set_gate.  The access byte is left out, and of the high half of     *)
(* gran all but the granularity.                                           *)
gdt_set_gate(base, limit, gran) ==
    [base_low    |-> base % U16,
     base_middle |-> (base \div U16) % U8,
     base_high   |-> (base \div (U16 * U8)) % U8,
     limit_low   |-> limit % U16,
     granularity |-> (limit \div U16) % NIB,
     gran        |-> gran]

(* What the CPU reads out of a descriptor.                                 *)
Base(e)  == e.base_low + U16 * e.base_middle + U16 * U8 * e.base_high
Limit(e) == LET l == e.limit_low + U16 * e.granularity
            IN  IF e.gran = "pages" THEN l * U12 + U12 - 1 ELSE l

(* write_tss computes the limit as an end address.                         *)
write_tss == gdt_set_gate(tss_addr, (tss_addr + TssSize) % U32, "bytes")

(* Where the linker put the stub of a vector, and the stub at an address.  *)
Stub(v) == U16 - 100 + 3 * v
StubAt(a) == {v \in Vector : Stub(v) = a}

(* idt_set_gate.  flags | 0x60 opens every gate to ring 3.                 *)
idt_set_gate(base) ==
    [base_lo |-> base % U16, base_hi |-> (base \div U16) % U16, dpl |-> 3]

GateTarget(v) ==
    LET e == idt_set_gate(Stub(v)) IN StubAt(e.base_lo + U16 * e.base_hi)

(* boot.s has disabled interrupts.  The PICs are as the BIOS leaves them.  *)
Init ==
    /\ T!NoTask /\ IF_flag = FALSE
    /\ stage = "gdt"
    /\ tss_addr \in TssAddrs
    /\ gdt_entries = [s \in 0..5 |-> gdt_set_gate(0, 0, "bytes")]
    /\ idt_entries = {}
    /\ interrupt_handlers = [v \in Vector |-> "none"]
    /\ esp0 = "null" /\ kernel_stack = "null"
    /\ vector_base = [master |-> 8, slave |-> 112]
    /\ irr = {} /\ isr = {}
    /\ obf = FALSE /\ typed = 0
    /\ current_layout = "NULL"
    /\ keyboard_buffer = [n \in 0..MaxKeys |-> "zero"]
    /\ keyboard_buffer_start = 0 /\ keyboard_buffer_end = 0
    /\ printed = "nothing"
    /\ placement_address = KernelEnd /\ initrd_end = 0
    /\ placed = [p \in {"frames", "kernel_directory", "heap_table", "identity_table",
                        "kheap"} |-> 0]

-----------------------------------------------------------------------------
(* kernel_start *)
Step(from, to) == status = "ok" /\ stage = from /\ stage' = to

(* cli, a message and hlt.                                                 *)
panic        == status' = "panic" /\ IF_flag' = FALSE
panic_assert == status' = "assert" /\ IF_flag' = FALSE

page_fault == panic

register_interrupt_handler(num, handler) ==
    interrupt_handlers' = [interrupt_handlers EXCEPT ![num] = handler]

init_gdt ==
    /\ Step("gdt", "idt")
    /\ gdt_entries' = [s \in 0..5 |->
          CASE s = 0        -> gdt_set_gate(0, 0, "bytes")
            [] s \in 1..4   -> gdt_set_gate(0, U32 - 1, "pages")
            [] s = 5        -> write_tss]
    /\ esp0' = "null"
    /\ UNCHANGED <<machine, tss_addr, idt_entries, interrupt_handlers, kernel_stack,
                   pics, keyboard, printed, memory>>

(* Mutant: the PICs keep the vectors of the BIOS.                          *)
init_idt_NoRemap ==
    /\ Step("idt", "handlers")
    /\ idt_entries' = 0..47 \cup {128}
    /\ UNCHANGED <<machine, tss_addr, gdt_entries, interrupt_handlers, tss, pics,
                   keyboard, printed, memory>>

(* The PICs are started anew, which forgets their requests, and moved to   *)
(* vectors 32 and 40, all lines unmasked; then come the gates.             *)
init_idt ==
    /\ Step("idt", "handlers")
    /\ vector_base' = [master |-> 32, slave |-> 40]
    /\ irr' = {} /\ isr' = {}
    /\ idt_entries' = 0..47 \cup {128}
    /\ UNCHANGED <<machine, tss_addr, gdt_entries, interrupt_handlers, tss, keyboard,
                   printed, memory>>

init_descriptor_tables ==
    \/ init_gdt
    \/ init_idt
    \/ /\ Step("handlers", "sti")
       /\ interrupt_handlers' = [v \in Vector |-> "none"]
       /\ UNCHANGED <<machine, dt, tss, pics, keyboard, printed, memory>>

(* asm volatile ("sti") *)
EnableInterrupts ==
    /\ Step("sti", "timer")
    /\ IF_flag' = TRUE
    /\ UNCHANGED <<tasks, status>>
    /\ UNCHANGED <<dt, interrupt_handlers, tss, pics, keyboard, printed, memory>>

(* The frequency the PIT is set to does not matter here.                   *)
init_timer ==
    /\ Step("timer", "mods")
    /\ register_interrupt_handler(IRQ0, "timer_callback")
    /\ UNCHANGED <<machine, dt, tss, pics, keyboard, printed, memory>>

(* kmalloc_int while there is no heap: the address and what is then left.  *)
kmalloc_int(p, sz, align) ==
    LET tmp == IF align /\ p >= PAGE THEN (p \div PAGE) * PAGE + PAGE ELSE p
    IN  [tmp |-> tmp, placement_address |-> tmp + sz]

(* Mutant: the placement address stays behind the kernel.                  *)
CheckModules_Trample ==
    /\ Step("mods", "paging")
    /\ initrd_end' \in InitrdEnds
    /\ UNCHANGED <<machine, dt, interrupt_handlers, tss, pics, keyboard, printed,
                   placement_address, placed>>

(* ASSERT (mboot_ptr->mods_count > 0), then initrd_end is read.            *)
CheckModules ==
    /\ Step("mods", "paging")
    /\ \/ panic_assert /\ UNCHANGED memory
       \/ /\ initrd_end' \in InitrdEnds
          /\ placement_address' = initrd_end'
          /\ UNCHANGED <<status, IF_flag, placed>>
    /\ UNCHANGED tasks
    /\ UNCHANGED <<dt, interrupt_handlers, tss, pics, keyboard, printed>>

(* What initialise_paging allocates; module Paging says what it does with  *)
(* it.  Once paging is on, a heap_t outside the identity map is a page     *)
(* fault.                                                                  *)
initialise_paging ==
    LET frames == kmalloc_int(placement_address, FramesAsked, FALSE)
        dir    == kmalloc_int(frames.placement_address, DirSize, TRUE)
        heap   == kmalloc_int(dir.placement_address, TableSize, TRUE)
        ident  == kmalloc_int(heap.placement_address, TableSize, TRUE)
        kheap  == kmalloc_int(ident.placement_address, HeapSize, FALSE)
    IN  /\ Step("paging", "tasking")
        /\ register_interrupt_handler(14, "page_fault")
        /\ placed' = [frames |-> frames.tmp, kernel_directory |-> dir.tmp,
                      heap_table |-> heap.tmp, identity_table |-> ident.tmp,
                      kheap |-> kheap.tmp]
        /\ placement_address' = kheap.placement_address
        /\ IF kheap.placement_address <= IDENTITY
           THEN UNCHANGED <<status, IF_flag>>
           ELSE page_fault
        /\ UNCHANGED tasks
        /\ UNCHANGED <<initrd_end, dt, tss, pics, keyboard, printed>>

(* Task's three steps.  kmalloc leaves in kernel_stack what was there, and *)
(* nobody sets it.                                                         *)
initialise_tasking ==
    /\ status = "ok" /\ stage = "tasking"
    /\ \/ /\ T!InitCli(1)
          /\ UNCHANGED <<stage, kernel_stack>>
       \/ /\ T!InitAlloc(1)
          /\ kernel_stack' \in {"mapped", "unmapped"}
          /\ UNCHANGED stage
       \/ /\ T!InitFields(1)
          /\ stage' = "initrd"
          /\ UNCHANGED kernel_stack
    /\ UNCHANGED <<dt, interrupt_handlers, esp0, pics, keyboard, printed, memory>>

(* Module Initrd says what this does.                                      *)
initialise_initrd ==
    /\ Step("initrd", "syscalls")
    /\ UNCHANGED <<machine, dt, interrupt_handlers, tss, pics, keyboard, printed, memory>>

initialise_syscalls ==
    /\ Step("syscalls", "kb_register")
    /\ register_interrupt_handler(128, "syscall_handler")
    /\ UNCHANGED <<machine, dt, tss, pics, keyboard, printed, memory>>

(* Mutant: the indices are reset before the layout is set.                 *)
init_keyboard_driver_ResetFirst ==
    /\ \/ /\ Step("kb_register", "kb_start")
          /\ register_interrupt_handler(IRQ1, "keyboard_handler")
          /\ UNCHANGED <<current_layout, ring>>
       \/ /\ Step("kb_start", "kb_end")
          /\ keyboard_buffer_start' = 0
          /\ UNCHANGED <<interrupt_handlers, current_layout, keyboard_buffer,
                         keyboard_buffer_end>>
       \/ /\ Step("kb_end", "kb_layout")
          /\ keyboard_buffer_end' = 0
          /\ UNCHANGED <<interrupt_handlers, current_layout, keyboard_buffer,
                         keyboard_buffer_start>>
       \/ /\ Step("kb_layout", "user_mode")
          /\ current_layout' = "us"
          /\ UNCHANGED <<interrupt_handlers, ring>>
    /\ UNCHANGED <<machine, dt, tss, pics, obf, typed, printed, memory>>

(* A key can interrupt between any two of its statements.                  *)
init_keyboard_driver ==
    /\ \/ /\ Step("kb_register", "kb_layout")
          /\ register_interrupt_handler(IRQ1, "keyboard_handler")
          /\ UNCHANGED <<current_layout, ring>>
       \/ /\ Step("kb_layout", "kb_start")
          /\ current_layout' = "us"
          /\ UNCHANGED <<interrupt_handlers, ring>>
       \/ /\ Step("kb_start", "kb_end")
          /\ keyboard_buffer_start' = 0
          /\ UNCHANGED <<interrupt_handlers, current_layout, keyboard_buffer,
                         keyboard_buffer_end>>
       \/ /\ Step("kb_end", "user_mode")
          /\ keyboard_buffer_end' = 0
          /\ UNCHANGED <<interrupt_handlers, current_layout, keyboard_buffer,
                         keyboard_buffer_start>>
    /\ UNCHANGED <<machine, dt, tss, pics, obf, typed, printed, memory>>

switch_to_user_mode ==
    /\ Step("user_mode", "hello")
    /\ esp0' = kernel_stack
    /\ T!switch_to_user_mode(1)
    /\ UNCHANGED <<dt, interrupt_handlers, kernel_stack, pics, keyboard, printed, memory>>

-----------------------------------------------------------------------------
(* System calls.  The number a stub passes is an index of the table.       *)
SyscallNumber == [monitor_write |-> 0, monitor_write_hex |-> 1, monitor_write_dec |-> 2]

syscalls == <<"monitor_write", "monitor_write_hex", "monitor_write_dec">>

num_syscalls == 3

syscall_handler(eax) ==
    printed' = IF eax >= num_syscalls THEN printed
               ELSE IF syscalls[eax + 1] = "monitor_write" THEN "text" ELSE "number"

(* push byte v in the stubs of interrupt.s extends the sign.               *)
Pushed(v) == IF v < 128 THEN v ELSE U32 - 256 + v

(* Mutant: the vector is used as it was pushed.                            *)
isr_handler_Unmasked(v, eax) ==
    IF Pushed(v) \in Vector
    THEN panic /\ UNCHANGED printed
    ELSE status' = "wild" /\ UNCHANGED <<IF_flag, printed>>

isr_handler(v, eax) ==
    LET handler == interrupt_handlers[Pushed(v) % 256]
    IN  IF handler = "syscall_handler"
        THEN syscall_handler(eax) /\ UNCHANGED <<status, IF_flag>>
        ELSE /\ IF handler = "page_fault" THEN page_fault ELSE panic
             /\ UNCHANGED printed

(* An exception or int instruction in ring 3: the CPU finds esp0 in the    *)
(* TSS, the TSS through the GDT and the stub through the IDT; an esp0 that *)
(* is not mapped makes it reset.                                           *)
Trap(v, eax) ==
    LET e == gdt_entries[5]
    IN  IF /\ Base(e) = tss_addr /\ Limit(e) >= 3 /\ esp0 = "mapped"
           /\ v \in idt_entries /\ GateTarget(v) = {v}
           /\ v = 128 => idt_set_gate(Stub(v)).dpl = 3
        THEN isr_handler(v, eax)
        ELSE status' = "reset" /\ UNCHANGED <<IF_flag, printed>>

(* syscall_monitor_write ("Hello, user world!\n"), in ring 3.              *)
Hello ==
    /\ Step("hello", "loop")
    /\ Trap(128, SyscallNumber.monitor_write)
    /\ UNCHANGED tasks
    /\ UNCHANGED <<dt, interrupt_handlers, tss, pics, keyboard, memory>>

(* keyboard_getchar finds a character, in ring 3: the increment of         *)
(* keyboard_buffer_start is a store to the read-only identity map.         *)
UserGetchar ==
    /\ status = "ok" /\ stage = "loop"
    /\ keyboard_buffer_start # keyboard_buffer_end
    /\ Trap(14, 0)
    /\ UNCHANGED tasks
    /\ UNCHANGED <<stage, dt, interrupt_handlers, tss, pics, keyboard, memory>>

kernel_start ==
    \/ init_descriptor_tables \/ EnableInterrupts \/ init_timer \/ CheckModules
    \/ initialise_paging \/ initialise_tasking \/ initialise_initrd
    \/ initialise_syscalls \/ init_keyboard_driver \/ switch_to_user_mode
    \/ Hello \/ UserGetchar

-----------------------------------------------------------------------------
(* timer_callback: switch_task, which returns at once before there is a    *)
(* task, and else sets the TSS's stack too.                                *)
timer_callback ==
    /\ IF current_task = T!NULL
       THEN UNCHANGED <<machine, esp0>>
       ELSE T!switch_task /\ esp0' = kernel_stack
    /\ UNCHANGED keyboard

(* Mutant: the port is read only for a scancode that has a character.      *)
keyboard_handler_ReadLate ==
    /\ \/ /\ obf' = FALSE
          /\ keyboard_buffer' = [keyboard_buffer EXCEPT ![keyboard_buffer_end] =
                                   IF current_layout = "us" THEN "char" ELSE "garbage"]
          /\ keyboard_buffer_end' = keyboard_buffer_end + 1
       \/ UNCHANGED <<obf, keyboard_buffer, keyboard_buffer_end>>
    /\ UNCHANGED <<machine, esp0, typed, current_layout, keyboard_buffer_start>>

(* Mutant: the end is advanced twice.                                      *)
keyboard_handler_Twice ==
    /\ obf' = FALSE
    /\ keyboard_buffer' = [keyboard_buffer EXCEPT ![keyboard_buffer_end] = "char"]
    /\ keyboard_buffer_end' = keyboard_buffer_end + 2
    /\ UNCHANGED <<machine, esp0, typed, current_layout, keyboard_buffer_start>>

(* keyboard_handler.  A character is looked up in the layout, at NULL too; *)
(* for a control key or a release nothing is stored.                       *)
keyboard_handler ==
    /\ obf' = FALSE
    /\ \/ /\ keyboard_buffer' = [keyboard_buffer EXCEPT ![keyboard_buffer_end] =
                                   IF current_layout = "us" THEN "char" ELSE "garbage"]
          /\ keyboard_buffer_end' = keyboard_buffer_end + 1
       \/ UNCHANGED <<keyboard_buffer, keyboard_buffer_end>>
    /\ UNCHANGED <<machine, esp0, typed, current_layout, keyboard_buffer_start>>

Highest(lines) == {l \in lines : \A m \in lines : l <= m}

(* Mutant: the slave's boundary as the comment gives it, "> 40".           *)
EndOfInterrupt_Above40(int_no, lines) ==
    (IF int_no > 40 THEN Highest(lines \cap {8}) ELSE {})
        \cup Highest(lines \cap {0, 1, 2})

(* The in-service lines that the EOIs of irq_handler end.                  *)
EndOfInterrupt(int_no, lines) ==
    (IF int_no >= 40 THEN Highest(lines \cap {8}) ELSE {})
        \cup Highest(lines \cap {0, 1, 2})

(* irq_handler: acknowledge, then call the handler, if there is one.       *)
irq_handler(int_no, lines) ==
    /\ isr' = lines \ EndOfInterrupt(int_no, lines)
    /\ CASE interrupt_handlers[int_no] = "timer_callback"   -> timer_callback
         [] interrupt_handlers[int_no] = "keyboard_handler" -> keyboard_handler
         [] OTHER -> UNCHANGED <<machine, esp0, keyboard>>

(* The PICs' highest request, unless one at least as high is in service.   *)
(* The slave's lines go through line 2 of the master.  A vector without a  *)
(* gate resets the machine; the gates below 32 lead to isr_handler, which  *)
(* finds no handler there.                                                 *)
Interrupt(l) ==
    /\ status = "ok" /\ IF_flag
    /\ l \in Highest(irr) /\ \A m \in isr : l < m
    /\ irr' = irr \ {l}
    /\ LET v     == IF l < 8 THEN vector_base.master + l ELSE vector_base.slave + l - 8
           lines == isr \cup {l} \cup (IF l = 8 THEN {2} ELSE {})
       IN  IF v \in 32..47 /\ v \in idt_entries /\ GateTarget(v) = {v}
           THEN irq_handler(v, lines)
           ELSE /\ isr' = lines
                /\ status' = (IF v \in idt_entries THEN "panic" ELSE "reset")
                /\ IF_flag' = FALSE
                /\ UNCHANGED <<tasks, esp0, keyboard>>
    /\ UNCHANGED <<stage, dt, interrupt_handlers, kernel_stack, vector_base, printed, memory>>

(* The devices.  PIT and real-time clock tick; the controller takes the    *)
(* next key when its buffer is empty, and only that raises IRQ1.           *)
Tick(l) ==
    /\ l \notin irr
    /\ irr' = irr \cup {l}
    /\ UNCHANGED <<machine, stage, dt, interrupt_handlers, tss, vector_base, isr,
                   keyboard, printed, memory>>

Key ==
    /\ ~obf /\ typed < MaxKeys
    /\ obf' = TRUE /\ typed' = typed + 1
    /\ irr' = irr \cup {1}
    /\ UNCHANGED <<machine, stage, dt, interrupt_handlers, tss, vector_base, isr,
                   current_layout, ring, printed, memory>>

Next ==
    \/ kernel_start
    \/ \E l \in {0, 1, 8} : Interrupt(l)
    \/ Tick(0) \/ Tick(8) \/ Key

Spec == Init /\ [][Next]_vars

(* Handlers return to kernel_start, which goes on.                         *)
FairSpec == Spec /\ WF_vars(kernel_start)
-----------------------------------------------------------------------------
UserMode == stage \in {"hello", "loop"}

(* The ramdisk ends so high that initialise_paging's data does not fit     *)
(* below the end of the identity map.                                      *)
NoRoom == placed.kheap # 0 /\ placed.kheap + HeapSize > IDENTITY

(* Whenever an interrupt can be taken, none is in service at either PIC:   *)
(* irq_handler has acknowledged every one, also those nobody handles, so   *)
(* no line is shut out.                                                    *)
InterruptsAcknowledged == IF_flag => isr = {}

(* Interrupts are on from main.c:60, before their handlers, paging and     *)
(* tasks are there, and none of them, at whichever step, stops the machine *)
(* while it boots; a ramdisk too high to place the page tables behind it   *)
(* does.  In user mode it stops only for a kernel_stack that is not        *)
(* mapped, or for a key that came in the last steps before it: the loop's  *)
(* keyboard_getchar may not store into kernel memory.                      *)
StopCauses ==
    /\ status \in {"ok", "assert"} \/ UserMode \/ NoRoom
    /\ status = "reset" => kernel_stack = "unmapped"
    /\ status = "panic" => NoRoom \/ (stage = "loop" /\ keyboard_buffer_end # 0)

(* keyboard.c:124 registers the handler before there is a layout.  What it *)
(* then stores, looked up through a null pointer, is never read.           *)
NoGarbageChar ==
    stage = "user_mode" \/ UserMode =>
        \A n \in keyboard_buffer_start..(keyboard_buffer_end - 1) :
            keyboard_buffer[n] = "char"

(* Under whatever interrupts, the kernel boots, enters user mode and is    *)
(* called back from there to print the greeting: through gate, TSS, sign-  *)
(* extended vector, handler table and system call table.  Only a missing   *)
(* ramdisk or a kernel_stack of garbage that is not mapped prevents it.    *)
Greets ==
    <>(printed = "text" \/ status = "assert" \/ NoRoom \/ kernel_stack = "unmapped")

Used == [frames |-> FramesUsed, kernel_directory |-> DirSize, heap_table |-> TableSize,
         identity_table |-> TableSize, kheap |-> HeapSize]

Overlap(p, q) ==
    placed[p] < placed[q] + Used[q] /\ placed[q] < placed[p] + Used[p]

(* What initialise_paging allocates lies behind the ramdisk, page-aligned  *)
(* where the MMU wants that, and apart; with one exception: the bitset is  *)
(* asked for in words and used in bytes, and its end lies in the directory *)
(* for just those ramdisks that leave too little of the page.              *)
PlacementSound ==
    placed.frames # 0 =>
        /\ \A p \in DOMAIN placed : initrd_end <= placed[p]
        /\ \A p \in {"kernel_directory", "heap_table", "identity_table"} :
              placed[p] % PAGE = 0
        /\ \A p, q \in DOMAIN placed : p # q /\ Overlap(p, q) =>
              {p, q} = {"frames", "kernel_directory"}
        /\ Overlap("frames", "kernel_directory") <=>
              (initrd_end + FramesAsked) % PAGE > PAGE - (FramesUsed - FramesAsked)

(* The controller holds a scancode and no request is pending: nothing will *)
(* make the handler read it, and no other key comes before that.           *)
Silenced == obf /\ 1 \notin irr

(* isr.c:64 acknowledges an interrupt that nobody handles, and init_idt    *)
(* forgets requests: a key typed before keyboard.c:124 silences the        *)
(* keyboard.  Only the first key ever can do that: a keyboard from which   *)
(* one scancode has been read, before, between or after the statements of  *)
(* init_keyboard_driver, is never silenced, and a silenced one has left    *)
(* nothing in the ring.                                                    *)
SilencedByFirstKey ==
    Silenced => /\ typed = 1 /\ keyboard_buffer_end = 0
                /\ \A n \in 0..MaxKeys : keyboard_buffer[n] = "zero"
=============================================================================
