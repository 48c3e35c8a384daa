---------------------------- MODULE Kernel_proofs ----------------------------
(***************************************************************************)
(* Proofs about the boot of the kernel under interrupts, for any widths,   *)
(* addresses and sizes that the assumptions allow and any number of keys   *)
(* and ticks.                                                              *)
(***************************************************************************)
EXTENDS Kernel, TLAPS

(* The steps of kernel_start with interrupts off, before the first task,   *)
(* and with the keyboard's handler installed.                              *)
BeforeSti == {"gdt", "idt", "handlers", "sti"}

BeforeTasks == BeforeSti \cup {"timer", "mods", "paging"}

WithKeyboard == {"kb_layout", "kb_start", "kb_end", "user_mode", "hello", "loop"}

(* The only task, and when the timer can interrupt it.                     *)
TaskInv ==
    /\ next \in [T!Task -> Int] /\ page_directory \in [T!Task -> Int]
    /\ pc \in [T!Task -> {"boot", "init_alloc", "init_fields", "run", "user"}]
    /\ eip \in [T!Task -> {"none", "switch"}]
    /\ current_directory = 1 /\ IF_flag \in BOOLEAN
    /\ stage \in BeforeSti \/ UserMode => ~IF_flag
    /\ stage \in BeforeTasks => pc[1] = "boot" /\ current_task = 0 /\ next_pid = 1
    /\ stage = "tasking" =>
          /\ next_pid = 1
          /\ pc[1] # "boot" => ~IF_flag
          /\ \/ pc[1] \in {"boot", "init_alloc"} /\ current_task = 0
             \/ pc[1] = "init_fields" /\ current_task = 1 /\ ready_queue = 1
                  /\ kernel_stack # "null"
    /\ stage \notin BeforeTasks \cup {"tasking"} =>
          /\ current_task = 1 /\ ready_queue = 1 /\ kernel_stack # "null"
          /\ next[1] = 0 /\ page_directory[1] = 1 /\ pc[1] \in {"run", "user"}

(* What the tables hold once kernel_start has come to a step.              *)
TablesInv ==
    /\ tss_addr \in TssAddrs
    /\ stage # "gdt" => gdt_entries[5] = write_tss
    /\ stage \notin {"gdt", "idt"} =>
          vector_base = [master |-> 32, slave |-> 40] /\ idt_entries = 0..47 \cup {128}

HandlersInv ==
    /\ interrupt_handlers[32] \in {"none", "timer_callback"}
    /\ interrupt_handlers[33] = IF stage \in WithKeyboard THEN "keyboard_handler" ELSE "none"
    /\ interrupt_handlers[40] = "none"
    /\ stage \notin BeforeTasks => interrupt_handlers[14] = "page_fault"
    /\ stage \in {"kb_register"} \cup WithKeyboard =>
          interrupt_handlers[128] = "syscall_handler"

(* Every interrupt is acknowledged, and every character that was stored    *)
(* was typed.                                                              *)
KeyboardInv ==
    /\ isr = {}
    /\ 1 \in irr => obf
    /\ keyboard_buffer_end <= typed
    /\ 1 \in irr => keyboard_buffer_end < typed
    /\ stage \in {"kb_start", "kb_end", "user_mode", "hello", "loop"} =>
          current_layout = "us"
    /\ NoGarbageChar

MemoryInv ==
    /\ stage \in BeforeTasks => placed.frames = 0
    /\ stage = "paging" /\ status = "ok" =>
          placement_address = initrd_end /\ initrd_end \in InitrdEnds
    /\ PlacementSound

(* In user mode the TSS holds the running task's kernel stack, however     *)
(* many ticks have come since initialise_tasking, or none.                 *)
TssFollowsTask == UserMode => esp0 = kernel_stack

IInv ==
    /\ TypeOK /\ status # "wild"
    /\ TaskInv /\ TablesInv /\ HandlersInv /\ KeyboardInv /\ MemoryInv
    /\ TssFollowsTask /\ StopCauses

-----------------------------------------------------------------------------
(* Arithmetic of fields and pages.                                         *)
LEMMA DivMod ==
    ASSUME NEW m \in Nat \ {0}, NEW x \in Nat
    PROVE  /\ x \div m \in Nat /\ x % m \in 0..(m - 1)
           /\ x = m * (x \div m) + (x % m)
OBVIOUS

LEMMA DivModUnique ==
    ASSUME NEW m \in Nat \ {0}, NEW x \in Nat, NEW q \in Nat, NEW r \in 0..(m - 1),
           x = m * q + r
    PROVE  x \div m = q /\ x % m = r
OBVIOUS

(* Two fields, of m and n values, hold a number below m * n.               *)
LEMMA TwoFields ==
    ASSUME NEW m \in Nat \ {0}, NEW n \in Nat \ {0}, NEW x \in Nat
    PROVE  /\ m * n \in Nat \ {0}
           /\ (x % m) + m * ((x \div m) % n) = x % (m * n)
           /\ x \div (m * n) = (x \div m) \div n
<1> DEFINE q == x \div m
           r == x % m
           p == q \div n
           s == q % n
<1>1. m * n \in Nat \ {0}
  OBVIOUS
<1>2. q \in Nat /\ r \in 0..(m - 1) /\ x = m * q + r
  BY DivMod
<1>3. p \in Nat /\ s \in 0..(n - 1) /\ q = n * p + s
  BY <1>2, DivMod
<1> HIDE DEF p, q, r, s
<1>4. x = (m * n) * p + (m * s + r)
  BY <1>2, <1>3
<1>5. m * s + r \in 0..(m * n - 1)
  <2>1. m * s <= m * (n - 1) /\ m * s \in Nat
    BY <1>3
  <2>2. m * (n - 1) = m * n - m
    OBVIOUS
  <2> QED BY <1>1, <1>2, <2>1, <2>2
<1>6. x \div (m * n) = p /\ x % (m * n) = m * s + r
  BY <1>1, <1>3, <1>4, <1>5, DivModUnique
<1> QED BY <1>1, <1>2, <1>3, <1>6 DEF p, q, r, s

(* What kmalloc_int aligns to.                                             *)
LEMMA NextPage ==
    ASSUME NEW x \in Nat
    PROVE  LET a == (x \div PAGE) * PAGE + PAGE
           IN  a \in Nat /\ a % PAGE = 0 /\ a = x - (x % PAGE) + PAGE /\ x < a
<1> DEFINE q == x \div PAGE
<1>1. PAGE \in Nat \ {0}
  BY KernelAssumption
<1>2. q \in Nat /\ x % PAGE \in 0..(PAGE - 1) /\ x = PAGE * q + (x % PAGE)
  BY <1>1, DivMod
<1> HIDE DEF q
<1>3. q * PAGE + PAGE = PAGE * (q + 1) + 0 /\ q * PAGE + PAGE \in Nat
  BY <1>1, <1>2
<1>4. (q * PAGE + PAGE) % PAGE = 0
  <2>1. q + 1 \in Nat /\ 0 \in 0..(PAGE - 1)
    BY <1>1, <1>2
  <2> QED BY <1>1, <1>3, <2>1, DivModUnique, Zenon
<1> QED BY <1>1, <1>2, <1>3, <1>4 DEF q

(* The widths, without what they are products of.                          *)
LEMMA Widths ==
    /\ NIB \in Nat \ {0} /\ U8 \in Nat \ {0} /\ U12 \in Nat \ {0}
    /\ U16 \in Nat /\ U16 >= 256 /\ U20 \in Nat \ {0}
    /\ U32 \in Nat /\ U32 >= 256 * U16 /\ U32 = (U16 * U8) * U8
    /\ U20 = U16 * NIB
    /\ \E k \in Nat : U32 = U20 * k
<1>1. NIB \in Nat /\ NIB >= 4
  BY KernelAssumption
<1>2. U8 \in Nat /\ U8 >= 16
  BY <1>1 DEF U8
<1>3. U16 \in Nat /\ U16 >= 256
  BY <1>2 DEF U16
<1>4. U12 \in Nat \ {0} /\ U20 \in Nat \ {0} /\ U20 = U16 * NIB
  BY <1>1, <1>2, <1>3 DEF U12, U20
<1>5. U32 \in Nat /\ U32 >= 256 * U16
  BY <1>3 DEF U32
<1>6. U32 = (U16 * U8) * U8
  <2> HIDE DEF U8
  <2> QED BY <1>2, <1>3 DEF U32, U16
<1>7. U12 \in Nat /\ U32 = U20 * U12
  <2>1. U20 * U12 = (NIB * U16) * (NIB * U8)
    BY DEF U20, U12
  <2>2. (NIB * U16) * (NIB * U8) = (U16 * (NIB * NIB)) * U8
    BY <1>1, <1>2, <1>3
  <2> QED BY <1>4, <1>6, <2>1, <2>2 DEF U8
<1> QED BY <1>1, <1>2, <1>3, <1>4, <1>5, <1>6, <1>7

(* The stubs that the gates of the vectors lead to.                        *)
LEMMA Gates ==
    ASSUME NEW v \in Vector PROVE GateTarget(v) = {v}
<1>1. Stub(v) \in Nat /\ Stub(v) < U32
  BY Widths DEF Stub, Vector
<1> DEFINE e == idt_set_gate(Stub(v))
<1>2. e.base_lo + U16 * e.base_hi = Stub(v)
  <2>1. e.base_lo = Stub(v) % U16 /\ e.base_hi = (Stub(v) \div U16) % U16
    BY DEF idt_set_gate
  <2>2. U16 \in Nat \ {0} /\ U32 = U16 * U16
    BY Widths DEF U32
  <2>3. (Stub(v) % U16) + U16 * ((Stub(v) \div U16) % U16) = Stub(v) % U32
    BY <1>1, <2>2, TwoFields
  <2>4. Stub(v) % U32 = Stub(v)
    BY <1>1, Widths
  <2> QED BY <2>1, <2>3, <2>4
<1>3. StubAt(Stub(v)) = {v}
  BY Widths DEF StubAt, Stub, Vector
<1> QED BY <1>2, <1>3 DEF GateTarget

(* The CPU reads back the address that write_tss has put into the          *)
(* descriptor, and a limit that covers esp0 although it is an end address. *)
LEMMA TssDescriptor ==
    ASSUME tss_addr \in TssAddrs
    PROVE  Base(write_tss) = tss_addr /\ Limit(write_tss) >= 3
<1> DEFINE a == tss_addr
           lim == (tss_addr + TssSize) % U32
<1>1. /\ a \in Nat /\ a < U32 /\ (a % U20) + TssSize < U20
      /\ TssSize \in Nat /\ TssSize >= 4
  BY KernelAssumption, Widths
<1>2. U16 \in Nat \ {0} /\ U8 \in Nat \ {0} /\ U20 \in Nat \ {0} /\ U32 \in Nat \ {0}
      /\ NIB \in Nat \ {0} /\ U16 * U8 \in Nat \ {0}
  BY Widths, TwoFields
<1>3. Base(write_tss) = (a % U16) + U16 * ((a \div U16) % U8)
                          + U16 * U8 * ((a \div (U16 * U8)) % U8)
  BY DEF Base, write_tss, gdt_set_gate
<1>4. (a % U16) + U16 * ((a \div U16) % U8) = a % (U16 * U8)
  BY <1>1, <1>2, TwoFields
<1>5. (a % (U16 * U8)) + (U16 * U8) * ((a \div (U16 * U8)) % U8) = a % U32
  BY <1>1, <1>2, TwoFields, Widths
<1>6. a % U32 = a
  BY <1>1, <1>2
<1>7. Limit(write_tss) = (lim % U16) + U16 * ((lim \div U16) % NIB)
  BY DEF Limit, write_tss, gdt_set_gate
<1>8. lim = a + TssSize
  <2>1. PICK k \in Nat : U32 = U20 * k
    BY Widths
  <2>2. a \div U20 \in Nat /\ a % U20 \in 0..(U20 - 1) /\ a = U20 * (a \div U20) + (a % U20)
    BY <1>1, <1>2, DivMod
  <2>3. PICK q \in Nat : q = a \div U20
    BY <2>2
  <2>4. U20 * q < U20 * k
    BY <1>1, <1>2, <2>1, <2>2, <2>3
  <2>5. q + 1 <= k
    BY <1>2, <2>4
  <2>6. U20 * q + U20 <= U20 * k
    BY <1>2, <2>5
  <2>7. a + TssSize < U32
    BY <1>1, <1>2, <2>1, <2>2, <2>3, <2>6
  <2> QED BY <1>1, <1>2, <2>7
<1> HIDE DEF a, lim
<1>9. Limit(write_tss) = (a + TssSize) % U20
  <2>1. lim \in Nat
    BY <1>1, <1>8
  <2>2. (lim % U16) + U16 * ((lim \div U16) % NIB) = lim % (U16 * NIB)
    BY <1>2, <2>1, TwoFields
  <2> QED BY <1>7, <1>8, <2>2, Widths
<1>10. (a + TssSize) % U20 = (a % U20) + TssSize
  <2>1. a \div U20 \in Nat /\ a % U20 \in 0..(U20 - 1) /\ a = U20 * (a \div U20) + (a % U20)
    BY <1>1, <1>2, DivMod
  <2>2. (a % U20) + TssSize \in 0..(U20 - 1)
    BY <1>1, <1>2, <2>1
  <2>3. a + TssSize = U20 * (a \div U20) + ((a % U20) + TssSize)
    <3>1. U20 * (a \div U20) \in Nat
      BY <1>2, <2>1
    <3> QED BY <1>1, <2>1, <3>1
  <2>4. a + TssSize \in Nat
    BY <1>1
  <2> QED BY <1>2, <2>1, <2>2, <2>3, <2>4, DivModUnique, Zenon
<1>11. a % U20 >= 0
  BY <1>1, <1>2, DivMod
<1> QED BY <1>1, <1>2, <1>3, <1>4, <1>5, <1>6, <1>9, <1>10, <1>11 DEF a

-----------------------------------------------------------------------------
(* kernel_start is the task with id 1.                                     *)
LEMMA OneTask == 1 \in T!Task
BY KernelAssumption DEF T!Task

(* The steps of kernel_start, interrupts and devices, one by one.          *)
LEMMA GdtStep ==
    ASSUME IInv, init_gdt PROVE IInv'
<1>1. /\ Step("gdt", "idt") /\ gdt_entries'[5] = write_tss /\ esp0' = "null"
      /\ UNCHANGED <<machine, tss_addr, idt_entries, interrupt_handlers, kernel_stack,
                     pics, keyboard, printed, memory>>
  BY DEF init_gdt
<1>2. TypeOK'
  BY <1>1 DEF IInv, TypeOK, Step, machine, dt, tss, pics, keyboard, ring, memory
<1>3. TaskInv'
  BY <1>1 DEF IInv, TaskInv, Step, machine, tasks, tss, UserMode, BeforeSti,
     BeforeTasks
<1>4. TablesInv'
  BY <1>1 DEF IInv, TablesInv, Step, dt, pics, write_tss
<1>5. HandlersInv'
  BY <1>1 DEF IInv, HandlersInv, Step, WithKeyboard, BeforeTasks, BeforeSti
<1>6. KeyboardInv'
  BY <1>1 DEF IInv, KeyboardInv, Step, pics, keyboard, ring, NoGarbageChar, UserMode
<1>7. MemoryInv'
  BY <1>1 DEF IInv, MemoryInv, Step, machine, memory, BeforeTasks, BeforeSti,
     PlacementSound, Overlap
<1>8. TssFollowsTask' /\ StopCauses' /\ status' # "wild"
  BY <1>1 DEF IInv, TssFollowsTask, StopCauses, UserMode, NoRoom, Step, machine, tss,
     keyboard, ring, memory
<1> QED BY <1>2, <1>3, <1>4, <1>5, <1>6, <1>7, <1>8 DEF IInv

LEMMA IdtStep ==
    ASSUME IInv, init_idt PROVE IInv'
<1>1. /\ Step("idt", "handlers")
      /\ vector_base' = [master |-> 32, slave |-> 40] /\ irr' = {} /\ isr' = {}
      /\ idt_entries' = 0..47 \cup {128}
      /\ UNCHANGED <<machine, tss_addr, gdt_entries, interrupt_handlers, tss, keyboard,
                     printed, memory>>
  BY DEF init_idt
<1>2. TypeOK'
  BY <1>1 DEF IInv, TypeOK, Step, machine, dt, tss, pics, keyboard, ring, memory,
     Vector
<1>3. TaskInv'
  BY <1>1 DEF IInv, TaskInv, Step, machine, tasks, tss, UserMode, BeforeSti,
     BeforeTasks
<1>4. TablesInv'
  BY <1>1 DEF IInv, TablesInv, Step, dt, pics, write_tss
<1>5. HandlersInv'
  BY <1>1 DEF IInv, HandlersInv, Step, WithKeyboard, BeforeTasks, BeforeSti
<1>6. KeyboardInv'
  BY <1>1 DEF IInv, KeyboardInv, Step, pics, keyboard, ring, NoGarbageChar, UserMode,
     TypeOK
<1>7. MemoryInv'
  BY <1>1 DEF IInv, MemoryInv, Step, machine, memory, BeforeTasks, BeforeSti,
     PlacementSound, Overlap
<1>8. TssFollowsTask' /\ StopCauses' /\ status' # "wild"
  BY <1>1 DEF IInv, TssFollowsTask, StopCauses, UserMode, NoRoom, Step, machine, tss,
     keyboard, ring, memory
<1> QED BY <1>2, <1>3, <1>4, <1>5, <1>6, <1>7, <1>8 DEF IInv

LEMMA HandlersStep ==
    ASSUME IInv, Step("handlers", "sti"),
           interrupt_handlers' = [v \in Vector |-> "none"],
           UNCHANGED <<machine, dt, tss, pics, keyboard, printed, memory>> PROVE IInv'
<1>1. /\ Step("handlers", "sti") /\ interrupt_handlers' = [v \in Vector |-> "none"]
      /\ UNCHANGED <<machine, dt, tss, pics, keyboard, printed, memory>>
  BY DEF Step
<1>2. TypeOK'
  <2>1. interrupt_handlers' \in [Vector -> Handler]
    BY <1>1 DEF Handler
  <2> QED
    BY <1>1, <2>1 DEF IInv, TypeOK, Step, machine, dt, tss, pics, keyboard, ring, memory
<1>3. TaskInv'
  BY <1>1 DEF IInv, TaskInv, Step, machine, tasks, tss, UserMode, BeforeSti,
     BeforeTasks
<1>4. TablesInv'
  BY <1>1 DEF IInv, TablesInv, Step, dt, pics, write_tss
<1>5. HandlersInv'
  BY <1>1 DEF IInv, HandlersInv, Step, WithKeyboard, BeforeTasks, BeforeSti, Vector
<1>6. KeyboardInv'
  BY <1>1 DEF IInv, KeyboardInv, Step, pics, keyboard, ring, NoGarbageChar, UserMode
<1>7. MemoryInv'
  BY <1>1 DEF IInv, MemoryInv, Step, machine, memory, BeforeTasks, BeforeSti,
     PlacementSound, Overlap
<1>8. TssFollowsTask' /\ StopCauses' /\ status' # "wild"
  BY <1>1 DEF IInv, TssFollowsTask, StopCauses, UserMode, NoRoom, Step, machine, tss,
     keyboard, ring, memory
<1> QED BY <1>2, <1>3, <1>4, <1>5, <1>6, <1>7, <1>8 DEF IInv

LEMMA StiStep ==
    ASSUME IInv, EnableInterrupts PROVE IInv'
<1>1. /\ Step("sti", "timer") /\ IF_flag' = TRUE
      /\ UNCHANGED <<tasks, status, dt, interrupt_handlers, tss, pics, keyboard, printed,
                     memory>>
  BY DEF EnableInterrupts
<1>2. TypeOK'
  BY <1>1 DEF IInv, TypeOK, Step, machine, dt, tss, pics, keyboard, ring, memory
<1>3. TaskInv'
  BY <1>1 DEF IInv, TaskInv, Step, machine, tasks, tss, UserMode, BeforeSti,
     BeforeTasks
<1>4. TablesInv'
  BY <1>1 DEF IInv, TablesInv, Step, dt, pics, write_tss
<1>5. HandlersInv'
  BY <1>1 DEF IInv, HandlersInv, Step, WithKeyboard, BeforeTasks, BeforeSti
<1>6. KeyboardInv'
  BY <1>1 DEF IInv, KeyboardInv, Step, pics, keyboard, ring, NoGarbageChar, UserMode
<1>7. MemoryInv'
  BY <1>1 DEF IInv, MemoryInv, Step, machine, memory, BeforeTasks, BeforeSti,
     PlacementSound, Overlap
<1>8. TssFollowsTask' /\ StopCauses' /\ status' # "wild"
  BY <1>1 DEF IInv, TssFollowsTask, StopCauses, UserMode, NoRoom, Step, machine, tss,
     keyboard, ring, memory
<1> QED BY <1>2, <1>3, <1>4, <1>5, <1>6, <1>7, <1>8 DEF IInv

LEMMA TimerStep ==
    ASSUME IInv, init_timer PROVE IInv'
<1>1. /\ Step("timer", "mods")
      /\ interrupt_handlers' = [interrupt_handlers EXCEPT ![32] = "timer_callback"]
      /\ UNCHANGED <<machine, dt, tss, pics, keyboard, printed, memory>>
  BY DEF init_timer, register_interrupt_handler, IRQ0
<1>2. TypeOK'
  BY <1>1 DEF IInv, TypeOK, Step, machine, dt, tss, pics, keyboard, ring, memory,
     Vector, Handler
<1>3. TaskInv'
  BY <1>1 DEF IInv, TaskInv, Step, machine, tasks, tss, UserMode, BeforeSti,
     BeforeTasks
<1>4. TablesInv'
  BY <1>1 DEF IInv, TablesInv, Step, dt, pics, write_tss
<1>5. HandlersInv'
  BY <1>1 DEF IInv, HandlersInv, Step, WithKeyboard, BeforeTasks, BeforeSti, TypeOK,
     Vector
<1>6. KeyboardInv'
  BY <1>1 DEF IInv, KeyboardInv, Step, pics, keyboard, ring, NoGarbageChar, UserMode
<1>7. MemoryInv'
  BY <1>1 DEF IInv, MemoryInv, Step, machine, memory, BeforeTasks, BeforeSti,
     PlacementSound, Overlap
<1>8. TssFollowsTask' /\ StopCauses' /\ status' # "wild"
  BY <1>1 DEF IInv, TssFollowsTask, StopCauses, UserMode, NoRoom, Step, machine, tss,
     keyboard, ring, memory
<1> QED BY <1>2, <1>3, <1>4, <1>5, <1>6, <1>7, <1>8 DEF IInv

LEMMA ModulesStep ==
    ASSUME IInv, CheckModules PROVE IInv'
<1>1. /\ Step("mods", "paging") /\ placed' = placed
      /\ UNCHANGED <<tasks, dt, interrupt_handlers, tss, pics, keyboard, printed>>
      /\ \/ /\ status' = "assert" /\ IF_flag' = FALSE /\ initrd_end' = initrd_end
            /\ placement_address' = placement_address
         \/ /\ initrd_end' \in InitrdEnds /\ placement_address' = initrd_end'
            /\ UNCHANGED <<status, IF_flag>>
  BY DEF CheckModules, panic_assert, memory
<1>2. TypeOK'
  <2>1. status' \in {"ok", "wild", "panic", "assert", "reset"}
    BY <1>1 DEF IInv, TypeOK
  <2>2. placement_address' \in Nat /\ initrd_end' \in {0} \cup InitrdEnds
    BY <1>1, KernelAssumption DEF IInv, TypeOK
  <2> QED
    BY <1>1, <2>1, <2>2 DEF IInv, TypeOK, Step, dt, tss, pics, keyboard, ring
<1>3. TaskInv'
  BY <1>1 DEF IInv, TaskInv, Step, machine, tasks, tss, UserMode, BeforeSti,
     BeforeTasks
<1>4. TablesInv'
  BY <1>1 DEF IInv, TablesInv, Step, dt, pics, write_tss
<1>5. HandlersInv'
  BY <1>1 DEF IInv, HandlersInv, Step, WithKeyboard, BeforeTasks, BeforeSti
<1>6. KeyboardInv'
  BY <1>1 DEF IInv, KeyboardInv, Step, pics, keyboard, ring, NoGarbageChar, UserMode
<1>7. MemoryInv'
  <2>1. placed'.frames = 0
    BY <1>1 DEF IInv, MemoryInv, Step, BeforeTasks, BeforeSti
  <2> QED BY <1>1, <2>1 DEF MemoryInv, PlacementSound, Step
<1>8. TssFollowsTask' /\ StopCauses' /\ status' # "wild"
  BY <1>1 DEF IInv, TssFollowsTask, StopCauses, UserMode, NoRoom, Step, machine, tss,
     keyboard, ring, memory
<1> QED BY <1>2, <1>3, <1>4, <1>5, <1>6, <1>7, <1>8 DEF IInv

LEMMA InitrdStep ==
    ASSUME IInv, initialise_initrd PROVE IInv'
<1>1. /\ Step("initrd", "syscalls")
      /\ UNCHANGED <<machine, dt, interrupt_handlers, tss, pics, keyboard, printed, memory>>
  BY DEF initialise_initrd
<1>2. TypeOK'
  BY <1>1 DEF IInv, TypeOK, Step, machine, dt, tss, pics, keyboard, ring, memory
<1>3. TaskInv'
  BY <1>1 DEF IInv, TaskInv, Step, machine, tasks, tss, UserMode, BeforeSti,
     BeforeTasks
<1>4. TablesInv'
  BY <1>1 DEF IInv, TablesInv, Step, dt, pics, write_tss
<1>5. HandlersInv'
  BY <1>1 DEF IInv, HandlersInv, Step, WithKeyboard, BeforeTasks, BeforeSti
<1>6. KeyboardInv'
  BY <1>1 DEF IInv, KeyboardInv, Step, pics, keyboard, ring, NoGarbageChar, UserMode
<1>7. MemoryInv'
  BY <1>1 DEF IInv, MemoryInv, Step, machine, memory, BeforeTasks, BeforeSti,
     PlacementSound, Overlap
<1>8. TssFollowsTask' /\ StopCauses' /\ status' # "wild"
  BY <1>1 DEF IInv, TssFollowsTask, StopCauses, UserMode, NoRoom, Step, machine, tss,
     keyboard, ring, memory
<1> QED BY <1>2, <1>3, <1>4, <1>5, <1>6, <1>7, <1>8 DEF IInv

LEMMA SyscallsStep ==
    ASSUME IInv, initialise_syscalls PROVE IInv'
<1>1. /\ Step("syscalls", "kb_register")
      /\ interrupt_handlers' = [interrupt_handlers EXCEPT ![128] = "syscall_handler"]
      /\ UNCHANGED <<machine, dt, tss, pics, keyboard, printed, memory>>
  BY DEF initialise_syscalls, register_interrupt_handler
<1>2. TypeOK'
  BY <1>1 DEF IInv, TypeOK, Step, machine, dt, tss, pics, keyboard, ring, memory,
     Vector, Handler
<1>3. TaskInv'
  BY <1>1 DEF IInv, TaskInv, Step, machine, tasks, tss, UserMode, BeforeSti,
     BeforeTasks
<1>4. TablesInv'
  BY <1>1 DEF IInv, TablesInv, Step, dt, pics, write_tss
<1>5. HandlersInv'
  BY <1>1 DEF IInv, HandlersInv, Step, WithKeyboard, BeforeTasks, BeforeSti, TypeOK,
     Vector
<1>6. KeyboardInv'
  BY <1>1 DEF IInv, KeyboardInv, Step, pics, keyboard, ring, NoGarbageChar, UserMode
<1>7. MemoryInv'
  BY <1>1 DEF IInv, MemoryInv, Step, machine, memory, BeforeTasks, BeforeSti,
     PlacementSound, Overlap
<1>8. TssFollowsTask' /\ StopCauses' /\ status' # "wild"
  BY <1>1 DEF IInv, TssFollowsTask, StopCauses, UserMode, NoRoom, Step, machine, tss,
     keyboard, ring, memory
<1> QED BY <1>2, <1>3, <1>4, <1>5, <1>6, <1>7, <1>8 DEF IInv

(* init_keyboard_driver: a key that interrupts between its statements may  *)
(* store garbage, but the reset of the end comes after the layout.         *)
LEMMA KbRegisterStep ==
    ASSUME IInv, Step("kb_register", "kb_layout"),
           interrupt_handlers' = [interrupt_handlers EXCEPT ![33] = "keyboard_handler"],
           UNCHANGED <<current_layout, ring>>,
           UNCHANGED <<machine, dt, tss, pics, obf, typed, printed, memory>> PROVE IInv'
<1>1. /\ Step("kb_register", "kb_layout")
      /\ interrupt_handlers' = [interrupt_handlers EXCEPT ![33] = "keyboard_handler"]
      /\ UNCHANGED <<current_layout, ring>>
      /\ UNCHANGED <<machine, dt, tss, pics, obf, typed, printed, memory>>
  BY DEF Step
<1>2. TypeOK'
  <2>1. interrupt_handlers' \in [Vector -> Handler]
    BY <1>1 DEF IInv, TypeOK, Handler
  <2> QED
    BY <1>1, <2>1 DEF IInv, TypeOK, Step, machine, dt, tss, pics, keyboard, ring, memory
<1>3. TaskInv'
  BY <1>1 DEF IInv, TaskInv, Step, machine, tasks, tss, UserMode, BeforeSti,
     BeforeTasks
<1>4. TablesInv'
  BY <1>1 DEF IInv, TablesInv, Step, dt, pics, write_tss
<1>5. HandlersInv'
  BY <1>1 DEF IInv, HandlersInv, Step, WithKeyboard, BeforeTasks, BeforeSti, TypeOK,
     Vector
<1>6. KeyboardInv'
  BY <1>1 DEF IInv, KeyboardInv, Step, pics, keyboard, ring, NoGarbageChar, UserMode
<1>7. MemoryInv'
  BY <1>1 DEF IInv, MemoryInv, Step, machine, memory, BeforeTasks, BeforeSti,
     PlacementSound, Overlap
<1>8. TssFollowsTask' /\ StopCauses' /\ status' # "wild"
  BY <1>1 DEF IInv, TssFollowsTask, StopCauses, UserMode, NoRoom, Step, machine, tss,
     keyboard, ring, memory
<1> QED BY <1>2, <1>3, <1>4, <1>5, <1>6, <1>7, <1>8 DEF IInv

LEMMA KbLayoutStep ==
    ASSUME IInv, Step("kb_layout", "kb_start"),
           current_layout' = "us",
           UNCHANGED <<interrupt_handlers, ring>>,
           UNCHANGED <<machine, dt, tss, pics, obf, typed, printed, memory>> PROVE IInv'
<1>1. /\ Step("kb_layout", "kb_start")
      /\ current_layout' = "us"
      /\ UNCHANGED <<interrupt_handlers, ring>>
      /\ UNCHANGED <<machine, dt, tss, pics, obf, typed, printed, memory>>
  BY DEF Step
<1>2. TypeOK'
  BY <1>1 DEF IInv, TypeOK, Step, machine, dt, tss, pics, keyboard, ring, memory
<1>3. TaskInv'
  BY <1>1 DEF IInv, TaskInv, Step, machine, tasks, tss, UserMode, BeforeSti,
     BeforeTasks
<1>4. TablesInv'
  BY <1>1 DEF IInv, TablesInv, Step, dt, pics, write_tss
<1>5. HandlersInv'
  BY <1>1 DEF IInv, HandlersInv, Step, WithKeyboard, BeforeTasks, BeforeSti
<1>6. KeyboardInv'
  BY <1>1 DEF IInv, KeyboardInv, Step, pics, keyboard, ring, NoGarbageChar, UserMode
<1>7. MemoryInv'
  BY <1>1 DEF IInv, MemoryInv, Step, machine, memory, BeforeTasks, BeforeSti,
     PlacementSound, Overlap
<1>8. TssFollowsTask' /\ StopCauses' /\ status' # "wild"
  BY <1>1 DEF IInv, TssFollowsTask, StopCauses, UserMode, NoRoom, Step, machine, tss,
     keyboard, ring, memory
<1> QED BY <1>2, <1>3, <1>4, <1>5, <1>6, <1>7, <1>8 DEF IInv

LEMMA KbStartStep ==
    ASSUME IInv, Step("kb_start", "kb_end"),
           keyboard_buffer_start' = 0,
           UNCHANGED <<interrupt_handlers, current_layout, keyboard_buffer,
                       keyboard_buffer_end>>,
           UNCHANGED <<machine, dt, tss, pics, obf, typed, printed, memory>> PROVE IInv'
<1>1. /\ Step("kb_start", "kb_end")
      /\ keyboard_buffer_start' = 0
      /\ UNCHANGED <<interrupt_handlers, current_layout, keyboard_buffer,
                       keyboard_buffer_end>>
      /\ UNCHANGED <<machine, dt, tss, pics, obf, typed, printed, memory>>
  BY DEF Step
<1>2. TypeOK'
  BY <1>1 DEF IInv, TypeOK, Step, machine, dt, tss, pics, keyboard, ring, memory
<1>3. TaskInv'
  BY <1>1 DEF IInv, TaskInv, Step, machine, tasks, tss, UserMode, BeforeSti,
     BeforeTasks
<1>4. TablesInv'
  BY <1>1 DEF IInv, TablesInv, Step, dt, pics, write_tss
<1>5. HandlersInv'
  BY <1>1 DEF IInv, HandlersInv, Step, WithKeyboard, BeforeTasks, BeforeSti
<1>6. KeyboardInv'
  BY <1>1 DEF IInv, KeyboardInv, Step, pics, keyboard, ring, NoGarbageChar, UserMode
<1>7. MemoryInv'
  BY <1>1 DEF IInv, MemoryInv, Step, machine, memory, BeforeTasks, BeforeSti,
     PlacementSound, Overlap
<1>8. TssFollowsTask' /\ StopCauses' /\ status' # "wild"
  BY <1>1 DEF IInv, TssFollowsTask, StopCauses, UserMode, NoRoom, Step, machine, tss,
     keyboard, ring, memory
<1> QED BY <1>2, <1>3, <1>4, <1>5, <1>6, <1>7, <1>8 DEF IInv

LEMMA KbEndStep ==
    ASSUME IInv, Step("kb_end", "user_mode"),
           keyboard_buffer_end' = 0,
           UNCHANGED <<interrupt_handlers, current_layout, keyboard_buffer,
                       keyboard_buffer_start>>,
           UNCHANGED <<machine, dt, tss, pics, obf, typed, printed, memory>> PROVE IInv'
<1>1. /\ Step("kb_end", "user_mode")
      /\ keyboard_buffer_end' = 0
      /\ UNCHANGED <<interrupt_handlers, current_layout, keyboard_buffer,
                       keyboard_buffer_start>>
      /\ UNCHANGED <<machine, dt, tss, pics, obf, typed, printed, memory>>
  BY DEF Step
<1>2. TypeOK'
  BY <1>1, KernelAssumption DEF IInv, TypeOK, Step, machine, dt, tss, pics, keyboard,
     ring, memory
<1>3. TaskInv'
  BY <1>1 DEF IInv, TaskInv, Step, machine, tasks, tss, UserMode, BeforeSti,
     BeforeTasks
<1>4. TablesInv'
  BY <1>1 DEF IInv, TablesInv, Step, dt, pics, write_tss
<1>5. HandlersInv'
  BY <1>1 DEF IInv, HandlersInv, Step, WithKeyboard, BeforeTasks, BeforeSti
<1>6. KeyboardInv'
  BY <1>1 DEF IInv, KeyboardInv, Step, pics, keyboard, ring, NoGarbageChar, UserMode,
     TypeOK
<1>7. MemoryInv'
  BY <1>1 DEF IInv, MemoryInv, Step, machine, memory, BeforeTasks, BeforeSti,
     PlacementSound, Overlap
<1>8. TssFollowsTask' /\ StopCauses' /\ status' # "wild"
  BY <1>1 DEF IInv, TssFollowsTask, StopCauses, UserMode, NoRoom, Step, machine, tss,
     keyboard, ring, memory
<1> QED BY <1>2, <1>3, <1>4, <1>5, <1>6, <1>7, <1>8 DEF IInv

LEMMA CliStep ==
    ASSUME IInv, stage = "tasking", status = "ok", T!InitCli(1),
           UNCHANGED <<stage, kernel_stack, dt, interrupt_handlers, esp0, pics, keyboard,
                       printed, memory>> PROVE IInv'
<1>1. /\ stage = "tasking" /\ pc[1] = "boot" /\ pc' = [pc EXCEPT ![1] = "init_alloc"]
      /\ IF_flag' = FALSE /\ current_task = 0 /\ stage' = stage /\ status = "ok"
      /\ UNCHANGED <<next_pid, ready_queue, next, eip, page_directory, current_task,
                     current_directory, status>>
      /\ UNCHANGED <<tss, dt, interrupt_handlers, pics, keyboard, printed, memory>>
  BY DEF T!InitCli, T!At, T!Goto, T!queue, T!fields, tss, IInv, TaskInv
<1>2. TypeOK'
  BY <1>1 DEF IInv, TypeOK, Step, machine, dt, tss, pics, keyboard, ring, memory
<1>3. TaskInv'
  BY <1>1, OneTask DEF IInv, TaskInv, Step, machine, tasks, tss, UserMode, BeforeSti,
     BeforeTasks
<1>4. TablesInv'
  BY <1>1 DEF IInv, TablesInv, Step, dt, pics, write_tss
<1>5. HandlersInv'
  BY <1>1 DEF IInv, HandlersInv, Step, WithKeyboard, BeforeTasks, BeforeSti
<1>6. KeyboardInv'
  BY <1>1 DEF IInv, KeyboardInv, Step, pics, keyboard, ring, NoGarbageChar, UserMode
<1>7. MemoryInv'
  BY <1>1 DEF IInv, MemoryInv, Step, machine, memory, BeforeTasks, BeforeSti,
     PlacementSound, Overlap
<1>8. TssFollowsTask' /\ StopCauses' /\ status' # "wild"
  BY <1>1 DEF IInv, TssFollowsTask, StopCauses, UserMode, NoRoom, Step, machine, tss,
     keyboard, ring, memory, BeforeTasks, BeforeSti
<1> QED BY <1>2, <1>3, <1>4, <1>5, <1>6, <1>7, <1>8 DEF IInv

LEMMA AllocStep ==
    ASSUME IInv, stage = "tasking", status = "ok", T!InitAlloc(1),
           kernel_stack' \in {"mapped", "unmapped"},
           UNCHANGED <<stage, dt, interrupt_handlers, esp0, pics, keyboard, printed,
                       memory>> PROVE IInv'
<1>1. /\ stage = "tasking" /\ pc[1] = "init_alloc" /\ pc' = [pc EXCEPT ![1] = "init_fields"]
      /\ current_task' = 1 /\ ready_queue' = 1 /\ next_pid = 1 /\ ~IF_flag
      /\ next' = [next EXCEPT ![1] = -1] /\ stage' = stage /\ status = "ok"
      /\ kernel_stack' \in {"mapped", "unmapped"}
      /\ UNCHANGED <<next_pid, eip, page_directory, current_directory, IF_flag, status>>
      /\ UNCHANGED <<esp0, dt, interrupt_handlers, pics, keyboard, printed, memory>>
  BY DEF T!InitAlloc, T!At, T!Goto, T!Garbage, IInv, TaskInv
<1>2. TypeOK'
  BY <1>1 DEF IInv, TypeOK, Step, machine, dt, tss, pics, keyboard, ring, memory
<1>3. TaskInv'
  BY <1>1, OneTask DEF IInv, TaskInv, Step, machine, tasks, tss, UserMode, BeforeSti,
     BeforeTasks
<1>4. TablesInv'
  BY <1>1 DEF IInv, TablesInv, Step, dt, pics, write_tss
<1>5. HandlersInv'
  BY <1>1 DEF IInv, HandlersInv, Step, WithKeyboard, BeforeTasks, BeforeSti
<1>6. KeyboardInv'
  BY <1>1 DEF IInv, KeyboardInv, Step, pics, keyboard, ring, NoGarbageChar, UserMode
<1>7. MemoryInv'
  BY <1>1 DEF IInv, MemoryInv, Step, machine, memory, BeforeTasks, BeforeSti,
     PlacementSound, Overlap
<1>8. TssFollowsTask' /\ StopCauses' /\ status' # "wild"
  BY <1>1 DEF IInv, TssFollowsTask, StopCauses, UserMode, NoRoom, Step, machine, tss,
     keyboard, ring, memory
<1> QED BY <1>2, <1>3, <1>4, <1>5, <1>6, <1>7, <1>8 DEF IInv

LEMMA FieldsStep ==
    ASSUME IInv, stage = "tasking", status = "ok", T!InitFields(1), stage' = "initrd",
           UNCHANGED <<kernel_stack, dt, interrupt_handlers, esp0, pics, keyboard,
                       printed, memory>> PROVE IInv'
<1>1. /\ stage = "tasking" /\ pc[1] = "init_fields" /\ pc' = [pc EXCEPT ![1] = "run"]
      /\ current_task = 1 /\ ready_queue = 1 /\ IF_flag' = TRUE /\ kernel_stack # "null"
      /\ eip' = [eip EXCEPT ![1] = "none"] /\ next' = [next EXCEPT ![1] = 0]
      /\ page_directory' = [page_directory EXCEPT ![1] = 1]
      /\ stage' = "initrd" /\ status = "ok"
      /\ UNCHANGED <<ready_queue, current_task, current_directory, status>>
      /\ UNCHANGED <<tss, dt, interrupt_handlers, pics, keyboard, printed, memory>>
  BY DEF T!InitFields, T!At, T!Goto, T!NULL, tss, IInv, TaskInv
<1>2. TypeOK'
  BY <1>1 DEF IInv, TypeOK, Step, machine, dt, tss, pics, keyboard, ring, memory
<1>3. TaskInv'
  BY <1>1, OneTask DEF IInv, TaskInv, Step, machine, tasks, tss, UserMode, BeforeSti,
     BeforeTasks
<1>4. TablesInv'
  BY <1>1 DEF IInv, TablesInv, Step, dt, pics, write_tss
<1>5. HandlersInv'
  BY <1>1 DEF IInv, HandlersInv, Step, WithKeyboard, BeforeTasks, BeforeSti
<1>6. KeyboardInv'
  BY <1>1 DEF IInv, KeyboardInv, Step, pics, keyboard, ring, NoGarbageChar, UserMode
<1>7. MemoryInv'
  BY <1>1 DEF IInv, MemoryInv, Step, machine, memory, BeforeTasks, BeforeSti,
     PlacementSound, Overlap
<1>8. TssFollowsTask' /\ StopCauses' /\ status' # "wild"
  BY <1>1 DEF IInv, TssFollowsTask, StopCauses, UserMode, NoRoom, Step, machine, tss,
     keyboard, ring, memory
<1> QED BY <1>2, <1>3, <1>4, <1>5, <1>6, <1>7, <1>8 DEF IInv

LEMMA UserModeStep ==
    ASSUME IInv, switch_to_user_mode PROVE IInv'
<1>1. /\ Step("user_mode", "hello") /\ esp0' = kernel_stack /\ IF_flag' = FALSE
      /\ pc' = [pc EXCEPT ![1] = "user"]
      /\ UNCHANGED <<ready_queue, next, eip, page_directory, current_task,
                     current_directory, status>>
      /\ UNCHANGED <<dt, interrupt_handlers, kernel_stack, pics, keyboard, printed, memory>>
  BY DEF switch_to_user_mode, T!switch_to_user_mode, T!At, T!Goto, T!queue, T!fields
<1>2. TypeOK'
  BY <1>1 DEF IInv, TypeOK, Step, machine, dt, tss, pics, keyboard, ring, memory
<1>3. TaskInv'
  BY <1>1, OneTask DEF IInv, TaskInv, Step, machine, tasks, tss, UserMode, BeforeSti,
     BeforeTasks
<1>4. TablesInv'
  BY <1>1 DEF IInv, TablesInv, Step, dt, pics, write_tss
<1>5. HandlersInv'
  BY <1>1 DEF IInv, HandlersInv, Step, WithKeyboard, BeforeTasks, BeforeSti
<1>6. KeyboardInv'
  BY <1>1 DEF IInv, KeyboardInv, Step, pics, keyboard, ring, NoGarbageChar, UserMode
<1>7. MemoryInv'
  BY <1>1 DEF IInv, MemoryInv, Step, machine, memory, BeforeTasks, BeforeSti,
     PlacementSound, Overlap
<1>8. TssFollowsTask' /\ StopCauses' /\ status' # "wild"
  BY <1>1 DEF IInv, TssFollowsTask, StopCauses, UserMode, NoRoom, Step, machine, tss,
     keyboard, ring, memory
<1> QED BY <1>2, <1>3, <1>4, <1>5, <1>6, <1>7, <1>8 DEF IInv

LEMMA TickStep ==
    ASSUME IInv, NEW l \in {0, 8}, Tick(l) PROVE IInv'
<1>1. /\ irr' = irr \cup {l} /\ (1 \in irr' <=> 1 \in irr)
      /\ UNCHANGED <<machine, stage, dt, interrupt_handlers, tss, vector_base, isr,
                     keyboard, printed, memory>>
  BY DEF Tick
<1>2. TypeOK'
  BY <1>1 DEF IInv, TypeOK, Step, machine, dt, tss, pics, keyboard, ring, memory, Line
<1>3. TaskInv'
  BY <1>1 DEF IInv, TaskInv, Step, machine, tasks, tss, UserMode, BeforeSti,
     BeforeTasks
<1>4. TablesInv'
  BY <1>1 DEF IInv, TablesInv, Step, dt, pics, write_tss
<1>5. HandlersInv'
  BY <1>1 DEF IInv, HandlersInv, Step, WithKeyboard, BeforeTasks, BeforeSti
<1>6. KeyboardInv'
  BY <1>1 DEF IInv, KeyboardInv, Step, pics, keyboard, ring, NoGarbageChar, UserMode
<1>7. MemoryInv'
  BY <1>1 DEF IInv, MemoryInv, Step, machine, memory, BeforeTasks, BeforeSti,
     PlacementSound, Overlap
<1>8. TssFollowsTask' /\ StopCauses' /\ status' # "wild"
  BY <1>1 DEF IInv, TssFollowsTask, StopCauses, UserMode, NoRoom, Step, machine, tss,
     keyboard, ring, memory
<1> QED BY <1>2, <1>3, <1>4, <1>5, <1>6, <1>7, <1>8 DEF IInv

LEMMA KeyStep ==
    ASSUME IInv, Key PROVE IInv'
<1>1. /\ ~obf /\ typed < MaxKeys /\ obf' = TRUE /\ typed' = typed + 1
      /\ irr' = irr \cup {1}
      /\ UNCHANGED <<machine, stage, dt, interrupt_handlers, tss, vector_base, isr,
                     current_layout, ring, printed, memory>>
  BY DEF Key
<1>2. TypeOK'
  BY <1>1, KernelAssumption DEF IInv, TypeOK, Step, machine, dt, tss, pics, keyboard,
     ring, memory, Line
<1>3. TaskInv'
  BY <1>1 DEF IInv, TaskInv, Step, machine, tasks, tss, UserMode, BeforeSti,
     BeforeTasks
<1>4. TablesInv'
  BY <1>1 DEF IInv, TablesInv, Step, dt, pics, write_tss
<1>5. HandlersInv'
  BY <1>1 DEF IInv, HandlersInv, Step, WithKeyboard, BeforeTasks, BeforeSti
<1>6. KeyboardInv'
  BY <1>1, KernelAssumption DEF IInv, KeyboardInv, Step, pics, keyboard, ring,
     NoGarbageChar, UserMode, TypeOK
<1>7. MemoryInv'
  BY <1>1 DEF IInv, MemoryInv, Step, machine, memory, BeforeTasks, BeforeSti,
     PlacementSound, Overlap
<1>8. TssFollowsTask' /\ StopCauses' /\ status' # "wild"
  BY <1>1 DEF IInv, TssFollowsTask, StopCauses, UserMode, NoRoom, Step, machine, tss,
     keyboard, ring, memory
<1> QED BY <1>2, <1>3, <1>4, <1>5, <1>6, <1>7, <1>8 DEF IInv

LEMMA StutterStep ==
    ASSUME IInv, UNCHANGED vars PROVE IInv'
<1>1. UNCHANGED <<machine, stage, dt, interrupt_handlers, tss, pics, keyboard, printed, memory>>
  BY DEF vars
<1>2. TypeOK'
  BY <1>1 DEF IInv, TypeOK, Step, machine, dt, tss, pics, keyboard, ring, memory
<1>3. TaskInv'
  BY <1>1 DEF IInv, TaskInv, Step, machine, tasks, tss, UserMode, BeforeSti,
     BeforeTasks
<1>4. TablesInv'
  BY <1>1 DEF IInv, TablesInv, Step, dt, pics, write_tss
<1>5. HandlersInv'
  BY <1>1 DEF IInv, HandlersInv, Step, WithKeyboard, BeforeTasks, BeforeSti
<1>6. KeyboardInv'
  BY <1>1 DEF IInv, KeyboardInv, Step, pics, keyboard, ring, NoGarbageChar, UserMode
<1>7. MemoryInv'
  BY <1>1 DEF IInv, MemoryInv, Step, machine, memory, BeforeTasks, BeforeSti,
     PlacementSound, Overlap
<1>8. TssFollowsTask' /\ StopCauses' /\ status' # "wild"
  BY <1>1 DEF IInv, TssFollowsTask, StopCauses, UserMode, NoRoom, Step, machine, tss,
     keyboard, ring, memory
<1> QED BY <1>2, <1>3, <1>4, <1>5, <1>6, <1>7, <1>8 DEF IInv

(* kmalloc_int before there is a heap.                                     *)
LEMMA KmallocAligned ==
    ASSUME NEW p \in Nat, p >= PAGE, NEW sz \in Nat
    PROVE  /\ kmalloc_int(p, sz, TRUE).tmp \in Nat
           /\ kmalloc_int(p, sz, TRUE).tmp % PAGE = 0
           /\ kmalloc_int(p, sz, TRUE).tmp = p - (p % PAGE) + PAGE
           /\ kmalloc_int(p, sz, TRUE).tmp > p
           /\ kmalloc_int(p, sz, TRUE).placement_address
                = kmalloc_int(p, sz, TRUE).tmp + sz
<1>1. /\ kmalloc_int(p, sz, TRUE).tmp = (p \div PAGE) * PAGE + PAGE
      /\ kmalloc_int(p, sz, TRUE).placement_address = kmalloc_int(p, sz, TRUE).tmp + sz
  BY DEF kmalloc_int
<1> QED BY <1>1, NextPage

LEMMA KmallocUnaligned ==
    ASSUME NEW p \in Nat, NEW sz \in Nat
    PROVE  /\ kmalloc_int(p, sz, FALSE).tmp = p
           /\ kmalloc_int(p, sz, FALSE).placement_address = p + sz
BY DEF kmalloc_int

Allocated == {"frames", "kernel_directory", "heap_table", "identity_table", "kheap"}

(* Where initialise_paging puts its structures: each behind the last one   *)
(* asked for, so that only the part of the bitset that was not asked for   *)
(* can lie in the directory.                                               *)
LEMMA Placement ==
    ASSUME IInv, initialise_paging
    PROVE  /\ placed' \in [Allocated -> Nat]
           /\ placed'.kheap # 0 /\ placement_address' = placed'.kheap + HeapSize
           /\ PlacementSound'
<1> DEFINE frames == kmalloc_int(placement_address, FramesAsked, FALSE)
           dir    == kmalloc_int(frames.placement_address, DirSize, TRUE)
           heap   == kmalloc_int(dir.placement_address, TableSize, TRUE)
           ident  == kmalloc_int(heap.placement_address, TableSize, TRUE)
           kheap  == kmalloc_int(ident.placement_address, HeapSize, FALSE)
<1>1. /\ placed' = [frames |-> frames.tmp, kernel_directory |-> dir.tmp,
                    heap_table |-> heap.tmp, identity_table |-> ident.tmp,
                    kheap |-> kheap.tmp]
      /\ placement_address' = kheap.placement_address
      /\ initrd_end' = initrd_end
  BY DEF initialise_paging
<1>2. placement_address = initrd_end /\ initrd_end \in Nat /\ initrd_end > PAGE
  <2>1. stage = "paging" /\ status = "ok"
    BY DEF initialise_paging, Step
  <2>2. placement_address = initrd_end /\ initrd_end \in InitrdEnds
    BY <2>1 DEF IInv, MemoryInv
  <2>3. /\ \A e \in InitrdEnds : e \in Nat /\ KernelEnd < e
        /\ PAGE \in Nat /\ KernelEnd \in Nat /\ PAGE < KernelEnd
    BY KernelAssumption
  <2> QED BY <2>2, <2>3
<1>3. /\ PAGE \in Nat \ {0} /\ FramesUsed \in Nat /\ FramesAsked \in Nat
      /\ 1 <= FramesAsked /\ FramesAsked <= FramesUsed /\ DirSize \in Nat \ {0}
      /\ TableSize \in Nat \ {0} /\ HeapSize \in Nat \ {0}
      /\ FramesUsed - FramesAsked <= DirSize
  BY KernelAssumption
<1> DEFINE a == initrd_end + FramesAsked
<1>4. frames.tmp = initrd_end /\ frames.placement_address = a /\ a \in Nat /\ a >= PAGE
  <2>1. placement_address \in Nat /\ FramesAsked \in Nat
    BY <1>2, <1>3
  <2>2. frames.tmp = placement_address
        /\ frames.placement_address = placement_address + FramesAsked
    BY <2>1, KmallocUnaligned, Zenon
  <2> HIDE DEF frames
  <2> QED BY <1>2, <1>3, <2>2
<1>5. /\ dir.tmp \in Nat /\ dir.tmp % PAGE = 0 /\ dir.tmp = a - (a % PAGE) + PAGE
      /\ dir.tmp > a /\ dir.placement_address = dir.tmp + DirSize
  <2>1. frames.placement_address \in Nat /\ frames.placement_address >= PAGE
        /\ DirSize \in Nat
    BY <1>3, <1>4
  <2> HIDE DEF frames, a
  <2> QED BY <1>4, <2>1, KmallocAligned
<1> HIDE DEF a, dir, frames
<1>a. a = initrd_end + FramesAsked /\ a % PAGE \in Nat /\ a % PAGE < PAGE
  <2>1. a % PAGE \in 0..(PAGE - 1)
    BY <1>3, <1>4, DivMod
  <2> QED BY <1>3, <2>1 DEF a
<1>6. /\ heap.tmp \in Nat /\ heap.tmp % PAGE = 0 /\ heap.tmp > dir.tmp + DirSize
      /\ heap.placement_address = heap.tmp + TableSize
  <2>1. dir.placement_address \in Nat /\ dir.placement_address >= PAGE
    BY <1>3, <1>4, <1>5
  <2> QED BY <1>3, <1>5, <2>1, KmallocAligned
<1> HIDE DEF heap
<1>7. /\ ident.tmp \in Nat /\ ident.tmp % PAGE = 0 /\ ident.tmp > heap.tmp + TableSize
      /\ ident.placement_address = ident.tmp + TableSize
  <2>1. heap.placement_address \in Nat /\ heap.placement_address >= PAGE
    BY <1>3, <1>4, <1>5, <1>6
  <2> QED BY <1>3, <1>6, <2>1, KmallocAligned
<1> HIDE DEF ident
<1>8. /\ kheap.tmp = ident.tmp + TableSize /\ kheap.tmp \in Nat
      /\ kheap.placement_address = kheap.tmp + HeapSize
  <2>1. ident.placement_address \in Nat
    BY <1>3, <1>7
  <2>2. kheap.tmp = ident.placement_address
        /\ kheap.placement_address = ident.placement_address + HeapSize
    BY <1>3, <2>1, KmallocUnaligned
  <2> HIDE DEF kheap
  <2> QED BY <1>3, <1>7, <2>2
<1> HIDE DEF kheap
<1>9. /\ placed'.frames = initrd_end /\ placed'.kernel_directory = dir.tmp
      /\ placed'.heap_table = heap.tmp /\ placed'.identity_table = ident.tmp
      /\ placed'.kheap = kheap.tmp /\ DOMAIN placed' = Allocated
      /\ \A p \in Allocated : placed'[p] \in Nat
      /\ placed' \in [Allocated -> Nat]
  BY <1>1, <1>2, <1>4, <1>5, <1>6, <1>7, <1>8 DEF Allocated
<1>10. \A p \in Allocated : initrd_end <= placed'[p]
  BY <1>2, <1>3, <1>4, <1>5, <1>6, <1>7, <1>8, <1>9 DEF Allocated, a
<1>11. \A p \in {"kernel_directory", "heap_table", "identity_table"} : placed'[p] % PAGE = 0
  BY <1>5, <1>6, <1>7, <1>9
<1>12. /\ Used["frames"] = FramesUsed /\ Used["kernel_directory"] = DirSize
       /\ Used["heap_table"] = TableSize /\ Used["identity_table"] = TableSize
       /\ Used["kheap"] = HeapSize
  BY DEF Used
<1>13. ASSUME NEW p \in Allocated, NEW q \in Allocated, p # q, Overlap(p, q)'
       PROVE  {p, q} = {"frames", "kernel_directory"}
  <2>1. placed'[p] < placed'[q] + Used[q] /\ placed'[q] < placed'[p] + Used[p]
    BY <1>13 DEF Overlap, Used
  <2>2. initrd_end + FramesUsed <= heap.tmp
    BY <1>2, <1>3, <1>5, <1>6, <1>a
  <2> QED BY <1>2, <1>3, <1>4, <1>5, <1>6, <1>7, <1>8, <1>9, <1>12, <1>13, <2>1, <2>2
          DEF Allocated, a
<1>14. Overlap("frames", "kernel_directory")' <=>
         (initrd_end + FramesAsked) % PAGE > PAGE - (FramesUsed - FramesAsked)
  <2>1. Overlap("frames", "kernel_directory")' <=>
          initrd_end < dir.tmp + DirSize /\ dir.tmp < initrd_end + FramesUsed
    BY <1>9, <1>12 DEF Overlap, Used
  <2>2. initrd_end < dir.tmp + DirSize /\ a % PAGE \in Nat
    BY <1>2, <1>3, <1>4, <1>5, <1>a
  <2>3. dir.tmp < initrd_end + FramesUsed <=> a % PAGE > PAGE - (FramesUsed - FramesAsked)
    BY <1>2, <1>3, <1>5, <2>2 DEF a
  <2> QED BY <2>1, <2>2, <2>3 DEF a
<1>15. PlacementSound'
  <2>1. \A p, q \in Allocated : p # q /\ Overlap(p, q)' =>
          {p, q} = {"frames", "kernel_directory"}
    BY <1>13
  <2>2. initrd_end' = initrd_end /\ DOMAIN placed' = Allocated
    BY <1>1, <1>9
  <2> QED BY <1>10, <1>11, <1>14, <2>1, <2>2 DEF PlacementSound
<1> QED BY <1>1, <1>2, <1>3, <1>7, <1>8, <1>9, <1>15

LEMMA PagingStep ==
    ASSUME IInv, initialise_paging PROVE IInv'
<1>1. /\ Step("paging", "tasking") /\ initrd_end' = initrd_end
      /\ interrupt_handlers' = [interrupt_handlers EXCEPT ![14] = "page_fault"]
      /\ placed' \in [Allocated -> Nat] /\ PlacementSound' /\ placed'.kheap # 0
      /\ placement_address' = placed'.kheap + HeapSize
      /\ IF placed'.kheap + HeapSize <= IDENTITY
         THEN UNCHANGED <<status, IF_flag>>
         ELSE status' = "panic" /\ IF_flag' = FALSE
      /\ UNCHANGED <<tasks, dt, tss, pics, keyboard, printed>>
  BY Placement DEF initialise_paging, register_interrupt_handler, page_fault, panic
<1>2. TypeOK'
  <2>1. interrupt_handlers' \in [Vector -> Handler]
    BY <1>1 DEF IInv, TypeOK, Handler
  <2>2. placement_address' \in Nat /\ placed' \in [Allocated -> Nat]
    BY <1>1, KernelAssumption DEF Allocated
  <2>3. status' \in {"ok", "wild", "panic", "assert", "reset"}
    BY <1>1 DEF IInv, TypeOK
  <2> QED
    BY <1>1, <2>1, <2>2, <2>3 DEF IInv, TypeOK, Step, dt, tss, pics, keyboard, ring,
       Allocated
<1>3. TaskInv'
  BY <1>1 DEF IInv, TaskInv, Step, machine, tasks, tss, UserMode, BeforeSti,
     BeforeTasks
<1>4. TablesInv'
  BY <1>1 DEF IInv, TablesInv, Step, dt, pics, write_tss
<1>5. HandlersInv'
  BY <1>1 DEF IInv, HandlersInv, Step, WithKeyboard, BeforeTasks, BeforeSti, TypeOK,
     Vector
<1>6. KeyboardInv'
  BY <1>1 DEF IInv, KeyboardInv, Step, pics, keyboard, ring, NoGarbageChar, UserMode
<1>7. MemoryInv'
  BY <1>1 DEF MemoryInv, Step, BeforeTasks, BeforeSti
<1>8. TssFollowsTask' /\ StopCauses' /\ status' # "wild"
  <2>1. status' = "panic" => NoRoom'
    BY <1>1, KernelAssumption DEF NoRoom, Step, Allocated
  <2>2. status' \in {"ok", "panic"} /\ ~UserMode'
    BY <1>1 DEF Step, UserMode
  <2> QED BY <2>1, <2>2 DEF TssFollowsTask, StopCauses
<1> QED BY <1>2, <1>3, <1>4, <1>5, <1>6, <1>7, <1>8 DEF IInv

(* An interrupt finds its gate and its handler, and all of the PICs' lines *)
(* are acknowledged.                                                       *)
LEMMA InterruptTaken ==
    ASSUME IInv, NEW l \in {0, 1, 8}, Interrupt(l)
    PROVE  /\ status = "ok" /\ IF_flag /\ stage \notin BeforeSti /\ ~UserMode
           /\ l \in irr /\ irr' = irr \ {l} /\ isr' = {}
           /\ UNCHANGED <<stage, dt, interrupt_handlers, kernel_stack, vector_base, printed,
                          memory>>
           /\ IF l = 0 /\ interrupt_handlers[32] = "timer_callback" THEN timer_callback
              ELSE IF l = 1 /\ stage \in WithKeyboard THEN keyboard_handler
              ELSE UNCHANGED <<machine, esp0, keyboard>>
<1>1. /\ status = "ok" /\ IF_flag /\ l \in irr /\ irr' = irr \ {l}
      /\ UNCHANGED <<stage, dt, interrupt_handlers, kernel_stack, vector_base, printed, memory>>
  BY DEF Interrupt, Highest
<1>2. stage \notin BeforeSti /\ ~UserMode
  BY <1>1 DEF IInv, TaskInv
<1>3. vector_base = [master |-> 32, slave |-> 40] /\ idt_entries = 0..47 \cup {128}
  BY <1>2 DEF IInv, TablesInv, BeforeSti
<1>4. isr = {}
  BY DEF IInv, KeyboardInv
<1> DEFINE v     == IF l < 8 THEN vector_base.master + l ELSE vector_base.slave + l - 8
           lines == isr \cup {l} \cup (IF l = 8 THEN {2} ELSE {})
<1>5. /\ v = IF l = 0 THEN 32 ELSE IF l = 1 THEN 33 ELSE 40
      /\ v \in 32..47 /\ v \in idt_entries /\ v \in Vector
  BY <1>3 DEF Vector
<1>6. GateTarget(v) = {v}
  BY <1>5, Gates
<1>7. irq_handler(v, lines)
  BY <1>5, <1>6 DEF Interrupt
<1>8. lines \ EndOfInterrupt(v, lines) = {}
  <2>1. lines = {l} \cup (IF l = 8 THEN {2} ELSE {})
    BY <1>4
  <2> HIDE DEF lines, v
  <2>2. CASE l # 8
    <3>1. l \in {0, 1} /\ lines = {l}
      BY <2>1, <2>2
    <3>2. lines \cap {0, 1, 2} = {l}
      BY <3>1
    <3>3. Highest({l}) = {l}
      BY <3>1 DEF Highest
    <3> QED BY <3>1, <3>2, <3>3 DEF EndOfInterrupt
  <2>3. CASE l = 8
    <3>1. lines = {2, 8} /\ v = 40
      BY <1>5, <2>1, <2>3
    <3>2. lines \cap {0, 1, 2} = {2} /\ lines \cap {8} = {8}
      BY <3>1
    <3>3. Highest({2}) = {2} /\ Highest({8}) = {8}
      BY DEF Highest
    <3> QED BY <3>1, <3>2, <3>3 DEF EndOfInterrupt
  <2> QED BY <2>2, <2>3
<1>9. isr' = {}
  BY <1>7, <1>8 DEF irq_handler
<1> HIDE DEF v, lines
<1>10. /\ l = 0 => interrupt_handlers[v] \in {"none", "timer_callback"}
       /\ l = 1 => interrupt_handlers[v]
                     = IF stage \in WithKeyboard THEN "keyboard_handler" ELSE "none"
       /\ l = 8 => interrupt_handlers[v] = "none"
  BY <1>5 DEF IInv, HandlersInv
<1>11. IF l = 0 /\ interrupt_handlers[32] = "timer_callback" THEN timer_callback
       ELSE IF l = 1 /\ stage \in WithKeyboard THEN keyboard_handler
       ELSE UNCHANGED <<machine, esp0, keyboard>>
  <2>1. CASE l = 0
    BY <1>5, <1>7, <1>10, <2>1 DEF irq_handler
  <2>2. CASE l = 1
    BY <1>7, <1>10, <2>2 DEF irq_handler
  <2>3. CASE l = 8
    BY <1>7, <1>10, <2>3 DEF irq_handler
  <2> QED BY <2>1, <2>2, <2>3
<1> QED BY <1>1, <1>2, <1>9, <1>11

(* With one task the timer resumes the task it has interrupted.            *)
LEMMA TimerResumes ==
    ASSUME IInv, status = "ok", IF_flag, timer_callback
    PROVE  /\ UNCHANGED <<next_pid, ready_queue, current_task, current_directory, next,
                          page_directory, pc, IF_flag, status, keyboard>>
           /\ \/ eip' = eip /\ esp0' = esp0
              \/ eip' = [eip EXCEPT ![1] = "switch"] /\ esp0' = kernel_stack
<1>1. CASE current_task = 0
  BY <1>1 DEF timer_callback, machine, tasks, T!NULL
<1>2. CASE current_task # 0
  <2>1. /\ current_task = 1 /\ ready_queue = 1 /\ next[1] = 0 /\ page_directory[1] = 1
        /\ current_directory = 1
    BY <1>2 DEF IInv, TaskInv
  <2>2. T!switch_task /\ esp0' = kernel_stack /\ UNCHANGED keyboard
    BY <1>2 DEF timer_callback, T!NULL
  <2>3. /\ eip' = [eip EXCEPT ![1] = "switch"] /\ T!Resume(1, eip'[1])
        /\ current_directory' = page_directory[1]
        /\ UNCHANGED <<next_pid, ready_queue, next, page_directory>>
    BY <2>1, <2>2, OneTask DEF T!switch_task, T!NULL, T!queue
  <2>4. eip'[1] = "switch"
    BY <2>3, OneTask DEF IInv, TaskInv
  <2>5. IF_flag' = TRUE /\ current_task' = 1 /\ status' = "ok" /\ pc' = pc
    BY <2>1, <2>3, <2>4 DEF T!Resume
  <2> QED BY <2>1, <2>2, <2>3, <2>5
<1> QED BY <1>1, <1>2

LEMMA QuietInterruptStep ==
    ASSUME IInv, NEW l \in {0, 1, 8}, Interrupt(l), UNCHANGED <<machine, esp0, keyboard>>
    PROVE  IInv'
<1>1. /\ status = "ok" /\ IF_flag /\ stage \notin BeforeSti /\ ~UserMode /\ isr' = {}
      /\ UNCHANGED <<stage, dt, interrupt_handlers, kernel_stack, vector_base, printed, memory>>
      /\ irr' = irr \ {l} /\ UNCHANGED <<machine, esp0, keyboard>>
  BY InterruptTaken DEF Interrupt
<1>2. TypeOK'
  BY <1>1 DEF IInv, TypeOK, Step, machine, dt, tss, pics, keyboard, ring, memory
<1>3. TaskInv'
  BY <1>1 DEF IInv, TaskInv, Step, machine, tasks, tss, UserMode, BeforeSti,
     BeforeTasks
<1>4. TablesInv'
  BY <1>1 DEF IInv, TablesInv, Step, dt, pics, write_tss
<1>5. HandlersInv'
  BY <1>1 DEF IInv, HandlersInv, Step, WithKeyboard, BeforeTasks, BeforeSti
<1>6. KeyboardInv'
  BY <1>1 DEF IInv, KeyboardInv, Step, pics, keyboard, ring, NoGarbageChar, UserMode,
     TypeOK
<1>7. MemoryInv'
  BY <1>1 DEF IInv, MemoryInv, Step, machine, memory, BeforeTasks, BeforeSti,
     PlacementSound, Overlap
<1>8. TssFollowsTask' /\ StopCauses' /\ status' # "wild"
  BY <1>1 DEF IInv, TssFollowsTask, StopCauses, UserMode, NoRoom, Step, machine, tss,
     keyboard, ring, memory
<1> QED BY <1>2, <1>3, <1>4, <1>5, <1>6, <1>7, <1>8 DEF IInv

LEMMA TimerInterruptStep ==
    ASSUME IInv, Interrupt(0), timer_callback PROVE IInv'
<1>1. /\ status = "ok" /\ IF_flag /\ stage \notin BeforeSti /\ ~UserMode /\ isr' = {}
      /\ UNCHANGED <<stage, dt, interrupt_handlers, kernel_stack, vector_base, printed, memory>>
      /\ irr' = irr \ {0} /\ UNCHANGED keyboard
      /\ UNCHANGED <<next_pid, ready_queue, current_task, current_directory, next,
                     page_directory, pc, IF_flag, status>>
      /\ \/ eip' = eip /\ esp0' = esp0
         \/ eip' = [eip EXCEPT ![1] = "switch"] /\ esp0' = kernel_stack
  BY InterruptTaken, TimerResumes DEF Interrupt
<1>2. TypeOK'
  BY <1>1 DEF IInv, TypeOK, Step, machine, dt, tss, pics, keyboard, ring, memory
<1>3. TaskInv'
  BY <1>1 DEF IInv, TaskInv, Step, machine, tasks, tss, UserMode, BeforeSti,
     BeforeTasks
<1>4. TablesInv'
  BY <1>1 DEF IInv, TablesInv, Step, dt, pics, write_tss
<1>5. HandlersInv'
  BY <1>1 DEF IInv, HandlersInv, Step, WithKeyboard, BeforeTasks, BeforeSti
<1>6. KeyboardInv'
  BY <1>1 DEF IInv, KeyboardInv, Step, pics, keyboard, ring, NoGarbageChar, UserMode
<1>7. MemoryInv'
  BY <1>1 DEF IInv, MemoryInv, Step, machine, memory, BeforeTasks, BeforeSti,
     PlacementSound, Overlap
<1>8. TssFollowsTask' /\ StopCauses' /\ status' # "wild"
  BY <1>1 DEF IInv, TssFollowsTask, StopCauses, UserMode, NoRoom, Step, machine, tss,
     keyboard, ring, memory
<1> QED BY <1>2, <1>3, <1>4, <1>5, <1>6, <1>7, <1>8 DEF IInv

LEMMA KeyboardInterruptStep ==
    ASSUME IInv, Interrupt(1), keyboard_handler PROVE IInv'
<1>1. /\ status = "ok" /\ IF_flag /\ stage \notin BeforeSti /\ ~UserMode /\ isr' = {}
      /\ UNCHANGED <<stage, dt, interrupt_handlers, kernel_stack, vector_base, printed, memory>>
      /\ 1 \in irr /\ irr' = irr \ {1} /\ obf' = FALSE
      /\ UNCHANGED <<machine, esp0, typed, current_layout, keyboard_buffer_start>>
      /\ \/ /\ keyboard_buffer' = [keyboard_buffer EXCEPT ![keyboard_buffer_end] =
                                      IF current_layout = "us" THEN "char" ELSE "garbage"]
            /\ keyboard_buffer_end' = keyboard_buffer_end + 1
         \/ UNCHANGED <<keyboard_buffer, keyboard_buffer_end>>
  BY InterruptTaken DEF keyboard_handler
<1>a. /\ MaxKeys \in Nat /\ typed \in 0..MaxKeys /\ keyboard_buffer_end \in 0..MaxKeys
      /\ keyboard_buffer \in [0..MaxKeys -> {"zero", "char", "garbage"}]
      /\ keyboard_buffer_start = 0 /\ keyboard_buffer_end + 1 <= typed
  BY <1>1, KernelAssumption DEF IInv, TypeOK, KeyboardInv
<1>b. /\ keyboard_buffer' \in [0..MaxKeys -> {"zero", "char", "garbage"}]
      /\ keyboard_buffer_end' \in 0..MaxKeys /\ keyboard_buffer_end' <= typed
  BY <1>1, <1>a
<1>2. TypeOK'
  <2>1. TypeOK
    BY DEF IInv
  <2>2. UNCHANGED <<stage, idt_entries, interrupt_handlers, kernel_stack, printed, esp0,
                    typed, current_layout, keyboard_buffer_start, status,
                    placement_address, initrd_end, placed>>
    BY <1>1 DEF machine, dt, memory
  <2>3. isr' \subseteq Line /\ irr' \subseteq Line /\ obf' \in BOOLEAN
    BY <1>1, <2>1 DEF TypeOK
  <2> QED BY ONLY <1>b, <2>1, <2>2, <2>3 DEF TypeOK
<1>3. TaskInv'
  BY <1>1 DEF IInv, TaskInv, Step, machine, tasks, tss, UserMode, BeforeSti,
     BeforeTasks
<1>4. TablesInv'
  BY <1>1 DEF IInv, TablesInv, Step, dt, pics, write_tss
<1>5. HandlersInv'
  BY <1>1 DEF IInv, HandlersInv, Step, WithKeyboard, BeforeTasks, BeforeSti
<1>6. KeyboardInv'
  <2>1. NoGarbageChar'
    <3>1. SUFFICES ASSUME stage = "user_mode",
                          NEW n \in 0..(keyboard_buffer_end' - 1)
                   PROVE  keyboard_buffer'[n] = "char"
      BY <1>1, <1>a DEF NoGarbageChar, UserMode
    <3>2. \A m \in 0..(keyboard_buffer_end - 1) : keyboard_buffer[m] = "char"
      BY <1>1, <1>a, <3>1 DEF IInv, KeyboardInv, NoGarbageChar
    <3>3. current_layout = "us"
      BY <3>1 DEF IInv, KeyboardInv
    <3> QED BY <1>1, <1>a, <3>2, <3>3
  <2>2. 1 \notin irr'
    BY <1>1
  <2>3. keyboard_buffer_end' <= typed'
    BY <1>1, <1>b
  <2>4. isr' = {} /\ stage' = stage /\ current_layout' = current_layout
    BY <1>1
  <2> QED BY <2>1, <2>2, <2>3, <2>4 DEF IInv, KeyboardInv
<1>7. MemoryInv'
  BY <1>1 DEF IInv, MemoryInv, Step, machine, memory, BeforeTasks, BeforeSti,
     PlacementSound, Overlap
<1>8. TssFollowsTask' /\ StopCauses' /\ status' # "wild"
  BY <1>1 DEF IInv, TssFollowsTask, StopCauses, UserMode, NoRoom, Step, machine, tss,
     keyboard, ring, memory
<1> QED BY <1>2, <1>3, <1>4, <1>5, <1>6, <1>7, <1>8 DEF IInv

(* In ring 3 the CPU finds its way into the kernel if the TSS names a      *)
(* stack that is mapped.                                                   *)
LEMMA TrapTaken ==
    ASSUME IInv, UserMode, NEW v \in {14, 128}, NEW eax, Trap(v, eax)
    PROVE  IF esp0 = "mapped" THEN isr_handler(v, eax)
           ELSE status' = "reset" /\ UNCHANGED <<IF_flag, printed>>
<1>1. /\ tss_addr \in TssAddrs /\ gdt_entries[5] = write_tss
      /\ idt_entries = 0..47 \cup {128}
  BY DEF IInv, TablesInv, UserMode
<1>2. Base(gdt_entries[5]) = tss_addr /\ Limit(gdt_entries[5]) >= 3
  BY <1>1, TssDescriptor
<1>3. v \in idt_entries /\ v \in Vector
  BY <1>1 DEF Vector
<1>4. GateTarget(v) = {v}
  BY <1>3, Gates
<1>5. idt_set_gate(Stub(v)).dpl = 3
  BY DEF idt_set_gate
<1> QED BY <1>2, <1>3, <1>4, <1>5 DEF Trap

(* The byte that a stub pushes is the vector again.                        *)
LEMMA PushedVector ==
    Pushed(14) % 256 = 14 /\ Pushed(128) % 256 = 128
<1>1. Pushed(14) = 14 /\ Pushed(128) = U32 - 256 + 128
  BY DEF Pushed
<1>2. U32 \in Nat /\ U32 % 256 = 0 /\ U32 >= 256
  BY Widths, KernelAssumption
<1>3. (U32 - 256 + 128) % 256 = 128
  BY <1>2
<1> QED BY <1>1, <1>3

LEMMA HelloStep ==
    ASSUME IInv, Hello PROVE IInv'
<1>1. /\ Step("hello", "loop") /\ IF_flag' = IF_flag
      /\ IF esp0 = "mapped" THEN printed' = "text" /\ status' = "ok"
         ELSE printed' = printed /\ status' = "reset"
      /\ esp0 = kernel_stack /\ kernel_stack # "null"
      /\ UNCHANGED <<tasks, dt, interrupt_handlers, tss, pics, keyboard, memory>>
  <2>1. Step("hello", "loop") /\ Trap(128, 0)
        /\ UNCHANGED <<tasks, dt, interrupt_handlers, tss, pics, keyboard, memory>>
    BY DEF Hello, SyscallNumber
  <2>2. UserMode /\ interrupt_handlers[128] = "syscall_handler" /\ status = "ok"
    BY <2>1 DEF Step, UserMode, IInv, HandlersInv, WithKeyboard
  <2>3. esp0 = kernel_stack /\ kernel_stack # "null"
    BY <2>1, <2>2 DEF IInv, TssFollowsTask, TaskInv, UserMode, BeforeTasks, BeforeSti
  <2>4. IF esp0 = "mapped" THEN isr_handler(128, 0)
        ELSE status' = "reset" /\ UNCHANGED <<IF_flag, printed>>
    BY <2>1, <2>2, TrapTaken
  <2>5. isr_handler(128, 0) => printed' = "text" /\ UNCHANGED <<status, IF_flag>>
    BY <2>2, PushedVector DEF isr_handler, syscall_handler, num_syscalls, syscalls
  <2> QED BY <2>1, <2>2, <2>3, <2>4, <2>5
<1>2. TypeOK'
  BY <1>1 DEF IInv, TypeOK, Step, machine, dt, tss, pics, keyboard, ring, memory
<1>3. TaskInv'
  BY <1>1 DEF IInv, TaskInv, Step, machine, tasks, tss, UserMode, BeforeSti,
     BeforeTasks
<1>4. TablesInv'
  BY <1>1 DEF IInv, TablesInv, Step, dt, pics, write_tss
<1>5. HandlersInv'
  BY <1>1 DEF IInv, HandlersInv, Step, WithKeyboard, BeforeTasks, BeforeSti
<1>6. KeyboardInv'
  BY <1>1 DEF IInv, KeyboardInv, Step, pics, keyboard, ring, NoGarbageChar, UserMode
<1>7. MemoryInv'
  BY <1>1 DEF IInv, MemoryInv, Step, machine, memory, BeforeTasks, BeforeSti,
     PlacementSound, Overlap
<1>8. TssFollowsTask' /\ StopCauses' /\ status' # "wild"
  <2>1. status' = "reset" => kernel_stack = "unmapped"
    BY <1>1 DEF IInv, TypeOK
  <2> QED
    BY <1>1, <2>1 DEF IInv, TssFollowsTask, StopCauses, UserMode, NoRoom, Step, tss,
       keyboard, ring, memory
<1> QED BY <1>2, <1>3, <1>4, <1>5, <1>6, <1>7, <1>8 DEF IInv

LEMMA GetcharStep ==
    ASSUME IInv, UserGetchar PROVE IInv'
<1>1. /\ status = "ok" /\ stage = "loop" /\ stage' = stage /\ printed' = printed
      /\ keyboard_buffer_end # 0
      /\ IF esp0 = "mapped" THEN status' = "panic" /\ IF_flag' = FALSE
         ELSE status' = "reset" /\ IF_flag' = IF_flag
      /\ esp0 = kernel_stack /\ kernel_stack # "null"
      /\ UNCHANGED <<tasks, dt, interrupt_handlers, tss, pics, keyboard, memory>>
  <2>1. /\ status = "ok" /\ stage = "loop" /\ stage' = stage /\ Trap(14, 0)
        /\ keyboard_buffer_start # keyboard_buffer_end
        /\ UNCHANGED <<tasks, dt, interrupt_handlers, tss, pics, keyboard, memory>>
    BY DEF UserGetchar
  <2>2. UserMode /\ interrupt_handlers[14] = "page_fault" /\ keyboard_buffer_end # 0
    BY <2>1 DEF UserMode, IInv, HandlersInv, BeforeTasks, BeforeSti, TypeOK
  <2>3. esp0 = kernel_stack /\ kernel_stack # "null"
    BY <2>1, <2>2 DEF IInv, TssFollowsTask, TaskInv, UserMode, BeforeTasks, BeforeSti
  <2>4. IF esp0 = "mapped" THEN isr_handler(14, 0)
        ELSE status' = "reset" /\ UNCHANGED <<IF_flag, printed>>
    BY <2>1, <2>2, TrapTaken
  <2>5. isr_handler(14, 0) => status' = "panic" /\ IF_flag' = FALSE /\ printed' = printed
    BY <2>2, PushedVector DEF isr_handler, page_fault, panic
  <2> QED BY <2>1, <2>2, <2>3, <2>4, <2>5
<1>2. TypeOK'
  BY <1>1 DEF IInv, TypeOK, Step, machine, dt, tss, pics, keyboard, ring, memory
<1>3. TaskInv'
  BY <1>1 DEF IInv, TaskInv, Step, machine, tasks, tss, UserMode, BeforeSti,
     BeforeTasks
<1>4. TablesInv'
  BY <1>1 DEF IInv, TablesInv, Step, dt, pics, write_tss
<1>5. HandlersInv'
  BY <1>1 DEF IInv, HandlersInv, Step, WithKeyboard, BeforeTasks, BeforeSti
<1>6. KeyboardInv'
  BY <1>1 DEF IInv, KeyboardInv, Step, pics, keyboard, ring, NoGarbageChar, UserMode
<1>7. MemoryInv'
  BY <1>1 DEF IInv, MemoryInv, Step, machine, memory, BeforeTasks, BeforeSti,
     PlacementSound, Overlap
<1>8. TssFollowsTask' /\ StopCauses' /\ status' # "wild"
  <2>1. status' = "reset" => kernel_stack = "unmapped"
    BY <1>1 DEF IInv, TypeOK
  <2> QED
    BY <1>1, <2>1 DEF IInv, TssFollowsTask, StopCauses, UserMode, NoRoom, Step, tss,
       keyboard, ring, memory
<1> QED BY <1>2, <1>3, <1>4, <1>5, <1>6, <1>7, <1>8 DEF IInv

-----------------------------------------------------------------------------
LEMMA InitIInv == Init => IInv
<1> SUFFICES ASSUME Init PROVE IInv
  OBVIOUS
<1>1. TypeOK
  <2>1. interrupt_handlers \in [Vector -> Handler]
    BY DEF Init, Handler
  <2>2. KernelEnd \in Nat /\ MaxKeys \in Nat
    BY KernelAssumption
  <2>3. /\ irr = {} /\ isr = {} /\ idt_entries = {} /\ status = "ok"
        /\ keyboard_buffer \in [0..MaxKeys -> {"zero", "char", "garbage"}]
        /\ placed \in [{"frames", "kernel_directory", "heap_table", "identity_table",
                         "kheap"} -> Nat]
    BY <2>2 DEF Init, T!NoTask
  <2>4. /\ obf \in BOOLEAN /\ typed \in 0..MaxKeys /\ keyboard_buffer_end \in 0..MaxKeys
        /\ placement_address \in Nat /\ initrd_end \in {0} \cup InitrdEnds
    <3>1. obf = FALSE /\ typed = 0 /\ keyboard_buffer_end = 0 /\ initrd_end = 0
          /\ placement_address = KernelEnd
      BY DEF Init
    <3>2. obf \in BOOLEAN
      BY <3>1
    <3>3. typed \in 0..MaxKeys /\ keyboard_buffer_end \in 0..MaxKeys
      BY <2>2, <3>1
    <3>4. placement_address \in Nat /\ initrd_end \in {0} \cup InitrdEnds
      BY <2>2, <3>1
    <3> QED BY <3>2, <3>3, <3>4
  <2> QED BY <2>1, <2>3, <2>4 DEF Init, TypeOK
<1>2. TaskInv
  <2>1. /\ next \in [T!Task -> Int] /\ page_directory \in [T!Task -> Int]
        /\ pc \in [T!Task -> {"boot", "init_alloc", "init_fields", "run", "user"}]
        /\ eip \in [T!Task -> {"none", "switch"}] /\ pc[1] = "boot"
        /\ current_task = 0 /\ next_pid = 1 /\ current_directory = 1
    BY OneTask DEF Init, T!NoTask, T!NULL
  <2> QED BY <2>1 DEF Init, TaskInv, UserMode, BeforeSti, BeforeTasks
<1>3. TablesInv /\ HandlersInv
  BY DEF Init, TablesInv, HandlersInv, WithKeyboard, Vector, BeforeTasks, BeforeSti
<1>4. KeyboardInv
  BY DEF Init, KeyboardInv, NoGarbageChar, UserMode
<1>5. MemoryInv
  BY DEF Init, MemoryInv, PlacementSound
<1>6. TssFollowsTask /\ StopCauses /\ status # "wild"
  BY DEF Init, TssFollowsTask, StopCauses, UserMode, T!NoTask
<1> QED BY <1>1, <1>2, <1>3, <1>4, <1>5, <1>6 DEF IInv

LEMMA NextIInv ==
    ASSUME IInv, [Next]_vars PROVE IInv'
<1>1. CASE init_descriptor_tables
  BY <1>1, GdtStep, IdtStep, HandlersStep DEF init_descriptor_tables
<1>2. CASE EnableInterrupts \/ init_timer \/ CheckModules
  BY <1>2, StiStep, TimerStep, ModulesStep
<1>3. CASE initialise_paging \/ initialise_initrd \/ initialise_syscalls
  BY <1>3, PagingStep, InitrdStep, SyscallsStep
<1>4. CASE initialise_tasking
  <2>1. /\ status = "ok" /\ stage = "tasking"
        /\ UNCHANGED <<dt, interrupt_handlers, esp0, pics, keyboard, printed, memory>>
    BY <1>4 DEF initialise_tasking
  <2>2. CASE T!InitCli(1) /\ UNCHANGED <<stage, kernel_stack>>
    BY <2>1, <2>2, CliStep
  <2>3. CASE /\ T!InitAlloc(1) /\ kernel_stack' \in {"mapped", "unmapped"}
             /\ UNCHANGED stage
    BY <2>1, <2>3, AllocStep
  <2>4. CASE T!InitFields(1) /\ stage' = "initrd" /\ UNCHANGED kernel_stack
    BY <2>1, <2>4, FieldsStep
  <2> QED BY <1>4, <2>2, <2>3, <2>4 DEF initialise_tasking
<1>5. CASE init_keyboard_driver
  <2>1. UNCHANGED <<machine, dt, tss, pics, obf, typed, printed, memory>>
    BY <1>5 DEF init_keyboard_driver
  <2>2. CASE /\ Step("kb_register", "kb_layout")
             /\ register_interrupt_handler(IRQ1, "keyboard_handler")
             /\ UNCHANGED <<current_layout, ring>>
    BY <2>1, <2>2, KbRegisterStep DEF register_interrupt_handler, IRQ1
  <2>3. CASE /\ Step("kb_layout", "kb_start") /\ current_layout' = "us"
             /\ UNCHANGED <<interrupt_handlers, ring>>
    BY <2>1, <2>3, KbLayoutStep
  <2>4. CASE /\ Step("kb_start", "kb_end") /\ keyboard_buffer_start' = 0
             /\ UNCHANGED <<interrupt_handlers, current_layout, keyboard_buffer,
                            keyboard_buffer_end>>
    BY <2>1, <2>4, KbStartStep
  <2>5. CASE /\ Step("kb_end", "user_mode") /\ keyboard_buffer_end' = 0
             /\ UNCHANGED <<interrupt_handlers, current_layout, keyboard_buffer,
                            keyboard_buffer_start>>
    BY <2>1, <2>5, KbEndStep
  <2> QED BY <1>5, <2>2, <2>3, <2>4, <2>5 DEF init_keyboard_driver
<1>6. CASE switch_to_user_mode \/ Hello \/ UserGetchar
  BY <1>6, UserModeStep, HelloStep, GetcharStep
<1>7. ASSUME NEW l \in {0, 1, 8}, Interrupt(l) PROVE IInv'
  <2>1. CASE l = 0 /\ timer_callback
    BY <1>7, <2>1, TimerInterruptStep
  <2>2. CASE l = 1 /\ keyboard_handler
    BY <1>7, <2>2, KeyboardInterruptStep
  <2>3. CASE UNCHANGED <<machine, esp0, keyboard>>
    BY <1>7, <2>3, QuietInterruptStep
  <2> QED BY <1>7, <2>1, <2>2, <2>3, InterruptTaken
<1>8. CASE Tick(0) \/ Tick(8) \/ Key
  BY <1>8, TickStep, KeyStep
<1>9. CASE UNCHANGED vars
  BY <1>9, StutterStep
<1> QED BY <1>1, <1>2, <1>3, <1>4, <1>5, <1>6, <1>7, <1>8, <1>9 DEF Next, kernel_start

LEMMA SpecIInv == Spec => []IInv
<1>1. IInv /\ [Next]_vars => IInv'
  BY NextIInv
<1> QED BY InitIInv, <1>1, PTL DEF Spec

(* Every variable of the boot keeps its type; in particular every index of *)
(* the ring buffer and of the table of handlers is one.                    *)
THEOREM KernelTypes == Spec => []TypeOK
<1>1. IInv => TypeOK
  BY DEF IInv
<1> QED BY SpecIInv, <1>1, PTL

(* irq_handler's EOIs leave no line in service at either PIC when the next *)
(* interrupt can come, whichever interrupts have come before.              *)
THEOREM InterruptsAreAcknowledged == Spec => []InterruptsAcknowledged
<1>1. IInv => InterruptsAcknowledged
  BY DEF IInv, KeyboardInv, InterruptsAcknowledged
<1> QED BY SpecIInv, <1>1, PTL

(* Only the causes named stop the machine: no interrupt taken at any step  *)
(* of kernel_start does, and no way into the kernel from ring 3 is broken. *)
THEOREM BootStopsOnlyForCause == Spec => []StopCauses
<1>1. IInv => StopCauses
  BY DEF IInv
<1> QED BY SpecIInv, <1>1, PTL

(* What keyboard_handler stores before there is a layout is never read.    *)
THEOREM GarbageIsDropped == Spec => []NoGarbageChar
<1>1. IInv => NoGarbageChar
  BY DEF IInv, KeyboardInv
<1> QED BY SpecIInv, <1>1, PTL

(* Wherever the ramdisk ends, what initialise_paging allocates lies behind *)
(* it, aligned and apart, but for the exception that is named.             *)
THEOREM PlacementIsSound == Spec => []PlacementSound
<1>1. IInv => PlacementSound
  BY DEF IInv, MemoryInv
<1> QED BY SpecIInv, <1>1, PTL

(* Before keyboard_handler is registered, at most one key has been typed;  *)
(* its scancode is still in the controller, and nothing has been stored.   *)
EarlyKeys ==
    stage \notin WithKeyboard =>
        /\ (typed = 0 /\ ~obf) \/ (typed = 1 /\ obf)
        /\ keyboard_buffer_end = 0
        /\ \A n \in 0..MaxKeys : keyboard_buffer[n] = "zero"

LEMMA KeysStep ==
    ASSUME IInv, EarlyKeys, SilencedByFirstKey, [Next]_vars
    PROVE  EarlyKeys' /\ SilencedByFirstKey'
<1>1. CASE UNCHANGED vars
  BY <1>1 DEF EarlyKeys, SilencedByFirstKey, Silenced, vars, pics, keyboard, ring
<1>2. CASE Tick(0) \/ Tick(8)
  BY <1>2 DEF Tick, EarlyKeys, SilencedByFirstKey, Silenced, keyboard, ring
<1>3. CASE Key
  BY <1>3 DEF Key, EarlyKeys, SilencedByFirstKey, Silenced, ring, IInv, TypeOK
<1>4. ASSUME NEW l \in {0, 1, 8}, Interrupt(l)
      PROVE  EarlyKeys' /\ SilencedByFirstKey'
  <2>1. irr' = irr \ {l} /\ stage' = stage /\ l \in irr
    BY <1>4, InterruptTaken
  <2>2. CASE l = 1 /\ stage \in WithKeyboard
    <3>1. obf' = FALSE
      BY <1>4, <2>2, InterruptTaken DEF keyboard_handler
    <3> QED BY <2>1, <2>2, <3>1 DEF EarlyKeys, SilencedByFirstKey, Silenced
  <2>3. CASE ~(l = 1 /\ stage \in WithKeyboard)
    <3>1. UNCHANGED keyboard
      BY <1>4, <2>3, InterruptTaken DEF timer_callback
    <3> QED BY <2>1, <2>3, <3>1 DEF EarlyKeys, SilencedByFirstKey, Silenced, keyboard, ring
  <2> QED BY <2>2, <2>3
<1>5. CASE kernel_start
  <2>1. UNCHANGED <<obf, typed>> /\ keyboard_buffer' = keyboard_buffer
    BY <1>5 DEF kernel_start, init_descriptor_tables, init_gdt, init_idt,
       EnableInterrupts, init_timer, CheckModules, initialise_paging,
       initialise_tasking, initialise_initrd, initialise_syscalls,
       init_keyboard_driver, switch_to_user_mode, Hello, UserGetchar, keyboard, ring
  <2>2. keyboard_buffer_end' \in {keyboard_buffer_end, 0}
    BY <1>5 DEF kernel_start, init_descriptor_tables, init_gdt, init_idt,
       EnableInterrupts, init_timer, CheckModules, initialise_paging,
       initialise_tasking, initialise_initrd, initialise_syscalls,
       init_keyboard_driver, switch_to_user_mode, Hello, UserGetchar, keyboard, ring
  <2>3. stage' \notin WithKeyboard => stage \notin WithKeyboard
    BY <1>5 DEF kernel_start, init_descriptor_tables, init_gdt, init_idt,
       EnableInterrupts, init_timer, CheckModules, initialise_paging,
       initialise_tasking, initialise_initrd, initialise_syscalls,
       init_keyboard_driver, switch_to_user_mode, Hello, UserGetchar, Step, WithKeyboard
  <2>4. irr' = irr \/ stage \notin WithKeyboard
    BY <1>5 DEF kernel_start, init_descriptor_tables, init_gdt, init_idt,
       EnableInterrupts, init_timer, CheckModules, initialise_paging,
       initialise_tasking, initialise_initrd, initialise_syscalls,
       init_keyboard_driver, switch_to_user_mode, Hello, UserGetchar, Step,
       WithKeyboard, pics
  <2> QED BY <2>1, <2>2, <2>3, <2>4 DEF EarlyKeys, SilencedByFirstKey, Silenced
<1> QED BY <1>1, <1>2, <1>3, <1>4, <1>5 DEF Next

(* Only the first key ever typed can silence the keyboard.                 *)
THEOREM KeyboardIsNotShutOut == Spec => []SilencedByFirstKey
<1>1. Init => EarlyKeys /\ SilencedByFirstKey
  BY DEF Init, EarlyKeys, SilencedByFirstKey, Silenced
<1>2. IInv /\ (EarlyKeys /\ SilencedByFirstKey) /\ [Next]_vars
      => (EarlyKeys /\ SilencedByFirstKey)'
  BY KeysStep
<1> QED BY SpecIInv, <1>1, <1>2, PTL DEF Spec
=============================================================================
