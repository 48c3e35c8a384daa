-------------------------------- MODULE Task --------------------------------
(***************************************************************************)
(* Tasks (sys/task.c): initialise_tasking, fork, switch_task called from   *)
(* the timer interrupt (sys/timer.c), and switch_to_user_mode, on one CPU. *)
(*                                                                         *)
(* The code of the running task is cut where an interrupt could matter;    *)
(* the interrupt is taken between two cuts, if the CPU's IF flag is set.   *)
(* Its gate clears IF, so the handler runs as one step, and switch_task    *)
(* ends by setting IF and jumping into the task it has chosen.             *)
(*                                                                         *)
(* A task that was switched out resumes inside switch_task, sees the value *)
(* 0x12345 and returns to what it was doing; a task that never ran resumes *)
(* inside fork, as fork's caller does, on the copy of its caller's stack.  *)
(*                                                                         *)
(* child_stack never changes.  "missing" is what the code does:            *)
(* clone_table leaves the stack out (run PagingFork), and a child faults   *)
(* as soon as it is switched to.  "cloned" is a kernel with that line      *)
(* mended: the invariants are checked for it too, since no child runs      *)
(* otherwise.                                                              *)
(***************************************************************************)
EXTENDS Integers

CONSTANT MaxTasks       \* bound: tasks ever created

ASSUME TaskAssumption == MaxTasks \in Nat \ {0}

VARIABLES
    child_stack,        \* is the stack "cloned" or "missing" in a clone?
    next_pid,
    ready_queue,
    current_task,       \* 0 is NULL
    current_directory,
    ndirs,              \* page directories made so far
    next, eip, page_directory,      \* the fields of the task structures
    parent_task, new_task, ret,     \* on each task's stack: fork's locals, its last result
    pc,                 \* where each task is in its code
    IF_flag,            \* the CPU's interrupt flag
    status              \* "ok", "page_fault" or "wild": the CPU runs on

fields == <<next, eip, page_directory>>
locals == <<parent_task, new_task, ret>>
queue  == <<ready_queue, next_pid>>
cpu    == <<current_task, current_directory, IF_flag, status>>
vars   == <<child_stack, queue, fields, locals, ndirs, pc, cpu>>

Task    == 1..MaxTasks
NULL    == 0
Garbage == -1       \* what kmalloc leaves in a structure

TypeOK ==
    /\ child_stack \in {"cloned", "missing"}
    /\ next_pid \in 1..(MaxTasks + 1)
    /\ ready_queue \in 0..MaxTasks
    /\ current_task \in 0..MaxTasks
    /\ current_directory \in 1..ndirs
    /\ ndirs \in Task
    /\ next \in [Task -> -1..MaxTasks]
    /\ eip \in [Task -> {"none", "fork", "switch"}]
    /\ page_directory \in [Task -> 0..MaxTasks]
    /\ parent_task \in [Task -> 0..MaxTasks]
    /\ new_task \in [Task -> 0..MaxTasks]
    /\ ret \in [Task -> -1..MaxTasks]
    /\ pc \in [Task -> {"boot", "init_alloc", "init_fields", "run", "user",
                        "fork_clone", "fork_new", "fork_link", "fork_cmp"}]
    /\ IF_flag \in BOOLEAN
    /\ status \in {"ok", "page_fault", "wild"}

(* There is no task yet, and the CPU is in the directory that              *)
(* initialise_paging clones.                                               *)
NoTask ==
    /\ next_pid = 1
    /\ ready_queue = NULL
    /\ current_task = NULL
    /\ current_directory = 1
    /\ ndirs = 1
    /\ next = [t \in Task |-> NULL]
    /\ eip = [t \in Task |-> "none"]
    /\ page_directory = [t \in Task |-> 0]
    /\ parent_task = [t \in Task |-> NULL]
    /\ new_task = [t \in Task |-> NULL]
    /\ ret = [t \in Task |-> -1]
    /\ pc = [t \in Task |-> "boot"]
    /\ status = "ok"

(* kernel_start after initialise_paging: interrupts are on.                *)
Init == NoTask /\ IF_flag = TRUE /\ child_stack \in {"cloned", "missing"}

-----------------------------------------------------------------------------
(* The code of kernel_start becomes the first task.                        *)
At(t, label) ==
    /\ status = "ok"
    /\ pc[t] = label
    /\ t = IF current_task = NULL THEN 1 ELSE current_task

Goto(t, label) == pc' = [pc EXCEPT ![t] = label]

(* initialise_tasking: cli, move_stack, then the first task's structure.   *)
InitCli(t) ==
    /\ At(t, "boot")
    /\ IF_flag' = FALSE
    /\ Goto(t, "init_alloc")
    /\ UNCHANGED <<child_stack, queue, fields, locals, ndirs, current_task,
                   current_directory, status>>

InitAlloc(t) ==
    /\ At(t, "init_alloc")
    /\ current_task' = next_pid /\ ready_queue' = next_pid
    /\ next' = [next EXCEPT ![next_pid] = Garbage]
    /\ Goto(t, "init_fields")
    /\ UNCHANGED <<child_stack, next_pid, eip, page_directory, locals, ndirs,
                   current_directory, IF_flag, status>>

InitFields(t) ==
    /\ At(t, "init_fields")
    /\ next_pid' = next_pid + 1
    /\ eip' = [eip EXCEPT ![t] = "none"]
    /\ page_directory' = [page_directory EXCEPT ![t] = current_directory]
    /\ next' = [next EXCEPT ![t] = NULL]
    /\ IF_flag' = TRUE
    /\ Goto(t, "run")
    /\ UNCHANGED <<child_stack, ready_queue, locals, ndirs, current_task,
                   current_directory, status>>

(* Mutant: fork does not disable interrupts.                               *)
ForkCli_Enabled(t) ==
    /\ At(t, "run") /\ next_pid <= MaxTasks
    /\ parent_task' = [parent_task EXCEPT ![t] = current_task]
    /\ Goto(t, "fork_clone")
    /\ UNCHANGED <<child_stack, queue, fields, new_task, ret, ndirs, cpu>>

(* fork: cli, and parent_task is remembered.                               *)
ForkCli(t) ==
    /\ At(t, "run") /\ next_pid <= MaxTasks
    /\ IF_flag' = FALSE
    /\ parent_task' = [parent_task EXCEPT ![t] = current_task]
    /\ Goto(t, "fork_clone")
    /\ UNCHANGED <<child_stack, queue, fields, new_task, ret, ndirs, current_task,
                   current_directory, status>>

(* clone_directory.  The child's stack is copied now, parent_task in it.   *)
ForkClone(t) ==
    /\ At(t, "fork_clone")
    /\ ndirs' = ndirs + 1
    /\ parent_task' = [parent_task EXCEPT ![ndirs + 1] = parent_task[t]]
    /\ Goto(t, "fork_new")
    /\ UNCHANGED <<child_stack, queue, fields, new_task, ret, cpu>>

(* Mutant: the new structure's page_directory is forgotten.                *)
ForkNew_NoDirectory(t) ==
    /\ At(t, "fork_new")
    /\ new_task' = [new_task EXCEPT ![t] = next_pid]
    /\ next_pid' = next_pid + 1
    /\ eip' = [eip EXCEPT ![next_pid] = "none"]
    /\ next' = [next EXCEPT ![next_pid] = NULL]
    /\ Goto(t, "fork_link")
    /\ UNCHANGED <<child_stack, ready_queue, page_directory, parent_task, ret,
                   ndirs, cpu>>

(* The new structure, with the directory that was just made.               *)
ForkNew(t) ==
    /\ At(t, "fork_new")
    /\ new_task' = [new_task EXCEPT ![t] = next_pid]
    /\ next_pid' = next_pid + 1
    /\ eip' = [eip EXCEPT ![next_pid] = "none"]
    /\ page_directory' = [page_directory EXCEPT ![next_pid] = ndirs]
    /\ next' = [next EXCEPT ![next_pid] = NULL]
    /\ Goto(t, "fork_link")
    /\ UNCHANGED <<child_stack, ready_queue, parent_task, ret, ndirs, cpu>>

(* The tasks of the ready queue: those a walk from its head along next     *)
(* meets, the least set that holds the head and each member's next.        *)
Walked(S) ==
    /\ ready_queue \in Task => ready_queue \in S
    /\ \A t \in S : next[t] \in Task => next[t] \in S

Queue == {t \in Task : \A S \in SUBSET Task : Walked(S) => t \in S}

(* The child is linked at the end of the ready queue.                      *)
ForkLink(t) ==
    /\ At(t, "fork_link")
    /\ \E last \in Queue :
          next[last] = NULL /\ next' = [next EXCEPT ![last] = new_task[t]]
    /\ Goto(t, "fork_cmp")
    /\ UNCHANGED <<child_stack, queue, eip, page_directory, locals, ndirs, cpu>>

(* Mutant: the child's registers are not set.                              *)
ForkCompare_NoContext(t) ==
    /\ At(t, "fork_cmp")
    /\ IF current_task = parent_task[t]
       THEN /\ IF_flag' = TRUE
            /\ ret' = [ret EXCEPT ![t] = new_task[t]]
       ELSE /\ ret' = [ret EXCEPT ![t] = 0]
            /\ UNCHANGED IF_flag
    /\ Goto(t, "run")
    /\ UNCHANGED <<child_stack, queue, fields, parent_task, new_task, ndirs,
                   current_task, current_directory, status>>

(* Behind read_eip, where the parent goes on and the child starts.         *)
ForkCompare(t) ==
    /\ At(t, "fork_cmp")
    /\ IF current_task = parent_task[t]
       THEN /\ eip' = [eip EXCEPT ![new_task[t]] = "fork"]
            /\ IF_flag' = TRUE
            /\ ret' = [ret EXCEPT ![t] = new_task[t]]
       ELSE /\ ret' = [ret EXCEPT ![t] = 0]
            /\ UNCHANGED <<eip, IF_flag>>
    /\ Goto(t, "run")
    /\ UNCHANGED <<child_stack, queue, next, page_directory, parent_task, new_task,
                   ndirs, current_task, current_directory, status>>

(* switch_to_user_mode: cli, and the flags that iret restores are pushed   *)
(* after it.                                                               *)
switch_to_user_mode(t) ==
    /\ At(t, "run")
    /\ IF_flag' = FALSE
    /\ Goto(t, "user")
    /\ UNCHANGED <<child_stack, queue, fields, locals, ndirs, current_task,
                   current_directory, status>>

-----------------------------------------------------------------------------
(* What the jump at the end of switch_task finds in task t, whose eip is   *)
(* ip.  Directory 1 holds the stack that move_stack made.                  *)
Resume(t, ip) ==
    /\ IF_flag' = TRUE
    /\ current_task' = t
    /\ status' = IF ip = "none" THEN "wild"
                 ELSE IF page_directory[t] # 1 /\ child_stack = "missing" THEN "page_fault"
                 ELSE "ok"
    /\ pc' = IF ip = "fork" THEN [pc EXCEPT ![t] = "fork_cmp"] ELSE pc

(* Mutant: every switch starts again at the head of the queue.             *)
switch_task_Head ==
    /\ current_task # NULL
    /\ eip' = [eip EXCEPT ![current_task] = "switch"]
    /\ Resume(ready_queue, eip'[ready_queue])
    /\ current_directory' = page_directory[ready_queue]
    /\ UNCHANGED <<child_stack, queue, next, page_directory, locals, ndirs>>

(* Mutant: current_directory is not updated.                               *)
switch_task_OldDirectory ==
    /\ current_task # NULL
    /\ eip' = [eip EXCEPT ![current_task] = "switch"]
    /\ LET t == IF next[current_task] = NULL THEN ready_queue ELSE next[current_task]
       IN  t \in Task /\ Resume(t, eip'[t])
    /\ UNCHANGED <<child_stack, queue, next, page_directory, locals, ndirs,
                   current_directory>>

(* switch_task: the current task is left inside it, and the next one of    *)
(* the queue resumed.  Before there is a task it returns at once.          *)
switch_task ==
    /\ current_task # NULL
    /\ eip' = [eip EXCEPT ![current_task] = "switch"]
    /\ LET t == IF next[current_task] = NULL THEN ready_queue ELSE next[current_task]
       IN  IF t \in Task
           THEN Resume(t, eip'[t]) /\ current_directory' = page_directory[t]
           ELSE /\ status' = "wild"
                /\ UNCHANGED <<current_task, current_directory, IF_flag, pc>>
    /\ UNCHANGED <<child_stack, queue, next, page_directory, locals, ndirs>>

(* tick is never read.                                                     *)
timer_callback == switch_task

(* The timer interrupt, taken when IF is set.                              *)
irq_handler == status = "ok" /\ IF_flag /\ timer_callback

initialise_tasking(t) == InitCli(t) \/ InitAlloc(t) \/ InitFields(t)

fork(t) == ForkCli(t) \/ ForkClone(t) \/ ForkNew(t) \/ ForkLink(t) \/ ForkCompare(t)

Next ==
    \/ \E t \in Task : initialise_tasking(t) \/ fork(t) \/ switch_to_user_mode(t)
    \/ irq_handler

Spec == Init /\ [][Next]_vars

(* The PIT keeps ticking, and a task that is resumed over and over gets    *)
(* somewhere: a tick comes 50 times a second.  Calling fork or             *)
(* switch_to_user_mode is up to the task.                                  *)
Progress(t) ==
    initialise_tasking(t) \/ ForkClone(t) \/ ForkNew(t) \/ ForkLink(t) \/ ForkCompare(t)

FairSpec ==
    Spec /\ WF_vars(irq_handler) /\ \A t \in Task : SF_vars(Progress(t))
-----------------------------------------------------------------------------
(* Whenever the timer can interrupt, the ready queue holds every task made *)
(* so far, each once, and ends: a walk along next loses none and no        *)
(* insertion is half done.                                                 *)
QueueIntact ==
    IF_flag /\ current_task # NULL =>
        /\ Queue = {t \in Task : t < next_pid}
        /\ \A t, u \in Queue : next[t] = next[u] => t = u
        /\ \E t \in Queue : next[t] = NULL

(* Whenever the timer can interrupt, every task it could switch to has a   *)
(* place to resume at: fork's child is never scheduled half made, nor the  *)
(* first task before initialise_tasking is done with it.                   *)
ResumableTasks ==
    /\ IF_flag => \A t \in Queue \ {current_task} : eip[t] # "none"
    /\ status # "wild"

(* The memory manager's current_directory is the running task's, and no    *)
(* two tasks have the same one, after any number of switches and forks.    *)
OwnDirectory ==
    IF_flag /\ current_task # NULL =>
        /\ current_directory = page_directory[current_task]
        /\ \A t, u \in Queue : page_directory[t] = page_directory[u] => t = u

(* A task has entered user mode, which it never leaves.                    *)
InUserMode == \E t \in Task : current_task = t /\ pc[t] = "user"

(* src/README.md:46 "When a fork()-ed process attemtps to run, we get a    *)
(* page fault": with the code's clone_table the round robin reaches a      *)
(* forked task that has been linked, whoever forked it, and the CPU stops  *)
(* there; only a task in user mode keeps it from that.                     *)
ForkedTaskFaults ==
    \A t \in Task \ {1} :
        t \in Queue /\ child_stack = "missing" ~> status = "page_fault" \/ InUserMode

(* task.c:266-268 "So we set the IF flag in EFLAGS so that interrupts get  *)
(* attomically reenabled as IRET is executing."                            *)
UserModeInterruptible ==
    InUserMode => IF_flag
=============================================================================
