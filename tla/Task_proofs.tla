----------------------------- MODULE Task_proofs -----------------------------
(***************************************************************************)
(* Proofs about tasks and the scheduler, for any number of tasks, forks    *)
(* and timer ticks.                                                        *)
(***************************************************************************)
EXTENDS Task, WellFoundedInduction, TLAPS

Labels == {"boot", "init_alloc", "init_fields", "run", "user",
           "fork_clone", "fork_new", "fork_link", "fork_cmp"}

(* Before initialise_tasking has finished with the first task's structure, *)
(* with interrupts off from its cli on.                                    *)
Booting ==
    /\ next_pid = 1 /\ ndirs = 1 /\ current_directory = 1 /\ status = "ok"
    /\ eip = [t \in Task |-> "none"]
    /\ IF_flag <=> pc[1] = "boot"
    /\ \/ pc[1] \in {"boot", "init_alloc"} /\ current_task = NULL /\ ready_queue = NULL
       \/ pc[1] = "init_fields" /\ current_task = 1 /\ ready_queue = 1

(* The running task is inside fork as the caller, with interrupts off.     *)
InFork ==
    \/ pc[current_task] \in {"fork_clone", "fork_new", "fork_link"}
    \/ pc[current_task] = "fork_cmp" /\ parent_task[current_task] = current_task

(* The last task of the queue: the newest, once fork has linked it.        *)
Last == IF pc[current_task] = "fork_link" THEN next_pid - 2 ELSE next_pid - 1

(* The queue is the chain of the tasks in the order of their ids.          *)
Chain ==
    /\ ready_queue = 1
    /\ Last >= 1
    /\ \A t \in 1..Last : next[t] = IF t = Last THEN NULL ELSE t + 1
    /\ pc[current_task] = "fork_link" => next[next_pid - 1] = NULL

(* Each task has the directory that was made for it.                       *)
Directories ==
    /\ ndirs = IF pc[current_task] = "fork_new" THEN next_pid ELSE next_pid - 1
    /\ current_directory = current_task
    /\ \A t \in Task : t < next_pid => page_directory[t] = t

(* How far fork has come.                                                  *)
ForkSteps ==
    /\ pc[current_task] \in {"run", "user", "fork_clone", "fork_new", "fork_link",
                             "fork_cmp"}
    /\ IF_flag <=> ~InFork /\ pc[current_task] # "user"
    /\ InFork => parent_task[current_task] = current_task
    /\ pc[current_task] \in {"fork_clone", "fork_new"} => next_pid <= MaxTasks
    /\ pc[current_task] = "fork_new" => parent_task[next_pid] # next_pid
    /\ InFork /\ pc[current_task] \in {"fork_link", "fork_cmp"} =>
          /\ current_task < next_pid - 1
          /\ new_task[current_task] = next_pid - 1
          /\ parent_task[next_pid - 1] # next_pid - 1

(* A task that does not run waits inside switch_task, or is fork's child   *)
(* and will be resumed there; only the child that is being made has no     *)
(* place to resume at.                                                     *)
Waiting(t) ==
    \/ /\ eip[t] = "switch"
       /\ pc[t] \in {"run", "fork_cmp"}
       /\ pc[t] = "fork_cmp" => parent_task[t] # t
    \/ /\ eip[t] = "fork"
       /\ parent_task[t] # t
    \/ /\ eip[t] = "none"
       /\ parent_task[t] # t
       /\ t = next_pid - 1
       /\ InFork /\ pc[current_task] \in {"fork_link", "fork_cmp"}

Running ==
    /\ current_task \in Task /\ current_task < next_pid
    /\ status # "wild"
    /\ Chain
    /\ Directories
    /\ ForkSteps
    /\ \A t \in Task : t < next_pid /\ t # current_task => Waiting(t)

IInv == TypeOK /\ (Booting \/ Running)

-----------------------------------------------------------------------------
(* A set of naturals that is not empty has a least element: the induction  *)
(* along the queue.                                                        *)
LEMMA LeastNat ==
    ASSUME NEW S, S \subseteq Nat, S # {}
    PROVE  \E x \in S : \A y \in S : x <= y
<1>1. IsWellFoundedOn(OpToRel(<, Nat), Nat)
  BY NatLessThanWellFounded
<1>2. PICK x \in S : \A y \in S : ~ (<<y, x>> \in OpToRel(<, Nat))
  BY <1>1, WFMin
<1>3. ASSUME NEW y \in S PROVE x <= y
  <2>1. <<y, x>> \in Nat \X Nat /\ x \in Nat /\ y \in Nat
    OBVIOUS
  <2>2. ~(<<y, x>>[1] < <<y, x>>[2])
    BY <1>2, <2>1, Zenon DEF OpToRel
  <2> QED BY <2>1, <2>2
<1> QED BY <1>3

(* The walk along next meets the tasks up to the last one, and no other.   *)
LEMMA QueueIsChain ==
    ASSUME TypeOK, Running
    PROVE  Last \in Task /\ Queue = 1..Last
<1> USE TaskAssumption DEF Task
<1>1. Last \in Task
  BY DEF TypeOK, Running, Chain, Last
<1>2. ASSUME NEW S \in SUBSET Task, Walked(S), NEW t \in 1..Last PROVE t \in S
  <2> SUFFICES ASSUME t \notin S PROVE FALSE
    OBVIOUS
  <2> DEFINE M == {u \in 1..Last : u \notin S}
  <2>1. M \subseteq Nat /\ M # {}
    BY <1>1
  <2>2. PICK u \in M : \A v \in M : u <= v
    BY <2>1, LeastNat
  <2>3. 1 \in S
    BY <1>1, <1>2 DEF Walked, Running, Chain
  <2>4. u - 1 \in 1..Last /\ u - 1 \notin M
    BY <1>1, <2>2, <2>3
  <2>5. next[u - 1] = u /\ u \in Task
    BY <1>1, <2>2, <2>4 DEF Running, Chain
  <2> QED BY <1>2, <2>4, <2>5 DEF Walked
<1>3. Walked(1..Last) /\ 1..Last \subseteq Task
  BY <1>1 DEF Walked, Running, Chain, NULL
<1>4. Queue \subseteq 1..Last
  BY <1>3 DEF Queue
<1>5. 1..Last \subseteq Queue
  BY <1>1, <1>2, <1>3 DEF Queue
<1> QED BY <1>1, <1>4, <1>5

LEMMA InitIInv == Init => IInv
BY TaskAssumption DEF Init, NoTask, IInv, TypeOK, Booting, Task, NULL

-----------------------------------------------------------------------------
(* initialise_tasking: nothing interrupts it, and at its end the queue is  *)
(* the first task.                                                         *)
LEMMA BootStep ==
    ASSUME TypeOK, Booting, Next PROVE IInv'
<1> USE TaskAssumption DEF Task, NULL
<1>1. 1 \in Task /\ pc \in [Task -> Labels]
  BY DEF TypeOK, Labels
<1>2. ASSUME NEW t \in Task, InitCli(t) PROVE IInv'
  <2>1. t = 1 /\ pc' = [pc EXCEPT ![1] = "init_alloc"] /\ IF_flag' = FALSE
    BY <1>2 DEF InitCli, At, Goto, Booting
  <2>2. UNCHANGED <<child_stack, queue, fields, locals, ndirs, current_task,
                    current_directory, status>>
    BY <1>2 DEF InitCli
  <2>3. pc[1] = "boot"
    BY <1>2, <2>1 DEF InitCli, At
  <2>4. TypeOK'
    BY <1>1, <2>1, <2>2 DEF TypeOK, Labels, queue, fields, locals
  <2>5. Booting'
    BY <1>1, <2>1, <2>2, <2>3 DEF Booting, queue, fields, locals
  <2> QED BY <2>4, <2>5 DEF IInv
<1>3. ASSUME NEW t \in Task, InitAlloc(t) PROVE IInv'
  <2>1. t = 1 /\ pc' = [pc EXCEPT ![1] = "init_fields"] /\ pc[1] = "init_alloc"
    BY <1>3 DEF InitAlloc, At, Goto, Booting
  <2>2. /\ current_task' = 1 /\ ready_queue' = 1 /\ next' = [next EXCEPT ![1] = Garbage]
        /\ UNCHANGED <<child_stack, next_pid, eip, page_directory, locals, ndirs, current_directory,
                       IF_flag, status>>
    BY <1>3 DEF InitAlloc, Booting
  <2>3. next' \in [Task -> -1..MaxTasks]
    BY <2>2 DEF TypeOK, Garbage
  <2>4. TypeOK'
    <3>1. current_task' \in 0..MaxTasks /\ ready_queue' \in 0..MaxTasks
      BY <2>2
    <3>2. pc' \in [Task -> Labels]
      BY <1>1, <2>1 DEF Labels
    <3> QED BY <2>2, <2>3, <3>1, <3>2, Zenon DEF TypeOK, Labels, locals
  <2>5. Booting'
    BY <1>1, <2>1, <2>2 DEF Booting
  <2> QED BY <2>4, <2>5 DEF IInv
<1>4. ASSUME NEW t \in Task, InitFields(t) PROVE IInv'
  <2>1. t = 1 /\ pc' = [pc EXCEPT ![1] = "run"] /\ pc[1] = "init_fields"
    BY <1>4 DEF InitFields, At, Goto, Booting
  <2>2. current_task = 1 /\ ready_queue = 1 /\ next_pid = 1 /\ ndirs = 1
        /\ current_directory = 1 /\ status = "ok"
    BY <2>1 DEF Booting
  <2>3. /\ next_pid' = 2 /\ eip' = [eip EXCEPT ![1] = "none"] /\ IF_flag' = TRUE
        /\ page_directory' = [page_directory EXCEPT ![1] = 1]
        /\ next' = [next EXCEPT ![1] = NULL]
        /\ UNCHANGED <<child_stack, ready_queue, locals, ndirs, current_task,
                       current_directory, status>>
    BY <1>4, <2>1, <2>2 DEF InitFields
  <2>4. TypeOK'
    <3>1. next' \in [Task -> -1..MaxTasks]
      BY <2>3 DEF TypeOK
    <3>2. page_directory' \in [Task -> 0..MaxTasks]
      BY <2>3 DEF TypeOK
    <3>3. eip' \in [Task -> {"none", "fork", "switch"}]
      BY <2>3 DEF TypeOK
    <3>4. next_pid' \in 1..(MaxTasks + 1) /\ IF_flag' \in BOOLEAN
      BY <2>3
    <3> QED BY <1>1, <2>1, <2>2, <2>3, <3>1, <3>2, <3>3, <3>4 DEF TypeOK, Labels, locals
  <2>5. Last' = 1 /\ pc'[1] = "run" /\ ~InFork'
    BY <1>1, <2>1, <2>2, <2>3 DEF Last, InFork
  <2>6. Chain' /\ Directories'
    BY <2>2, <2>3, <2>5 DEF Chain, Directories, TypeOK
  <2>7. ForkSteps'
    BY <2>2, <2>3, <2>5 DEF ForkSteps
  <2>8. Running'
    BY <2>2, <2>3, <2>6, <2>7 DEF Running
  <2> QED BY <2>4, <2>8 DEF IInv
<1>5. ASSUME NEW t \in Task, fork(t) \/ switch_to_user_mode(t) PROVE FALSE
  BY <1>1, <1>5 DEF fork, ForkCli, ForkClone, ForkNew, ForkLink, ForkCompare,
     switch_to_user_mode, At, Booting
<1>6. ASSUME irq_handler PROVE FALSE
  BY <1>6 DEF irq_handler, timer_callback, switch_task, Booting
<1> QED BY <1>2, <1>3, <1>4, <1>5, <1>6 DEF Next, initialise_tasking

-----------------------------------------------------------------------------
(* What the steps of fork need of the state.                               *)
LEMMA RunningFacts ==
    ASSUME TypeOK, Running
    PROVE  /\ current_task \in Task /\ current_task < next_pid
           /\ next_pid \in 2..(MaxTasks + 1) /\ ready_queue = 1
           /\ pc \in [Task -> Labels] /\ IF_flag \in BOOLEAN /\ status # "wild"
           /\ \A t \in Task : \A label : At(t, label) =>
                 t = current_task /\ pc[current_task] = label
<1>1. /\ current_task \in Task /\ current_task < next_pid /\ current_task # NULL
      /\ next_pid \in 2..(MaxTasks + 1)
  BY TaskAssumption DEF TypeOK, Running, Task, NULL
<1>2. \A t \in Task : \A label : At(t, label) =>
        t = current_task /\ pc[current_task] = label
  BY <1>1 DEF At
<1>3. ready_queue = 1 /\ status # "wild"
  BY DEF Running, Chain
<1>4. pc \in [Task -> Labels] /\ IF_flag \in BOOLEAN
  BY DEF TypeOK, Labels
<1> QED BY <1>1, <1>2, <1>3, <1>4

LEMMA FieldTypes ==
    ASSUME TypeOK
    PROVE  /\ eip \in [Task -> {"none", "fork", "switch"}]
           /\ next \in [Task -> -1..MaxTasks]
           /\ page_directory \in [Task -> 0..MaxTasks]
           /\ parent_task \in [Task -> 0..MaxTasks]
           /\ new_task \in [Task -> 0..MaxTasks]
           /\ ret \in [Task -> -1..MaxTasks]
BY DEF TypeOK

LEMMA TaskIds == Task \subseteq Nat /\ Task \subseteq 0..MaxTasks /\ NULL \in 0..MaxTasks
BY TaskAssumption DEF Task, NULL

LEMMA ForkCliStep ==
    ASSUME TypeOK, Running, NEW t \in Task, ForkCli(t) PROVE IInv'
<1> USE TaskAssumption DEF NULL
<1>1. /\ t = current_task /\ pc[t] = "run" /\ next_pid <= MaxTasks
      /\ pc' = [pc EXCEPT ![t] = "fork_clone"] /\ IF_flag' = FALSE
      /\ parent_task' = [parent_task EXCEPT ![t] = t]
      /\ UNCHANGED <<child_stack, queue, fields, new_task, ret, ndirs, current_task,
                     current_directory, status>>
  BY RunningFacts DEF ForkCli, Goto
<1>2. TypeOK'
  <2>1. pc' \in [Task -> Labels] /\ parent_task' \in [Task -> 0..MaxTasks]
    BY <1>1, RunningFacts, FieldTypes, TaskIds DEF Labels
  <2> QED BY <1>1, <2>1 DEF TypeOK, Labels, queue, fields
<1>3. pc'[t] = "fork_clone" /\ InFork' /\ parent_task'[t] = t /\ Last' = Last /\ ~InFork
  BY <1>1, RunningFacts, FieldTypes DEF InFork, Last, queue
<1>4. Chain' /\ Directories'
  BY <1>1, <1>3 DEF Chain, Directories, queue, fields, Running
<1>5. ForkSteps'
  BY <1>1, <1>3 DEF ForkSteps, queue
<1>6. ASSUME NEW u \in Task, u < next_pid, u # t PROVE Waiting(u)'
  <2>1. Waiting(u) /\ pc'[u] = pc[u] /\ parent_task'[u] = parent_task[u]
    BY <1>1, <1>6, RunningFacts, FieldTypes DEF Running
  <2> QED BY <1>1, <1>3, <2>1 DEF Waiting, fields
<1> QED BY <1>1, <1>2, <1>4, <1>5, <1>6, RunningFacts DEF IInv, Running, queue

LEMMA ForkCloneStep ==
    ASSUME TypeOK, Running, NEW t \in Task, ForkClone(t) PROVE IInv'
<1> USE TaskAssumption DEF NULL
<1>1. /\ t = current_task /\ pc[t] = "fork_clone"
      /\ pc' = [pc EXCEPT ![t] = "fork_new"] /\ ndirs' = ndirs + 1
      /\ parent_task' = [parent_task EXCEPT ![ndirs + 1] = parent_task[t]]
      /\ UNCHANGED <<child_stack, queue, fields, new_task, ret, cpu>>
  BY RunningFacts DEF ForkClone, Goto
<1>2. InFork /\ next_pid \in Task /\ parent_task[t] = t /\ ndirs + 1 = next_pid
  BY <1>1, RunningFacts DEF InFork, Running, ForkSteps, Directories, Task
<1>3. TypeOK'
  <2>1. pc' \in [Task -> Labels]
    BY <1>1, RunningFacts DEF Labels
  <2>2. parent_task' \in [Task -> 0..MaxTasks]
    BY <1>1, <1>2, FieldTypes, TaskIds
  <2>3. ndirs' \in Task /\ current_directory' \in 1..ndirs'
    BY <1>1, <1>2, RunningFacts DEF cpu, TypeOK, Task
  <2> QED BY <1>1, <2>1, <2>2, <2>3 DEF TypeOK, Labels, queue, fields, cpu
<1>4. /\ pc'[t] = "fork_new" /\ InFork' /\ Last' = Last
      /\ \A u \in Task : u # next_pid => parent_task'[u] = parent_task[u]
      /\ parent_task'[next_pid] = t
  <2>1. pc'[t] = "fork_new"
    BY <1>1, RunningFacts
  <2>2. \A u \in Task : u # next_pid => parent_task'[u] = parent_task[u]
    BY <1>1, <1>2, FieldTypes
  <2>3. parent_task'[next_pid] = t
    BY <1>1, <1>2, FieldTypes
  <2> QED BY <1>1, <2>1, <2>2, <2>3 DEF InFork, Last, queue, cpu
<1>5. Chain' /\ Directories'
  BY <1>1, <1>2, <1>4 DEF Chain, Directories, queue, fields, cpu, Running
<1>6. ForkSteps'
  BY <1>1, <1>2, <1>4, RunningFacts DEF ForkSteps, queue, cpu, Running, Task
<1>7. ASSUME NEW u \in Task, u < next_pid, u # t PROVE Waiting(u)'
  <2>1. Waiting(u) /\ pc'[u] = pc[u]
    BY <1>1, <1>7, RunningFacts DEF Running
  <2>2. parent_task'[u] = parent_task[u]
    BY <1>4, <1>7, RunningFacts, TaskIds
  <2> QED BY <1>1, <2>1, <2>2 DEF Waiting, fields
<1> QED BY <1>1, <1>3, <1>5, <1>6, <1>7, RunningFacts DEF IInv, Running, queue, cpu

LEMMA ForkNewStep ==
    ASSUME TypeOK, Running, NEW t \in Task, ForkNew(t) PROVE IInv'
<1> USE TaskAssumption DEF NULL
<1>1. /\ t = current_task /\ pc[t] = "fork_new"
      /\ new_task' = [new_task EXCEPT ![t] = next_pid]
      /\ next_pid' = next_pid + 1
      /\ eip' = [eip EXCEPT ![next_pid] = "none"]
      /\ page_directory' = [page_directory EXCEPT ![next_pid] = ndirs]
      /\ next' = [next EXCEPT ![next_pid] = NULL]
      /\ pc' = [pc EXCEPT ![t] = "fork_link"]
      /\ UNCHANGED <<child_stack, ready_queue, parent_task, ret, ndirs, cpu>>
  BY RunningFacts DEF ForkNew, Goto
<1>2. /\ InFork /\ next_pid \in Task /\ parent_task[t] = t /\ ndirs = next_pid
      /\ parent_task[next_pid] # next_pid /\ Last = next_pid - 1
  <2>1. InFork /\ ndirs = next_pid /\ Last = next_pid - 1
    BY <1>1 DEF InFork, Running, Directories, Last
  <2> QED BY <1>1, <2>1, RunningFacts DEF Running, ForkSteps, Task
<1>3. TypeOK'
  <2>1. pc' \in [Task -> Labels]
    BY <1>1, RunningFacts DEF Labels
  <2>2. eip' \in [Task -> {"none", "fork", "switch"}]
    BY <1>1, FieldTypes
  <2>3. new_task' \in [Task -> 0..MaxTasks]
    BY <1>1, <1>2, FieldTypes, TaskIds
  <2>4. page_directory' \in [Task -> 0..MaxTasks]
    BY <1>1, <1>2, FieldTypes, TaskIds
  <2>5. next' \in [Task -> -1..MaxTasks]
    BY <1>1, <1>2, FieldTypes
  <2>6. next_pid' \in 1..(MaxTasks + 1)
    BY <1>1, <1>2 DEF Task
  <2> QED BY <1>1, <2>1, <2>2, <2>3, <2>4, <2>5, <2>6 DEF TypeOK, Labels, cpu
<1>4. /\ pc'[t] = "fork_link" /\ InFork' /\ Last' = next_pid - 1 /\ new_task'[t] = next_pid
      /\ current_task' = t
  <2>1. pc'[t] = "fork_link" /\ current_task' = t
    BY <1>1, RunningFacts DEF cpu
  <2>2. new_task'[t] = next_pid
    BY <1>1, FieldTypes
  <2> QED BY <1>1, <2>1, <2>2, RunningFacts DEF InFork, Last
<1>5. Chain'
  <2>1. /\ next'[next_pid] = NULL /\ next_pid' - 1 = next_pid
        /\ \A u \in Task : u # next_pid => next'[u] = next[u]
    BY <1>1, <1>2, FieldTypes, TaskIds
  <2>2. \A u \in 1..Last : u \in Task /\ u # next_pid
    BY <1>2 DEF Task
  <2> QED BY <1>1, <1>2, <1>4, <2>1, <2>2 DEF Chain, Running
<1>6. Directories'
  <2>1. /\ page_directory'[next_pid] = next_pid
        /\ \A u \in Task : u # next_pid => page_directory'[u] = page_directory[u]
    BY <1>1, <1>2, FieldTypes
  <2>2. \A u \in Task : u < next_pid' => u = next_pid \/ u < next_pid
    BY <1>1, <1>2, TaskIds
  <2>3. ndirs' = next_pid' - 1
    BY <1>1, <1>2, TaskIds
  <2> QED BY <1>1, <1>4, <2>1, <2>2, <2>3 DEF Directories, cpu, Running
<1>7. ForkSteps'
  BY <1>1, <1>2, <1>4, RunningFacts DEF ForkSteps, cpu, Running, Task
<1>8. ASSUME NEW u \in Task, u < next_pid', u # t PROVE Waiting(u)'
  <2>1. CASE u = next_pid
    <3>1. eip'[u] = "none" /\ parent_task'[u] # u /\ u = next_pid' - 1
      BY <1>1, <1>2, <2>1, FieldTypes, TaskIds
    <3> QED BY <1>4, <3>1 DEF Waiting
  <2>2. CASE u < next_pid
    <3>1. Waiting(u) /\ pc'[u] = pc[u] /\ parent_task'[u] = parent_task[u]
      BY <1>1, <1>8, <2>2, RunningFacts DEF Running
    <3>2. eip'[u] = eip[u]
      BY <1>1, <1>2, <2>2, FieldTypes, TaskIds
    <3>3. eip[u] # "none"
      BY <1>1, <3>1 DEF Waiting
    <3> QED BY <1>1, <3>1, <3>2, <3>3 DEF Waiting
  <2> QED BY <1>1, <1>2, <1>8, <2>1, <2>2, TaskIds
<1>9. current_task' \in Task /\ current_task' < next_pid' /\ status' # "wild"
  BY <1>1, RunningFacts, TaskIds DEF cpu
<1> QED BY <1>3, <1>4, <1>5, <1>6, <1>7, <1>8, <1>9 DEF IInv, Running

LEMMA ForkLinkStep ==
    ASSUME TypeOK, Running, NEW t \in Task, ForkLink(t) PROVE IInv'
<1> USE TaskAssumption DEF NULL
<1>1. /\ t = current_task /\ pc[t] = "fork_link"
      /\ pc' = [pc EXCEPT ![t] = "fork_cmp"]
      /\ UNCHANGED <<child_stack, queue, eip, page_directory, locals, ndirs, cpu>>
  BY RunningFacts DEF ForkLink, Goto
<1>2. /\ InFork /\ parent_task[t] = t /\ t < next_pid - 1 /\ new_task[t] = next_pid - 1
      /\ Last = next_pid - 2 /\ Last \in Task /\ Queue = 1..Last /\ next_pid - 1 \in Task
  BY <1>1, RunningFacts, QueueIsChain DEF InFork, Running, ForkSteps, Last, Task
<1>3. next' = [next EXCEPT ![Last] = next_pid - 1]
  <2>1. PICK last \in Queue : next[last] = NULL /\ next' = [next EXCEPT ![last] = new_task[t]]
    BY DEF ForkLink
  <2>2. last = Last
    BY <1>2, <2>1 DEF Running, Chain
  <2> QED BY <1>2, <2>1, <2>2
<1>4. TypeOK'
  <2>1. pc' \in [Task -> Labels]
    BY <1>1, RunningFacts DEF Labels
  <2>2. next_pid - 1 \in -1..MaxTasks
    BY <1>2 DEF Task
  <2>3. next' \in [Task -> -1..MaxTasks]
    BY <1>3, <2>2, FieldTypes
  <2> QED BY <1>1, <2>1, <2>3 DEF TypeOK, Labels, queue, locals, cpu
<1>5. pc'[t] = "fork_cmp" /\ InFork' /\ Last' = next_pid - 1
  <2>1. pc'[t] = "fork_cmp"
    BY <1>1, RunningFacts
  <2> QED BY <1>1, <1>2, <2>1, RunningFacts DEF InFork, Last, cpu, queue, locals
<1>6. Chain'
  <2>1. next[next_pid - 1] = NULL /\ next_pid - 1 # Last
    BY <1>1, <1>2, RunningFacts DEF Running, Chain
  <2>2. next'[Last] = next_pid - 1 /\ \A u \in Task : u # Last => next'[u] = next[u]
    BY <1>2, <1>3, FieldTypes
  <2>3. \A u \in 1..(next_pid - 1) : u \in Task /\ (u \in 1..Last \/ u = next_pid - 1)
    BY <1>2, RunningFacts DEF Task
  <2>4. ready_queue' = 1 /\ next_pid' = next_pid /\ current_task' = t
    BY <1>1, RunningFacts DEF queue, cpu
  <2>5. next_pid - 1 >= 1 /\ next_pid - 1 \in Task
    BY <1>2, RunningFacts DEF Task
  <2>6. \A u \in 1..(next_pid - 1) : next'[u] = IF u = next_pid - 1 THEN NULL ELSE u + 1
    <3> SUFFICES ASSUME NEW u \in 1..(next_pid - 1)
                 PROVE  next'[u] = IF u = next_pid - 1 THEN NULL ELSE u + 1
      OBVIOUS
    <3>1. CASE u = next_pid - 1
      BY <2>1, <2>2, <2>5, <3>1
    <3>2. CASE u = Last
      BY <1>2, <2>1, <2>2, <3>2, RunningFacts
    <3>3. CASE u \in 1..Last /\ u # Last
      <4>1. next[u] = u + 1
        BY <3>3 DEF Running, Chain
      <4> QED BY <2>1, <2>2, <2>3, <3>3, <4>1, <1>2, RunningFacts
    <3> QED BY <2>3, <3>1, <3>2, <3>3
  <2> QED BY <1>5, <2>4, <2>5, <2>6 DEF Chain
<1>7. Directories'
  BY <1>1, <1>2, <1>5, RunningFacts DEF Directories, cpu, Running, queue
<1>8. ForkSteps'
  BY <1>1, <1>2, <1>5, RunningFacts DEF ForkSteps, cpu, Running, queue, locals
<1>9. ASSUME NEW u \in Task, u < next_pid, u # t PROVE Waiting(u)'
  <2>1. Waiting(u) /\ pc'[u] = pc[u]
    BY <1>1, <1>9, RunningFacts DEF Running
  <2> QED BY <1>1, <1>5, <2>1 DEF Waiting, locals, queue, cpu
<1> QED BY <1>1, <1>4, <1>6, <1>7, <1>8, <1>9, RunningFacts DEF IInv, Running, cpu, queue

(* The parent completes its child and lets interrupts in; a child that     *)
(* comes here never takes itself for its parent.                           *)
LEMMA ForkCompareStep ==
    ASSUME TypeOK, Running, NEW t \in Task, ForkCompare(t) PROVE IInv'
<1> USE TaskAssumption DEF NULL
<1>1. /\ t = current_task /\ pc[t] = "fork_cmp"
      /\ pc' = [pc EXCEPT ![t] = "run"]
      /\ UNCHANGED <<child_stack, queue, next, page_directory, parent_task, new_task, ndirs,
                     current_task, current_directory, status>>
  BY RunningFacts DEF ForkCompare, Goto
<1>2. pc'[t] = "run" /\ pc' \in [Task -> Labels] /\ ~InFork' /\ Last' = Last
  <2>1. pc'[t] = "run" /\ pc' \in [Task -> Labels]
    BY <1>1, RunningFacts DEF Labels
  <2> QED BY <1>1, <2>1 DEF InFork, Last, queue
<1>3. IF_flag' = TRUE
  <2>1. CASE current_task = parent_task[t]
    BY <2>1 DEF ForkCompare
  <2>2. CASE current_task # parent_task[t]
    <3>1. IF_flag' = IF_flag
      BY <2>2 DEF ForkCompare
    <3> QED BY <1>1, <2>2, <3>1, RunningFacts DEF InFork, Running, ForkSteps
  <2> QED BY <2>1, <2>2
<1>4. ASSUME NEW u \in Task, u < next_pid, u # t
      PROVE  \/ eip'[u] = "fork" /\ parent_task[u] # u
             \/ eip'[u] = eip[u] /\ eip[u] # "none"
  <2>1. Waiting(u)
    BY <1>1, <1>4 DEF Running
  <2>2. CASE current_task = parent_task[t]
    <3>1. /\ InFork /\ new_task[t] = next_pid - 1
          /\ parent_task[next_pid - 1] # next_pid - 1
      BY <1>1, <2>2 DEF InFork, Running, ForkSteps
    <3>2. eip' = [eip EXCEPT ![next_pid - 1] = "fork"]
      BY <2>2, <3>1 DEF ForkCompare
    <3>3. CASE u = next_pid - 1
      BY <3>1, <3>2, <3>3, FieldTypes
    <3>4. CASE u # next_pid - 1
      BY <2>1, <3>2, <3>4, FieldTypes DEF Waiting
    <3> QED BY <3>3, <3>4
  <2>3. CASE current_task # parent_task[t]
    <3>1. eip' = eip /\ ~InFork
      BY <1>1, <2>3 DEF ForkCompare, InFork
    <3> QED BY <2>1, <3>1 DEF Waiting
  <2> QED BY <2>2, <2>3
<1>5. TypeOK'
  <2>1. eip' \in [Task -> {"none", "fork", "switch"}]
    BY FieldTypes DEF ForkCompare
  <2>2. ret' \in [Task -> -1..MaxTasks]
    <3>1. new_task[t] \in -1..MaxTasks /\ 0 \in -1..MaxTasks
      BY FieldTypes
    <3> QED BY <3>1, FieldTypes DEF ForkCompare
  <2>3. IF_flag' \in BOOLEAN
    BY <1>3
  <2> QED BY <1>1, <1>2, <2>1, <2>2, <2>3 DEF TypeOK, Labels, queue
<1>6. Chain' /\ Directories'
  BY <1>1, <1>2 DEF Chain, Directories, queue, Running
<1>7. ForkSteps'
  BY <1>1, <1>2, <1>3 DEF ForkSteps
<1>8. ASSUME NEW u \in Task, u < next_pid, u # t PROVE Waiting(u)'
  <2>1. Waiting(u) /\ pc'[u] = pc[u]
    BY <1>1, <1>8, RunningFacts DEF Running
  <2> QED BY <1>1, <1>4, <1>8, <2>1 DEF Waiting
<1> QED BY <1>1, <1>5, <1>6, <1>7, <1>8, RunningFacts DEF IInv, Running, queue

LEMMA UserModeStep ==
    ASSUME TypeOK, Running, NEW t \in Task, switch_to_user_mode(t) PROVE IInv'
<1> USE TaskAssumption DEF NULL
<1>1. /\ t = current_task /\ pc[t] = "run"
      /\ pc' = [pc EXCEPT ![t] = "user"] /\ IF_flag' = FALSE
      /\ UNCHANGED <<child_stack, queue, fields, locals, ndirs, current_task,
                     current_directory, status>>
  BY RunningFacts DEF switch_to_user_mode, Goto
<1>2. pc'[t] = "user" /\ pc' \in [Task -> Labels] /\ ~InFork' /\ Last' = Last /\ ~InFork
  <2>1. pc'[t] = "user" /\ pc' \in [Task -> Labels]
    BY <1>1, RunningFacts DEF Labels
  <2> QED BY <1>1, <2>1 DEF InFork, Last, queue
<1>3. TypeOK'
  BY <1>1, <1>2 DEF TypeOK, Labels, queue, fields, locals
<1>4. Chain' /\ Directories'
  BY <1>1, <1>2 DEF Chain, Directories, queue, fields, Running
<1>5. ForkSteps'
  BY <1>1, <1>2 DEF ForkSteps
<1>6. ASSUME NEW u \in Task, u < next_pid, u # t PROVE Waiting(u)'
  <2>1. Waiting(u) /\ pc'[u] = pc[u]
    BY <1>1, <1>6, RunningFacts DEF Running
  <2> QED BY <1>1, <1>2, <2>1 DEF Waiting, fields, locals
<1> QED BY <1>1, <1>3, <1>4, <1>5, <1>6, RunningFacts DEF IInv, Running, queue

(* The timer interrupt: the running task is outside fork, so the task it   *)
(* switches to, the next of the chain or the first, can be resumed.        *)
LEMMA SwitchTaskStep ==
    ASSUME TypeOK, Running, irq_handler PROVE IInv'
<1> USE TaskAssumption DEF NULL
<1>1. /\ IF_flag /\ ~InFork /\ pc[current_task] \in {"run", "fork_cmp"}
      /\ pc[current_task] = "fork_cmp" => parent_task[current_task] # current_task
      /\ Last = next_pid - 1
  BY DEF irq_handler, Running, ForkSteps, InFork, Last
<1>2. /\ eip' = [eip EXCEPT ![current_task] = "switch"]
      /\ UNCHANGED <<child_stack, queue, next, page_directory, locals, ndirs>>
  BY DEF irq_handler, timer_callback, switch_task
<1> DEFINE t == IF next[current_task] = NULL THEN ready_queue ELSE next[current_task]
<1>3. t \in Task /\ t < next_pid
  <2>1. current_task \in 1..Last
    BY <1>1, RunningFacts DEF Task
  <2>2. next[current_task] = IF current_task = Last THEN NULL ELSE current_task + 1
    BY <2>1 DEF Running, Chain
  <2> QED BY <1>1, <2>1, <2>2, RunningFacts DEF Task
<1>4. /\ IF_flag' = TRUE /\ current_task' = t
      /\ status' = (IF eip'[t] = "none" THEN "wild"
                    ELSE IF page_directory[t] # 1 /\ child_stack = "missing" THEN "page_fault"
                    ELSE "ok")
      /\ pc' = (IF eip'[t] = "fork" THEN [pc EXCEPT ![t] = "fork_cmp"] ELSE pc)
      /\ current_directory' = page_directory[t]
  BY <1>3 DEF irq_handler, timer_callback, switch_task, Resume
<1> HIDE DEF t
<1>5. ASSUME NEW u \in Task, u < next_pid
      PROVE  \/ /\ eip'[u] = "switch" /\ pc[u] \in {"run", "fork_cmp"}
                /\ pc[u] = "fork_cmp" => parent_task[u] # u
             \/ eip'[u] = "fork" /\ parent_task[u] # u
  <2>1. CASE u = current_task
    BY <1>1, <1>2, <2>1, RunningFacts, FieldTypes
  <2>2. CASE u # current_task
    <3>1. Waiting(u) /\ eip'[u] = eip[u]
      BY <1>2, <1>5, <2>2, RunningFacts, FieldTypes DEF Running
    <3> QED BY <1>1, <3>1 DEF Waiting
  <2> QED BY <2>1, <2>2
<1>6. /\ pc' \in [Task -> Labels] /\ \A u \in Task : u # t => pc'[u] = pc[u]
      /\ pc'[t] \in {"run", "fork_cmp"}
      /\ pc'[t] = "fork_cmp" => parent_task[t] # t
  <2>1. CASE eip'[t] = "fork"
    <3>1. pc' = [pc EXCEPT ![t] = "fork_cmp"]
      BY <1>4, <2>1
    <3>2. parent_task[t] # t
      BY <1>3, <1>5, <2>1
    <3> QED BY <1>3, <3>1, <3>2, RunningFacts DEF Labels
  <2>2. CASE eip'[t] # "fork"
    <3>1. pc' = pc
      BY <1>4, <2>2
    <3> QED BY <1>3, <1>5, <2>2, <3>1, RunningFacts
  <2> QED BY <2>1, <2>2
<1>7. page_directory[t] = t
  BY <1>3 DEF Running, Directories
<1>8. status' \in {"ok", "page_fault"}
  <2>1. eip'[t] # "none"
    BY <1>3, <1>5
  <2> QED BY <1>4, <2>1
<1>9. TypeOK'
  <2>1. eip' \in [Task -> {"none", "fork", "switch"}]
    BY <1>2, FieldTypes
  <2>2. ndirs = next_pid - 1
    BY <1>1 DEF Running, Directories
  <2>3. current_directory' \in 1..ndirs' /\ current_task' \in 0..MaxTasks
    BY <1>2, <1>3, <1>4, <1>7, <2>2, RunningFacts DEF Task
  <2>4. IF_flag' \in BOOLEAN
    BY <1>4
  <2> QED BY <1>2, <1>6, <1>8, <2>1, <2>3, <2>4 DEF TypeOK, Labels, queue, locals
<1>10. ~InFork' /\ Last' = Last
  BY <1>1, <1>2, <1>4, <1>6 DEF InFork, Last, queue, locals
<1>11. Chain'
  BY <1>2, <1>4, <1>6, <1>10 DEF Chain, queue, Running
<1>12. Directories'
  BY <1>1, <1>2, <1>4, <1>6, <1>7 DEF Directories, queue, Running
<1>13. ForkSteps'
  BY <1>4, <1>6, <1>10 DEF ForkSteps
<1>14. ASSUME NEW u \in Task, u < next_pid, u # t PROVE Waiting(u)'
  BY <1>2, <1>5, <1>6, <1>14 DEF Waiting, locals
<1> QED
  BY <1>2, <1>3, <1>4, <1>8, <1>9, <1>11, <1>12, <1>13, <1>14 DEF IInv, Running, queue

LEMMA NextIInv == IInv /\ [Next]_vars => IInv'
<1> SUFFICES ASSUME IInv, [Next]_vars PROVE IInv'
  OBVIOUS
<1>1. CASE UNCHANGED vars
  BY <1>1 DEF vars, queue, fields, locals, cpu, IInv, TypeOK, Booting, Running, Chain,
     Directories, ForkSteps, Waiting, InFork, Last
<1>2. CASE Booting /\ Next
  BY <1>2, BootStep DEF IInv
<1>3. CASE Running /\ Next
  <2>1. TypeOK
    BY DEF IInv
  <2>2. ASSUME NEW t \in Task, initialise_tasking(t) PROVE FALSE
    BY <1>3, <2>1, <2>2, RunningFacts
       DEF initialise_tasking, InitCli, InitAlloc, InitFields, Running, ForkSteps
  <2> QED
    BY <1>3, <2>1, <2>2, ForkCliStep, ForkCloneStep, ForkNewStep, ForkLinkStep,
       ForkCompareStep, UserModeStep, SwitchTaskStep DEF Next, fork
<1> QED BY <1>1, <1>2, <1>3 DEF IInv

LEMMA SpecIInv == Spec => []IInv
BY InitIInv, NextIInv, PTL DEF Spec

-----------------------------------------------------------------------------
(* The state of task.c keeps its type: no field, id or directory runs out  *)
(* of range, however often tasks fork and the timer switches.              *)
THEOREM TaskTypes == Spec => []TypeOK
BY SpecIInv, PTL DEF IInv

(* Whenever the timer can interrupt, a walk along next meets every task    *)
(* that fork has made, each once, and ends: insertion is never seen half   *)
(* done, because fork runs with interrupts off.                            *)
THEOREM QueueStaysIntact == Spec => []QueueIntact
<1>1. IInv => QueueIntact
  <2> SUFFICES ASSUME IInv, IF_flag, current_task # NULL
               PROVE  /\ Queue = {t \in Task : t < next_pid}
                      /\ \A t, u \in Queue : next[t] = next[u] => t = u
                      /\ \E t \in Queue : next[t] = NULL
    BY DEF QueueIntact
  <2>1. TypeOK /\ Running
    BY DEF IInv, Booting, NULL
  <2>2. Last = next_pid - 1 /\ Last \in Task /\ Queue = 1..Last
    BY <2>1, QueueIsChain DEF Running, ForkSteps, InFork, Last
  <2>3. \A t \in Queue : next[t] = IF t = Last THEN NULL ELSE t + 1
    BY <2>1, <2>2 DEF Running, Chain
  <2>4. Queue = {t \in Task : t < next_pid}
    BY <2>1, <2>2, RunningFacts, TaskAssumption DEF Task
  <2> QED BY <2>2, <2>3, <2>4, TaskAssumption DEF NULL, Task
<1> QED BY <1>1, SpecIInv, PTL

(* The timer never switches to a task that has no place to resume at: not  *)
(* to fork's child before it is complete, nor to the first task before     *)
(* initialise_tasking is, and the CPU never jumps to a wild address.       *)
THEOREM TasksAreResumable == Spec => []ResumableTasks
<1>1. IInv => ResumableTasks
  <2> SUFFICES ASSUME IInv PROVE ResumableTasks
    OBVIOUS
  <2>1. status # "wild"
    BY DEF IInv, Booting, Running
  <2>2. ASSUME IF_flag, NEW t \in Queue \ {current_task} PROVE eip[t] # "none"
    <3>1. CASE Booting
      <4>1. ready_queue = NULL
        BY <2>2, <3>1 DEF Booting
      <4>2. Walked({})
        BY <4>1, TaskAssumption DEF Walked, NULL, Task
      <4> QED BY <2>2, <4>2 DEF Queue
    <3>2. CASE Running
      <4>1. TypeOK /\ ~InFork /\ Last = next_pid - 1
        BY <2>2, <3>2 DEF IInv, Running, ForkSteps, InFork, Last
      <4>2. Queue = 1..Last /\ Last \in Task
        BY <3>2, <4>1, QueueIsChain
      <4>3. t \in Task /\ t < next_pid
        BY <2>2, <3>2, <4>1, <4>2, RunningFacts, TaskAssumption DEF Task
      <4> QED BY <2>2, <3>2, <4>1, <4>3 DEF Running, Waiting
    <3> QED BY <3>1, <3>2 DEF IInv
  <2> QED BY <2>1, <2>2 DEF ResumableTasks
<1> QED BY <1>1, SpecIInv, PTL

(* The memory manager works in the directory of the task that runs, and    *)
(* every task has one of its own, after any number of forks and switches.  *)
THEOREM TasksOwnDirectories == Spec => []OwnDirectory
<1>1. IInv => OwnDirectory
  <2> SUFFICES ASSUME IInv, IF_flag, current_task # NULL
               PROVE  /\ current_directory = page_directory[current_task]
                      /\ \A t, u \in Queue : page_directory[t] = page_directory[u] => t = u
    BY DEF OwnDirectory
  <2>1. TypeOK /\ Running
    BY DEF IInv, Booting, NULL
  <2>2. Last = next_pid - 1 /\ Last \in Task /\ Queue = 1..Last
    BY <2>1, QueueIsChain DEF Running, ForkSteps, InFork, Last
  <2>3. \A t \in Queue : t \in Task /\ t < next_pid
    BY <2>1, <2>2, RunningFacts, TaskAssumption DEF Task
  <2> QED BY <2>1, <2>3, RunningFacts DEF Running, Directories
<1> QED BY <1>1, SpecIInv, PTL
=============================================================================
