\* Five tasks.  A task in user mode keeps the CPU for good: no step follows.
CONSTANTS
    MaxTasks = 5
SPECIFICATION FairSpec
INVARIANTS TypeOK QueueIntact ResumableTasks OwnDirectory
PROPERTIES ForkedTaskFaults
CHECK_DEADLOCK FALSE
