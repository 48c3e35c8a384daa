CONSTANTS
    MaxTasks = 1
SPECIFICATION Spec
INVARIANT UserModeInterruptible
