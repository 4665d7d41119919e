SPECIFICATION FairSpec
CONSTANTS
    TASK_MAX = 3
    Stacks = {s1, s2}
    Dirs = {d1, d2, d3}
    BOOT_STACK = boot
    KERNEL_PD = kpd
    NULL = null
    Codes = {42}
INVARIANTS TypeOK RunsInOwnContext NoDanglingContext SavedFramesApart DirsAccounted
PROPERTIES EveryTaskRuns Task0Returns
CHECK_DEADLOCK FALSE
