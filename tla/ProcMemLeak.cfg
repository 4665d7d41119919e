SPECIFICATION Spec
CONSTANTS
    NFRAMES = 12
    Procs = {1, 2}
    STACK_VA = 3
    CODE_VA = 0
    SPAN = 4
    MAX_TRACKED = 4
    Images <- SmallImages
INVARIANT NothingLeaks
