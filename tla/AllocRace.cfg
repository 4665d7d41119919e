SPECIFICATION Spec
CONSTANTS
    NFRAMES = 4
    BYTE = 2
INVARIANT GivenIsFree
CHECK_DEADLOCK FALSE
