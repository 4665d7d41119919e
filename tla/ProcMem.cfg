SPECIFICATION Spec
CONSTANTS
    NFRAMES = 11
    Procs = {1, 2}
    STACK_VA = 4
    CODE_VA = 1
    SPAN = 5
    MAX_TRACKED = 5
    Images <- SmallImages
INVARIANTS TypeOK MappedIsOwned Exclusive
PROPERTIES FramesHaveOwners ExecAllOrNothing
