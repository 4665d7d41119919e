SPECIFICATION DSpec
CONSTANTS
    NFILES = 2
    MAX_SIZE = 1
    ZERO = z
    Blocks = {x, z}
    Paths <- Nested
    NFDS = 0
    MAX_LOST = 1
INVARIANTS MountedUnique
PROPERTIES SaveIsComplete MountInventsNothing MountRestores
