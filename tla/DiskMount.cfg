SPECIFICATION DSpec
CONSTANTS
    NFILES = 3
    MAX_SIZE = 1
    ZERO = z
    Blocks = {x, z}
    Paths <- Deeper
    NFDS = 0
    MAX_LOST = 0
PROPERTY MountParentsFirst
