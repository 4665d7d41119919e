SPECIFICATION Spec
CONSTANTS
    NFILES = 3
    MAX_SIZE = 2
    Blocks = {x}
    Paths <- SmallPaths
    NFDS = 2
PROPERTY RenameTakesBelow
