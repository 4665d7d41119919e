SPECIFICATION Spec
CONSTANTS
    HEIGHT = 5
    BAR = 1
    DOCK = 1
    TOP = 0
    Icons = {2}
    Frames <- MCFrames
    Animated = {2}
    MENU = 1
    WALLS = 1
    At = {2}
    Blank = FALSE
INVARIANT ActiveOnTop
