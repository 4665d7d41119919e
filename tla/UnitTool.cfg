SPECIFICATION ToolsSpec
CONSTANTS
    PAINT_MAX = 1
    Canvas = {}
    WRAP = 1
    MaxTime = 0
    Work = 1
    Break = 1
    WORD = 256
    Numbers = {0, 3, 7}
    Units = {1, 10, 25}
    Digits = {}
    Charsets = {}
    Lens = {}
INVARIANT UnitDivides
