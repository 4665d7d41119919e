SPECIFICATION Spec
CONSTANTS
    Parts = {"elf", "rtc", "repaint", "screen",
             "stdio", "terminal", "paths", "docs", "files", "viewers", "heap", "ata"}
    WORD = 256
    PAGE_SIZE = 4
    MIN = 8
    STACK = 24
    EHDR = 2
    PHDR = 1
    MAX_PHDR = 2
    STACK_SIZE = 128
    MAX_ARGS = 3
    ARG_MAX = 45
    NAME = 5
    RESERVED = 35
    Images <- MCImages
    Args <- MCArgs
    OFFSET = 8
    Times <- MCTimes
    HEIGHT = 5
    BAR = 1
    DOCK = 1
    TOP = 0
    Icons = {2}
    Frames <- MCFrames
    Animated = {2}
    MENU = 1
    WALLS = 1
    At = {0, 2}
    Blank = FALSE
    W = 4
    H = 3
    MAX_DIRTY_RECT = 3
    WIDE = 3
    GLYPH <- MCGlyph
    Pixels <- MCPixels
    Rects <- MCRects
    BITS = 5
    BUF = 2
    CAPS = {1, 3}
    FILE_MAX = 4
    OUT_MAX = 4
    Formats <- MCFormats
    Texts <- MCTexts
    VGA_WIDTH = 3
    VGA_HEIGHT = 2
    CMDLINE_MAX = 6
    ARGC_MAX = 2
    KEYS = 7
    Prompt <- MCPrompt
    Typed = {"e", "c", " ", "TAB", "BS", "NL"}
    FS_MAX_NAME = 9
    PathArgs <- MCPathArgs
    FilesSize <- MCFiles
    FS_MAX_FILES = 3
    FS_MAX_SIZE = 10
    NOTE_SIZE = 4
    RUN_MAX = 2
    SHOT = 11
    DocApps = {"note", "zip", "convert", "shot", "store"}
    DocTexts <- MCDocTexts
    Viewers = {"taskmgr", "find", "hexview"}
    ViewerSize <- MCViewers
    Apps = {"snake", "2048", "mines", "tictac", "memory", "tetris", "paint", "todo", "timers",
            "fields", "quiz", "brick", "ide", "calc", "tools"}
    SnakeSize <- MCSnake
    MinesSize <- MCMines
    Cards = 6
    TetrisSize <- MCTetris
    Side = 3
    PaintSize <- MCPaint
    TodoSize <- MCTodo
    TimerSize <- MCTimer
    FieldNames <- MCFields
    QuizSize <- MCQuiz
    BrickSize <- MCBrick
    IdeSize <- MCIde
    CalcSize <- MCCalc
    ToolsSize <- MCTools
    PAGE = 4
    HEADER = 2
    Base = 3
    LIMIT = 16
    Sizes = {1, 3}
    Steps = {3}
    FILE = 1
    FDS = {3, 4}
    Lbas = {1}
    MAX_COUNT = 3
INVARIANTS ProgramsRight DevicesRight DocsKept AppsRight OutputRight Tiled SbrkIsApart FilesOwn Transferred
