SPECIFICATION DesktopSpec
CONSTANTS
    NFILES = 3
    MAX_SIZE = 2
    Blocks = {x}
    Paths <- SmallPaths
    NFDS = 1
    WIDTH = 5
    HEIGHT = 6
    STATUS_BAR_H = 1
    TASKBAR_H = 1
    TITLE_H = 1
    TITLE_GAP = 0
    STATUS_ICON_W = 1
    WIN_MAX = 4
    Boot <- BootSmall
    Focused = 2
    BootRect <- BootAt
    OpenRect <- OpenAt
    Icons = {"Files"}
    IconRect <- IconAtSmall
    Gear = "Settings"
    Dock = {"Snake", "Store"}
    Menu = {"Settings"}
    STORE = "Store"
    StoreApps = {"Snake"}
    Points <- PointsSmall
    Size = 2
    REACH = 9
    Packets <- MCPackets
    Budgets <- MCBudgets
INVARIANTS TypeOK NamesUnique PosInside
    GuiTypeOK OnePerType MaximizedFills InsideScreen DragIsActive
    CountExact KeysInOrder QuietPacketResyncs MotionConserved
PROPERTIES IsNameStore FocusNeverHidden ButtonSeen
