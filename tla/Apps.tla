-------------------------------- MODULE Apps -------------------------------
(***************************************************************************)
(* The self-contained applications of gui.c: each is a window type whose   *)
(* static variables no other window touches, so a behaviour uses one of    *)
(* them, app, and every other keeps its state.  A module per application   *)
(* (or per few alike) is instantiated with its constants; here they share  *)
(* the variable st.                                                        *)
(***************************************************************************)
EXTENDS Integers

CONSTANTS
    Apps,           \* the applications of this instance
    SnakeSize,      \* cols, rows, body, food
    MinesSize,      \* n, m, bombs
    Cards,          \* of Memory, in TableGames
    TetrisSize,     \* w, h, x (of a new piece), shapes
    Side,           \* of the 2048 board
    PaintSize,      \* max, canvas
    TodoSize,       \* max, vis, texts: of the list in Fields
    TimerSize,      \* wrap, max, work, break
    FieldNames,     \* the windows with a text field
    QuizSize,       \* side, puzzles, texts, high, hist
    BrickSize,      \* cols, rows, paddles
    IdeSize,        \* depth, vars, out, names, values, nest
    CalcSize,       \* w, fix, limit, literals, ops
    ToolsSize       \* word, numbers, units, digits, charsets, lens

VARIABLES app, st

Arcade == INSTANCE ArcadeGames WITH
              SNAKE_COLS <- SnakeSize.cols, SNAKE_ROWS <- SnakeSize.rows,
              Body0 <- SnakeSize.body, Food0 <- SnakeSize.food,
              WIDTH <- TetrisSize.w, HEIGHT <- TetrisSize.h, SpawnX <- TetrisSize.x,
              Shapes <- TetrisSize.shapes, BRICK_COLS <- BrickSize.cols,
              BRICK_ROWS <- BrickSize.rows, Paddles <- BrickSize.paddles
Tables == INSTANCE TableGames WITH CARDS <- Cards, SIDE <- Side,
                    N <- MinesSize.n, M <- MinesSize.m, BOMBS <- MinesSize.bombs
Gadgets == INSTANCE Gadgets WITH
               PAINT_MAX <- PaintSize.max, Canvas <- PaintSize.canvas,
               WRAP <- TimerSize.wrap, MaxTime <- TimerSize.max,
               Work <- TimerSize.work, Break <- TimerSize.break,
               WORD <- ToolsSize.word, Numbers <- ToolsSize.numbers,
               Units <- ToolsSize.units, Digits <- ToolsSize.digits,
               Charsets <- ToolsSize.charsets, Lens <- ToolsSize.lens
Fields == INSTANCE Fields WITH Names <- FieldNames, TODO_MAX <- TodoSize.max,
                               VIS <- TodoSize.vis, Texts <- TodoSize.texts
Quiz == INSTANCE Quiz WITH SIDE <- QuizSize.side, Puzzles <- QuizSize.puzzles,
                           Texts <- QuizSize.texts, High <- QuizSize.high,
                           HIST <- QuizSize.hist
Ide == INSTANCE Ide WITH DEPTH <- IdeSize.depth, IDE_VARS <- IdeSize.vars, OUT <- IdeSize.out,
                         Names <- IdeSize.names, Values <- IdeSize.values,
                         MaxNest <- IdeSize.nest
Calc == INSTANCE Calc WITH W <- CalcSize.w, CALC_FIX <- CalcSize.fix, Limit <- CalcSize.limit,
                           Literals <- CalcSize.literals, MaxOps <- CalcSize.ops

\* What the constants must satisfy.
AppsAssumption ==
    /\ Arcade!SnakeAssumption
    /\ Tables!TableAssumption
    /\ Arcade!TetrisAssumption
    /\ Gadgets!PaintAssumption
    /\ Fields!TodoAssumption
    /\ Gadgets!TimersAssumption
    /\ Fields!FieldsAssumption
    /\ Quiz!QuizAssumption
    /\ Arcade!BrickAssumption
    /\ Ide!IdeAssumption
    /\ Calc!CalcAssumption
    /\ Gadgets!ToolsAssumption

Init ==
    /\ app \in Apps
    /\ \/ app = "snake" /\ Arcade!SnakeInit
       \/ app = "2048" /\ Tables!Init2048
       \/ app = "mines" /\ Tables!MinesInit
       \/ app = "tictac" /\ Tables!TicTacInit
       \/ app = "memory" /\ Tables!MemoryInit
       \/ app = "tetris" /\ Arcade!TetrisInit
       \/ app = "paint" /\ Gadgets!PaintInit
       \/ app = "todo" /\ Fields!TodoInit
       \/ app = "timers" /\ Gadgets!TimersInit
       \/ app = "fields" /\ Fields!Init
       \/ app = "quiz" /\ Quiz!Init
       \/ app = "brick" /\ Arcade!BrickInit
       \/ app = "ide" /\ Ide!Init
       \/ app = "calc" /\ Calc!Init
       \/ app = "tools" /\ Gadgets!ToolsInit

Next ==
    /\ UNCHANGED app
    /\ \/ app = "snake" /\ Arcade!SnakeNext
       \/ app = "2048" /\ Tables!Next2048
       \/ app = "mines" /\ Tables!MinesNext
       \/ app = "tictac" /\ Tables!TicTacNext
       \/ app = "memory" /\ Tables!MemoryNext
       \/ app = "tetris" /\ Arcade!TetrisNext
       \/ app = "paint" /\ Gadgets!PaintNext
       \/ app = "todo" /\ Fields!TodoNext
       \/ app = "timers" /\ Gadgets!TimersNext
       \/ app = "fields" /\ Fields!Next
       \/ app = "quiz" /\ Quiz!Next
       \/ app = "brick" /\ Arcade!BrickNext
       \/ app = "ide" /\ Ide!Next
       \/ app = "calc" /\ Calc!Next
       \/ app = "tools" /\ Gadgets!ToolsNext

\* The boards of the games agree with what the player did: Snake's body is whole
\* and covers the cells its score says, 2048 loses no tile, the numbers of Mines count the mines, a
\* win of Tic Tac Toe is one line of one player who moved in turn, the open cards
\* of Memory are the matched pairs and at most two more, a Tetris piece never
\* overlaps what lies, every point of Brick is a brick, and the quizzes (Sudoku,
\* Typing, Guess) judge honestly.
BoardsSound ==
    /\ app = "snake" => Arcade!Whole
    /\ app = "2048" => Tables!TilesKept
    /\ app = "mines" => Tables!Counted
    /\ app \in {"tictac", "memory"} => Tables!Fair /\ Tables!FaceUp
    /\ app = "tetris" => Arcade!Fits
    /\ app = "brick" => Arcade!Scored
    /\ app = "quiz" => Quiz!Honest

\* What is typed, ticked or drawn stays inside its array and in its place: the
\* text fields in their buffers, Todo's entries and scroll in the list, the last
\* stroke of Paint under the pointer.
EditsKept ==
    /\ app = "fields" => Fields!Fit
    /\ app = "todo" => Fields!InList
    /\ app = "paint" => Gadgets!Follows

\* The answers are right: the calculator's as long as its words hold them, the
\* stopwatches' over every wrap of the tick counter, those of the generators and of
\* the converters of temperatures and of number bases within what they promise (not
\* those of the unit converter, which are wrong), and the IDE executes exactly the
\* lines whose enclosing ifs were all taken.
AnswersRight ==
    /\ app = "calc" => Calc!Right
    /\ app = "timers" => Gadgets!Exact
    /\ app = "tools" => Gadgets!Sound
    /\ app = "ide" => Ide!Taken
=============================================================================
