------------------------------ MODULE Services -----------------------------
(***************************************************************************)
(* What shares no state with each other: the applications (Apps), and the  *)
(* services below them: what is around the kernel (Platform, the loader    *)
(* of user programs, their heap and the devices), their stdio, the repaint *)
(* of a frame, the text screen under the shell, the shell's paths, the     *)
(* file window, the viewers and the applications that keep files.  A       *)
(* behaviour is one of them, part, with the variable of its module (hp,    *)
(* io, else st) while the others rest.                                     *)
(***************************************************************************)
EXTENDS Integers, Platform

CONSTANTS
    Parts,          \* the services of this instance
    \* Of Repaint.
    HEIGHT, BAR, DOCK, TOP, Icons, Frames, Animated, MENU, WALLS, At, Blank,
    \* Of Stdio and of Shell.
    BITS, BUF, CAPS, FILE_MAX, Formats, Texts, OUT_MAX,
    VGA_WIDTH, VGA_HEIGHT, CMDLINE_MAX, ARGC_MAX, Prompt, Typed, KEYS,
    FS_MAX_NAME, PathArgs,
    \* Of FilesApp, of Docs and of Viewers.
    FilesSize,
    FS_MAX_FILES, FS_MAX_SIZE, NOTE_SIZE, RUN_MAX, SHOT, DocApps, DocTexts,
    Viewers, ViewerSize,
    \* Of Apps.
    Apps, SnakeSize, MinesSize, Cards, TetrisSize, Side, PaintSize, TodoSize, TimerSize,
    FieldNames, QuizSize, BrickSize, IdeSize, CalcSize, ToolsSize

vars == <<part, st, hp, io>>

Repaint == INSTANCE Repaint
Stdio == INSTANCE Stdio
Shell == INSTANCE Shell
Docs == INSTANCE Docs
Files == INSTANCE FilesApp WITH FS_MAX_FILES <- FilesSize.files, FS_MAX_NAME <- FilesSize.name,
                                LIST_BUF <- FilesSize.list, CLEAN_BUF <- FilesSize.clean,
                                TMP <- FilesSize.tmp, Names <- FilesSize.names
View == INSTANCE Viewers WITH TASK_MAX <- ViewerSize.tasks, FILES <- ViewerSize.files,
                               Names <- ViewerSize.names, Queries <- ViewerSize.queries,
                               ROW <- ViewerSize.row, DATA_MAX <- ViewerSize.data,
                               Heights <- ViewerSize.heights, SCROLLS <- ViewerSize.scrolls
Windowed == INSTANCE Apps WITH app <- part

ASSUME ServicesAssumption ==
    /\ Repaint!RepaintAssumption
    /\ Shell!ScreenAssumption
    /\ Windowed!AppsAssumption

InitPart ==
    /\ part \in Parts
    /\ \/ InitProgram
       \/ InitDevice
       \/ part = "repaint" /\ Repaint!Init
       \/ part = "stdio" /\ Stdio!Init
       \/ part = "terminal" /\ Shell!TermInit
       \/ part = "paths" /\ Shell!CwdInit
       \/ part = "docs" /\ Docs!Init
       \/ part = "files" /\ Files!Init
       \/ part = "viewers" /\ View!Init

NextPart ==
    /\ UNCHANGED part
    /\ \/ part = "repaint" /\ Repaint!Next
       \/ part = "stdio" /\ Stdio!Next
       \/ part = "terminal" /\ Shell!TermNext
       \/ part = "paths" /\ Shell!CdNext
       \/ part = "docs" /\ Docs!Next
       \/ part = "files" /\ Files!Next
       \/ part = "viewers" /\ View!Next

Init ==
    /\ HeapInit /\ AtaInit
    /\ \/ InitPart \/ Windowed!Init
       \/ part \in Parts \cap {"heap", "ata"} /\ st = 0

Next ==
    \/ UNCHANGED <<hp, io>> /\ (NextProgram \/ NextDevice \/ NextPart \/ Windowed!Next)
    \/ part = "heap" /\ HeapNext /\ UNCHANGED <<part, st, io>>
    \/ part = "ata" /\ AtaNext /\ UNCHANGED <<part, st, hp>>

Spec == Init /\ [][Next]_vars

\* What the user keeps is kept: a note that is saved is the note shown, an archive gives
\* back its file, a converted line is one line, what is installed is there; the file
\* window and Clean remove what they show and what they promise, a row of the task
\* manager ends the task it shows, a search misses no file; and what is typed, ticked or
\* drawn stays in its array and its place.
DocsKept ==
    /\ part = "docs" => /\ Docs!NoteIsSaved /\ Docs!ZipRestores
                        /\ Docs!LinesConverted /\ Docs!InstalledIsThere
    /\ part = "files" => /\ Files!DelTakesShown /\ Files!ListingIsDir
                         /\ Files!CleanTakesTmp
    /\ part = "viewers" => View!EndsTheShown /\ View!FindsAll /\ View!PageFull
    /\ Windowed!EditsKept

\* The boards of the games agree with what the player did, the quizzes judge honestly,
\* the calculator, the timers, the tools but the unit converter and the IDE compute what
\* they promise.
AppsRight == Windowed!BoardsSound /\ Windowed!AnswersRight

\* What is put out is what was meant: a frame shows the layers of the desktop in their
\* places wherever FrameShows says so; what programs and the kernel print arrives whole,
\* in order and cut where it must be, and an int reads back as itself; the shell executes
\* the line on the screen, and cd goes where its argument says.
OutputRight ==
    /\ part = "repaint" => Repaint!FrameShows
    /\ part = "stdio" => /\ Stdio!InOrder /\ Stdio!Truncated /\ Stdio!ReadsBack
                         /\ Stdio!SameOnBoth /\ Stdio!ElementsWhole
    /\ part = "terminal" => Shell!LineOnScreen
    /\ part = "paths" => Shell!CdResolves /\ Shell!InBuffer
=============================================================================
