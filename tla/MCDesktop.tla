------------------------------ MODULE MCDesktop ------------------------------
(***************************************************************************)
(* The ramfs with its users, the window table and the input rings on one   *)
(* small instance for TLC.  They share no variable, so a behaviour is one  *)
(* of one part: which, is chosen at the start, and the others rest.        *)
(***************************************************************************)
EXTENDS MCFileSystem, Windows, Input

VARIABLE part     \* the part this behaviour is of

desktopVars == <<vars, guiVars, inputVars, part>>

\* A screen of 5 cells by 6, the bars and a title one cell high each.
BootSmall == <<"Settings", "Files">>
BootAt == [t \in {"Settings", "Files"} |->
              IF t = "Files" THEN Rect(1, 3, 4, 2) ELSE Rect(0, 2, 5, 3)]
OpenAt == [t \in Types |->
              IF t = "Snake" THEN Rect(0, 2, 4, 3) ELSE Rect(0, 1, 5, 4)]
IconAtSmall == [t \in {"Files"} |-> Rect(0, 1, 1, 1)]
PointsSmall == [x : {0, 3, 4}, y : {1, 2}] \cup [x : {0}, y : {0, 3, 5}] \cup [x : {2}, y : {0}]

\* A still press, a move, and a move whose bytes look like first bytes.
MCPackets == {<<9, 0, 0>>, <<8, 3, 2>>, <<24, 248, 255>>}
\* Keys alone, enough to fill the ring and to wrap; packets alone, with losses;
\* and both.
MCBudgets == {[keys |-> 5, packets |-> 0, lost |-> 0],
              [keys |-> 0, packets |-> 3, lost |-> 2],
              [keys |-> 2, packets |-> 1, lost |-> 0]}

\* A part that rests is in one of its initial states only.
DesktopInit ==
    /\ Init /\ GuiInit /\ InputInit
    /\ part \in {"files", "windows", "input"}
    /\ part # "windows" => installed = {}
    /\ part # "input" => dev = CHOOSE p \in Packets : TRUE
    /\ part # "input" => budget = CHOOSE b \in Budgets : TRUE

InputFrame == part = "input" /\ Frame /\ UNCHANGED <<vars, guiVars, part>>
DesktopNext ==
    \/ part = "files" /\ Next /\ UNCHANGED <<guiVars, inputVars, part>>
    \/ part = "windows" /\ GuiNext /\ UNCHANGED <<vars, inputVars, part>>
    \/ part = "input" /\ Irq /\ UNCHANGED <<vars, guiVars, part>>
    \/ InputFrame

\* The fairness of Input's FairSpec.
DesktopSpec == DesktopInit /\ [][DesktopNext]_desktopVars /\ WF_desktopVars(InputFrame)
=============================================================================
