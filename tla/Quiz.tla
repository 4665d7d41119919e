-------------------------------- MODULE Quiz -------------------------------
(***************************************************************************)
(* The Sudoku, Typing, Guess and Dice windows of gui.c.                    *)
(***************************************************************************)
EXTENDS Integers, Sequences

CONSTANTS
    SIDE,           \* 9, the side of the Sudoku
    Puzzles,        \* sd_sol_data and sd_mask_data: solution and fixed cells
    Texts,          \* ty_texts: of each character whether its key types; a blank's and an
                    \* R's change the text instead
    High,           \* 100, the largest number to guess
    HIST            \* entries of dc_hist

\* What the constants must satisfy.
QuizAssumption ==
    /\ SIDE \in Nat \ {0} /\ High \in Nat \ {0} /\ HIST \in Nat \ {0}
    /\ \A t \in DOMAIN Texts : \E c \in DOMAIN Texts[t] : ~Texts[t][c]
    /\ \A p \in DOMAIN Puzzles : Puzzles[p].solution \in [0..SIDE * SIDE - 1 -> 1..SIDE]

VARIABLE st         \* sd, ty, gs, dc: the states of the four windows, which share
                    \* nothing; win: the one that is used

Grid == 0..SIDE * SIDE - 1
NONE == -1
After(i, n) == (i % n) + 1      \* the next of n, from the last to the first

Load(p) == [cur |-> p, sel |-> NONE, msg |-> 0,
            puzzle |-> [k \in Grid |-> IF k \in Puzzles[p].fixed
                                       THEN Puzzles[p].solution[k] ELSE 0]]
Text(t) == [idx |-> t, pos |-> 0, err |-> 0, started |-> FALSE, done |-> FALSE]
NewGuess(n) == [target |-> n, low |-> 0, high |-> High + 1, tries |-> 0, over |-> FALSE,
                msg |-> 0]

Init == \E n \in 1..High, w \in {"sudoku", "typing", "guess", "dice"} :
            st = [win |-> w, sd |-> Load(1), ty |-> Text(1), gs |-> NewGuess(n), dc |-> <<>>]

\* Sudoku.
Select(k) == st' = [st EXCEPT !.sd.sel = k, !.sd.msg = 0]

Fixed_Bug == {}
Fixed == Puzzles[st.sd.cur].fixed

Enter(v) ==
    /\ st.sd.sel # NONE /\ st.sd.sel \notin Fixed
    /\ st' = [st EXCEPT !.sd.puzzle[st.sd.sel] = v, !.sd.msg = 0]

Arrow(dr, dc) ==
    LET r == (st.sd.sel \div SIDE) + dr
        c == (st.sd.sel % SIDE) + dc
    IN  /\ st.sd.sel # NONE /\ r \in 0..SIDE - 1 /\ c \in 0..SIDE - 1
        /\ st' = [st EXCEPT !.sd.sel = r * SIDE + c]

Check ==
    st' = [st EXCEPT !.sd.msg = IF st.sd.puzzle = Puzzles[st.sd.cur].solution THEN 1 ELSE 2]

NextPuzzle == st' = [st EXCEPT !.sd = Load(After(st.sd.cur, Len(Puzzles)))]

\* Typing: a right key moves on, a wrong one counts; at the end nothing does.
Length == Len(Texts[st.ty.idx])
Hit(right) ==
    /\ ~st.ty.done /\ st.ty.pos < Length
    /\ right => Texts[st.ty.idx][st.ty.pos + 1]
    /\ LET pos == IF right THEN st.ty.pos + 1 ELSE st.ty.pos
       IN  st' = [st EXCEPT !.ty = [@ EXCEPT !.pos = pos, !.started = TRUE,
                                             !.err = IF right THEN @ ELSE 1,
                                             !.done = (pos >= Length)]]
Back == /\ ~st.ty.done /\ st.ty.pos > 0
        /\ st' = [st EXCEPT !.ty.pos = @ - 1]
NextText == st' = [st EXCEPT !.ty = Text(After(st.ty.idx, Len(Texts)))]

\* Guess: low and high are what the answers leave, as history.
Guess(v) ==
    /\ ~st.gs.over
    /\ st' = [st EXCEPT !.gs =
                IF v = @.target THEN [@ EXCEPT !.over = TRUE, !.msg = 0, !.tries = 1]
                ELSE IF v > @.target
                THEN [@ EXCEPT !.msg = 1, !.tries = 1, !.high = IF v < @ THEN v ELSE @]
                ELSE [@ EXCEPT !.msg = 2, !.tries = 1, !.low = IF v > @ THEN v ELSE @]]
GuessNew == \E n \in 1..High : st' = [st EXCEPT !.gs = NewGuess(n)]

\* Dice: the last HIST throws, of a die of two faces.
Roll == \E r \in 1..2 :
    st' = [st EXCEPT !.dc = IF Len(@) < HIST THEN Append(@, r) ELSE Append(Tail(@), r)]

Next ==
    \/ /\ st.win = "sudoku"
       /\ \/ \E k \in Grid : Select(k)
          \/ \E v \in 0..SIDE : Enter(v)
          \/ Arrow(-1, 0) \/ Arrow(1, 0) \/ Arrow(0, -1) \/ Arrow(0, 1)
          \/ Check \/ NextPuzzle
    \/ /\ st.win = "typing"
       /\ Hit(TRUE) \/ Hit(FALSE) \/ Back \/ NextText
    \/ /\ st.win = "guess"
       /\ GuessNew \/ \E v \in 1..High : Guess(v)
    \/ /\ st.win = "dice"
       /\ Roll

\* A Sudoku said to be right is the solution, also after more keys, and its given
\* cells stay as they are; no text, for each has a blank, is ever done; and the
\* answers to the guesses always leave the number to be guessed.
Honest ==
    /\ st.sd.msg = 1 => st.sd.puzzle = Puzzles[st.sd.cur].solution
    /\ \A k \in Puzzles[st.sd.cur].fixed : st.sd.puzzle[k] = Puzzles[st.sd.cur].solution[k]
    /\ ~st.ty.done /\ st.ty.pos < Length
    /\ st.gs.target \in (st.gs.low + 1)..(st.gs.high - 1)
    /\ Len(st.dc) <= HIST
=============================================================================
