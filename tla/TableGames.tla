------------------------------ MODULE TableGames ----------------------------
(***************************************************************************)
(* Four games of gui.c.  TicTacToe: the player's click and the answer of   *)
(* tictac_ai in the same handler.  Memory: two cards that differ stay up   *)
(* until mem_tick, run on every frame whatever window is active, turns     *)
(* them back.  Minesweeper: the left click opens a cell, the right one     *)
(* flags it, R starts again.  2048: a tile holds the exponent of its       *)
(* value, 0 is an empty cell.                                              *)
(***************************************************************************)
EXTENDS Integers, SequencesExt

CONSTANTS
    CARDS,          \* 16, of Memory
    N, M, BOMBS,    \* MINES_N, MINES_M, MINES_BOMBS
    SIDE            \* 4, of the 2048 board
\* What the constants must satisfy.
TableAssumption ==
    /\ CARDS \in Nat \ {0} /\ CARDS % 2 = 0
    /\ N \in Nat \ {0} /\ M \in Nat \ {0} /\ BOMBS \in 0..N * M - 1
    /\ SIDE \in Nat \ {0}

VARIABLE st     \* Of TicTacToe: game, board (tictac), turn, over, win; of Memory: game,
                \* cards, flip (the cards up), matched (mem_state = 2), open, wait,
                \* pairs (mem_matched), over; of Minesweeper: g, v, f (the cells with a
                \* mine, opened, flagged), first, over, open and flags (mines_open,
                \* mines_flags); of 2048: cells (g2048), score; g2048_over is never set

-----------------------------------------------------------------------------
(* TicTacToe.                                                              *)

Squares == 0..8
Lines == {{0,1,2}, {3,4,5}, {6,7,8}, {0,3,6}, {1,4,7}, {2,5,8}, {0,4,8}, {2,4,6}}
Corners == {0, 2, 6, 8}

NewBoard == [game |-> "tictac", board |-> [k \in Squares |-> 0], turn |-> 0, over |-> FALSE,
             win |-> 0]
TicTacInit == st = NewBoard

Open(b) == {k \in Squares : b[k] = 0}
WinLine(b, p) == \E l \in Lines : \A k \in l : b[k] = p

\* The cells that complete a line of p.
Winning(b, p) == {k \in Open(b) : WinLine([b EXCEPT ![k] = p], p)}

\* The first of: a winning cell, the player's winning cell, the centre, a corner,
\* any cell; the least one of its kind.
Best(b) ==
    LET kinds == <<Winning(b, 2), Winning(b, 1), {4} \cap Open(b),
                   Corners \cap Open(b), Open(b)>>
    IN  Min(kinds[Min({i \in 1..5 : kinds[i] # {}})])

\* Player p has moved: a line wins, a full board is a draw.
Judge(s, p) ==
    IF WinLine(s.board, p) THEN [s EXCEPT !.over = TRUE, !.win = p]
    ELSE IF Open(s.board) = {} THEN [s EXCEPT !.over = TRUE, !.win = 3] ELSE s

Ai(s) ==
    IF s.over THEN s
    ELSE Judge([s EXCEPT !.board[Best(s.board)] = 2, !.turn = 0], 2)

Move(k) ==
    \/ st.over /\ st' = NewBoard
    \/ /\ ~st.over /\ st.turn = 0 /\ st.board[k] = 0
       /\ st' = Ai(Judge([st EXCEPT !.board[k] = 1, !.turn = 1], 1))

tictac_reset == st' = NewBoard

TicTacNext == tictac_reset \/ \E k \in Squares : Move(k)

Marks(p) == Cardinality({k \in Squares : st.board[k] = p})

\* The verdict is that of the board, at most one player has a line, and the game
\* always waits for the player: it never hangs on the computer's turn.
Fair ==
    st.game = "tictac" =>
        /\ st.win \in {1, 2} => WinLine(st.board, st.win)
        /\ st.over <=> WinLine(st.board, 1) \/ WinLine(st.board, 2) \/ Open(st.board) = {}
        /\ ~(WinLine(st.board, 1) /\ WinLine(st.board, 2))
        /\ ~st.over => st.turn = 0 /\ Marks(1) = Marks(2)

-----------------------------------------------------------------------------
(* Memory.                                                                 *)

NONE == -1
Cells == 0..CARDS - 1

\* The deal swaps cards: any order of the pairs.
Deals == {[k \in Cells |-> order[k] \div 2] : order \in Permutations(Cells)}

Game(deal) == [game |-> "memory", cards |-> deal, flip |-> {}, matched |-> {}, open |-> NONE,
               wait |-> NONE, pairs |-> 0, over |-> FALSE]

\* Until the first reset all cards are 0.
MemoryInit == st = Game([k \in Cells |-> 0])

mem_reset == \E deal \in Deals : st' = Game(deal)

\* The New Game button waits for mem_tick, the R key does not.
NewGame == st.wait = NONE /\ mem_reset

Pick_Bug(k) == k \notin st.matched
Pick(k) == k \notin st.matched /\ k \notin st.flip

Flip(k) ==
    /\ st.wait = NONE /\ Pick(k)
    /\ LET up == [st EXCEPT !.flip = @ \cup {k}]
       IN  st' = IF st.open = NONE THEN [up EXCEPT !.open = k]
                 ELSE IF st.cards[st.open] = st.cards[k]
                 THEN [up EXCEPT !.matched = @ \cup {st.open, k}, !.open = NONE,
                                 !.pairs = @ + 1, !.over = (st.pairs + 1 = CARDS \div 2)]
                 ELSE [up EXCEPT !.wait = k]

\* After 45 ticks.
mem_tick ==
    /\ st.wait # NONE
    /\ st' = [st EXCEPT !.flip = @ \ {st.open, st.wait}, !.open = NONE, !.wait = NONE]

MemoryNext == mem_reset \/ NewGame \/ mem_tick \/ \E k \in Cells : Flip(k)

\* What is up is what was matched, the open card and the one that waits with it;
\* those two differ; pairs counts the matched ones, and the game is over when all
\* are: no card is lost face up and none is matched with itself.
FaceUp ==
    st.game = "memory" =>
        /\ st.flip = st.matched \cup ({st.open, st.wait} \ {NONE})
        /\ {st.open, st.wait} \cap st.matched = {}
        /\ st.wait # NONE => st.open # NONE /\ st.cards[st.open] # st.cards[st.wait]
        /\ Cardinality(st.matched) = 2 * st.pairs
        /\ st.over <=> st.matched = Cells

-----------------------------------------------------------------------------
(* Minesweeper.                                                            *)

Field == (0..N - 1) \X (0..M - 1)

\* The cells of the 3 by 3 square around c, c included.
Around(c) == {d \in Field : d[1] - c[1] \in -1..1 /\ d[2] - c[2] \in -1..1}
Count(g, c) == Cardinality(Around(c) \cap g)

\* Nothing lays the mines of the first game: mines_first is zero at boot.
NewField == [g |-> {}, v |-> {}, f |-> {}, first |-> TRUE, over |-> 0, open |-> 0, flags |-> 0]
MinesInit == st = [NewField EXCEPT !.first = FALSE]

\* mines_gen: anywhere but under the first click.
Layouts(c) == kSubset(BOMBS, Field \ {c})

\* mines_flood: the closed cells without a flag that a path of cells with no
\* mine around them leads to.
Flood(g, shut, c) ==
    LET wave[n \in Nat] ==
            IF n = 0 THEN {c}
            ELSE LET w == wave[n - 1]
                 IN  w \cup UNION {Around(d) \cap shut : d \in {e \in w : Count(g, e) = 0}}
    IN  wave[N * M]

\* mines_open_cell on the game s.
OpenSafe_Bug(s, c) == [s EXCEPT !.v = @ \cup Flood(s.g, Field \ s.f, c),
                                !.open = @ + Cardinality(Flood(s.g, Field \ s.f, c))]
OpenSafe(s, c) ==
    LET new == IF c \in s.v THEN {} ELSE Flood(s.g, Field \ (s.v \cup s.f), c)
        all == s.open + Cardinality(new)
    IN  [s EXCEPT !.v = @ \cup new, !.open = all,
                  !.over = IF all >= N * M - BOMBS THEN 1 ELSE @]

OpenMine(s, c) == [s EXCEPT !.v = @ \cup {c}, !.over = 2]

OpenCell(s, c) ==
    \/ /\ s.over # 0 \/ c \in s.f
       /\ st' = s
    \/ /\ s.over = 0 /\ c \notin s.f
       /\ \E g \in IF s.first THEN Layouts(c) ELSE {s.g} :
            LET laid == [s EXCEPT !.g = g, !.first = FALSE]
            IN  st' = IF c \in g THEN OpenMine(laid, c) ELSE OpenSafe(laid, c)

\* A click on a game that is over starts a new one and opens its first cell.
Click(c) == OpenCell(IF st.over = 0 THEN st ELSE NewField, c)

ToggleFlag(c) ==
    /\ st.over = 0 /\ c \notin st.v
    /\ st' = IF c \in st.f THEN [st EXCEPT !.f = @ \ {c}, !.flags = @ - 1]
                           ELSE [st EXCEPT !.f = @ \cup {c}, !.flags = @ + 1]

NewMines == st' = NewField

MinesNext == NewMines \/ \E c \in Field : Click(c) \/ ToggleFlag(c)

\* The counters are those of the board over every click, flag and new game, no
\* opened cell keeps a flag, a game is lost exactly by an opened mine, never by
\* its first click, and a game with mines is won exactly when every safe cell is
\* open.
Counted ==
    /\ st.open = Cardinality(st.v \ st.g)
    /\ st.flags = Cardinality(st.f)
    /\ st.v \cap st.f = {}
    /\ st.over = 2 <=> st.v \cap st.g # {}
    /\ st.over = 2 => st.v \ st.g # {}
    /\ st.g # {} => (st.over = 1 <=> st.v = Field \ st.g)

-----------------------------------------------------------------------------
(* 2048.                                                                   *)

Tiles == (1..SIDE) \X (1..SIDE)
NoTiles == [c \in Tiles |-> 0]
Value(v) == IF v = 0 THEN 0 ELSE 2^v

\* Two tiles, each 2 or, one time in ten, 4.
Spawn(cells) ==
    {[cells EXCEPT ![c] = v] : c \in {d \in Tiles : cells[d] = 0}, v \in {1, 2}}
Fresh2048 == UNION {Spawn(b) : b \in Spawn(NoTiles)}

Init2048 == st = [cells |-> NoTiles, score |-> 0]

\* The cells of line a from the side the tiles slide to: left, right, up, down.
Line(dir, a) ==
    [b \in 1..SIDE |-> CASE dir = 0 -> <<a, b>>
                      [] dir = 1 -> <<a, SIDE + 1 - b>>
                      [] dir = 2 -> <<b, a>>
                      [] dir = 3 -> <<SIDE + 1 - b, a>>]

\* A tile equal to the last one written is merged into it, even if that one was
\* itself merged in this move; acc is the line written and what it scored.
Merge(acc, v) ==
    LET last == acc.line[Len(acc.line)]
    IN  IF acc.line # <<>> /\ last = v
        THEN [line |-> Front(acc.line) \o <<v + 1>>, score |-> acc.score + 2^(v + 1)]
        ELSE [acc EXCEPT !.line = Append(@, v)]

Slide_Bug(cells, dir, a) ==
    FoldLeft(Merge, [line |-> <<>>, score |-> 0],
             [b \in 1..SIDE - 1 |-> cells[Line(dir, a)[b]]])
Slide(cells, dir, a) ==
    FoldLeft(Merge, [line |-> <<>>, score |-> 0],
             SelectSeq([b \in 1..SIDE |-> cells[Line(dir, a)[b]]], LAMBDA v : v # 0))

\* No tile is spawned after a move.
Slip(dir) ==
    LET slid == [a \in 1..SIDE |-> Slide(st.cells, dir, a)]
        tile(line, b) == IF b <= Len(line) THEN line[b] ELSE 0
        place(c) == CHOOSE ab \in Tiles : Line(dir, ab[1])[ab[2]] = c
    IN  st' = [cells |-> [c \in Tiles |-> tile(slid[place(c)[1]].line, place(c)[2])],
               score |-> st.score + SumFunction([a \in 1..SIDE |-> slid[a].score])]

Reset2048 == \E b \in Fresh2048 : st' = [cells |-> b, score |-> 0]

Next2048 == Reset2048 \/ \E dir \in 0..3 : Slip(dir)

\* No move loses a tile or makes one: the two tiles of the reset are on the board,
\* or the one they were merged into, which is the score.
TilesKept ==
    LET on == {c \in Tiles : st.cells[c] # 0}
    IN  \/ on = {} /\ st.score = 0
        \/ Cardinality(on) = 2 /\ st.score = 0 /\ \A c \in on : st.cells[c] \in {1, 2}
        \/ \E c \in on : on = {c} /\ st.cells[c] \in {2, 3} /\ st.score = 2^st.cells[c]
=============================================================================
