------------------------------ MODULE ArcadeGames ---------------------------
(***************************************************************************)
(* Three games of gui.c whose painting moves them.  Snake: snake_step, run *)
(* by render_snake every nine ticks.  Tetris: tetris_tick on every frame;  *)
(* the colour of a cell is left out, the board is the set of its filled    *)
(* cells.  Brick: brick_step at every painting of the window, with the     *)
(* geometry of the code; the ball is kept in sixteenths of a pixel, the    *)
(* walls and the paddle are in pixels.                                     *)
(***************************************************************************)
EXTENDS Integers, Sequences, SequencesExt, FiniteSets, FiniteSetsExt, Functions

CONSTANTS
    SNAKE_COLS, SNAKE_ROWS,
    Body0, Food0,               \* what snake_reset places
    WIDTH, HEIGHT,              \* TETRIS_W, TETRIS_H
    SpawnX,                     \* the 3 of tetris_spawn
    Shapes,                     \* tetris_shape: the four cells of a piece
    BRICK_COLS, BRICK_ROWS,
    Paddles                     \* brick_paddle: where the pointer puts the paddle

VARIABLE st     \* Of Snake: body (snake_body[0 .. snake_len - 1]), dir, alive, score, food,
                \* paused; of Tetris: board, piece, rot, px, py, running, paused, and
                \* frozen: pieces frozen, cleared: rows cleared (score is 100 for each);
                \* of Brick: bricks (the cells set in brick_g), score, over, run, ball
                \* (brick_bx, brick_by), v (brick_bvx, brick_bvy)

-----------------------------------------------------------------------------
(* Snake, with the keys and clicks that reach the window.                  *)

\* What its constants must satisfy.
SnakeAssumption ==
    /\ SNAKE_COLS \in Nat \ {0} /\ SNAKE_ROWS \in Nat \ {0}
    /\ \A i \in DOMAIN Body0 : Body0[i] \in (0..SNAKE_COLS - 1) \X (0..SNAKE_ROWS - 1)

SnakeBoard == (0..SNAKE_COLS - 1) \X (0..SNAKE_ROWS - 1)

\* 0 up, 1 right, 2 down, 3 left.
Delta == [d \in 0..3 |-> << <<0, -1>>, <<1, 0>>, <<0, 1>>, <<-1, 0>> >>[d + 1]]

SnakeFresh == [body |-> Body0, dir |-> 1, alive |-> TRUE, score |-> 0, food |-> Food0,
               paused |-> FALSE]

\* Nothing resets the game before the first click: the fields are zero.
SnakeInit ==
    st = [SnakeFresh EXCEPT !.body = <<>>, !.dir = 0, !.alive = FALSE, !.food = <<0, 0>>]

\* 200 tries at a free cell may all fail: then the food stays where it is.
PlaceFood(body, food) == {food} \cup (SnakeBoard \ ToSet(body))

Die == st' = [st EXCEPT !.alive = FALSE]

Ahead == <<st.body[1][1] + Delta[st.dir][1], st.body[1][2] + Delta[st.dir][2]>>

\* Running into any cell of the body, the tail included, is death.
Blocked_Bug(c) == c \notin SnakeBoard
Blocked(c) == c \notin SnakeBoard \/ c \in ToSet(st.body)

Grow ==
    LET body == <<Ahead>> \o st.body
    IN  IF Len(body) >= SNAKE_COLS * SNAKE_ROWS
        THEN st' = [st EXCEPT !.body = body, !.score = @ + 10, !.alive = FALSE]
        ELSE \E f \in PlaceFood(body, st.food) :
                st' = [st EXCEPT !.body = body, !.score = @ + 10, !.food = f]

SnakeStep ==
    /\ st.alive /\ ~st.paused
    /\ \/ Blocked(Ahead) /\ Die
       \/ ~Blocked(Ahead) /\ Ahead = st.food /\ Grow
       \/ /\ ~Blocked(Ahead) /\ Ahead # st.food
          /\ st' = [st EXCEPT !.body = <<Ahead>> \o Front(@)]

\* The arrows may not reverse the direction of now, which is not always that of
\* the last step; left and right are swapped.
Turn(d) ==
    /\ st.dir # (d + 2) % 4
    /\ st' = [st EXCEPT !.dir = d]

\* A step of the game may come between any two turns, or none.
SnakeKey ==
    \/ \E d \in 0..3 : Turn(d)
    \/ st' = SnakeFresh
    \/ st' = [st EXCEPT !.paused = ~@]

SnakeClick == IF st.alive THEN st' = [st EXCEPT !.paused = ~@] ELSE st' = SnakeFresh

SnakeNext == SnakeStep \/ SnakeKey \/ SnakeClick

Neighbours(a, b) == \E d \in 0..3 : b = <<a[1] + Delta[d][1], a[2] + Delta[d][2]>>

\* The snake stays whole over every turn, meal and reset: on the board, no cell
\* twice, each cell next to the one before, and as long as its score says; a
\* living snake never fills the board.
Whole ==
    /\ ToSet(st.body) \subseteq SnakeBoard
    /\ \A i, j \in DOMAIN st.body : st.body[i] = st.body[j] => i = j
    /\ \A i \in 2..Len(st.body) : Neighbours(st.body[i], st.body[i - 1])
    /\ st.alive => Len(st.body) = Len(Body0) + st.score \div 10
    /\ st.alive => Len(st.body) < SNAKE_COLS * SNAKE_ROWS

-----------------------------------------------------------------------------
(* Tetris, with the keys.                                                  *)

\* What its constants must satisfy.
TetrisAssumption ==
    /\ WIDTH \in Nat \ {0} /\ HEIGHT \in Nat \ {0} /\ SpawnX \in 0..WIDTH - 1
    /\ Shapes # {} /\ \A s \in Shapes : Cardinality(s) = 4

Well == (0..WIDTH - 1) \X (0..HEIGHT - 1)
Row(y) == (0..WIDTH - 1) \X {y}

\* tetris_cells: rot quarter turns about the cell <<0, 0>>.
Turned(shape, rot) ==
    LET turn[r \in 0..3] == IF r = 0 THEN shape ELSE {<<-c[2], c[1]>> : c \in turn[r - 1]}
    IN  turn[rot]

PieceAt(s) == {<<s.px + c[1], s.py + c[2]>> : c \in Turned(s.piece, s.rot)}

Hit_Bug(s) == PieceAt(s) \cap s.board # {}
Hit(s) == ~(PieceAt(s) \subseteq Well \ s.board)

\* tetris_spawn: a new piece that does not fit ends the game.
Spawned(s, shape) ==
    LET new == [s EXCEPT !.piece = shape, !.rot = 0, !.px = SpawnX, !.py = 0]
    IN  [new EXCEPT !.running = IF Hit(new) THEN 2 ELSE @]

Idle == [board |-> {}, piece |-> CHOOSE s \in Shapes : TRUE, rot |-> 0, px |-> 0, py |-> 0,
         running |-> 0, paused |-> FALSE, frozen |-> 0, cleared |-> 0]
TetrisInit == st = Idle

Reset == \E s \in Shapes : st' = Spawned([Idle EXCEPT !.running = 1], s)

\* The full rows go, what is above them comes down; a full row is looked at again
\* after the ones above have come down.
Full(b) == {y \in 0..HEIGHT - 1 : Row(y) \subseteq b}
Clear(b) ==
    {<<c[1], c[2] + Cardinality({y \in Full(b) : y > c[2]})>> :
        c \in b \ UNION {Row(y) : y \in Full(b)}}

\* Freezing a piece counts modulo what the invariant needs, so that a long game
\* is a bounded one.
Freeze(s) ==
    LET b == s.board \cup PieceAt(s)
    IN  \E shape \in Shapes :
            st' = Spawned([s EXCEPT !.board = Clear(b), !.frozen = (@ + 1) % WIDTH,
                                    !.cleared = (@ + Cardinality(Full(b))) % 4], shape)

Down(s) == [s EXCEPT !.py = @ + 1]
Playing == st.running = 1 /\ ~st.paused

\* At most once in 26 ticks.
Tick == /\ Playing
        /\ \/ ~Hit(Down(st)) /\ st' = Down(st)
           \/ Hit(Down(st)) /\ Freeze(st)

Try(s) == ~Hit(s) /\ st' = s

Move(dx) == Playing /\ Try([st EXCEPT !.px = @ + dx])
Rotate == Playing /\ Try([st EXCEPT !.rot = (@ + 1) % 4])

\* The down key asks neither whether the game runs nor whether it is paused.
SoftDrop == Try(Down(st))

Drop ==
    /\ Playing
    /\ LET free == {n \in 0..HEIGHT :
                      \A k \in 0..n : ~Hit([st EXCEPT !.py = @ + k])}
       IN  Freeze([st EXCEPT !.py = @ + Max(free)])

Pause == st' = [st EXCEPT !.paused = ~@]

TetrisNext == Reset \/ Tick \/ Move(-1) \/ Move(1) \/ Rotate \/ SoftDrop \/ Drop \/ Pause

\* While the game runs the falling piece lies on the board and on no frozen cell;
\* no full row stays; and every frozen piece left its four cells, but for those
\* of the cleared rows: none is lost or counted twice.
Fits ==
    /\ st.running = 1 => ~Hit(st)
    /\ st.board \subseteq Well /\ Full(st.board) = {}
    /\ (Cardinality(st.board) - 4 * st.frozen + WIDTH * st.cleared) % (4 * WIDTH) = 0

-----------------------------------------------------------------------------
(* Brick.                                                                  *)

\* What its constants must satisfy.
BrickAssumption == BRICK_COLS \in Nat \ {0} /\ BRICK_ROWS \in Nat \ {0} /\ Paddles \subseteq Int

Bricks == (0..BRICK_ROWS - 1) \X (0..BRICK_COLS - 1)

\* brick_reset.
BrickFresh == [bricks |-> Bricks, score |-> 0, over |-> 0, run |-> TRUE,
               ball |-> <<320 * 16, 260 * 16>>, v |-> <<96, -96>>]

\* Nothing resets the game before the first click: the fields are zero.
BrickInit == st = [bricks |-> {}, score |-> 0, over |-> 0, run |-> FALSE,
              ball |-> <<0, 0>>, v |-> <<0, 0>>]

Pixel(u) == u \div 16
Left(c) == 10 + 56 * c
Top(r) == 50 + 24 * r

\* The walls; the values they assign are in pixels.
Walled(s) ==
    LET x == Pixel(s.ball[1])
        y == Pixel(s.ball[2])
    IN  [s EXCEPT !.ball = << IF x < 4 THEN 4 ELSE IF x > 556 THEN 556 ELSE @[1],
                              IF y < 40 THEN 40 ELSE @[2] >>,
                  !.v = << IF x < 4 \/ x > 556 THEN -@[1] ELSE @[1],
                           IF y < 40 THEN -@[2] ELSE @[2] >>]

Touched(s, r, x, y) ==
    {c \in 0..BRICK_COLS - 1 : /\ <<r, c>> \in s.bricks
                         /\ x + 5 >= Left(c) /\ x <= Left(c) + 52
                         /\ y + 5 >= Top(r) /\ y <= Top(r) + 20}

Size(u) == IF u < 0 THEN -u ELSE u

\* The first brick of the row that the ball touches.
BrickHit(s, r, x, y) ==
    LET touched == Touched(s, r, x, y)
        c == Min(touched)
    IN  IF touched = {} THEN s
        ELSE [s EXCEPT !.bricks = @ \ {<<r, c>>}, !.score = @ + 10,
                       !.v = <<IF x < Left(c) + 26 THEN -Size(@[1]) ELSE Size(@[1]), -@[2]>>]

RowsHit(s, x, y) ==
    LET after[r \in 0..BRICK_ROWS] == IF r = 0 THEN s ELSE BrickHit(after[r - 1], r - 1, x, y)
    IN  after[BRICK_ROWS]

\* Where the ball lands on the paddle decides how steep it leaves; brick_by gets
\* pixels again.  Division is towards zero.
Slope(off) ==
    LET v == IF off < 0 THEN -(((-off) * 4) \div 5) ELSE (off * 4) \div 5
    IN  IF v \in 1..31 THEN 32 ELSE IF v \in -31..-1 THEN -32 ELSE v

Paddled(s, paddle, x, y) ==
    IF y + 5 \in 316..336 /\ x + 5 >= paddle /\ x <= paddle + 70
    THEN [s EXCEPT !.ball[2] = 316 - 5, !.v = <<Slope(x - paddle - 35), -@[2]>>]
    ELSE s

\* brick_step; the collisions use the position before the walls.
BrickStep(paddle) ==
    LET moved == [st EXCEPT !.ball = <<@[1] + st.v[1], @[2] + st.v[2]>>]
        x == Pixel(moved.ball[1])
        y == Pixel(moved.ball[2])
        walled == Walled(moved)
        played == Paddled(RowsHit(walled, x, y), paddle, x, y)
    IN  /\ st.run /\ st.over = 0
        /\ st' = IF y > 336 THEN [walled EXCEPT !.over = 2, !.run = FALSE]
                 ELSE IF played.bricks = {} THEN [played EXCEPT !.over = 1, !.run = FALSE]
                 ELSE played

Restart == st' = BrickFresh      \* the key r

BrickClick == st' = IF st.over # 0 \/ ~st.run THEN BrickFresh ELSE st

BrickNext ==
    \/ \E paddle \in Paddles : BrickStep(paddle)
    \/ Restart
    \/ BrickClick

\* Each point of the score is a brick that is gone, the game ends by a ball below
\* the paddle or with no brick left, and a game that is over does not move.
Scored ==
    /\ st.run => st.score = 10 * (BRICK_ROWS * BRICK_COLS - Cardinality(st.bricks))
    /\ st.over = 1 => st.bricks = {}
    /\ st.over # 0 => ~st.run
    /\ st.run /\ st.bricks = {} => FALSE
=============================================================================
