------------------------------ MODULE Gadgets -------------------------------
(***************************************************************************)
(* Small windows of gui.c. Paint reads the button while it is painted, and *)
(* it is painted only when something marked it dirty: a key, a click in    *)
(* it, the pointer passing over it, the button held down; colours are left *)
(* out, a stroke is its two ends. Three clocks run on the tick counter:    *)
(* the Stopwatch window, the stopwatch of the Clock window, and the        *)
(* Pomodoro; ticks wrap at 2^32, here at WRAP, and the seconds of uptime,  *)
(* which wrap 497 days after boot, do not. Random, PassGen, UnitConv and   *)
(* BaseConv compute a result from what was typed; a random word may have   *)
(* any value.                                                              *)
(***************************************************************************)
EXTENDS Integers, Sequences, SequencesExt, FiniteSets

CONSTANTS
    PAINT_MAX,
    Canvas,         \* the places of the pointer on the canvas
    WRAP,           \* 2^32
    MaxTime,        \* bound: ticks of a behaviour
    Work, Break,    \* 25 * 60 and 5 * 60
    WORD,           \* 2^32
    Numbers,        \* what atoi makes of what is typed
    Units,          \* unit_l and unit_w: the sizes of the units of a category
    Digits,         \* hexadecimal texts, as sequences of digit values
    Charsets,       \* pgen_opt: the sets a user may tick
    Lens            \* pgen_lens

VARIABLE st     \* Of Paint: strokes (paint_x0 .. paint_y1, [0 .. paint_n - 1]), drawing, at
                \* (the pointer), left and prev (the button), active, saved (/paint.pts);
                \* of the clocks: win, the window that is used, now, the time since boot,
                \* sw and clk: run, start, acc and, as history, real: how long it ran,
                \* pom and, as history, worked: how long the phase has run; of the
                \* tools: the one used last, its inputs and its result

-----------------------------------------------------------------------------
(* Paint, frame by frame.                                                  *)

OUTSIDE == "outside"       \* off the window
CLEAR == "clear"           \* on the Clear button
Places == Canvas \cup {OUTSIDE, CLEAR}

\* What its constants must satisfy.
PaintAssumption == PAINT_MAX \in Nat /\ Canvas \cap {OUTSIDE, CLEAR} = {}

PaintInit == st = [strokes |-> <<>>, drawing |-> FALSE, at |-> OUTSIDE, left |-> FALSE,
                   active |-> TRUE, saved |-> <<>>]

Cleared(s) == [s EXCEPT !.strokes = <<>>, !.drawing = FALSE]

\* The press: gui_on_click focuses the window under the pointer, and the window
\* gets the click.
Press(s, p) ==
    LET t == [s EXCEPT !.active = p # OUTSIDE]
    IN  IF p = CLEAR THEN Cleared(t) ELSE t

\* render_paint.
Begin(s, p) == [s EXCEPT !.strokes = Append(@, [from |-> p, to |-> p]), !.drawing = TRUE]

Extend_Bug(s, p) == s
Extend(s, p) == [s EXCEPT !.strokes[Len(s.strokes)].to = p]

Render(s, p, left) ==
    IF ~(left /\ s.active) THEN [s EXCEPT !.drawing = FALSE]
    ELSE IF p \notin Canvas THEN [s EXCEPT !.drawing = FALSE]
    ELSE IF s.drawing THEN IF s.strokes # <<>> THEN Extend(s, p) ELSE s
    ELSE IF Len(s.strokes) < PAINT_MAX - 1 THEN Begin(s, p) ELSE s

\* A frame: the pointer and the button, then the painting.
Frame(p, left) ==
    LET s == [st EXCEPT !.at = p, !.left = left]
        t == IF left /\ ~st.left THEN Press(s, p) ELSE s
        dirty == left \/ p # st.at
    IN  st' = IF dirty THEN Render(t, p, left) ELSE t

\* Keys come before the pointer in a frame that leaves the pointer where it is.
KeyClear == st.active /\ st' = Render(Cleared(st), st.at, st.left)
KeySave == st.active /\ st' = Render([st EXCEPT !.saved = st.strokes], st.at, st.left)

PaintNext ==
    \/ \E p \in Places, left \in BOOLEAN : Frame(p, left)
    \/ KeyClear
    \/ KeySave

\* While the button is down over the canvas the last stroke ends at the pointer,
\* unless all strokes are used; a stroke under way exists; and no sequence of
\* presses, clears and focus changes writes past the arrays.
Follows ==
    /\ st.drawing => st.strokes # <<>>
    /\ st.left /\ st.active /\ st.at \in Canvas =>
         \/ st.drawing /\ Last(st.strokes).to = st.at
         \/ Len(st.strokes) = PAINT_MAX - 1
    /\ Len(st.strokes) < PAINT_MAX

-----------------------------------------------------------------------------
(* The clocks.                                                             *)

\* What its constants must satisfy.
TimersAssumption ==
    /\ WRAP \in Nat \ {0} /\ MaxTime \in Nat
    /\ Work \in Nat \ {0} /\ Break \in Nat \ {0}

Zero == [run |-> FALSE, start |-> 0, acc |-> 0, real |-> 0]

\* pom_reset.
Idle == [run |-> FALSE, work |-> TRUE, left |-> Work, total |-> Work, deadline |-> 0,
         sessions |-> 0, worked |-> 0]

Windows == {"stopwatch", "clock", "pomodoro"}
TimersInit == \E w \in Windows :
    st = [win |-> w, now |-> 0, sw |-> Zero, clk |-> Zero, pom |-> Idle]

\* timer_get_ticks() - start in 32 bits.
Since(start) == (st.now - start) % WRAP

Elapsed(w) == (w.acc + IF w.run THEN Since(w.start) ELSE 0) % WRAP

Toggled_Bug(w) ==
    IF w.run THEN [w EXCEPT !.acc = Since(w.start), !.run = FALSE]
             ELSE [w EXCEPT !.start = st.now % WRAP, !.run = TRUE]
Toggled(w) ==
    IF w.run THEN [w EXCEPT !.acc = Elapsed(w), !.run = FALSE]
             ELSE [w EXCEPT !.start = st.now % WRAP, !.run = TRUE]

ToggleStopw == st' = [st EXCEPT !.sw = Toggled(@)]
ResetStopw == st' = [st EXCEPT !.sw = [Zero EXCEPT !.start = st.sw.start]]

\* clk_sw_elapsed and clk_sw_reset.
ToggleClock == st' = [st EXCEPT !.clk = Toggled(@)]
ResetClock == st' = [st EXCEPT !.clk = Zero]

Start == /\ ~st.pom.run
         /\ st' = [st EXCEPT !.pom.run = TRUE, !.pom.deadline = st.now + st.pom.left]
\* What is left was computed when the window was last painted.
Pause == st.pom.run /\ st' = [st EXCEPT !.pom.run = FALSE]
Reset == st' = [st EXCEPT !.pom = Idle]

\* render_pomodoro: at the deadline, seen late or not, the next phase begins.
render_pomodoro ==
    LET p == st.pom
        next == [p EXCEPT !.work = ~p.work, !.sessions = IF p.work THEN @ + 1 ELSE @,
                          !.left = IF p.work THEN Break ELSE Work,
                          !.total = IF p.work THEN Break ELSE Work,
                          !.deadline = st.now + IF p.work THEN Break ELSE Work,
                          !.worked = 0]
    IN  /\ p.run
        /\ st' = [st EXCEPT !.pom = IF st.now >= p.deadline THEN next
                                    ELSE [p EXCEPT !.left = p.deadline - st.now]]

Ran(w) == [w EXCEPT !.real = IF w.run THEN @ + 1 ELSE @]
Tick ==
    /\ st.now < MaxTime
    /\ st' = [st EXCEPT !.now = @ + 1, !.sw = Ran(@), !.clk = Ran(@),
                        !.pom.worked = IF st.pom.run THEN @ + 1 ELSE @]

TimersNext ==
    \/ st.win = "stopwatch" /\ (ToggleStopw \/ ResetStopw)
    \/ st.win = "clock" /\ (ToggleClock \/ ResetClock)
    \/ st.win = "pomodoro" /\ (Start \/ Pause \/ Reset \/ render_pomodoro)
    \/ Tick

\* A stopwatch shows how long it ran, over any starts and stops and over the wrap
\* of the tick counter.  A phase of the Pomodoro never ends before it has run its
\* time: what is left and what has run make up its length, but for the seconds
\* that passed between the last painting and a pause.
Exact ==
    /\ Elapsed(st.sw) = st.sw.real % WRAP /\ Elapsed(st.clk) = st.clk.real % WRAP
    /\ st.pom.left \in 0..st.pom.total
    /\ st.pom.run /\ st.now < st.pom.deadline =>
         st.pom.deadline - st.now + st.pom.worked >= st.pom.total

-----------------------------------------------------------------------------
(* The tools that compute.                                                 *)

\* What its constants must satisfy.
ToolsAssumption == 
    /\ WORD \in Nat \ {0} /\ Numbers \subseteq Int
    /\ \A len \in Lens : len \in Nat /\ len >= Cardinality(Charsets)

\* The symbols are 13 characters, of which the first loop picks one of 14: the last
\* is the zero that ends them.
NUL == "nul"
Symbol == "symbol"

ToolsInit == st = [tool |-> "none", in |-> <<>>, out |-> <<>>]

\* rng_gen: the upper bound is made to exceed the lower one; a negative number is
\* shown as the word it is.
Span(lo, hi) == lo..(IF hi <= lo THEN lo + 1 ELSE hi)
Random(lo, hi) == \E v \in Span(lo, hi) :
    st' = [tool |-> "random", in |-> <<lo, hi>>, out |-> <<v % WORD>>]

\* pgen_gen: one character of each ticked set, as far as they fit, then any, then
\* shuffled; a zero among them ends the text.
Picks(set) == IF set = Symbol THEN {Symbol, NUL} ELSE {set}

Shown(text) == LET cut == {i \in DOMAIN text : text[i] = NUL}
               IN  IF cut = {} THEN text
                   ELSE SubSeq(text, 1, (CHOOSE i \in cut : \A j \in cut : i <= j) - 1)

Fill_Bug(sets, len) == TupleOf(sets, len)
Fill(sets, len) ==
    {text \in TupleOf(sets \cup {c \in {NUL} : Symbol \in sets}, len) :
        /\ \A s \in sets : ToSet(text) \cap Picks(s) # {}
        /\ Cardinality({i \in DOMAIN text : text[i] = NUL}) <= 1}

Password(sets, len) ==
    /\ sets # {}
    /\ \E text \in Fill(sets, len) :
         st' = [tool |-> "password", in |-> <<sets, len>>, out |-> Shown(text)]

\* ll_div32 leaves the remainder in q and returns it.
ll_div32(a, b) == IF a < 0 THEN (a + WORD * WORD) % b ELSE a % b
Unit(v, from, to) ==
    st' = [tool |-> "unit", in |-> <<v, from, to>>, out |-> <<ll_div32(v * from, to)>>]

\* Celsius, Fahrenheit, Kelvin; C divides towards zero.
Trunc(a, b) == IF a < 0 THEN -((-a) \div b) ELSE a \div b
ToC(v, from) == CASE from = "C" -> v [] from = "F" -> Trunc((v - 32) * 5, 9) [] from = "K" -> v - 273
FromC(c, to) == CASE to = "C" -> c [] to = "F" -> Trunc(c * 9, 5) + 32 [] to = "K" -> c + 273
Temperature(v, from, to) ==
    st' = [tool |-> "temp", in |-> <<v, from, to>>, out |-> <<FromC(ToC(v, from), to)>>]

\* bc_convert in hexadecimal mode: more digits than a word has are wrapped.
Value(digits) == FoldLeft(LAMBDA v, d : (v * 16 + d) % WORD, 0, digits)
Hex(digits) == st' = [tool |-> "hex", in |-> digits, out |-> <<Value(digits)>>]

ToolsNext ==
    \/ \E lo, hi \in Numbers : Random(lo, hi)
    \/ \E sets \in SUBSET Charsets, len \in Lens : Password(sets, len)
    \/ \E v \in Numbers, from, to \in Units : Unit(v, from, to)
    \/ \E v \in Numbers, from, to \in {"C", "F", "K"} : Temperature(v, from, to)
    \/ \E digits \in Digits : Hex(digits)

ToolsSpec == ToolsInit /\ [][ToolsNext]_st

\* Nine times a temperature in Celsius, exactly.
Ninths(v, from) ==
    CASE from = "C" -> 9 * v [] from = "F" -> 5 * (v - 32) [] from = "K" -> 9 * (v - 273)

\* A random number lies between bounds that are not negative; a password holds only
\* ticked sets and, unless a zero cut it, every one of them, and it is as long as
\* asked for when no symbols are; a temperature is within two degrees of the exact
\* one; the last digit typed is the last of the value, wrapped or not.  Of the unit
\* converter nothing is said here: UnitDivides is what it ought to give.
Sound ==
    /\ st.tool = "random" /\ st.in[1] >= 0 =>
         st.out[1] >= st.in[1] /\ (st.out[1] <= st.in[2] \/ st.in[2] <= st.in[1])
    /\ st.tool = "password" =>
         /\ ToSet(st.out) \subseteq st.in[1]
         /\ Len(st.out) = st.in[2] => st.in[1] \ {Symbol} \subseteq ToSet(st.out)
         /\ Symbol \notin st.in[1] => Len(st.out) = st.in[2]
    /\ st.tool = "temp" => Ninths(st.in[1], st.in[2]) - Ninths(st.out[1], st.in[3]) \in -18..18
    /\ st.tool = "hex" /\ st.in # <<>> => st.out[1] % 16 = Last(st.in)

\* The comment above ll_div32 calls it a division for numbers that are not negative: the
\* unit converter shows how many of the one unit there are in so many of the other.  The
\* code shows the remainder.
UnitDivides ==
    st.tool = "unit" /\ st.in[1] >= 0 => st.out[1] = (st.in[1] * st.in[2]) \div st.in[3]
=============================================================================
