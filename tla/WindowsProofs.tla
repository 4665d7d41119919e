--------------------------- MODULE WindowsProofs ---------------------------
(***************************************************************************)
(* For any screen, any window types and places on it, and any points the   *)
(* pointer goes to: one window for each type, on the screen, a maximized   *)
(* one never dragged, a drag only of the window with the focus, and no     *)
(* focus on a window that is hidden.                                       *)
(***************************************************************************)
EXTENDS Windows, FiniteSetTheorems, WellFoundedInduction, TLAPS

-----------------------------------------------------------------------------
(* The window a search finds.                                              *)

LEMMA NatMin ==
    ASSUME NEW S \in SUBSET Nat, S # {}
    PROVE  \E x \in S : \A y \in S : x <= y
  <1> DEFINE R == OpToRel(<, Nat)
  <1>1. IsWellFoundedOn(R, Nat)
    BY NatLessThanWellFounded
  <1>2. \A p \in Nat, q \in Nat : p < q => <<p, q>> \in R
    BY DEF OpToRel
  <1> HIDE DEF R
  <1>3. PICK x \in S : \A y \in S : ~ (<<y, x>> \in R)
    BY <1>1, WFMin
  <1>4. ASSUME NEW y \in S PROVE x <= y
    <2>1. x \in Nat /\ y \in Nat
      OBVIOUS
    <2>2. ~ (y < x)
      BY <2>1, <1>2, <1>3
    <2> QED
      BY <2>1, <2>2
  <1> QED
    BY <1>4

\* The first and the last window of a set of windows are in it.
LEMMA EndsAreIn ==
    ASSUME NEW n \in Nat, NEW S \in SUBSET (1..n), S # {}
    PROVE  Min(S) \in S /\ Max(S) \in S
  <1>1. Min(S) \in S
    <2>1. S \in SUBSET Nat
      OBVIOUS
    <2> QED
      BY <2>1, NatMin DEF Min
  <1>2. \E x \in S : \A y \in S : y <= x
    <2> DEFINE T == {n - i : i \in S}
    <2>1. T \in SUBSET Nat /\ T # {}
      OBVIOUS
    <2>2. PICK t \in T : \A u \in T : t <= u
      BY <2>1, NatMin
    <2>3. PICK x \in S : t = n - x
      BY <2>2
    <2>4. ASSUME NEW y \in S PROVE y <= x
      <3>1. n - y \in T /\ x \in 1..n /\ y \in 1..n
        OBVIOUS
      <3> QED
        BY <2>2, <2>3, <3>1
    <2> QED
      BY <2>4
  <1>3. Max(S) \in S
    BY <1>2 DEF Max
  <1> QED
    BY <1>1, <1>3

-----------------------------------------------------------------------------
(* What every handler keeps of a desktop d, and of its focus.              *)

Window == [type : Types, at : Rects, back : Rects, visible : BOOLEAN, maximized : BOOLEAN]

Typed(d) ==
    /\ d \in [wins : Seq(Window), active : Nat, drag : [win : Nat, ox : Int, oy : Int],
              menu : BOOLEAN, dbl : Icons \cup {NoIcon}]
    /\ d.active \in {NONE} \cup DOMAIN d.wins
    /\ d.drag.win \in {NONE} \cup DOMAIN d.wins

Single(d) == \A i, j \in DOMAIN d.wins : d.wins[i].type = d.wins[j].type => i = j

Placed(d, i) ==
    /\ OnScreen(d.wins[i].at) /\ OnScreen(d.wins[i].back)
    /\ d.wins[i].maximized => d.wins[i].at = Full /\ d.drag.win # i

Sound(d) == Typed(d) /\ Single(d) /\ \A i \in DOMAIN d.wins : Placed(d, i)

\* From d to e no window is hidden and keeps the focus, or gets it hidden.
FocusKept(d, e) ==
    \A i \in DOMAIN e.wins :
        e.active = i /\ ~e.wins[i].visible =>
            i \in DOMAIN d.wins /\ d.active = i /\ ~d.wins[i].visible

LEMMA FullIsPlace == Full \in Rects /\ OnScreen(Full)
  BY BarsAssumption, PlacesAssumption DEF Full, Rect, Rects, OnScreen

LEMMA FocusTransitive ==
    ASSUME NEW d, NEW e, NEW f, FocusKept(d, e), FocusKept(e, f)
    PROVE  FocusKept(d, f)
  BY DEF FocusKept

\* Window i becomes w.
Put(d, i, w) == [d EXCEPT !.wins[i] = w]

LEMMA PutKeeps ==
    ASSUME NEW d, Sound(d), NEW i \in DOMAIN d.wins, NEW w \in Window,
           w.type = d.wins[i].type, OnScreen(w.at), OnScreen(w.back),
           w.maximized => w.at = Full /\ d.drag.win # i
    PROVE  Sound(Put(d, i, w))
  <1> DEFINE e == Put(d, i, w)
  <1> HIDE DEF e
  <1>1. /\ Typed(e) /\ DOMAIN e.wins = DOMAIN d.wins /\ e.wins[i] = w /\ e.drag = d.drag
        /\ \A j \in DOMAIN d.wins \ {i} : e.wins[j] = d.wins[j]
    <2>1. Typed(d)
      BY DEF Sound
    <2>2. PICK ws \in Seq(Window) : ws = [d.wins EXCEPT ![i] = w]
      <3>1. d.wins \in Seq(Window)
        BY ONLY <2>1 DEF Typed
      <3>2. PICK q \in Seq(Window) : q = d.wins
        BY ONLY <3>1
      <3>3. q \in Seq(Window) /\ i \in DOMAIN q /\ w \in Window
        BY <3>2
      <3>4. [q EXCEPT ![i] = w] \in Seq(Window)
        BY ONLY <3>3, SMTT(30)
      <3> QED
        BY ONLY <3>2, <3>4
    <2>3. e = [d EXCEPT !.wins = ws]
      BY <2>2 DEF e, Put
    <2>4. DOMAIN ws = DOMAIN d.wins /\ ws[i] = w /\ \A j \in DOMAIN d.wins \ {i} : ws[j] = d.wins[j]
      BY <2>2
    <2>5. e.wins = ws /\ e.drag = d.drag
      BY <2>1, <2>3 DEF Typed
    <2>6. Typed(e)
      BY <2>1, <2>3, <2>4, <2>5 DEF Typed
    <2> QED
      BY <2>4, <2>5, <2>6
  <1>2. Single(e)
    BY <1>1 DEF Sound, Single
  <1>3. ASSUME NEW j \in DOMAIN e.wins PROVE Placed(e, j)
    BY <1>1, <1>3 DEF Sound, Placed
  <1> QED
    BY <1>1, <1>2, <1>3 DEF Sound, e

\* The focus moves to a window that is visible, or to none.
LEMMA ActivateKeeps ==
    ASSUME NEW d, Sound(d), NEW i \in {NONE} \cup DOMAIN d.wins,
           i # NONE => d.wins[i].visible
    PROVE  LET e == Activate(d, i)
           IN  Sound(e) /\ FocusKept(d, e) /\ e.drag = d.drag /\ e.wins = d.wins /\ e.active = i
  <1> DEFINE e == Activate(d, i)
  <1> HIDE DEF e
  <1>1. /\ Typed(e) /\ e.wins = d.wins /\ e.drag = d.drag /\ e.active = i
    BY DEF e, Activate, Sound, Typed, NONE
  <1>2. Sound(e)
    BY <1>1 DEF Sound, Single, Placed
  <1>3. FocusKept(d, e)
    BY <1>1 DEF FocusKept, Sound, Typed, NONE
  <1> QED
    BY <1>1, <1>2, <1>3 DEF e

\* Neither the menu nor the icon clicked last matters to the windows.
LEMMA MarksKeep ==
    ASSUME NEW d, Sound(d), NEW m \in BOOLEAN, NEW t \in Icons \cup {NoIcon}
    PROVE  /\ Sound([d EXCEPT !.menu = m]) /\ FocusKept(d, [d EXCEPT !.menu = m])
           /\ [d EXCEPT !.menu = m].drag = d.drag
           /\ Sound([d EXCEPT !.dbl = t]) /\ FocusKept(d, [d EXCEPT !.dbl = t])
           /\ [d EXCEPT !.dbl = t].drag = d.drag
  <1> DEFINE e == [d EXCEPT !.menu = m]
             f == [d EXCEPT !.dbl = t]
  <1> HIDE DEF e, f
  <1>1. /\ Typed(e) /\ e.wins = d.wins /\ e.drag = d.drag /\ e.active = d.active
        /\ Typed(f) /\ f.wins = d.wins /\ f.drag = d.drag /\ f.active = d.active
    BY DEF e, f, Sound, Typed
  <1>2. Sound(e) /\ Sound(f)
    BY <1>1 DEF Sound, Single, Placed
  <1>3. FocusKept(d, e) /\ FocusKept(d, f)
    BY <1>1 DEF FocusKept
  <1> QED
    BY <1>1, <1>2, <1>3 DEF e, f

-----------------------------------------------------------------------------
(* Opening.                                                                *)

\* add_window is called for a type that has no window: the new one is the last.
LEMMA AddKeeps ==
    ASSUME NEW d, Sound(d), NEW t \in Types, OfType(d, t) = {}
    PROVE  LET a == AddWindow(d, t)
           IN  /\ Sound(a) /\ a.drag = d.drag /\ a.active = d.active
               /\ FocusKept(d, a)
               /\ Len(a.wins) \in Nat
               /\ a.wins[Len(a.wins)].type = t => Len(a.wins) = 0 \/ a.wins[Len(a.wins)].visible
  <1> DEFINE a == AddWindow(d, t)
             w == NewWindow(t, OpenRect[t])
  <1> HIDE DEF a, w
  <1>1. w \in Window /\ w.type = t /\ w.visible /\ ~w.maximized
        /\ OnScreen(w.at) /\ OnScreen(w.back)
    BY PlacesAssumption DEF w, NewWindow, Window
  <1>2. Typed(d) /\ d.wins \in Seq(Window) /\ Len(d.wins) \in Nat
        /\ DOMAIN d.wins = 1..Len(d.wins)
    BY DEF Sound, Typed
  <1>3. ASSUME NEW i \in DOMAIN d.wins PROVE d.wins[i].type # t
    BY <1>3 DEF OfType
  <1>4. CASE Len(d.wins) < WIN_MAX
    <2>1. a = [d EXCEPT !.wins = Append(d.wins, w)]
      BY <1>4 DEF a, AddWindow, w
    <2>2. a.wins = Append(d.wins, w) /\ a.drag = d.drag /\ a.active = d.active
          /\ a \in [wins : Seq(Window), active : Nat, drag : [win : Nat, ox : Int, oy : Int],
                    menu : BOOLEAN, dbl : Icons \cup {NoIcon}]
      <3>1. Append(d.wins, w) \in Seq(Window)
        BY <1>1, <1>2
      <3> QED
        BY <1>2, <2>1, <3>1 DEF Typed
    <2>3. Len(a.wins) = Len(d.wins) + 1 /\ DOMAIN a.wins = 1..Len(d.wins) + 1
          /\ a.wins[Len(d.wins) + 1] = w /\ \A i \in DOMAIN d.wins : a.wins[i] = d.wins[i]
      BY <1>1, <1>2, <2>2
    <2>4. Typed(a)
      BY <1>2, <2>2, <2>3 DEF Typed
    <2>5. Single(a)
      <3>1. PICK n \in Nat : n = Len(d.wins)
        BY <1>2
      <3>2. ASSUME NEW i \in 1..n, NEW j \in 1..n, d.wins[i].type = d.wins[j].type PROVE i = j
        BY <1>2, <3>1, <3>2 DEF Sound, Single
      <3>3. ASSUME NEW i \in 1..n PROVE a.wins[i].type = d.wins[i].type /\ a.wins[i].type # t
        BY <1>2, <1>3, <2>3, <3>1
      <3>4. a.wins[n + 1].type = t /\ DOMAIN a.wins = 1..n + 1
        BY <1>1, <2>3, <3>1
      <3>5. \A i \in 1..n + 1 : i \in 1..n \/ i = n + 1
        OBVIOUS
      <3> QED
        BY ONLY <3>2, <3>3, <3>4, <3>5 DEF Single
    <2>6. ASSUME NEW i \in DOMAIN a.wins PROVE Placed(a, i)
      BY <1>1, <1>2, <2>2, <2>3, <2>6 DEF Sound, Placed
    <2>7. FocusKept(d, a)
      BY <1>1, <1>2, <2>2, <2>3 DEF FocusKept
    <2> QED
      BY <1>1, <1>2, <2>2, <2>3, <2>4, <2>5, <2>6, <2>7 DEF Sound, a
  <1>5. CASE ~(Len(d.wins) < WIN_MAX)
    <2>1. a = d
      BY <1>5 DEF a, AddWindow
    <2>2. Len(d.wins) # 0 => d.wins[Len(d.wins)].type # t
      BY <1>2, <1>3
    <2> QED
      BY <1>2, <2>1, <2>2 DEF FocusKept, a
  <1> QED
    BY <1>4, <1>5

\* What becomes visible gets the focus.
LEMMA PutActivated ==
    ASSUME NEW d, Sound(d), NEW i \in DOMAIN d.wins, NEW w \in Window,
           w.type = d.wins[i].type, OnScreen(w.at), OnScreen(w.back),
           w.maximized => w.at = Full /\ d.drag.win # i, w.visible
    PROVE  LET e == Activate(Put(d, i, w), i)
           IN  Sound(e) /\ FocusKept(d, e) /\ e.drag = d.drag /\ e.active = i
  <1> DEFINE p == Put(d, i, w)
             e == Activate(p, i)
  <1>1. Sound(p)
    BY PutKeeps
  <1> HIDE DEF p
  <1>2. DOMAIN p.wins = DOMAIN d.wins /\ p.wins[i] = w /\ p.drag = d.drag
    BY DEF p, Put, Sound, Typed
  <1>3. Sound(e) /\ e.drag = p.drag /\ e.wins = p.wins /\ e.active = i
    BY <1>1, <1>2, ActivateKeeps
  <1> HIDE DEF e
  <1>4. FocusKept(d, e)
    BY <1>2, <1>3 DEF FocusKept
  <1> QED
    BY <1>2, <1>3, <1>4 DEF e, p

LEMMA ShowKeeps ==
    ASSUME NEW d, Sound(d), NEW t \in Types
    PROVE  Sound(Show(d, t)) /\ FocusKept(d, Show(d, t)) /\ Show(d, t).drag = d.drag
  <1>1. CASE OfType(d, t) # {}
    <2> DEFINE i == Min(OfType(d, t))
               w == [d.wins[i] EXCEPT !.visible = TRUE]
    <2>1. d.wins \in Seq(Window) /\ Len(d.wins) \in Nat /\ DOMAIN d.wins = 1..Len(d.wins)
      BY DEF Sound, Typed
    <2>2. i \in DOMAIN d.wins
      BY <1>1, <2>1, EndsAreIn DEF OfType
    <2> HIDE DEF i
    <2>3. d.wins[i] \in Window
      BY <2>1, <2>2
    <2>4. w \in Window /\ w.type = d.wins[i].type /\ w.visible /\ w.at = d.wins[i].at
          /\ w.back = d.wins[i].back /\ w.maximized = d.wins[i].maximized
      BY <2>3 DEF Window
    <2>5. [d EXCEPT !.wins[i].visible = TRUE] = Put(d, i, w)
      BY DEF Put
    <2>6. Show(d, t) = Activate(Put(d, i, w), i)
      BY <1>1, <2>5 DEF Show, i
    <2> HIDE DEF w
    <2>7. /\ OnScreen(w.at) /\ OnScreen(w.back)
          /\ w.maximized => w.at = Full /\ d.drag.win # i
      BY <2>2, <2>4 DEF Sound, Placed
    <2> QED
      BY <2>2, <2>4, <2>6, <2>7, PutActivated
  <1>2. CASE OfType(d, t) = {}
    <2> DEFINE a == AddWindow(d, t)
               n == Len(a.wins)
    <2>1. /\ Sound(a) /\ a.drag = d.drag /\ a.active = d.active /\ FocusKept(d, a)
          /\ n \in Nat
          /\ a.wins[n].type = t => n = 0 \/ a.wins[n].visible
      BY <1>2, AddKeeps
    <2>2. Show(d, t) = IF a.wins[n].type = t THEN Activate(a, n) ELSE a
      BY <1>2 DEF Show
    <2> HIDE DEF a
    <2>3. CASE a.wins[n].type = t
      <3>1. n \in {NONE} \cup DOMAIN a.wins /\ (n # NONE => a.wins[n].visible)
        BY <2>1, <2>3 DEF NONE, Sound, Typed
      <3>2. /\ Sound(Activate(a, n)) /\ FocusKept(a, Activate(a, n))
            /\ Activate(a, n).drag = a.drag
        BY <2>1, <3>1, ActivateKeeps
      <3> QED
        BY <2>1, <2>2, <2>3, <3>2, FocusTransitive
    <2> QED
      BY <2>1, <2>2, <2>3
  <1> QED
    BY <1>1, <1>2

LEMMA OpenKeeps ==
    ASSUME NEW d, Sound(d), NEW t \in Types
    PROVE  Sound(OpenWindow(d, t)) /\ FocusKept(d, OpenWindow(d, t)) /\ OpenWindow(d, t).drag = d.drag
  <1>1. STORE \in Types
    BY DEF Types
  <1> QED
    BY <1>1, ShowKeeps DEF OpenWindow

-----------------------------------------------------------------------------
(* Hiding, maximizing, dragging.                                           *)

LEMMA HideKeeps ==
    ASSUME NEW d, Sound(d), NEW i \in DOMAIN d.wins
    PROVE  Sound(Hide(d, i)) /\ FocusKept(d, Hide(d, i)) /\ Hide(d, i).drag = d.drag
           /\ Hide(d, i).active = NONE
  <1> DEFINE w == [d.wins[i] EXCEPT !.visible = FALSE]
             p == Put(d, i, w)
  <1>1. d.wins[i] \in Window
    BY DEF Sound, Typed
  <1>2. w \in Window /\ w.type = d.wins[i].type /\ w.at = d.wins[i].at
        /\ w.back = d.wins[i].back /\ w.maximized = d.wins[i].maximized
    BY <1>1 DEF Window
  <1>3. Hide(d, i) = Activate(p, NONE)
    BY DEF Hide, Put, Activate
  <1> HIDE DEF w
  <1>4. Sound(p)
    BY <1>2, PutKeeps DEF Sound, Placed
  <1>5. p.drag = d.drag
    BY <1>2 DEF Put, Sound, Typed
  <1> HIDE DEF p
  <1>6. Sound(Activate(p, NONE)) /\ Activate(p, NONE).drag = p.drag
        /\ Activate(p, NONE).active = NONE
    BY <1>4, ActivateKeeps
  <1>7. FocusKept(d, Hide(d, i))
    <2>1. 0 \notin DOMAIN Hide(d, i).wins
      BY <1>3, <1>6 DEF Sound, Typed
    <2> QED
      BY <1>3, <1>6, <2>1 DEF FocusKept, NONE
  <1> QED
    BY <1>3, <1>5, <1>6, <1>7

\* No drag is under way when a title button is pressed.
LEMMA ToggleKeeps ==
    ASSUME NEW d, Sound(d), NEW i \in DOMAIN d.wins, d.drag.win = NONE, d.active = i,
           d.wins[i].visible
    PROVE  LET e == ToggleMax(d, i)
           IN  Sound(e) /\ FocusKept(d, e) /\ e.drag = d.drag /\ e.active = i
  <1> DEFINE v == d.wins[i]
             w == IF v.maximized THEN [v EXCEPT !.maximized = FALSE, !.at = v.back]
                  ELSE [v EXCEPT !.maximized = TRUE, !.at = Full, !.back = v.at]
             p == Put(d, i, w)
  <1>1. v \in Window /\ i \in Nat /\ i # NONE
    BY DEF Sound, Typed, NONE
  <1>2. OnScreen(v.at) /\ OnScreen(v.back) /\ v.visible
    BY DEF Sound, Placed
  <1>3. ToggleMax(d, i) = p
    BY DEF ToggleMax, Put
  <1> HIDE DEF v
  <1>4. w \in Window /\ w.type = v.type /\ OnScreen(w.at) /\ OnScreen(w.back)
        /\ (w.maximized => w.at = Full) /\ w.visible
    BY <1>1, <1>2, FullIsPlace DEF Window
  <1> HIDE DEF w
  <1>5. Sound(p)
    BY <1>1, <1>4, PutKeeps DEF v
  <1>6. p.drag = d.drag /\ p.active = i /\ p.wins[i] = w
    BY <1>4 DEF Put, Sound, Typed
  <1>7. FocusKept(d, p)
    BY <1>4, <1>6 DEF FocusKept
  <1> QED
    BY <1>3, <1>5, <1>6, <1>7

LEMMA StartDragKeeps ==
    ASSUME NEW d, Sound(d), NEW i \in DOMAIN d.wins, d.drag.win = NONE, d.active = i,
           NEW p \in [x : Int, y : Int]
    PROVE  LET e == StartDrag(d, i, p)
           IN  Sound(e) /\ FocusKept(d, e) /\ e.drag.win \in {NONE, e.active}
  <1>1. CASE d.wins[i].maximized
    BY <1>1 DEF StartDrag, FocusKept
  <1>2. CASE ~d.wins[i].maximized
    <2> DEFINE g == [win |-> i, ox |-> p.x - d.wins[i].at.x,
                     oy |-> p.y - (d.wins[i].at.y - TITLE_H)]
               e == [d EXCEPT !.drag = g]
    <2>1. d.wins[i] \in Window /\ i \in Nat
      BY DEF Sound, Typed
    <2>2. d.wins[i].at.x \in Int /\ d.wins[i].at.y \in Int /\ TITLE_H \in Int
      BY <2>1, BarsAssumption DEF Window, Rects
    <2>3. g \in [win : Nat, ox : Int, oy : Int] /\ g.win = i
      BY <2>1, <2>2
    <2>4. StartDrag(d, i, p) = e
      BY <1>2 DEF StartDrag
    <2> HIDE DEF g
    <2>5. Typed(e) /\ e.wins = d.wins /\ e.active = d.active /\ e.drag = g
      BY <2>3 DEF Sound, Typed
    <2> HIDE DEF e
    <2>6. Sound(e)
      BY <1>2, <2>3, <2>5 DEF Sound, Single, Placed
    <2> QED
      BY <2>3, <2>4, <2>5, <2>6 DEF FocusKept
  <1> QED
    BY <1>1, <1>2

-----------------------------------------------------------------------------
(* The buttons.                                                            *)

LEMMA TargetIs ==
    ASSUME NEW d, Sound(d), NEW p
    PROVE  /\ Target(d, p) \in {NONE} \cup DOMAIN d.wins
           /\ Target(d, p) # NONE => d.wins[Target(d, p)].visible
  <1> DEFINE hit == {i \in DOMAIN d.wins : Hit(d, i, p)}
  <1>1. Target(d, p) = IF hit = {} THEN NONE
                       ELSE IF d.active \in hit THEN d.active ELSE Max(hit)
    BY DEF Target
  <1>2. Len(d.wins) \in Nat /\ hit \in SUBSET (1..Len(d.wins))
    BY DEF Sound, Typed
  <1>3. \A i \in hit : i \in DOMAIN d.wins /\ d.wins[i].visible
    BY DEF Hit
  <1> HIDE DEF hit
  <1>4. hit # {} => Max(hit) \in hit
    BY <1>2, EndsAreIn
  <1> QED
    BY <1>1, <1>3, <1>4

LEMMA WindowClickKeeps ==
    ASSUME NEW d, Sound(d), d.drag.win = NONE, NEW p \in [x : Int, y : Int]
    PROVE  LET e == WindowClick(d, p)
           IN  Sound(e) /\ FocusKept(d, e) /\ e.drag.win \in {NONE, e.active}
  <1> DEFINE i == Target(d, p)
             b == TitleButton(d.wins[i].at, p)
             a == Activate(d, i)
             e == WindowClick(d, p)
  <1>1. i \in {NONE} \cup DOMAIN d.wins /\ (i # NONE => d.wins[i].visible)
    BY TargetIs
  <1>2. Sound(a) /\ FocusKept(d, a) /\ a.drag = d.drag /\ a.wins = d.wins /\ a.active = i
    BY <1>1, ActivateKeeps
  <1>3. CASE i = NONE
    <2>1. e = a
      BY <1>3 DEF WindowClick, Activate
    <2> QED
      BY <1>2, <2>1
  <1>4. CASE i # NONE /\ ~OnTitle(d.wins[i].at, p)
    <2>1. e = a
      BY <1>4 DEF WindowClick
    <2> QED
      BY <1>2, <2>1
  <1>5. CASE i # NONE /\ OnTitle(d.wins[i].at, p)
    <2>1. e = CASE b \in {"close", "minimize"} -> Hide(a, i)
                [] b = "maximize" -> ToggleMax(a, i)
                [] OTHER -> StartDrag(a, i, p)
      BY <1>5 DEF WindowClick
    <2>2. i \in DOMAIN a.wins /\ a.wins[i].visible /\ a.drag.win = NONE
      BY <1>1, <1>2, <1>5
    <2> HIDE DEF a, i, b, e
    <2>3. CASE b \in {"close", "minimize"}
      <3>1. /\ Sound(Hide(a, i)) /\ FocusKept(a, Hide(a, i)) /\ Hide(a, i).drag = a.drag
        BY <1>2, <2>2, HideKeeps
      <3> QED
        BY <1>2, <2>1, <2>2, <2>3, <3>1, FocusTransitive DEF e
    <2>4. CASE b = "maximize"
      <3>1. /\ Sound(ToggleMax(a, i)) /\ FocusKept(a, ToggleMax(a, i))
            /\ ToggleMax(a, i).drag = a.drag
        BY <1>2, <2>2, ToggleKeeps
      <3>2. e = ToggleMax(a, i)
        BY <2>1, <2>4
      <3> QED
        BY <1>2, <2>2, <3>1, <3>2, FocusTransitive DEF e
    <2>5. CASE b \notin {"close", "minimize", "maximize"}
      <3> DEFINE f == StartDrag(a, i, p)
      <3>1. Sound(f) /\ FocusKept(a, f) /\ f.drag.win \in {NONE, f.active}
        BY <1>2, <2>2, StartDragKeeps
      <3>2. e = f
        BY <2>1, <2>5
      <3> QED
        BY <1>2, <3>1, <3>2, FocusTransitive DEF e
    <2> QED
      BY <2>3, <2>4, <2>5
  <1> QED
    BY <1>3, <1>4, <1>5

LEMMA DesktopClickKeeps ==
    ASSUME NEW d, Sound(d), NEW p, NEW quick \in BOOLEAN
    PROVE  LET e == DesktopClick(d, p, quick)
           IN  Sound(e) /\ FocusKept(d, e) /\ e.drag = d.drag
  <1>1. CASE IconAt(p) = {}
    BY <1>1 DEF DesktopClick, FocusKept
  <1>2. CASE IconAt(p) # {}
    <2> DEFINE t == CHOOSE t \in IconAt(p) : TRUE
               c == [d EXCEPT !.dbl = NoIcon]
               f == [d EXCEPT !.dbl = t]
    <2>1. t \in Icons /\ t \in Types
      BY <1>2 DEF IconAt, Types
    <2>2. DesktopClick(d, p, quick) = IF d.dbl = t /\ quick THEN OpenWindow(c, t) ELSE f
      BY <1>2 DEF DesktopClick
    <2> HIDE DEF t
    <2>3. /\ Sound(c) /\ FocusKept(d, c) /\ c.drag = d.drag
          /\ Sound(f) /\ FocusKept(d, f) /\ f.drag = d.drag
      BY <2>1, MarksKeep
    <2> HIDE DEF c, f
    <2>4. Sound(OpenWindow(c, t)) /\ FocusKept(c, OpenWindow(c, t)) /\ OpenWindow(c, t).drag = c.drag
      BY <2>1, <2>3, OpenKeeps
    <2>5. FocusKept(d, OpenWindow(c, t))
      BY <2>3, <2>4, FocusTransitive
    <2> QED
      BY <2>2, <2>3, <2>4, <2>5
  <1> QED
    BY <1>1, <1>2

LEMMA LeftPressKeeps ==
    ASSUME NEW d, Sound(d), d.drag.win = NONE, NEW p \in [x : Int, y : Int],
           NEW quick \in BOOLEAN, NEW item
    PROVE  LET e == LeftPress(d, p, quick, item)
           IN  Sound(e) /\ FocusKept(d, e) /\ e.drag.win \in {NONE, e.active}
  <1> DEFINE e == LeftPress(d, p, quick, item)
  <1>1. FocusKept(d, d)
    BY DEF FocusKept
  <1>2. ASSUME NEW t \in Types
        PROVE  Sound(OpenWindow(d, t)) /\ FocusKept(d, OpenWindow(d, t)) /\ OpenWindow(d, t).drag = d.drag
    BY OpenKeeps
  <1>3. CASE d.menu
    <2> DEFINE o == IF item \in Menu THEN OpenWindow(d, item) ELSE d
               m == [o EXCEPT !.menu = FALSE]
    <2>1. e = m
      BY <1>3 DEF LeftPress, MenuClick
    <2>2. Sound(o) /\ FocusKept(d, o) /\ o.drag = d.drag
      BY <1>1, <1>2 DEF Types
    <2> HIDE DEF o
    <2>3. NoIcon \in Icons \cup {NoIcon} /\ FALSE \in BOOLEAN
      OBVIOUS
    <2>4. Sound(m) /\ FocusKept(o, m) /\ m.drag = o.drag
      BY <2>2, <2>3, MarksKeep
    <2> HIDE DEF m
    <2> QED
      BY <2>1, <2>2, <2>4, FocusTransitive
  <1>4. CASE ~d.menu /\ p.y < STATUS_BAR_H
    <2>1. ~(p.y >= HEIGHT - TASKBAR_H)
      BY <1>4, BarsAssumption, PlacesAssumption
    <2>2. Click(d, p, quick, item) = IF p.x < STATUS_ICON_W THEN OpenWindow(d, Gear) ELSE d
      BY <1>4, <2>1 DEF Click
    <2>3. e = IF p.x < STATUS_ICON_W THEN OpenWindow(d, Gear) ELSE d
      BY <1>4, <2>2 DEF LeftPress
    <2> QED
      BY <1>1, <1>2, <2>3 DEF Types
  <1>5. CASE ~d.menu /\ ~(p.y < STATUS_BAR_H) /\ p.y >= HEIGHT - TASKBAR_H
    <2>1. e = IF item \in Dock THEN OpenWindow(d, item) ELSE d
      BY <1>5 DEF LeftPress, Click
    <2> QED
      BY <1>1, <1>2, <2>1 DEF Types
  <1>6. CASE ~d.menu /\ ~(p.y < STATUS_BAR_H) /\ ~(p.y >= HEIGHT - TASKBAR_H)
    <2> DEFINE c == IF Covered(d, p) THEN d ELSE DesktopClick(d, p, quick)
               f == WindowClick(c, p)
    <2>1. e = f
      BY <1>6 DEF LeftPress, Click
    <2>2. Sound(c) /\ FocusKept(d, c) /\ c.drag = d.drag
      BY <1>1, DesktopClickKeeps
    <2> HIDE DEF c
    <2>3. Sound(f) /\ FocusKept(c, f) /\ f.drag.win \in {NONE, f.active}
      BY <2>2, WindowClickKeeps
    <2> QED
      BY <2>1, <2>2, <2>3, FocusTransitive
  <1> QED
    BY <1>3, <1>4, <1>5, <1>6

LEMMA ClampKeeps ==
    ASSUME NEW r \in Rects, OnScreen(r), NEW x \in Int, NEW y \in Int
    PROVE  LET c == Clamp([r EXCEPT !.x = x, !.y = y])
           IN  c \in Rects /\ OnScreen(c)
  <1> DEFINE s == [r EXCEPT !.x = x, !.y = y]
             a == IF s.x < 0 THEN 0 ELSE s.x
             b == IF s.y < TITLE_H + TITLE_GAP THEN TITLE_H + TITLE_GAP ELSE s.y
             u == IF a + s.w > WIDTH THEN WIDTH - s.w ELSE a
             v == IF b + s.h > HEIGHT - TASKBAR_H THEN HEIGHT - TASKBAR_H - s.h ELSE b
  <1>1. Clamp(s) = [s EXCEPT !.x = u, !.y = v]
    BY DEF Clamp
  <1>2. s \in Rects /\ s.w = r.w /\ s.h = r.h /\ s.x \in Int /\ s.y \in Int
        /\ r.x \in Int /\ r.y \in Int /\ r.w \in Nat /\ r.h \in Nat
    BY DEF Rects
  <1>3. {WIDTH, HEIGHT, TASKBAR_H, TITLE_H, TITLE_GAP} \subseteq Nat
    BY BarsAssumption
  <1> HIDE DEF s
  <1>4. u \in Int /\ v \in Int /\ 0 <= u /\ u + s.w <= WIDTH
        /\ 0 <= v - TITLE_H /\ v + s.h <= HEIGHT - TASKBAR_H
    BY <1>2, <1>3 DEF OnScreen
  <1> HIDE DEF u, v
  <1>5. Clamp(s) \in Rects /\ Clamp(s).x = u /\ Clamp(s).y = v
        /\ Clamp(s).w = s.w /\ Clamp(s).h = s.h
    BY <1>1, <1>2, <1>4 DEF Rects
  <1> QED
    BY <1>4, <1>5 DEF OnScreen, s

LEMMA DragKeeps ==
    ASSUME NEW d, Sound(d), NEW p \in [x : Int, y : Int], NEW buttons
    PROVE  LET e == Drag(d, p, buttons)
           IN  /\ Sound(e) /\ FocusKept(d, e) /\ e.active = d.active
               /\ e.drag = IF "left" \in buttons THEN d.drag ELSE NoDrag
  <1> DEFINE e == Drag(d, p, buttons)
             i == d.drag.win
  <1>1. CASE "left" \notin buttons
    <2>1. e = [d EXCEPT !.drag = NoDrag]
      BY <1>1 DEF Drag
    <2>2. NoDrag \in [win : Nat, ox : Int, oy : Int] /\ NoDrag.win = NONE
      BY DEF NoDrag, NONE
    <2>3. Typed(e) /\ e.wins = d.wins /\ e.active = d.active /\ e.drag = NoDrag
      BY <2>1, <2>2 DEF Sound, Typed
    <2>4. 0 \notin DOMAIN d.wins
      BY DEF Sound, Typed
    <2> HIDE DEF e
    <2>5. Sound(e)
      BY <2>2, <2>3, <2>4 DEF Sound, Single, Placed, NONE
    <2> QED
      BY <1>1, <2>3, <2>5 DEF FocusKept, e
  <1>2. CASE "left" \in buttons /\ i # NONE /\ d.wins[i].visible
    <2> DEFINE v == d.wins[i]
               c == Clamp([v.at EXCEPT !.x = p.x - d.drag.ox, !.y = p.y - d.drag.oy])
               w == [v EXCEPT !.at = c]
    <2>1. i \in DOMAIN d.wins /\ v \in Window /\ d.drag.ox \in Int /\ d.drag.oy \in Int
      BY <1>2 DEF Sound, Typed
    <2>2. OnScreen(v.at) /\ OnScreen(v.back) /\ ~v.maximized
      BY <2>1 DEF Sound, Placed
    <2>3. e = Put(d, i, w)
      BY <1>2 DEF Drag, Put
    <2> HIDE DEF v, e
    <2>4. v.at \in Rects
      BY <2>1 DEF Window
    <2>5. c \in Rects /\ OnScreen(c)
      <3> DEFINE px == p.x - d.drag.ox
                 py == p.y - d.drag.oy
      <3>1. px \in Int /\ py \in Int
        BY <2>1
      <3> HIDE DEF px, py
      <3>2. Clamp([v.at EXCEPT !.x = px, !.y = py]) \in Rects
            /\ OnScreen(Clamp([v.at EXCEPT !.x = px, !.y = py]))
        BY <2>2, <2>4, <3>1, ClampKeeps
      <3> QED
        BY <3>2 DEF px, py
    <2> HIDE DEF c
    <2>6. w \in Window /\ w.type = v.type /\ w.at = c /\ w.back = v.back /\ ~w.maximized
          /\ w.visible = v.visible
      BY <2>1, <2>2, <2>5 DEF Window
    <2> HIDE DEF w
    <2>7. Sound(e)
      BY <2>1, <2>2, <2>3, <2>5, <2>6, PutKeeps DEF v
    <2>8. e.drag = d.drag /\ e.active = d.active /\ DOMAIN e.wins = DOMAIN d.wins
          /\ e.wins[i] = w /\ \A j \in DOMAIN d.wins \ {i} : e.wins[j] = d.wins[j]
      BY <2>1, <2>3, <2>6 DEF Put, Sound, Typed
    <2>9. FocusKept(d, e)
      BY <1>2, <2>6, <2>8 DEF FocusKept, v
    <2> QED
      BY <1>2, <2>7, <2>8, <2>9 DEF e
  <1>3. CASE "left" \in buttons /\ ~(i # NONE /\ d.wins[i].visible)
    <2>1. e = d
      BY <1>3 DEF Drag
    <2> QED
      BY <1>3, <2>1 DEF FocusKept
  <1> QED
    BY <1>1, <1>2, <1>3

-----------------------------------------------------------------------------
(* The inductive invariant.                                                *)

IInv ==
    /\ Sound(Desktop)
    /\ DragIsActive
    /\ prev_buttons \subseteq {"left", "right"}
    /\ installed \subseteq StoreApps

\* A step to desktop d.
LEMMA Becoming ==
    ASSUME NEW d, Typed(d), Becomes(d)
    PROVE  Desktop' = d
  BY DEF Typed, Becomes, Desktop

LEMMA InitSound == GuiInit => IInv
  <1> SUFFICES ASSUME GuiInit PROVE IInv
    OBVIOUS
  <1>1. Boot \in Seq(Types) /\ Focused \in DOMAIN Boot
    BY BarsAssumption, WinsAssumption
  <1> DEFINE w(i) == [NewWindow(Boot[i], BootRect[Boot[i]]) EXCEPT !.visible = FALSE]
  <1>2. ASSUME NEW i \in DOMAIN Boot
        PROVE  w(i) \in Window /\ w(i).type = Boot[i] /\ OnScreen(w(i).at)
               /\ OnScreen(w(i).back) /\ ~w(i).maximized
    <2> DEFINE v == NewWindow(Boot[i], BootRect[Boot[i]])
    <2>1. Boot[i] \in Types /\ BootRect[Boot[i]] \in Rects /\ OnScreen(BootRect[Boot[i]])
      BY <1>1, <1>2, PlacesAssumption
    <2>2. v \in Window /\ v.type = Boot[i] /\ v.at = BootRect[Boot[i]]
          /\ v.back = BootRect[Boot[i]] /\ ~v.maximized
      BY <2>1 DEF NewWindow, Window
    <2> HIDE DEF v
    <2>3. w(i) = [v EXCEPT !.visible = FALSE]
      BY DEF v
    <2> QED
      BY <2>1, <2>2, <2>3 DEF Window
  <1>3. wins = [i \in DOMAIN Boot |-> w(i)]
    BY DEF GuiInit
  <1> HIDE DEF w
  <1>4. wins \in Seq(Window) /\ DOMAIN wins = DOMAIN Boot
        /\ \A i \in DOMAIN Boot : wins[i] = w(i)
    <2>1. Len(Boot) \in Nat /\ DOMAIN Boot = 1..Len(Boot)
      BY <1>1
    <2>2. wins \in [1..Len(Boot) -> Window]
      BY <1>2, <1>3, <2>1
    <2> QED
      BY <1>3, <2>1, <2>2
  <1>5. Typed(Desktop)
    <2>1. Focused \in Nat /\ Focused \in DOMAIN wins
      BY <1>1, <1>4
    <2>2. active_win = Focused /\ dmenu_open \in BOOLEAN /\ desk_dbl \in Icons \cup {NoIcon}
      BY DEF GuiInit
    <2>3. drag \in [win : Nat, ox : Int, oy : Int] /\ drag.win = NONE
      BY DEF GuiInit, NoDrag, NONE
    <2>4. /\ Desktop \in [wins : Seq(Window), active : Nat, drag : [win : Nat, ox : Int, oy : Int],
                          menu : BOOLEAN, dbl : Icons \cup {NoIcon}]
          /\ Desktop.wins = wins /\ Desktop.active = active_win /\ Desktop.drag = drag
      BY <1>4, <2>1, <2>2, <2>3 DEF Desktop
    <2> QED
      BY <2>1, <2>2, <2>3, <2>4 DEF Typed
  <1>6. Single(Desktop)
    BY <1>2, <1>4, WinsAssumption DEF Single, Desktop
  <1>7. ASSUME NEW i \in DOMAIN Desktop.wins PROVE Placed(Desktop, i)
    BY <1>2, <1>4, <1>7 DEF Placed, Desktop
  <1> QED
    BY <1>5, <1>6, <1>7 DEF IInv, Sound, DragIsActive, GuiInit, NoDrag, NONE

LEMMA EscapeKeeps ==
    ASSUME IInv, Escape
    PROVE  IInv' /\ FocusKept(Desktop, Desktop')
  <1> DEFINE d == Desktop
             e == Hide(d, active_win)
  <1>1. Sound(d) /\ d.active = active_win /\ d.drag = drag /\ active_win \in DOMAIN d.wins
    BY DEF IInv, Escape, Sound, Typed, Desktop
  <1> HIDE DEF d
  <1>2. Sound(e) /\ FocusKept(d, e) /\ e.drag = d.drag /\ e.active = NONE
    BY <1>1, HideKeeps
  <1>3. Becomes(e) /\ UNCHANGED <<prev_buttons, installed>>
    BY DEF Escape, d
  <1> HIDE DEF e
  <1>4. Desktop' = e
    BY <1>2, <1>3, Becoming DEF Sound
  <1>5. Sound(Desktop)'
    BY <1>2, <1>4
  <1>6. DragIsActive'
    BY <1>1, <1>2, <1>3 DEF IInv, DragIsActive, Becomes
  <1> QED
    BY <1>2, <1>3, <1>4, <1>5, <1>6 DEF IInv, d

LEMMA MouseKeeps ==
    ASSUME IInv, NEW p \in [x : Int, y : Int], NEW buttons \in SUBSET {"left", "right"},
           NEW quick \in BOOLEAN, NEW item, Mouse(p, buttons, quick, item)
    PROVE  IInv' /\ FocusKept(Desktop, Desktop')
  <1> DEFINE d == Desktop
             pressed == buttons \ prev_buttons
             l == IF "left" \in pressed THEN LeftPress(d, p, quick, item) ELSE d
             r == IF "right" \in pressed THEN RightPress(l, p) ELSE l
             e == Drag(r, p, buttons)
             InHand(c) == c.drag.win # NONE => c.active \in {c.drag.win, NONE}
  <1>1. Becomes(e) /\ prev_buttons' = buttons /\ installed' = installed
    BY DEF Mouse
  <1>2. Sound(d) /\ d.drag = drag /\ d.active = active_win
    BY DEF IInv, Desktop
  <1>3. /\ "left" \in pressed => d.drag.win = NONE
        /\ d.drag.win # NONE => d.active \in {d.drag.win, NONE}
    BY <1>2 DEF IInv, DragIsActive
  <1>4. Sound(l) /\ FocusKept(d, l) /\ InHand(l)
    <2>1. CASE "left" \in pressed
      <3> DEFINE f == LeftPress(d, p, quick, item)
      <3>1. Sound(f) /\ FocusKept(d, f) /\ f.drag.win \in {NONE, f.active}
        BY <1>2, <1>3, <2>1, LeftPressKeeps
      <3> QED
        BY <2>1, <3>1
    <2>2. CASE "left" \notin pressed
      BY <1>2, <1>3, <2>2 DEF FocusKept
    <2> QED
      BY <2>1, <2>2
  <1> HIDE DEF d, l
  <1>5. Sound(r) /\ FocusKept(d, r) /\ InHand(r)
    <2> DEFINE m == STATUS_BAR_H <= p.y /\ p.y < HEIGHT - TASKBAR_H /\ ~Covered(l, p)
               f == [l EXCEPT !.menu = m]
    <2>1. m \in BOOLEAN /\ NoIcon \in Icons \cup {NoIcon}
      OBVIOUS
    <2>2. RightPress(l, p) = f
      BY DEF RightPress
    <2> HIDE DEF m
    <2>3. Sound(f) /\ FocusKept(l, f) /\ f.drag = l.drag
      BY <1>4, <2>1, MarksKeep
    <2>4. f.active = l.active
      BY <1>4 DEF Sound, Typed
    <2> HIDE DEF f
    <2> QED
      BY <1>4, <2>2, <2>3, <2>4, FocusTransitive
  <1> HIDE DEF r
  <1>6. /\ Sound(e) /\ FocusKept(r, e) /\ e.active = r.active
        /\ e.drag = IF "left" \in buttons THEN r.drag ELSE NoDrag
    BY <1>5, DragKeeps
  <1> HIDE DEF e
  <1>7. Desktop' = e
    BY <1>1, <1>6, Becoming DEF Sound
  <1>8. DragIsActive'
    BY <1>1, <1>5, <1>6 DEF DragIsActive, Becomes, NoDrag
  <1>9. FocusKept(d, e)
    BY <1>5, <1>6, FocusTransitive
  <1> QED
    BY <1>1, <1>6, <1>7, <1>8, <1>9 DEF IInv, d

\* The invariant is kept, and so is the focus, by every step.
LEMMA StepKeeps ==
    ASSUME IInv, [GuiNext]_guiVars
    PROVE  IInv' /\ FocusKept(Desktop, Desktop')
  <1>1. CASE Escape
    BY <1>1, EscapeKeeps
  <1>2. ASSUME NEW p \in Points, NEW b \in SUBSET {"left", "right"},
               NEW quick \in Clocks(p), NEW item \in Items(p), Mouse(p, b, quick, item)
        PROVE  IInv' /\ FocusKept(Desktop, Desktop')
    <2>1. p \in [x : Int, y : Int] /\ quick \in BOOLEAN
      BY PlacesAssumption DEF Clocks
    <2> QED
      BY <1>2, <2>1, MouseKeeps
  <1>3. ASSUME NEW t \in StoreApps, Install(t)
        PROVE  IInv' /\ FocusKept(Desktop, Desktop')
    <2>1. Desktop' = Desktop /\ installed' \subseteq StoreApps
      BY <1>3 DEF Install, Desktop, IInv
    <2>2. Sound(Desktop)'
      BY <2>1 DEF IInv
    <2>3. DragIsActive' /\ prev_buttons' = prev_buttons
      BY <1>3 DEF IInv, DragIsActive, Install
    <2>4. FocusKept(Desktop, Desktop')
      BY <2>1 DEF FocusKept
    <2> QED
      BY <2>1, <2>2, <2>3, <2>4 DEF IInv
  <1>4. CASE UNCHANGED guiVars
    <2>1. Desktop' = Desktop
      BY <1>4 DEF guiVars, Desktop
    <2>2. Sound(Desktop)'
      BY <2>1 DEF IInv
    <2>3. FocusKept(Desktop, Desktop')
      BY <2>1 DEF FocusKept
    <2> QED
      BY <1>4, <2>2, <2>3 DEF IInv, DragIsActive, guiVars
  <1> QED
    BY <1>1, <1>2, <1>3, <1>4 DEF GuiNext

LEMMA Invariance == GuiSpec => []IInv
  <1>1. IInv /\ [GuiNext]_guiVars => IInv'
    BY StepKeeps
  <1> QED
    BY InitSound, <1>1, PTL DEF GuiSpec

-----------------------------------------------------------------------------
(* The properties of the runs.                                             *)

\* Whatever is opened, hidden, dragged or maximized, the table holds windows of
\* known types at places with a size, and the focus and the drag are its own.
THEOREM TypeCorrect == GuiSpec => []GuiTypeOK
  <1>1. IInv => GuiTypeOK
    BY DEF IInv, Sound, Typed, Desktop, GuiTypeOK, Window
  <1> QED
    BY <1>1, Invariance, PTL

\* open_window_by_type never makes a second window of a type, so add_window
\* finds wins[] with a free entry for every type that has no window.
THEOREM OneWindowPerType == GuiSpec => []OnePerType
  <1>1. IInv => OnePerType
    <2> SUFFICES ASSUME IInv PROVE OnePerType
      OBVIOUS
    <2>1. wins \in Seq(Window) /\ \A i, j \in DOMAIN wins : wins[i].type = wins[j].type => i = j
      BY DEF IInv, Sound, Typed, Single, Desktop
    <2>2. Len(wins) \in Nat /\ DOMAIN wins = 1..Len(wins)
      BY <2>1
    <2>3. ASSUME NEW t \in Types, OfType(Desktop, t) = {}
          PROVE  Len(wins) < WIN_MAX
      <3> DEFINE T == Types \ {t}
                 f == [i \in 1..Len(wins) |-> wins[i].type]
      <3>1. f \in Injection(1..Len(wins), T)
        <4>1. ASSUME NEW i \in 1..Len(wins) PROVE wins[i].type \in T
          <5>1. wins[i] \in Window
            BY <2>1, <2>2
          <5>2. wins[i].type # t
            BY <2>2, <2>3 DEF OfType, Desktop
          <5> QED
            BY <5>1, <5>2 DEF Window
        <4>2. IsInjective(f)
          BY <2>1, <2>2 DEF IsInjective
        <4> QED
          BY <4>1, <4>2 DEF Injection
      <3>2. IsFiniteSet(T) /\ Cardinality(T) = Cardinality(Types) - 1
        BY WinsAssumption, FS_RemoveElement
      <3> HIDE DEF T, f
      <3>3. Cardinality(1..Len(wins)) <= Cardinality(T)
        BY <3>1, <3>2, FS_Injection
      <3>4. Cardinality(1..Len(wins)) = Len(wins)
        <4>1. 1 \in Int /\ Len(wins) \in Int
          BY <2>2
        <4>2. Cardinality(1..Len(wins)) = IF 1 > Len(wins) THEN 0 ELSE Len(wins) - 1 + 1
          BY <4>1, FS_Interval
        <4> QED
          BY <2>2, <4>2
      <3>5. Cardinality(Types) \in Nat
        BY WinsAssumption, FS_CardinalityType
      <3> QED
        BY <2>2, <3>2, <3>3, <3>4, <3>5, WinsAssumption
    <2> QED
      BY <2>1, <2>3 DEF OnePerType
  <1> QED
    BY <1>1, Invariance, PTL

\* win_toggle_maximize and the drag of gui_handle_input never meet: a maximized
\* window has exactly the place between the bars until it is restored.
THEOREM MaximizedStays == GuiSpec => []MaximizedFills
  <1>1. IInv => MaximizedFills
    BY DEF IInv, Sound, Placed, Desktop, MaximizedFills
  <1> QED
    BY <1>1, Invariance, PTL

\* The bounds gui_handle_input applies to a dragged window are enough for every
\* window, wherever the pointer goes, and for the place it is restored to.
THEOREM StaysInside == GuiSpec => []InsideScreen
  <1>1. IInv => InsideScreen
    BY DEF IInv, Sound, Placed, Desktop, InsideScreen
  <1> QED
    BY <1>1, Invariance, PTL

\* gui_handle_input drags only the window that took the focus with the press.
THEOREM DragsActive == GuiSpec => []DragIsActive
  <1>1. IInv => DragIsActive
    BY DEF IInv
  <1> QED
    BY <1>1, Invariance, PTL

\* No click, key or drag leaves the keys with a window it hides.
THEOREM FocusStaysVisible == GuiSpec => FocusNeverHidden
  <1> DEFINE A == \A i \in DOMAIN wins' :
                    active_win' = i /\ ~wins'[i].visible => active_win = i /\ ~wins[i].visible
  <1>1. IInv /\ [GuiNext]_guiVars => A
    BY StepKeeps DEF FocusKept, Desktop
  <1>2. IInv /\ [GuiNext]_guiVars => [A]_guiVars
    BY <1>1
  <1> HIDE DEF A
  <1>3. GuiSpec => [][A]_guiVars
    BY <1>2, Invariance, PTL DEF GuiSpec
  <1> QED
    BY <1>3 DEF FocusNeverHidden, A
=============================================================================
