------------------------------- MODULE Repaint -----------------------------
(***************************************************************************)
(* What a frame of gui.c paints again: gui_render with render_desktop, and *)
(* the flags that the input handlers leave for it.  The screen is one      *)
(* column of cells; of one of them, any, the layer painted on it last is   *)
(* kept.  Windows has the whole of the input; here is what it marks and    *)
(* restores.  The shadow around a window and the clock are left out.       *)
(***************************************************************************)
EXTENDS Integers, Sequences, SequencesExt, FiniteSets, FiniteSetsExt

CONSTANTS
    HEIGHT, BAR, DOCK,  \* cells of the screen, of the status bar, of the taskbar
    TOP,                \* TITLE_H + 2: where a window may reach into the status bar
    Icons,              \* the cells of the desktop icons
    Frames,             \* the windows: y and h, title included, at the start
    Animated,           \* those that a frame always repaints
    MENU,               \* cells of the desktop menu
    WALLS,              \* WALL_COUNT
    At,                 \* the cells looked at
    Blank               \* the column crosses the blank part of the status bar

\* What the constants must satisfy.
RepaintAssumption ==
    /\ HEIGHT \in Nat /\ BAR \in Nat /\ DOCK \in Nat /\ TOP \in 0..BAR /\ WALLS \in Nat \ {0}
    /\ \A i \in DOMAIN Frames : Frames[i].y >= TOP /\ Frames[i].y + Frames[i].h <= HEIGHT - DOCK

VARIABLE st     \* phase of the loop; at, the cell, and shown on it; wins (y, py, h, visible, dirty);
                \* active_win; cur, prev (cursor_y,
                \* prev_cursor_y); icons, status, dock, full (the _dirty flags and
                \* desk_need_full); menu (its cells); wall (g_current), cache (the wall in
                \* g_desk_cache); as history, repainted: this frame painted it all,
                \* and clean: nothing happened since that a frame may leave wrong

NONE == 0
NoWall == -1
Wall(k) == <<"wall", k>>
Rows(y, h) == {c \in 0..HEIGHT - 1 : y <= c /\ c < y + h}
BarRows == Rows(0, BAR)
DockRows == Rows(HEIGHT - DOCK, DOCK)
Cells(w) == Rows(w.y, w.h)
Seen(s) == {i \in DOMAIN s.wins : s.wins[i].visible}

Init ==
    \E at \in At : st =
         [phase |-> "key", at |-> at, shown |-> Wall(NoWall),
          wins |-> [i \in DOMAIN Frames |->
                      [y |-> Frames[i].y, py |-> Frames[i].y, h |-> Frames[i].h, visible |-> FALSE,
                       dirty |-> TRUE]],
          active |-> 1, cur |-> HEIGHT \div 2, prev |-> NoWall, icons |-> Icons, status |-> TRUE,
          dock |-> TRUE, full |-> TRUE, menu |-> {}, wall |-> 0, cache |-> NoWall,
          repainted |-> FALSE, clean |-> FALSE]

-----------------------------------------------------------------------------
(* Layers.                                                                 *)

Paint(s, rows, layer) ==
    IF s.at \in rows THEN [s EXCEPT !.shown = layer] ELSE s
desk_blit_rect(s, rows) == IF s.cache = NoWall THEN s ELSE Paint(s, rows, Wall(s.cache))

DirtyWhere(s, P(_)) ==
    [s EXCEPT !.wins = [i \in DOMAIN @ |-> IF P(i) THEN [@[i] EXCEPT !.dirty = TRUE] ELSE @[i]]]

\* The cache is built once.
desk_cache_build(s) == IF s.cache = NoWall THEN [s EXCEPT !.cache = s.wall] ELSE s

FullRepaint(s) ==
    IF ~s.full THEN s
    ELSE DirtyWhere([desk_blit_rect(s, 0..HEIGHT - 1) EXCEPT
                        !.full = FALSE, !.icons = Icons, !.status = TRUE, !.dock = TRUE],
                    LAMBDA i : TRUE)

\* The path of the cursor gets the wallpaper back; what it crosses is marked.  In the
\* blank part of the status bar the bar is restored at once, under the wallpaper.
CursorPath_Bug(s) ==
    LET box == Min({s.prev, s.cur})..Max({s.prev, s.cur})
    IN  IF s.prev = NoWall \/ s.prev = s.cur THEN s
        ELSE DirtyWhere([desk_blit_rect(s, box) EXCEPT !.icons = @ \cup ({s.prev} \cap Icons)],
                        LAMBDA i : s.wins[i].visible /\ s.prev \in Cells(s.wins[i]))
CursorPath(s) ==
    LET box == Min({s.prev, s.cur})..Max({s.prev, s.cur})
        marked == DirtyWhere([s EXCEPT !.icons = @ \cup (box \cap Icons),
                                       !.status = @ \/ (box \cap BarRows # {} /\ ~Blank),
                                       !.dock = @ \/ box \cap DockRows # {}],
                             LAMBDA i : s.wins[i].visible /\ box \cap Cells(s.wins[i]) # {})
    IN  IF s.prev = NoWall \/ s.prev = s.cur THEN s ELSE desk_blit_rect(marked, box)

\* The place a window was dragged from, with its size of now.
MovedWindows(s) ==
    LET moved == {i \in Seen(s) : s.wins[i].py # s.wins[i].y}
        back == desk_blit_rect(s, UNION {Rows(s.wins[i].py, s.wins[i].h) : i \in moved})
    IN  DirtyWhere([back EXCEPT !.wins = [i \in DOMAIN @ |->
                                   IF i \in moved THEN [@[i] EXCEPT !.py = s.wins[i].y] ELSE @[i]]],
                   LAMBDA i : i \in moved)

render_desktop_icons(s) == [Paint(s, s.icons, <<"icon">>) EXCEPT !.icons = {}]

render_desktop(s) ==
    render_desktop_icons([MovedWindows(CursorPath(FullRepaint(desk_cache_build(s))))
                            EXCEPT !.prev = s.cur])

render_window(s, i) == [Paint(s, Cells(s.wins[i]), <<"win", i>>) EXCEPT !.wins[i].dirty = FALSE]

\* The dirty windows in the order of the table, the active one last.
render_windows(s) ==
    LET due == {i \in Seen(s) : s.wins[i].dirty}
        order == SetToSortSeq(due \ {s.active}, <) \o (IF s.active \in due THEN <<s.active>> ELSE <<>>)
    IN  FoldLeft(render_window, s, order)

Bars(s) ==
    LET d == IF s.dock THEN [Paint(s, DockRows, <<"dock">>) EXCEPT !.dock = FALSE] ELSE s
    IN  IF d.status THEN [Paint(d, BarRows, <<"bar">>) EXCEPT !.status = FALSE] ELSE d

Overlap(s) ==
    LET seen == Seen(s)
    IN  \/ \E i, j \in seen : i # j /\ Cells(s.wins[i]) \cap Cells(s.wins[j]) # {}
        \/ \E i \in seen : Cells(s.wins[i]) \cap (BarRows \cup Icons) # {}

gui_render(s) ==
    LET d == DirtyWhere(render_desktop(s), LAMBDA i : i \in Animated /\ s.wins[i].visible)
        top == Paint(Paint(Bars(render_windows(d)), s.menu, <<"menu">>), {s.cur}, <<"cursor">>)
    IN  [top EXCEPT !.phase = "key", !.repainted = s.full,
                    !.clean = (s.clean \/ s.full) /\ ~Overlap(s)]

-----------------------------------------------------------------------------
(* Input: a key, then the mouse.                                           *)

gui_activate(s, i) ==
    [DirtyWhere(s, LAMBDA j : j \in {i, s.active}) EXCEPT !.active = i]

open_window_by_type(s, i) ==
    LET bare == IF s.wins[i].dirty THEN s ELSE desk_blit_rect(s, Cells(s.wins[i]))
    IN  gui_activate([bare EXCEPT !.wins[i].visible = TRUE], i)

Hide(s, i) == [desk_blit_rect(s, Cells(s.wins[i])) EXCEPT
                 !.wins[i].visible = FALSE, !.active = NONE, !.dock = TRUE]

\* ESC, also on an active window that is hidden: then it clears its place.
Escape(s) ==
    IF s.active = NONE THEN s
    ELSE [Hide(s, s.active) EXCEPT !.clean = @ /\ s.wins[s.active].visible]

\* A key that the active window takes.
TypedText(s) == DirtyWhere(s, LAMBDA i : i = s.active)

Key == /\ st.phase = "key"
       /\ \E s \in {st, Escape(st), TypedText(st)} : st' = [s EXCEPT !.phase = "mouse"]

Hits(s) == {i \in Seen(s) : s.cur \in Cells(s.wins[i])}

\* A press on a window: on its content, on the button that closes it, or on the one
\* of Settings that takes the next wallpaper.
PressOn(s, i) ==
    LET on == IF i = s.active THEN s ELSE gui_activate(s, i)
        hide == [Hide(on, i) EXCEPT !.icons = IF i = s.active THEN Icons ELSE @]
    IN  {on, hide, [on EXCEPT !.wall = (@ + 1) % WALLS]}

WindowPress(s) ==
    IF Hits(s) = {} THEN {[s EXCEPT !.active = NONE]}
    ELSE PressOn(s, IF s.active \in Hits(s) THEN s.active ELSE Max(Hits(s)))

\* An icon, the taskbar, the gear or the menu may open any window.
Opened(s) == {open_window_by_type(s, i) : i \in DOMAIN s.wins}

\* dmenu_action: refresh, the next wallpaper, a window, or nothing.
MenuPress(s) ==
    {[t EXCEPT !.menu = {}, !.full = TRUE] :
        t \in {s, [s EXCEPT !.wall = (@ + 1) % WALLS]} \cup Opened(s)}

\* The right button opens the menu on the bare desktop; elsewhere an open one is
\* forgotten.
RightPress(s) ==
    IF Hits(s) = {} /\ s.cur \notin BarRows \cup DockRows
    THEN [s EXCEPT !.menu = Rows(Min({s.cur, HEIGHT - DOCK - MENU}), MENU), !.full = TRUE]
    ELSE [s EXCEPT !.menu = {}, !.clean = @ /\ s.menu = {}]

\* A drag of the active window that follows the cursor.
Drag(s, y) ==
    LET w == s.wins[s.active]
    IN  [s EXCEPT !.wins[s.active].py = w.y, !.wins[s.active].dirty = TRUE,
                  !.wins[s.active].y = Max({TOP, Min({y, HEIGHT - DOCK - w.h})})]

Pressed(s) == IF s.menu # {} THEN MenuPress(s) ELSE WindowPress(s) \cup Opened(s)

\* The mouse, and the frame.
Mouse ==
    /\ st.phase = "mouse"
    /\ \E c \in 0..HEIGHT - 1 :
          LET s == [st EXCEPT !.cur = c, !.dock = @ \/ (c \in DockRows /\ c # st.cur)]
              drags == IF s.active \in Seen(s)
                       THEN {Drag(s, s.wins[s.active].y + c - st.cur)} ELSE {}
          IN  \E t \in {s, RightPress(s)} \cup Pressed(s) \cup drags : st' = gui_render(t)

Next == Key \/ Mouse

Spec == Init /\ [][Next]_st

-----------------------------------------------------------------------------
\* The layer that ought to be seen on a cell.
Layer(c) ==
    LET over == {i \in Seen(st) : c \in Cells(st.wins[i])}
    IN  CASE c = st.cur -> <<"cursor">>
          [] c # st.cur /\ c \in st.menu -> <<"menu">>
          [] c \notin st.menu \cup {st.cur} /\ c \in BarRows -> <<"bar">>
          [] c \notin st.menu \cup {st.cur} /\ c \in DockRows -> <<"dock">>
          [] OTHER -> IF over # {} THEN <<"win", IF st.active \in over THEN st.active ELSE Max(over)>>
                      ELSE IF c \in Icons THEN <<"icon">> ELSE Wall(st.cache)

Framed == st.phase = "key" /\ st.prev # NoWall

\* No frame leaves a cursor where the cursor was before, however far it moved and
\* whatever was pressed; and what a frame shows is every layer in its place when it
\* paints everything, or as long as no window has overlapped another, an icon or the
\* status bar, and nothing else happened that the frame is known to leave wrong (clean;
\* see the README).  Of windows that overlap it says nothing between two full paints:
\* ActiveOnTop is what the code intends there.
FrameShows ==
    Framed =>
        /\ st.shown = <<"cursor">> => st.at = st.cur
        /\ st.clean \/ (st.repainted /\ \A i \in Seen(st) : Cells(st.wins[i]) \cap BarRows = {}) =>
             ((Blank => st.at \notin BarRows) => st.shown = Layer(st.at))

\* The comment above the painting of the windows says that the active one is painted
\* last, on top: where it is and nothing else covers it, a frame leaves no part of
\* another window.  The code paints it last only if it is dirty itself.
ActiveOnTop ==
    Framed /\ st.active \in Seen(st)
      /\ st.at \in Cells(st.wins[st.active]) \ (st.menu \cup BarRows \cup DockRows \cup {st.cur}) =>
        \A i \in DOMAIN st.wins : st.shown = <<"win", i>> => i = st.active
=============================================================================
