------------------------------ MODULE Windows ------------------------------
(***************************************************************************)
(* The window table of the GUI (gui.c): which windows exist, where they    *)
(* are, which one has the focus, and what a frame's mouse and keyboard     *)
(* input does to them.                                                     *)
(*                                                                         *)
(* gui_run is one thread: a frame is gui_handle_input, then gui_render.    *)
(* gui_handle_input first takes one key, of which only ESC touches the     *)
(* windows (action Escape), then the mouse (action Mouse): the left        *)
(* button's press, the right button's press, the drag, in this order.      *)
(* Each of these is an operator from a desktop state to the next one, and  *)
(* Mouse is their composition.                                             *)
(*                                                                         *)
(* The screen is a small grid of cells: a title bar, the taskbar and the   *)
(* status bar are some cells high, a title button is one cell wide.  Left  *)
(* out: what the windows show and what a click inside one does to its      *)
(* application, the repaint flags, the page of the taskbar (which icon is  *)
(* under the pointer is a choice), the place of the desktop menu, and the  *)
(* serial test commands.                                                   *)
(***************************************************************************)
EXTENDS Integers, Sequences, FiniteSets, FiniteSetsExt

CONSTANTS
    WIDTH, HEIGHT,      \* gfx_width(), gfx_height()
    STATUS_BAR_H, TASKBAR_H, TITLE_H, TITLE_GAP, \* TITLE_GAP: the 2 of TITLE_H + 2
    STATUS_ICON_W,      \* width of the settings icon in the status bar
    WIN_MAX,            \* entries of wins[]
    Boot,               \* the types of the windows gui_run creates, in order
    Focused,            \* the index of the one it makes active, w_files
    BootRect, OpenRect, \* the place of a type's window: at boot, when opened later
    Icons,              \* the types of the desktop icons
    IconRect,           \* and where each icon is
    Gear,               \* WIN_SETTINGS, opened from the status bar
    Dock, Menu,         \* types opened from the taskbar, from the desktop menu
    STORE,              \* WIN_STORE
    StoreApps,          \* the types that must be installed first
    Points              \* where the pointer may be in a frame

ASSUME BarsAssumption ==
    /\ {WIDTH, HEIGHT, STATUS_BAR_H, TASKBAR_H, TITLE_H, TITLE_GAP, STATUS_ICON_W} \subseteq Nat
    /\ Focused \in DOMAIN Boot /\ STORE \notin StoreApps

Types == {Boot[i] : i \in DOMAIN Boot} \cup Icons \cup {Gear, STORE} \cup Dock \cup Menu

Rects == [x : Int, y : Int, w : Nat, h : Nat]
Rect(x, y, w, h) == [x |-> x, y |-> y, w |-> w, h |-> h]

\* A window with this content is on the screen with its title, above the taskbar.
OnScreen(r) ==
    /\ 0 <= r.x /\ r.x + r.w <= WIDTH
    /\ 0 <= r.y - TITLE_H /\ r.y + r.h <= HEIGHT - TASKBAR_H

\* WIN_MAX is WIN_TOTAL, the number of types, in the code.
ASSUME WinsAssumption ==
    /\ WIN_MAX \in Nat /\ IsFiniteSet(Types) /\ Cardinality(Types) <= WIN_MAX
    /\ Boot \in Seq(Types) /\ \A i, j \in DOMAIN Boot : Boot[i] = Boot[j] => i = j
    /\ StoreApps \subseteq Types

\* The places written in gui.c are on its screen of 800 by 600.
ASSUME PlacesAssumption ==
    /\ HEIGHT >= STATUS_BAR_H + TITLE_H + TASKBAR_H
    /\ \A i \in DOMAIN Boot : BootRect[Boot[i]] \in Rects /\ OnScreen(BootRect[Boot[i]])
    /\ \A t \in Types : OpenRect[t] \in Rects /\ OnScreen(OpenRect[t])
    /\ \A p \in Points : p \in [x : Int, y : Int]

NONE == 0      \* -1 in the code: no window (here windows are counted from 1)
NoIcon == "no icon"
NoItem == "no item"

VARIABLES
    wins,          \* wins[0 .. win_count - 1]
    active_win,
    drag,          \* drag_win with drag_ox and drag_oy
    dmenu_open,
    desk_dbl,      \* the desktop icon clicked last
    prev_buttons,
    installed      \* the StoreApps whose marker file exists

\* Definitions whose name ends in _Bug are slips in the code that the runs must
\* detect; each stands before the definition it would replace and is used nowhere.

guiVars == <<wins, active_win, drag, dmenu_open, desk_dbl, prev_buttons, installed>>

\* x and y of a window are those of its content; the title bar is above it.
NewWindow(type, rect) ==
    [type |-> type, at |-> rect, back |-> rect, visible |-> TRUE, maximized |-> FALSE]

NoDrag == [win |-> NONE, ox |-> 0, oy |-> 0]

\* The state an input handler maps to the next one.
Desktop == [wins |-> wins, active |-> active_win, drag |-> drag,
            menu |-> dmenu_open, dbl |-> desk_dbl]

Becomes(d) ==
    /\ wins' = d.wins /\ active_win' = d.active /\ drag' = d.drag
    /\ dmenu_open' = d.menu /\ desk_dbl' = d.dbl

GuiInit ==
    /\ wins = [i \in DOMAIN Boot |->
                 [NewWindow(Boot[i], BootRect[Boot[i]]) EXCEPT !.visible = FALSE]]
    /\ active_win = Focused
    /\ drag = NoDrag /\ dmenu_open = FALSE /\ desk_dbl = NoIcon
    /\ prev_buttons = {} /\ installed \in SUBSET StoreApps
-----------------------------------------------------------------------------
(* Geometry.                                                               *)

In(r, p) == /\ r.x <= p.x /\ p.x < r.x + r.w
            /\ r.y <= p.y /\ p.y < r.y + r.h

\* A window with its title bar.
WithTitle(r) == Rect(r.x, r.y - TITLE_H, r.w, TITLE_H + r.h)

Hit(d, i, p) == d.wins[i].visible /\ In(WithTitle(d.wins[i].at), p)

OnTitle(r, p) == p.y < r.y

\* win_title_button_hit: close, maximize, minimize from the right.
TitleButton(r, p) ==
    CASE p.x = r.x + r.w - 1 -> "close"
      [] p.x = r.x + r.w - 2 -> "maximize"
      [] p.x = r.x + r.w - 3 -> "minimize"
      [] OTHER -> "none"

Full == Rect(0, STATUS_BAR_H + TITLE_H, WIDTH,
             HEIGHT - TASKBAR_H - STATUS_BAR_H - TITLE_H)
-----------------------------------------------------------------------------
(* Opening, hiding, maximizing.                                            *)

Activate(d, i) == [d EXCEPT !.active = i]

Hide_Bug(d, i) == [d EXCEPT !.wins[i].visible = FALSE]
Hide(d, i) == [d EXCEPT !.wins[i].visible = FALSE, !.active = NONE]

ToggleMax(d, i) ==
    LET w == d.wins[i]
    IN  [d EXCEPT !.wins[i] =
            IF w.maximized THEN [w EXCEPT !.maximized = FALSE, !.at = w.back]
                           ELSE [w EXCEPT !.maximized = TRUE, !.at = Full, !.back = w.at]]

OfType_Bug(d, type) == {i \in DOMAIN d.wins : d.wins[i].type = type /\ d.wins[i].visible}
OfType(d, type) == {i \in DOMAIN d.wins : d.wins[i].type = type}

\* add_window, which does nothing when the table is full.
AddWindow(d, type) ==
    IF Len(d.wins) < WIN_MAX
    THEN [d EXCEPT !.wins = Append(@, NewWindow(type, OpenRect[type]))]
    ELSE d

Show_Bug(d, type) ==
    IF OfType(d, type) # {} THEN Activate(d, Min(OfType(d, type)))
                            ELSE Activate(AddWindow(d, type), Len(d.wins) + 2)

\* The first window of the type, else a new one; then the last window is
\* activated if it is of this type.
Show(d, type) ==
    LET a == AddWindow(d, type)
    IN  IF OfType(d, type) # {}
        THEN LET i == Min(OfType(d, type))
             IN  Activate([d EXCEPT !.wins[i].visible = TRUE], i)
        ELSE IF a.wins[Len(a.wins)].type = type THEN Activate(a, Len(a.wins)) ELSE a

\* open_window_by_type: an application not installed opens the store instead.
OpenWindow(d, type) ==
    Show(d, IF type \in StoreApps \ installed THEN STORE ELSE type)
-----------------------------------------------------------------------------
(* The left button.                                                        *)

IconAt(p) == {t \in Icons : In(IconRect[t], p)}

\* handle_desktop_click: quick says that fewer than 30 ticks went by since the
\* last click on an icon.
DesktopClick(d, p, quick) ==
    IF IconAt(p) = {} THEN d
    ELSE LET t == CHOOSE t \in IconAt(p) : TRUE
         IN  IF d.dbl = t /\ quick THEN OpenWindow([d EXCEPT !.dbl = NoIcon], t)
             ELSE [d EXCEPT !.dbl = t]

\* The window a click goes to: the active one if it is there, else the last.
Target(d, p) ==
    LET hit == {i \in DOMAIN d.wins : Hit(d, i, p)}
    IN  IF hit = {} THEN NONE
        ELSE IF d.active \in hit THEN d.active ELSE Max(hit)

StartDrag_Bug(d, i, p) ==
    [d EXCEPT !.drag = [win |-> i, ox |-> p.x - d.wins[i].at.x,
                        oy |-> p.y - (d.wins[i].at.y - TITLE_H)]]
StartDrag(d, i, p) ==
    IF d.wins[i].maximized THEN d
    ELSE [d EXCEPT !.drag = [win |-> i, ox |-> p.x - d.wins[i].at.x,
                             oy |-> p.y - (d.wins[i].at.y - TITLE_H)]]

\* Steps 4 and following of gui_on_click.  A click on the content goes to the
\* application (gui_click_content) and leaves the window where it is.
WindowClick(d, p) ==
    LET i == Target(d, p)
        b == TitleButton(d.wins[i].at, p)
        a == Activate(d, i)
    IN  CASE i = NONE -> [d EXCEPT !.active = NONE]
          [] i # NONE /\ ~OnTitle(d.wins[i].at, p) -> a
          [] i # NONE /\ OnTitle(d.wins[i].at, p) ->
               CASE b \in {"close", "minimize"} -> Hide(a, i)
                 [] b = "maximize" -> ToggleMax(a, i)
                 [] OTHER -> StartDrag(a, i, p)

Covered(d, p) == \E i \in DOMAIN d.wins : Hit(d, i, p)

\* gui_on_click: item is the taskbar icon under the pointer, if any.  A click
\* on the desktop goes on to the windows, whatever it opened.
Click(d, p, quick, item) ==
    CASE p.y < STATUS_BAR_H -> IF p.x < STATUS_ICON_W THEN OpenWindow(d, Gear) ELSE d
      [] p.y >= HEIGHT - TASKBAR_H -> IF item \in Dock THEN OpenWindow(d, item) ELSE d
      [] OTHER -> WindowClick(IF Covered(d, p) THEN d ELSE DesktopClick(d, p, quick), p)

\* With the desktop menu open a press goes to the menu, and closes it.
MenuClick(d, item) ==
    [(IF item \in Menu THEN OpenWindow(d, item) ELSE d) EXCEPT !.menu = FALSE]

LeftPress(d, p, quick, item) ==
    IF d.menu THEN MenuClick(d, item) ELSE Click(d, p, quick, item)
-----------------------------------------------------------------------------
(* The right button and the drag.                                          *)

RightPress(d, p) ==
    [d EXCEPT !.menu = STATUS_BAR_H <= p.y /\ p.y < HEIGHT - TASKBAR_H /\ ~Covered(d, p)]

Clamp_Bug(r) ==
    LET x == IF r.x + r.w > WIDTH THEN WIDTH - r.w ELSE r.x
        y == IF r.y + r.h > HEIGHT THEN HEIGHT - r.h ELSE r.y
    IN  [r EXCEPT !.x = IF x < 0 THEN 0 ELSE x,
                  !.y = IF y < TITLE_H + TITLE_GAP THEN TITLE_H + TITLE_GAP ELSE y]

\* The bounds are applied in the order of the code: left, top, right, bottom.
Clamp(r) ==
    LET x == IF r.x < 0 THEN 0 ELSE r.x
        y == IF r.y < TITLE_H + TITLE_GAP THEN TITLE_H + TITLE_GAP ELSE r.y
    IN  [r EXCEPT !.x = IF x + r.w > WIDTH THEN WIDTH - r.w ELSE x,
                  !.y = IF y + r.h > HEIGHT - TASKBAR_H THEN HEIGHT - TASKBAR_H - r.h ELSE y]

Drag_Bug(d, p, buttons) ==
    IF "left" \in buttons /\ d.drag.win # NONE /\ d.wins[d.drag.win].visible
    THEN [d EXCEPT !.wins[d.drag.win].at =
             Clamp([@ EXCEPT !.x = p.x - d.drag.ox, !.y = p.y - d.drag.oy])]
    ELSE d
Drag(d, p, buttons) ==
    IF "left" \notin buttons THEN [d EXCEPT !.drag = NoDrag]
    ELSE IF d.drag.win # NONE /\ d.wins[d.drag.win].visible
    THEN [d EXCEPT !.wins[d.drag.win].at =
             Clamp([@ EXCEPT !.x = p.x - d.drag.ox, !.y = p.y - d.drag.oy])]
    ELSE d
-----------------------------------------------------------------------------
\* ESC hides the active window, even one that is hidden already.
Escape ==
    /\ active_win # NONE
    /\ Becomes(Hide(Desktop, active_win))
    /\ UNCHANGED <<prev_buttons, installed>>

\* The mouse part of a frame: pointer at p, these buttons down.
Mouse(p, buttons, quick, item) ==
    LET pressed == buttons \ prev_buttons
        left    == IF "left" \in pressed THEN LeftPress(Desktop, p, quick, item) ELSE Desktop
        right   == IF "right" \in pressed THEN RightPress(left, p) ELSE left
    IN  /\ Becomes(Drag(right, p, buttons))
        /\ prev_buttons' = buttons
        /\ UNCHANGED installed

\* The store, the file manager or the shell makes or deletes a marker file.
Install(type) ==
    /\ installed' = IF type \in installed THEN installed \ {type} ELSE installed \cup {type}
    /\ UNCHANGED <<wins, active_win, drag, dmenu_open, desk_dbl, prev_buttons>>

\* The choices matter only where they are read.
Clocks(p) == {quick \in BOOLEAN : quick => IconAt(p) # {}}
Items(p) == {NoItem} \cup IF dmenu_open THEN Menu
                          ELSE IF p.y >= HEIGHT - TASKBAR_H THEN Dock ELSE {}

GuiNext ==
    \/ Escape
    \/ \E p \in Points, b \in SUBSET {"left", "right"} :
          \E quick \in Clocks(p), item \in Items(p) : Mouse(p, b, quick, item)
    \/ \E t \in StoreApps : Install(t)

GuiSpec == GuiInit /\ [][GuiNext]_guiVars
-----------------------------------------------------------------------------
\* Types, and a table that never holds a window of an unknown type.
GuiTypeOK ==
    /\ wins \in Seq([type : Types, at : Rects, back : Rects,
                     visible : BOOLEAN, maximized : BOOLEAN])
    /\ active_win \in {NONE} \cup DOMAIN wins
    /\ drag \in [win : {NONE} \cup DOMAIN wins, ox : Int, oy : Int]
    /\ dmenu_open \in BOOLEAN
    /\ desk_dbl \in Icons \cup {NoIcon}
    /\ prev_buttons \subseteq {"left", "right"}
    /\ installed \subseteq StoreApps

\* A type has one window at most, however its window was hidden, dragged and
\* asked for again: so wins[], with an entry for each type, is never full and
\* an application can always be opened.
OnePerType ==
    /\ \A i, j \in DOMAIN wins : wins[i].type = wins[j].type => i = j
    /\ \A t \in Types : OfType(Desktop, t) = {} => Len(wins) < WIN_MAX

\* Only the boot leaves the focus on a hidden window: no later step hides the
\* active window and keeps it active, or makes a hidden one active, which
\* would send the keys to an application nobody sees.
FocusNeverHidden ==
    [][\A i \in DOMAIN wins' :
          active_win' = i /\ ~wins'[i].visible => active_win = i /\ ~wins[i].visible]_guiVars

\* A maximized window fills the screen between the bars whatever drags went on
\* when it was maximized, and the place it will go back to is on the screen.
MaximizedFills ==
    \A i \in DOMAIN wins :
        wins[i].maximized => wins[i].at = Full /\ drag.win # i

\* No window, and no place a window will be restored to, is ever off the screen
\* or under the taskbar, after any drag; its title bar may be under the status
\* bar.
InsideScreen ==
    \A i \in DOMAIN wins : OnScreen(wins[i].at) /\ OnScreen(wins[i].back)

\* A drag moves the window that has the focus, or one that lost it to nothing:
\* never a window behind the one the user works in, and never after the button
\* came up.
DragIsActive ==
    drag.win # NONE => active_win \in {drag.win, NONE} /\ "left" \in prev_buttons
=============================================================================
