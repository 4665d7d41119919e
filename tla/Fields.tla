------------------------------- MODULE Fields ------------------------------
(***************************************************************************)
(* The text fields of the windows of gui.c, edited key by key in           *)
(* gui_handle_input, and the list of the Todo window, which one of them    *)
(* feeds.  A text in a field is its length.  A behaviour is a field or the *)
(* list.                                                                   *)
(***************************************************************************)
EXTENDS Integers, Sequences, SequencesExt

CONSTANTS
    Names,          \* the fields of this instance
    TODO_MAX,
    VIS,            \* todo_vis_rows of the window
    Texts           \* what may be typed into the list; the empty text is not an item

VARIABLE st         \* of a field: name, len, hex (bc_mode), result (app_num of the
                    \* calculator); of the list: items (text and done), scroll, and
                    \* input, the text typed

-----------------------------------------------------------------------------
(* The fields.                                                             *)

\* The array, the longest text a key adds to, the classes of keys it takes, and
\* the length an Enter, which empties the field or leaves it, makes of it.
Field ==
    [note      |-> [size |-> 256, cap |-> 254, keys |-> {"digit", "minus", "hex", "other"}],
     unit      |-> [size |-> 256, cap |-> 9,   keys |-> {"digit"}],
     find      |-> [size |-> 32,  cap |-> 30,  keys |-> {"digit", "minus", "hex", "other"}],
     baseconv  |-> [size |-> 20,  cap |-> 18,  keys |-> {"digit"}],
     random    |-> [size |-> 8,   cap |-> 7,   keys |-> {"digit", "minus"}],
     textstats |-> [size |-> 256, cap |-> 255, keys |-> {"digit", "minus", "hex", "other"}],
     guess     |-> [size |-> 8,   cap |-> 3,   keys |-> {"digit"}],
     todo      |-> [size |-> 256, cap |-> 250, keys |-> {"digit", "minus", "hex", "other"}],
     browser   |-> [size |-> 256, cap |-> 120, keys |-> {"digit", "minus", "hex", "other"}],
     translate |-> [size |-> 256, cap |-> 30,  keys |-> {"digit", "minus", "hex", "other"}],
     calc      |-> [size |-> 256, cap |-> 254, keys |-> {"digit", "minus"}],
     ide       |-> [size |-> 256, cap |-> 250, keys |-> {"digit", "minus", "hex", "other"}]]

\* What the constants must satisfy.
FieldsAssumption == Names \subseteq DOMAIN Field

Init == st \in [name : Names, len : {0}, hex : {FALSE}, result : {FALSE}]

\* In hexadecimal mode letters go up to 16 and digits still up to 18.
Cap(class) == IF class = "hex" /\ st.name = "baseconv" THEN 16 ELSE Field[st.name].cap
Takes(class) ==
    \/ class \in Field[st.name].keys
    \/ class = "hex" /\ st.name = "baseconv" /\ st.hex

\* The minus of the unit converter only starts a text.
UnitMinus == st.name = "unit" /\ st.len = 0 /\ st' = [st EXCEPT !.len = 1]

\* A digit after a result starts a new text, an operator goes on with it.
Fresh(class) == st.name = "calc" /\ st.result /\ class = "digit"

Room_Bug(class) == st.len <= Cap(class)
Room(class) == st.len < Cap(class)

Char(class) ==
    /\ Takes(class)
    /\ IF Fresh(class) THEN st' = [st EXCEPT !.len = 1, !.result = FALSE]
       ELSE Room(class) /\ st' = [st EXCEPT !.len = @ + 1, !.result = FALSE]

Backspace == st.len > 0 /\ st' = [st EXCEPT !.len = @ - 1, !.result = FALSE]

\* A tab of the editor is two blanks; the cap leaves room for both.
Tab == st.name = "ide" /\ Room("other") /\ st' = [st EXCEPT !.len = @ + 2]
NewLine == st.name = "ide" /\ Room("other") /\ st' = [st EXCEPT !.len = @ + 1]

\* Enter: added to the list, guessed, gone to epoch://home, or evaluated to a
\* result of at most 63 characters.
Enter ==
    \/ st.name \in {"todo", "guess"} /\ st' = [st EXCEPT !.len = 0]
    \/ st.name = "browser" /\ st' = [st EXCEPT !.len = 12]
    \/ st.name = "calc" /\ \E n \in 0..63 : st' = [st EXCEPT !.len = n, !.result = TRUE]

\* ts_clear, the Clear button of Notes, C of the calculator.
Clear ==
    /\ st.name \in {"textstats", "note", "calc"}
    /\ st' = [st EXCEPT !.len = 0, !.result = FALSE]

\* Load of Notes copies the file over the text and puts no zero behind it, but at
\* the end of the array: what was longer stays.
Load ==
    /\ st.name = "note"
    /\ \E n \in 0..255 : st' = [st EXCEPT !.len = IF n > @ THEN n ELSE @]

\* The two buttons of the base converter keep the text.
Mode == st.name = "baseconv" /\ st' = [st EXCEPT !.hex = ~@]

Next ==
    \/ \E class \in {"digit", "minus", "hex", "other"} : Char(class)
    \/ UnitMinus \/ Backspace \/ Tab \/ NewLine \/ Enter \/ Clear \/ Load \/ Mode

\* Every text and its final zero fit in their array, whatever the order of keys,
\* results, tabs and changes of mode.
Fit == st.len >= 0 /\ st.len + 1 <= Field[st.name].size

-----------------------------------------------------------------------------
(* The list: static arrays and a scroll offset that its handlers and its   *)
(* painting both correct.                                                  *)

\* What the constants must satisfy.
TodoAssumption == TODO_MAX \in Nat /\ VIS \in Nat \ {0}

TodoInit == st = [items |-> <<>>, scroll |-> 0, input |-> ""]

Type(t) == st' = [st EXCEPT !.input = t]

\* todo_add empties the input even when the list is full.
Add_Bug(items, text) == Append(items, [text |-> text, done |-> FALSE])
Add(items, text) ==
    IF Len(items) >= TODO_MAX \/ text = "" THEN items
    ELSE Append(items, [text |-> text, done |-> FALSE])

AddTyped ==
    LET items == Add(st.items, st.input)
    IN  st' = [items |-> items, input |-> "",
               scroll |-> IF items = st.items THEN st.scroll ELSE Len(items)]

Least(a, b) == IF a < b THEN a ELSE b
Most == IF Len(st.items) > VIS THEN Len(st.items) - VIS ELSE 0

ClearDone ==
    LET kept == SelectSeq(st.items, LAMBDA t : ~t.done)
    IN  st' = [st EXCEPT !.items = kept, !.scroll = Least(@, Len(kept))]

ScrollUp == st.scroll > 0 /\ st' = [st EXCEPT !.scroll = @ - 1]
ScrollDown == st.scroll < Most /\ st' = [st EXCEPT !.scroll = @ + 1]

\* A click on a row of the list; rows count from the scroll offset.
Row(r) == st.scroll + r + 1
Toggle(r) ==
    /\ Row(r) \in DOMAIN st.items
    /\ st' = [st EXCEPT !.items[Row(r)].done = ~@]
Delete(r) ==
    /\ Row(r) \in DOMAIN st.items
    /\ LET rest == RemoveAt(st.items, Row(r))
       IN  st' = [st EXCEPT !.items = rest, !.scroll = Least(@, Len(rest))]

\* render_todo: after every handler, in the same frame, if the window shows.
Paint == st' = [st EXCEPT !.scroll = Least(@, Most)]

TodoNext ==
    \/ \E t \in Texts : Type(t)
    \/ AddTyped \/ ClearDone \/ ScrollUp \/ ScrollDown \/ Paint
    \/ \E r \in 0..VIS - 1 : Toggle(r) \/ Delete(r)

\* The list never outgrows its arrays and holds no empty item, and the scroll
\* offset never passes the end of the list, painted or not: a row that a click
\* hits is an item or is empty.
InList ==
    /\ Len(st.items) <= TODO_MAX
    /\ \A i \in DOMAIN st.items : st.items[i].text # ""
    /\ st.scroll \in 0..Len(st.items)
=============================================================================
