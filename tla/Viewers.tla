------------------------------- MODULE Viewers -----------------------------
(***************************************************************************)
(* Three windows of gui.c that show what others keep: the task manager     *)
(* (the task table, a click on a row ends its task), File Search (the      *)
(* names of the ramfs) and the hex viewer (a copy of a file, 16 bytes to a *)
(* row).  The table and the files change while the window stands.          *)
(***************************************************************************)
EXTENDS Integers, Sequences, FiniteSetsExt, SequencesExt

CONSTANTS
    Viewers,        \* the windows of this instance
    TASK_MAX,       \* task slots
    FILES,          \* file slots
    Names,          \* what a file may be called, a sequence of characters
    Queries,        \* what may be typed in File Search
    ROW,            \* bytes on a row of the hex viewer
    DATA_MAX,       \* sizeof(hex_data)
    Heights,        \* rows that fit in the viewer, as its window is sized
    SCROLLS         \* app_scroll is explored from -SCROLLS to SCROLLS

VARIABLE st

(* The task manager. *)

Slots == 0..TASK_MAX - 1
States == {"EMPTY", "READY", "EXITED"}      \* a running task is shown, and ended, like a ready one

task_get_count(tasks) == Quantify(Slots, LAMBDA k : tasks[k] # "EMPTY")

\* Slots are visited up to the number of tasks: a gap in the table hides its end.
Listed(tasks) ==
    SelectSeq([k \in 1..task_get_count(tasks) |-> k - 1], LAMBDA k : tasks[k] # "EMPTY")

\* st.ended: the row last clicked, the tasks drawn then, the one ended or -1, and
\* whether the table was still as painted.
NoClick == [row |-> 0, drawn |-> <<>>, killed |-> -1, fresh |-> FALSE, alive |-> FALSE]

TasksInit ==
    \E tasks \in [Slots -> States] :
        /\ tasks[0] = "READY"
        /\ st = [app |-> "taskmgr", tasks |-> tasks, drawn |-> <<>>, fresh |-> FALSE,
                 ended |-> NoClick]

render_taskmgr == st' = [st EXCEPT !.drawn = Listed(st.tasks), !.fresh = TRUE]

\* A click walks the table again; empty slots take no row.  Task 0 is the kernel's and
\* cannot be ended.
RowOf_Bug(k) == k + 1
RowOf(k) == Quantify(0..k, LAMBDA j : st.tasks[j] # "EMPTY")
Killable(k) == k > 0 /\ st.tasks[k] = "READY"
Kill(r) ==
    \E k \in 0..task_get_count(st.tasks) - 1 :
        /\ st.tasks[k] # "EMPTY"
        /\ RowOf(k) = r
        /\ st' = [st EXCEPT
             !.tasks[k] = IF Killable(k) THEN "EXITED" ELSE @,
             !.fresh = FALSE,
             !.ended = [row |-> r, drawn |-> st.drawn, killed |-> IF Killable(k) THEN k ELSE -1,
                        fresh |-> st.fresh,
                        alive |-> r \in DOMAIN st.drawn /\ Killable(st.drawn[r])]]

\* The scheduler's side: a task exits, a slot is reaped, a task is made in a free slot.
Others(k, to) ==
    /\ k # 0
    /\ <<st.tasks[k], to>> \in {<<"READY", "EXITED">>, <<"EXITED", "EMPTY">>, <<"EMPTY", "READY">>}
    /\ st' = [st EXCEPT !.tasks[k] = to, !.fresh = FALSE]

(* File Search. *)

None == <<>>        \* an unused slot
Place == 1..FILES
Used(files) == SelectSeq([i \in Place |-> i], LAMBDA i : files[i] # None)

FindInit ==
    \E q \in Queries, files \in [Place -> Names \cup {None}] :
        st = [app |-> "find", files |-> files, query |-> q, out |-> <<>>, fresh |-> FALSE]

\* Only the part of a name before the first slash is looked at.
UpTo(name) ==
    LET cut == {i \in DOMAIN name : name[i] \in {" ", "/"}}
    IN  IF cut = {} THEN name ELSE SubSeq(name, 1, Min(cut) - 1)

\* Every place of hay but its end is tried; an empty needle is in every hay.
StartsAt(hay, needle, p) ==
    p + Len(needle) - 1 <= Len(hay) /\ SubSeq(hay, p, p + Len(needle) - 1) = needle
str_contains_Bug(hay, needle) ==
    needle = <<>> \/ \E p \in 1..Len(hay) - Len(needle) : StartsAt(hay, needle, p)
str_contains(hay, needle) == needle = <<>> \/ \E p \in DOMAIN hay : StartsAt(hay, needle, p)

\* The lines of fs_list whose name matches, in the order of the table.  The buffers
\* hold the longest listing; "(no match)" is erased as soon as it is written.
find_do ==
    st' = [st EXCEPT !.out = SelectSeq(Used(st.files),
                                 LAMBDA i : str_contains(UpTo(st.files[i]), st.query)),
                     !.fresh = TRUE]

Ask(q) == q # st.query /\ st' = [st EXCEPT !.query = q, !.fresh = FALSE]

FileChange(i, name) ==
    /\ st.files[i] = None \/ name = None
    /\ name # None => \A j \in Place : st.files[j] # name
    /\ st' = [st EXCEPT !.files[i] = name, !.fresh = FALSE]

(* The hex viewer. *)

HexInit == st = [app |-> "hexview", len |-> 0, scroll |-> 0, vis |-> 0, rows |-> {},
                fresh |-> FALSE]

\* Load copies at most DATA_MAX bytes of the file; without the file, nothing.
Load(len) == st' = [st EXCEPT !.len = Min({len, DATA_MAX}), !.scroll = 0, !.fresh = FALSE]

\* app_scroll is never corrected where it is kept.
Scroll(d) ==
    /\ st.scroll + d \in -SCROLLS..SCROLLS
    /\ st' = [st EXCEPT !.scroll = @ + d, !.fresh = FALSE]

Rows == (st.len + ROW - 1) \div ROW
Start_Bug(vis) == Max({0, Min({st.scroll, Rows - 1})})
Start(vis) == Max({0, Min({st.scroll, Rows - vis})})

render_hexview(vis) ==
    st' = [st EXCEPT !.vis = vis, !.fresh = TRUE,
                     !.rows = {r \in Start(vis)..Rows - 1 : r - Start(vis) < vis}]

-----------------------------------------------------------------------------

Init ==
    \/ "taskmgr" \in Viewers /\ TasksInit
    \/ "find" \in Viewers /\ FindInit
    \/ "hexview" \in Viewers /\ HexInit

Next ==
    \/ st.app = "taskmgr" /\ \/ render_taskmgr
                             \/ \E r \in 1..TASK_MAX : Kill(r)
                             \/ \E k \in Slots, to \in States : Others(k, to)
    \/ st.app = "find" /\ \/ find_do
                          \/ \E q \in Queries : Ask(q)
                          \/ \E i \in Place, name \in Names \cup {None} : FileChange(i, name)
    \/ st.app = "hexview" /\ \/ \E len \in 0..DATA_MAX + 1 : Load(len)
                             \/ \E d \in {-3, 3} : Scroll(d)
                             \/ \E vis \in Heights : render_hexview(vis)

\* Of two lists of tasks kept apart, the painted rows and those a click walks, the same
\* row is the same task as long as the table is the painted one: the click ends the task
\* whose row it hits, no other, and never the kernel's.
EndsTheShown ==
    st.app = "taskmgr" =>
        /\ st.tasks[0] = "READY"
        /\ LET e == st.ended
           IN  e.fresh => /\ e.row \in DOMAIN e.drawn
                          /\ e.killed = IF e.alive THEN e.drawn[e.row] ELSE -1

\* A search shows files that exist and match in their first component, each once, and
\* misses no file of the root directory that matches.
Occurs(query, text) ==
    \E a, b \in 0..Len(text) : query = SubSeq(text, a + 1, b)
First(name) == {n \in 0..Len(name) : \A k \in 1..n : name[k] # "/"}
FindsAll ==
    st.app = "find" /\ st.fresh =>
        LET shown == {st.out[n] : n \in DOMAIN st.out}
            Match(i) == Occurs(st.query, SubSeq(st.files[i], 1, Max(First(st.files[i]))))
            InRoot(i) == Len(st.files[i]) \in First(st.files[i])
        IN  /\ Cardinality(shown) = Len(st.out)
            /\ \A i \in shown : st.files[i] # None /\ Match(i)
            /\ \A i \in Place : st.files[i] # None /\ InRoot(i) /\ Match(i) => i \in shown

\* However far the offset ran past either end of the file and however the window was
\* sized, what is shown is a run of rows of the file, and the page is full if the file
\* has rows enough.
PageFull ==
    st.app = "hexview" /\ st.fresh =>
        /\ \E from \in 0..Rows, to \in -1..Rows - 1 : st.rows = from..to
        /\ Cardinality(st.rows) = Max({0, Min({st.vis, Rows})})
=============================================================================
