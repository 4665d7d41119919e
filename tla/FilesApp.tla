------------------------------ MODULE FilesApp -----------------------------
(***************************************************************************)
(* The file window of gui.c, the Clean command of the settings, and the    *)
(* listing of fs.c both read.  The window shows rows, a copy of the        *)
(* listing of dir made when it was opened or refreshed, while shell,       *)
(* processes and other windows go on changing the table.                   *)
(*                                                                         *)
(* A name is a sequence of characters, "/" among them; none has a space or *)
(* a ".", and sizes have one digit.                                        *)
(***************************************************************************)
EXTENDS Integers, Sequences, FiniteSets, SequencesExt

CONSTANTS
    FS_MAX_FILES, FS_MAX_NAME,
    LIST_BUF,       \* the buffer of files_refresh
    CLEAN_BUF,      \* the buffer of do_clean_garbage
    TMP,            \* "tmp"
    Names           \* the names other programs use

VARIABLE st

Slots == 0 .. FS_MAX_FILES - 1
Root == <<"/">>
Unused == [name |-> <<>>, is_dir |-> FALSE]

\* listed is the directory the rows are of; fresh, nobody has changed the table since;
\* op, removed and row, what Delete or Clean has just removed and the row that was
\* selected.  These are kept for the properties.
Init ==
    st = [table |-> [s \in Slots |-> Unused], dir |-> Root, rows |-> <<>>, sel |-> 0,
          listed |-> Root, fresh |-> TRUE, op |-> "none", removed |-> {},
          row |-> Unused]

Cut(s, n) == SubSeq(s, 1, IF Len(s) < n THEN Len(s) ELSE n)

\* A slash is dropped at the beginning and at the end; two in a row do not occur here.
fs_normalize(raw) ==
    SubSeq(raw, IF raw # <<>> /\ Head(raw) = "/" THEN 2 ELSE 1,
                IF raw # <<>> /\ Last(raw) = "/" THEN Len(raw) - 1 ELSE Len(raw))

Slashes(name) == {i \in 1 .. Len(name) : name[i] = "/"}
LastSlash(name) == CHOOSE i \in Slashes(name) : \A j \in Slashes(name) : j <= i
fs_parent(name) == IF Slashes(name) = {} THEN <<>> ELSE SubSeq(name, 1, LastSlash(name) - 1)

Used(t) == {s \in Slots : t[s] # Unused}
Found(t, raw) == {s \in Used(t) : t[s].name = fs_normalize(raw)}

-----------------------------------------------------------------------------
(***************************************************************************)
(* fs_list_dir: what is behind the name of the directory, and a slash if   *)
(* there is one, in every name that begins with it.  A line that does not  *)
(* fit in the buffer is left out, a later shorter one is not.              *)
(***************************************************************************)
Rest(name, d) ==
    IF d = <<>> THEN name
    ELSE IF ~IsPrefix(d, name) THEN <<>>
    ELSE LET behind == SubSeq(name, Len(d) + 1, Len(name))
         IN  IF behind # <<>> /\ Head(behind) = "/" THEN Tail(behind) ELSE behind

LineLen(e) == Len(e.name) + (IF e.is_dir THEN 2 ELSE 3)

fs_list_dir(t, dir, max) ==
    LET d == fs_normalize(dir)
        child(s) == Rest(t[s].name, d) # <<>> /\ Slashes(Rest(t[s].name, d)) = {}
        first(s) == \A r \in Used(t) : r < s /\ child(r) => Rest(t[r].name, d) # Rest(t[s].name, d)
        lines == SetToSortSeq({s \in Used(t) : child(s) /\ first(s)}, <)
        Add(out, s) ==
            LET e == [name |-> Rest(t[s].name, d), is_dir |-> t[s].is_dir]
            IN  IF out.used + LineLen(e) < max
                THEN [rows |-> Append(out.rows, e), used |-> out.used + LineLen(e)]
                ELSE out
    IN  FoldLeft(Add, [rows |-> <<>>, used |-> 0], lines).rows

-----------------------------------------------------------------------------
(***************************************************************************)
(* The window.                                                             *)
(***************************************************************************)
files_refresh(w) ==
    LET rows == fs_list_dir(w.table, w.dir, LIST_BUF)
    IN  [w EXCEPT !.rows = rows, !.sel = IF @ >= Len(rows) THEN 0 ELSE @,
                  !.listed = w.dir, !.fresh = TRUE]

files_join_path(dir, name) ==
    Cut((IF dir = Root THEN Root ELSE Append(dir, "/")) \o name, FS_MAX_NAME - 1)

GoTo_Bug(w, dir) == [w EXCEPT !.dir = dir, !.sel = 0]
GoTo(w, dir) == files_refresh([w EXCEPT !.dir = dir, !.sel = 0])

\* A file is printed on the terminal or started, which changes nothing here.
files_open(w, idx) ==
    IF w.rows[idx + 1].is_dir THEN GoTo(w, files_join_path(w.dir, w.rows[idx + 1].name)) ELSE w

files_updir(w) ==
    IF w.dir = Root THEN w
    ELSE GoTo(w, LET last == LastSlash(w.dir) IN IF last = 1 THEN Root ELSE SubSeq(w.dir, 1, last - 1))

Selected == st.sel < Len(st.rows)
Did(w) == st' = [w EXCEPT !.op = "none", !.removed = {}, !.row = Unused]

Open == Selected /\ Did(files_open(st, st.sel))
Refresh == Did(files_refresh(st))
Updir == Did(files_updir(st))

\* A click selects; on the selected row it opens, if less than 35 ticks before there
\* was one near by: in this window or another, dbl_x and dbl_tick are of all of them.
Click(idx, soon) ==
    /\ idx < Len(st.rows)
    /\ IF idx = st.sel /\ soon THEN Did(files_open(st, idx))
       ELSE Did([st EXCEPT !.sel = idx])

\* fs_delete takes files; fs_rmdir directories, also those that are not empty when
\* the path begins with a slash, as it does here.
Gone(t, raw, is_dir) == {s \in Found(t, raw) : t[s].is_dir = is_dir}
Without(t, slots) == [s \in Slots |-> IF s \in slots THEN Unused ELSE t[s]]

Del ==
    LET e == st.rows[st.sel + 1]
        gone == Gone(st.table, files_join_path(st.dir, e.name), e.is_dir)
    IN  /\ Selected
        /\ st' = [files_refresh([st EXCEPT !.table = Without(@, gone)]) EXCEPT
                    !.op = "del", !.removed = {st.table[s] : s \in gone}, !.row = e]

\* do_clean_garbage: the table changes under the window.
Clean ==
    LET rows == fs_list_dir(st.table, Root \o TMP, CLEAN_BUF)
        gone == UNION {Gone(st.table, Root \o TMP \o Root \o rows[i].name, FALSE) : i \in 1 .. Len(rows)}
    IN  st' = [st EXCEPT !.table = Without(@, gone), !.fresh = @ /\ gone = {},
                         !.op = "clean", !.removed = {st.table[s] : s \in gone}, !.row = Unused]

\* Other programs make and delete files and directories.
Others ==
    \/ \E name \in Names, is_dir \in BOOLEAN, s \in Slots :
           /\ Found(st.table, name) = {}
           /\ fs_parent(name) = <<>> \/ Found(st.table, fs_parent(name)) # {}
           /\ s \notin Used(st.table) /\ \A r \in Slots : r < s => r \in Used(st.table)
           /\ Did([st EXCEPT !.table[s] = [name |-> name, is_dir |-> is_dir], !.fresh = FALSE])
    \/ \E s \in Used(st.table) : Did([st EXCEPT !.table[s] = Unused, !.fresh = FALSE])

Next ==
    \/ Open \/ Refresh \/ Updir \/ Del \/ Clean \/ Others
    \/ \E idx \in Slots, soon \in BOOLEAN : Click(idx, soon)

-----------------------------------------------------------------------------
Fits(name) == Len(name) < FS_MAX_NAME - 1
Entries == {st.table[s] : s \in Used(st.table)}
Children(d) == {e \in Entries : fs_parent(e.name) = d}
\* The lines of the listing, those of names beside the directory too, fit.
Room(d, buf) ==
    LET lines == {e \in Entries : Rest(e.name, d) # <<>> /\ Slashes(Rest(e.name, d)) = {}}
    IN  MapThenSumSet(LAMBDA e : LineLen([e EXCEPT !.name = Rest(@, d)]), lines) < buf
Below(dir, name) == IF dir = Root THEN name ELSE fs_normalize(dir) \o Root \o name

\* Delete removes nothing but the entry of the path bar's directory that the selected
\* row names, whatever happened to the table since it was listed; a name as long as a
\* name can be loses its last character on the way and is another one's.
DelTakesShown ==
    /\ st.listed = st.dir
    /\ st.op = "del" /\ Fits(Below(st.dir, st.row.name)) =>
           \A e \in st.removed : e.name = Below(st.dir, st.row.name) /\ e.is_dir = st.row.is_dir

\* A fresh listing shows the entries of the directory, each once, if all of them fit;
\* and no others, if no name beside the directory begins with the directory's.
ListingIsDir ==
    LET d == fs_normalize(st.dir)
        shown == {[e EXCEPT !.name = Below(st.dir, @)] : e \in {st.rows[i] : i \in 1 .. Len(st.rows)}}
        alone == \A e \in Entries : d # <<>> /\ IsPrefix(d, e.name) =>
                    e.name = d \/ e.name[Len(d) + 1] = "/"
    IN  st.fresh /\ alone /\ Fits(st.dir) =>
            /\ shown \subseteq Children(d) /\ Cardinality(shown) = Len(st.rows)
            /\ Room(d, LIST_BUF) => shown = Children(d)

\* Clean removes plain files directly in tmp and nothing else, and leaves none if the
\* listing of tmp fits in its buffer.
CleanTakesTmp ==
    LET garbage == {e \in Children(TMP) : ~e.is_dir}
    IN  st.op = "clean" =>
            /\ \A e \in st.removed : ~e.is_dir /\ fs_parent(e.name) = TMP
            /\ Room(TMP, CLEAN_BUF) /\ st.removed = {} => garbage = {}
=============================================================================
