-------------------------------- MODULE RamFs --------------------------------
(***************************************************************************)
(* The ramfs of fs.c: a table of FS_MAX_FILES entries whose names are full *)
(* paths, as functions of the table.  FileSystem drives it through the     *)
(* shell, the GUI and the system calls; FsDisk saves and mounts it.        *)
(*                                                                         *)
(* A path is the sequence of its components.  A caller's path may begin    *)
(* with "/"; fs_normalize drops it, and no stored name has it.  "." and    *)
(* repeated slashes, the length limit of a name and the listing functions  *)
(* are left out.  Data is a sequence of blocks, at most MAX_SIZE.          *)
(***************************************************************************)
EXTENDS Integers, Sequences, SequencesExt

CONSTANTS
    NFILES,       \* FS_MAX_FILES
    MAX_SIZE,     \* FS_MAX_SIZE, in blocks
    Blocks        \* what a block of data may hold

ASSUME TableAssumption == NFILES \in Nat \ {0} /\ MAX_SIZE \in Nat

Slots == 0 .. NFILES - 1
NoSlot == -1

Unused == [used |-> FALSE, name |-> <<>>, is_dir |-> FALSE, data |-> <<>>]
Empty == [i \in Slots |-> Unused]

Data == UNION {[1 .. n -> Blocks] : n \in 0 .. MAX_SIZE}
\* Size is clipped to MAX_SIZE.
Clip(d) == IF Len(d) > MAX_SIZE THEN SubSeq(d, 1, MAX_SIZE) ELSE d

Abs(path) == <<"/">> \o path
fs_normalize(raw) == IF raw # <<>> /\ Head(raw) = "/" THEN Tail(raw) ELSE raw
fs_parent(name) == Front(name)

\* The first slot in a set of slots, as the loops over the table find it.
First(S) == IF S = {} THEN NoSlot ELSE CHOOSE i \in S : \A j \in S : i <= j

fs_find(files, raw) == First({i \in Slots : files[i].used /\ files[i].name = fs_normalize(raw)})
FreeSlot_Bug(files) == First({i \in Slots : files[i].data = <<>>})
FreeSlot(files) == First({i \in Slots : ~files[i].used})
Exists(files, raw) == fs_find(files, raw) # NoSlot
IsDir(files, raw) == Exists(files, raw) /\ files[fs_find(files, raw)].is_dir
IsFile(files, raw) == Exists(files, raw) /\ ~files[fs_find(files, raw)].is_dir

\* What fs_create and fs_mkdir ask of a new name: that its parent exists, not that
\* the parent is a directory.
ParentFound(files, name) == fs_parent(name) = <<>> \/ Exists(files, fs_parent(name))
NewName_Bug(files, raw) == ParentFound(files, fs_normalize(raw))
NewName(files, raw) == ~Exists(files, raw) /\ ParentFound(files, fs_normalize(raw))
CanAdd(files, raw) == NewName(files, raw) /\ FreeSlot(files) # NoSlot

Add(files, raw, is_dir) ==
    [files EXCEPT ![FreeSlot(files)] =
        [used |-> TRUE, name |-> fs_normalize(raw), is_dir |-> is_dir, data |-> <<>>]]

\* fs_create as its callers see it: it also succeeds, changing nothing, on a name
\* that exists; fs_write and fs_append create the file they do not find.
CanWrite(files, raw) == IsFile(files, raw) \/ CanAdd(files, raw)
Created(files, raw) == IF Exists(files, raw) THEN files ELSE Add(files, raw, FALSE)
SetData_Bug(files, raw, d) == [files EXCEPT ![fs_find(files, raw)].data = d]
SetData(files, raw, d) == [files EXCEPT ![fs_find(files, raw)].data = Clip(d)]
fs_write(files, raw, d) == SetData(Created(files, raw), raw, d)
fs_append(files, raw, d) ==
    LET f == Created(files, raw) IN SetData(f, raw, f[fs_find(f, raw)].data \o d)

\* fs_delete and fs_rmdir clear the entry found.
Erase(files, raw) == [files EXCEPT ![fs_find(files, raw)] = Unused]

\* fs_under_dir compares a stored name with the path as the caller gave it.
fs_under_dir(name, raw) == Len(name) > Len(raw) /\ SubSeq(name, 1, Len(raw)) = raw
CanRmdir(files, raw) ==
    IsDir(files, raw) /\ \A i \in Slots : files[i].used => ~fs_under_dir(files[i].name, raw)

\* fs_rename: the entry, and for a directory the entries fs_under_dir finds in it.
CanRename(files, old, new) == Exists(files, old) /\ NewName(files, new)
fs_rename(files, old, new) ==
    LET f == fs_find(files, old)
        to == fs_normalize(new)
        moved == [files EXCEPT ![f].name = to]
    IN  [i \in Slots |->
            IF files[f].is_dir /\ moved[i].used /\ fs_under_dir(moved[i].name, old)
            THEN [moved[i] EXCEPT !.name = to \o SubSeq(@, Len(old) + 1, Len(@))]
            ELSE moved[i]]

Entries(files) == {[name |-> files[i].name, is_dir |-> files[i].is_dir, data |-> files[i].data] :
                   i \in {j \in Slots : files[j].used}}

\* No two entries have one name.
Unique(files) ==
    \A i, j \in Slots : files[i].used /\ files[j].used /\ i # j => files[i].name # files[j].name
=============================================================================
