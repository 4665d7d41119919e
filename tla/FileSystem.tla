------------------------------ MODULE FileSystem ------------------------------
(***************************************************************************)
(* The ramfs under all its users: the commands of the shell, the file      *)
(* windows of the GUI, and open, read, write, lseek and close of the       *)
(* ring-3 processes.  The descriptor table is one for the whole system.    *)
(* It holds a copy of the file, taken at open: read serves the copy, write *)
(* extends it and stores it over the file.                                 *)
(*                                                                         *)
(* A call is one step: a system call runs with interrupts disabled, and    *)
(* what it finds half done by the main thread is not modelled.  Descriptors*)
(* 0, 1 and 2 are the console and have no state.                           *)
(***************************************************************************)
EXTENDS RamFs

CONSTANTS
    Paths,        \* the names the callers use
    NFDS          \* entries of g_fds above the console's three

\* A name is made of components, and "/" is none.
ASSUME PathsAssumption == \A p \in Paths : p \in Seq(STRING) /\ p # <<>> /\ p[1] # "/"
ASSUME FdsAssumption == NFDS \in Nat

VARIABLES
    files,        \* the table
    dirty,        \* fs_dirty
    g_fds         \* the descriptor table

vars == <<files, dirty, g_fds>>

Fds == 3 .. NFDS + 2
Closed == [used |-> FALSE, name |-> <<>>, buf |-> <<>>, pos |-> 0]
\* Raw names: the shell and a process may leave the leading "/" out.
Raw == Paths \cup {Abs(p) : p \in Paths}

Init == files = Empty /\ dirty = FALSE /\ g_fds = [fd \in Fds |-> Closed]

Changed(f) == files' = f /\ dirty' = TRUE

-----------------------------------------------------------------------------
(* The shell and the GUI.  join_path and files_join_path make mkdir, rmdir *)
(* and mv paths absolute; touch, write and rm pass on what was typed.      *)

Touch(raw) == CanAdd(files, raw) /\ Changed(Add(files, raw, FALSE)) /\ UNCHANGED g_fds
Mkdir(p) == CanAdd(files, Abs(p)) /\ Changed(Add(files, Abs(p), TRUE)) /\ UNCHANGED g_fds
Write(raw, d) == CanWrite(files, raw) /\ Changed(fs_write(files, raw, d)) /\ UNCHANGED g_fds
AppendTo(raw, d) == CanWrite(files, raw) /\ Changed(fs_append(files, raw, d)) /\ UNCHANGED g_fds
Delete(raw) == IsFile(files, raw) /\ Changed(Erase(files, raw)) /\ UNCHANGED g_fds
Rmdir(p) == CanRmdir(files, Abs(p)) /\ Changed(Erase(files, Abs(p))) /\ UNCHANGED g_fds
Rename(p, q) ==
    CanRename(files, Abs(p), Abs(q)) /\ Changed(fs_rename(files, Abs(p), Abs(q))) /\ UNCHANGED g_fds
Format == Changed(Empty) /\ UNCHANGED g_fds

-----------------------------------------------------------------------------
(* The system calls.                                                       *)

FreeFd == First({fd \in Fds : ~g_fds[fd].used})

\* What open leaves behind when the file can be opened, or when the descriptor
\* table is full: a file it was to create stays.
Opened(raw) == Created(files, raw)
Open(raw, creat, trunc) ==
    /\ ~IsDir(files, raw)
    /\ Exists(files, raw) \/ (creat /\ CanAdd(files, raw))
    /\ LET f == Opened(raw)
           d == IF trunc THEN <<>> ELSE f[fs_find(f, raw)].data
       IN  IF FreeFd = NoSlot
           THEN files' = f /\ UNCHANGED g_fds
           ELSE /\ files' = IF trunc THEN fs_write(f, raw, <<>>) ELSE f
                /\ g_fds' = [g_fds EXCEPT ![FreeFd] =
                                [used |-> TRUE, name |-> raw, buf |-> d, pos |-> 0]]
    /\ dirty' = (dirty \/ files' # files \/ (trunc /\ FreeFd # NoSlot))

\* The result of fs_write is not looked at: the copy grows even if the file could
\* not be written.
FdWrite(fd, d) ==
    LET e == g_fds[fd]
        buf == Clip(e.buf \o d)
    IN  /\ e.used /\ Len(e.buf) < MAX_SIZE
        /\ g_fds' = [g_fds EXCEPT ![fd].buf = buf]
        /\ IF CanWrite(files, e.name) THEN Changed(fs_write(files, e.name, buf))
           ELSE UNCHANGED <<files, dirty>>

FdRead(fd, n) ==
    /\ g_fds[fd].used
    /\ LET avail == Len(g_fds[fd].buf) - g_fds[fd].pos
       IN  g_fds' = [g_fds EXCEPT ![fd].pos = @ + IF n < avail THEN n ELSE avail]
    /\ UNCHANGED <<files, dirty>>

\* np is where SEEK_SET, SEEK_CUR or SEEK_END and the offset lead.
Seekable_Bug(fd, np) == np >= 0
Seekable(fd, np) == np >= 0 /\ np <= Len(g_fds[fd].buf)
FdSeek(fd, np) ==
    /\ g_fds[fd].used /\ Seekable(fd, np)
    /\ g_fds' = [g_fds EXCEPT ![fd].pos = np]
    /\ UNCHANGED <<files, dirty>>

FdClose(fd) ==
    /\ g_fds[fd].used /\ g_fds' = [g_fds EXCEPT ![fd] = Closed]
    /\ UNCHANGED <<files, dirty>>

User ==
    \/ \E raw \in Raw : Touch(raw) \/ Delete(raw)
    \/ \E raw \in Raw, d \in Data : Write(raw, d) \/ AppendTo(raw, d)
    \/ \E p \in Paths : Mkdir(p) \/ Rmdir(p)
    \/ \E p, q \in Paths : Rename(p, q)
    \/ Format

Syscall ==
    \/ \E raw \in Raw, creat, trunc \in BOOLEAN : Open(raw, creat, trunc)
    \/ \E fd \in Fds, d \in Data \ {<<>>} : FdWrite(fd, d)
    \/ \E fd \in Fds, n \in 0 .. MAX_SIZE : FdRead(fd, n)
    \/ \E fd \in Fds, np \in -1 .. MAX_SIZE + 1 : FdSeek(fd, np)
    \/ \E fd \in Fds : FdClose(fd)

Next == User \/ Syscall

Spec == Init /\ [][Next]_vars

-----------------------------------------------------------------------------
(* Properties.                                                             *)

\* The type invariant.
TypeOK ==
    /\ files \in [Slots -> {Unused} \cup [used : {TRUE}, name : Paths, is_dir : BOOLEAN, data : Data]]
    /\ dirty \in BOOLEAN
    /\ g_fds \in [Fds -> [used : BOOLEAN, name : Raw \cup {<<>>}, buf : Data, pos : Nat]]

\* No two entries ever have one name, though create, mkdir, write, open and rename
\* each make names of their own: fs_find then finds the entry that was meant.
NamesUnique == Unique(files)

\* The position of a descriptor stays inside its copy, so the size - pos of do_read
\* is never negative, whatever reads, writes and seeks came before.
PosInside == \A fd \in Fds : g_fds[fd].used => g_fds[fd].pos <= Len(g_fds[fd].buf)

\* fs.c:237 "when a directory is renamed, the paths of its children must be updated too":
\* what is below it is afterwards below its new name.
RenameTakesBelow ==
    [][\A p, q \in Paths : Rename(p, q) /\ IsDir(files, p)
          => \A s \in Slots : files[s].used /\ fs_under_dir(files[s].name, p)
                => files'[s].name = q \o SubSeq(files[s].name, Len(p) + 1, Len(files[s].name))]_vars

\* The map from names to contents that a table stands for.
Content(t) ==
    [n \in {t[i].name : i \in {j \in Slots : t[j].used}} |->
        LET f == t[CHOOSE i \in Slots : t[i].used /\ t[i].name = n]
        IN  [is_dir |-> f.is_dir, data |-> f.data]]
Store == INSTANCE NameStore WITH Names <- Paths, Contents <- Data, Nothing <- <<>>,
                                 store <- Content(files)

\* What rmdir and mv do to a directory that is not empty, since fs_under_dir finds
\* nothing below a path that begins with "/": the entry alone goes, or is renamed, and
\* what was below stays under a name without its directory.
Strands ==
    \E p \in Paths :
        /\ IsDir(files, p) /\ Store!Below(p) # {}
        /\ \/ Rmdir(p) /\ Content(files') = Store!Without(p)
           \/ \E q \in Paths : Rename(p, q) /\ Content(files') = Store!Alone(p, q)

\* The table implements the map: whatever the shell, the GUI and the descriptors do in
\* whatever order, a step makes, removes, moves or fills what it was asked to and leaves
\* every other entry as it was.  Not so rmdir and mv of a directory with entries below:
\* what they leave behind is named, and RenameTakesBelow says what mv should have done.
\* A step that leaves the table alone leaves the map alone.
IsNameStore == Store!Init /\ [][files' # files => Store!Next \/ Strands]_(Content(files))
=============================================================================
