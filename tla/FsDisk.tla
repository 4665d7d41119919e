-------------------------------- MODULE FsDisk --------------------------------
(***************************************************************************)
(* fs_disk_save and fs_disk_mount (fs.c): the table of the ramfs in an     *)
(* area of the ATA disk, one header and one data area per slot.            *)
(*                                                                         *)
(* The GUI saves from the main thread, with interrupts enabled: between    *)
(* two reads of an entry and between two writes to the disk a process may  *)
(* create and write files.  The power may go at any time.  The mount runs  *)
(* at boot, before there is any process.  A disk is present.               *)
(*                                                                         *)
(* A write may fail, with its sector on the disk or not.  And it may seem  *)
(* to succeed: ata_write_sectors reads the status before a sector and not  *)
(* after it, so an error on the last sector, or in its flush, is not seen  *)
(* and the call returns 0 (AtaPio has the same as "late").  A block of     *)
(* data is a sector; one copied or written is copied or written whole.     *)
(***************************************************************************)
EXTENDS FileSystem, FiniteSets

CONSTANTS
    ZERO,         \* the block that fills the rest of a data area
    MAX_LOST      \* the slots whose write one save may lose without seeing it

ASSUME ZeroAssumption == ZERO \in Blocks
ASSUME LostAssumption == MAX_LOST \in Nat

VARIABLES
    super,        \* the super block holds "EPFS"
    disk,         \* per slot: name, is_dir and size of the header, and the data area
    pc, i,        \* where fs_disk_save is, and its slot
    hdr, data,    \* the header and the data it copied from the slot
    changed,      \* history: the slots of the table that changed since the save began
    lost,         \* history: the slots whose write was lost although it returned 0
    unreadable    \* history: the slots the mount just made could not read

memory == <<files, dirty, g_fds>>
saving == <<pc, i, hdr, data, changed, lost>>
dvars == <<memory, super, disk, saving, unreadable>>

Zeroes == [b \in 1 .. MAX_SIZE |-> ZERO]
NoHeader == [name |-> <<>>, is_dir |-> FALSE, size |-> 0]
Blank == [name |-> <<>>, is_dir |-> FALSE, size |-> 0, data |-> Zeroes]

\* The first boot finds no image: an empty table, to be saved.
DInit ==
    /\ files = Empty /\ dirty = TRUE /\ g_fds = [fd \in Fds |-> Closed]
    /\ super = FALSE /\ disk = [s \in Slots |-> Blank]
    /\ pc = "idle" /\ i = 0 /\ hdr = NoHeader /\ data = <<>>
    /\ changed = {} /\ lost = {} /\ unreadable = {}

-----------------------------------------------------------------------------
(* The file operations: the main thread's when it does not save, and the   *)
(* processes' at any time.                                                 *)

Changes == {s \in Slots : files'[s] # files[s]}
FileStep ==
    /\ (pc = "idle" /\ User) \/ Syscall
    /\ changed' = IF pc = "idle" THEN {} ELSE changed \cup Changes
    /\ UNCHANGED <<super, disk, pc, i, hdr, data, lost>>
    /\ unreadable' = {}

-----------------------------------------------------------------------------
(* fs_disk_save.                                                           *)

NextSlot == pc' = "copy" /\ i' = i + 1 /\ hdr' = NoHeader /\ data' = <<>> /\ UNCHANGED changed
Stop == pc' = "idle" /\ i' = 0 /\ hdr' = NoHeader /\ data' = <<>> /\ changed' = {} /\ lost' = {}

\* The super block, written or lost; the call returns 0, or the save gives up.
SaveBegin ==
    /\ pc = "idle"
    /\ super' \in {super, TRUE}
    /\ pc' \in {"copy", "idle"}
    /\ UNCHANGED <<memory, disk, i, hdr, data, changed, lost>> /\ unreadable' = {}

\* A write of slot i returned 0.
Passed(written) ==
    /\ lost' = IF written THEN lost ELSE lost \cup {i}
    /\ Cardinality(lost') <= MAX_LOST

HeaderOf(e) == [name |-> e.name, is_dir |-> e.is_dir, size |-> Len(e.data)]

\* The header of slot i is filled: an unused slot gives one without a name.
SaveCopy ==
    /\ pc = "copy" /\ i < NFILES
    /\ hdr' = HeaderOf(files[i]) /\ pc' = "header"
    /\ UNCHANGED <<memory, super, disk, i, data, changed, lost>> /\ unreadable' = {}

\* An unused slot clears the header on the disk too.
Header_Bug(slot, h) == IF h.name # <<>>
                       THEN [slot EXCEPT !.name = h.name, !.is_dir = h.is_dir, !.size = h.size]
                       ELSE slot
Header(slot, h) == [slot EXCEPT !.name = h.name, !.is_dir = h.is_dir, !.size = h.size]

\* The data of slot i is copied, at the size it has by now, and its header written.
\* What a process does in between cannot free the slot or make it a directory.
SaveHeader ==
    /\ pc = "header"
    /\ \E written \in BOOLEAN :
        /\ disk' = IF written THEN [disk EXCEPT ![i] = Header(@, hdr)] ELSE disk
        /\ \/ /\ Passed(written)
              /\ \/ files[i].is_dir /\ NextSlot
                 \/ /\ ~files[i].is_dir
                    /\ data' = IF hdr.name # <<>> THEN files[i].data ELSE <<>>
                    /\ pc' = "data" /\ UNCHANGED <<i, hdr, changed>>
           \/ Stop
    /\ UNCHANGED <<memory, super>> /\ unreadable' = {}

Area(d) == [b \in 1 .. MAX_SIZE |-> IF b <= Len(d) THEN d[b] ELSE ZERO]

\* The data area of slot i: a failure before the last sector is seen.
SaveData ==
    /\ pc = "data"
    /\ \E done \in 0 .. MAX_SIZE :
        /\ disk' = [disk EXCEPT ![i].data =
                        [b \in 1 .. MAX_SIZE |-> IF b <= done THEN Area(data)[b] ELSE @[b]]]
        /\ \/ /\ done >= MAX_SIZE - 1
              /\ Passed(done = MAX_SIZE)
              /\ NextSlot
           \/ Stop
    /\ UNCHANGED <<memory, super>> /\ unreadable' = {}

SaveEnd ==
    /\ pc = "copy" /\ i = NFILES
    /\ dirty' = FALSE /\ Stop
    /\ UNCHANGED <<files, g_fds, super, disk>> /\ unreadable' = {}

-----------------------------------------------------------------------------
(* A restart: fs_init, syscall_init and fs_disk_mount.                     *)

OnDisk(e) == SubSeq(e.data, 1, e.size)
Present(s) == s \notin unreadable' /\ disk[s].name # <<>>

\* The first pass makes the directories, in slot order; the second, the files.
MountDir_Bug(f, s) == IF Present(s) /\ disk[s].is_dir THEN Add(f, disk[s].name, TRUE) ELSE f
MountDir(f, s) ==
    IF Present(s) /\ disk[s].is_dir /\ CanAdd(f, disk[s].name)
    THEN Add(f, disk[s].name, TRUE) ELSE f
MountFile_Bug(f, s) == IF Present(s) /\ CanWrite(f, disk[s].name)
                       THEN fs_write(f, disk[s].name, OnDisk(disk[s])) ELSE f
MountFile(f, s) ==
    IF Present(s) /\ ~disk[s].is_dir /\ CanWrite(f, disk[s].name)
    THEN fs_write(f, disk[s].name, OnDisk(disk[s])) ELSE f

\* A pass of the mount: the slots one after the other.
Pass(Mount(_, _), f) ==
    LET after[n \in 0 .. NFILES] == IF n = 0 THEN f ELSE Mount(after[n - 1], n - 1)
    IN  after[NFILES]
Mounted_Bug == Pass(MountDir, Pass(MountFile, Empty))
Mounted == Pass(MountFile, Pass(MountDir, Empty))

Restart ==
    /\ unreadable' \in SUBSET Slots
    /\ \/ super /\ files' = Mounted /\ dirty' = FALSE
       \/ ~super /\ files' = Empty /\ dirty' = TRUE
       \/ files' = Empty /\ dirty' = FALSE              \* the super block cannot be read
    /\ g_fds' = [fd \in Fds |-> Closed]
    /\ Stop
    /\ UNCHANGED <<super, disk>>

DNext == FileStep \/ SaveBegin \/ SaveCopy \/ SaveHeader \/ SaveData \/ SaveEnd \/ Restart

DSpec == DInit /\ [][DNext]_dvars

-----------------------------------------------------------------------------
(* Properties.                                                             *)

\* The type invariant.
DTypeOK ==
    /\ TypeOK
    /\ super \in BOOLEAN
    /\ changed \subseteq Slots /\ lost \subseteq Slots /\ unreadable \subseteq Slots
    /\ disk \in [Slots -> [name : Paths \cup {<<>>}, is_dir : BOOLEAN, size : 0 .. MAX_SIZE,
                           data : [1 .. MAX_SIZE -> Blocks]]]
    /\ pc \in {"idle", "copy", "header", "data"} /\ i \in 0 .. NFILES

DiskEntry(s) == [name |-> disk[s].name, is_dir |-> disk[s].is_dir, data |-> OnDisk(disk[s])]
Stored == {s \in Slots : disk[s].name # <<>>}
DiskEntries == {DiskEntry(s) : s \in Stored}
DiskUnique == \A s, t \in Stored : disk[s].name = disk[t].name => s = t

\* Whatever image a save left behind, half of one table and half of another, the
\* table a restart makes of it has no name twice.
MountedUnique == Unique(files)

\* A slot of the disk holds an entry of the table.
Carries(slot, e) ==
    /\ slot.name = e.name /\ slot.is_dir = e.is_dir /\ slot.size = Len(e.data)
    /\ OnDisk(slot) = e.data

\* Each slot by itself: one no process changed holds its entry as it is, whatever
\* processes did to the others.  One that was changed has the entry's name and kind, or
\* none, since no process removes an entry; its size and data may be of two moments.
Saved(s) ==
    IF s \notin changed THEN Carries(disk[s], files[s])
    ELSE disk[s].name # <<>> => disk[s].name = files[s].name /\ disk[s].is_dir = files[s].is_dir

\* A save that comes to its end leaves each slot of the disk as the table has it, raced
\* by processes or not, whatever earlier saves that failed or were cut short had left
\* there; a write that was lost spoils only its own slot.
SaveIsComplete ==
    [][SaveEnd => /\ \A s \in Slots \ lost : Saved(s)
                  /\ changed \cup lost = {} => DiskEntries = Entries(files)]_dvars

\* A restart invents nothing: each entry it makes is on the disk, with that kind and
\* that content, even when the image is the remains of a save cut short.
MountInventsNothing == [][Restart => Entries(files') \subseteq DiskEntries]_dvars

\* The directories above slot s are stored, each in a slot before the next one's.
Above(s) == {SubSeq(disk[s].name, 1, n) : n \in 1 .. Len(disk[s].name) - 1}
SlotOf(name) == First({t \in Stored : disk[t].name = name /\ disk[t].is_dir})
AllAbove(s) == \A p \in Above(s) : SlotOf(p) # NoSlot
InOrder(s) == \A p, q \in Above(s) \cup (IF disk[s].is_dir THEN {disk[s].name} ELSE {}) :
                  Len(p) < Len(q) => SlotOf(p) < SlotOf(q)

\* A restart that can read the disk restores every entry whose directories were saved
\* in slots that go down the tree, and none of them depends on any other entry.
Readable == super /\ unreadable' = {} /\ dirty' = FALSE /\ files' = Mounted
MountRestores ==
    [][Restart /\ Readable /\ DiskUnique
        => \A s \in Stored : AllAbove(s) /\ InOrder(s) => DiskEntry(s) \in Entries(files')]_dvars

\* fs.c:428 "first pass: directories (so that a parent comes before its files)": a
\* restart restores every file whose directories are all on the disk.
MountParentsFirst ==
    [][Restart /\ Readable /\ DiskUnique
        => \A s \in Stored : ~disk[s].is_dir /\ AllAbove(s) => DiskEntry(s) \in Entries(files')]_dvars
=============================================================================
