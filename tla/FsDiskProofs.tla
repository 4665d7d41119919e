------------------------------ MODULE FsDiskProofs -----------------------------
(***************************************************************************)
(* Theorems about FsDisk, for disks and tables of any size and any set of  *)
(* names: what is on the disk after a save, and what a restart makes of    *)
(* any image a save can leave behind, one cut short or raced included.     *)
(***************************************************************************)
EXTENDS FsDisk, FileSystemProofs, FiniteSetTheorems

-----------------------------------------------------------------------------
(***************************************************************************)
(* The inductive invariant.                                                *)
(***************************************************************************)

Images == [name : Paths \cup {<<>>}, is_dir : BOOLEAN, size : 0 .. MAX_SIZE,
           data : [1 .. MAX_SIZE -> Blocks]]

\* Directories have no content, in the table and on the disk: save writes none for
\* them, and mount reads none.
DirsHold(c) == \A n \in DOMAIN c : c[n].is_dir => c[n].data = <<>>

ImageInv ==
    /\ super \in BOOLEAN /\ unreadable \subseteq Slots
    /\ disk \in [Slots -> Images]
    /\ \A s \in Slots : disk[s].is_dir => disk[s].size = 0

\* What the header that was copied last still says of its entry: the name and the kind,
\* if there was an entry, and all of it if no process changed the entry since.
Heads(h, e) == h.name # <<>> => h.name = e.name /\ h.is_dir = e.is_dir

\* While a save runs, the slots behind it are saved, but for those whose write was lost;
\* between the header and the data of a slot, the copy is what its header announces.
SaveInv ==
    /\ changed \subseteq Slots /\ lost \subseteq Slots
    /\ pc \in {"idle", "copy", "header", "data"} /\ i \in 0 .. NFILES
    /\ hdr \in [name : Paths \cup {<<>>}, is_dir : BOOLEAN, size : 0 .. MAX_SIZE]
    /\ hdr.is_dir => hdr.size = 0
    /\ data \in Data
    /\ pc = "idle" => i = 0 /\ changed = {} /\ lost = {}
    /\ pc \in {"header", "data"} =>
        /\ i \in Slots /\ Heads(hdr, files[i])
        /\ i \notin changed => hdr = HeaderOf(files[i])
    /\ pc = "data" =>
        /\ i \notin lost => /\ disk[i].name = hdr.name /\ disk[i].is_dir = hdr.is_dir
                           /\ disk[i].size = hdr.size
        /\ i \notin changed => data = files[i].data
    /\ \A s \in Slots \ lost : s < i => Saved(s)

DInv == FInv /\ DirsHold(Content(files)) /\ ImageInv /\ SaveInv


-----------------------------------------------------------------------------
(***************************************************************************)
(* The passes of the mount.  They are recursive functions: that there is   *)
(* such a function, and what it preserves, follow from the least number at *)
(* which it would fail.                                                    *)
(***************************************************************************)

Follows(g, T, t0, N, h) ==
    /\ g \in [0 .. N -> T] /\ g[0] = t0
    /\ \A n \in 1 .. N : g[n] = h[<<g[n - 1], n - 1>>]

LEMMA Recursion ==
    ASSUME NEW T, NEW t0 \in T, NEW N \in Nat, NEW h \in [T \X (0 .. N - 1) -> T]
    PROVE  \E g : Follows(g, T, t0, N, h)
  <1> DEFINE Upto(g, m) == Follows(g, T, t0, m, h)
             Bad == {m \in 0 .. N : ~ \E g : Upto(g, m)}
  <1>1. SUFFICES ASSUME Bad # {} PROVE FALSE
    <2>1. N \in 0 .. N
      OBVIOUS
    <2>2. PICK g : Upto(g, N)
      BY <1>1, <2>1
    <2> QED
      BY <2>2
  <1>2. Bad \in SUBSET Nat
    OBVIOUS
  <1>3. PICK m \in Bad : \A x \in Bad : m <= x
    <2> HIDE DEF Bad
    <2> QED
      BY <1>1, <1>2, NatMin
  <1>4. m \in Nat /\ m <= N /\ ~ \E g : Upto(g, m)
    BY <1>3
  <1>5. m # 0
    <2>1. Upto([n \in 0 .. 0 |-> t0], 0)
      BY DEF Follows
    <2> QED
      BY <1>4, <2>1
  <1>6. m - 1 \in 0 .. N /\ m - 1 \notin Bad
    BY <1>3, <1>4, <1>5
  <1>7. PICK g : Upto(g, m - 1)
    BY <1>6
  <1> DEFINE g1 == [n \in 0 .. m |-> IF n = m THEN h[<<g[m - 1], m - 1>>] ELSE g[n]]
  <1>8. Upto(g1, m)
    <2>1. g[m - 1] \in T /\ h[<<g[m - 1], m - 1>>] \in T
      BY <1>4, <1>5, <1>7 DEF Follows
    <2>2. g1 \in [0 .. m -> T]
      BY <1>4, <1>5, <1>7, <2>1 DEF Follows
    <2>3. g1[0] = t0
      BY <1>4, <1>5, <1>7 DEF Follows
    <2>4. ASSUME NEW n \in 1 .. m PROVE g1[n] = h[<<g1[n - 1], n - 1>>]
      <3>1. n - 1 \in 0 .. m /\ n - 1 # m
        BY <1>4
      <3>2. g1[n - 1] = g[n - 1]
        BY <3>1
      <3>3. CASE n = m
        <4>1. g1[m] = h[<<g[m - 1], m - 1>>]
          BY <1>4
        <4> HIDE DEF g1
        <4> QED
          BY <3>2, <3>3, <4>1
      <3>4. CASE n # m
        BY <1>4, <1>7, <3>2, <3>4 DEF Follows
      <3> QED
        BY <3>3, <3>4
    <2> QED
      BY <2>2, <2>3, <2>4 DEF Follows
  <1> QED
    BY <1>4, <1>8

\* A pass over the slots is a function of the number of slots done.
PassDirs == CHOOSE g : g = [n \in 0 .. NFILES |->
                              IF n = 0 THEN Empty ELSE MountDir(g[n - 1], n - 1)]
PassFiles == CHOOSE g : g = [n \in 0 .. NFILES |->
                               IF n = 0 THEN PassDirs[NFILES] ELSE MountFile(g[n - 1], n - 1)]

LEMMA MountedIs == Mounted = PassFiles[NFILES]
  <1>1. Pass(MountDir, Empty) = PassDirs[NFILES]
    BY DEF Pass, PassDirs
  <1>2. Pass(MountFile, PassDirs[NFILES]) = PassFiles[NFILES]
    BY DEF Pass, PassFiles
  <1> QED
    BY <1>1, <1>2 DEF Mounted

\* What a slot holds fits a file, and a stored name is a name.
LEMMA SlotIs ==
    ASSUME ImageInv, NEW s \in Slots
    PROVE  /\ disk[s] \in Images /\ disk[s].is_dir \in BOOLEAN
           /\ disk[s].size \in Nat /\ disk[s].size <= MAX_SIZE
           /\ OnDisk(disk[s]) \in Data /\ Len(OnDisk(disk[s])) = disk[s].size
           /\ Clip(OnDisk(disk[s])) = OnDisk(disk[s])
           /\ disk[s].is_dir => OnDisk(disk[s]) = <<>>
           /\ s \in Stored => disk[s].name \in Paths /\ disk[s].name \in Raw
                              /\ fs_normalize(disk[s].name) = disk[s].name
  <1>1. disk[s] \in Images /\ MAX_SIZE \in Nat
    BY TableAssumption DEF ImageInv
  <1>2. /\ disk[s].is_dir \in BOOLEAN /\ disk[s].size \in Nat /\ disk[s].size <= MAX_SIZE
        /\ disk[s].data \in [1 .. MAX_SIZE -> Blocks] /\ disk[s].name \in Paths \cup {<<>>}
    BY <1>1 DEF Images
  <1>3. /\ OnDisk(disk[s]) \in Seq(Blocks)
        /\ Len(OnDisk(disk[s])) = disk[s].size
    <2>1. \A b \in 1 .. disk[s].size : disk[s].data[b] \in Blocks
      BY <1>1, <1>2
    <2>2. /\ SubSeq(disk[s].data, 1, disk[s].size) \in Seq(Blocks)
          /\ Len(SubSeq(disk[s].data, 1, disk[s].size)) =
                IF 1 <= disk[s].size THEN disk[s].size - 1 + 1 ELSE 0
      BY <1>2, <2>1, SubSeqProperties
    <2> QED
      BY <1>2, <2>2 DEF OnDisk
  <1>4. OnDisk(disk[s]) \in Data
    BY <1>2, <1>3, DataIs
  <1>5. Clip(OnDisk(disk[s])) = OnDisk(disk[s])
    BY <1>2, <1>3, <1>1 DEF Clip
  <1>6. disk[s].is_dir => OnDisk(disk[s]) = <<>>
    <2>1. disk[s].is_dir => disk[s].size = 0
      BY DEF ImageInv
    <2> QED
      BY <1>3, <2>1, EmptySeq
  <1>7. s \in Stored => disk[s].name \in Paths
    BY <1>2 DEF Stored
  <1> QED
    BY <1>1, <1>2, <1>3, <1>4, <1>5, <1>6, <1>7, Normalized

\* fs_write binds the name to the data it was given.
LEMMA WrittenIs ==
    ASSUME NEW t \in Tables, NEW raw \in Raw, NEW d \in Data, CanWrite(t, raw)
    PROVE  /\ fs_write(t, raw, d) \in Tables
           /\ Content(fs_write(t, raw, d)) =
                Bind(Content(t), fs_normalize(raw), [is_dir |-> FALSE, data |-> Clip(d)])
  <1> DEFINE n == fs_normalize(raw)
             v == Created(t, raw)
  <1>1. /\ v \in Tables /\ IsFile(v, raw)
        /\ \A e : Bind(Content(v), n, e) = Bind(Content(t), n, e)
    BY CreatedIs
  <1>2. d \in Seq(Blocks)
    BY DataIs
  <1> HIDE DEF v
  <1>3. /\ SetData(v, raw, d) \in Tables
        /\ Content(SetData(v, raw, d)) = Bind(Content(v), n, [is_dir |-> FALSE, data |-> Clip(d)])
    BY <1>1, <1>2, Filled
  <1> QED
    BY <1>1, <1>3 DEF fs_write, v

\* A slot mounted into a table adds its entry, or replaces the content of its name.
Gives(s) == Holds(DiskEntry(s))
Mounts(t, u, s) ==
    /\ u \in Tables
    /\ u = t \/ (s \in Stored /\ Content(u) = Bind(Content(t), disk[s].name, Gives(s)))

LEMMA DirMounted ==
    ASSUME ImageInv, NEW t \in Tables, NEW s \in Slots
    PROVE  /\ Mounts(t, MountDir(t, s), s)
           /\ MountDir(t, s) # t => disk[s].is_dir
           /\ Present(s) /\ disk[s].is_dir /\ CanAdd(t, disk[s].name)
                => disk[s].name \in DOMAIN Content(MountDir(t, s))
  <1>1. CASE Present(s) /\ disk[s].is_dir /\ CanAdd(t, disk[s].name)
    <2>1. s \in Stored
      BY <1>1 DEF Present, Stored
    <2>2. /\ disk[s].name \in Raw /\ fs_normalize(disk[s].name) = disk[s].name
          /\ OnDisk(disk[s]) = <<>> /\ disk[s].is_dir = TRUE
      BY <1>1, <2>1, SlotIs
    <2>3. MountDir(t, s) = Add(t, disk[s].name, TRUE)
      BY <1>1 DEF MountDir
    <2>4. /\ Add(t, disk[s].name, TRUE) \in Tables
          /\ Content(Add(t, disk[s].name, TRUE)) =
                Bind(Content(t), disk[s].name, [is_dir |-> TRUE, data |-> <<>>])
      BY <1>1, <2>2, Added
    <2>5. Gives(s) = [is_dir |-> TRUE, data |-> <<>>]
      BY <2>2 DEF Gives, Holds, DiskEntry
    <2>6. Content(MountDir(t, s)) = Bind(Content(t), disk[s].name, Gives(s))
      BY <2>3, <2>4, <2>5
    <2> QED
      BY <1>1, <2>1, <2>3, <2>4, <2>6 DEF Mounts, Bind
  <1>2. CASE ~(Present(s) /\ disk[s].is_dir /\ CanAdd(t, disk[s].name))
    BY <1>2 DEF Mounts, MountDir
  <1> QED
    BY <1>1, <1>2

LEMMA FileMounted ==
    ASSUME ImageInv, NEW t \in Tables, NEW s \in Slots
    PROVE  /\ Mounts(t, MountFile(t, s), s)
           /\ Present(s) /\ ~disk[s].is_dir /\ CanWrite(t, disk[s].name)
                => disk[s].name \in DOMAIN Content(MountFile(t, s))
  <1>1. CASE Present(s) /\ ~disk[s].is_dir /\ CanWrite(t, disk[s].name)
    <2>1. s \in Stored
      BY <1>1 DEF Present, Stored
    <2>2. /\ disk[s].name \in Raw /\ fs_normalize(disk[s].name) = disk[s].name
          /\ OnDisk(disk[s]) \in Data /\ Clip(OnDisk(disk[s])) = OnDisk(disk[s])
          /\ disk[s].is_dir = FALSE
      BY <1>1, <2>1, SlotIs
    <2>3. MountFile(t, s) = fs_write(t, disk[s].name, OnDisk(disk[s]))
      BY <1>1 DEF MountFile
    <2>4. /\ MountFile(t, s) \in Tables
          /\ Content(MountFile(t, s)) =
                Bind(Content(t), disk[s].name, [is_dir |-> FALSE, data |-> OnDisk(disk[s])])
      BY <1>1, <2>2, <2>3, WrittenIs
    <2>5. Gives(s) = [is_dir |-> FALSE, data |-> OnDisk(disk[s])]
      BY <2>2 DEF Gives, Holds, DiskEntry
    <2> QED
      BY <2>1, <2>4, <2>5 DEF Mounts, Bind
  <1>2. CASE ~(Present(s) /\ ~disk[s].is_dir /\ CanWrite(t, disk[s].name))
    BY <1>2 DEF Mounts, MountFile
  <1> QED
    BY <1>1, <1>2

\* All a table has was made of the slots in S.
Made(t, S) ==
    t \in Tables /\ \A n \in DOMAIN Content(t) :
                        \E s \in S : disk[s].name = n /\ Content(t)[n] = Gives(s)

LEMMA MountsMakes ==
    ASSUME NEW S, NEW t, NEW u, NEW s, Made(t, S), Mounts(t, u, s), u # t => s \in S
    PROVE  Made(u, S) /\ DOMAIN Content(t) \subseteq DOMAIN Content(u)
  <1>1. CASE u = t
    BY <1>1
  <1>2. CASE u # t
    <2>1. u \in Tables /\ s \in S
      BY <1>2 DEF Mounts
    <2>2. Content(u) = Bind(Content(t), disk[s].name, Gives(s))
      BY <1>2 DEF Mounts
    <2>3. /\ DOMAIN Content(u) = DOMAIN Content(t) \cup {disk[s].name}
          /\ Content(u)[disk[s].name] = Gives(s)
          /\ \A m \in DOMAIN Content(t) \ {disk[s].name} : Content(u)[m] = Content(t)[m]
      BY <2>2 DEF Bind
    <2>4. ASSUME NEW n \in DOMAIN Content(u)
          PROVE  \E r \in S : disk[r].name = n /\ Content(u)[n] = Gives(r)
      <3>1. CASE n = disk[s].name
        BY <2>1, <2>3, <3>1
      <3>2. CASE n # disk[s].name
        <4>1. n \in DOMAIN Content(t) /\ Content(u)[n] = Content(t)[n]
          BY <2>3, <3>2
        <4> QED
          BY <4>1 DEF Made
      <3> QED
        BY <3>1, <3>2
    <2> QED
      BY <2>1, <2>3, <2>4 DEF Made
  <1> QED
    BY <1>1, <1>2

LEMMA Counts == NFILES \in Nat /\ NFILES > 0 /\ Slots = 0 .. NFILES - 1
  BY TableAssumption DEF Slots

LEMMA PassDirsIs ==
    ASSUME ImageInv
    PROVE  /\ \A n \in 0 .. NFILES : PassDirs[n] \in Tables
           /\ PassDirs[0] = Empty
           /\ \A s \in Slots : PassDirs[s + 1] = MountDir(PassDirs[s], s)
  <1> DEFINE F(g) == [n \in 0 .. NFILES |-> IF n = 0 THEN Empty ELSE MountDir(g[n - 1], n - 1)]
  <1>1. PICK h \in [Tables \X Slots -> Tables] :
            \A t \in Tables, s \in Slots : h[<<t, s>>] = MountDir(t, s)
    <2> DEFINE h == [x \in Tables \X Slots |-> MountDir(x[1], x[2])]
    <2>1. \A t \in Tables, s \in Slots : MountDir(t, s) \in Tables
      BY DirMounted DEF Mounts
    <2>2. h \in [Tables \X Slots -> Tables]
      BY <2>1, Counts
    <2>3. \A t \in Tables, s \in Slots : h[<<t, s>>] = MountDir(t, s)
      BY Counts
    <2> QED
      BY <2>2, <2>3
  <1>2. NFILES \in Nat /\ Slots = 0 .. NFILES - 1 /\ Empty \in Tables
    BY Counts, EmptyTable
  <1>3. PICK g \in [0 .. NFILES -> Tables] :
            g[0] = Empty /\ \A n \in 1 .. NFILES : g[n] = h[<<g[n - 1], n - 1>>]
    <2>1. PICK g : Follows(g, Tables, Empty, NFILES, h)
      BY <1>1, <1>2, Recursion
    <2> QED
      BY <2>1 DEF Follows
  <1>4. ASSUME NEW n \in 1 .. NFILES PROVE g[n] = MountDir(g[n - 1], n - 1)
    <2>1. g[n - 1] \in Tables /\ n - 1 \in 0 .. NFILES - 1
      BY Counts
    <2>2. h[<<g[n - 1], n - 1>>] = MountDir(g[n - 1], n - 1)
      BY <1>1, <2>1, Counts
    <2> QED
      BY <1>3, <2>2
  <1>5. g = F(g)
    BY <1>3, <1>4, Counts
  <1>6. PassDirs = F(PassDirs)
    BY <1>5 DEF PassDirs
  <1>7. ASSUME NEW n \in 0 .. NFILES PROVE PassDirs[n] = g[n]
    <2> DEFINE Bad == {m \in 0 .. NFILES : PassDirs[m] # g[m]}
    <2>1. SUFFICES ASSUME Bad # {} PROVE FALSE
      OBVIOUS
    <2>2. Bad \in SUBSET Nat
      BY Counts
    <2>3. PICK m \in Bad : \A x \in Bad : m <= x
      <3> HIDE DEF Bad
      <3> QED
        BY <2>1, <2>2, NatMin
    <2>4. m \in 0 .. NFILES /\ m # 0
      BY <1>3, <1>6, <2>3, Counts
    <2>5. m - 1 \in 0 .. NFILES /\ m - 1 \notin Bad
      BY <2>3, <2>4, Counts
    <2>6. PassDirs[m] = MountDir(PassDirs[m - 1], m - 1)
      BY <1>6, <2>4
    <2> QED
      BY <1>4, <2>3, <2>4, <2>5, <2>6, Counts
  <1>8. ASSUME NEW s \in Slots PROVE PassDirs[s + 1] = MountDir(PassDirs[s], s)
    <2>1. s + 1 \in 0 .. NFILES /\ s + 1 # 0 /\ (s + 1) - 1 = s
      BY Counts
    <2> QED
      BY <1>6, <2>1
  <1> QED
    BY <1>3, <1>7, <1>8, Counts

LEMMA PassFilesIs ==
    ASSUME ImageInv
    PROVE  /\ \A n \in 0 .. NFILES : PassFiles[n] \in Tables
           /\ PassFiles[0] = PassDirs[NFILES]
           /\ \A s \in Slots : PassFiles[s + 1] = MountFile(PassFiles[s], s)
  <1> DEFINE F(g) == [n \in 0 .. NFILES |-> IF n = 0 THEN PassDirs[NFILES] ELSE MountFile(g[n - 1], n - 1)]
  <1>1. PICK h \in [Tables \X Slots -> Tables] :
            \A t \in Tables, s \in Slots : h[<<t, s>>] = MountFile(t, s)
    <2> DEFINE h == [x \in Tables \X Slots |-> MountFile(x[1], x[2])]
    <2>1. \A t \in Tables, s \in Slots : MountFile(t, s) \in Tables
      BY FileMounted DEF Mounts
    <2>2. h \in [Tables \X Slots -> Tables]
      BY <2>1, Counts
    <2>3. \A t \in Tables, s \in Slots : h[<<t, s>>] = MountFile(t, s)
      BY Counts
    <2> QED
      BY <2>2, <2>3
  <1>2. NFILES \in Nat /\ Slots = 0 .. NFILES - 1 /\ PassDirs[NFILES] \in Tables
    BY Counts, PassDirsIs
  <1>3. PICK g \in [0 .. NFILES -> Tables] :
            g[0] = PassDirs[NFILES] /\ \A n \in 1 .. NFILES : g[n] = h[<<g[n - 1], n - 1>>]
    <2>1. PICK g : Follows(g, Tables, PassDirs[NFILES], NFILES, h)
      BY <1>1, <1>2, Recursion
    <2> QED
      BY <2>1 DEF Follows
  <1>4. ASSUME NEW n \in 1 .. NFILES PROVE g[n] = MountFile(g[n - 1], n - 1)
    <2>1. g[n - 1] \in Tables /\ n - 1 \in 0 .. NFILES - 1
      BY Counts
    <2>2. h[<<g[n - 1], n - 1>>] = MountFile(g[n - 1], n - 1)
      BY <1>1, <2>1, Counts
    <2> QED
      BY <1>3, <2>2
  <1>5. g = F(g)
    BY <1>3, <1>4, Counts
  <1>6. PassFiles = F(PassFiles)
    BY <1>5 DEF PassFiles
  <1>7. ASSUME NEW n \in 0 .. NFILES PROVE PassFiles[n] = g[n]
    <2> DEFINE Bad == {m \in 0 .. NFILES : PassFiles[m] # g[m]}
    <2>1. SUFFICES ASSUME Bad # {} PROVE FALSE
      OBVIOUS
    <2>2. Bad \in SUBSET Nat
      BY Counts
    <2>3. PICK m \in Bad : \A x \in Bad : m <= x
      <3> HIDE DEF Bad
      <3> QED
        BY <2>1, <2>2, NatMin
    <2>4. m \in 0 .. NFILES /\ m # 0
      BY <1>3, <1>6, <2>3, Counts
    <2>5. m - 1 \in 0 .. NFILES /\ m - 1 \notin Bad
      BY <2>3, <2>4, Counts
    <2>6. PassFiles[m] = MountFile(PassFiles[m - 1], m - 1)
      BY <1>6, <2>4
    <2> QED
      BY <1>4, <2>3, <2>4, <2>5, <2>6, Counts
  <1>8. ASSUME NEW s \in Slots PROVE PassFiles[s + 1] = MountFile(PassFiles[s], s)
    <2>1. s + 1 \in 0 .. NFILES /\ s + 1 # 0 /\ (s + 1) - 1 = s
      BY Counts
    <2> QED
      BY <1>6, <2>1
  <1> QED
    BY <1>3, <1>7, <1>8, Counts

DirsTo(n) == {s \in Stored : s < n /\ disk[s].is_dir}
FilesTo(n) == {s \in Stored : s < n \/ disk[s].is_dir}

\* What the passes have made after n slots is made of the directories before slot n,
\* and of all the directories and the files before slot n.
LEMMA DirsMade ==
    ASSUME ImageInv, NEW n \in 0 .. NFILES
    PROVE  Made(PassDirs[n], DirsTo(n))
  <1> DEFINE Bad == {m \in 0 .. NFILES : ~Made(PassDirs[m], DirsTo(m))}
  <1>1. SUFFICES ASSUME Bad # {} PROVE FALSE
    OBVIOUS
  <1>2. Bad \in SUBSET Nat
    BY Counts
  <1>3. PICK m \in Bad : \A x \in Bad : m <= x
    <2> HIDE DEF Bad
    <2> QED
      BY <1>1, <1>2, NatMin
  <1>4. m \in 0 .. NFILES /\ ~Made(PassDirs[m], DirsTo(m))
    BY <1>3
  <1>5. m # 0
    <2>1. Content(Empty) = Store!NoNames /\ Empty \in Tables /\ PassDirs[0] = Empty
      BY EmptyTable, PassDirsIs
    <2>2. DOMAIN Content(Empty) = {}
      BY <2>1 DEF Store!NoNames
    <2> QED
      BY <1>4, <2>1, <2>2 DEF Made
  <1> DEFINE s == m - 1
             t == PassDirs[s]
             u == PassDirs[m]
  <1>6. s \in 0 .. NFILES /\ s \in Slots /\ s \notin Bad /\ m = s + 1
    BY <1>3, <1>4, <1>5, Counts
  <1>7. t \in Tables /\ u = MountDir(t, s)
    BY <1>6, PassDirsIs
  <1>8. Made(t, DirsTo(s))
    BY <1>6
  <1> HIDE DEF s, t, u
  <1>9. Made(t, DirsTo(m))
    BY <1>6, <1>8, Counts DEF Made, DirsTo, Stored
  <1>10. Mounts(t, u, s) /\ (u # t => s \in DirsTo(m))
    <2>1. Mounts(t, u, s) /\ (u # t => disk[s].is_dir)
      BY <1>6, <1>7, DirMounted
    <2> QED
      BY <1>6, <2>1, Counts DEF Mounts, DirsTo
  <1>11. Made(u, DirsTo(m))
    BY <1>9, <1>10, MountsMakes
  <1> QED
    BY <1>4, <1>11 DEF u

LEMMA FilesMade ==
    ASSUME ImageInv, NEW n \in 0 .. NFILES
    PROVE  Made(PassFiles[n], FilesTo(n))
  <1> DEFINE Bad == {m \in 0 .. NFILES : ~Made(PassFiles[m], FilesTo(m))}
  <1>1. SUFFICES ASSUME Bad # {} PROVE FALSE
    OBVIOUS
  <1>2. Bad \in SUBSET Nat
    BY Counts
  <1>3. PICK m \in Bad : \A x \in Bad : m <= x
    <2> HIDE DEF Bad
    <2> QED
      BY <1>1, <1>2, NatMin
  <1>4. m \in 0 .. NFILES /\ ~Made(PassFiles[m], FilesTo(m))
    BY <1>3
  <1>5. m # 0
    <2>1. PassFiles[0] = PassDirs[NFILES]
      BY PassFilesIs
    <2>2. Made(PassDirs[NFILES], DirsTo(NFILES))
      BY DirsMade, Counts
    <2>3. DirsTo(NFILES) \subseteq FilesTo(0)
      BY DEF DirsTo, FilesTo
    <2>4. Made(PassFiles[0], FilesTo(0))
      BY <2>1, <2>2, <2>3 DEF Made
    <2> QED
      BY <1>4, <2>4
  <1> DEFINE s == m - 1
             t == PassFiles[s]
             u == PassFiles[m]
  <1>6. s \in 0 .. NFILES /\ s \in Slots /\ s \notin Bad /\ m = s + 1
    BY <1>3, <1>4, <1>5, Counts
  <1>7. t \in Tables /\ u = MountFile(t, s)
    BY <1>6, PassFilesIs
  <1>8. Made(t, FilesTo(s))
    BY <1>6
  <1> HIDE DEF s, t, u
  <1>9. Made(t, FilesTo(m))
    BY <1>6, <1>8, Counts DEF Made, FilesTo, Stored
  <1>10. Mounts(t, u, s) /\ (u # t => s \in FilesTo(m))
    <2>1. Mounts(t, u, s)
      BY <1>6, <1>7, FileMounted
    <2> QED
      BY <1>6, <2>1, Counts DEF Mounts, FilesTo
  <1>11. Made(u, FilesTo(m))
    BY <1>9, <1>10, MountsMakes
  <1> QED
    BY <1>4, <1>11 DEF u

\* A mounted table is a table, and all it has is on the disk.
LEMMA MountedMade ==
    ASSUME ImageInv
    PROVE  Made(Mounted, Stored) /\ DirsHold(Content(Mounted))
  <1>1. Made(Mounted, FilesTo(NFILES)) /\ FilesTo(NFILES) \subseteq Stored
    <2>1. NFILES \in 0 .. NFILES
      BY Counts
    <2>2. Made(PassFiles[NFILES], FilesTo(NFILES))
      BY <2>1, FilesMade
    <2> QED
      BY <2>2, MountedIs DEF FilesTo
  <1>2. Made(Mounted, Stored)
    BY <1>1 DEF Made
  <1>3. ASSUME NEW n \in DOMAIN Content(Mounted), Content(Mounted)[n].is_dir
        PROVE  Content(Mounted)[n].data = <<>>
    <2>1. PICK s \in Stored : Content(Mounted)[n] = Gives(s)
      BY <1>2 DEF Made
    <2>2. Gives(s) = [is_dir |-> disk[s].is_dir, data |-> OnDisk(disk[s])] /\ s \in Slots
      BY DEF Gives, Holds, DiskEntry, Stored
    <2> QED
      BY <1>3, <2>1, <2>2, SlotIs
  <1> QED
    BY <1>2, <1>3 DEF DirsHold

-----------------------------------------------------------------------------
(***************************************************************************)
(* The steps.                                                              *)
(***************************************************************************)

\* Whatever the file operations do to the map, directories keep nothing.
LEMMA DirsStayEmpty ==
    ASSUME files \in Tables, DirsHold(Content(files)), Store!Next \/ Strands \/ UNCHANGED Content(files)
    PROVE  DirsHold(Content(files'))
  <1>1. CASE UNCHANGED Content(files)
    BY <1>1 DEF DirsHold
  <1>2. ASSUME NEW n \in Paths, Store!Make(n) PROVE DirsHold(Content(files'))
    BY <1>2 DEF Store!Make, Store!With, Store!Dir, DirsHold
  <1>3. ASSUME NEW n \in Paths, Content(files') = Store!Without(n) PROVE DirsHold(Content(files'))
    BY <1>3 DEF Store!Without, DirsHold
  <1>4. ASSUME NEW n \in Paths, NEW d \in Data, Store!Put(n, d) PROVE DirsHold(Content(files'))
    BY <1>4 DEF Store!Put, Store!With, Store!File, DirsHold
  <1>5. ASSUME NEW n \in Paths, NEW m \in Paths, Store!Move(n, m) PROVE DirsHold(Content(files'))
    <2> DEFINE c == Content(files)
               to(k) == IF k = n THEN m
                        ELSE IF c[n].is_dir /\ Store!Under(k, n)
                        THEN m \o SubSeq(k, Len(n) + 1, Len(k)) ELSE k
    <2>1. Content(files') = [x \in {to(k) : k \in DOMAIN c} |->
                                c[CHOOSE k \in DOMAIN c : to(k) = x]]
      BY <1>5 DEF Store!Move
    <2> HIDE DEF to
    <2>2. ASSUME NEW x \in DOMAIN Content(files')
          PROVE  \E k \in DOMAIN c : Content(files')[x] = c[k]
      <3>1. \E k \in DOMAIN c : to(k) = x
        BY <2>1
      <3>2. (CHOOSE k \in DOMAIN c : to(k) = x) \in DOMAIN c
        BY <3>1
      <3> QED
        BY <2>1, <3>2
    <2> QED
      BY <2>2 DEF DirsHold
  <1>6. ASSUME Store!Clear PROVE DirsHold(Content(files'))
    BY <1>6 DEF Store!Clear, Store!NoNames, DirsHold
  <1>7. ASSUME NEW n \in Paths, NEW m \in Paths, n \in DOMAIN Content(files),
               Content(files') = Store!Alone(n, m)
        PROVE  DirsHold(Content(files'))
    BY <1>7 DEF Store!Alone, DirsHold
  <1>8. CASE Store!Next
    BY <1>2, <1>3, <1>4, <1>5, <1>6, <1>8 DEF Store!Next, Store!Remove
  <1>9. ASSUME Strands PROVE DirsHold(Content(files'))
    <2>1. PICK p \in Paths :
              /\ IsDir(files, p)
              /\ \/ Content(files') = Store!Without(p)
                 \/ \E q \in Paths : Content(files') = Store!Alone(p, q)
      BY <1>9 DEF Strands
    <2>2. p \in DOMAIN Content(files)
      BY <2>1, Normalized, FindIs, ContentIs DEF IsDir
    <2> QED
      BY <1>3, <1>7, <2>1, <2>2
  <1> QED
    BY <1>1, <1>8, <1>9

LEMMA UnusedIs ==
    /\ Unused \in Entry /\ ~Unused.used /\ Unused.is_dir = FALSE
    /\ Unused.name = <<>> /\ Unused.data = <<>>
  BY DEF Unused, Entry

LEMMA NoHeaderIs ==
    /\ NoHeader \in [name : Paths \cup {<<>>}, is_dir : BOOLEAN, size : 0 .. MAX_SIZE]
    /\ NoHeader.is_dir = FALSE
  BY TableAssumption DEF NoHeader

LEMMA DStart == DInit => DInv
  <1> SUFFICES ASSUME DInit PROVE DInv
    OBVIOUS
  <1>1. FInv
    <2>1. Closed \in Descriptors /\ ~Closed.used
      BY NoData DEF Closed, Descriptors
    <2>2. FdsInv
      BY <2>1 DEF DInit, FdsInv
    <2> QED
      BY <2>2, EmptyTable DEF DInit, FInv
  <1>2. DirsHold(Content(files))
    BY EmptyTable DEF DInit, DirsHold, Store!NoNames
  <1>3. ImageInv
    <2>1. Blank \in Images /\ Blank.is_dir = FALSE
      BY TableAssumption, ZeroAssumption DEF Blank, Zeroes, Images
    <2> QED
      BY <2>1 DEF DInit, ImageInv
  <1>4. SaveInv
    <2>1. /\ pc = "idle" /\ i = 0 /\ hdr = NoHeader /\ data = <<>>
          /\ changed = {} /\ lost = {}
      BY DEF DInit
    <2>2. i \in 0 .. NFILES /\ \A s \in Slots : ~(s < i)
      BY <2>1, Counts
    <2> QED
      BY <2>1, <2>2, NoHeaderIs, NoData DEF SaveInv
  <1> QED
    BY <1>1, <1>2, <1>3, <1>4 DEF DInv

\* The content of the slot of the table that is saved.
LEMMA EntryOf ==
    ASSUME DInv, NEW s \in Slots
    PROVE  /\ files[s] \in Entry /\ files[s].name \in Paths \cup {<<>>}
           /\ files[s].is_dir \in BOOLEAN /\ files[s].data \in Data
           /\ Len(files[s].data) \in 0 .. MAX_SIZE
           /\ files[s].is_dir => files[s].data = <<>>
           /\ files[s].used <=> files[s].name # <<>>
  <1>1. files \in Tables /\ files[s] \in Entry
    BY DEF DInv, FInv, Tables
  <1>2. CASE files[s].used
    <2>1. files[s].name \in Paths /\ files[s].is_dir \in BOOLEAN /\ files[s].data \in Data
      BY <1>1, <1>2, EntryIs
    <2>2. files[s].name # <<>>
      BY <2>1, PathsAssumption
    <2>3. Content(files)[files[s].name] = Holds(files[s]) /\ files[s].name \in DOMAIN Content(files)
      BY <1>1, <1>2, ContentIs DEF Named
    <2>4. files[s].is_dir => files[s].data = <<>>
      BY <2>3 DEF DInv, DirsHold, Holds
    <2>5. Len(files[s].data) \in 0 .. MAX_SIZE
      BY <2>1, DataIs, LenProperties, TableAssumption
    <2> QED
      BY <1>1, <1>2, <2>1, <2>2, <2>4, <2>5
  <1>3. CASE ~files[s].used
    <2>1. files[s] = Unused
      BY <1>1, <1>3, EntryIs
    <2>2. Len(<<>>) = 0 /\ 0 \in 0 .. MAX_SIZE
      BY TableAssumption
    <2> QED
      BY <1>1, <1>3, <2>1, <2>2, UnusedIs, NoData
  <1> QED
    BY <1>2, <1>3

\* What no system call does to an entry of the table: remove it, or give it another name
\* or kind.
Keeps(t, u) ==
    \A s \in Slots : t[s].used => u[s].used /\ u[s].name = t[s].name /\ u[s].is_dir = t[s].is_dir

LEMMA CreateKeeps ==
    ASSUME NEW t \in Tables, NEW raw \in Raw, CanWrite(t, raw)
    PROVE  Keeps(t, Created(t, raw))
  <1>1. CASE Exists(t, raw)
    BY <1>1 DEF Created, Keeps
  <1>2. CASE ~Exists(t, raw)
    <2>1. CanAdd(t, raw) /\ Created(t, raw) = Add(t, raw, FALSE)
      BY <1>2 DEF Created, CanWrite, IsFile
    <2>2. FreeSlot(t) \in Slots /\ ~t[FreeSlot(t)].used
      BY <2>1, FreeIs DEF CanAdd
    <2>3. \A s \in Slots \ {FreeSlot(t)} : Add(t, raw, FALSE)[s] = t[s]
      BY <2>2 DEF Add, Tables
    <2> QED
      BY <2>1, <2>2, <2>3 DEF Keeps
  <1> QED
    BY <1>1, <1>2

LEMMA WriteKeeps ==
    ASSUME NEW t \in Tables, NEW raw \in Raw, NEW d, CanWrite(t, raw)
    PROVE  Keeps(t, fs_write(t, raw, d))
  <1> DEFINE v == Created(t, raw)
             k == fs_find(v, raw)
  <1>1. v \in Tables /\ IsFile(v, raw) /\ Keeps(t, v)
    BY CreatedIs, CreateKeeps
  <1>2. k \in Slots /\ v[k].used
    BY <1>1, FindIs DEF IsFile
  <1>3. v \in [Slots -> Entry] /\ v[k] \in [used : {TRUE}, name : Paths, is_dir : BOOLEAN, data : Data]
    <2>1. v \in [Slots -> Entry] /\ v[k] \in Entry
      BY <1>1, <1>2 DEF Tables
    <2>2. v[k] # Unused
      BY <1>2, UnusedIs
    <2> QED
      BY <2>1, <2>2 DEF Entry
  <1> HIDE DEF v
  <1> DEFINE e == [v[k] EXCEPT !.data = Clip(d)]
             w == [v EXCEPT ![k] = e]
  <1>4. fs_write(t, raw, d) = w
    BY DEF fs_write, SetData, v
  <1>5. e.used /\ e.name = v[k].name /\ e.is_dir = v[k].is_dir
    BY <1>3
  <1> HIDE DEF k, e
  <1>6. w[k] = e /\ \A s \in Slots \ {k} : w[s] = v[s]
    BY <1>2, <1>3
  <1> HIDE DEF w
  <1>7. Keeps(v, w)
    BY <1>2, <1>5, <1>6 DEF Keeps
  <1> QED
    BY <1>1, <1>4, <1>7 DEF Keeps

LEMMA SyscallKeeps ==
    ASSUME FInv, Syscall
    PROVE  Keeps(files, files')
  <1>1. files \in Tables /\ FdsInv
    BY DEF FInv
  <1>2. ASSUME files' = files PROVE Keeps(files, files')
    BY <1>2 DEF Keeps
  <1>3. ASSUME NEW raw \in Raw, NEW creat \in BOOLEAN, NEW trunc \in BOOLEAN, Open(raw, creat, trunc)
        PROVE  Keeps(files, files')
    <2> DEFINE f == Created(files, raw)
    <2>1. CanWrite(files, raw)
      BY <1>3 DEF Open, CanWrite, IsFile, IsDir
    <2>2. f \in Tables /\ IsFile(f, raw) /\ Keeps(files, f)
      BY <1>1, <2>1, CreatedIs, CreateKeeps
    <2>3. files' = f \/ files' = fs_write(f, raw, <<>>)
      BY <1>3 DEF Open, Opened
    <2> HIDE DEF f
    <2>4. Keeps(f, fs_write(f, raw, <<>>))
      BY <2>2, WriteKeeps DEF CanWrite
    <2> QED
      BY <2>2, <2>3, <2>4 DEF Keeps
  <1>4. ASSUME NEW fd \in Fds, NEW d \in Data, FdWrite(fd, d) PROVE Keeps(files, files')
    <2>1. g_fds[fd].name \in Raw
      BY <1>1, <1>4, FdIs DEF FdWrite
    <2>2. CASE CanWrite(files, g_fds[fd].name)
      <3>1. files' = fs_write(files, g_fds[fd].name, Clip(g_fds[fd].buf \o d))
        BY <1>4, <2>2 DEF FdWrite, Changed
      <3> QED
        BY <1>1, <2>1, <2>2, <3>1, WriteKeeps
    <2>3. CASE ~CanWrite(files, g_fds[fd].name)
      BY <1>2, <1>4, <2>3 DEF FdWrite
    <2> QED
      BY <2>2, <2>3
  <1>5. ASSUME NEW fd \in Fds,
               \/ \E n \in 0 .. MAX_SIZE : FdRead(fd, n)
               \/ \E np \in -1 .. MAX_SIZE + 1 : FdSeek(fd, np)
               \/ FdClose(fd)
        PROVE  Keeps(files, files')
    BY <1>2, <1>5 DEF FdRead, FdSeek, FdClose
  <1> QED
    BY <1>3, <1>4, <1>5 DEF Syscall

\* A file operation, of the main thread or of a process: an entry it changes while a save
\* runs keeps its name and kind, so what is saved of it stays its own.
LEMMA FileStepKeeps ==
    ASSUME DInv, FileStep
    PROVE  DInv'
  <1>1. FInv' /\ (Store!Next \/ Strands \/ UNCHANGED Content(files))
    <2>1. [Next]_vars
      BY DEF FileStep, Next
    <2> QED
      BY <2>1, Step DEF DInv
  <1>2. DirsHold(Content(files))'
    BY <1>1, DirsStayEmpty DEF DInv, FInv
  <1>3. /\ changed' = (IF pc = "idle" THEN {} ELSE changed \cup Changes) /\ unreadable' = {}
        /\ super' = super /\ disk' = disk /\ pc' = pc /\ i' = i /\ hdr' = hdr /\ data' = data
        /\ lost' = lost
    BY DEF FileStep
  <1>4. ImageInv'
    BY <1>3 DEF DInv, ImageInv
  <1>5. SaveInv
    BY DEF DInv
  <1>6. CASE pc = "idle"
    <2>1. changed' = {} /\ i' = 0
      BY <1>3, <1>5, <1>6 DEF SaveInv
    <2>2. \A s \in Slots : ~(s < i')
      BY <2>1, Counts
    <2>3. SaveInv'
      BY <1>3, <1>5, <1>6, <2>1, <2>2 DEF SaveInv
    <2> QED
      BY <1>1, <1>2, <1>4, <2>3 DEF DInv
  <1>7. CASE pc # "idle"
    <2>1. Keeps(files, files')
      BY <1>7, SyscallKeeps DEF FileStep, DInv
    <2>2. changed' \subseteq Slots /\ changed \subseteq changed'
          /\ \A s \in Slots \ changed' : files'[s] = files[s]
      BY <1>3, <1>5, <1>7 DEF Changes, SaveInv
    <2>3. ASSUME NEW s \in Slots, files[s].name # <<>>
          PROVE  files'[s].name = files[s].name /\ files'[s].is_dir = files[s].is_dir
      BY <2>1, <2>3, EntryOf DEF Keeps
    <2>4. ASSUME NEW s \in Slots \ lost, Saved(s) PROVE Saved(s)'
      <3>1. CASE s \notin changed'
        BY <1>3, <2>2, <2>4, <3>1 DEF Saved, Carries, OnDisk
      <3>2. CASE s \in changed'
        <4>1. disk[s].name # <<>> => disk[s].name = files[s].name /\ disk[s].is_dir = files[s].is_dir
          BY <2>4 DEF Saved, Carries
        <4> QED
          BY <1>3, <2>3, <3>2, <4>1 DEF Saved
      <3> QED
        BY <3>1, <3>2
    <2>5. ASSUME pc \in {"header", "data"}
          PROVE  /\ i \in Slots /\ Heads(hdr, files'[i])
                 /\ i \notin changed' => hdr = HeaderOf(files'[i]) /\ files'[i] = files[i]
      <3>1. i \in Slots /\ Heads(hdr, files[i]) /\ (i \notin changed => hdr = HeaderOf(files[i]))
        BY <1>5, <2>5 DEF SaveInv
      <3> QED
        BY <2>2, <2>3, <3>1 DEF Heads
    <2>6. SaveInv'
      BY <1>3, <1>5, <1>7, <2>2, <2>4, <2>5 DEF SaveInv
    <2> QED
      BY <1>1, <1>2, <1>4, <2>6 DEF DInv
  <1> QED
    BY <1>6, <1>7

LEMMA SaveBeginKeeps ==
    ASSUME DInv, SaveBegin
    PROVE  DInv'
  <1>1. /\ files' = files /\ dirty' = dirty /\ g_fds' = g_fds /\ disk' = disk
        /\ i' = i /\ hdr' = hdr /\ data' = data /\ changed' = changed /\ lost' = lost
        /\ unreadable' = {} /\ i = 0 /\ changed = {} /\ lost = {}
    BY DEF SaveBegin, memory, DInv, SaveInv
  <1>2. super' \in BOOLEAN /\ pc' \in {"idle", "copy"}
    BY DEF SaveBegin, DInv, ImageInv
  <1>3. FInv' /\ DirsHold(Content(files))'
    BY <1>1 DEF DInv, FInv, FdsInv
  <1>4. ImageInv'
    BY <1>1, <1>2 DEF DInv, ImageInv
  <1>5. SaveInv'
    <2>1. \A s \in Slots : ~(s < i')
      BY <1>1, Counts
    <2> QED
      BY <1>1, <1>2, <2>1 DEF DInv, SaveInv
  <1> QED
    BY <1>3, <1>4, <1>5 DEF DInv

\* What is left when the save gives up, or is done.
LEMMA Stopped ==
    ASSUME Stop
    PROVE  SaveInv'
  <1>1. /\ pc' = "idle" /\ i' = 0 /\ hdr' = NoHeader /\ data' = <<>> /\ changed' = {} /\ lost' = {}
    BY DEF Stop
  <1>2. i' \in 0 .. NFILES /\ \A s \in Slots : ~(s < i')
    BY <1>1, Counts
  <1> QED
    BY <1>1, <1>2, NoHeaderIs, NoData DEF SaveInv

LEMMA SaveCopyKeeps ==
    ASSUME DInv, SaveCopy
    PROVE  DInv'
  <1>1. /\ files' = files /\ dirty' = dirty /\ g_fds' = g_fds /\ super' = super /\ disk' = disk
        /\ i' = i /\ data' = data /\ changed' = changed /\ lost' = lost /\ unreadable' = {}
        /\ hdr' = HeaderOf(files[i]) /\ pc' = "header" /\ i \in Slots /\ pc = "copy"
    BY Counts DEF SaveCopy, memory, DInv, SaveInv
  <1>2. FInv' /\ DirsHold(Content(files))'
    BY <1>1 DEF DInv, FInv, FdsInv
  <1>3. ImageInv'
    BY <1>1 DEF DInv, ImageInv
  <1>4. /\ files[i].name \in Paths \cup {<<>>} /\ files[i].is_dir \in BOOLEAN
        /\ Len(files[i].data) \in 0 .. MAX_SIZE /\ (files[i].is_dir => files[i].data = <<>>)
    BY <1>1, EntryOf
  <1>5. /\ hdr' \in [name : Paths \cup {<<>>}, is_dir : BOOLEAN, size : 0 .. MAX_SIZE]
        /\ hdr'.is_dir => hdr'.size = 0
        /\ Heads(hdr', files[i])
    <2>1. Len(<<>>) = 0
      OBVIOUS
    <2> QED
      BY <1>1, <1>4, <2>1 DEF HeaderOf, Heads
  <1>6. \A s \in Slots : Saved(s) => Saved(s)'
    BY <1>1 DEF Saved, Carries, OnDisk
  <1>7. SaveInv'
    BY <1>1, <1>5, <1>6 DEF DInv, SaveInv
  <1> QED
    BY <1>2, <1>3, <1>7 DEF DInv

LEMMA PassedIs ==
    ASSUME NEW written \in BOOLEAN, Passed(written), lost \subseteq Slots, i \in Slots
    PROVE  lost' \subseteq Slots /\ lost \subseteq lost' /\ (i \notin lost' => written)
           /\ \A s \in Slots \ {i} : s \in lost' <=> s \in lost
  BY DEF Passed

LEMMA SaveHeaderKeeps ==
    ASSUME DInv, SaveHeader
    PROVE  DInv'
  <1> DEFINE h == Header(disk[i], hdr)
  <1>1. /\ files' = files /\ dirty' = dirty /\ g_fds' = g_fds
        /\ super' = super /\ unreadable' = {} /\ pc = "header" /\ i \in Slots
        /\ ImageInv /\ SaveInv
    BY DEF SaveHeader, memory, DInv, SaveInv
  <1>2. FInv' /\ DirsHold(Content(files))'
    BY <1>1 DEF DInv, FInv, FdsInv
  <1>3. PICK written \in BOOLEAN :
            /\ disk' = IF written THEN [disk EXCEPT ![i] = h] ELSE disk
            /\ \/ /\ Passed(written)
                  /\ \/ files[i].is_dir /\ NextSlot
                     \/ /\ ~files[i].is_dir
                        /\ data' = IF hdr.name # <<>> THEN files[i].data ELSE <<>>
                        /\ pc' = "data" /\ UNCHANGED <<i, hdr, changed>>
               \/ Stop
    BY DEF SaveHeader
  <1>4. /\ disk \in [Slots -> Images] /\ disk[i] \in Images
        /\ hdr \in [name : Paths \cup {<<>>}, is_dir : BOOLEAN, size : 0 .. MAX_SIZE]
        /\ hdr.is_dir => hdr.size = 0
        /\ Heads(hdr, files[i]) /\ (i \notin changed => hdr = HeaderOf(files[i]))
        /\ changed \subseteq Slots /\ lost \subseteq Slots
    BY <1>1 DEF ImageInv, SaveInv
  <1>5. h \in Images /\ h.name = hdr.name /\ h.is_dir = hdr.is_dir /\ h.size = hdr.size
    BY <1>4 DEF Header, Images
  <1> HIDE DEF h
  <1>6. /\ disk' \in [Slots -> Images] /\ (written => disk'[i] = h) /\ (~written => disk'[i] = disk[i])
        /\ \A s \in Slots \ {i} : disk'[s] = disk[s]
    BY <1>1, <1>3, <1>4, <1>5
  <1>7. ImageInv'
    <2>1. \A s \in Slots : disk'[s].is_dir => disk'[s].size = 0
      BY <1>1, <1>4, <1>5, <1>6 DEF ImageInv
    <2> QED
      BY <1>1, <1>6, <2>1 DEF ImageInv
  <1>8. CASE Stop
    BY <1>2, <1>7, <1>8, Stopped DEF DInv
  <1>9. ASSUME Passed(written), changed' = changed,
               NEW s \in Slots, s \notin lost', s < i
        PROVE  Saved(s)'
    <2>1. s # i /\ s \notin lost
      BY <1>1, <1>4, <1>9, PassedIs, Counts
    <2>2. Saved(s) /\ disk'[s] = disk[s]
      BY <1>1, <1>6, <1>9, <2>1 DEF SaveInv
    <2> QED
      BY <1>1, <1>9, <2>2 DEF Saved, Carries, OnDisk
  <1>10. CASE Passed(written) /\ files[i].is_dir /\ NextSlot
    <2>1. /\ pc' = "copy" /\ i' = i + 1 /\ hdr' = NoHeader /\ data' = <<>> /\ changed' = changed
      BY <1>10 DEF NextSlot
    <2>2. ASSUME NEW s \in Slots, s = i, s \notin lost' PROVE Saved(s)'
      <3>1. written /\ disk'[i] = h
        BY <1>1, <1>4, <1>6, <1>10, <2>2, PassedIs
      <3>2. CASE i \notin changed
        <4>1. hdr = HeaderOf(files[i]) /\ files[i].data = <<>>
          BY <1>1, <1>4, <1>10, <3>2, EntryOf
        <4>2. /\ h.name = files[i].name /\ h.is_dir = files[i].is_dir /\ h.size = Len(files[i].data)
          BY <1>5, <4>1 DEF HeaderOf
        <4>3. h.size = 0
          BY <4>1, <4>2
        <4>4. OnDisk(h) = <<>>
          BY <4>3, SubSeqEmpty DEF OnDisk
        <4>5. Carries(h, files[i])
          BY <4>1, <4>2, <4>4 DEF Carries
        <4> QED
          BY <1>1, <2>1, <2>2, <3>1, <3>2, <4>5 DEF Saved, Carries, OnDisk
      <3>3. CASE i \in changed
        BY <1>1, <1>4, <1>5, <2>1, <2>2, <3>1, <3>3 DEF Saved, Heads
      <3> QED
        BY <3>2, <3>3
    <2>3. \A s \in Slots \ lost' : s < i' => Saved(s)'
      <3> SUFFICES ASSUME NEW s \in Slots \ lost', s < i + 1 PROVE Saved(s)'
        BY <2>1
      <3>1. s < i \/ s = i
        BY <1>1, Counts
      <3> QED
        BY <1>9, <1>10, <2>1, <2>2, <3>1
    <2>4. i' \in 0 .. NFILES /\ lost' \subseteq Slots /\ changed' \subseteq Slots
      BY <1>1, <1>4, <1>10, <2>1, PassedIs, Counts
    <2>5. SaveInv'
      BY <2>1, <2>3, <2>4, NoHeaderIs, NoData DEF SaveInv
    <2> QED
      BY <1>2, <1>7, <2>5 DEF DInv
  <1>11. CASE /\ Passed(written) /\ ~files[i].is_dir
              /\ data' = IF hdr.name # <<>> THEN files[i].data ELSE <<>>
              /\ pc' = "data" /\ UNCHANGED <<i, hdr, changed>>
    <2>1. i' = i /\ hdr' = hdr /\ changed' = changed /\ i' \in 0 .. NFILES
      BY <1>1, <1>11, Counts
    <2>2. data' \in Data
      BY <1>1, <1>11, EntryOf, NoData
    <2>3. i \notin changed => data' = files[i].data
      <3> SUFFICES ASSUME i \notin changed, hdr.name = <<>> PROVE files[i].data = <<>>
        BY <1>11
      <3>1. files[i].name = <<>>
        BY <1>4 DEF HeaderOf
      <3>2. ~files[i].used /\ files[i] \in Entry
        BY <1>1, <3>1, EntryOf
      <3>3. files[i] = Unused
        BY <3>2, EntryIs
      <3> QED
        BY <3>3, UnusedIs
    <2>4. i \notin lost' => /\ disk'[i].name = hdr.name /\ disk'[i].is_dir = hdr.is_dir
                            /\ disk'[i].size = hdr.size
      BY <1>1, <1>4, <1>5, <1>6, <1>11, PassedIs
    <2>5. lost' \subseteq Slots
      BY <1>1, <1>4, <1>11, PassedIs
    <2>6. \A s \in Slots \ lost' : s < i => Saved(s)'
      BY <1>9, <1>11, <2>1
    <2>7. SaveInv'
      BY <1>1, <1>4, <1>11, <2>1, <2>2, <2>3, <2>4, <2>5, <2>6 DEF SaveInv
    <2> QED
      BY <1>2, <1>7, <2>7 DEF DInv
  <1> QED
    BY <1>3, <1>8, <1>10, <1>11

\* What the disk keeps of data that was written in full.
LEMMA AreaIs ==
    ASSUME NEW d \in Data
    PROVE  /\ Area(d) \in [1 .. MAX_SIZE -> Blocks]
           /\ SubSeq(Area(d), 1, Len(d)) = d
  <1>1. d \in Seq(Blocks) /\ Len(d) \in Nat /\ Len(d) <= MAX_SIZE /\ MAX_SIZE \in Nat
    BY DataIs, LenProperties, TableAssumption
  <1>2. \A b \in 1 .. Len(d) : d[b] \in Blocks
    BY <1>1, LenProperties
  <1>3. Area(d) \in [1 .. MAX_SIZE -> Blocks]
    BY <1>1, <1>2, ZeroAssumption DEF Area
  <1>4. \A b \in 1 .. Len(d) : Area(d)[b] = d[b]
    BY <1>1 DEF Area
  <1> DEFINE a == Area(d)
  <1> HIDE DEF a
  <1>5. \A b \in 1 .. Len(d) : a[b] \in Blocks
    BY <1>2, <1>4 DEF a
  <1>6. /\ SubSeq(a, 1, Len(d)) \in Seq(Blocks)
        /\ Len(SubSeq(a, 1, Len(d))) = Len(d)
        /\ \A b \in 1 .. Len(d) : SubSeq(a, 1, Len(d))[b] = a[b]
    <2>1. /\ SubSeq(a, 1, Len(d)) \in Seq(Blocks)
          /\ Len(SubSeq(a, 1, Len(d))) = IF 1 <= Len(d) THEN Len(d) - 1 + 1 ELSE 0
          /\ \A b \in 1 .. Len(d) - 1 + 1 : SubSeq(a, 1, Len(d))[b] = a[1 + b - 1]
      BY <1>1, <1>5, SubSeqProperties
    <2> QED
      BY <1>1, <2>1
  <1>7. SubSeq(a, 1, Len(d)) = d
    <2>1. \A b \in 1 .. Len(d) : SubSeq(a, 1, Len(d))[b] = d[b]
      BY <1>4, <1>6 DEF a
    <2> QED
      BY <1>1, <1>6, <2>1, SeqEqual
  <1> QED
    BY <1>3, <1>7 DEF a

LEMMA SaveDataKeeps ==
    ASSUME DInv, SaveData
    PROVE  DInv'
  <1> DEFINE w(done) == [b \in 1 .. MAX_SIZE |-> IF b <= done THEN Area(data)[b]
                                                 ELSE disk[i].data[b]]
  <1>1. PICK done \in 0 .. MAX_SIZE :
            /\ disk' = [disk EXCEPT ![i].data = w(done)]
            /\ (Passed(done = MAX_SIZE) /\ NextSlot) \/ Stop
    BY DEF SaveData
  <1>2. /\ files' = files /\ dirty' = dirty /\ g_fds' = g_fds
        /\ super' = super /\ unreadable' = {} /\ pc = "data" /\ i \in Slots
        /\ ImageInv /\ SaveInv
    BY DEF SaveData, memory, DInv, SaveInv
  <1>3. FInv' /\ DirsHold(Content(files))'
    BY <1>2 DEF DInv, FInv, FdsInv
  <1>4. /\ data \in Data /\ changed \subseteq Slots /\ lost \subseteq Slots
        /\ Heads(hdr, files[i])
        /\ i \notin changed => hdr = HeaderOf(files[i]) /\ data = files[i].data
        /\ i \notin lost => /\ disk[i].name = hdr.name /\ disk[i].is_dir = hdr.is_dir
                            /\ disk[i].size = hdr.size
    BY <1>2 DEF SaveInv
  <1>5. disk \in [Slots -> Images] /\ disk[i] \in Images
    BY <1>2 DEF ImageInv
  <1>6. w(done) \in [1 .. MAX_SIZE -> Blocks]
    <2>1. Area(data) \in [1 .. MAX_SIZE -> Blocks]
      BY <1>4, AreaIs
    <2>2. disk[i].data \in [1 .. MAX_SIZE -> Blocks]
      BY <1>5 DEF Images
    <2> QED
      BY <2>1, <2>2
  <1> DEFINE h == [disk[i] EXCEPT !.data = w(done)]
             area == w(done)
  <1>7. /\ h \in Images /\ h.name = disk[i].name /\ h.is_dir = disk[i].is_dir
        /\ h.size = disk[i].size /\ h.data = area
    <2> HIDE DEF w
    <2> QED
      BY <1>5, <1>6 DEF Images
  <1>8. done = MAX_SIZE => area = Area(data)
    BY DEF Area
  <1>9. disk' = [disk EXCEPT ![i] = h]
    BY <1>1
  <1> HIDE DEF h, area
  <1>10. disk' \in [Slots -> Images] /\ disk'[i] = h /\ \A s \in Slots \ {i} : disk'[s] = disk[s]
    BY <1>2, <1>5, <1>7, <1>9
  <1>11. ImageInv'
    <2>1. \A s \in Slots : disk'[s].is_dir => disk'[s].size = 0
      BY <1>2, <1>7, <1>10 DEF ImageInv
    <2> QED
      BY <1>2, <1>10, <2>1 DEF ImageInv
  <1>12. CASE Stop
    BY <1>3, <1>11, <1>12, Stopped DEF DInv
  <1>13. CASE Passed(done = MAX_SIZE) /\ NextSlot
    <2>1. /\ pc' = "copy" /\ i' = i + 1 /\ hdr' = NoHeader /\ data' = <<>> /\ changed' = changed
      BY <1>13 DEF NextSlot
    <2>2. /\ lost' \subseteq Slots /\ lost \subseteq lost' /\ (i \notin lost' => done = MAX_SIZE)
          /\ \A s \in Slots \ {i} : s \in lost' <=> s \in lost
      BY <1>2, <1>4, <1>13, PassedIs
    <2>3. ASSUME NEW s \in Slots, s \notin lost', s < i PROVE Saved(s)'
      <3>1. s # i /\ s \notin lost
        BY <1>2, <2>2, <2>3, Counts
      <3>2. Saved(s) /\ disk'[s] = disk[s]
        BY <1>2, <1>10, <2>3, <3>1 DEF SaveInv
      <3> QED
        BY <1>2, <2>1, <3>2 DEF Saved, Carries, OnDisk
    <2>4. ASSUME NEW s \in Slots, s = i, s \notin lost' PROVE Saved(s)'
      <3>1. /\ done = MAX_SIZE /\ i \notin lost
            /\ h.name = hdr.name /\ h.is_dir = hdr.is_dir /\ h.size = hdr.size
        BY <1>4, <1>7, <2>2, <2>4
      <3>2. CASE i \notin changed
        <4>1. /\ h.name = files[i].name /\ h.is_dir = files[i].is_dir
              /\ h.size = Len(files[i].data) /\ data = files[i].data
          BY <1>4, <3>1, <3>2 DEF HeaderOf
        <4>2. SubSeq(h.data, 1, h.size) = files[i].data
          BY <1>4, <1>7, <1>8, <3>1, <4>1, AreaIs
        <4>3. Carries(h, files[i])
          BY <4>1, <4>2 DEF Carries, OnDisk
        <4> QED
          BY <1>2, <1>10, <2>1, <2>4, <3>2, <4>3 DEF Saved, Carries, OnDisk
      <3>3. CASE i \in changed
        BY <1>2, <1>4, <1>10, <2>1, <2>4, <3>1, <3>3 DEF Saved, Heads
      <3> QED
        BY <3>2, <3>3
    <2>5. \A s \in Slots \ lost' : s < i' => Saved(s)'
      <3> SUFFICES ASSUME NEW s \in Slots \ lost', s < i + 1 PROVE Saved(s)'
        BY <2>1
      <3>1. s < i \/ s = i
        BY <1>2, Counts
      <3> QED
        BY <2>3, <2>4, <3>1
    <2>6. i' \in 0 .. NFILES /\ changed' \subseteq Slots
      BY <1>2, <1>4, <2>1, Counts
    <2>7. SaveInv'
      BY <2>1, <2>2, <2>5, <2>6, NoHeaderIs, NoData DEF SaveInv
    <2> QED
      BY <1>3, <1>11, <2>7 DEF DInv
  <1> QED
    BY <1>1, <1>12, <1>13

LEMMA SaveEndKeeps ==
    ASSUME DInv, SaveEnd
    PROVE  DInv'
  <1>1. /\ files' = files /\ dirty' = FALSE /\ g_fds' = g_fds /\ Stop
        /\ super' = super /\ disk' = disk /\ unreadable' = {}
    BY DEF SaveEnd
  <1>2. FInv' /\ DirsHold(Content(files))'
    BY <1>1 DEF DInv, FInv, FdsInv
  <1>3. ImageInv'
    BY <1>1 DEF DInv, ImageInv
  <1> QED
    BY <1>1, <1>2, <1>3, Stopped DEF DInv

\* A restart starts from the disk, whatever the memory was.
LEMMA RestartKeeps ==
    ASSUME DInv, Restart
    PROVE  DInv'
  <1>1. /\ files' \in {Empty, Mounted} /\ dirty' \in BOOLEAN /\ Stop
        /\ g_fds' = [fd \in Fds |-> Closed] /\ unreadable' \in SUBSET Slots
        /\ super' = super /\ disk' = disk
    BY DEF Restart
  <1>2. ImageInv
    BY DEF DInv
  <1>3. files' \in Tables /\ DirsHold(Content(files'))
    <2>1. Empty \in Tables /\ DirsHold(Content(Empty))
      BY EmptyTable DEF DirsHold, Store!NoNames
    <2>2. Mounted \in Tables /\ DirsHold(Content(Mounted))
      BY <1>2, MountedMade DEF Made
    <2> QED
      BY <1>1, <2>1, <2>2
  <1>4. FdsInv'
    <2>1. Closed \in Descriptors /\ ~Closed.used
      BY NoData DEF Closed, Descriptors
    <2> QED
      BY <1>1, <2>1 DEF FdsInv
  <1>5. ImageInv'
    BY <1>1, <1>2 DEF ImageInv
  <1>6. SaveInv'
    BY <1>1, Stopped
  <1> QED
    BY <1>1, <1>3, <1>4, <1>5, <1>6 DEF DInv, FInv

LEMMA DStep == DInv /\ [DNext]_dvars => DInv'
  <1> SUFFICES ASSUME DInv, [DNext]_dvars PROVE DInv'
    OBVIOUS
  <1>1. CASE UNCHANGED dvars
    <2>1. /\ files' = files /\ dirty' = dirty /\ g_fds' = g_fds /\ super' = super /\ disk' = disk
          /\ pc' = pc /\ i' = i /\ hdr' = hdr /\ data' = data /\ changed' = changed /\ lost' = lost
          /\ unreadable' = unreadable
      BY <1>1 DEF dvars, memory, saving
    <2>2. \A s \in Slots : Saved(s) => Saved(s)'
      BY <2>1 DEF Saved, Carries, OnDisk
    <2>3. SaveInv'
      BY <2>1, <2>2 DEF DInv, SaveInv
    <2> QED
      BY <2>1, <2>3 DEF DInv, FInv, FdsInv, ImageInv
  <1> QED
    BY <1>1, FileStepKeeps, SaveBeginKeeps, SaveCopyKeeps, SaveHeaderKeeps, SaveDataKeeps, SaveEndKeeps,
       RestartKeeps DEF DNext

\* The inductive invariant holds of every disk, table and number of descriptors.
THEOREM DiskInvariant == DSpec => []DInv
  <1>1. DInit => DInv
    BY DStart
  <1>2. DInv /\ [DNext]_dvars => DInv'
    BY DStep
  <1> QED
    BY <1>1, <1>2, PTL DEF DSpec

-----------------------------------------------------------------------------
(***************************************************************************)
(* The theorems.                                                           *)
(***************************************************************************)

\* The table and the disk hold entries with stored names and data that fits, and the
\* save is in a slot of the table, for any number of slots and any failure (fs.c).
THEOREM DiskTypeCorrect == DSpec => []DTypeOK
  <1>1. DInv => DTypeOK
    <2> SUFFICES ASSUME DInv PROVE DTypeOK
      OBVIOUS
    <2>1. TypeOK
      BY InvImplies DEF DInv
    <2>2. /\ super \in BOOLEAN /\ changed \subseteq Slots /\ lost \subseteq Slots
          /\ unreadable \subseteq Slots /\ disk \in [Slots -> Images]
          /\ pc \in {"idle", "copy", "header", "data"} /\ i \in 0 .. NFILES
      BY DEF DInv, ImageInv, SaveInv
    <2> QED
      BY <2>1, <2>2 DEF DTypeOK, Images
  <1> QED
    BY <1>1, DiskInvariant, PTL

\* Whatever a save left on the disk, whole, cut short or raced, the table fs_disk_mount
\* makes of it has one entry per name, and so does what is made of that table.
THEOREM MountedStaysUnique == DSpec => []MountedUnique
  <1>1. DInv => MountedUnique
    BY DEF DInv, FInv, Tables, MountedUnique
  <1> QED
    BY <1>1, DiskInvariant, PTL

\* The entries of a table are the contents of its names.
LEMMA EntriesAre ==
    ASSUME NEW t \in Tables
    PROVE  Entries(t) = {[name |-> n, is_dir |-> Content(t)[n].is_dir, data |-> Content(t)[n].data] :
                         n \in DOMAIN Content(t)}
  <1>1. DOMAIN Content(t) = Named(t)
    BY ContentIs
  <1>2. ASSUME NEW s \in Slots, t[s].used
        PROVE  /\ t[s].name \in Named(t)
               /\ Content(t)[t[s].name].is_dir = t[s].is_dir
               /\ Content(t)[t[s].name].data = t[s].data
    <2>1. Content(t)[t[s].name] = Holds(t[s])
      BY <1>2, ContentIs
    <2>2. t[s].name \in Named(t)
      BY <1>2 DEF Named
    <2> QED
      BY <2>1, <2>2 DEF Holds
  <1>3. ASSUME NEW n \in Named(t)
        PROVE  \E s \in Slots : t[s].used /\ t[s].name = n
    BY DEF Named
  <1> QED
    BY <1>1, <1>2, <1>3 DEF Entries, Named

\* fs_disk_mount invents nothing: an entry it makes is a slot's of the disk, with the
\* slot's kind and content, for any disk and any set of sectors that cannot be read.
THEOREM MountAddsOnlyStored == DSpec => MountInventsNothing
  <1>1. DInv /\ [DNext]_dvars => [Restart => Entries(files') \subseteq DiskEntries]_dvars
    <2> SUFFICES ASSUME DInv, Restart, NEW e \in Entries(files') PROVE e \in DiskEntries
      OBVIOUS
    <2>1. ImageInv /\ files' \in {Empty, Mounted}
      BY DEF DInv, Restart
    <2>2. CASE files' = Empty
      BY <2>2, UnusedIs DEF Entries, Empty
    <2>3. CASE files' = Mounted
      <3>1. Made(files', Stored) /\ files' \in Tables
        BY <2>1, <2>3, MountedMade DEF Made
      <3>2. PICK n \in DOMAIN Content(files') :
                e = [name |-> n, is_dir |-> Content(files')[n].is_dir,
                     data |-> Content(files')[n].data]
        BY <3>1, EntriesAre
      <3>3. PICK s \in Stored : disk[s].name = n /\ Content(files')[n] = Gives(s)
        BY <3>1 DEF Made
      <3>4. e = DiskEntry(s)
        BY <3>2, <3>3 DEF Gives, Holds, DiskEntry
      <3> QED
        BY <3>4 DEF DiskEntries
    <2> QED
      BY <2>1, <2>2, <2>3
  <1> QED
    BY <1>1, DiskInvariant, PTL DEF DSpec, MountInventsNothing

\* A save that comes to its end leaves each slot of the disk as the table has it, for any
\* number of writes lost without the drive's error being seen, processes that race with
\* it, and remains of earlier saves (fs_disk_save, ata_write_sectors).
THEOREM SaveLeavesTheTable == DSpec => SaveIsComplete
  <1>1. DInv /\ [DNext]_dvars =>
          [SaveEnd => /\ \A s \in Slots \ lost : Saved(s)
                      /\ changed \cup lost = {} => DiskEntries = Entries(files)]_dvars
    <2> SUFFICES ASSUME DInv, SaveEnd
                 PROVE  /\ \A s \in Slots \ lost : Saved(s)
                        /\ changed \cup lost = {} => DiskEntries = Entries(files)
      OBVIOUS
    <2>0. \A s \in Slots \ lost : Saved(s)
      BY Counts DEF DInv, SaveInv, SaveEnd
    <2> SUFFICES ASSUME changed = {}, lost = {} PROVE DiskEntries = Entries(files)
      BY <2>0
    <2>1. \A s \in Slots : Carries(disk[s], files[s])
      BY <2>0 DEF Saved
    <2>2. ASSUME NEW s \in Slots
          PROVE  /\ s \in Stored <=> files[s].used
                 /\ DiskEntry(s) = [name |-> files[s].name, is_dir |-> files[s].is_dir,
                                    data |-> files[s].data]
      <3>1. disk[s].name = files[s].name /\ disk[s].is_dir = files[s].is_dir
            /\ OnDisk(disk[s]) = files[s].data
        BY <2>1 DEF Carries
      <3> QED
        BY <3>1, EntryOf DEF Stored, DiskEntry
    <2>3. Stored = {s \in Slots : files[s].used}
      BY <2>2 DEF Stored
    <2> QED
      BY <2>2, <2>3 DEF DiskEntries, Entries
  <1> QED
    BY <1>1, DiskInvariant, PTL DEF DSpec, SaveIsComplete

-----------------------------------------------------------------------------
(***************************************************************************)
(* What a restart restores.                                                *)
(***************************************************************************)

\* A table made of the slots in S has room for one more slot: names tell its entries
\* apart, so it has no more of them than S has slots.
LEMMA RoomFor ==
    ASSUME NEW S \in SUBSET Slots, NEW t, Made(t, S), NEW s \in Slots \ S
    PROVE  FreeSlot(t) # NoSlot
  <1> SUFFICES ASSUME FreeSlot(t) = NoSlot PROVE FALSE
    OBVIOUS
  <1>1. t \in Tables /\ \A k \in Slots : t[k].used
    <2> DEFINE free == {k \in Slots : ~t[k].used}
    <2>1. free \in SUBSET Nat
      BY SlotsAreNats
    <2>2. free = {}
      BY <2>1, FirstIsIn DEF FreeSlot
    <2> QED
      BY <2>2 DEF Made
  <1> DEFINE f == [k \in Slots |-> CHOOSE r \in S : disk[r].name = t[k].name]
  <1>2. \A k \in Slots : f[k] \in S /\ disk[f[k]].name = t[k].name
    <2>1. ASSUME NEW k \in Slots PROVE \E r \in S : disk[r].name = t[k].name
      <3>1. t[k].name \in DOMAIN Content(t)
        BY <1>1, ContentIs DEF Named
      <3> QED
        BY <3>1 DEF Made
    <2> QED
      BY <2>1
  <1>3. f \in [Slots -> Slots \ {s}]
    BY <1>2
  <1>4. /\ IsFiniteSet(Slots) /\ IsFiniteSet(Slots \ {s})
        /\ Cardinality(Slots \ {s}) < Cardinality(Slots)
    <2>1. IsFiniteSet(Slots) /\ Cardinality(Slots) \in Nat
      BY FS_Interval, FS_CardinalityType, Counts
    <2>2. IsFiniteSet(Slots \ {s}) /\ Cardinality(Slots \ {s}) = Cardinality(Slots) - 1
      BY <2>1, FS_RemoveElement
    <2> QED
      BY <2>1, <2>2
  <1> HIDE DEF f
  <1>5. PICK x, y \in Slots : x # y /\ f[x] = f[y]
    BY <1>3, <1>4, FS_PigeonHole
  <1>6. t[x].name = t[y].name
    BY <1>2, <1>5
  <1> QED
    BY <1>1, <1>5, <1>6 DEF Tables, Unique

\* A slot whose name is not in the table yet, and whose parent is, can be added.
LEMMA Addable ==
    ASSUME ImageInv, DiskUnique, NEW S \in SUBSET Stored, NEW t, Made(t, S),
           NEW s \in Stored \ S,
           \/ Front(disk[s].name) = <<>>
           \/ Front(disk[s].name) \in DOMAIN Content(t) \cap Paths
    PROVE  CanAdd(t, disk[s].name)
  <1>1. t \in Tables /\ Stored \in SUBSET Slots
    BY DEF Made, Stored
  <1>2. disk[s].name \in Raw /\ fs_normalize(disk[s].name) = disk[s].name
    BY <1>1, SlotIs
  <1>3. ~Exists(t, disk[s].name)
    <2>1. SUFFICES ASSUME disk[s].name \in DOMAIN Content(t) PROVE FALSE
      BY <1>1, <1>2, FindIs, ContentIs
    <2>2. PICK r \in S : disk[r].name = disk[s].name
      BY <2>1 DEF Made
    <2> QED
      BY <2>2 DEF DiskUnique
  <1>4. ParentFound(t, disk[s].name)
    <2>1. CASE Front(disk[s].name) = <<>>
      BY <2>1 DEF ParentFound, fs_parent
    <2>2. CASE Front(disk[s].name) \in DOMAIN Content(t) \cap Paths
      <3> DEFINE p == Front(disk[s].name)
      <3>1. p \in Raw /\ fs_normalize(p) = p /\ p \in DOMAIN Content(t)
        BY <2>2, Normalized
      <3> HIDE DEF p
      <3>2. Exists(t, p)
        BY <1>1, <3>1, FindIs, ContentIs
      <3> QED
        BY <3>2 DEF ParentFound, fs_parent, p
    <2> QED
      BY <2>1, <2>2
  <1>5. FreeSlot(t) # NoSlot
    BY <1>1, RoomFor
  <1> QED
    BY <1>2, <1>3, <1>4, <1>5 DEF CanAdd, NewName

\* The parent of an entry whose directories are stored in order is such an entry, and
\* a directory's comes before it.
Restorable(s) == AllAbove(s) /\ InOrder(s)

LEMMA ParentOf ==
    ASSUME ImageInv, DiskUnique, NEW s \in Stored, Restorable(s), Front(disk[s].name) # <<>>
    PROVE  \E q \in Stored :
              /\ disk[q].name = Front(disk[s].name) /\ disk[q].is_dir /\ disk[q].name \in Paths
              /\ Restorable(q)
              /\ disk[s].is_dir => q < s
  <1> DEFINE n == disk[s].name
             p == Front(n)
             here(name) == {r \in Stored : disk[r].name = name /\ disk[r].is_dir}
  <1>1. Stored \in SUBSET Slots /\ Stored \in SUBSET Nat
    BY SlotsAreNats DEF Stored
  <1>2. n \in Paths /\ n \in Seq(Strings) /\ Len(n) \in Nat \ {0}
    BY <1>1, SlotIs, Absolute
  <1>3. Len(n) >= 2
    <2>1. Len(n) - 1 < 1 => SubSeq(n, 1, Len(n) - 1) = <<>>
      BY <1>2, SubSeqEmpty
    <2> QED
      BY <1>2, <2>1 DEF Front
  <1>4. p = SubSeq(n, 1, Len(n) - 1) /\ p \in Seq(Strings) /\ Len(p) = Len(n) - 1 /\ p \in Above(s)
    <2>1. \A x \in 1 .. Len(n) - 1 : n[x] \in Strings
      BY <1>2, LenProperties
    <2>2. /\ SubSeq(n, 1, Len(n) - 1) \in Seq(Strings)
          /\ Len(SubSeq(n, 1, Len(n) - 1)) =
                IF 1 <= Len(n) - 1 THEN (Len(n) - 1) - 1 + 1 ELSE 0
      BY <1>2, <2>1, SubSeqProperties
    <2>3. p = SubSeq(n, 1, Len(n) - 1)
      BY DEF Front
    <2>4. Len(n) - 1 \in 1 .. Len(n) - 1
      BY <1>2, <1>3
    <2>5. SubSeq(n, 1, Len(n) - 1) \in Above(s)
      BY <2>4 DEF Above
    <2> QED
      BY <1>2, <1>3, <2>2, <2>3, <2>5
  <1> DEFINE q == SlotOf(p)
  <1>5. q \in Stored /\ disk[q].name = p /\ disk[q].is_dir
    <2>1. here(p) \in SUBSET Nat
      BY <1>1
    <2>2. q # NoSlot /\ q = First(here(p))
      BY <1>4 DEF Restorable, AllAbove, SlotOf
    <2>3. q \in here(p)
      <3> HIDE DEF here
      <3> QED
        BY <2>1, <2>2, FirstIsIn
    <2> QED
      BY <2>3
  <1>6. disk[s].is_dir => q < s
    <2> SUFFICES ASSUME disk[s].is_dir PROVE q < s
      OBVIOUS
    <2>1. here(n) = {s}
      BY DEF DiskUnique
    <2>2. SlotOf(n) = s
      <3>1. here(n) \in SUBSET Nat
        BY <1>1
      <3>2. First(here(n)) \in here(n)
        <4>1. here(n) # {}
          BY <2>1
        <4> HIDE DEF here
        <4> QED
          BY <3>1, <4>1, FirstIsIn
      <3> QED
        BY <2>1, <3>2 DEF SlotOf
    <2>3. \A x, y \in Above(s) \cup {n} : Len(x) < Len(y) => SlotOf(x) < SlotOf(y)
      BY DEF Restorable, InOrder
    <2>4. Len(p) < Len(n) /\ p \in Above(s)
      BY <1>2, <1>4
    <2>5. SlotOf(p) < SlotOf(n)
      <3> HIDE DEF p, n
      <3> QED
        BY <2>3, <2>4
    <2> QED
      BY <2>2, <2>5
  <1>7. Above(q) \subseteq Above(s)
    <2> SUFFICES ASSUME NEW m \in 1 .. Len(p) - 1 PROVE SubSeq(p, 1, m) \in Above(s)
      BY <1>5 DEF Above
    <2>1. SubSeq(SubSeq(n, 1, Len(n) - 1), 1, m) = SubSeq(n, 1 + 1 - 1, 1 + m - 1)
      <3>1. /\ 1 \in 1 .. Len(n) /\ Len(n) - 1 \in 1 .. Len(n)
            /\ 1 \in 1 .. (Len(n) - 1) - 1 + 1 /\ m \in 1 .. (Len(n) - 1) - 1 + 1
        BY <1>2, <1>3, <1>4, SMTT(30)
      <3> QED
        BY <1>2, <3>1, SubSeqOfSubSeq
    <2>2. SubSeq(p, 1, m) = SubSeq(n, 1, m) /\ m \in 1 .. Len(n) - 1
      BY <1>2, <1>3, <1>4, <2>1
    <2> QED
      BY <2>2 DEF Above
  <1>8. Restorable(q)
    <2> HIDE DEF q, p, n
    <2>1. AllAbove(q)
      BY <1>7 DEF Restorable, AllAbove
    <2>2. Above(q) \cup {disk[q].name} \subseteq Above(s)
      BY <1>4, <1>5, <1>7
    <2>3. \A x, y \in Above(s) : Len(x) < Len(y) => SlotOf(x) < SlotOf(y)
      BY DEF Restorable, InOrder
    <2>4. InOrder(q)
      BY <2>2, <2>3 DEF InOrder
    <2> QED
      BY <2>1, <2>4 DEF Restorable
  <1>9. p \in Paths
    BY <1>1, <1>5, SlotIs
  <1> QED
    BY <1>5, <1>6, <1>8, <1>9

\* Every directory that can be restored is there once the first pass is behind it.
LEMMA DirsRestored ==
    ASSUME ImageInv, DiskUnique, unreadable' = {}, NEW n \in 0 .. NFILES
    PROVE  \A r \in DirsTo(n) : Restorable(r) => disk[r].name \in DOMAIN Content(PassDirs[n])
  <1> DEFINE There(m) ==
               \A r \in DirsTo(m) : Restorable(r) => disk[r].name \in DOMAIN Content(PassDirs[m])
             Bad == {m \in 0 .. NFILES : ~There(m)}
  <1>1. SUFFICES ASSUME Bad # {} PROVE FALSE
    OBVIOUS
  <1>2. Bad \in SUBSET Nat
    BY Counts
  <1>3. PICK m \in Bad : \A x \in Bad : m <= x
    <2> HIDE DEF Bad
    <2> QED
      BY <1>1, <1>2, NatMin
  <1>4. m \in 0 .. NFILES /\ ~There(m)
    BY <1>3
  <1>5. m # 0
    BY <1>4, Counts DEF DirsTo, Stored
  <1> DEFINE s == m - 1
             t == PassDirs[s]
             u == PassDirs[m]
  <1>6. s \in 0 .. NFILES /\ s \in Slots /\ s \notin Bad /\ m = s + 1
    BY <1>3, <1>4, <1>5, Counts
  <1>7. t \in Tables /\ u = MountDir(t, s) /\ Made(t, DirsTo(s))
    BY <1>6, PassDirsIs, DirsMade
  <1>8. There(s)
    BY <1>6
  <1> HIDE DEF s
  <1>9. DOMAIN Content(t) \subseteq DOMAIN Content(u)
    <2> HIDE DEF t, u
    <2>1. Mounts(t, u, s)
      BY <1>6, <1>7, DirMounted
    <2> QED
      BY <1>7, <2>1 DEF Mounts, Bind
  <1>10. ASSUME NEW r \in DirsTo(m), Restorable(r) PROVE disk[r].name \in DOMAIN Content(u)
    <2>1. CASE r # s
      <3>1. r \in DirsTo(s)
        BY <1>6, <2>1, Counts DEF DirsTo, Stored
      <3> QED
        BY <1>8, <1>9, <1>10, <3>1
    <2>2. CASE r = s
      <3>1. s \in Stored /\ disk[s].is_dir /\ Restorable(s)
        BY <1>10, <2>2 DEF DirsTo
      <3>2. DirsTo(s) \in SUBSET Stored /\ s \notin DirsTo(s)
        BY <1>6, Counts DEF DirsTo
      <3>3. \/ Front(disk[s].name) = <<>>
            \/ Front(disk[s].name) \in DOMAIN Content(t) \cap Paths
        <4> SUFFICES ASSUME Front(disk[s].name) # <<>>
                     PROVE  Front(disk[s].name) \in DOMAIN Content(t) \cap Paths
          OBVIOUS
        <4>1. PICK q \in Stored :
                  /\ disk[q].name = Front(disk[s].name) /\ disk[q].is_dir
                  /\ disk[q].name \in Paths /\ Restorable(q) /\ (disk[s].is_dir => q < s)
          BY <3>1, ParentOf
        <4>2. q \in DirsTo(s)
          BY <3>1, <4>1 DEF DirsTo
        <4> QED
          BY <1>8, <4>1, <4>2
      <3> HIDE DEF t, u
      <3>4. CanAdd(t, disk[s].name)
        BY <1>7, <3>1, <3>2, <3>3, Addable
      <3>5. Present(s)
        BY <3>1 DEF Present, Stored
      <3>6. disk[s].name \in DOMAIN Content(MountDir(t, s))
        BY <1>6, <1>7, <3>1, <3>4, <3>5, DirMounted
      <3> QED
        BY <1>7, <2>2, <3>6
    <2> QED
      BY <2>1, <2>2
  <1> QED
    BY <1>4, <1>10

\* And every entry that can be, once the second is.
LEMMA FilesRestored ==
    ASSUME ImageInv, DiskUnique, unreadable' = {}, NEW n \in 0 .. NFILES
    PROVE  \A r \in FilesTo(n) : Restorable(r) => disk[r].name \in DOMAIN Content(PassFiles[n])
  <1> DEFINE There(m) ==
               \A r \in FilesTo(m) : Restorable(r) => disk[r].name \in DOMAIN Content(PassFiles[m])
             Bad == {m \in 0 .. NFILES : ~There(m)}
  <1>1. SUFFICES ASSUME Bad # {} PROVE FALSE
    OBVIOUS
  <1>2. Bad \in SUBSET Nat
    BY Counts
  <1>3. PICK m \in Bad : \A x \in Bad : m <= x
    <2> HIDE DEF Bad
    <2> QED
      BY <1>1, <1>2, NatMin
  <1>4. m \in 0 .. NFILES /\ ~There(m)
    BY <1>3
  <1>5. m # 0
    <2>1. PassFiles[0] = PassDirs[NFILES]
      BY PassFilesIs
    <2>2. \A r \in DirsTo(NFILES) :
              Restorable(r) => disk[r].name \in DOMAIN Content(PassDirs[NFILES])
      BY DirsRestored, Counts
    <2>3. FilesTo(0) \subseteq DirsTo(NFILES)
      BY Counts DEF DirsTo, FilesTo, Stored
    <2>4. There(0)
      BY <2>1, <2>2, <2>3
    <2> QED
      BY <1>4, <2>4
  <1> DEFINE s == m - 1
             t == PassFiles[s]
             u == PassFiles[m]
  <1>6. s \in 0 .. NFILES /\ s \in Slots /\ s \notin Bad /\ m = s + 1
    BY <1>3, <1>4, <1>5, Counts
  <1>7. t \in Tables /\ u = MountFile(t, s) /\ Made(t, FilesTo(s))
    BY <1>6, PassFilesIs, FilesMade
  <1>8. There(s)
    BY <1>6
  <1> HIDE DEF s
  <1>9. DOMAIN Content(t) \subseteq DOMAIN Content(u)
    <2> HIDE DEF t, u
    <2>1. Mounts(t, u, s)
      BY <1>6, <1>7, FileMounted
    <2> QED
      BY <1>7, <2>1 DEF Mounts, Bind
  <1>10. ASSUME NEW r \in FilesTo(m), Restorable(r) PROVE disk[r].name \in DOMAIN Content(u)
    <2>1. CASE r \in FilesTo(s)
      BY <1>8, <1>9, <1>10, <2>1
    <2>2. CASE r \notin FilesTo(s)
      <3>1. r = s /\ s \in Stored /\ ~disk[s].is_dir /\ Restorable(s)
        BY <1>6, <1>10, <2>2, Counts DEF FilesTo, Stored
      <3>2. FilesTo(s) \in SUBSET Stored /\ s \notin FilesTo(s)
        BY <2>2, <3>1 DEF FilesTo
      <3>3. \/ Front(disk[s].name) = <<>>
            \/ Front(disk[s].name) \in DOMAIN Content(t) \cap Paths
        <4> SUFFICES ASSUME Front(disk[s].name) # <<>>
                     PROVE  Front(disk[s].name) \in DOMAIN Content(t) \cap Paths
          OBVIOUS
        <4>1. PICK q \in Stored :
                  /\ disk[q].name = Front(disk[s].name) /\ disk[q].is_dir
                  /\ disk[q].name \in Paths /\ Restorable(q)
          BY <3>1, ParentOf
        <4>2. q \in FilesTo(s)
          BY <4>1 DEF FilesTo
        <4> QED
          BY <1>8, <4>1, <4>2
      <3> HIDE DEF t, u
      <3>4. CanWrite(t, disk[s].name)
        BY <1>7, <3>1, <3>2, <3>3, Addable DEF CanWrite
      <3>5. Present(s)
        BY <3>1 DEF Present, Stored
      <3>6. disk[s].name \in DOMAIN Content(MountFile(t, s))
        BY <1>6, <1>7, <3>1, <3>4, <3>5, FileMounted
      <3> QED
        BY <1>7, <3>1, <3>6
    <2> QED
      BY <2>1, <2>2
  <1> QED
    BY <1>4, <1>10

\* Both passes of fs_disk_mount together: when the disk can be read, every entry whose
\* directories were saved in slots that go down the tree comes back as it was saved, in
\* a table of any size and at any depth, whatever becomes of the others.
THEOREM MountRestoresTheTree == DSpec => MountRestores
  <1>1. DInv /\ [DNext]_dvars =>
          [Restart /\ Readable /\ DiskUnique
             => \A s \in Stored : AllAbove(s) /\ InOrder(s) => DiskEntry(s) \in Entries(files')]_dvars
    <2> SUFFICES ASSUME DInv, Readable, DiskUnique, NEW s \in Stored, Restorable(s)
                 PROVE  DiskEntry(s) \in Entries(files')
      BY DEF Restorable
    <2>1. ImageInv /\ files' = Mounted /\ unreadable' = {}
      BY DEF DInv, Readable
    <2>2. NFILES \in 0 .. NFILES /\ s \in FilesTo(NFILES)
      BY Counts DEF FilesTo, Stored
    <2>3. disk[s].name \in DOMAIN Content(files')
      BY <2>1, <2>2, FilesRestored, MountedIs
    <2>4. Made(files', Stored) /\ files' \in Tables
      BY <2>1, MountedMade DEF Made
    <2>5. PICK r \in Stored : disk[r].name = disk[s].name
                              /\ Content(files')[disk[s].name] = Gives(r)
      BY <2>3, <2>4 DEF Made
    <2>6. Content(files')[disk[s].name] = Gives(s)
      BY <2>5 DEF DiskUnique
    <2>7. DiskEntry(s) = [name |-> disk[s].name,
                          is_dir |-> Content(files')[disk[s].name].is_dir,
                          data |-> Content(files')[disk[s].name].data]
      BY <2>6 DEF Gives, Holds, DiskEntry
    <2> QED
      BY <2>3, <2>4, <2>7, EntriesAre
  <1> QED
    BY <1>1, DiskInvariant, PTL DEF DSpec, MountRestores
=============================================================================
