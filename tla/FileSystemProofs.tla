---------------------------- MODULE FileSystemProofs ---------------------------
(***************************************************************************)
(* Theorems about FileSystem, for tables of any size, any set of names and *)
(* any number of descriptors: the table keeps its type and has one entry   *)
(* per name, positions stay inside their copies, and the whole implements  *)
(* NameStore.                                                              *)
(***************************************************************************)
EXTENDS FileSystem, SequenceTheorems, WellFoundedInduction, TLAPS

-----------------------------------------------------------------------------
(***************************************************************************)
(* Slots and names.                                                        *)
(***************************************************************************)

\* A set of naturals that is not empty has a least element.
LEMMA NatMin ==
    ASSUME NEW S \in SUBSET Nat, S # {}
    PROVE  \E x \in S : \A y \in S : x <= y
  <1> DEFINE R == OpToRel(<, Nat)
  <1>1. IsWellFoundedOn(R, Nat)
    BY NatLessThanWellFounded
  <1>2. \A p \in Nat, q \in Nat : p < q => <<p, q>> \in R
    BY DEF OpToRel
  <1> HIDE DEF R
  <1>3. PICK x \in S : \A y \in S : ~ (<<y, x>> \in R)
    BY <1>1, WFMin
  <1>4. ASSUME NEW y \in S PROVE x <= y
    <2>1. x \in Nat /\ y \in Nat
      OBVIOUS
    <2>2. ~ (y < x)
      BY <2>1, <1>2, <1>3
    <2> QED
      BY <2>1, <2>2
  <1> QED
    BY <1>4

\* The loops over the table find a slot of the set they look for, if there is one.
LEMMA FirstIsIn ==
    ASSUME NEW S \in SUBSET Nat
    PROVE  /\ S # {} => First(S) \in S
           /\ First(S) = NoSlot <=> S = {}
  <1>1. S # {} => First(S) \in S
    BY NatMin DEF First
  <1>2. NoSlot \notin Nat
    BY DEF NoSlot
  <1> QED
    BY <1>1, <1>2 DEF First

LEMMA SlotsAreNats == Slots \in SUBSET Nat
  BY TableAssumption DEF Slots

LEMMA FdsAreNats == Fds \in SUBSET Nat
  BY FdsAssumption DEF Fds

\* Strings, "/" among them: the provers know no more of STRING than its name.
Strings == STRING \cup {"/"}

\* An absolute path is the name behind a slash.
LEMMA Absolute ==
    ASSUME NEW p \in Paths
    PROVE  /\ p \in Seq(Strings) /\ Len(p) \in Nat \ {0} /\ p[1] # "/"
           /\ Abs(p) \in Seq(Strings) /\ Abs(p) # <<>> /\ Len(Abs(p)) = Len(p) + 1
           /\ Abs(p)[1] = "/"
           /\ \A i \in 1 .. Len(p) : Abs(p)[i + 1] = p[i]
  <1>1. p \in Seq(Strings) /\ p # <<>> /\ p[1] # "/"
    <2>1. p \in Seq(STRING) /\ STRING \subseteq Strings
      BY PathsAssumption DEF Strings
    <2> QED
      BY <2>1, PathsAssumption, SeqMonotonic
  <1>2. "/" \in Strings
    BY DEF Strings
  <1>3. <<"/">> \in Seq(Strings) /\ Len(<<"/">>) = 1
    BY <1>2
  <1>4. Len(p) \in Nat \ {0}
    BY <1>1, EmptySeq
  <1>5. /\ Abs(p) \in Seq(Strings) /\ Len(Abs(p)) = 1 + Len(p)
        /\ \A i \in 1 .. 1 + Len(p) : Abs(p)[i] = IF i <= 1 THEN <<"/">>[i] ELSE p[i - 1]
    BY <1>1, <1>3, ConcatProperties DEF Abs
  <1>6. Abs(p)[1] = "/" /\ Abs(p) # <<>>
    BY <1>4, <1>5
  <1>7. ASSUME NEW i \in 1 .. Len(p) PROVE Abs(p)[i + 1] = p[i]
    BY <1>4, <1>5
  <1> QED
    BY <1>1, <1>4, <1>5, <1>6, <1>7

\* fs_normalize takes what the callers pass to the name that is stored.
LEMMA Normalized ==
    /\ \A raw \in Raw : fs_normalize(raw) \in Paths
    /\ \A p \in Paths : fs_normalize(p) = p /\ fs_normalize(Abs(p)) = p
    /\ \A p \in Paths : p \in Raw /\ Abs(p) \in Raw
  <1>1. ASSUME NEW p \in Paths PROVE fs_normalize(p) = p
    BY PathsAssumption DEF fs_normalize
  <1>2. ASSUME NEW p \in Paths PROVE fs_normalize(Abs(p)) = p
    <2>1. /\ Tail(Abs(p)) \in Seq(Strings) /\ Len(Tail(Abs(p))) = Len(p)
          /\ \A i \in 1 .. Len(p) : Tail(Abs(p))[i] = p[i]
      BY Absolute, HeadTailProperties
    <2>2. Tail(Abs(p)) = p
      BY Absolute, <2>1, SeqEqual
    <2> QED
      BY Absolute, <2>2 DEF fs_normalize
  <1>3. \A p \in Paths : p \in Raw /\ Abs(p) \in Raw
    BY DEF Raw
  <1> QED
    BY <1>1, <1>2, <1>3 DEF Raw

\* No stored name is below an absolute path, as fs_under_dir compares them.
LEMMA NothingUnderAbs ==
    ASSUME NEW n \in Paths, NEW p \in Paths
    PROVE  ~fs_under_dir(n, Abs(p))
  <1>1. n \in Seq(Strings) /\ Len(n) \in Nat \ {0} /\ n[1] # "/"
    BY Absolute
  <1>2. Len(Abs(p)) \in Nat /\ Len(Abs(p)) >= 1 /\ Abs(p)[1] = "/"
    BY Absolute
  <1>3. ASSUME Len(n) > Len(Abs(p)) PROVE SubSeq(n, 1, Len(Abs(p)))[1] = n[1]
    BY <1>1, <1>2, <1>3
  <1> QED
    BY <1>1, <1>2, <1>3 DEF fs_under_dir

-----------------------------------------------------------------------------
(***************************************************************************)
(* Data.                                                                   *)
(***************************************************************************)

LEMMA DataIs == Data = {d \in Seq(Blocks) : Len(d) <= MAX_SIZE}
  <1>1. ASSUME NEW d \in Data PROVE d \in Seq(Blocks) /\ Len(d) <= MAX_SIZE
    <2>1. PICK n \in 0 .. MAX_SIZE : d \in [1 .. n -> Blocks]
      BY DEF Data
    <2>2. n \in Nat /\ n <= MAX_SIZE
      BY TableAssumption
    <2>3. d \in Seq(Blocks)
      BY <2>1, <2>2, SeqDef
    <2>4. Len(d) = n
      BY <2>1, <2>2, <2>3, LenProperties
    <2> QED
      BY <2>2, <2>3, <2>4
  <1>2. ASSUME NEW d \in Seq(Blocks), Len(d) <= MAX_SIZE PROVE d \in Data
    <2>1. Len(d) \in 0 .. MAX_SIZE /\ d \in [1 .. Len(d) -> Blocks]
      BY <1>2, TableAssumption, LenProperties
    <2> QED
      BY <2>1 DEF Data
  <1> QED
    BY <1>1, <1>2

LEMMA NoData == <<>> \in Data
  <1>1. <<>> \in Seq(Blocks) /\ Len(<<>>) = 0 /\ 0 <= MAX_SIZE
    BY TableAssumption
  <1> QED
    BY <1>1, DataIs

\* Clip makes data of any sequence of blocks, and cuts nothing that is data.
LEMMA ClipData ==
    ASSUME NEW d \in Seq(Blocks)
    PROVE  /\ Clip(d) \in Data
           /\ \A n \in Nat : n <= Len(d) /\ n <= MAX_SIZE => n <= Len(Clip(d))
  <1>1. Len(d) \in Nat /\ MAX_SIZE \in Nat
    BY TableAssumption, LenProperties
  <1>2. CASE Len(d) <= MAX_SIZE
    BY <1>1, <1>2, DataIs DEF Clip
  <1>3. CASE Len(d) > MAX_SIZE
    <2>1. /\ SubSeq(d, 1, MAX_SIZE) \in Seq(Blocks)
          /\ Len(SubSeq(d, 1, MAX_SIZE)) = MAX_SIZE
      BY <1>1, <1>3, SubSeqProperties
    <2> QED
      BY <1>1, <1>3, <2>1, DataIs DEF Clip
  <1> QED
    BY <1>1, <1>2, <1>3

LEMMA AppendedData ==
    ASSUME NEW d \in Data, NEW e \in Data
    PROVE  /\ d \o e \in Seq(Blocks) /\ Clip(d \o e) \in Data
           /\ Len(d) <= Len(Clip(d \o e))
  <1>1. /\ d \in Seq(Blocks) /\ e \in Seq(Blocks) /\ Len(d) <= MAX_SIZE
        /\ Len(d) \in Nat /\ Len(e) \in Nat
    BY DataIs, LenProperties
  <1>2. d \o e \in Seq(Blocks) /\ Len(d \o e) = Len(d) + Len(e)
    BY <1>1, ConcatProperties
  <1>3. Clip(d \o e) \in Data /\ \A n \in Nat : n <= Len(d \o e) /\ n <= MAX_SIZE => n <= Len(Clip(d \o e))
    BY <1>2, ClipData
  <1> QED
    BY <1>1, <1>2, <1>3

-----------------------------------------------------------------------------
(***************************************************************************)
(* The table and what it holds.                                            *)
(***************************************************************************)

Entry == {Unused} \cup [used : {TRUE}, name : Paths, is_dir : BOOLEAN, data : Data]
Tables == {t \in [Slots -> Entry] : Unique(t)}
Named(t) == {t[i].name : i \in {j \in Slots : t[j].used}}
Holds(e) == [is_dir |-> e.is_dir, data |-> e.data]
Fill(t, k, e) == [t EXCEPT ![k] = e]
Bind(s, n, e) == [m \in DOMAIN s \cup {n} |-> IF m = n THEN e ELSE s[m]]
Drop(s, n) == [m \in DOMAIN s \ {n} |-> s[m]]

LEMMA EntryIs ==
    ASSUME NEW e \in Entry
    PROVE  /\ e.used \in BOOLEAN
           /\ e.used => e.name \in Paths /\ e.is_dir \in BOOLEAN /\ e.data \in Data
           /\ e = Unused <=> ~e.used
  <1>1. CASE e = Unused
    BY <1>1 DEF Unused
  <1>2. CASE e \in [used : {TRUE}, name : Paths, is_dir : BOOLEAN, data : Data]
    <2>1. e.used = TRUE /\ e.name \in Paths /\ e.is_dir \in BOOLEAN /\ e.data \in Data
      BY <1>2
    <2>2. Unused.used = FALSE
      BY DEF Unused
    <2> QED
      BY <2>1, <2>2
  <1> QED
    BY <1>1, <1>2 DEF Entry

\* A name has one slot in a table, so its content is that of the slot.
LEMMA ContentIs ==
    ASSUME NEW t \in Tables
    PROVE  /\ DOMAIN Content(t) = Named(t)
           /\ \A i \in Slots : t[i].used => Content(t)[t[i].name] = Holds(t[i])
           /\ Content(t) = [n \in Named(t) |-> Content(t)[n]]
  <1>1. DOMAIN Content(t) = Named(t) /\ Content(t) = [n \in Named(t) |-> Content(t)[n]]
    BY DEF Content, Named
  <1>2. ASSUME NEW i \in Slots, t[i].used PROVE Content(t)[t[i].name] = Holds(t[i])
    <2> DEFINE k == CHOOSE j \in Slots : t[j].used /\ t[j].name = t[i].name
    <2>1. k \in Slots /\ t[k].used /\ t[k].name = t[i].name
      BY <1>2
    <2>2. k = i
      BY <1>2, <2>1 DEF Tables, Unique
    <2>3. t[i].name \in Named(t)
      BY <1>2 DEF Named
    <2>4. Content(t)[t[i].name] = Holds(t[k])
      BY <2>3 DEF Content, Named, Holds
    <2> QED
      BY <2>2, <2>4
  <1> QED
    BY <1>1, <1>2

\* fs_find gives the slot of the name, and NoSlot only if the table has it not.
LEMMA FindIs ==
    ASSUME NEW t \in Tables, NEW raw \in Raw
    PROVE  /\ Exists(t, raw) <=> fs_normalize(raw) \in Named(t)
           /\ Exists(t, raw) => /\ fs_find(t, raw) \in Slots
                                /\ t[fs_find(t, raw)].used
                                /\ t[fs_find(t, raw)].name = fs_normalize(raw)
           /\ \A i \in Slots : t[i].used /\ t[i].name = fs_normalize(raw) =>
                                    Exists(t, raw) /\ fs_find(t, raw) = i
  <1> DEFINE S == {i \in Slots : t[i].used /\ t[i].name = fs_normalize(raw)}
  <1>1. S \in SUBSET Nat
    BY SlotsAreNats
  <1>2. (S # {} => First(S) \in S) /\ (First(S) = NoSlot <=> S = {})
    BY <1>1, FirstIsIn
  <1>3. fs_find(t, raw) = First(S)
    BY DEF fs_find
  <1> HIDE DEF S
  <1>4. Exists(t, raw) <=> S # {}
    BY <1>2, <1>3 DEF Exists
  <1>5. S # {} <=> fs_normalize(raw) \in Named(t)
    BY DEF S, Named
  <1>6. \A i \in S : i \in Slots /\ t[i].used /\ t[i].name = fs_normalize(raw)
    BY DEF S
  <1>7. \A i \in Slots : t[i].used /\ t[i].name = fs_normalize(raw) => i \in S
    BY DEF S
  <1>8. \A i, j \in S : i = j
    BY <1>6 DEF Tables, Unique
  <1>9. \A i \in S : fs_find(t, raw) = i
    BY <1>2, <1>3, <1>8
  <1> QED
    BY <1>2, <1>3, <1>4, <1>5, <1>6, <1>7, <1>9

LEMMA FreeIs ==
    ASSUME NEW t, FreeSlot(t) # NoSlot
    PROVE  FreeSlot(t) \in Slots /\ ~t[FreeSlot(t)].used
  <1> DEFINE S == {i \in Slots : ~t[i].used}
  <1>1. S \in SUBSET Nat
    BY SlotsAreNats
  <1>2. First(S) \in S
    BY <1>1, FirstIsIn DEF FreeSlot
  <1> QED
    BY <1>2 DEF FreeSlot

\* What happens to the map when one slot is filled: the slot's old name goes, its new
\* name comes, and no other name is touched.
LEMMA SlotFilled ==
    ASSUME NEW t \in Tables, NEW k \in Slots, NEW e \in Entry, e.used,
           \A i \in Slots \ {k} : t[i].used => t[i].name # e.name
    PROVE  /\ Fill(t, k, e) \in Tables
           /\ DOMAIN Content(Fill(t, k, e)) =
                (IF t[k].used THEN Named(t) \ {t[k].name} ELSE Named(t)) \cup {e.name}
           /\ Content(Fill(t, k, e))[e.name] = Holds(e)
           /\ \A m \in DOMAIN Content(Fill(t, k, e)) \ {e.name} :
                Content(Fill(t, k, e))[m] = Content(t)[m]
  <1> DEFINE u == Fill(t, k, e)
  <1>1. /\ t \in [Slots -> Entry] /\ Unique(t)
        /\ u \in [Slots -> Entry]
        /\ u[k] = e /\ \A i \in Slots \ {k} : u[i] = t[i]
    BY DEF Tables, Fill
  <1> HIDE DEF u
  <1>2. Unique(u)
    BY <1>1 DEF Unique
  <1>3. u \in Tables
    BY <1>1, <1>2 DEF Tables
  <1>4. Named(u) = (IF t[k].used THEN Named(t) \ {t[k].name} ELSE Named(t)) \cup {e.name}
    <2>1. ASSUME NEW i \in Slots, u[i].used, i # k
          PROVE  u[i].name \in Named(t) /\ (t[k].used => u[i].name # t[k].name)
      BY <1>1, <2>1 DEF Named, Unique
    <2>2. ASSUME NEW i \in Slots, t[i].used, i # k PROVE t[i].name \in Named(u)
      BY <1>1, <2>2 DEF Named
    <2>3. e.name \in Named(u)
      BY <1>1 DEF Named
    <2> QED
      BY <1>1, <2>1, <2>2, <2>3 DEF Named
  <1>5. Content(u)[e.name] = Holds(e)
    BY <1>1, <1>3, ContentIs
  <1>6. ASSUME NEW m \in Named(u) \ {e.name} PROVE Content(u)[m] = Content(t)[m]
    <2>1. PICK i \in Slots : u[i].used /\ u[i].name = m
      BY DEF Named
    <2>2. i # k /\ u[i] = t[i]
      BY <1>1, <2>1
    <2>3. Content(u)[u[i].name] = Holds(u[i])
      BY <1>3, <2>1, ContentIs
    <2>4. Content(t)[t[i].name] = Holds(t[i])
      BY <2>1, <2>2, ContentIs
    <2> QED
      BY <2>1, <2>2, <2>3, <2>4
  <1>7. DOMAIN Content(u) = Named(u)
    BY <1>3, ContentIs
  <1> QED
    BY <1>3, <1>4, <1>5, <1>6, <1>7 DEF u

\* And when one is cleared.
LEMMA SlotCleared ==
    ASSUME NEW t \in Tables, NEW k \in Slots, t[k].used
    PROVE  /\ Fill(t, k, Unused) \in Tables
           /\ Content(Fill(t, k, Unused)) = Drop(Content(t), t[k].name)
  <1> DEFINE u == Fill(t, k, Unused)
  <1>1. /\ t \in [Slots -> Entry] /\ Unique(t)
        /\ u \in [Slots -> Entry]
        /\ ~u[k].used /\ \A i \in Slots \ {k} : u[i] = t[i]
    BY DEF Tables, Entry, Unused, Fill
  <1> HIDE DEF u
  <1>2. u \in Tables
    BY <1>1 DEF Tables, Unique
  <1>3. Named(u) = Named(t) \ {t[k].name}
    <2>1. ASSUME NEW i \in Slots, u[i].used
          PROVE  u[i].name \in Named(t) /\ u[i].name # t[k].name
      BY <1>1, <2>1 DEF Named, Unique
    <2>2. ASSUME NEW i \in Slots, t[i].used, i # k PROVE t[i].name \in Named(u)
      BY <1>1, <2>2 DEF Named
    <2> QED
      BY <2>1, <2>2 DEF Named
  <1>4. ASSUME NEW m \in Named(u) PROVE Content(u)[m] = Content(t)[m]
    <2>1. PICK i \in Slots : u[i].used /\ u[i].name = m
      BY DEF Named
    <2>2. u[i] = t[i]
      BY <1>1, <2>1
    <2>3. Content(u)[u[i].name] = Holds(u[i])
      BY <1>2, <2>1, ContentIs
    <2>4. Content(t)[t[i].name] = Holds(t[i])
      BY <2>1, <2>2, ContentIs
    <2> QED
      BY <2>1, <2>2, <2>3, <2>4
  <1>5. /\ Content(u) = [n \in Named(u) |-> Content(u)[n]]
        /\ DOMAIN Content(t) = Named(t)
    BY <1>2, ContentIs
  <1> QED
    BY <1>2, <1>3, <1>4, <1>5 DEF Drop, u

-----------------------------------------------------------------------------
(***************************************************************************)
(* The operations on the table.                                            *)
(***************************************************************************)

\* A new entry gets a free slot and binds its name.
LEMMA Added ==
    ASSUME NEW t \in Tables, NEW raw \in Raw, NEW is_dir \in BOOLEAN, CanAdd(t, raw)
    PROVE  LET n == fs_normalize(raw)
               u == Add(t, raw, is_dir)
           IN  /\ u \in Tables /\ n \in Paths /\ n \notin DOMAIN Content(t)
               /\ Content(u) = Bind(Content(t), n, [is_dir |-> is_dir, data |-> <<>>])
               /\ is_dir = FALSE => IsFile(u, raw)
  <1> DEFINE n == fs_normalize(raw)
             k == FreeSlot(t)
             e == [used |-> TRUE, name |-> n, is_dir |-> is_dir, data |-> <<>>]
             u == Add(t, raw, is_dir)
  <1>1. n \in Paths /\ e \in Entry /\ e.used /\ e.name = n
    BY Normalized, NoData DEF Entry
  <1>2. k \in Slots /\ ~t[k].used
    BY FreeIs DEF CanAdd
  <1>3. n \notin Named(t) /\ Named(t) = DOMAIN Content(t)
    BY FindIs, ContentIs DEF CanAdd, NewName
  <1>4. u = Fill(t, k, e)
    BY DEF Add, Fill
  <1>5. \A i \in Slots \ {k} : t[i].used => t[i].name # e.name
    BY <1>3 DEF Named
  <1>6. Holds(e) = [is_dir |-> is_dir, data |-> <<>>]
    BY DEF Holds
  <1>7. u[k] = e
    BY <1>2, <1>4 DEF Tables, Fill
  <1> HIDE DEF n, k, e, u
  <1>8. /\ u \in Tables
        /\ DOMAIN Content(u) = Named(t) \cup {n}
        /\ Content(u)[n] = Holds(e)
        /\ \A m \in DOMAIN Content(u) \ {n} : Content(u)[m] = Content(t)[m]
    <2>1. /\ Fill(t, k, e) \in Tables
          /\ DOMAIN Content(Fill(t, k, e)) =
                (IF t[k].used THEN Named(t) \ {t[k].name} ELSE Named(t)) \cup {e.name}
          /\ Content(Fill(t, k, e))[e.name] = Holds(e)
          /\ \A m \in DOMAIN Content(Fill(t, k, e)) \ {e.name} :
                Content(Fill(t, k, e))[m] = Content(t)[m]
      BY <1>1, <1>2, <1>4, <1>5, SlotFilled
    <2> QED
      BY <1>1, <1>2, <1>4, <1>5, <2>1
  <1>9. Content(u) = [m \in DOMAIN Content(u) |-> Content(u)[m]]
    BY <1>8, ContentIs
  <1>10. Content(u) = Bind(Content(t), n, [is_dir |-> is_dir, data |-> <<>>])
    BY <1>3, <1>6, <1>8, <1>9 DEF Bind
  <1>11. is_dir = FALSE => IsFile(u, raw)
    BY <1>1, <1>2, <1>7, <1>8, FindIs DEF IsFile, e, n
  <1> QED
    BY <1>1, <1>3, <1>8, <1>10, <1>11 DEF n, u

\* Writing fills the entry found and no other.
LEMMA Filled ==
    ASSUME NEW t \in Tables, NEW raw \in Raw, NEW d \in Seq(Blocks), IsFile(t, raw)
    PROVE  LET n == fs_normalize(raw)
               u == SetData(t, raw, d)
           IN  /\ u \in Tables /\ n \in DOMAIN Content(t) /\ ~Content(t)[n].is_dir
               /\ Content(u) = Bind(Content(t), n, [is_dir |-> FALSE, data |-> Clip(d)])
  <1> DEFINE n == fs_normalize(raw)
             k == fs_find(t, raw)
             e == [t[k] EXCEPT !.data = Clip(d)]
             u == SetData(t, raw, d)
  <1>1. k \in Slots /\ t[k].used /\ t[k].name = n /\ ~t[k].is_dir
    BY FindIs DEF IsFile
  <1>2. t[k] \in [used : {TRUE}, name : Paths, is_dir : BOOLEAN, data : Data]
    <2>1. t[k] \in Entry /\ t[k] # Unused
      BY <1>1 DEF Tables, Unused
    <2> QED
      BY <2>1 DEF Entry
  <1>3. e \in Entry /\ e.used /\ e.name = n /\ e.is_dir = FALSE /\ e.data = Clip(d)
    BY <1>1, <1>2, ClipData DEF Entry
  <1>4. u = Fill(t, k, e)
    BY DEF SetData, Fill
  <1>5. \A i \in Slots \ {k} : t[i].used => t[i].name # e.name
    BY <1>1, <1>3 DEF Tables, Unique
  <1>6. Holds(e) = [is_dir |-> FALSE, data |-> Clip(d)]
    BY <1>3 DEF Holds
  <1> HIDE DEF n, k, e, u
  <1>7. /\ u \in Tables
        /\ DOMAIN Content(u) = (Named(t) \ {n}) \cup {n}
        /\ Content(u)[n] = Holds(e)
        /\ \A m \in DOMAIN Content(u) \ {n} : Content(u)[m] = Content(t)[m]
    <2>1. /\ Fill(t, k, e) \in Tables
          /\ DOMAIN Content(Fill(t, k, e)) =
                (IF t[k].used THEN Named(t) \ {t[k].name} ELSE Named(t)) \cup {e.name}
          /\ Content(Fill(t, k, e))[e.name] = Holds(e)
          /\ \A m \in DOMAIN Content(Fill(t, k, e)) \ {e.name} :
                Content(Fill(t, k, e))[m] = Content(t)[m]
      BY <1>1, <1>3, <1>4, <1>5, SlotFilled
    <2> QED
      BY <1>1, <1>3, <1>4, <1>5, <2>1
  <1>8. n \in Named(t) /\ Named(t) = DOMAIN Content(t)
    BY <1>1, ContentIs DEF Named
  <1>9. Content(u) = [m \in DOMAIN Content(u) |-> Content(u)[m]]
    BY <1>7, ContentIs
  <1>10. Content(u) = Bind(Content(t), n, [is_dir |-> FALSE, data |-> Clip(d)])
    BY <1>6, <1>7, <1>8, <1>9 DEF Bind
  <1>11. ~Content(t)[n].is_dir
    <2>1. Content(t)[t[k].name] = Holds(t[k])
      BY <1>1, ContentIs
    <2> QED
      BY <1>1, <2>1 DEF Holds
  <1> QED
    BY <1>7, <1>8, <1>10, <1>11 DEF n, u

\* Deleting and rmdir drop the name they found.
LEMMA Erased ==
    ASSUME NEW t \in Tables, NEW raw \in Raw, Exists(t, raw)
    PROVE  LET n == fs_normalize(raw)
               u == Erase(t, raw)
           IN  /\ u \in Tables /\ n \in Paths /\ n \in DOMAIN Content(t)
               /\ Content(u) = Drop(Content(t), n)
  <1>1. /\ fs_find(t, raw) \in Slots /\ t[fs_find(t, raw)].used
        /\ t[fs_find(t, raw)].name = fs_normalize(raw)
        /\ fs_normalize(raw) \in Named(t) /\ Named(t) = DOMAIN Content(t)
    BY FindIs, ContentIs
  <1>2. Erase(t, raw) = Fill(t, fs_find(t, raw), Unused)
    BY DEF Erase, Fill
  <1> QED
    BY <1>1, <1>2, Normalized, SlotCleared

\* Creating leaves a file under the name: the one that was there or an empty one.
LEMMA CreatedIs ==
    ASSUME NEW t \in Tables, NEW raw \in Raw, CanWrite(t, raw)
    PROVE  LET n == fs_normalize(raw)
               v == Created(t, raw)
           IN  /\ v \in Tables /\ n \in Paths /\ IsFile(v, raw)
               /\ n \in DOMAIN Content(t) => ~Content(t)[n].is_dir
               /\ \A e : Bind(Content(v), n, e) = Bind(Content(t), n, e)
               /\ Exists(t, raw) => v = t
               /\ ~Exists(t, raw) => Content(v) = Bind(Content(t), n, [is_dir |-> FALSE, data |-> <<>>])
  <1> DEFINE n == fs_normalize(raw)
             v == Created(t, raw)
  <1>1. n \in Paths
    BY Normalized
  <1>2. n \in DOMAIN Content(t) <=> Exists(t, raw)
    BY FindIs, ContentIs
  <1>3. CASE Exists(t, raw)
    <2>1. v = t /\ IsFile(t, raw)
      BY <1>3 DEF Created, CanWrite, CanAdd, NewName
    <2>2. ~Content(t)[n].is_dir
      <3>1. /\ fs_find(t, raw) \in Slots /\ t[fs_find(t, raw)].used
            /\ t[fs_find(t, raw)].name = n /\ ~t[fs_find(t, raw)].is_dir
        BY <1>3, <2>1, FindIs DEF IsFile
      <3>2. Content(t)[t[fs_find(t, raw)].name] = Holds(t[fs_find(t, raw)])
        BY <3>1, ContentIs
      <3> QED
        BY <3>1, <3>2 DEF Holds
    <2> QED
      BY <1>1, <1>3, <2>1, <2>2
  <1>4. CASE ~Exists(t, raw)
    <2>1. v = Add(t, raw, FALSE) /\ CanAdd(t, raw)
      BY <1>4 DEF Created, CanWrite, IsFile
    <2>2. /\ v \in Tables /\ IsFile(v, raw)
          /\ Content(v) = Bind(Content(t), n, [is_dir |-> FALSE, data |-> <<>>])
      BY <2>1, Added
    <2>3. ASSUME NEW e PROVE Bind(Content(v), n, e) = Bind(Content(t), n, e)
      BY <2>2 DEF Bind
    <2> QED
      BY <1>1, <1>2, <1>4, <2>2, <2>3
  <1> QED
    BY <1>3, <1>4

\* fs_write and fs_append bind the name to a file.
LEMMA Written ==
    ASSUME NEW t \in Tables, NEW raw \in Raw, NEW d \in Data, CanWrite(t, raw)
    PROVE  LET n == fs_normalize(raw)
           IN  /\ n \in Paths
               /\ n \in DOMAIN Content(t) => ~Content(t)[n].is_dir
               /\ \A u \in {fs_write(t, raw, d), fs_append(t, raw, d)} :
                    /\ u \in Tables
                    /\ \E c \in Data : Content(u) = Bind(Content(t), n, [is_dir |-> FALSE, data |-> c])
  <1> DEFINE n == fs_normalize(raw)
             v == Created(t, raw)
             old == v[fs_find(v, raw)].data
  <1>1. /\ v \in Tables /\ n \in Paths /\ IsFile(v, raw)
        /\ n \in DOMAIN Content(t) => ~Content(t)[n].is_dir
        /\ \A e : Bind(Content(v), n, e) = Bind(Content(t), n, e)
    BY CreatedIs
  <1>2. d \in Seq(Blocks)
    BY DataIs
  <1>3. old \o d \in Seq(Blocks)
    <2>1. fs_find(v, raw) \in Slots /\ v[fs_find(v, raw)].used
      BY <1>1, FindIs DEF IsFile
    <2>2. v[fs_find(v, raw)] \in Entry
      BY <1>1, <2>1 DEF Tables
    <2>3. old \in Data
      BY <2>1, <2>2, EntryIs
    <2> QED
      BY <2>3, AppendedData
  <1>4. ASSUME NEW c \in Seq(Blocks)
        PROVE  /\ SetData(v, raw, c) \in Tables
               /\ Content(SetData(v, raw, c)) = Bind(Content(t), n, [is_dir |-> FALSE, data |-> Clip(c)])
               /\ Clip(c) \in Data
    <2>1. /\ SetData(v, raw, c) \in Tables
          /\ Content(SetData(v, raw, c)) = Bind(Content(v), n, [is_dir |-> FALSE, data |-> Clip(c)])
      BY <1>1, Filled
    <2> QED
      BY <1>1, <2>1, ClipData
  <1>5. fs_write(t, raw, d) = SetData(v, raw, d) /\ fs_append(t, raw, d) = SetData(v, raw, old \o d)
    BY DEF fs_write, fs_append
  <1> QED
    BY <1>1, <1>2, <1>3, <1>4, <1>5

\* Renaming moves the entry and, the path being absolute, nothing below it.
LEMMA Renamed ==
    ASSUME NEW t \in Tables, NEW p \in Paths, NEW q \in Paths, CanRename(t, Abs(p), Abs(q))
    PROVE  LET u == fs_rename(t, Abs(p), Abs(q))
           IN  /\ u \in Tables /\ p \in DOMAIN Content(t) /\ q \notin DOMAIN Content(t)
               /\ Content(u) = [m \in (DOMAIN Content(t) \ {p}) \cup {q} |->
                                   IF m = q THEN Content(t)[p] ELSE Content(t)[m]]
  <1> DEFINE k == fs_find(t, Abs(p))
             e == [t[k] EXCEPT !.name = q]
             u == Fill(t, k, e)
  <1>1. Abs(p) \in Raw /\ Abs(q) \in Raw /\ fs_normalize(Abs(p)) = p /\ fs_normalize(Abs(q)) = q
    BY Normalized
  <1>2. /\ k \in Slots /\ t[k].used /\ t[k].name = p
        /\ p \in Named(t) /\ q \notin Named(t) /\ DOMAIN Content(t) = Named(t)
    BY <1>1, FindIs, ContentIs DEF CanRename, NewName
  <1>3. t[k] \in [used : {TRUE}, name : Paths, is_dir : BOOLEAN, data : Data]
    <2>1. t[k] \in Entry /\ t[k] # Unused
      BY <1>2 DEF Tables, Unused
    <2> QED
      BY <2>1 DEF Entry
  <1>4. e \in Entry /\ e.used /\ e.name = q /\ Holds(e) = Holds(t[k])
    BY <1>3 DEF Entry, Holds
  <1>5. \A i \in Slots \ {k} : t[i].used => t[i].name # e.name
    BY <1>2, <1>4 DEF Named
  <1>6. fs_rename(t, Abs(p), Abs(q)) = u
    <2>1. u \in [Slots -> Entry]
      BY <1>2, <1>4 DEF Fill, Tables
    <2>2. ASSUME NEW i \in Slots, u[i].used PROVE ~fs_under_dir(u[i].name, Abs(p))
      BY <2>1, <2>2, EntryIs, NothingUnderAbs
    <2>3. u = [t EXCEPT ![k].name = q]
      BY DEF Fill
    <2>4. u = [i \in Slots |-> u[i]]
      BY <2>1
    <2> HIDE DEF u, k
    <2> QED
      BY <1>1, <2>2, <2>3, <2>4 DEF fs_rename, k
  <1> HIDE DEF k, e
  <1>7. /\ u \in Tables
        /\ DOMAIN Content(u) =
              (IF t[k].used THEN Named(t) \ {t[k].name} ELSE Named(t)) \cup {e.name}
        /\ Content(u)[e.name] = Holds(e)
        /\ \A m \in DOMAIN Content(u) \ {e.name} : Content(u)[m] = Content(t)[m]
    BY <1>2, <1>4, <1>5, SlotFilled
  <1>8. Content(u) = [m \in DOMAIN Content(u) |-> Content(u)[m]]
    BY <1>7, ContentIs
  <1>9. Content(t)[p] = Holds(e)
    BY <1>2, <1>4, ContentIs
  <1> HIDE DEF u
  <1>10. Content(u) = [m \in (Named(t) \ {p}) \cup {q} |->
                         IF m = q THEN Content(t)[p] ELSE Content(t)[m]]
    BY <1>2, <1>4, <1>7, <1>8, <1>9
  <1> QED
    BY <1>2, <1>6, <1>7, <1>10

-----------------------------------------------------------------------------
(***************************************************************************)
(* The invariant, and the steps.                                           *)
(***************************************************************************)

Descriptors == [used : BOOLEAN, name : Raw \cup {<<>>}, buf : Data, pos : Nat]
FdsInv ==
    /\ g_fds \in [Fds -> Descriptors]
    /\ \A fd \in Fds : g_fds[fd].used => g_fds[fd].name \in Raw /\ g_fds[fd].pos <= Len(g_fds[fd].buf)
FInv == files \in Tables /\ dirty \in BOOLEAN /\ FdsInv

\* What a step does to the table: it stays a table, and the map makes a step or none, or
\* the one a directory that is not empty makes.
StoreStep == files' \in Tables /\ (Store!Next \/ Strands \/ UNCHANGED Content(files))

LEMMA EmptyTable ==
    Empty \in Tables /\ Content(Empty) = Store!NoNames
  <1>1. Empty \in Tables
    BY DEF Empty, Unused, Entry, Tables, Unique
  <1>2. Named(Empty) = {}
    BY DEF Named, Empty, Unused
  <1>3. Content(Empty) = [n \in {} |-> Content(Empty)[n]]
    BY <1>1, <1>2, ContentIs
  <1> QED
    BY <1>1, <1>3 DEF Store!NoNames

LEMMA Start == Init => FInv /\ Store!Init
  <1> SUFFICES ASSUME Init PROVE FInv /\ Store!Init
    OBVIOUS
  <1>1. Closed \in Descriptors /\ ~Closed.used
    BY NoData DEF Closed, Descriptors
  <1>2. FdsInv
    BY <1>1 DEF Init, FdsInv
  <1>3. files = Empty /\ dirty = FALSE
    BY DEF Init
  <1>4. Store!Init
    BY <1>3, EmptyTable DEF Store!Init
  <1> QED
    BY <1>2, <1>3, <1>4, EmptyTable DEF FInv

\* The steps of the map, from what the operations do to the table.
LEMMA PutStep ==
    ASSUME NEW n \in Paths, NEW c \in Data, files' \in Tables,
           n \in DOMAIN Content(files) => ~Content(files)[n].is_dir,
           Content(files') = Bind(Content(files), n, [is_dir |-> FALSE, data |-> c])
    PROVE  StoreStep
  <1>1. Store!Put(n, c)
    BY DEF Store!Put, Store!With, Store!File, Bind
  <1> QED
    BY <1>1 DEF StoreStep, Store!Next

\* A file can be removed whatever there is, a directory by rmdir alone.
LEMMA RemoveStep ==
    ASSUME files \in Tables, NEW raw \in Raw, IsFile(files, raw), files' = Erase(files, raw)
    PROVE  StoreStep
  <1> DEFINE n == fs_normalize(raw)
  <1>1. /\ files' \in Tables /\ n \in Paths /\ n \in DOMAIN Content(files)
        /\ Content(files') = Drop(Content(files), n)
    BY Erased DEF IsFile
  <1>2. ~Content(files)[n].is_dir
    <2>1. /\ fs_find(files, raw) \in Slots /\ files[fs_find(files, raw)].used
          /\ files[fs_find(files, raw)].name = n /\ ~files[fs_find(files, raw)].is_dir
      BY FindIs DEF IsFile
    <2>2. Content(files)[files[fs_find(files, raw)].name] = Holds(files[fs_find(files, raw)])
      BY <2>1, ContentIs
    <2> QED
      BY <2>1, <2>2 DEF Holds
  <1>3. Store!Remove(n)
    BY <1>1, <1>2 DEF Store!Remove, Store!Without, Drop
  <1> QED
    BY <1>1, <1>3 DEF StoreStep, Store!Next

\* A path and the same path made absolute name one directory.
LEMMA SameDir ==
    ASSUME files \in Tables, NEW p \in Paths
    PROVE  /\ IsDir(files, p) <=> IsDir(files, Abs(p))
           /\ p \in DOMAIN Content(files) => (IsDir(files, p) <=> Content(files)[p].is_dir)
  <1>1. /\ p \in Raw /\ Abs(p) \in Raw /\ fs_normalize(p) = p /\ fs_normalize(Abs(p)) = p
    BY Normalized
  <1>2. fs_find(files, p) = fs_find(files, Abs(p))
    BY <1>1 DEF fs_find
  <1>3. ASSUME p \in DOMAIN Content(files)
        PROVE  /\ Exists(files, p) /\ fs_find(files, p) \in Slots
               /\ files[fs_find(files, p)].used /\ files[fs_find(files, p)].name = p
    BY <1>1, <1>3, FindIs, ContentIs
  <1>4. ASSUME p \in DOMAIN Content(files)
        PROVE  Content(files)[p] = Holds(files[fs_find(files, p)])
    <2>1. Content(files)[files[fs_find(files, p)].name] = Holds(files[fs_find(files, p)])
      BY <1>3, <1>4, ContentIs
    <2> QED
      BY <1>3, <1>4, <2>1
  <1> QED
    BY <1>2, <1>3, <1>4 DEF IsDir, Exists, Holds

\* rmdir takes the directory it found; one that is not empty leaves what is below it.
LEMMA RmdirStep ==
    ASSUME files \in Tables, NEW p \in Paths, Rmdir(p)
    PROVE  StoreStep
  <1>1. /\ Abs(p) \in Raw /\ fs_normalize(Abs(p)) = p
        /\ IsDir(files, Abs(p)) /\ Exists(files, Abs(p)) /\ files' = Erase(files, Abs(p))
    BY Normalized DEF Rmdir, Changed, CanRmdir, IsDir
  <1>2. /\ files' \in Tables /\ p \in DOMAIN Content(files)
        /\ Content(files') = Drop(Content(files), p)
    BY <1>1, Erased
  <1>3. Content(files') = Store!Without(p)
    BY <1>2 DEF Store!Without, Drop
  <1>4. CASE Store!Below(p) = {}
    <2>1. Store!Remove(p)
      BY <1>2, <1>3, <1>4 DEF Store!Remove
    <2> QED
      BY <1>2, <2>1 DEF StoreStep, Store!Next
  <1>5. CASE Store!Below(p) # {}
    <2>1. Strands
      BY <1>1, <1>3, <1>5, SameDir DEF Strands
    <2> QED
      BY <1>2, <2>1 DEF StoreStep
  <1> QED
    BY <1>4, <1>5

\* mv moves the entry, and nothing below it, because the path is absolute: for a file, or
\* for an empty directory, that is all there is to move.
LEMMA RenameStep ==
    ASSUME files \in Tables, NEW p \in Paths, NEW q \in Paths, Rename(p, q)
    PROVE  StoreStep
  <1> DEFINE c == Content(files)
             to(k) == IF k = p THEN q
                      ELSE IF c[p].is_dir /\ Store!Under(k, p)
                      THEN q \o SubSeq(k, Len(p) + 1, Len(k)) ELSE k
  <1>1. CanRename(files, Abs(p), Abs(q)) /\ files' = fs_rename(files, Abs(p), Abs(q))
    BY DEF Rename, Changed
  <1>2. /\ files' \in Tables /\ p \in DOMAIN c /\ q \notin DOMAIN c
        /\ Content(files') = Store!Alone(p, q)
    BY <1>1, Renamed DEF Store!Alone
  <1>3. CASE IsDir(files, p) /\ Store!Below(p) # {}
    <2>1. Strands
      BY <1>2, <1>3 DEF Strands
    <2> QED
      BY <1>2, <2>1 DEF StoreStep
  <1>4. CASE ~(IsDir(files, p) /\ Store!Below(p) # {})
    <2>1. ~(c[p].is_dir /\ \E k \in DOMAIN c : Store!Under(k, p))
      BY <1>2, <1>4, SameDir DEF Store!Below
    <2>2. \A k \in DOMAIN c : to(k) = IF k = p THEN q ELSE k
      BY <2>1
    <2>3. \A j, k \in DOMAIN c : to(j) = to(k) => j = k
      BY <1>2, <2>2
    <2>4. {to(k) : k \in DOMAIN c} = (DOMAIN c \ {p}) \cup {q}
      BY <1>2, <2>2
    <2>5. ASSUME NEW x \in (DOMAIN c \ {p}) \cup {q}
          PROVE  c[CHOOSE k \in DOMAIN c : to(k) = x] = IF x = q THEN c[p] ELSE c[x]
      <3> DEFINE from == IF x = q THEN p ELSE x
      <3>1. from \in DOMAIN c /\ to(from) = x
        BY <1>2, <2>2
      <3>2. \A k \in DOMAIN c : to(k) = x => k = from
        BY <2>3, <3>1
      <3> HIDE DEF to, from
      <3>3. (CHOOSE k \in DOMAIN c : to(k) = x) = from
        BY <3>1, <3>2
      <3>4. c[from] = IF x = q THEN c[p] ELSE c[x]
        BY DEF from
      <3> HIDE DEF c
      <3> QED
        BY <3>3, <3>4, Zenon
    <2> HIDE DEF to
    <2>6. Content(files') = [x \in {to(k) : k \in DOMAIN c} |->
                                c[CHOOSE k \in DOMAIN c : to(k) = x]]
      BY <1>2, <2>4, <2>5 DEF Store!Alone
    <2>7. Store!Move(p, q)
      BY <1>2, <2>3, <2>6 DEF Store!Move, to
    <2> QED
      BY <1>2, <2>7 DEF StoreStep, Store!Next
  <1> QED
    BY <1>3, <1>4

LEMMA WriteStep ==
    ASSUME files \in Tables, NEW raw \in Raw, NEW d \in Data, CanWrite(files, raw),
           files' \in {fs_write(files, raw, d), fs_append(files, raw, d)}
    PROVE  StoreStep
  <1>1. /\ fs_normalize(raw) \in Paths /\ files' \in Tables
        /\ fs_normalize(raw) \in DOMAIN Content(files) => ~Content(files)[fs_normalize(raw)].is_dir
        /\ \E c \in Data : Content(files') =
                Bind(Content(files), fs_normalize(raw), [is_dir |-> FALSE, data |-> c])
    BY Written
  <1> QED
    BY <1>1, PutStep

\* The shell and the GUI.
LEMMA UserSteps ==
    ASSUME FInv, User
    PROVE  StoreStep /\ dirty' \in BOOLEAN /\ UNCHANGED g_fds
  <1>1. files \in Tables
    BY DEF FInv
  <1>2. ASSUME NEW raw \in Raw, Touch(raw) PROVE StoreStep /\ dirty' \in BOOLEAN /\ UNCHANGED g_fds
    <2>1. files' = Add(files, raw, FALSE) /\ CanAdd(files, raw) /\ dirty' = TRUE /\ UNCHANGED g_fds
      BY <1>2 DEF Touch, Changed
    <2>2. /\ files' \in Tables /\ fs_normalize(raw) \in Paths
          /\ fs_normalize(raw) \notin DOMAIN Content(files)
          /\ Content(files') = Bind(Content(files), fs_normalize(raw), [is_dir |-> FALSE, data |-> <<>>])
      BY <1>1, <2>1, Added
    <2> QED
      BY <2>1, <2>2, NoData, PutStep
  <1>3. ASSUME NEW raw \in Raw, Delete(raw) PROVE StoreStep /\ dirty' \in BOOLEAN /\ UNCHANGED g_fds
    BY <1>1, <1>3, RemoveStep DEF Delete, Changed
  <1>4. ASSUME NEW raw \in Raw, NEW d \in Data, Write(raw, d) \/ AppendTo(raw, d)
        PROVE  StoreStep /\ dirty' \in BOOLEAN /\ UNCHANGED g_fds
    BY <1>1, <1>4, WriteStep DEF Write, AppendTo, Changed
  <1>5. ASSUME NEW p \in Paths, Mkdir(p) PROVE StoreStep /\ dirty' \in BOOLEAN /\ UNCHANGED g_fds
    <2>1. /\ files' = Add(files, Abs(p), TRUE) /\ CanAdd(files, Abs(p)) /\ dirty' = TRUE /\ UNCHANGED g_fds
          /\ Abs(p) \in Raw
      BY <1>5, Normalized DEF Mkdir, Changed
    <2>2. /\ files' \in Tables /\ fs_normalize(Abs(p)) \in Paths
          /\ fs_normalize(Abs(p)) \notin DOMAIN Content(files)
          /\ Content(files') = Bind(Content(files), fs_normalize(Abs(p)), [is_dir |-> TRUE, data |-> <<>>])
      BY <1>1, <2>1, Added
    <2>3. Store!Make(fs_normalize(Abs(p)))
      BY <2>2 DEF Store!Make, Store!With, Store!Dir, Bind
    <2> QED
      BY <2>1, <2>2, <2>3 DEF StoreStep, Store!Next
  <1>6. ASSUME NEW p \in Paths, Rmdir(p) PROVE StoreStep /\ dirty' \in BOOLEAN /\ UNCHANGED g_fds
    BY <1>1, <1>6, RmdirStep DEF Rmdir, Changed
  <1>7. ASSUME NEW p \in Paths, NEW q \in Paths, Rename(p, q)
        PROVE  StoreStep /\ dirty' \in BOOLEAN /\ UNCHANGED g_fds
    BY <1>1, <1>7, RenameStep DEF Rename, Changed
  <1>8. ASSUME Format PROVE StoreStep /\ dirty' \in BOOLEAN /\ UNCHANGED g_fds
    <2>1. files' = Empty /\ dirty' = TRUE /\ UNCHANGED g_fds
      BY <1>8 DEF Format, Changed
    <2>2. Store!Clear
      BY <2>1, EmptyTable DEF Store!Clear
    <2> QED
      BY <2>1, <2>2, EmptyTable DEF StoreStep, Store!Next
  <1> QED
    BY <1>2, <1>3, <1>4, <1>5, <1>6, <1>7, <1>8 DEF User

\* A descriptor that is given to a file, or changed in its copy or its position.
LEMMA FdChanged ==
    ASSUME FdsInv, NEW fd \in Fds, NEW e \in Descriptors,
           e.used => e.name \in Raw /\ e.pos <= Len(e.buf),
           g_fds' = [g_fds EXCEPT ![fd] = e]
    PROVE  FdsInv'
  <1>1. g_fds' \in [Fds -> Descriptors] /\ g_fds'[fd] = e
    BY DEF FdsInv
  <1>2. \A k \in Fds \ {fd} : g_fds'[k] = g_fds[k]
    BY DEF FdsInv
  <1> QED
    BY <1>1, <1>2 DEF FdsInv

LEMMA FdIs ==
    ASSUME FdsInv, NEW fd \in Fds, g_fds[fd].used
    PROVE  /\ g_fds[fd] \in Descriptors /\ g_fds[fd].used \in BOOLEAN
           /\ g_fds[fd].name \in Raw /\ g_fds[fd].buf \in Data
           /\ g_fds[fd].pos \in Nat /\ Len(g_fds[fd].buf) \in Nat
           /\ g_fds[fd].pos <= Len(g_fds[fd].buf)
  <1>1. g_fds[fd] \in Descriptors /\ g_fds[fd].name \in Raw /\ g_fds[fd].pos <= Len(g_fds[fd].buf)
    BY DEF FdsInv
  <1>2. g_fds[fd].used \in BOOLEAN /\ g_fds[fd].buf \in Data /\ g_fds[fd].pos \in Nat
    BY <1>1 DEF Descriptors
  <1>3. g_fds[fd].buf \in Seq(Blocks)
    BY <1>2, DataIs
  <1> QED
    BY <1>1, <1>2, <1>3, LenProperties

LEMMA OpenStep ==
    ASSUME FInv, NEW raw \in Raw, NEW creat \in BOOLEAN, NEW trunc \in BOOLEAN, Open(raw, creat, trunc)
    PROVE  StoreStep /\ FInv'
  <1> DEFINE f == Created(files, raw)
             n == fs_normalize(raw)
             d == IF trunc THEN <<>> ELSE f[fs_find(f, raw)].data
             e == [used |-> TRUE, name |-> raw, buf |-> d, pos |-> 0]
  <1>1. files \in Tables /\ FdsInv /\ CanWrite(files, raw)
    BY DEF FInv, Open, CanWrite, IsFile, IsDir
  <1>2. /\ f \in Tables /\ n \in Paths /\ IsFile(f, raw)
        /\ n \in DOMAIN Content(files) => ~Content(files)[n].is_dir
        /\ Exists(files, raw) => f = files
        /\ ~Exists(files, raw) => Content(f) = Bind(Content(files), n, [is_dir |-> FALSE, data |-> <<>>])
    BY <1>1, CreatedIs
  <1>3. ASSUME files' = f PROVE StoreStep
    <2> HIDE DEF f, n
    <2>1. CASE Exists(files, raw)
      <3>1. files' = files
        BY <1>2, <1>3, <2>1
      <3> QED
        BY <1>1, <3>1 DEF StoreStep
    <2>2. CASE ~Exists(files, raw)
      <3>1. /\ files' \in Tables /\ n \in Paths
            /\ n \in DOMAIN Content(files) => ~Content(files)[n].is_dir
            /\ Content(files') = Bind(Content(files), n, [is_dir |-> FALSE, data |-> <<>>])
        BY <1>2, <1>3, <2>2
      <3> QED
        BY <3>1, NoData, PutStep
    <2> QED
      BY <2>1, <2>2
  <1>4. ASSUME files' = fs_write(f, raw, <<>>) PROVE StoreStep
    <2>1. Exists(f, raw)
      BY <1>2 DEF IsFile
    <2>2. fs_write(f, raw, <<>>) = fs_write(files, raw, <<>>)
      BY <2>1 DEF fs_write, Created
    <2>3. <<>> \in Data
      BY NoData
    <2>4. \A d0 \in Data : files' \in {fs_write(files, raw, d0), fs_append(files, raw, d0)} => StoreStep
      BY <1>1, WriteStep
    <2> QED
      BY <1>4, <2>2, <2>3, <2>4
  <1>5. dirty' \in BOOLEAN
    BY DEF Open
  <1>6. FdsInv'
    <2>1. CASE FreeFd = NoSlot
      BY <1>1, <2>1 DEF Open, FdsInv
    <2>2. CASE FreeFd # NoSlot
      <3>1. {fd \in Fds : ~g_fds[fd].used} \in SUBSET Nat
        BY FdsAreNats
      <3>2. FreeFd \in Fds
        BY <2>2, <3>1, FirstIsIn DEF FreeFd
      <3>3. fs_find(f, raw) \in Slots /\ f[fs_find(f, raw)].used
        BY <1>2, FindIs DEF IsFile
      <3>4. f[fs_find(f, raw)] \in Entry
        BY <1>2, <3>3 DEF Tables
      <3>5. d \in Data
        BY <3>3, <3>4, EntryIs, NoData
      <3>6. Len(d) \in Nat
        BY <3>5, DataIs, LenProperties
      <3>7. g_fds' = [g_fds EXCEPT ![FreeFd] = e]
        BY <2>2 DEF Open, Opened
      <3> HIDE DEF d
      <3>8. e \in Descriptors /\ e.name \in Raw /\ e.pos <= Len(e.buf)
        BY <3>5, <3>6 DEF Descriptors
      <3> QED
        BY <1>1, <3>2, <3>7, <3>8, FdChanged
    <2> QED
      BY <2>1, <2>2
  <1>7. files' = f \/ files' = fs_write(f, raw, <<>>)
    BY DEF Open, Opened
  <1>8. StoreStep
    BY <1>3, <1>4, <1>7
  <1> QED
    BY <1>5, <1>6, <1>8 DEF StoreStep, FInv

\* The copy grows, whether or not the file could be written.
LEMMA FdWriteStep ==
    ASSUME FInv, NEW fd \in Fds, NEW d \in Data, FdWrite(fd, d)
    PROVE  StoreStep /\ FInv'
  <1> DEFINE buf == Clip(g_fds[fd].buf \o d)
             e == [g_fds[fd] EXCEPT !.buf = buf]
  <1>1. files \in Tables /\ FdsInv /\ dirty \in BOOLEAN /\ g_fds[fd].used
    BY DEF FInv, FdWrite
  <1>2. /\ g_fds[fd] \in Descriptors /\ g_fds[fd].name \in Raw /\ g_fds[fd].buf \in Data
        /\ g_fds[fd].pos \in Nat /\ Len(g_fds[fd].buf) \in Nat
        /\ g_fds[fd].pos <= Len(g_fds[fd].buf)
    BY <1>1, FdIs
  <1>3. buf \in Data /\ Len(g_fds[fd].buf) <= Len(buf) /\ Len(buf) \in Nat
    BY <1>2, AppendedData, DataIs, LenProperties
  <1>4. FdsInv'
    <2>1. g_fds' = [g_fds EXCEPT ![fd] = e]
      BY DEF FdWrite
    <2> HIDE DEF buf
    <2>2. e \in Descriptors /\ e.name \in Raw /\ e.pos <= Len(e.buf)
      BY <1>2, <1>3 DEF Descriptors
    <2> QED
      BY <1>1, <2>1, <2>2, FdChanged
  <1>5. CASE CanWrite(files, g_fds[fd].name)
    <2>1. files' = fs_write(files, g_fds[fd].name, buf) /\ dirty' = TRUE
      BY <1>5 DEF FdWrite, Changed
    <2>2. StoreStep
      BY <1>1, <1>2, <1>3, <1>5, <2>1, WriteStep
    <2> QED
      BY <1>4, <2>1, <2>2 DEF StoreStep, FInv
  <1>6. CASE ~CanWrite(files, g_fds[fd].name)
    <2>1. UNCHANGED <<files, dirty>>
      BY <1>6 DEF FdWrite
    <2> QED
      BY <1>1, <1>4, <2>1 DEF StoreStep, FInv
  <1> QED
    BY <1>5, <1>6

\* read, lseek and close leave the table alone.
LEMMA FdSteps ==
    ASSUME FInv, NEW fd \in Fds,
           \/ \E n \in 0 .. MAX_SIZE : FdRead(fd, n)
           \/ \E np \in -1 .. MAX_SIZE + 1 : FdSeek(fd, np)
           \/ FdClose(fd)
    PROVE  StoreStep /\ FInv'
  <1>1. files \in Tables /\ FdsInv /\ dirty \in BOOLEAN /\ g_fds[fd].used
    BY DEF FInv, FdRead, FdSeek, FdClose
  <1>2. UNCHANGED <<files, dirty>>
    BY DEF FdRead, FdSeek, FdClose
  <1>3. /\ g_fds[fd] \in Descriptors /\ g_fds[fd].name \in Raw /\ g_fds[fd].buf \in Data
        /\ g_fds[fd].pos \in Nat /\ Len(g_fds[fd].buf) \in Nat
        /\ g_fds[fd].pos <= Len(g_fds[fd].buf)
    BY <1>1, FdIs
  <1>4. ASSUME NEW np \in Nat, np <= Len(g_fds[fd].buf), g_fds' = [g_fds EXCEPT ![fd].pos = np]
        PROVE  FdsInv'
    <2> DEFINE e == [g_fds[fd] EXCEPT !.pos = np]
    <2>1. e \in Descriptors /\ e.name \in Raw /\ e.pos <= Len(e.buf)
      BY <1>3, <1>4 DEF Descriptors
    <2>2. g_fds' = [g_fds EXCEPT ![fd] = e]
      BY <1>4
    <2> QED
      BY <1>1, <2>1, <2>2, FdChanged
  <1>5. ASSUME NEW n \in 0 .. MAX_SIZE, FdRead(fd, n) PROVE FdsInv'
    <2> DEFINE np == g_fds[fd].pos + IF n < Len(g_fds[fd].buf) - g_fds[fd].pos
                                     THEN n ELSE Len(g_fds[fd].buf) - g_fds[fd].pos
    <2>1. n \in Nat
      BY TableAssumption
    <2>2. np \in Nat /\ np <= Len(g_fds[fd].buf)
      BY <1>3, <2>1
    <2>3. g_fds' = [g_fds EXCEPT ![fd].pos = np]
      BY <1>5 DEF FdRead
    <2> QED
      BY <1>4, <2>2, <2>3
  <1>6. ASSUME NEW np \in -1 .. MAX_SIZE + 1, FdSeek(fd, np) PROVE FdsInv'
    <2>1. np \in Nat /\ np <= Len(g_fds[fd].buf)
      BY <1>6, TableAssumption DEF FdSeek, Seekable
    <2> QED
      BY <1>4, <1>6, <2>1 DEF FdSeek
  <1>7. ASSUME FdClose(fd) PROVE FdsInv'
    <2>1. Closed \in Descriptors /\ ~Closed.used /\ g_fds' = [g_fds EXCEPT ![fd] = Closed]
      BY <1>7, NoData DEF Closed, Descriptors, FdClose
    <2> QED
      BY <1>1, <2>1, FdChanged
  <1>8. FdsInv'
    BY <1>5, <1>6, <1>7
  <1> QED
    BY <1>1, <1>2, <1>8 DEF StoreStep, FInv

LEMMA Step == FInv /\ [Next]_vars => FInv' /\ [Store!Next \/ Strands]_(Content(files))
  <1> SUFFICES ASSUME FInv, [Next]_vars
               PROVE  FInv' /\ (Store!Next \/ Strands \/ UNCHANGED Content(files))
    OBVIOUS
  <1>1. CASE User
    <2>1. StoreStep /\ dirty' \in BOOLEAN /\ UNCHANGED g_fds
      BY <1>1, UserSteps
    <2> QED
      BY <2>1 DEF StoreStep, FInv, FdsInv
  <1>2. CASE Syscall
    <2>1. ASSUME NEW raw \in Raw, NEW creat \in BOOLEAN, NEW trunc \in BOOLEAN, Open(raw, creat, trunc)
          PROVE  FInv' /\ StoreStep
      BY <2>1, OpenStep
    <2>2. ASSUME NEW fd \in Fds, NEW d \in Data, FdWrite(fd, d) PROVE FInv' /\ StoreStep
      BY <2>2, FdWriteStep
    <2>3. ASSUME NEW fd \in Fds,
                 \/ \E n \in 0 .. MAX_SIZE : FdRead(fd, n)
                 \/ \E np \in -1 .. MAX_SIZE + 1 : FdSeek(fd, np)
                 \/ FdClose(fd)
          PROVE  FInv' /\ StoreStep
      BY <2>3, FdSteps
    <2>4. FInv' /\ StoreStep
      BY <1>2, <2>1, <2>2, <2>3 DEF Syscall
    <2> QED
      BY <2>4 DEF StoreStep
  <1>3. CASE UNCHANGED vars
    BY <1>3 DEF vars, FInv, FdsInv
  <1> QED
    BY <1>1, <1>2, <1>3 DEF Next

-----------------------------------------------------------------------------
(***************************************************************************)
(* The theorems.                                                           *)
(***************************************************************************)

LEMMA InvImplies == FInv => TypeOK /\ NamesUnique /\ PosInside
  <1> SUFFICES ASSUME FInv PROVE TypeOK /\ NamesUnique /\ PosInside
    OBVIOUS
  <1>1. files \in [Slots -> Entry] /\ Unique(files)
    BY DEF FInv, Tables
  <1>2. g_fds \in [Fds -> Descriptors] /\ PosInside
    BY DEF FInv, FdsInv, PosInside
  <1> QED
    BY <1>1, <1>2 DEF FInv, TypeOK, Entry, Descriptors, NamesUnique

LEMMA Invariant == Spec => []FInv
  <1>1. Init => FInv
    BY Start
  <1>2. FInv /\ [Next]_vars => FInv'
    BY Step
  <1> QED
    BY <1>1, <1>2, PTL DEF Spec

\* Whatever the shell, the GUI and the processes do, the table holds entries with
\* stored names and data that fits, and the descriptors copies that fit (fs.c, syscall.c).
THEOREM TypeCorrect == Spec => []TypeOK
  <1>1. FInv => TypeOK
    BY InvImplies
  <1> QED
    BY <1>1, Invariant, PTL

\* create, mkdir, write, append, open and rename never give two entries one name.
THEOREM NamesStayUnique == Spec => []NamesUnique
  <1>1. FInv => NamesUnique
    BY InvImplies
  <1> QED
    BY <1>1, Invariant, PTL

\* The position of an open descriptor stays inside its copy, for any number of
\* descriptors, reads, writes and seeks (do_read, do_write and do_lseek of syscall.c).
THEOREM PositionsInside == Spec => []PosInside
  <1>1. FInv => PosInside
    BY InvImplies
  <1> QED
    BY <1>1, Invariant, PTL

\* The table and the descriptors implement a map from names to contents: every command
\* and system call is one step of NameStore, or changes nothing of it, or is the rmdir or
\* mv of a directory that is not empty, of which Strands says what it does.
THEOREM ImplementsNameStore == Spec => IsNameStore
  <1>1. Init => FInv /\ Store!Init
    BY Start
  <1>2. FInv /\ [Next]_vars => [files' # files => Store!Next \/ Strands]_(Content(files))
    BY Step
  <1> QED
    BY <1>1, <1>2, Invariant, PTL DEF Spec, IsNameStore
=============================================================================
