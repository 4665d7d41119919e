--------------------------- MODULE ProgramsProofs ---------------------------
(***************************************************************************)
(* User programs, for every value of the constants.  Of their heap, for    *)
(* pages, headers, requests and limits of any size: it stays tiled by its  *)
(* blocks, memory taken with sbrk before the first malloc is never given   *)
(* out, and every descriptor has its FILE.  Of their loading, for any      *)
(* page size, layout, images and arguments: the segments are in memory     *)
(* byte for byte, and the arguments lie in the stack page.                 *)
(***************************************************************************)
EXTENDS Platform, SequenceTheorems, FiniteSetTheorems, WellFoundedInduction, NaturalsInduction, TLAPS

-----------------------------------------------------------------------------
(***************************************************************************)
(* The inductive invariant.                                                *)
(***************************************************************************)

Header == [size : Nat, used : BOOLEAN]
Typed(s) ==
    /\ DOMAIN s = {"ready", "top", "brk", "kbrk", "hdr", "free", "files", "fds", "given", "own",
                   "late"}
    /\ s.ready \in BOOLEAN /\ s.late \in BOOLEAN
    /\ s.top \in Nat /\ s.brk \in Nat /\ s.kbrk \in Nat
    /\ DOMAIN s.hdr \subseteq Nat /\ s.hdr \in [DOMAIN s.hdr -> Header]
    /\ s.free \in Seq(Nat)
    /\ s.given \subseteq [at : Nat, len : Nat] /\ s.own \subseteq Nat

UsedAt(s) == {g.at - HEADER : g \in s.given}
Blocks(s) == UsedAt(s) \cup ToSet(s.free)
End(s, b) == b + s.hdr[b].size
Sorted(q) == \A i, j \in DOMAIN q : i < j => q[i] < q[j]

\* The headers: a block has one, and it says whether the block is given.
Headed(s) ==
    /\ Blocks(s) \subseteq DOMAIN s.hdr
    /\ UsedAt(s) = {b \in DOMAIN s.hdr : s.hdr[b].used}
    /\ \A b \in ToSet(s.free) : ~s.hdr[b].used
    /\ \A b \in Blocks(s) : s.hdr[b].size > 0
    /\ \A g \in s.given : g.at >= HEADER /\ g.len + HEADER <= s.hdr[g.at - HEADER].size
    /\ \A g, h \in s.given : g.at = h.at => g = h

\* The blocks tile the heap from lo, where it begins, to its top.
Tiles(s, lo) ==
    /\ lo <= s.top
    /\ \A b \in Blocks(s) : lo <= b /\ End(s, b) <= s.top
    /\ \A b, c \in Blocks(s) : b < c => End(s, b) <= c
    /\ \A x \in lo..s.top - 1 : \E b \in Blocks(s) : b <= x /\ x < End(s, b)

\* Where the kernel's break is, and what the program took from it.
Below(s, lo) ==
    /\ s.top <= s.brk /\ s.brk <= s.kbrk
    /\ \A x \in s.own : x < s.kbrk
    /\ s.ready /\ ~s.late => \A x \in s.own : x < lo
    /\ ~s.ready => s.given = {} /\ s.free = <<>>

Core(s, lo) == Typed(s) /\ Sorted(s.free) /\ Headed(s) /\ Tiles(s, lo) /\ Below(s, lo)

\* No two free blocks touch.
Coalesced(s) == \A b, c \in ToSet(s.free) : End(s, b) # c

HeapInv(s) == (\E lo \in 0..s.top : Core(s, lo)) /\ Coalesced(s)

FilesInv(s) ==
    /\ s.fds = {f.fd : f \in s.files}
    /\ \A f \in s.files : \E g \in s.given : g.at = f.at
    /\ \A f, g \in s.files : f.at = g.at \/ f.fd = g.fd => f = g

Inv == HeapInv(hp) /\ FilesInv(hp)

-----------------------------------------------------------------------------
(***************************************************************************)
(* Least elements and the free list.                                       *)
(***************************************************************************)

\* A set of naturals that is not empty has a least element, and Min is it.
LEMMA MinIs ==
    ASSUME NEW S \in SUBSET Nat, S # {}
    PROVE  Min(S) \in S /\ \A y \in S : Min(S) <= y
  <1> DEFINE R == OpToRel(<, Nat)
  <1>1. IsWellFoundedOn(R, Nat)
    BY NatLessThanWellFounded
  <1>2. \A p \in Nat, q \in Nat : p < q => <<p, q>> \in R
    BY DEF OpToRel
  <1> HIDE DEF R
  <1>3. PICK x \in S : \A y \in S : ~ (<<y, x>> \in R)
    BY <1>1, WFMin
  <1>4. ASSUME NEW y \in S PROVE x <= y
    <2>1. x \in Nat /\ y \in Nat
      OBVIOUS
    <2>2. ~ (y < x)
      BY <2>1, <1>2, <1>3
    <2> QED
      BY <2>1, <2>2
  <1> QED
    BY <1>3, <1>4 DEF Min

\* Taking out an element keeps the others, in order.
LEMMA Removed ==
    ASSUME NEW q \in Seq(Nat), Sorted(q), NEW j \in DOMAIN q
    PROVE  /\ RemoveAt(q, j) \in Seq(Nat) /\ Sorted(RemoveAt(q, j))
           /\ ToSet(RemoveAt(q, j)) = ToSet(q) \ {q[j]}
  <1> DEFINE n == Len(q)
             a == SubSeq(q, 1, j - 1)
             c == SubSeq(q, j + 1, n)
             r == a \o c
  <1>1. n \in Nat /\ DOMAIN q = 1..n /\ j \in 1..n /\ \A i \in 1..n : q[i] \in Nat
    OBVIOUS
  <1>2. RemoveAt(q, j) = r
    BY DEF RemoveAt
  <1>3. /\ a \in Seq(Nat) /\ Len(a) = IF 1 <= j - 1 THEN j - 1 - 1 + 1 ELSE 0
        /\ \A i \in 1..j - 1 - 1 + 1 : a[i] = q[1 + i - 1]
    <2>1. \A i \in 1..j - 1 : q[i] \in Nat
      BY <1>1
    <2>2. 1 \in Int /\ j - 1 \in Int
      BY <1>1
    <2> QED
      BY ONLY <2>1, <2>2, SubSeqProperties DEF a
  <1>4. /\ c \in Seq(Nat) /\ Len(c) = IF j + 1 <= n THEN n - (j + 1) + 1 ELSE 0
        /\ \A i \in 1..n - (j + 1) + 1 : c[i] = q[j + 1 + i - 1]
    <2>1. \A i \in j + 1..n : q[i] \in Nat
      BY <1>1
    <2>2. j + 1 \in Int /\ n \in Int
      BY <1>1
    <2> QED
      BY <2>1, <2>2, SubSeqProperties, SMTT(30)
  <1> HIDE DEF a, c, n
  <1>5. a \in Seq(Nat) /\ Len(a) = j - 1 /\ \A i \in 1..j - 1 : a[i] = q[i]
    BY <1>1, <1>3
  <1>6. c \in Seq(Nat) /\ Len(c) = n - j
    BY <1>1, <1>4
  <1>7. \A i \in 1..n - j : c[i] = q[j + i]
    <2>1. ASSUME NEW i \in 1..n - j PROVE c[i] = q[j + i]
      <3>1. i \in 1..n - (j + 1) + 1 /\ j + 1 + i - 1 = j + i
        BY <1>1
      <3> QED
        BY <1>4, <3>1
    <2> QED
      BY <2>1
  <1>8. /\ r \in Seq(Nat) /\ Len(r) = Len(a) + Len(c)
        /\ \A i \in 1..Len(a) + Len(c) : r[i] = IF i <= Len(a) THEN a[i] ELSE c[i - Len(a)]
    BY <1>5, <1>6, ConcatProperties
  <1> HIDE DEF r
  <1>9. Len(r) = n - 1 /\ DOMAIN r = 1..n - 1
    BY <1>1, <1>5, <1>6, <1>8
  <1>10. ASSUME NEW i \in 1..n - 1 PROVE r[i] = IF i < j THEN q[i] ELSE q[i + 1]
    <2>1. r[i] = IF i <= j - 1 THEN a[i] ELSE c[i - (j - 1)]
      <3>1. i \in 1..Len(a) + Len(c)
        BY <1>1, <1>5, <1>6
      <3>2. r[i] = IF i <= Len(a) THEN a[i] ELSE c[i - Len(a)]
        BY <1>8, <3>1
      <3> QED
        BY <1>5, <3>2
    <2>2. CASE i < j
      BY <1>1, <1>5, <2>1, <2>2
    <2>3. CASE ~(i < j)
      <3>1. /\ i - (j - 1) \in 1..n - j /\ j + (i - (j - 1)) = i + 1
            /\ ~(i <= j - 1)
        BY <1>1, <2>3
      <3>2. c[i - (j - 1)] = q[j + (i - (j - 1))]
        BY <1>7, <3>1
      <3> QED
        BY <2>1, <2>3, <3>1, <3>2
    <2> QED
      BY <2>2, <2>3
  <1>11. Sorted(r)
    <2>1. ASSUME NEW i \in 1..n - 1, NEW k \in 1..n - 1, i < k PROVE r[i] < r[k]
      <3> DEFINE x == IF i < j THEN i ELSE i + 1
                 y == IF k < j THEN k ELSE k + 1
      <3>1. x \in 1..n /\ y \in 1..n /\ x < y
        BY <1>1, <2>1
      <3>2. r[i] = q[x] /\ r[k] = q[y]
        BY <1>10
      <3> HIDE DEF x, y
      <3> QED
        BY <1>1, <3>1, <3>2 DEF Sorted
    <2> QED
      BY <1>9, <2>1 DEF Sorted
  <1>12. ASSUME NEW i \in 1..n - 1 PROVE r[i] \in ToSet(q) \ {q[j]}
    <2> DEFINE x == IF i < j THEN i ELSE i + 1
    <2>1. x \in 1..n /\ (x < j \/ j < x)
      BY <1>1
    <2>2. r[i] = q[x]
      BY <1>10
    <2> HIDE DEF x
    <2>3. q[x] # q[j]
      BY <1>1, <2>1 DEF Sorted
    <2> QED
      BY <1>1, <2>1, <2>2, <2>3 DEF ToSet
  <1>13. ASSUME NEW x \in ToSet(q), x # q[j] PROVE x \in ToSet(r)
    <2>1. PICK i \in 1..n : x = q[i]
      BY <1>1 DEF ToSet
    <2>2. CASE i < j
      <3>1. i \in 1..n - 1 /\ r[i] = q[i]
        BY <1>1, <1>10, <2>2
      <3> QED
        BY <1>9, <2>1, <3>1 DEF ToSet
    <2>3. CASE i > j
      <3>1. i - 1 \in 1..n - 1 /\ ~(i - 1 < j) /\ (i - 1) + 1 = i
        BY <1>1, <2>3
      <3>2. r[i - 1] = q[i]
        BY <1>10, <3>1
      <3> QED
        BY <1>9, <2>1, <3>1, <3>2 DEF ToSet
    <2> QED
      BY <1>1, <1>13, <2>1, <2>2, <2>3
  <1>14. ToSet(r) = ToSet(q) \ {q[j]}
    <2>1. ToSet(r) \subseteq ToSet(q) \ {q[j]}
      BY <1>9, <1>12 DEF ToSet
    <2> QED
      BY <1>13, <2>1
  <1> QED
    BY <1>2, <1>8, <1>11, <1>14

\* Putting in b at its place keeps the list in order.
LEMMA Inserted ==
    ASSUME NEW s, s.free \in Seq(Nat), Sorted(s.free), NEW b \in Nat, b \notin ToSet(s.free)
    PROVE  LET q == InsertAt(s.free, Place(s, b), b)
           IN  q \in Seq(Nat) /\ Sorted(q) /\ ToSet(q) = ToSet(s.free) \cup {b}
  <1> DEFINE f == s.free
             n == Len(f)
             P == {i \in 1..n + 1 : i > n \/ f[i] >= b}
             p == Min(P)
             a == SubSeq(f, 1, p - 1)
             c == SubSeq(f, p, n)
             q == (a \o <<b>>) \o c
  <1>1. f \in Seq(Nat) /\ n \in Nat /\ DOMAIN f = 1..n /\ \A i \in 1..n : f[i] \in Nat
    OBVIOUS
  <1>2. P \in SUBSET Nat /\ n + 1 \in P
    BY <1>1
  <1>3. p \in P /\ \A i \in P : p <= i
    BY <1>2, MinIs
  <1> HIDE DEF p
  <1> HIDE DEF f, n
  <1>4. p \in 1..n + 1 /\ \A i \in 1..p - 1 : f[i] < b
    <2>1. p \in 1..n + 1
      BY <1>3
    <2>2. ASSUME NEW i \in 1..p - 1 PROVE f[i] < b
      <3>1. i \in 1..n /\ i \in 1..n + 1 /\ ~(p <= i)
        BY <1>1, <2>1
      <3>2. i \notin P
        BY <1>3, <3>1
      <3> QED
        BY <1>1, <3>1, <3>2
    <2> QED
      BY <2>1, <2>2
  <1>5. \A i \in p..n : f[i] > b
    <2>1. ASSUME NEW i \in p..n PROVE f[i] > b
      <3>1. p \in 1..n /\ f[p] >= b /\ i \in 1..n
        BY <1>1, <1>3, <1>4
      <3>2. f[i] >= f[p]
        <4>1. i = p \/ p < i
          BY <3>1
        <4>2. p < i => f[p] < f[i]
          BY <1>1, <3>1 DEF Sorted, f
        <4> QED
          BY <1>1, <3>1, <4>1, <4>2
      <3>3. f[i] # b
        BY <1>1, <3>1 DEF ToSet, f
      <3> QED
        BY <1>1, <3>1, <3>2, <3>3
    <2> QED
      BY <2>1
  <1>6. a \in Seq(Nat) /\ Len(a) = p - 1 /\ \A i \in 1..p - 1 : a[i] = f[i]
    <2>1. /\ a \in Seq(Nat) /\ Len(a) = IF 1 <= p - 1 THEN p - 1 - 1 + 1 ELSE 0
          /\ \A i \in 1..p - 1 - 1 + 1 : a[i] = f[1 + i - 1]
      <3>1. 1 \in Int /\ p - 1 \in Int /\ \A i \in 1..p - 1 : f[i] \in Nat
        BY <1>1, <1>4
      <3> QED
        BY <3>1, SubSeqProperties
    <2> QED
      BY <1>4, <2>1
  <1>7. c \in Seq(Nat) /\ Len(c) = n + 1 - p /\ \A i \in 1..n + 1 - p : c[i] = f[p + i - 1]
    <2>1. /\ c \in Seq(Nat) /\ Len(c) = IF p <= n THEN n - p + 1 ELSE 0
          /\ \A i \in 1..n - p + 1 : c[i] = f[p + i - 1]
      <3>1. p \in Int /\ n \in Int /\ \A i \in p..n : f[i] \in Nat
        BY <1>1, <1>4
      <3> QED
        BY <3>1, SubSeqProperties
    <2> QED
      BY <1>1, <1>4, <2>1
  <1> HIDE DEF a, c, P
  <1>8. <<b>> \in Seq(Nat) /\ Len(<<b>>) = 1 /\ <<b>>[1] = b
    OBVIOUS
  <1>9. /\ a \o <<b>> \in Seq(Nat) /\ Len(a \o <<b>>) = p
        /\ \A i \in 1..p : (a \o <<b>>)[i] = IF i <= p - 1 THEN a[i] ELSE b
    <2>1. /\ a \o <<b>> \in Seq(Nat) /\ Len(a \o <<b>>) = Len(a) + 1
          /\ \A i \in 1..Len(a) + 1 :
               (a \o <<b>>)[i] = IF i <= Len(a) THEN a[i] ELSE <<b>>[i - Len(a)]
      BY <1>6, <1>8, ConcatProperties
    <2> QED
      BY <1>1, <1>4, <1>6, <1>8, <2>1
  <1> DEFINE d == a \o <<b>>
  <1> HIDE DEF d
  <1>10. /\ d \o c \in Seq(Nat) /\ Len(d \o c) = n + 1
         /\ \A i \in 1..n + 1 : (d \o c)[i] = IF i <= p THEN d[i] ELSE c[i - p]
    <2>1. d \in Seq(Nat) /\ Len(d) = p
      BY <1>9 DEF d
    <2>2. /\ d \o c \in Seq(Nat) /\ Len(d \o c) = p + Len(c)
          /\ \A i \in 1..p + Len(c) : (d \o c)[i] = IF i <= p THEN d[i] ELSE c[i - p]
      BY <1>7, <2>1, ConcatProperties
    <2>3. p + Len(c) = n + 1
      BY <1>1, <1>4, <1>7
    <2> QED
      BY <2>2, <2>3
  <1>11. q = d \o c
    BY DEF d
  <1> HIDE DEF q
  <1>12. q \in Seq(Nat) /\ DOMAIN q = 1..n + 1
    BY <1>1, <1>10, <1>11
  <1>13. ASSUME NEW i \in 1..n + 1
         PROVE  q[i] = IF i < p THEN f[i] ELSE IF i = p THEN b ELSE f[i - 1]
    <2>1. q[i] = IF i <= p THEN d[i] ELSE c[i - p]
      BY <1>10, <1>11
    <2>2. CASE i <= p
      <3>1. d[i] = IF i <= p - 1 THEN a[i] ELSE b
        BY <1>4, <1>9, <2>2 DEF d
      <3> QED
        BY <1>4, <1>6, <2>1, <2>2, <3>1
    <2>3. CASE ~(i <= p)
      <3>1. i - p \in 1..n + 1 - p /\ p + (i - p) - 1 = i - 1
        BY <1>1, <1>4, <2>3
      <3>2. c[i - p] = f[p + (i - p) - 1]
        BY <1>7, <3>1
      <3> QED
        BY <1>4, <2>1, <2>3, <3>1, <3>2
    <2> QED
      BY <2>2, <2>3
  <1>14. Sorted(f)
    BY DEF f
  <1>15. Sorted(q)
    <2>1. ASSUME NEW i \in 1..n + 1, NEW j \in 1..n + 1, i < j PROVE q[i] < q[j]
      <3>1. CASE i < p /\ j < p
        <4>1. i \in 1..n /\ j \in 1..n /\ q[i] = f[i] /\ q[j] = f[j]
          BY <1>1, <1>4, <1>13, <3>1
        <4> QED
          BY <1>1, <1>14, <2>1, <4>1 DEF Sorted
      <3>2. CASE i < p /\ j = p
        BY <1>1, <1>4, <1>13, <2>1, <3>2
      <3>3. CASE i < p /\ j > p
        BY <1>1, <1>4, <1>5, <1>13, <2>1, <3>3
      <3>4. CASE i = p /\ j > p
        BY <1>1, <1>4, <1>5, <1>13, <2>1, <3>4, SMTT(30)
      <3>5. CASE i > p /\ j > p
        <4>1. i - 1 \in 1..n /\ j - 1 \in 1..n /\ q[i] = f[i - 1] /\ q[j] = f[j - 1]
          BY <1>1, <1>4, <1>13, <3>5
        <4>2. f[i - 1] < f[j - 1]
          <5>1. i - 1 < j - 1
            BY <1>1, <2>1
          <5> QED
            BY <1>1, <1>14, <4>1, <5>1 DEF Sorted
        <4> QED
          BY <4>1, <4>2
      <3> QED
        BY <1>1, <1>4, <2>1, <3>1, <3>2, <3>3, <3>4, <3>5
    <2> QED
      BY <1>12, <2>1 DEF Sorted
  <1>16. ToSet(q) = ToSet(f) \cup {b}
    <2>1. ASSUME NEW i \in 1..n + 1 PROVE q[i] \in ToSet(f) \cup {b}
      <3>1. CASE i < p
        BY <1>1, <1>4, <1>13, <3>1, SMTT(30) DEF ToSet
      <3>2. CASE i = p
        BY <1>13, <3>2
      <3>3. CASE i > p
        <4>1. i - 1 \in 1..n /\ q[i] = f[i - 1]
          BY <1>1, <1>4, <1>13, <3>3
        <4> QED
          BY <1>1, <4>1 DEF ToSet
      <3> QED
        BY <1>1, <1>4, <3>1, <3>2, <3>3
    <2>2. ASSUME NEW i \in 1..n PROVE \E k \in 1..n + 1 : q[k] = f[i]
      <3>1. CASE i < p
        <4>1. i \in 1..n + 1 /\ q[i] = f[i]
          BY <1>1, <1>4, <1>13, <3>1
        <4> QED
          BY <4>1
      <3>2. CASE ~(i < p)
        <4>1. i + 1 \in 1..n + 1 /\ ~(i + 1 < p) /\ i + 1 # p /\ (i + 1) - 1 = i
          BY <1>1, <1>4, <3>2
        <4>2. q[i + 1] = f[(i + 1) - 1]
          BY <1>13, <4>1
        <4> QED
          BY <4>1, <4>2
      <3> QED
        BY <3>1, <3>2
    <2>3. q[p] = b /\ p \in 1..n + 1
      BY <1>1, <1>4, <1>13
    <2>4. ToSet(q) \subseteq ToSet(f) \cup {b}
      BY <1>12, <2>1 DEF ToSet
    <2>5. ASSUME NEW x \in ToSet(f) PROVE x \in ToSet(q)
      <3>1. PICK i \in 1..n : x = f[i]
        BY <1>1 DEF ToSet
      <3>2. PICK k \in 1..n + 1 : q[k] = f[i]
        BY <2>2
      <3> QED
        BY <1>12, <3>1, <3>2 DEF ToSet
    <2>6. b \in ToSet(q)
      BY <1>12, <2>3 DEF ToSet
    <2> QED
      BY <2>4, <2>5, <2>6
  <1>17. InsertAt(s.free, Place(s, b), b) = q
    BY DEF InsertAt, Place, q, a, c, p, P, f, n
  <1> QED
    BY <1>12, <1>15, <1>16, <1>17 DEF f

\* The neighbours of a free block in the list are its neighbours by address.
LEMMA Neighbours ==
    ASSUME NEW q \in Seq(Nat), Sorted(q), NEW b \in ToSet(q)
    PROVE  LET i == CHOOSE k \in DOMAIN q : q[k] = b
           IN  /\ i \in DOMAIN q /\ q[i] = b
               /\ i < Len(q) => i + 1 \in DOMAIN q /\ b < q[i + 1]
               /\ i > 1 => i - 1 \in DOMAIN q /\ q[i - 1] < b
               /\ \A c \in ToSet(q) : c > b => i < Len(q) /\ q[i + 1] <= c
               /\ \A c \in ToSet(q) : c < b => i > 1 /\ c <= q[i - 1]
  <1> DEFINE i == CHOOSE k \in DOMAIN q : q[k] = b
             n == Len(q)
  <1>1. i \in DOMAIN q /\ q[i] = b
    BY DEF ToSet
  <1> HIDE DEF i
  <1>2. n \in Nat /\ DOMAIN q = 1..n /\ \A k \in 1..n : q[k] \in Nat
    OBVIOUS
  <1>3. i < n => i + 1 \in DOMAIN q /\ b < q[i + 1]
    BY <1>1, <1>2 DEF Sorted
  <1>4. i > 1 => i - 1 \in DOMAIN q /\ q[i - 1] < b
    BY <1>1, <1>2 DEF Sorted
  <1>5. ASSUME NEW c \in ToSet(q), c > b PROVE i < n /\ q[i + 1] <= c
    <2>1. PICK k \in 1..n : c = q[k]
      BY <1>2 DEF ToSet
    <2>2. k > i
      <3>1. k < i => q[k] < q[i]
        BY <1>1, <1>2 DEF Sorted
      <3> QED
        BY <1>1, <1>2, <1>5, <2>1, <3>1
    <2>3. i \in Nat /\ k \in Nat /\ n \in Nat /\ 1 <= i /\ k <= n /\ i + 1 <= k
      BY <1>1, <1>2, <2>2
    <2>4. i + 1 \in DOMAIN q /\ k \in DOMAIN q
      BY <1>2, <2>3
    <2>5. i + 1 < k => q[i + 1] < q[k]
      BY <2>4 DEF Sorted
    <2>6. q[i + 1] \in Nat /\ q[k] \in Nat
      BY <2>4
    <2>7. q[i + 1] <= q[k]
      <3>1. CASE i + 1 = k
        BY <2>6, <3>1
      <3>2. CASE i + 1 < k
        BY <2>5, <2>6, <3>2
      <3> QED
        BY <2>3, <3>1, <3>2
    <2> QED
      BY <2>1, <2>3, <2>7
  <1>6. ASSUME NEW c \in ToSet(q), c < b PROVE i > 1 /\ c <= q[i - 1]
    <2>1. PICK k \in 1..n : c = q[k]
      BY <1>2 DEF ToSet
    <2>2. k < i
      <3>1. i < k => q[i] < q[k]
        BY <1>1, <1>2 DEF Sorted
      <3> QED
        BY <1>1, <1>2, <1>6, <2>1, <3>1
    <2>3. i \in Nat /\ k \in Nat /\ n \in Nat /\ 1 <= k /\ i <= n /\ k <= i - 1
      BY <1>1, <1>2, <2>2
    <2>4. i - 1 \in DOMAIN q /\ k \in DOMAIN q
      BY <1>2, <2>3
    <2>5. k < i - 1 => q[k] < q[i - 1]
      BY <2>4 DEF Sorted
    <2>6. q[i - 1] \in Nat /\ q[k] \in Nat
      BY <2>4
    <2>7. q[k] <= q[i - 1]
      <3>1. CASE k = i - 1
        BY <2>6, <3>1
      <3>2. CASE k < i - 1
        BY <2>5, <2>6, <3>2
      <3> QED
        BY <2>3, <3>1, <3>2
    <2> QED
      BY <2>1, <2>3, <2>7
  <1> QED
    BY <1>1, <1>3, <1>4, <1>5, <1>6 DEF i

-----------------------------------------------------------------------------
(***************************************************************************)
(* free: a block goes back to the list and is merged with its neighbours.  *)
(***************************************************************************)

\* What none of this changes.
Keeps(s, t) ==
    /\ t.ready = s.ready /\ t.top = s.top /\ t.brk = s.brk /\ t.kbrk = s.kbrk
    /\ t.own = s.own /\ t.late = s.late /\ t.files = s.files /\ t.fds = s.fds

\* Blocks are numbers, and so are their ends.
LEMMA BlocksAre ==
    ASSUME NEW s, Typed(s), Headed(s)
    PROVE  /\ Blocks(s) \subseteq Nat /\ UsedAt(s) \subseteq Nat /\ ToSet(s.free) \subseteq Nat
           /\ \A b \in Blocks(s) : s.hdr[b] \in Header /\ s.hdr[b].size \in Nat
                                   /\ End(s, b) \in Nat /\ b < End(s, b)
  <1>1. HEADER \in Nat
    BY UserHeapAssumption
  <1>2. ToSet(s.free) \subseteq Nat
    BY DEF Typed, ToSet
  <1>3. \A g \in s.given : g.at \in Nat /\ g.at >= HEADER
    BY DEF Typed, Headed
  <1>4. UsedAt(s) \subseteq Nat
    BY <1>1, <1>3 DEF UsedAt
  <1>5. Blocks(s) \subseteq Nat
    BY <1>2, <1>4 DEF Blocks
  <1>6. ASSUME NEW b \in Blocks(s)
        PROVE  s.hdr[b] \in Header /\ s.hdr[b].size \in Nat /\ End(s, b) \in Nat /\ b < End(s, b)
    <2>1. s.hdr[b] \in Header
      BY DEF Typed, Headed
    <2>2. s.hdr[b].size \in Nat /\ s.hdr[b].size > 0
      BY <2>1 DEF Header, Headed
    <2> QED
      BY <1>5, <2>1, <2>2 DEF End
  <1> QED
    BY <1>2, <1>4, <1>5, <1>6

\* The free block a absorbs the one behind it, the j-th of the list.
Absorb(s, a, j) ==
    [s EXCEPT !.hdr[a].size = @ + s.hdr[s.free[j]].size, !.free = RemoveAt(@, j)]

LEMMA Absorbed ==
    ASSUME NEW s, NEW lo \in Nat, Core(s, lo), NEW a \in ToSet(s.free),
           NEW j \in DOMAIN s.free, End(s, a) = s.free[j]
    PROVE  LET t == Absorb(s, a, j)
           IN  /\ Core(t, lo) /\ Keeps(s, t) /\ t.given = s.given
               /\ ToSet(t.free) = ToSet(s.free) \ {s.free[j]}
               /\ a \in ToSet(t.free) /\ End(t, a) = End(s, s.free[j])
               /\ \A d \in Blocks(t) : d # a => End(t, d) = End(s, d)
  <1> DEFINE c == s.free[j]
             t == Absorb(s, a, j)
  <1>1. Typed(s) /\ Sorted(s.free) /\ Headed(s) /\ Tiles(s, lo) /\ Below(s, lo)
    BY DEF Core
  <1>2. c \in ToSet(s.free) /\ a \in Blocks(s) /\ c \in Blocks(s)
    BY DEF ToSet, Blocks
  <1>3. /\ Blocks(s) \subseteq Nat /\ ToSet(s.free) \subseteq Nat
        /\ \A b \in Blocks(s) : s.hdr[b] \in Header /\ s.hdr[b].size \in Nat
                                /\ End(s, b) \in Nat /\ b < End(s, b)
    BY <1>1, BlocksAre
  <1>4. a < c /\ End(s, a) = c /\ End(s, c) \in Nat /\ c < End(s, c)
    BY <1>2, <1>3
  <1>5. a \in DOMAIN s.hdr /\ c \in DOMAIN s.hdr
    BY <1>1, <1>2 DEF Headed
  <1>6. /\ DOMAIN t = DOMAIN s /\ Keeps(s, t) /\ t.given = s.given
        /\ t.free = RemoveAt(s.free, j)
        /\ t.hdr = [s.hdr EXCEPT ![a].size = @ + s.hdr[c].size]
    BY <1>1 DEF Typed, Absorb, Keeps
  <1> HIDE DEF t, c
  <1>7. /\ DOMAIN t.hdr = DOMAIN s.hdr /\ t.hdr \in [DOMAIN s.hdr -> Header]
        /\ t.hdr[a].size = s.hdr[a].size + s.hdr[c].size /\ t.hdr[a].used = s.hdr[a].used
        /\ \A d \in DOMAIN s.hdr : d # a => t.hdr[d] = s.hdr[d]
    <2> DEFINE e == [s.hdr[a] EXCEPT !.size = @ + s.hdr[c].size]
    <2>1. s.hdr[a] \in Header /\ s.hdr[c].size \in Nat
      BY <1>2, <1>3
    <2>2. e \in Header /\ e.size = s.hdr[a].size + s.hdr[c].size /\ e.used = s.hdr[a].used
      BY <2>1 DEF Header
    <2>3. t.hdr = [s.hdr EXCEPT ![a] = e]
      BY <1>6
    <2> HIDE DEF e
    <2> QED
      BY <1>1, <1>5, <2>2, <2>3 DEF Typed
  <1>8. /\ t.free \in Seq(Nat) /\ Sorted(t.free)
        /\ ToSet(t.free) = ToSet(s.free) \ {c}
    BY <1>1, <1>6, Removed DEF Typed, c
  <1>9. UsedAt(t) = UsedAt(s)
    BY <1>6 DEF UsedAt
  <1>10. c \notin UsedAt(s) /\ a \notin UsedAt(s)
    BY <1>1, <1>2 DEF Headed
  <1>11. Blocks(t) = Blocks(s) \ {c}
    BY <1>8, <1>9, <1>10 DEF Blocks
  <1>12. End(t, a) = End(s, c)
    BY <1>2, <1>3, <1>4, <1>7 DEF End
  <1>13. \A d \in Blocks(t) : d # a => End(t, d) = End(s, d)
    BY <1>1, <1>7, <1>11 DEF End, Headed
  <1>14. Typed(t)
    BY <1>1, <1>6, <1>7, <1>8 DEF Typed, Keeps
  <1>15. Headed(t)
    <2>1. \A d \in DOMAIN s.hdr : t.hdr[d].used = s.hdr[d].used
      BY <1>7
    <2>2. \A d \in Blocks(s) : t.hdr[d].size >= s.hdr[d].size
      BY <1>1, <1>2, <1>3, <1>7 DEF Headed
    <2>3. Blocks(t) \subseteq DOMAIN t.hdr
      BY <1>1, <1>7, <1>11 DEF Headed
    <2>4. UsedAt(t) = {b \in DOMAIN t.hdr : t.hdr[b].used}
      BY <1>1, <1>7, <1>9, <2>1 DEF Headed
    <2>5. \A b \in ToSet(t.free) : ~t.hdr[b].used
      BY <1>1, <1>8, <2>1 DEF Headed, Blocks
    <2>6. \A b \in Blocks(t) : t.hdr[b].size > 0
      <3> SUFFICES ASSUME NEW b \in Blocks(t) PROVE t.hdr[b].size > 0
        OBVIOUS
      <3>1. b \in Blocks(s) /\ s.hdr[b].size > 0 /\ s.hdr[b].size \in Nat /\ s.hdr[c].size \in Nat
        BY <1>1, <1>2, <1>3, <1>11 DEF Headed
      <3> QED
        BY <1>1, <1>7, <3>1 DEF Headed
    <2>7. \A g \in t.given : g.at >= HEADER /\ g.len + HEADER <= t.hdr[g.at - HEADER].size
      <3> SUFFICES ASSUME NEW g \in s.given
                   PROVE  g.at >= HEADER /\ g.len + HEADER <= t.hdr[g.at - HEADER].size
        BY <1>6
      <3>1. g.at - HEADER \in UsedAt(s)
        BY DEF UsedAt
      <3>2. t.hdr[g.at - HEADER] = s.hdr[g.at - HEADER]
        BY <1>1, <1>7, <1>10, <3>1 DEF Headed, Blocks
      <3> QED
        BY <1>1, <3>2 DEF Headed
    <2>8. \A g, h \in t.given : g.at = h.at => g = h
      BY <1>1, <1>6 DEF Headed
    <2> QED
      BY <2>3, <2>4, <2>5, <2>6, <2>7, <2>8 DEF Headed
  <1>16. Tiles(t, lo)
    <2>1. t.top = s.top /\ s.top \in Nat
      BY <1>1, <1>6 DEF Keeps, Typed
    <2>2. \A b \in Blocks(t) : lo <= b /\ End(t, b) <= t.top
      BY <1>1, <1>2, <1>11, <1>12, <1>13, <2>1 DEF Tiles
    <2>3. ASSUME NEW b \in Blocks(t), NEW d \in Blocks(t), b < d PROVE End(t, b) <= d
      <3>1. CASE b = a
        <4>1. d \in Blocks(s) /\ d # c /\ d \in Nat
          BY <1>3, <1>11
        <4>2. c <= d
          BY <1>1, <1>2, <1>4, <2>3, <3>1, <4>1 DEF Tiles
        <4>3. c < d
          BY <1>2, <1>3, <4>1, <4>2
        <4> QED
          BY <1>1, <1>2, <1>12, <3>1, <4>1, <4>3 DEF Tiles
      <3>2. CASE b # a
        BY <1>1, <1>11, <1>13, <2>3, <3>2 DEF Tiles
      <3> QED
        BY <3>1, <3>2
    <2>4. ASSUME NEW x \in lo..t.top - 1 PROVE \E b \in Blocks(t) : b <= x /\ x < End(t, b)
      <3>1. x \in lo..s.top - 1
        BY <2>1
      <3>2. PICK b \in Blocks(s) : b <= x /\ x < End(s, b)
        BY <1>1, <3>1 DEF Tiles
      <3>3. CASE b = c
        <4>1. a \in Blocks(t) /\ a <= x /\ x < End(t, a)
          BY <1>2, <1>3, <1>4, <1>11, <1>12, <3>1, <3>2, <3>3
        <4> QED
          BY <4>1
      <3>4. CASE b = a
        <4>1. a \in Blocks(t) /\ a <= x /\ x < End(t, a)
          BY <1>2, <1>3, <1>4, <1>11, <1>12, <3>1, <3>2, <3>4
        <4> QED
          BY <4>1
      <3>5. CASE b # a /\ b # c
        BY <1>11, <1>13, <3>2, <3>5
      <3> QED
        BY <3>3, <3>4, <3>5
    <2> QED
      BY <1>1, <2>1, <2>2, <2>3, <2>4 DEF Tiles
  <1>17. Below(t, lo)
    <2>1. s.free # <<>>
      <3>1. j \in 1..Len(s.free)
        BY <1>1 DEF Typed
      <3> QED
        BY <3>1
    <2> QED
      BY <1>1, <1>6, <2>1 DEF Below, Keeps
  <1>18. a \in ToSet(t.free)
    BY <1>3, <1>2, <1>4, <1>8
  <1> QED
    BY <1>6, <1>8, <1>12, <1>13, <1>14, <1>15, <1>16, <1>17, <1>18 DEF Core, t, c

\* The block b of the pointer p, back in the list.
Listed(s, p, b) ==
    [s EXCEPT !.hdr[b].used = FALSE, !.given = {g \in @ : g.at # p},
              !.free = InsertAt(@, Place(s, b), b)]

LEMMA ListedIs ==
    ASSUME NEW s, NEW lo \in Nat, Core(s, lo), NEW p \in Nat, NEW b \in DOMAIN s.hdr,
           b = p - HEADER, s.hdr[b].used
    PROVE  LET t == Listed(s, p, b)
           IN  /\ Core(t, lo) /\ Keeps(s, t) /\ t.given = {g \in s.given : g.at # p}
               /\ ToSet(t.free) = ToSet(s.free) \cup {b}
               /\ Blocks(t) = Blocks(s)
               /\ \A d \in Blocks(s) : End(t, d) = End(s, d)
  <1> DEFINE t == Listed(s, p, b)
  <1>0. HEADER \in Nat
    BY UserHeapAssumption
  <1>1. Typed(s) /\ Sorted(s.free) /\ Headed(s) /\ Tiles(s, lo) /\ Below(s, lo)
    BY DEF Core
  <1>2. /\ Blocks(s) \subseteq Nat /\ ToSet(s.free) \subseteq Nat
        /\ \A d \in Blocks(s) : s.hdr[d] \in Header /\ s.hdr[d].size \in Nat
                                /\ End(s, d) \in Nat /\ d < End(s, d)
    BY <1>1, BlocksAre
  <1>3. b \in UsedAt(s) /\ b \in Blocks(s) /\ b \notin ToSet(s.free)
    BY <1>1 DEF Headed, Blocks
  <1>4. /\ DOMAIN t = DOMAIN s /\ Keeps(s, t) /\ t.given = {g \in s.given : g.at # p}
        /\ t.free = InsertAt(s.free, Place(s, b), b)
        /\ t.hdr = [s.hdr EXCEPT ![b].used = FALSE]
    BY <1>1 DEF Typed, Listed, Keeps
  <1> HIDE DEF t
  <1>5. /\ DOMAIN t.hdr = DOMAIN s.hdr /\ t.hdr \in [DOMAIN s.hdr -> Header]
        /\ t.hdr[b].size = s.hdr[b].size /\ ~t.hdr[b].used
        /\ \A d \in DOMAIN s.hdr : d # b => t.hdr[d] = s.hdr[d]
    <2> DEFINE e == [s.hdr[b] EXCEPT !.used = FALSE]
    <2>1. s.hdr[b] \in Header
      BY <1>2, <1>3
    <2>2. e \in Header /\ e.size = s.hdr[b].size /\ e.used = FALSE
      BY <2>1 DEF Header
    <2>3. t.hdr = [s.hdr EXCEPT ![b] = e]
      BY <1>4
    <2> HIDE DEF e
    <2> QED
      BY <1>1, <2>2, <2>3 DEF Typed
  <1>6. t.free \in Seq(Nat) /\ Sorted(t.free) /\ ToSet(t.free) = ToSet(s.free) \cup {b}
    <2>1. s.free \in Seq(Nat) /\ b \in Nat
      BY <1>1, <1>2, <1>3 DEF Typed
    <2> DEFINE q == InsertAt(s.free, Place(s, b), b)
    <2>2. q \in Seq(Nat) /\ Sorted(q) /\ ToSet(q) = ToSet(s.free) \cup {b}
      BY <1>1, <1>3, <2>1, Inserted
    <2>3. t.free = q
      BY <1>4
    <2> QED
      BY <2>2, <2>3
  <1>7. UsedAt(t) = UsedAt(s) \ {b}
    <2>1. \A g \in s.given : g.at \in Nat
      BY <1>1 DEF Typed
    <2>2. \A g \in s.given : g.at - HEADER = b <=> g.at = p
      BY <1>0, <2>1
    <2> QED
      BY <1>4, <2>2 DEF UsedAt
  <1>8. Blocks(t) = Blocks(s)
    BY <1>3, <1>6, <1>7 DEF Blocks
  <1>9. \A d \in DOMAIN s.hdr : t.hdr[d].size = s.hdr[d].size
    BY <1>5
  <1>10. \A d \in Blocks(s) : End(t, d) = End(s, d)
    BY <1>1, <1>9 DEF End, Headed
  <1>11. Typed(t)
    BY <1>1, <1>4, <1>5, <1>6 DEF Typed, Keeps
  <1>12. Headed(t)
    <2>1. Blocks(t) \subseteq DOMAIN t.hdr
      BY <1>1, <1>5, <1>8 DEF Headed
    <2>2. UsedAt(t) = {d \in DOMAIN t.hdr : t.hdr[d].used}
      BY <1>1, <1>5, <1>7 DEF Headed
    <2>3. \A d \in ToSet(t.free) : ~t.hdr[d].used
      BY <1>1, <1>5, <1>6 DEF Headed, Blocks
    <2>4. \A d \in Blocks(t) : t.hdr[d].size > 0
      BY <1>1, <1>8, <1>9 DEF Headed
    <2>5. \A g \in t.given : g.at >= HEADER /\ g.len + HEADER <= t.hdr[g.at - HEADER].size
      <3> SUFFICES ASSUME NEW g \in s.given
                   PROVE  g.at >= HEADER /\ g.len + HEADER <= t.hdr[g.at - HEADER].size
        BY <1>4
      <3>1. g.at - HEADER \in DOMAIN s.hdr
        BY <1>1 DEF UsedAt, Headed
      <3> QED
        BY <1>1, <1>9, <3>1 DEF Headed
    <2>6. \A g, h \in t.given : g.at = h.at => g = h
      BY <1>1, <1>4 DEF Headed
    <2> QED
      BY <2>1, <2>2, <2>3, <2>4, <2>5, <2>6 DEF Headed
  <1>13. Tiles(t, lo)
    <2>1. t.top = s.top
      BY <1>4 DEF Keeps
    <2> QED
      BY <1>1, <1>8, <1>10, <2>1 DEF Tiles
  <1>14. Below(t, lo)
    <2>1. s.given # {}
      BY <1>3 DEF UsedAt
    <2> QED
      BY <1>1, <1>4, <2>1 DEF Below, Keeps
  <1> QED
    BY <1>4, <1>6, <1>8, <1>10, <1>11, <1>12, <1>13, <1>14 DEF Core, t

\* The only free blocks that touch are b and others, on the sides that are named.
TouchOnly(s, b, ahead) ==
    \A c, d \in ToSet(s.free) : End(s, c) = d => d = b \/ (ahead /\ c = b)

LEMMA NextMerged ==
    ASSUME NEW s, NEW lo \in Nat, Core(s, lo), NEW b \in ToSet(s.free), TouchOnly(s, b, TRUE)
    PROVE  LET t == MergeNext(s, b)
           IN  /\ Core(t, lo) /\ Keeps(s, t) /\ t.given = s.given
               /\ b \in ToSet(t.free) /\ TouchOnly(t, b, FALSE)
  <1> DEFINE i == CHOOSE k \in DOMAIN s.free : s.free[k] = b
             t == MergeNext(s, b)
  <1>1. Typed(s) /\ Sorted(s.free) /\ Headed(s) /\ Tiles(s, lo) /\ s.free \in Seq(Nat)
    BY DEF Core, Typed
  <1>2. /\ ToSet(s.free) \subseteq Nat /\ ToSet(s.free) \subseteq Blocks(s)
        /\ \A c \in ToSet(s.free) : End(s, c) \in Nat /\ c < End(s, c)
    BY <1>1, BlocksAre DEF Blocks
  <1>3. /\ i \in DOMAIN s.free /\ s.free[i] = b
        /\ i < Len(s.free) => i + 1 \in DOMAIN s.free /\ b < s.free[i + 1]
        /\ \A c \in ToSet(s.free) : c > b => i < Len(s.free) /\ s.free[i + 1] <= c
    BY <1>1, Neighbours
  <1>4. CASE i < Len(s.free) /\ End(s, b) = s.free[i + 1]
    <2> DEFINE n == s.free[i + 1]
    <2>1. t = Absorb(s, b, i + 1)
      BY <1>4 DEF MergeNext, Absorb, End
    <2>2. /\ Core(t, lo) /\ Keeps(s, t) /\ t.given = s.given
          /\ ToSet(t.free) = ToSet(s.free) \ {n}
          /\ b \in ToSet(t.free) /\ End(t, b) = End(s, n)
          /\ \A d \in Blocks(t) : d # b => End(t, d) = End(s, d)
      <3> HIDE DEF i, t
      <3> DEFINE j == i + 1
      <3>1. j \in DOMAIN s.free /\ End(s, b) = s.free[j] /\ t = Absorb(s, b, j) /\ n = s.free[j]
        BY <1>3, <1>4, <2>1
      <3> HIDE DEF j, n
      <3> QED
        BY <3>1, Absorbed
    <2>3. n \in ToSet(s.free) /\ n # b /\ b < n
      <3> HIDE DEF i
      <3>1. i + 1 \in DOMAIN s.free /\ b < n
        BY <1>3, <1>4
      <3>2. n \in ToSet(s.free)
        BY <3>1 DEF ToSet
      <3> HIDE DEF n
      <3> QED
        BY <1>2, <3>1, <3>2
    <2> HIDE DEF t, n, i
    <2>4. ASSUME NEW c \in ToSet(t.free), NEW d \in ToSet(t.free), End(t, c) = d PROVE d = b
      <3>1. c \in ToSet(s.free) /\ d \in ToSet(s.free) /\ c \in Blocks(t)
        BY <2>2 DEF Blocks
      <3>2. CASE c = b
        BY <2>2, <2>3, <2>4, <3>1, <3>2 DEF TouchOnly
      <3>3. CASE c # b
        BY <2>2, <2>4, <3>1, <3>3 DEF TouchOnly
      <3> QED
        BY <3>2, <3>3
    <2> QED
      BY <2>2, <2>4 DEF TouchOnly, t
  <1>5. CASE ~(i < Len(s.free) /\ End(s, b) = s.free[i + 1])
    <2>1. t = s
      BY <1>5 DEF MergeNext, End
    <2>2. ASSUME NEW d \in ToSet(s.free) PROVE End(s, b) # d
      <3> SUFFICES ASSUME End(s, b) = d PROVE FALSE
        OBVIOUS
      <3> HIDE DEF i
      <3>1. d > b /\ d \in Nat /\ b \in Nat
        BY <1>2
      <3>2. i < Len(s.free) /\ s.free[i + 1] <= d /\ s.free[i + 1] \in ToSet(s.free) /\ b < s.free[i + 1]
        BY <1>3, <3>1 DEF ToSet
      <3>3. End(s, b) <= s.free[i + 1]
        BY <1>1, <1>2, <3>2 DEF Tiles
      <3>4. s.free[i + 1] = d
        BY <1>2, <3>2, <3>3
      <3> QED
        BY <1>5, <3>2, <3>4
    <2>3. TouchOnly(s, b, FALSE)
      BY <2>2 DEF TouchOnly
    <2> QED
      BY <2>1, <2>3 DEF Keeps
  <1> QED
    BY <1>4, <1>5

LEMMA PrevMerged ==
    ASSUME NEW s, NEW lo \in Nat, Core(s, lo), NEW b \in ToSet(s.free), TouchOnly(s, b, FALSE)
    PROVE  LET t == MergePrev(s, b)
           IN  Core(t, lo) /\ Keeps(s, t) /\ t.given = s.given /\ Coalesced(t)
  <1> DEFINE i == CHOOSE k \in DOMAIN s.free : s.free[k] = b
             t == MergePrev(s, b)
  <1>1. Typed(s) /\ Sorted(s.free) /\ Headed(s) /\ Tiles(s, lo) /\ s.free \in Seq(Nat)
    BY DEF Core, Typed
  <1>2. /\ ToSet(s.free) \subseteq Nat /\ ToSet(s.free) \subseteq Blocks(s)
        /\ \A c \in ToSet(s.free) : End(s, c) \in Nat /\ c < End(s, c)
    BY <1>1, BlocksAre DEF Blocks
  <1>3. /\ i \in DOMAIN s.free /\ s.free[i] = b
        /\ i > 1 => i - 1 \in DOMAIN s.free /\ s.free[i - 1] < b
        /\ \A c \in ToSet(s.free) : c < b => i > 1 /\ c <= s.free[i - 1]
    BY <1>1, Neighbours
  <1>4. CASE i > 1 /\ End(s, s.free[i - 1]) = b
    <2> DEFINE n == s.free[i - 1]
    <2>1. t = Absorb(s, n, i)
      BY <1>3, <1>4 DEF MergePrev, Absorb, End
    <2>2. n \in ToSet(s.free) /\ n # b
      <3> HIDE DEF i
      <3>1. i - 1 \in DOMAIN s.free /\ n < b
        BY <1>3, <1>4
      <3>2. n \in ToSet(s.free)
        BY <3>1 DEF ToSet
      <3> HIDE DEF n
      <3> QED
        BY <1>2, <3>1, <3>2
    <2>3. /\ Core(t, lo) /\ Keeps(s, t) /\ t.given = s.given
          /\ ToSet(t.free) = ToSet(s.free) \ {b}
          /\ n \in ToSet(t.free) /\ End(t, n) = End(s, b)
          /\ \A d \in Blocks(t) : d # n => End(t, d) = End(s, d)
      <3> HIDE DEF i, t, n
      <3>1. End(s, n) = s.free[i]
        BY <1>3, <1>4 DEF n
      <3> QED
        BY <1>3, <2>1, <2>2, <3>1, Absorbed
    <2> HIDE DEF t, n, i
    <2>4. ASSUME NEW c \in ToSet(t.free), NEW d \in ToSet(t.free), End(t, c) = d PROVE FALSE
      <3>1. c \in ToSet(s.free) /\ d \in ToSet(s.free) /\ c \in Blocks(t) /\ d # b
        BY <2>3 DEF Blocks
      <3>2. CASE c = n
        BY <2>3, <2>4, <3>1, <3>2 DEF TouchOnly
      <3>3. CASE c # n
        BY <2>3, <2>4, <3>1, <3>3 DEF TouchOnly
      <3> QED
        BY <3>2, <3>3
    <2> QED
      BY <2>3, <2>4 DEF Coalesced, t
  <1>5. CASE ~(i > 1 /\ End(s, s.free[i - 1]) = b)
    <2>1. t = s
      BY <1>5 DEF MergePrev, End
    <2>2. ASSUME NEW c \in ToSet(s.free), End(s, c) = b PROVE FALSE
      <3> HIDE DEF i
      <3>1. c < b /\ c \in Nat /\ b \in Nat
        BY <1>2, <2>2
      <3>2. i > 1 /\ c <= s.free[i - 1] /\ s.free[i - 1] \in ToSet(s.free) /\ s.free[i - 1] < b
        BY <1>3, <3>1 DEF ToSet
      <3>3. c < s.free[i - 1] => End(s, c) <= s.free[i - 1]
        BY <1>1, <1>2, <3>2 DEF Tiles
      <3>4. s.free[i - 1] = c
        BY <1>2, <2>2, <3>1, <3>2, <3>3
      <3> QED
        BY <1>5, <2>2, <3>2, <3>4
    <2>3. Coalesced(s)
      BY <2>2 DEF TouchOnly, Coalesced
    <2> QED
      BY <2>1, <2>3 DEF Keeps
  <1> QED
    BY <1>4, <1>5

\* free leaves the heap tiled and merged, and takes at most its own pointer back.
LEMMA FreedKeeps ==
    ASSUME NEW s, NEW lo \in Nat, Core(s, lo), Coalesced(s), NEW p \in Nat
    PROVE  LET t == Freed(s, p)
           IN  /\ Core(t, lo) /\ Coalesced(t) /\ Keeps(s, t)
               /\ t.given \subseteq s.given /\ {g \in s.given : g.at # p} \subseteq t.given
  <1> DEFINE b == p - HEADER
             u == Listed(s, p, b)
             v == MergeNext(u, b)
             t == MergePrev(v, b)
  <1>1. CASE b \notin DOMAIN s.hdr \/ ~s.hdr[b].used
    <2>1. Freed(s, p) = s
      BY <1>1 DEF Freed
    <2> QED
      BY <2>1 DEF Keeps
  <1>2. CASE b \in DOMAIN s.hdr /\ s.hdr[b].used
    <2>1. Freed(s, p) = t
      BY <1>2 DEF Freed, Listed
    <2>2. /\ Core(u, lo) /\ Keeps(s, u) /\ u.given = {g \in s.given : g.at # p}
          /\ ToSet(u.free) = ToSet(s.free) \cup {b}
          /\ Blocks(u) = Blocks(s)
          /\ \A d \in Blocks(s) : End(u, d) = End(s, d)
      <3> HIDE DEF u
      <3> QED
        BY <1>2, ListedIs DEF u
    <2> HIDE DEF u
    <2>3. b \in ToSet(u.free) /\ TouchOnly(u, b, TRUE)
      BY <2>2 DEF TouchOnly, Coalesced, Blocks
    <2> HIDE DEF b
    <2>4. /\ Core(v, lo) /\ Keeps(u, v) /\ v.given = u.given
          /\ b \in ToSet(v.free) /\ TouchOnly(v, b, FALSE)
      BY <2>2, <2>3, NextMerged
    <2> HIDE DEF v
    <2>5. Core(t, lo) /\ Keeps(v, t) /\ t.given = v.given /\ Coalesced(t)
      BY <2>4, PrevMerged
    <2> HIDE DEF t
    <2>6. Keeps(s, t)
      BY <2>2, <2>4, <2>5 DEF Keeps
    <2> QED
      BY <2>1, <2>2, <2>4, <2>5, <2>6
  <1> QED
    BY <1>1, <1>2

-----------------------------------------------------------------------------
(***************************************************************************)
(* malloc: a free block, or a new one at the top.                          *)
(***************************************************************************)

\* What malloc may have done: nothing, or given one block that nobody had.
Gave(s, t) ==
    /\ t.ready = s.ready /\ t.own = s.own /\ t.late = s.late
    /\ t.files = s.files /\ t.fds = s.fds
    /\ \/ t.given = s.given
       \/ \E g : (\A h \in s.given : h.at # g.at) /\ t.given = s.given \cup {g}

LEMMA Reused ==
    ASSUME NEW s, NEW lo \in Nat, Core(s, lo), Coalesced(s), s.ready, NEW n \in Nat,
           Fits(s, n + HEADER) # {}
    PROVE  LET t == Reuse(s, n) IN Core(t, lo) /\ Coalesced(t) /\ Gave(s, t)
  <1> DEFINE i == Min(Fits(s, n + HEADER))
             at == s.free[i]
             g == [at |-> at + HEADER, len |-> n]
             t == Reuse(s, n)
  <1>0. HEADER \in Nat /\ HEADER > 0
    BY UserHeapAssumption
  <1>1. Typed(s) /\ Sorted(s.free) /\ Headed(s) /\ Tiles(s, lo) /\ Below(s, lo)
        /\ s.free \in Seq(Nat)
    BY SMTT(30) DEF Core, Typed
  <1>2. i \in DOMAIN s.free /\ s.hdr[at].size >= n + HEADER
    <2>1. Fits(s, n + HEADER) \in SUBSET Nat
      BY <1>1 DEF Fits
    <2>2. i \in Fits(s, n + HEADER)
      BY <2>1, MinIs
    <2> QED
      BY <2>2 DEF Fits
  <1>3. /\ Blocks(s) \subseteq Nat /\ UsedAt(s) \subseteq Nat
        /\ \A b \in Blocks(s) : s.hdr[b] \in Header /\ s.hdr[b].size \in Nat
                                /\ End(s, b) \in Nat /\ b < End(s, b)
    BY <1>1, BlocksAre
  <1>4. at \in ToSet(s.free) /\ at \in Blocks(s) /\ at \in DOMAIN s.hdr /\ at \in Nat
    <2>1. at \in ToSet(s.free)
      <3> HIDE DEF i
      <3> QED
        BY <1>2 DEF ToSet
    <2> HIDE DEF at
    <2> QED
      BY <1>1, <1>3, <2>1 DEF Headed, Blocks
  <1>5. /\ DOMAIN t = DOMAIN s /\ t.free = RemoveAt(s.free, i)
        /\ t.hdr = [s.hdr EXCEPT ![at].used = TRUE] /\ t.given = s.given \cup {g}
        /\ t.top = s.top /\ t.brk = s.brk /\ t.kbrk = s.kbrk
        /\ t.ready = s.ready /\ t.own = s.own /\ t.late = s.late
        /\ t.files = s.files /\ t.fds = s.fds
    BY <1>1 DEF Typed, Reuse, Give
  <1> HIDE DEF t
  <1>6. /\ t.free \in Seq(Nat) /\ Sorted(t.free) /\ ToSet(t.free) = ToSet(s.free) \ {at}
    <2> HIDE DEF i
    <2> QED
      BY <1>1, <1>2, <1>5, Removed
  <1> HIDE DEF i, at
  <1>7. /\ DOMAIN t.hdr = DOMAIN s.hdr /\ t.hdr \in [DOMAIN s.hdr -> Header]
        /\ t.hdr[at].size = s.hdr[at].size /\ t.hdr[at].used
        /\ \A d \in DOMAIN s.hdr : d # at => t.hdr[d] = s.hdr[d]
    <2> DEFINE e == [s.hdr[at] EXCEPT !.used = TRUE]
    <2>1. s.hdr[at] \in Header
      BY <1>3, <1>4
    <2>2. e \in Header /\ e.size = s.hdr[at].size /\ e.used = TRUE
      BY <2>1 DEF Header
    <2>3. t.hdr = [s.hdr EXCEPT ![at] = e]
      BY <1>5
    <2> HIDE DEF e
    <2> QED
      BY <1>1, <1>4, <2>2, <2>3 DEF Typed
  <1>8. \A d \in DOMAIN s.hdr : t.hdr[d].size = s.hdr[d].size
    BY <1>7
  <1>9. g.at - HEADER = at /\ g.at \in Nat /\ g.at >= HEADER /\ g.len = n
    BY <1>0, <1>4
  <1>10. g \in [at : Nat, len : Nat]
    BY <1>9
  <1> HIDE DEF g
  <1>11. UsedAt(t) = UsedAt(s) \cup {at}
    BY <1>5, <1>9 DEF UsedAt
  <1>12. Blocks(t) = Blocks(s)
    BY <1>4, <1>6, <1>11 DEF Blocks
  <1>13. \A d \in Blocks(s) : End(t, d) = End(s, d)
    BY <1>1, <1>8 DEF End, Headed
  <1>14. ~s.hdr[at].used /\ at \notin UsedAt(s)
    BY <1>1, <1>4 DEF Headed
  <1>15. \A h \in s.given : h.at # g.at
    BY <1>9, <1>14 DEF UsedAt
  <1>16. Typed(t)
    BY <1>1, <1>5, <1>6, <1>7, <1>10 DEF Typed
  <1>17. Headed(t)
    <2>1. Blocks(t) \subseteq DOMAIN t.hdr
      BY <1>1, <1>7, <1>12 DEF Headed
    <2>2. UsedAt(t) = {d \in DOMAIN t.hdr : t.hdr[d].used}
      BY <1>1, <1>4, <1>7, <1>11 DEF Headed
    <2>3. \A d \in ToSet(t.free) : ~t.hdr[d].used
      BY <1>1, <1>6, <1>7 DEF Headed, Blocks
    <2>4. \A d \in Blocks(t) : t.hdr[d].size > 0
      BY <1>1, <1>8, <1>12 DEF Headed
    <2>5. ASSUME NEW h \in t.given
          PROVE  h.at >= HEADER /\ h.len + HEADER <= t.hdr[h.at - HEADER].size
      <3>1. CASE h = g
        <4>1. s.hdr[at].size \in Nat
          BY <1>3, <1>4
        <4> QED
          BY <1>0, <1>2, <1>7, <1>9, <3>1, <4>1
      <3>2. CASE h \in s.given
        <4>1. h.at - HEADER \in DOMAIN s.hdr
          BY <1>1, <3>2 DEF UsedAt, Headed
        <4> QED
          BY <1>1, <1>8, <3>2, <4>1 DEF Headed
      <3> QED
        BY <1>5, <3>1, <3>2
    <2>6. \A h, k \in t.given : h.at = k.at => h = k
      BY <1>1, <1>5, <1>15 DEF Headed
    <2> QED
      BY <2>1, <2>2, <2>3, <2>4, <2>5, <2>6 DEF Headed
  <1>18. Tiles(t, lo)
    BY <1>1, <1>5, <1>12, <1>13 DEF Tiles
  <1>19. Below(t, lo)
    BY <1>1, <1>5 DEF Below
  <1>20. Coalesced(t)
    BY <1>6, <1>13 DEF Coalesced, Blocks
  <1> QED
    BY <1>5, <1>6, <1>15, <1>16, <1>17, <1>18, <1>19, <1>20 DEF Core, Gave, t

LEMMA Bumped ==
    ASSUME NEW s, NEW lo \in Nat, Core(s, lo), Coalesced(s), s.ready, NEW n \in Nat,
           s.top + n + HEADER <= s.brk
    PROVE  LET t == Bump(s, n) IN Core(t, lo) /\ Coalesced(t) /\ Gave(s, t)
  <1> DEFINE at == s.top
             g == [at |-> at + HEADER, len |-> n]
             t == Bump(s, n)
  <1>0. HEADER \in Nat /\ HEADER > 0
    BY UserHeapAssumption
  <1>1. Typed(s) /\ Sorted(s.free) /\ Headed(s) /\ Tiles(s, lo) /\ Below(s, lo)
    BY DEF Core
  <1>2. /\ Blocks(s) \subseteq Nat /\ UsedAt(s) \subseteq Nat
        /\ \A b \in Blocks(s) : s.hdr[b] \in Header /\ s.hdr[b].size \in Nat
                                /\ End(s, b) \in Nat /\ b < End(s, b)
    BY <1>1, BlocksAre
  <1>3. at \in Nat /\ s.brk \in Nat /\ s.kbrk \in Nat
    BY <1>1 DEF Typed
  <1>4. /\ DOMAIN t = DOMAIN s /\ t.free = s.free /\ t.top = at + n + HEADER
        /\ t.hdr = With(s.hdr, at, [size |-> n + HEADER, used |-> TRUE])
        /\ t.given = s.given \cup {g}
        /\ t.brk = s.brk /\ t.kbrk = s.kbrk
        /\ t.ready = s.ready /\ t.own = s.own /\ t.late = s.late
        /\ t.files = s.files /\ t.fds = s.fds
    BY <1>1 DEF Typed, Bump, Give
  <1> HIDE DEF t
  <1>5. at \notin Blocks(s)
    BY <1>1, <1>2, <1>3 DEF Tiles
  <1> HIDE DEF at
  <1>6. /\ DOMAIN t.hdr = DOMAIN s.hdr \cup {at} /\ t.hdr \in [DOMAIN t.hdr -> Header]
        /\ t.hdr[at].size = n + HEADER /\ t.hdr[at].used
        /\ \A d \in DOMAIN s.hdr : d # at => t.hdr[d] = s.hdr[d]
    <2> DEFINE e == [size |-> n + HEADER, used |-> TRUE]
    <2>1. e \in Header /\ e.size = n + HEADER /\ e.used = TRUE
      BY <1>0 DEF Header
    <2>2. t.hdr = With(s.hdr, at, e)
      BY <1>4
    <2> HIDE DEF e
    <2> QED
      BY <1>1, <2>1, <2>2 DEF Typed, With
  <1>7. g.at - HEADER = at /\ g.at \in Nat /\ g.at >= HEADER /\ g.len = n
    BY <1>0, <1>3
  <1>8. g \in [at : Nat, len : Nat]
    BY <1>7
  <1> HIDE DEF g
  <1>9. UsedAt(t) = UsedAt(s) \cup {at}
    BY <1>4, <1>7 DEF UsedAt
  <1>10. Blocks(t) = Blocks(s) \cup {at}
    BY <1>4, <1>9 DEF Blocks
  <1>11. \A d \in Blocks(s) : d # at /\ d \in DOMAIN s.hdr /\ t.hdr[d] = s.hdr[d]
    BY <1>1, <1>5, <1>6 DEF Headed
  <1>12. \A d \in Blocks(s) : End(t, d) = End(s, d)
    BY <1>11 DEF End
  <1>13. End(t, at) = t.top
    BY <1>0, <1>3, <1>4, <1>6 DEF End
  <1>14. \A h \in s.given : h.at # g.at
    BY <1>5, <1>7 DEF UsedAt, Blocks
  <1>15. Typed(t)
    <2>1. t.top \in Nat
      BY <1>0, <1>3, <1>4
    <2> QED
      BY <1>1, <1>3, <1>4, <1>6, <1>8, <2>1 DEF Typed
  <1>16. Headed(t)
    <2>1. Blocks(t) \subseteq DOMAIN t.hdr
      BY <1>1, <1>6, <1>10 DEF Headed
    <2>2. UsedAt(t) = {d \in DOMAIN t.hdr : t.hdr[d].used}
      BY <1>1, <1>5, <1>6, <1>9 DEF Headed, Blocks
    <2>3. \A d \in ToSet(t.free) : ~t.hdr[d].used
      BY <1>1, <1>4, <1>11 DEF Headed, Blocks
    <2>4. \A d \in Blocks(t) : t.hdr[d].size > 0
      BY <1>0, <1>1, <1>6, <1>10, <1>11 DEF Headed
    <2>5. ASSUME NEW h \in t.given
          PROVE  h.at >= HEADER /\ h.len + HEADER <= t.hdr[h.at - HEADER].size
      <3>1. CASE h = g
        BY <1>0, <1>6, <1>7, <3>1
      <3>2. CASE h \in s.given
        <4>1. h.at - HEADER \in Blocks(s)
          BY <3>2 DEF UsedAt, Blocks
        <4> QED
          BY <1>1, <1>11, <3>2, <4>1 DEF Headed
      <3> QED
        BY <1>4, <3>1, <3>2
    <2>6. \A h, k \in t.given : h.at = k.at => h = k
      BY <1>1, <1>4, <1>14 DEF Headed
    <2> QED
      BY <2>1, <2>2, <2>3, <2>4, <2>5, <2>6 DEF Headed
  <1>17. Tiles(t, lo)
    <2>1. lo <= at /\ at < t.top /\ t.top \in Nat
      BY <1>0, <1>1, <1>3, <1>4 DEF Tiles, at
    <2>2. \A b \in Blocks(s) : lo <= b /\ End(s, b) <= at
      BY <1>1 DEF Tiles, at
    <2>3. \A b \in Blocks(t) : lo <= b /\ End(t, b) <= t.top
      BY <1>2, <1>3, <1>10, <1>12, <1>13, <2>1, <2>2
    <2>4. ASSUME NEW b \in Blocks(t), NEW c \in Blocks(t), b < c PROVE End(t, b) <= c
      <3>1. CASE b = at
        BY <1>2, <1>3, <1>10, <2>2, <2>4, <3>1
      <3>2. CASE c = at /\ b # at
        BY <1>10, <1>12, <2>2, <3>2
      <3>3. CASE b # at /\ c # at
        BY <1>1, <1>10, <1>12, <2>4, <3>3 DEF Tiles
      <3> QED
        BY <3>1, <3>2, <3>3
    <2>5. ASSUME NEW x \in lo..t.top - 1 PROVE \E b \in Blocks(t) : b <= x /\ x < End(t, b)
      <3>1. CASE x < at
        <4>1. x \in lo..s.top - 1
          BY <1>3, <2>1, <3>1 DEF at
        <4>2. PICK b \in Blocks(s) : b <= x /\ x < End(s, b)
          BY <1>1, <4>1 DEF Tiles
        <4> QED
          BY <1>10, <1>12, <4>2
      <3>2. CASE at <= x
        BY <1>10, <1>13, <2>1, <3>2
      <3> QED
        BY <1>3, <3>1, <3>2
    <2> QED
      BY <1>3, <2>1, <2>3, <2>4, <2>5 DEF Tiles
  <1>18. Below(t, lo)
    BY <1>1, <1>4 DEF Below, at
  <1>19. Coalesced(t)
    BY <1>4, <1>12 DEF Coalesced, Blocks
  <1> QED
    BY <1>1, <1>4, <1>14, <1>15, <1>16, <1>17, <1>18, <1>19 DEF Core, Gave, t

\* Rounding up to pages loses nothing.
LEMMA RoundedUp == ASSUME NEW e \in Nat PROVE ((e + PAGE - 1) \div PAGE) * PAGE >= e
  <1>1. PAGE \in Nat /\ PAGE > 0 /\ e + PAGE - 1 \in Nat
    BY UserHeapAssumption
  <1> DEFINE x == e + PAGE - 1
  <1>2. x = PAGE * (x \div PAGE) + (x % PAGE) /\ x % PAGE \in 0..PAGE - 1 /\ x \div PAGE \in Nat
    BY <1>1
  <1> DEFINE d == x \div PAGE
  <1>3. d * PAGE \in Nat /\ PAGE * d = d * PAGE
    BY <1>1, <1>2
  <1> DEFINE m == d * PAGE
             r == x % PAGE
  <1>4. x = m + r /\ r \in 0..PAGE - 1 /\ m \in Nat
    BY <1>2, <1>3
  <1> HIDE DEF m, r
  <1>5. m >= e
    BY <1>1, <1>4
  <1> QED
    BY <1>5 DEF m

\* The kernel's break may rise at any time, with heap_brk or without it.
Rises(s, t) ==
    /\ DOMAIN t = DOMAIN s /\ t.kbrk \in Nat /\ t.brk \in Nat
    /\ s.kbrk <= t.kbrk /\ s.brk <= t.brk /\ t.brk <= t.kbrk
    /\ t.hdr = s.hdr /\ t.free = s.free /\ t.given = s.given /\ t.top = s.top
    /\ t.ready = s.ready /\ t.own = s.own /\ t.late = s.late
    /\ t.files = s.files /\ t.fds = s.fds

LEMMA Raised ==
    ASSUME NEW s, NEW lo \in Nat, Core(s, lo), Coalesced(s), NEW t, Rises(s, t)
    PROVE  Core(t, lo) /\ Coalesced(t) /\ Gave(s, t)
  <1>1. Typed(s) /\ Sorted(s.free) /\ Headed(s) /\ Tiles(s, lo) /\ Below(s, lo)
    BY DEF Core
  <1>2. UsedAt(t) = UsedAt(s) /\ Blocks(t) = Blocks(s) /\ \A b : End(t, b) = End(s, b)
    BY DEF UsedAt, Blocks, End, Rises
  <1>3. Typed(t)
    BY <1>1 DEF Typed, Rises
  <1>4. Headed(t)
    BY <1>1, <1>2 DEF Headed, Rises
  <1>5. Tiles(t, lo)
    BY <1>1, <1>2 DEF Tiles, Rises
  <1>6. Below(t, lo)
    <2>1. s.top \in Nat /\ s.brk \in Nat /\ s.kbrk \in Nat /\ s.own \subseteq Nat
      BY <1>1 DEF Typed, Rises
    <2> QED
      BY <1>1, <2>1 DEF Below, Rises
  <1>7. Coalesced(t)
    BY <1>2 DEF Coalesced, Rises
  <1> QED
    BY <1>1, <1>3, <1>4, <1>5, <1>6, <1>7 DEF Core, Gave, Rises

LEMMA MallocKeeps ==
    ASSUME NEW s, HeapInv(s), s.ready, NEW n \in Nat, NEW t \in Malloc(s, n)
    PROVE  HeapInv(t) /\ Gave(s, t)
  <1>1. PICK lo \in 0..s.top : Core(s, lo)
    BY DEF HeapInv
  <1>2. Coalesced(s) /\ Typed(s) /\ Below(s, lo)
    BY <1>1 DEF HeapInv, Core
  <1>3. s.top \in Nat /\ s.brk \in Nat /\ s.kbrk \in Nat /\ lo \in Nat
    BY <1>1, <1>2 DEF Typed
  <1>4. ASSUME NEW u, Core(u, lo), Coalesced(u) PROVE HeapInv(u)
    <2>1. lo \in 0..u.top
      BY <1>3, <1>4 DEF Core, Tiles, Typed
    <2> QED
      BY <1>4, <2>1 DEF HeapInv
  <1>5. CASE Fits(s, n + HEADER) # {}
    <2>1. t = Reuse(s, n)
      BY <1>5 DEF Malloc
    <2>2. Core(t, lo) /\ Coalesced(t) /\ Gave(s, t)
      BY <1>1, <1>2, <1>3, <1>5, <2>1, Reused
    <2> QED
      BY <1>4, <2>2
  <1>6. CASE Fits(s, n + HEADER) = {} /\ s.top + n + HEADER <= s.brk
    <2>1. t = Bump(s, n)
      BY <1>6 DEF Malloc
    <2>2. Core(t, lo) /\ Coalesced(t) /\ Gave(s, t)
      BY <1>1, <1>2, <1>3, <1>6, <2>1, Bumped
    <2> QED
      BY <1>4, <2>2
  <1>7. CASE Fits(s, n + HEADER) = {} /\ ~(s.top + n + HEADER <= s.brk)
    <2> DEFINE end == s.top + n + HEADER
               req == ((end + PAGE - 1) \div PAGE) * PAGE
    <2>1. PICK k \in Breaks(s.kbrk, req) :
             t = IF k = req THEN Bump([s EXCEPT !.brk = k, !.kbrk = k], n)
                            ELSE [s EXCEPT !.kbrk = k]
      BY <1>7 DEF Malloc
    <2>2. HEADER \in Nat /\ end \in Nat /\ req >= end
      <3>1. HEADER \in Nat
        BY UserHeapAssumption
      <3>2. end \in Nat
        BY <1>3, <3>1
      <3> HIDE DEF end
      <3> QED
        BY <3>1, <3>2, RoundedUp
    <2>3. k \in Nat /\ s.kbrk <= k /\ (k = req \/ k = s.kbrk)
      <3>1. req \in Nat
        <4>1. PAGE \in Nat /\ PAGE > 0
          BY UserHeapAssumption
        <4>2. end + PAGE - 1 \in Nat
          BY <2>2, <4>1
        <4> HIDE DEF end
        <4>3. (end + PAGE - 1) \div PAGE \in Nat
          BY <4>1, <4>2
        <4> QED
          BY <4>1, <4>3
      <3> HIDE DEF req
      <3> QED
        BY <1>3, <3>1 DEF Breaks
    <2> HIDE DEF req
    <2>4. s.top <= s.brk /\ s.brk <= s.kbrk
      BY <1>2 DEF Below
    <2>5. CASE k = req
      <3> DEFINE u == [s EXCEPT !.brk = k, !.kbrk = k]
      <3>1. /\ DOMAIN u = DOMAIN s /\ u.brk = k /\ u.kbrk = k
            /\ u.hdr = s.hdr /\ u.free = s.free /\ u.given = s.given /\ u.top = s.top
            /\ u.ready = s.ready /\ u.own = s.own /\ u.late = s.late
            /\ u.files = s.files /\ u.fds = s.fds
        BY <1>2 DEF Typed
      <3>2. t = Bump(u, n)
        BY <2>1, <2>5
      <3> HIDE DEF u
      <3>3. Core(u, lo) /\ Coalesced(u)
        <4>1. Rises(s, u)
          BY <1>3, <2>3, <2>4, <3>1 DEF Rises
        <4> QED
          BY <1>1, <1>2, <1>3, <4>1, Raised
      <3>4. u.top + n + HEADER <= u.brk
        BY <2>2, <2>5, <3>1
      <3>5. Core(t, lo) /\ Coalesced(t) /\ Gave(u, t)
        BY <1>3, <3>1, <3>2, <3>3, <3>4, Bumped
      <3>6. Gave(s, t)
        BY <3>1, <3>5 DEF Gave
      <3> QED
        BY <1>4, <3>5, <3>6
    <2>6. CASE k # req
      <3>1. /\ DOMAIN t = DOMAIN s /\ t.brk = s.brk /\ t.kbrk = s.kbrk
            /\ t.hdr = s.hdr /\ t.free = s.free /\ t.given = s.given /\ t.top = s.top
            /\ t.ready = s.ready /\ t.own = s.own /\ t.late = s.late
            /\ t.files = s.files /\ t.fds = s.fds
        BY <1>2, <2>1, <2>3, <2>6 DEF Typed
      <3>2. Rises(s, t)
        BY <1>3, <2>4, <3>1 DEF Rises
      <3>3. Core(t, lo) /\ Coalesced(t) /\ Gave(s, t)
        BY <1>1, <1>2, <1>3, <3>2, Raised
      <3> QED
        BY <1>4, <3>3
    <2> QED
      BY <2>5, <2>6
  <1> QED
    BY <1>5, <1>6, <1>7

\* The first malloc begins an empty heap where the break is.
LEMMA StartedKeeps ==
    ASSUME HeapInv(hp)
    PROVE  /\ HeapInv(Started) /\ Started.ready /\ Started.given = hp.given
           /\ Started.files = hp.files /\ Started.fds = hp.fds
  <1>1. CASE hp.ready
    BY <1>1 DEF Started
  <1>2. CASE ~hp.ready
    <2> DEFINE t == Started
    <2>1. PICK lo \in 0..hp.top : Core(hp, lo)
      BY DEF HeapInv
    <2>2. Typed(hp) /\ Headed(hp) /\ Below(hp, lo) /\ hp.given = {} /\ hp.free = <<>>
      BY <1>2, <2>1 DEF Core, Below
    <2>3. /\ DOMAIN t = DOMAIN hp /\ t.ready /\ t.top = hp.kbrk /\ t.brk = hp.kbrk
          /\ t.kbrk = hp.kbrk /\ t.hdr = hp.hdr /\ t.free = <<>> /\ t.given = {}
          /\ t.own = hp.own /\ t.late = hp.late /\ t.files = hp.files /\ t.fds = hp.fds
          /\ t.ready \in BOOLEAN
      BY <1>2, <2>2 DEF Typed, Started
    <2> HIDE DEF t
    <2>4. ToSet(t.free) = {} /\ UsedAt(t) = {} /\ Blocks(t) = {}
      BY <2>3 DEF ToSet, UsedAt, Blocks
    <2>5. UsedAt(hp) = {}
      BY <2>2 DEF UsedAt
    <2>6. t.top \in Nat /\ t.kbrk \in Nat /\ t.kbrk = t.top
      BY <2>2, <2>3 DEF Typed
    <2>7. Typed(t)
      BY <2>2, <2>3, <2>6 DEF Typed
    <2>8. Sorted(t.free)
      BY <2>3 DEF Sorted
    <2>9. Headed(t)
      BY <2>2, <2>3, <2>4, <2>5 DEF Headed
    <2>10. Tiles(t, t.top)
      BY <2>4, <2>6 DEF Tiles
    <2>11. Below(t, t.top)
      BY <2>2, <2>3, <2>6 DEF Below
    <2>12. Coalesced(t)
      BY <2>4 DEF Coalesced
    <2>13. HeapInv(t)
      BY <2>6, <2>7, <2>8, <2>9, <2>10, <2>11, <2>12 DEF HeapInv, Core
    <2> QED
      BY <2>2, <2>3, <2>13 DEF t
  <1> QED
    BY <1>1, <1>2

-----------------------------------------------------------------------------
(***************************************************************************)
(* The steps of the program.                                               *)
(***************************************************************************)

\* The heap does not depend on the open files.
SameHeap(s, t) ==
    /\ DOMAIN t = DOMAIN s /\ t.ready = s.ready /\ t.top = s.top /\ t.brk = s.brk
    /\ t.kbrk = s.kbrk /\ t.hdr = s.hdr /\ t.free = s.free /\ t.given = s.given
    /\ t.own = s.own /\ t.late = s.late

LEMMA HeapAlone ==
    ASSUME NEW s, NEW t, HeapInv(s), SameHeap(s, t)
    PROVE  HeapInv(t)
  <1>1. PICK lo \in 0..s.top : Core(s, lo)
    BY DEF HeapInv
  <1>2. Typed(s) /\ Sorted(s.free) /\ Headed(s) /\ Tiles(s, lo) /\ Below(s, lo) /\ Coalesced(s)
    BY <1>1 DEF HeapInv, Core
  <1>3. UsedAt(t) = UsedAt(s) /\ Blocks(t) = Blocks(s) /\ \A b : End(t, b) = End(s, b)
    BY DEF UsedAt, Blocks, End, SameHeap
  <1>4. Typed(t)
    BY <1>2 DEF Typed, SameHeap
  <1>5. Headed(t)
    BY <1>2, <1>3 DEF Headed, SameHeap
  <1>6. Tiles(t, lo)
    BY <1>2, <1>3 DEF Tiles, SameHeap
  <1>7. Below(t, lo)
    BY <1>2 DEF Below, SameHeap
  <1>8. Coalesced(t)
    BY <1>2, <1>3 DEF Coalesced, SameHeap
  <1>9. Sorted(t.free) /\ lo \in 0..t.top
    BY <1>2 DEF SameHeap
  <1> QED
    BY <1>4, <1>5, <1>6, <1>7, <1>8, <1>9 DEF HeapInv, Core

\* With the heap's blocks in place nothing but its files matters to the files.
LEMMA FilesAlone ==
    ASSUME NEW s, NEW t, FilesInv(s), t.files = s.files, t.fds = s.fds, s.given \subseteq t.given
    PROVE  FilesInv(t)
  BY DEF FilesInv

LEMMA AllocStep ==
    ASSUME Inv, NEW n \in Sizes, Alloc(n)
    PROVE  Inv'
  <1>1. HeapInv(hp) /\ FilesInv(hp) /\ n \in Nat
    BY UserHeapAssumption DEF Inv
  <1>2. /\ HeapInv(Started) /\ Started.ready /\ Started.given = hp.given
        /\ Started.files = hp.files /\ Started.fds = hp.fds
    BY <1>1, StartedKeeps
  <1> DEFINE s == Started
             t == hp'
  <1>3. t \in Malloc(s, n)
    BY DEF Alloc
  <1> HIDE DEF s, t
  <1>4. HeapInv(t) /\ Gave(s, t)
    BY <1>1, <1>2, <1>3, MallocKeeps DEF s
  <1>5. t.files = hp.files /\ t.fds = hp.fds /\ hp.given \subseteq t.given
    BY <1>2, <1>4 DEF Gave, s
  <1>6. FilesInv(t)
    BY <1>1, <1>5, FilesAlone
  <1> QED
    BY <1>4, <1>6 DEF Inv, t

LEMMA FreeStep ==
    ASSUME Inv, NEW b \in DOMAIN hp.hdr, Free(b + HEADER)
    PROVE  Inv'
  <1>1. PICK lo \in 0..hp.top : Core(hp, lo)
    BY DEF Inv, HeapInv
  <1>2. Coalesced(hp) /\ FilesInv(hp) /\ Typed(hp)
    BY <1>1 DEF Inv, HeapInv, Core
  <1> DEFINE p == b + HEADER
             t == hp'
  <1>3. p \in Nat /\ lo \in Nat
    BY <1>1, <1>2, UserHeapAssumption DEF Typed
  <1>4. t = Freed(hp, p) /\ \A f \in hp.files : f.at # p
    BY DEF Free, IsFile
  <1> HIDE DEF p, t
  <1>5. /\ Core(t, lo) /\ Coalesced(t) /\ Keeps(hp, t)
        /\ t.given \subseteq hp.given /\ {g \in hp.given : g.at # p} \subseteq t.given
    BY <1>1, <1>2, <1>3, <1>4, FreedKeeps
  <1>6. HeapInv(t)
    BY <1>1, <1>5 DEF HeapInv, Keeps
  <1>7. t.files = hp.files /\ t.fds = hp.fds
    BY <1>5 DEF Keeps
  <1>8. \A f \in hp.files : \E g \in t.given : g.at = f.at
    BY <1>2, <1>4, <1>5 DEF FilesInv
  <1>9. FilesInv(t)
    BY <1>2, <1>7, <1>8 DEF FilesInv
  <1> QED
    BY <1>6, <1>9 DEF Inv, t

\* What the program writes into its own blocks never touches a header in use.
LEMMA FillStep ==
    ASSUME Inv, NEW g \in hp.given, Fill(g)
    PROVE  Inv'
  <1>0. HEADER \in Nat /\ HEADER > 0
    BY UserHeapAssumption
  <1>1. PICK lo \in 0..hp.top : Core(hp, lo)
    BY DEF Inv, HeapInv
  <1>2. /\ Typed(hp) /\ Sorted(hp.free) /\ Headed(hp) /\ Tiles(hp, lo) /\ Below(hp, lo)
        /\ Coalesced(hp) /\ FilesInv(hp)
    BY <1>1 DEF Inv, HeapInv, Core
  <1>3. /\ Blocks(hp) \subseteq Nat
        /\ \A b \in Blocks(hp) : hp.hdr[b] \in Header /\ hp.hdr[b].size \in Nat
                                 /\ End(hp, b) \in Nat /\ b < End(hp, b)
    BY <1>2, BlocksAre
  <1> DEFINE D == DOMAIN hp.hdr \ (g.at..g.at + g.len - 1)
             t == hp'
  <1>4. /\ DOMAIN t = DOMAIN hp /\ t.hdr = Restrict(hp.hdr, D)
        /\ t.ready = hp.ready /\ t.top = hp.top /\ t.brk = hp.brk /\ t.kbrk = hp.kbrk
        /\ t.free = hp.free /\ t.given = hp.given /\ t.own = hp.own /\ t.late = hp.late
        /\ t.files = hp.files /\ t.fds = hp.fds
    BY <1>2 DEF Fill, Typed
  <1> HIDE DEF t
  <1>5. Blocks(hp) \subseteq D
    <2> SUFFICES ASSUME NEW b \in Blocks(hp), b \in g.at..g.at + g.len - 1 PROVE FALSE
      BY <1>2 DEF Headed
    <2> DEFINE a == g.at - HEADER
    <2>1. a \in Blocks(hp) /\ g.at \in Nat /\ g.len \in Nat
      BY <1>2 DEF Typed, UsedAt, Blocks
    <2>2. End(hp, a) >= g.at + g.len
      BY <1>0, <1>2, <1>3, <2>1 DEF Headed, End
    <2>3. a < b /\ b < g.at + g.len /\ b \in Nat
      BY <1>0, <1>3, <2>1
    <2> HIDE DEF a
    <2>4. End(hp, a) <= b
      BY <1>2, <2>1, <2>3 DEF Tiles
    <2> QED
      BY <1>3, <2>1, <2>2, <2>3, <2>4
  <1>6. /\ DOMAIN t.hdr = D /\ D \subseteq DOMAIN hp.hdr
        /\ \A d \in D : t.hdr[d] = hp.hdr[d]
    BY <1>4 DEF Restrict
  <1> HIDE DEF D
  <1>7. UsedAt(t) = UsedAt(hp) /\ Blocks(t) = Blocks(hp)
    BY <1>4 DEF UsedAt, Blocks
  <1>8. \A b \in Blocks(hp) : t.hdr[b] = hp.hdr[b] /\ End(t, b) = End(hp, b)
    BY <1>5, <1>6 DEF End
  <1>9. Typed(t)
    <2>1. t.hdr \in [DOMAIN t.hdr -> Header]
      <3>1. \A d \in D : hp.hdr[d] \in Header
        BY <1>2, <1>6 DEF Typed
      <3> QED
        BY <1>4, <1>6, <3>1 DEF Restrict
    <2> QED
      BY <1>2, <1>4, <1>6, <2>1 DEF Typed
  <1>10. Headed(t)
    <2>1. UsedAt(t) = {b \in DOMAIN t.hdr : t.hdr[b].used}
      BY <1>2, <1>5, <1>6, <1>7 DEF Headed, Blocks
    <2>2. \A h \in hp.given : h.at - HEADER \in Blocks(hp)
      BY DEF UsedAt, Blocks
    <2>3. \A b \in ToSet(t.free) : ~t.hdr[b].used
      BY <1>2, <1>4, <1>8 DEF Headed, Blocks
    <2> QED
      BY <1>2, <1>4, <1>5, <1>6, <1>7, <1>8, <2>1, <2>2, <2>3 DEF Headed
  <1>11. Tiles(t, lo)
    BY <1>2, <1>4, <1>7, <1>8 DEF Tiles
  <1>12. Below(t, lo)
    BY <1>2, <1>4 DEF Below
  <1>13. Coalesced(t)
    BY <1>2, <1>4, <1>8 DEF Coalesced, Blocks
  <1>14. HeapInv(t)
    <2>1. Sorted(t.free) /\ lo \in 0..t.top
      BY <1>2, <1>4
    <2> QED
      BY <1>9, <1>10, <1>11, <1>12, <1>13, <2>1 DEF HeapInv, Core
  <1>15. FilesInv(t)
    BY <1>2, <1>4, FilesAlone
  <1> QED
    BY <1>14, <1>15 DEF Inv, t

LEMMA SbrkStep ==
    ASSUME Inv, NEW n \in Steps, Sbrk(n)
    PROVE  Inv'
  <1>1. PICK lo \in 0..hp.top : Core(hp, lo)
    BY DEF Inv, HeapInv
  <1>2. /\ Typed(hp) /\ Sorted(hp.free) /\ Headed(hp) /\ Tiles(hp, lo) /\ Below(hp, lo)
        /\ Coalesced(hp) /\ FilesInv(hp)
    BY <1>1 DEF Inv, HeapInv, Core
  <1> DEFINE t == hp'
  <1>3. n \in Nat /\ hp.kbrk \in Nat /\ hp.brk \in Nat /\ hp.own \subseteq Nat
    BY <1>2, UserHeapAssumption DEF Typed
  <1>4. /\ DOMAIN t = DOMAIN hp /\ t.hdr = hp.hdr /\ t.kbrk = hp.kbrk + n
        /\ t.own = hp.own \cup (hp.kbrk..hp.kbrk + n - 1) /\ t.late = (hp.late \/ hp.ready)
        /\ t.ready = hp.ready /\ t.top = hp.top /\ t.brk = hp.brk
        /\ t.free = hp.free /\ t.given = hp.given /\ t.files = hp.files /\ t.fds = hp.fds
    BY <1>2 DEF Sbrk, Typed
  <1> HIDE DEF t
  <1>5. UsedAt(t) = UsedAt(hp) /\ Blocks(t) = Blocks(hp) /\ \A b : End(t, b) = End(hp, b)
    BY <1>4 DEF UsedAt, Blocks, End
  <1>6. Typed(t)
    BY <1>2, <1>3, <1>4, SMTT(30) DEF Typed
  <1>7. Headed(t)
    BY <1>2, <1>4, <1>5 DEF Headed
  <1>8. Tiles(t, lo)
    BY <1>2, <1>4, <1>5 DEF Tiles
  <1>9. Below(t, lo)
    <2>1. t.top <= t.brk /\ t.brk <= t.kbrk
      BY <1>2, <1>3, <1>4 DEF Below
    <2>2. \A x \in t.own : x < t.kbrk
      BY <1>2, <1>3, <1>4 DEF Below
    <2> QED
      BY <1>2, <1>4, <2>1, <2>2 DEF Below
  <1>10. Coalesced(t)
    BY <1>2, <1>4, <1>5 DEF Coalesced
  <1>11. HeapInv(t)
    <2>1. Sorted(t.free) /\ lo \in 0..t.top
      BY <1>2, <1>4
    <2> QED
      BY <1>6, <1>7, <1>8, <1>9, <1>10, <2>1 DEF HeapInv, Core
  <1>12. FilesInv(t)
    BY <1>2, <1>4, FilesAlone
  <1> QED
    BY <1>11, <1>12 DEF Inv, t

LEMMA FopenStep ==
    ASSUME Inv, NEW fd \in FDS \ hp.fds, Fopen(fd)
    PROVE  Inv'
  <1>1. HeapInv(hp) /\ FilesInv(hp) /\ FILE \in Nat
    BY UserHeapAssumption DEF Inv
  <1>2. /\ HeapInv(Started) /\ Started.ready /\ Started.given = hp.given
        /\ Started.files = hp.files /\ Started.fds = hp.fds
    BY <1>1, StartedKeeps
  <1> DEFINE t == hp'
             fds == hp.fds \cup {fd}
  <1>3. PICK s \in Malloc(Started, FILE) :
           t = IF s.given \ hp.given = {} THEN [s EXCEPT !.fds = Closed(fds, fd)]
               ELSE [s EXCEPT !.fds = fds,
                              !.files = @ \cup {[at |-> g.at, fd |-> fd] :
                                                  g \in s.given \ hp.given}]
    BY DEF Fopen
  <1> DEFINE r == Started
  <1>4. HeapInv(r) /\ r.ready /\ s \in Malloc(r, FILE)
    BY <1>2
  <1> HIDE DEF r, t
  <1>5. HeapInv(s) /\ Gave(r, s)
    BY <1>1, <1>4, MallocKeeps
  <1>6. /\ s.files = hp.files /\ s.fds = hp.fds
        /\ \/ s.given = hp.given
           \/ \E g : (\A h \in hp.given : h.at # g.at) /\ s.given = hp.given \cup {g}
    BY <1>2, <1>5 DEF Gave, r
  <1>7. DOMAIN s = {"ready", "top", "brk", "kbrk", "hdr", "free", "files", "fds", "given",
                    "own", "late"}
    BY <1>5 DEF HeapInv, Core, Typed
  <1>8. CASE s.given = hp.given
    <2>1. SameHeap(s, t) /\ t.files = hp.files /\ t.given = hp.given
      BY <1>3, <1>6, <1>7, <1>8 DEF SameHeap
    <2>2. t.fds = hp.fds
      BY <1>3, <1>6, <1>7, <1>8 DEF Closed
    <2>3. HeapInv(t)
      BY <1>5, <2>1, HeapAlone
    <2>4. FilesInv(t)
      BY <1>1, <2>1, <2>2, FilesAlone
    <2> QED
      BY <2>3, <2>4 DEF Inv, t
  <1>9. CASE s.given # hp.given
    <2>1. PICK g : (\A h \in hp.given : h.at # g.at) /\ s.given = hp.given \cup {g}
      BY <1>6, <1>9
    <2>2. s.given \ hp.given = {g}
      BY <1>9, <2>1
    <2> DEFINE f == [at |-> g.at, fd |-> fd]
    <2>3. {[at |-> h.at, fd |-> fd] : h \in s.given \ hp.given} = {f}
      BY <2>2
    <2>4. t = [s EXCEPT !.fds = fds, !.files = @ \cup {f}]
      BY <1>3, <2>2, <2>3
    <2>5. f.at = g.at /\ f.fd = fd
      OBVIOUS
    <2> HIDE DEF f
    <2>6. /\ SameHeap(s, t) /\ t.given = hp.given \cup {g}
          /\ t.files = hp.files \cup {f} /\ t.fds = hp.fds \cup {fd}
      BY <1>6, <1>7, <2>1, <2>4 DEF SameHeap
    <2>7. HeapInv(t)
      BY <1>5, <2>6, HeapAlone
    <2>8. \A e \in hp.files : e.at # f.at /\ e.fd # f.fd
      <3>1. \A e \in hp.files : \E h \in hp.given : h.at = e.at
        BY <1>1 DEF FilesInv
      <3>2. \A e \in hp.files : e.fd \in hp.fds
        BY <1>1 DEF FilesInv
      <3> QED
        BY <2>1, <2>5, <3>1, <3>2
    <2>9. FilesInv(t)
      <3>1. t.fds = {e.fd : e \in t.files}
        BY <1>1, <2>5, <2>6 DEF FilesInv
      <3>2. \A e \in t.files : \E h \in t.given : h.at = e.at
        BY <1>1, <2>5, <2>6 DEF FilesInv
      <3>3. \A d, e \in t.files : d.at = e.at \/ d.fd = e.fd => d = e
        BY <1>1, <2>6, <2>8 DEF FilesInv
      <3> QED
        BY <3>1, <3>2, <3>3 DEF FilesInv
    <2> QED
      BY <2>7, <2>9 DEF Inv, t
  <1> QED
    BY <1>8, <1>9

LEMMA FcloseStep ==
    ASSUME Inv, NEW f \in hp.files, Fclose(f)
    PROVE  Inv'
  <1>1. PICK lo \in 0..hp.top : Core(hp, lo)
    BY DEF Inv, HeapInv
  <1>2. Coalesced(hp) /\ FilesInv(hp) /\ Typed(hp)
    BY <1>1 DEF Inv, HeapInv, Core
  <1>3. f.at \in Nat /\ lo \in Nat
    BY <1>1, <1>2 DEF Typed, FilesInv
  <1> DEFINE s == Freed(hp, f.at)
             t == hp'
  <1>4. t = [s EXCEPT !.files = @ \ {f}, !.fds = Closed(@, f.fd)]
    BY DEF Fclose
  <1>5. /\ Core(s, lo) /\ Coalesced(s) /\ Keeps(hp, s)
        /\ s.given \subseteq hp.given /\ {g \in hp.given : g.at # f.at} \subseteq s.given
    BY <1>1, <1>2, <1>3, FreedKeeps
  <1> HIDE DEF s, t
  <1>6. HeapInv(s)
    BY <1>1, <1>5 DEF HeapInv, Keeps
  <1>7. DOMAIN s = {"ready", "top", "brk", "kbrk", "hdr", "free", "files", "fds", "given",
                    "own", "late"}
    BY <1>5 DEF Core, Typed
  <1>8. /\ SameHeap(s, t) /\ t.given = s.given
        /\ t.files = hp.files \ {f} /\ t.fds = hp.fds \ {f.fd}
    BY <1>4, <1>5, <1>7 DEF SameHeap, Keeps, Closed
  <1>9. HeapInv(t)
    BY <1>6, <1>8, HeapAlone
  <1>10. FilesInv(t)
    <2>1. \A e \in t.files : e \in hp.files /\ e.at # f.at /\ e.fd # f.fd
      BY <1>2, <1>8 DEF FilesInv
    <2>2. \A e \in t.files : \E g \in t.given : g.at = e.at
      BY <1>2, <1>5, <1>8, <2>1 DEF FilesInv
    <2>3. t.fds = {e.fd : e \in t.files}
      BY <1>2, <1>8, <2>1 DEF FilesInv
    <2>4. \A d, e \in t.files : d.at = e.at \/ d.fd = e.fd => d = e
      BY <1>2, <1>8 DEF FilesInv
    <2> QED
      BY <2>2, <2>3, <2>4 DEF FilesInv
  <1> QED
    BY <1>9, <1>10 DEF Inv, t

LEMMA InitKeeps == HeapInit => Inv
  <1> SUFFICES ASSUME HeapInit PROVE Inv
    OBVIOUS
  <1>1. /\ DOMAIN hp = {"ready", "top", "brk", "kbrk", "hdr", "free", "files", "fds", "given",
                        "own", "late"}
        /\ ~hp.ready /\ ~hp.late /\ hp.ready \in BOOLEAN /\ hp.late \in BOOLEAN
        /\ hp.top = 0 /\ hp.brk = 0 /\ hp.kbrk = Base
        /\ hp.hdr = <<>> /\ hp.free = <<>> /\ hp.files = {} /\ hp.fds = {} /\ hp.given = {}
        /\ hp.own = {}
    BY DEF HeapInit
  <1>2. Base \in Nat
    BY UserHeapAssumption
  <1>3. DOMAIN hp.hdr = {} /\ hp.hdr \in [{} -> Header]
    BY <1>1
  <1>4. ToSet(hp.free) = {} /\ UsedAt(hp) = {} /\ Blocks(hp) = {}
    BY <1>1 DEF ToSet, UsedAt, Blocks
  <1>5. Typed(hp)
    BY <1>1, <1>2, <1>3 DEF Typed
  <1>6. Sorted(hp.free)
    BY <1>1 DEF Sorted
  <1>7. Headed(hp)
    BY <1>1, <1>3, <1>4 DEF Headed
  <1>8. Tiles(hp, 0)
    BY <1>1, <1>4 DEF Tiles
  <1>9. Below(hp, 0)
    BY <1>1, <1>2 DEF Below
  <1>10. Coalesced(hp)
    BY <1>4 DEF Coalesced
  <1>11. FilesInv(hp)
    BY <1>1 DEF FilesInv
  <1>12. 0 \in 0..hp.top
    BY <1>1
  <1> QED
    BY <1>5, <1>6, <1>7, <1>8, <1>9, <1>10, <1>11, <1>12 DEF Inv, HeapInv, Core

LEMMA StepKeeps == Inv /\ [HeapNext]_hp => Inv'
  <1> SUFFICES ASSUME Inv, [HeapNext]_hp PROVE Inv'
    OBVIOUS
  <1>1. CASE \E n \in Sizes : Alloc(n)
    BY <1>1, AllocStep
  <1>2. CASE \E n \in Steps : Sbrk(n)
    BY <1>2, SbrkStep
  <1>3. CASE \E b \in DOMAIN hp.hdr : Free(b + HEADER)
    BY <1>3, FreeStep
  <1>4. CASE \E g \in hp.given : Fill(g)
    BY <1>4, FillStep
  <1>5. CASE \E fd \in FDS \ hp.fds : Fopen(fd)
    BY <1>5, FopenStep
  <1>6. CASE \E f \in hp.files : Fclose(f)
    BY <1>6, FcloseStep
  <1>7. CASE UNCHANGED hp
    BY <1>7 DEF Inv
  <1> QED
    BY <1>1, <1>2, <1>3, <1>4, <1>5, <1>6, <1>7 DEF HeapNext

\* The inductive invariant of the heap and its files holds in every state.
THEOREM UserHeapInvariant == HeapSpec => []Inv
  <1> QED
    BY InitKeeps, StepKeeps, PTL DEF HeapSpec

-----------------------------------------------------------------------------
(***************************************************************************)
(* What the invariant says of the properties the runs check.               *)
(***************************************************************************)

\* The blocks fill the heap from the first of them to its top.
LEMMA Filled ==
    ASSUME NEW s, NEW lo \in 0..s.top, Core(s, lo)
    PROVE  Cardinality(UNION {b..End(s, b) - 1 : b \in Blocks(s)}) =
             s.top - (IF Blocks(s) = {} THEN s.top ELSE Min(Blocks(s)))
  <1> DEFINE U == UNION {b..End(s, b) - 1 : b \in Blocks(s)}
  <1>1. Typed(s) /\ Headed(s) /\ Tiles(s, lo)
    BY DEF Core
  <1>2. /\ Blocks(s) \subseteq Nat
        /\ \A b \in Blocks(s) : End(s, b) \in Nat /\ b < End(s, b)
    BY <1>1, BlocksAre
  <1>3. s.top \in Nat /\ lo \in Nat /\ lo <= s.top
    BY <1>1 DEF Typed
  <1>4. CASE Blocks(s) = {}
    <2>1. U = {}
      BY <1>4
    <2> HIDE DEF U
    <2> QED
      BY <1>3, <1>4, <2>1, FS_EmptySet DEF U
  <1>5. CASE Blocks(s) # {}
    <2>1. Min(Blocks(s)) \in Blocks(s) /\ \A b \in Blocks(s) : Min(Blocks(s)) <= b
      BY <1>2, <1>5, MinIs
    <2> DEFINE m == Min(Blocks(s))
    <2> HIDE DEF m
    <2>2. m \in Blocks(s) /\ \A b \in Blocks(s) : m <= b
      BY <2>1 DEF m
    <2>3. m = lo
      <3>1. m \in Nat /\ lo <= m /\ End(s, m) <= s.top /\ m < End(s, m) /\ End(s, m) \in Nat
        BY <1>1, <1>2, <2>2 DEF Tiles
      <3>2. lo \in lo..s.top - 1
        BY <1>3, <3>1
      <3>3. PICK b \in Blocks(s) : b <= lo
        BY <1>1, <3>2 DEF Tiles
      <3>4. b \in Nat /\ m <= b
        BY <1>2, <2>2
      <3> QED
        BY <1>3, <3>1, <3>3, <3>4
    <2>4. U = lo..s.top - 1
      <3>1. ASSUME NEW b \in Blocks(s), NEW x \in b..End(s, b) - 1 PROVE x \in lo..s.top - 1
        <4>1. b \in Nat /\ End(s, b) \in Nat /\ lo <= b /\ End(s, b) <= s.top
          BY <1>1, <1>2 DEF Tiles
        <4> QED
          BY <1>3, <4>1
      <3>2. ASSUME NEW x \in lo..s.top - 1 PROVE x \in U
        <4>1. PICK b \in Blocks(s) : b <= x /\ x < End(s, b)
          BY <1>1 DEF Tiles
        <4>2. x \in b..End(s, b) - 1
          BY <1>2, <1>3, <4>1
        <4> QED
          BY <4>2
      <3> QED
        BY <3>1, <3>2
    <2> HIDE DEF U
    <2>5. Cardinality(U) = s.top - 1 - lo + 1
      <3>1. lo \in Int /\ s.top - 1 \in Int
        BY <1>3
      <3>2. Cardinality(lo..s.top - 1) = IF lo > s.top - 1 THEN 0 ELSE s.top - 1 - lo + 1
        BY <3>1, FS_Interval
      <3> QED
        BY <1>3, <2>4, <3>2
    <2> QED
      BY <1>3, <1>5, <2>3, <2>5 DEF m, U
  <1> QED
    BY <1>4, <1>5

LEMMA TiledFollows == Inv => Tiled
  <1> SUFFICES ASSUME Inv, hp.ready PROVE Tiled
    BY DEF Tiled
  <1>0. HEADER \in Nat
    BY UserHeapAssumption
  <1>1. PICK lo \in 0..hp.top : Core(hp, lo)
    BY DEF Inv, HeapInv
  <1>2. /\ Typed(hp) /\ Sorted(hp.free) /\ Headed(hp) /\ Tiles(hp, lo) /\ Below(hp, lo)
        /\ Coalesced(hp)
    BY <1>1 DEF Inv, HeapInv, Core
  <1>3. /\ Blocks(hp) \subseteq Nat /\ UsedAt(hp) \subseteq Nat /\ ToSet(hp.free) \subseteq Nat
        /\ \A b \in Blocks(hp) : hp.hdr[b] \in Header /\ hp.hdr[b].size \in Nat
                                 /\ End(hp, b) \in Nat /\ b < End(hp, b)
    BY <1>2, BlocksAre
  <1>4. Used = UsedAt(hp) /\ Used \cup ToSet(hp.free) = Blocks(hp)
    BY DEF Used, UsedAt, Blocks
  <1>5. \A b \in Blocks(hp) : Block(b) = b..End(hp, b) - 1
    BY <1>3 DEF Block, End
  <1>6. \A b, c \in Blocks(hp) : b # c => Block(b) \cap Block(c) = {}
    <2>1. ASSUME NEW b \in Blocks(hp), NEW c \in Blocks(hp), b < c
          PROVE  Block(b) \cap Block(c) = {}
      <3>1. End(hp, b) <= c /\ End(hp, b) \in Nat /\ b \in Nat /\ c \in Nat /\ End(hp, c) \in Nat
        BY <1>2, <1>3, <2>1 DEF Tiles
      <3> QED
        BY <1>5, <3>1
    <2>2. ASSUME NEW b \in Blocks(hp), NEW c \in Blocks(hp), b # c
          PROVE  b < c \/ c < b
      BY <1>3, <2>2
    <2> QED
      BY <2>1, <2>2
  <1>7. Cardinality(UNION {Block(b) : b \in Blocks(hp)}) =
          hp.top - (IF Blocks(hp) = {} THEN hp.top ELSE Min(Blocks(hp)))
    <2>1. {Block(b) : b \in Blocks(hp)} = {b..End(hp, b) - 1 : b \in Blocks(hp)}
      BY <1>5
    <2> QED
      BY <1>1, <2>1, Filled
  <1>8. ASSUME NEW i \in 1..Len(hp.free) - 1
        PROVE  hp.free[i] + hp.hdr[hp.free[i]].size < hp.free[i + 1]
    <2>1. hp.free \in Seq(Nat) /\ i \in DOMAIN hp.free /\ i + 1 \in DOMAIN hp.free
      BY <1>2 DEF Typed
    <2> DEFINE b == hp.free[i]
               c == hp.free[i + 1]
    <2>2. b \in ToSet(hp.free) /\ c \in ToSet(hp.free) /\ b < c
      BY <1>2, <2>1, SMTT(30) DEF ToSet, Sorted
    <2> HIDE DEF b, c
    <2>3. End(hp, b) <= c /\ End(hp, b) # c /\ End(hp, b) \in Nat /\ c \in Nat
      BY <1>2, <1>3, <2>2 DEF Tiles, Coalesced, Blocks
    <2> QED
      BY <2>3 DEF End, b, c
  <1>9. \A g \in hp.given : hp.hdr[g.at - HEADER].size >= g.len + HEADER
    <2>1. ASSUME NEW g \in hp.given PROVE hp.hdr[g.at - HEADER].size >= g.len + HEADER
      <3>1. g.at - HEADER \in Blocks(hp) /\ g.len \in Nat
        BY <1>2 DEF UsedAt, Blocks, Typed
      <3>2. hp.hdr[g.at - HEADER].size \in Nat /\ g.len + HEADER <= hp.hdr[g.at - HEADER].size
        BY <1>2, <1>3, <3>1 DEF Headed
      <3> QED
        BY <1>0, <3>1, <3>2
    <2> QED
      BY <2>1
  <1>10. hp.top <= hp.brk /\ hp.brk <= hp.kbrk
    BY <1>2 DEF Below
  <1>11. Blocks(hp) \subseteq DOMAIN hp.hdr /\ Used = {b \in DOMAIN hp.hdr : hp.hdr[b].used}
    BY <1>2, <1>4 DEF Headed
  <1> QED
    BY <1>4, <1>6, <1>7, <1>8, <1>9, <1>10, <1>11 DEF Tiled

LEMMA SbrkIsApartFollows == Inv => SbrkIsApart
  <1> SUFFICES ASSUME Inv, ~hp.late, NEW g \in hp.given,
                      NEW x \in g.at - HEADER..g.at + g.len - 1, x \in hp.own
               PROVE  FALSE
    BY DEF SbrkIsApart
  <1>1. PICK lo \in 0..hp.top : Core(hp, lo)
    BY DEF Inv, HeapInv
  <1>2. Typed(hp) /\ Headed(hp) /\ Tiles(hp, lo) /\ Below(hp, lo)
    BY <1>1 DEF Core
  <1>3. hp.ready
    BY <1>2 DEF Below
  <1>4. g.at - HEADER \in Blocks(hp) /\ g.at - HEADER \in Nat
    BY <1>2, BlocksAre DEF UsedAt, Blocks
  <1>5. lo <= g.at - HEADER /\ x < lo
    BY <1>2, <1>3, <1>4 DEF Tiles, Below
  <1>6. x \in Nat /\ lo \in Nat /\ g.at - HEADER <= x
    BY <1>1, <1>2, <1>4 DEF Typed
  <1> QED
    BY <1>4, <1>5, <1>6

\* malloc and free of user/epoch.c: the blocks given and the free ones tile the heap,
\* the list stays in order and merged, and no block is too small for what was asked.
THEOREM HeapStaysTiled == HeapSpec => []Tiled
  <1> QED
    BY UserHeapInvariant, TiledFollows, PTL

\* malloc never hands out what the program took with sbrk before its first malloc.
THEOREM SbrkStaysApart == HeapSpec => []SbrkIsApart
  <1> QED
    BY UserHeapInvariant, SbrkIsApartFollows, PTL

\* fopen and fclose: every open FILE has memory and a descriptor of its own, and no
\* descriptor is left open without a FILE.
THEOREM FilesOwnTheirs == HeapSpec => []FilesOwn
  <1>1. Inv => FilesOwn
    BY DEF Inv, FilesInv, FilesOwn
  <1> QED
    BY <1>1, UserHeapInvariant, PTL


-----------------------------------------------------------------------------
(***************************************************************************)
(* The loader: pages.                                                      *)
(***************************************************************************)

LEMMA ElfSizes ==
    /\ PAGE_SIZE \in Nat /\ PAGE_SIZE > 0 /\ MIN \in Nat /\ STACK \in Nat /\ STACK_SIZE \in Nat
    /\ RESERVED \in Nat /\ MAX_ARGS \in Nat /\ MAX_ARGS >= 2 /\ ARG_MAX \in Nat
    /\ NAME \in Nat /\ NAME <= ARG_MAX
    /\ RESERVED >= 4 * (MAX_ARGS + 1) + 19
    /\ (MAX_ARGS - 1) * (ARG_MAX + 1) + RESERVED <= STACK_SIZE
    /\ WORD \in Nat
  BY ProgramsAssumption DEF Elf!ElfAssumption

\* A word is as it is, and a sum is cut to a word.
LEMMA IsWord ==
    ASSUME NEW n \in Nat, n < WORD
    PROVE  n % WORD = n
  <1>1. PICK w \in Nat : w = WORD /\ w > 0
    BY ElfSizes
  <1>2. PICK q \in Int, r \in 0..w - 1 : q = n \div w /\ r = n % w /\ n = w * q + r
    BY <1>1
  <1>3. ASSUME q >= 1 PROVE FALSE
    <2>1. w * q >= w
      BY <1>1, <1>3
    <2> QED
      BY <1>1, <1>2, <2>1
  <1>4. ASSUME q <= -1 PROVE FALSE
    <2>1. w * q <= -w
      BY <1>1, <1>4
    <2> QED
      BY <1>1, <1>2, <2>1
  <1>5. q = 0
    BY <1>3, <1>4
  <1> QED
    BY <1>1, <1>2, <1>5

LEMMA InWord ==
    ASSUME NEW n \in Nat, WORD > 0
    PROVE  n % WORD \in Nat /\ n % WORD < WORD
  BY ElfSizes

\* A number is so many pages and a rest.
LEMMA InPages ==
    ASSUME NEW n \in Nat
    PROVE  /\ n \div PAGE_SIZE \in Nat /\ n % PAGE_SIZE \in 0..PAGE_SIZE - 1
           /\ n = (n \div PAGE_SIZE) * PAGE_SIZE + (n % PAGE_SIZE)
  <1>1. PAGE_SIZE \in Nat /\ PAGE_SIZE > 0
    BY ElfSizes
  <1>2. n \div PAGE_SIZE \in Nat /\ n % PAGE_SIZE \in 0..PAGE_SIZE - 1
        /\ n = PAGE_SIZE * (n \div PAGE_SIZE) + (n % PAGE_SIZE)
    BY <1>1
  <1>3. PAGE_SIZE * (n \div PAGE_SIZE) = (n \div PAGE_SIZE) * PAGE_SIZE
    BY <1>1, <1>2
  <1> QED
    BY <1>2, <1>3

\* The quotient is the only one.
LEMMA OnePage ==
    ASSUME NEW q \in Int, NEW r \in 0..PAGE_SIZE - 1, q * PAGE_SIZE + r \in Nat
    PROVE  (q * PAGE_SIZE + r) % PAGE_SIZE = r
  <1> DEFINE n == q * PAGE_SIZE + r
             p == n \div PAGE_SIZE
             s == n % PAGE_SIZE
  <1>1. n \in Nat /\ p \in Int /\ s \in 0..PAGE_SIZE - 1 /\ n = p * PAGE_SIZE + s
    BY InPages
  <1>2. PAGE_SIZE \in Nat /\ PAGE_SIZE > 0 /\ n = q * PAGE_SIZE + r
    BY ElfSizes
  <1> HIDE DEF n, p, s
  <1>3. ASSUME NEW d \in Int, d >= 1 PROVE d * PAGE_SIZE >= PAGE_SIZE
    BY <1>2, <1>3
  <1>4. (p - q) * PAGE_SIZE = p * PAGE_SIZE - q * PAGE_SIZE /\ (q - p) * PAGE_SIZE = q * PAGE_SIZE - p * PAGE_SIZE
    BY <1>1, <1>2
  <1>5. p * PAGE_SIZE \in Int /\ q * PAGE_SIZE \in Int
    BY <1>1, <1>2
  <1>6. (p - q) * PAGE_SIZE = r - s /\ (q - p) * PAGE_SIZE = s - r
    BY <1>1, <1>2, <1>4, <1>5
  <1>7. ~(p - q >= 1) /\ ~(q - p >= 1)
    BY <1>1, <1>2, <1>3, <1>6
  <1>8. p = q
    BY <1>1, <1>7
  <1> QED
    BY <1>1, <1>2, <1>5, <1>8 DEF s, n

LEMMA DownIs ==
    ASSUME NEW v \in Nat
    PROVE  /\ Elf!Down(v) \in Nat /\ Elf!Down(v) <= v /\ v < Elf!Down(v) + PAGE_SIZE
           /\ Elf!Down(v) % PAGE_SIZE = 0 /\ v % PAGE_SIZE = v - Elf!Down(v)
  <1>1. PICK q : q = v \div PAGE_SIZE
    OBVIOUS
  <1>2. q \in Nat /\ v % PAGE_SIZE \in 0..PAGE_SIZE - 1 /\ v = q * PAGE_SIZE + (v % PAGE_SIZE)
    BY <1>1, InPages
  <1>3. PICK d : d = q * PAGE_SIZE
    OBVIOUS
  <1>4. d \in Nat /\ d = Elf!Down(v) /\ PAGE_SIZE \in Nat /\ PAGE_SIZE > 0
    BY <1>1, <1>2, <1>3, ElfSizes DEF Elf!Down
  <1>5. q * PAGE_SIZE + 0 = d /\ 0 \in 0..PAGE_SIZE - 1
    BY <1>3, <1>4
  <1>6. d % PAGE_SIZE = 0
    <2>1. q \in Int /\ 0 \in 0..PAGE_SIZE - 1 /\ q * PAGE_SIZE + 0 \in Nat
      BY <1>2, <1>4, <1>5
    <2>2. (q * PAGE_SIZE + 0) % PAGE_SIZE = 0
      BY ONLY <2>1, OnePage
    <2> QED
      BY ONLY <1>5, <2>2
  <1> QED
    BY <1>2, <1>3, <1>4, <1>6

LEMMA UpIs ==
    ASSUME NEW v \in Nat, WORD > 0
    PROVE  /\ Elf!Up(v) \in Nat /\ Elf!Up(v) % PAGE_SIZE = 0
           /\ v + PAGE_SIZE - 1 < WORD => v <= Elf!Up(v)
  <1>1. PICK x \in Nat : x = v + PAGE_SIZE - 1
    BY ElfSizes
  <1>2. PICK w \in Nat : w = x % WORD
    BY <1>1, InWord
  <1>3. Elf!Up(v) = Elf!Down(w)
    BY <1>1, <1>2 DEF Elf!Up
  <1>4. /\ Elf!Down(w) \in Nat /\ Elf!Down(w) <= w /\ w < Elf!Down(w) + PAGE_SIZE
        /\ Elf!Down(w) % PAGE_SIZE = 0
    BY DownIs
  <1>5. ASSUME v + PAGE_SIZE - 1 < WORD PROVE v <= Elf!Up(v)
    <2>1. w = x
      <3>1. x < WORD
        BY <1>1, <1>5
      <3> QED
        BY <1>2, <3>1, IsWord
    <2>2. PICK u \in Nat : u = Elf!Down(w)
      BY <1>4
    <2> QED
      BY <1>1, <1>3, <1>4, <2>1, <2>2, ElfSizes
  <1> QED
    BY <1>3, <1>4, <1>5

\* Two page boundaries are a page apart.
LEMMA PagesStep ==
    ASSUME NEW a \in Nat, NEW b \in Nat, a % PAGE_SIZE = 0, b % PAGE_SIZE = 0
    PROVE  /\ (a + PAGE_SIZE) % PAGE_SIZE = 0
           /\ a < b => a + PAGE_SIZE <= b
  <1>1. PICK p \in Nat, q \in Nat : a = p * PAGE_SIZE /\ b = q * PAGE_SIZE
    <2>1. a = (a \div PAGE_SIZE) * PAGE_SIZE /\ b = (b \div PAGE_SIZE) * PAGE_SIZE
          /\ a \div PAGE_SIZE \in Nat /\ b \div PAGE_SIZE \in Nat
      <3>1. \A x \in Nat : x + 0 = x
        OBVIOUS
      <3> QED
        BY InPages, ElfSizes
    <2> QED
      BY <2>1
  <1>2. PAGE_SIZE \in Nat /\ PAGE_SIZE > 0
    BY ElfSizes
  <1>3. a + PAGE_SIZE = (p + 1) * PAGE_SIZE + 0 /\ a + PAGE_SIZE \in Nat /\ 0 \in 0..PAGE_SIZE - 1
    BY <1>1, <1>2
  <1>4. (a + PAGE_SIZE) % PAGE_SIZE = 0
    BY <1>3, OnePage
  <1>5. ASSUME a < b PROVE a + PAGE_SIZE <= b
    <2>1. ASSUME q <= p PROVE FALSE
      <3>1. (p - q) * PAGE_SIZE >= 0 /\ (p - q) * PAGE_SIZE = p * PAGE_SIZE - q * PAGE_SIZE
        BY <1>2, <2>1
      <3> QED
        BY <1>1, <1>2, <1>5, <3>1
    <2>2. q - p - 1 \in Nat
      BY <2>1
    <2>3. (q - p - 1) * PAGE_SIZE >= 0
          /\ (q - p - 1) * PAGE_SIZE = q * PAGE_SIZE - p * PAGE_SIZE - PAGE_SIZE
      BY <1>2, <2>2
    <2> QED
      BY <1>1, <1>2, <2>3
  <1> QED
    BY <1>4, <1>5

-----------------------------------------------------------------------------
(* A page of a segment.                                                    *)

LEMMA HeaderIs ==
    ASSUME NEW p \in Elf!Header
    PROVE  /\ p.load \in BOOLEAN /\ p.off \in Nat /\ p.vaddr \in Nat /\ p.filesz \in Nat /\ p.memsz \in Nat
           /\ WORD > 0
  BY ElfSizes DEF Elf!Header, Elf!Words

LEMMA LeastOf ==
    ASSUME NEW a \in Int, NEW b \in Int
    PROVE  \E x \in Int : x = Elf!Min({a, b}) /\ x <= a /\ x <= b /\ (x = a \/ x = b)
  <1>1. \E x \in {a, b} : \A y \in {a, b} : x <= y
    OBVIOUS
  <1>2. Elf!Min({a, b}) \in {a, b} /\ \A y \in {a, b} : Elf!Min({a, b}) <= y
    BY <1>1 DEF Elf!Min
  <1> QED
    BY <1>2

LEMMA GreatestOf ==
    ASSUME NEW a \in Int, NEW b \in Int
    PROVE  \E x \in Int : x = Elf!Max({a, b}) /\ x >= a /\ x >= b /\ (x = a \/ x = b)
  <1>1. \E x \in {a, b} : \A y \in {a, b} : x >= y
    OBVIOUS
  <1>2. Elf!Max({a, b}) \in {a, b} /\ \A y \in {a, b} : Elf!Max({a, b}) >= y
    BY <1>1 DEF Elf!Max
  <1> QED
    BY <1>2

\* The byte k of a segment, and how much of the file is left at an address.
ByteOf(f, p, k) == IF k < p.filesz THEN Elf!Source(f, p.off + k) ELSE -1
Rest(p, va) ==
    IF va <= p.vaddr THEN p.filesz
    ELSE IF va - p.vaddr < p.filesz THEN p.filesz - (va - p.vaddr) ELSE 0

LEMMA FilledIs ==
    ASSUME NEW p \in Elf!Header, NEW f, f.len \in Nat,
           NEW va \in Nat, va % PAGE_SIZE = 0, Elf!Down(p.vaddr) <= va,
           NEW m, m = Elf!Filled(f, p, va, Rest(p, va))
    PROVE  /\ DOMAIN m = va..va + PAGE_SIZE - 1
           /\ \A a \in DOMAIN m : m[a] < f.len
           /\ \A k \in Nat : p.vaddr + k \in DOMAIN m => m[p.vaddr + k] = ByteOf(f, p, k)
           /\ Rest(p, va) - Elf!Copied(p, va, Rest(p, va)) = Rest(p, va + PAGE_SIZE)
  <1>1. PICK P \in Nat : P = PAGE_SIZE /\ P > 0
    BY ElfSizes
  <1>2. p.off \in Nat /\ p.vaddr \in Nat /\ p.filesz \in Nat
    BY HeaderIs
  <1>3. PICK d \in Nat : d = Elf!Down(p.vaddr) /\ d <= p.vaddr /\ p.vaddr < d + P
                         /\ p.vaddr % PAGE_SIZE = p.vaddr - d /\ d % PAGE_SIZE = 0
    BY <1>1, <1>2, DownIs
  <1>4. PICK off \in 0..P - 1 :
            /\ off = IF va = Elf!Down(p.vaddr) THEN p.vaddr % PAGE_SIZE ELSE 0
            /\ \/ va + off = p.vaddr
               \/ off = 0 /\ p.vaddr < va
    <2>1. CASE va = d
      BY <1>1, <1>2, <1>3, <2>1
    <2>2. CASE va # d
      <3>1. d < va
        BY <1>3, <2>2
      <3>2. d + PAGE_SIZE <= va
        BY <1>3, <3>1, PagesStep
      <3> QED
        BY <1>1, <1>2, <1>3, <2>2, <3>2
    <2> QED
      BY <2>1, <2>2
  <1>5. PICK r \in Nat : r = Rest(p, va)
    BY <1>2 DEF Rest
  <1>6. PICK c \in Int : c = Elf!Min({P - off, r}) /\ c <= P - off /\ c <= r /\ (c = P - off \/ c = r)
    BY LeastOf
  <1>7. m = [a \in va..va + P - 1 |->
                IF a < va + off THEN -2
                ELSE IF a < va + off + c THEN Elf!Source(f, p.off + (p.filesz - r) + (a - va - off))
                ELSE -1]
    BY <1>1, <1>4, <1>5, <1>6 DEF Elf!Filled, Elf!JUNK, Elf!ZERO
  <1>8. c = Elf!Copied(p, va, r)
    BY <1>1, <1>4, <1>6 DEF Elf!Copied
  <1>9. \/ va + off = p.vaddr /\ r = p.filesz
        \/ off = 0 /\ p.vaddr < va /\ r = p.filesz - (va - p.vaddr)
        \/ off = 0 /\ p.vaddr < va /\ r = 0 /\ va - p.vaddr >= p.filesz
    BY <1>2, <1>4, <1>5 DEF Rest
  <1>10. DOMAIN m = va..va + P - 1
    BY <1>7
  <1>11. ASSUME NEW a \in va..va + P - 1 PROVE m[a] < f.len
    <2>1. m[a] = IF a < va + off THEN -2
                 ELSE IF a < va + off + c THEN Elf!Source(f, p.off + (p.filesz - r) + (a - va - off))
                 ELSE -1
      BY <1>7
    <2>2. \A o : Elf!Source(f, o) < f.len
      BY DEF Elf!Source, Elf!FOREIGN
    <2> QED
      BY <2>1, <2>2
  <1>12. ASSUME NEW k \in Nat, p.vaddr + k \in va..va + P - 1 PROVE m[p.vaddr + k] = ByteOf(f, p, k)
    <2>1. PICK a \in va..va + P - 1 : a = p.vaddr + k
      BY <1>12
    <2>2. m[a] = IF a < va + off THEN -2
                 ELSE IF a < va + off + c THEN Elf!Source(f, p.off + (p.filesz - r) + (a - va - off))
                 ELSE -1
      BY <1>7
    <2>3. ~(a < va + off)
      BY <1>2, <1>9, <2>1
    <2>4. a < va + off + c <=> k < p.filesz
      BY <1>2, <1>6, <1>9, <2>1
    <2>5. k < p.filesz => p.off + (p.filesz - r) + (a - va - off) = p.off + k
      BY <1>2, <1>9, <2>1
    <2> QED
      BY <2>1, <2>2, <2>3, <2>4, <2>5 DEF ByteOf
  <1>13. r - c = Rest(p, va + P)
    BY <1>2, <1>4, <1>6, <1>9 DEF Rest
  <1> QED
    BY <1>1, <1>5, <1>8, <1>10, <1>11, <1>12, <1>13

-----------------------------------------------------------------------------
(* The strings on the stack.                                               *)

LEMMA NatMin ==
    ASSUME NEW S \in SUBSET Nat, S # {}
    PROVE  \E x \in S : \A y \in S : x <= y
  <1> DEFINE Less == OpToRel(<, Nat)
  <1>1. IsWellFoundedOn(Less, Nat)
    BY NatLessThanWellFounded
  <1>2. \A p \in Nat, q \in Nat : p < q => <<p, q>> \in Less
    BY DEF OpToRel
  <1> HIDE DEF Less
  <1>3. PICK x \in S : \A y \in S : ~ (<<y, x>> \in Less)
    BY <1>1, WFMin
  <1>4. ASSUME NEW y \in S PROVE x <= y
    <2>1. x \in Nat /\ y \in Nat
      OBVIOUS
    <2>2. ~ (y < x)
      BY <2>1, <1>2, <1>3
    <2> QED
      BY <2>1, <2>2
  <1> QED
    BY <1>4

Follows(g, T, t0, N, h) ==
    /\ g \in [0 .. N -> T] /\ g[0] = t0
    /\ \A n \in 1 .. N : g[n] = h[<<g[n - 1], n - 1>>]

LEMMA Recursion ==
    ASSUME NEW T, NEW t0 \in T, NEW N \in Nat, NEW h \in [T \X (0 .. N - 1) -> T]
    PROVE  \E g : Follows(g, T, t0, N, h)
  <1> DEFINE Upto(g, m) == Follows(g, T, t0, m, h)
             Bad == {m \in 0 .. N : ~ \E g : Upto(g, m)}
  <1>1. SUFFICES ASSUME Bad # {} PROVE FALSE
    <2>1. N \in 0 .. N
      OBVIOUS
    <2>2. PICK g : Upto(g, N)
      BY <1>1, <2>1
    <2> QED
      BY <2>2
  <1>2. Bad \in SUBSET Nat
    OBVIOUS
  <1>3. PICK m \in Bad : \A x \in Bad : m <= x
    <2> HIDE DEF Bad
    <2> QED
      BY <1>1, <1>2, NatMin
  <1>4. m \in Nat /\ m <= N /\ ~ \E g : Upto(g, m)
    BY <1>3
  <1>5. m # 0
    <2>1. Upto([n \in 0 .. 0 |-> t0], 0)
      BY DEF Follows
    <2> QED
      BY <1>4, <2>1
  <1>6. m - 1 \in 0 .. N /\ m - 1 \notin Bad
    BY <1>3, <1>4, <1>5
  <1>7. PICK g : Upto(g, m - 1)
    BY <1>6
  <1> DEFINE g1 == [n \in 0 .. m |-> IF n = m THEN h[<<g[m - 1], m - 1>>] ELSE g[n]]
  <1>8. Upto(g1, m)
    <2>1. g[m - 1] \in T /\ h[<<g[m - 1], m - 1>>] \in T
      BY <1>4, <1>5, <1>7 DEF Follows
    <2>2. g1 \in [0 .. m -> T]
      BY <1>4, <1>5, <1>7, <2>1 DEF Follows
    <2>3. g1[0] = t0
      BY <1>4, <1>5, <1>7 DEF Follows
    <2>4. ASSUME NEW n \in 1 .. m PROVE g1[n] = h[<<g1[n - 1], n - 1>>]
      <3>1. n - 1 \in 0 .. m /\ n - 1 # m
        BY <1>4
      <3>2. g1[n - 1] = g[n - 1]
        BY <3>1
      <3>3. CASE n = m
        <4>1. g1[m] = h[<<g[m - 1], m - 1>>]
          BY <1>4
        <4> HIDE DEF g1
        <4> QED
          BY <3>2, <3>3, <4>1
      <3>4. CASE n # m
        BY <1>4, <1>7, <3>2, <3>4 DEF Follows
      <3> QED
        BY <3>3, <3>4
    <2> QED
      BY <2>2, <2>3, <2>4 DEF Follows
  <1> QED
    BY <1>4, <1>8

LEMMA CountedIs ==
    ASSUME NEW argv \in Seq(Nat)
    PROVE  /\ Elf!Counted(argv) \in Nat /\ 1 <= Elf!Counted(argv) /\ Elf!Counted(argv) <= MAX_ARGS
           /\ Len(argv) >= 1 => Elf!Counted(argv) <= Len(argv)
  <1>1. Len(argv) \in Nat /\ MAX_ARGS \in Nat /\ MAX_ARGS >= 2
    BY LenProperties, ElfSizes
  <1>2. PICK x \in Int : x = Elf!Max({1, Len(argv)}) /\ x >= 1 /\ (x = 1 \/ x = Len(argv))
    BY <1>1, GreatestOf
  <1>3. PICK y \in Int : y = Elf!Min({MAX_ARGS, x}) /\ y <= MAX_ARGS /\ y <= x /\ (y = MAX_ARGS \/ y = x)
    BY <1>1, LeastOf
  <1> QED
    BY <1>1, <1>2, <1>3 DEF Elf!Counted

LEMMA LengthIs ==
    ASSUME NEW argv \in Seq(Nat), NEW i \in Nat, i >= 1
    PROVE  /\ Elf!Length(argv, i) \in Nat
           /\ (\A j \in 1..Len(argv) : argv[j] <= ARG_MAX) => Elf!Length(argv, i) <= ARG_MAX + 1
  <1>1. Len(argv) \in Nat /\ (i <= Len(argv) => i \in 1..Len(argv) /\ argv[i] \in Nat)
    BY LenProperties, ElementOfSeq
  <1> QED
    BY <1>1, ElfSizes DEF Elf!Length

\* One string below the other; and what execve lets through takes at most its share.
LEMMA StringsAre ==
    ASSUME NEW argv \in Seq(Nat), NEW n, n = Elf!Counted(argv), NEW s, s = Elf!Strings(argv),
           NEW A \in Nat, A = ARG_MAX + 1
    PROVE  /\ DOMAIN s = 1..n
           /\ \A i \in 1..n : s[i] \in Int
           /\ \A i \in 1..n :
                 s[i] = (IF i = n THEN STACK + STACK_SIZE ELSE s[i + 1]) - Elf!Length(argv, i)
           /\ (\A j \in 1..Len(argv) : argv[j] <= ARG_MAX) =>
                 \A i \in 1..n : s[i] >= STACK + STACK_SIZE - (n + 1 - i) * A
  <1>1. n \in Nat /\ n >= 1
    BY CountedIs
  <1>2. PICK top \in Nat : top = STACK + STACK_SIZE /\ STACK \in Nat /\ STACK_SIZE \in Nat
    BY ElfSizes
  <1>3. A \in Nat /\ A = ARG_MAX + 1
    OBVIOUS
  <1> DEFINE L(k) == Elf!Length(argv, n + 1 - k)
             F(f) == [k \in 0..n |-> IF k = 0 THEN top ELSE f[k - 1] - L(k)]
             at == CHOOSE f : f = F(f)
             Fit == \A j \in 1..Len(argv) : argv[j] <= ARG_MAX
  <1>4. ASSUME NEW k \in 1..n PROVE L(k) \in Int /\ (Fit => L(k) <= A)
    <2>1. n + 1 - k \in Nat /\ n + 1 - k >= 1
      BY <1>1
    <2> QED
      BY <1>3, <2>1, LengthIs
  <1> HIDE DEF L, Fit
  <1>5. PICK h \in [Int \X (0..n - 1) -> Int] : \A x \in Int, k \in 0..n - 1 : h[<<x, k>>] = x - L(k + 1)
    <2> DEFINE h == [y \in Int \X (0..n - 1) |-> y[1] - L(y[2] + 1)]
    <2>1. ASSUME NEW x \in Int, NEW k \in 0..n - 1 PROVE x - L(k + 1) \in Int
      <3>1. k + 1 \in 1..n
        BY <1>1
      <3> QED
        BY <1>4, <3>1
    <2>2. h \in [Int \X (0..n - 1) -> Int]
      BY <2>1
    <2>3. \A x \in Int, k \in 0..n - 1 : h[<<x, k>>] = x - L(k + 1)
      OBVIOUS
    <2> QED
      BY <2>2, <2>3
  <1>6. PICK g : Follows(g, Int, top, n, h)
    <2> HIDE DEF F, at
    <2>1. top \in Int /\ n \in Nat
      BY <1>1, <1>2
    <2>2. \E g : Follows(g, Int, top, n, h)
      BY <2>1, Recursion
    <2> QED
      BY <2>2
  <1>7. ASSUME NEW k \in 1..n PROVE g[k] = g[k - 1] - L(k)
    <2>1. k - 1 \in 0..n /\ k - 1 \in 0..n - 1 /\ (k - 1) + 1 = k
      BY <1>1
    <2>2. g[k - 1] \in Int /\ g[k] = h[<<g[k - 1], k - 1>>]
      BY <1>6, <2>1 DEF Follows
    <2> QED
      BY <1>5, <2>1, <2>2
  <1>8. g = F(g)
    BY <1>6, <1>7 DEF Follows
  <1>9. at = F(at)
    <2> HIDE DEF F
    <2> QED
      BY <1>8
  <1>10. at[0] = top /\ \A k \in 1..n : at[k] = at[k - 1] - L(k)
    <2> HIDE DEF at
    <2>1. 0 \in 0..n /\ \A k \in 1..n : k \in 0..n /\ k # 0
      BY <1>1
    <2> QED
      BY <1>9, <2>1
  <1>11. s = [i \in 1..n |-> at[n + 1 - i]]
    BY <1>2 DEF Elf!Strings, L
  <1> HIDE DEF at, F
  <1> DEFINE Good(k) == at[k] \in Int /\ (Fit => at[k] >= top - k * A)
             Bad == {k \in 0..n : ~Good(k)}
  <1>12. \A k \in 0..n : Good(k)
    <2> SUFFICES ASSUME Bad # {} PROVE FALSE
      OBVIOUS
    <2>1. Bad \in SUBSET Nat
      OBVIOUS
    <2>2. PICK k \in Bad : \A x \in Bad : k <= x
      <3> HIDE DEF Bad
      <3> QED
        BY <2>1, NatMin
    <2>3. k \in 0..n /\ ~Good(k)
      OBVIOUS
    <2>4. Good(0)
      BY <1>2, <1>3, <1>10
    <2>5. k # 0
      BY <2>3, <2>4
    <2>6. k - 1 \in 0..n /\ ~(k <= k - 1)
      BY <1>1, <2>3, <2>5
    <2>7. Good(k - 1)
      BY <2>2, <2>6
    <2>8. k \in 1..n /\ at[k] = at[k - 1] - L(k) /\ L(k) \in Int /\ (Fit => L(k) <= A)
      BY <1>4, <1>10, <2>3, <2>5
    <2>9. PICK y \in Int : y = k * A /\ (k - 1) * A = y - A
      BY <1>3, <2>3
    <2>10. Good(k)
      <3>1. at[k - 1] \in Int /\ (Fit => at[k - 1] >= top - (y - A))
        BY <2>7, <2>9
      <3>2. at[k] \in Int /\ (Fit => at[k] >= top - y)
        BY <1>2, <1>3, <2>8, <3>1, SMTT(30)
      <3> QED
        BY <2>9, <3>2
    <2> QED
      BY <2>3, <2>10
  <1> HIDE DEF Bad
  <1>13. ASSUME NEW i \in 1..n
         PROVE  /\ s[i] \in Int
                /\ s[i] = (IF i = n THEN top ELSE s[i + 1]) - Elf!Length(argv, i)
                /\ Fit => s[i] >= top - (n + 1 - i) * A
    <2>1. n + 1 - i \in 1..n /\ n + 1 - i \in 0..n /\ s[i] = at[n + 1 - i]
      BY <1>1, <1>11
    <2>2. s[i] = at[(n + 1 - i) - 1] - L(n + 1 - i)
      BY <1>10, <2>1
    <2>3. L(n + 1 - i) = Elf!Length(argv, i)
      <3>1. n + 1 - (n + 1 - i) = i
        BY <1>1
      <3> QED
        BY <3>1 DEF L
    <2>4. at[(n + 1 - i) - 1] = IF i = n THEN top ELSE s[i + 1]
      <3>1. i = n => (n + 1 - i) - 1 = 0
        BY <1>1
      <3>2. i # n => i + 1 \in 1..n /\ n + 1 - (i + 1) = (n + 1 - i) - 1
        BY <1>1
      <3> QED
        BY <1>10, <1>11, <3>1, <3>2
    <2>5. Good(n + 1 - i)
      BY <1>12, <2>1
    <2> QED
      BY <2>1, <2>2, <2>3, <2>4, <2>5
  <1>14. Fit => \A i \in 1..n : s[i] >= STACK + STACK_SIZE - (n + 1 - i) * A
    <2> SUFFICES ASSUME Fit, NEW i \in 1..n
                 PROVE  s[i] >= STACK + STACK_SIZE - (n + 1 - i) * A
      OBVIOUS
    <2>1. s[i] >= top - (n + 1 - i) * A
      BY <1>13
    <2> QED
      BY <1>1, <1>2, <2>1
  <1>15. DOMAIN s = 1..n
    BY <1>11
  <1>16. \A i \in 1..n : s[i] \in Int
    BY <1>13
  <1>17. \A i \in 1..n : s[i] = (IF i = n THEN STACK + STACK_SIZE ELSE s[i + 1]) - Elf!Length(argv, i)
    BY <1>2, <1>13
  <1> QED
    BY <1>14, <1>15, <1>16, <1>17 DEF Fit

-----------------------------------------------------------------------------
(* The inductive invariant of a load.                                      *)

Running(s) == s.phase \in {"segment", "page", "ready"}

LoadTypes(s) ==
    /\ DOMAIN s = {"phase", "exec", "image", "seg", "va", "end", "remain", "brk", "mem", "argv",
                   "esp", "astr"}
    /\ s.image \in Images /\ s.argv \in Seq(Nat) /\ s.seg \in Nat
    /\ s.brk \in Nat /\ s.brk % PAGE_SIZE = 0

ArgsFit(s) ==
    s.exec => Len(s.argv) \in 1..MAX_ARGS - 1 /\ \A j \in 1..Len(s.argv) : s.argv[j] <= ARG_MAX

\* Where the loop over the headers is.
InHeaders(s) ==
    /\ s.phase = "parse" => s.seg = 0 /\ DOMAIN s.mem = {}
    /\ Running(s) => Elf!Accepted(s.image) /\ s.seg <= Len(s.image.ph)
    /\ s.phase = "ready" => s.seg = Len(s.image.ph)

\* Where the loop over the pages of a segment is, and how much of the file is left.
InSegment(s) ==
    s.phase = "page" =>
        /\ s.seg < Len(s.image.ph)
        /\ LET p == s.image.ph[s.seg + 1]
           IN  /\ p.load /\ MIN <= Elf!Down(p.vaddr) /\ Elf!Down(p.vaddr) <= s.va
               /\ s.va \in Nat /\ s.va % PAGE_SIZE = 0 /\ (Elf!Spans(p) => s.va <= s.end)
               /\ s.end = Elf!Up(p.vaddr + p.memsz) /\ s.remain = Rest(p, s.va)

\* What is mapped lies below the pages to come.
InBounds(s) ==
    s.phase # "failed" =>
        \A a \in DOMAIN s.mem :
            /\ a \in Int /\ MIN <= a /\ (a < s.brk \/ (s.phase = "page" /\ a < s.va /\ s.va <= s.end))
            /\ s.mem[a] < s.image.len

\* A byte k of segment i that is loaded already.
Reached(s, i, k) ==
    \/ i <= s.seg
    \/ s.phase = "page" /\ i = s.seg + 1 /\ s.image.ph[i].vaddr + k < s.va

Holds(m, f, p, k) == p.vaddr + k \in DOMAIN m /\ m[p.vaddr + k] = ByteOf(f, p, k)

BytesHold(s) ==
    Running(s) /\ Elf!PagesApart(s.image) =>
        \A i \in Elf!Loads(s.image) : \A k \in 0..s.image.ph[i].memsz - 1 :
            Elf!Spans(s.image.ph[i]) /\ Reached(s, i, k) => Holds(s.mem, s.image, s.image.ph[i], k)

StackBuilt(s) ==
    LET n == Elf!Counted(s.argv)
    IN  s.phase = "ready" =>
            /\ \A i \in DOMAIN s.astr :
                 s.astr[i] + Elf!Length(s.argv, i) <=
                     IF i = n THEN STACK + STACK_SIZE ELSE s.astr[i + 1]
            /\ s.esp >= STACK /\ s.esp % 4 = 0
            /\ s.esp + 4 + 4 * (n + 1) + 4 + 8 <= s.astr[1]

LoadInv(s) ==
    /\ LoadTypes(s) /\ ArgsFit(s) /\ InHeaders(s) /\ InSegment(s) /\ InBounds(s) /\ BytesHold(s)
    /\ StackBuilt(s)

LEMMA ImageIs ==
    ASSUME NEW f \in Images
    PROVE  /\ f.len \in Nat /\ Len(f.ph) \in Nat /\ DOMAIN f.ph = 1..Len(f.ph)
           /\ \A i \in 1..Len(f.ph) : f.ph[i] \in Elf!Header
  <1>1. f \in [good: BOOLEAN, len: Elf!Words, phoff: Elf!Words, ph: Seq(Elf!Header)]
    BY ProgramsAssumption DEF Elf!ElfAssumption
  <1>2. f.len \in Nat /\ f.ph \in Seq(Elf!Header)
    BY <1>1 DEF Elf!Words
  <1> QED
    BY <1>2, LenProperties, ElementOfSeq

LEMMA AcceptedIs ==
    ASSUME NEW f \in Images, Elf!Accepted(f), NEW i \in 1..Len(f.ph), f.ph[i].load
    PROVE  (f.ph[i].off + f.ph[i].filesz) % WORD <= f.len
  <1>1. i \in DOMAIN f.ph
    BY ImageIs
  <1>2. Elf!SegmentOk(f, f.ph[i]) /\ f.ph[i] \in Elf!Header
    BY <1>1, ImageIs DEF Elf!Accepted
  <1> QED
    BY <1>2, HeaderIs DEF Elf!SegmentOk

\* A step that does no more than end the load.
LEMMA FailKeeps ==
    ASSUME LoadInv(st), Elf!Fail
    PROVE  LoadInv(st')
  <1>1. PICK t : t = st'
    OBVIOUS
  <1>2. /\ DOMAIN t = DOMAIN st /\ t.phase = "failed" /\ t.mem = <<>> /\ t.seg = st.seg
        /\ t.image = st.image /\ t.argv = st.argv /\ t.brk = st.brk /\ t.exec = st.exec
    BY <1>1 DEF Elf!Fail, LoadInv, LoadTypes
  <1>3. LoadTypes(t) /\ ArgsFit(t)
    BY <1>2 DEF LoadInv, LoadTypes, ArgsFit
  <1>4. InHeaders(t) /\ InSegment(t) /\ InBounds(t) /\ BytesHold(t) /\ StackBuilt(t)
    BY <1>2 DEF InHeaders, InSegment, InBounds, BytesHold, StackBuilt, Running
  <1> QED
    BY <1>1, <1>3, <1>4 DEF LoadInv

LEMMA LoadInit == Elf!Init => LoadInv(st)
  <1> SUFFICES ASSUME Elf!Init PROVE LoadInv(st)
    OBVIOUS
  <1>1. PICK image \in Images, args \in Args, exec \in BOOLEAN :
          \E argv \in IF exec THEN Elf!ExecArgs(args) ELSE {args} :
            st = [phase |-> "parse", exec |-> exec, image |-> image, seg |-> 0, va |-> 0, end |-> 0,
                  remain |-> 0, brk |-> 0, mem |-> <<>>, argv |-> argv, esp |-> 0, astr |-> <<>>]
    BY DEF Elf!Init
  <1>2. PICK argv \in IF exec THEN Elf!ExecArgs(args) ELSE {args} :
            st = [phase |-> "parse", exec |-> exec, image |-> image, seg |-> 0, va |-> 0, end |-> 0,
                  remain |-> 0, brk |-> 0, mem |-> <<>>, argv |-> argv, esp |-> 0, astr |-> <<>>]
    BY <1>1
  <1>3. args \in Seq(Nat)
    BY ProgramsAssumption DEF Elf!ElfAssumption
  <1>4. argv \in Seq(Nat) /\ (exec => Len(argv) \in 1..MAX_ARGS - 1 /\ \A j \in 1..Len(argv) : argv[j] <= ARG_MAX)
    <2>1. CASE ~exec
      BY <1>3, <2>1
    <2>2. CASE exec
      <3>1. PICK n \in 0..Elf!Min({Len(args), MAX_ARGS - 1}) :
                argv = IF n = 0 THEN <<NAME>> ELSE [i \in 1..n |-> Elf!Min({args[i], ARG_MAX})]
        BY <2>2 DEF Elf!ExecArgs
      <3>2. Len(args) \in Nat /\ MAX_ARGS - 1 \in Nat /\ MAX_ARGS - 1 >= 1 /\ ARG_MAX \in Nat
        BY <1>3, LenProperties, ElfSizes
      <3>3. PICK m \in Int : m = Elf!Min({Len(args), MAX_ARGS - 1}) /\ m <= Len(args) /\ m <= MAX_ARGS - 1
        BY <3>2, LeastOf
      <3>4. n \in Nat /\ n <= Len(args) /\ n <= MAX_ARGS - 1
        BY <3>2, <3>3
      <3>5. CASE n = 0
        <4>1. argv = <<NAME>>
          BY <3>1, <3>5
        <4>2. argv \in Seq(Nat) /\ Len(argv) = 1 /\ argv[1] = NAME
          BY <4>1, ElfSizes
        <4> QED
          BY <3>2, <4>2, ElfSizes
      <3>6. CASE n # 0
        <4>1. argv = [i \in 1..n |-> Elf!Min({args[i], ARG_MAX})]
          BY <3>1, <3>6
        <4>2. ASSUME NEW i \in 1..n PROVE argv[i] \in Nat /\ argv[i] <= ARG_MAX
          <5>1. PICK y \in Nat : y = args[i]
            BY <1>3, <3>2, <3>4, ElementOfSeq
          <5>2. PICK x \in Int : x = Elf!Min({y, ARG_MAX}) /\ x <= ARG_MAX /\ (x = y \/ x = ARG_MAX)
            BY <3>2, LeastOf, SMTT(30)
          <5> QED
            BY <3>2, <4>1, <5>1, <5>2
        <4>3. argv \in [1..n -> Nat]
          BY <4>1, <4>2
        <4>4. argv \in Seq(Nat) /\ Len(argv) = n
          BY <3>4, <4>3
        <4> QED
          BY <3>4, <3>6, <4>2, <4>4
      <3> QED
        BY <3>5, <3>6
    <2> QED
      BY <2>1, <2>2
  <1>5. 0 \in Nat /\ 0 % PAGE_SIZE = 0
    <2>1. 0 * PAGE_SIZE + 0 = 0 /\ 0 \in 0..PAGE_SIZE - 1
      BY ElfSizes
    <2> QED
      BY <2>1, OnePage
  <1>6. LoadTypes(st)
    BY <1>2, <1>4, <1>5 DEF LoadTypes
  <1>7. ArgsFit(st)
    BY <1>2, <1>4 DEF ArgsFit
  <1>8. DOMAIN st.mem = {}
    BY <1>2
  <1>9. InHeaders(st) /\ InSegment(st) /\ InBounds(st) /\ BytesHold(st) /\ StackBuilt(st)
    BY <1>2, <1>8 DEF InHeaders, InSegment, InBounds, BytesHold, StackBuilt, Running
  <1> QED
    BY <1>6, <1>7, <1>9 DEF LoadInv

LEMMA ParseKeeps ==
    ASSUME LoadInv(st), Elf!Parse
    PROVE  LoadInv(st')
  <1>1. CASE ~Elf!Accepted(st.image)
    BY <1>1, FailKeeps DEF Elf!Parse
  <1>2. CASE Elf!Accepted(st.image)
    <2>1. PICK t : t = st'
      OBVIOUS
    <2>2. st.phase = "parse" /\ st.seg = 0 /\ DOMAIN st.mem = {}
      BY DEF Elf!Parse, LoadInv, InHeaders
    <2>3. /\ DOMAIN t = DOMAIN st /\ t.phase = "segment" /\ t.mem = st.mem /\ t.seg = st.seg
          /\ t.image = st.image /\ t.argv = st.argv /\ t.brk = st.brk /\ t.exec = st.exec
      BY <1>2, <2>1 DEF Elf!Parse, LoadInv, LoadTypes
    <2>4. LoadTypes(t) /\ ArgsFit(t)
      BY <2>3 DEF LoadInv, LoadTypes, ArgsFit
    <2>5. Len(st.image.ph) \in Nat
      BY ImageIs DEF LoadInv, LoadTypes
    <2>6. InHeaders(t) /\ InSegment(t) /\ InBounds(t) /\ StackBuilt(t)
      BY <1>2, <2>2, <2>3, <2>5 DEF InHeaders, InSegment, InBounds, StackBuilt, Running
    <2>7. BytesHold(t)
      <3>1. ASSUME NEW i \in Elf!Loads(t.image), NEW k, Reached(t, i, k) PROVE FALSE
        BY <2>2, <2>3, <2>5, <3>1, ImageIs DEF Elf!Loads, Reached, LoadInv, LoadTypes
      <3> QED
        BY <3>1 DEF BytesHold
    <2> QED
      BY <2>1, <2>4, <2>6, <2>7 DEF LoadInv
  <1> QED
    BY <1>1, <1>2

LEMMA SegmentKeeps ==
    ASSUME LoadInv(st), Elf!Segment
    PROVE  LoadInv(st')
  <1>1. PICK n \in Nat : n = st.seg + 1 /\ n \in 1..Len(st.image.ph) /\ st.phase = "segment"
    BY ImageIs DEF Elf!Segment, LoadInv, LoadTypes
  <1>2. PICK p \in Elf!Header : p = st.image.ph[n]
    BY <1>1, ImageIs DEF LoadInv, LoadTypes
  <1>3. PICK t : t = st'
    OBVIOUS
  <1>4. Elf!Accepted(st.image) /\ DOMAIN st.image.ph = 1..Len(st.image.ph) /\ Len(st.image.ph) \in Nat
    BY <1>1, ImageIs DEF LoadInv, LoadTypes, InHeaders, Running
  <1>5. CASE ~p.load
    <2>1. st' = [st EXCEPT !.seg = @ + 1]
      BY <1>1, <1>2, <1>5 DEF Elf!Segment
    <2>2. /\ DOMAIN t = DOMAIN st /\ t.phase = "segment" /\ t.mem = st.mem /\ t.seg = n
          /\ t.image = st.image /\ t.argv = st.argv /\ t.brk = st.brk /\ t.exec = st.exec
      BY <1>1, <1>3, <2>1 DEF LoadInv, LoadTypes
    <2>3. LoadTypes(t) /\ ArgsFit(t)
      BY <2>2 DEF LoadInv, LoadTypes, ArgsFit
    <2>4. InHeaders(t) /\ InSegment(t) /\ InBounds(t) /\ StackBuilt(t)
      BY <1>1, <1>4, <2>2 DEF LoadInv, InHeaders, InSegment, InBounds, StackBuilt, Running
    <2>5. ASSUME NEW i \in Elf!Loads(t.image), NEW k, Reached(t, i, k) PROVE Reached(st, i, k)
      <3>1. i \in 1..Len(st.image.ph) /\ i # n
        BY <1>2, <1>4, <1>5, <2>2 DEF Elf!Loads
      <3>2. i <= n
        BY <2>2, <2>5 DEF Reached
      <3> QED
        BY <1>1, <3>1, <3>2 DEF Reached, LoadInv, LoadTypes
    <2>6. BytesHold(t)
      BY <1>1, <2>2, <2>5 DEF LoadInv, BytesHold, Running
    <2> QED
      BY <1>3, <2>3, <2>4, <2>6 DEF LoadInv
  <1>6. CASE p.load
    <2>1. CASE Elf!Down(p.vaddr) < MIN \/ Elf!Up(p.vaddr + p.memsz) > STACK
      <3>1. Elf!Fail
        BY <1>1, <1>2, <1>6, <2>1 DEF Elf!Segment
      <3> QED
        BY <3>1, FailKeeps
    <2>2. CASE ~(Elf!Down(p.vaddr) < MIN \/ Elf!Up(p.vaddr + p.memsz) > STACK)
      <3>1. st' = [st EXCEPT !.phase = "page", !.va = Elf!Down(p.vaddr),
                             !.end = Elf!Up(p.vaddr + p.memsz), !.remain = p.filesz]
        BY <1>1, <1>2, <1>6, <2>2 DEF Elf!Segment
      <3>2. /\ DOMAIN t = DOMAIN st /\ t.phase = "page" /\ t.mem = st.mem /\ t.seg = st.seg
            /\ t.image = st.image /\ t.argv = st.argv /\ t.brk = st.brk /\ t.exec = st.exec
            /\ t.va = Elf!Down(p.vaddr) /\ t.end = Elf!Up(p.vaddr + p.memsz) /\ t.remain = p.filesz
        BY <1>3, <3>1 DEF LoadInv, LoadTypes
      <3>3. LoadTypes(t) /\ ArgsFit(t)
        BY <3>2 DEF LoadInv, LoadTypes, ArgsFit
      <3>4. InHeaders(t) /\ InBounds(t) /\ StackBuilt(t)
        BY <1>1, <1>4, <3>2 DEF LoadInv, LoadTypes, InHeaders, InBounds, StackBuilt, Running
      <3>5. p.vaddr \in Nat /\ p.memsz \in Nat /\ p.vaddr + p.memsz \in Nat /\ WORD > 0
        BY HeaderIs
      <3>6. /\ t.va \in Nat /\ t.va <= p.vaddr /\ t.va % PAGE_SIZE = 0 /\ t.end \in Nat
            /\ Elf!Spans(p) => p.vaddr + p.memsz <= t.end
        <4>1. PICK v \in Nat : v = p.vaddr + p.memsz
          BY <3>5
        <4>2. Elf!Up(v) \in Nat /\ (v + PAGE_SIZE - 1 < WORD => v <= Elf!Up(v))
          BY <3>5, UpIs
        <4>3. t.end = Elf!Up(v)
          BY <3>2, <4>1
        <4>4. Elf!Spans(p) => v + PAGE_SIZE - 1 < WORD
          BY <4>1 DEF Elf!Spans
        <4>5. t.va \in Nat /\ t.va <= p.vaddr /\ t.va % PAGE_SIZE = 0
          BY <3>2, <3>5, DownIs
        <4> QED
          BY <4>1, <4>2, <4>3, <4>4, <4>5
      <3>7. MIN <= t.va /\ (Elf!Spans(p) => t.va <= t.end)
        BY <2>2, <3>2, <3>5, <3>6, ElfSizes
      <3>8. t.remain = Rest(p, t.va)
        BY <3>2, <3>6 DEF Rest
      <3>9. InSegment(t)
        BY <1>1, <1>2, <1>4, <1>6, <3>2, <3>6, <3>7, <3>8 DEF InSegment, LoadInv, LoadTypes
      <3>10. ASSUME NEW i \in Elf!Loads(t.image), NEW k \in 0..t.image.ph[i].memsz - 1, Reached(t, i, k)
             PROVE  Reached(st, i, k)
        <4>1. i = n => ~(t.image.ph[i].vaddr + k < t.va)
          BY <1>2, <3>2, <3>5, <3>6
        <4> QED
          BY <1>1, <3>2, <3>10, <4>1 DEF Reached
      <3>11. BytesHold(t)
        BY <1>1, <3>2, <3>10 DEF LoadInv, BytesHold, Running
      <3> QED
        BY <1>3, <3>3, <3>4, <3>9, <3>11 DEF LoadInv
    <2> QED
      BY <2>1, <2>2
  <1> QED
    BY <1>5, <1>6

\* The addresses of a segment are on its pages.
LEMMA OnPages ==
    ASSUME NEW p \in Elf!Header, Elf!Spans(p), NEW k \in 0..p.memsz - 1
    PROVE  p.vaddr + k \in Elf!Pages(p)
  <1>1. /\ p.vaddr \in Nat /\ p.memsz \in Nat /\ k \in Nat /\ k < p.memsz /\ p.vaddr + p.memsz \in Nat
        /\ WORD > 0
    BY HeaderIs
  <1>2. PICK d \in Nat : d = Elf!Down(p.vaddr) /\ d <= p.vaddr
    BY <1>1, DownIs
  <1>3. PICK u \in Nat : u = Elf!Up(p.vaddr + p.memsz) /\ p.vaddr + p.memsz <= u
    BY <1>1, UpIs DEF Elf!Spans
  <1> QED
    BY <1>1, <1>2, <1>3 DEF Elf!Pages

LEMMA PageKeeps ==
    ASSUME LoadInv(st), Elf!Page
    PROVE  LoadInv(st')
  <1>1. PICK n \in Nat : n = st.seg + 1 /\ n \in 1..Len(st.image.ph) /\ st.phase = "page" /\ st.va < st.end
    BY ImageIs DEF Elf!Page, LoadInv, LoadTypes, InSegment
  <1>2. PICK p \in Elf!Header : p = st.image.ph[n]
    BY <1>1, ImageIs DEF LoadInv, LoadTypes
  <1>3. /\ Elf!Accepted(st.image) /\ DOMAIN st.image.ph = 1..Len(st.image.ph)
        /\ Len(st.image.ph) \in Nat /\ st.image.len \in Nat
    BY <1>1, ImageIs DEF LoadInv, LoadTypes, InHeaders, Running
  <1>4. PICK va \in Nat : va = st.va
    BY <1>1 DEF LoadInv, InSegment
  <1>5. /\ p.load /\ MIN <= Elf!Down(p.vaddr) /\ Elf!Down(p.vaddr) <= va /\ va % PAGE_SIZE = 0
        /\ st.end = Elf!Up(p.vaddr + p.memsz) /\ st.remain = Rest(p, va)
    BY <1>1, <1>2, <1>4 DEF LoadInv, InSegment
  <1>6. PICK P \in Nat : P = PAGE_SIZE /\ P > 0
    BY ElfSizes
  <1>7. p.vaddr \in Nat /\ p.memsz \in Nat /\ p.off \in Nat /\ p.filesz \in Nat /\ WORD > 0
    BY HeaderIs
  <1>8. PICK d \in Nat : d = Elf!Down(p.vaddr) /\ MIN <= d /\ d <= va
    BY <1>5, <1>7, DownIs
  <1>9. PICK end \in Nat : end = st.end /\ end % PAGE_SIZE = 0 /\ va < end
    <2>1. p.vaddr + p.memsz \in Nat
      BY <1>7
    <2>2. Elf!Up(p.vaddr + p.memsz) \in Nat /\ Elf!Up(p.vaddr + p.memsz) % PAGE_SIZE = 0
      BY <1>7, <2>1, UpIs
    <2> QED
      BY <1>1, <1>4, <1>5, <2>2
  <1>10. va + P <= end /\ (va + P) % PAGE_SIZE = 0
    BY <1>5, <1>6, <1>9, PagesStep
  <1>11. PICK new : new = Elf!Filled(st.image, p, va, Rest(p, va))
    OBVIOUS
  <1>12. /\ DOMAIN new = va..va + P - 1
         /\ \A a \in DOMAIN new : new[a] < st.image.len
         /\ \A k \in Nat : p.vaddr + k \in DOMAIN new => new[p.vaddr + k] = ByteOf(st.image, p, k)
         /\ Rest(p, va) - Elf!Copied(p, va, Rest(p, va)) = Rest(p, va + P)
    BY <1>3, <1>5, <1>6, <1>11, FilledIs, SMTT(30)
  <1>13. PICK t : t = st'
    OBVIOUS
  <1>14. st' = [st EXCEPT !.va = @ + PAGE_SIZE, !.remain = @ - Elf!Copied(p, st.va, st.remain),
                          !.mem = [a \in DOMAIN st.mem \cup DOMAIN new |->
                                      IF a \in DOMAIN new THEN new[a] ELSE st.mem[a]]]
    BY <1>1, <1>2, <1>4, <1>5, <1>11 DEF Elf!Page
  <1>15. /\ DOMAIN t = DOMAIN st /\ t.phase = "page" /\ t.seg = st.seg /\ t.end = st.end
         /\ t.image = st.image /\ t.argv = st.argv /\ t.brk = st.brk /\ t.exec = st.exec
         /\ t.va = va + P /\ t.remain = Rest(p, va + P)
         /\ t.mem = [a \in DOMAIN st.mem \cup DOMAIN new |->
                        IF a \in DOMAIN new THEN new[a] ELSE st.mem[a]]
    BY <1>1, <1>4, <1>5, <1>6, <1>12, <1>13, <1>14 DEF LoadInv, LoadTypes
  <1>16. LoadTypes(t) /\ ArgsFit(t)
    BY <1>15 DEF LoadInv, LoadTypes, ArgsFit
  <1>17. InHeaders(t) /\ StackBuilt(t)
    BY <1>1, <1>15 DEF LoadInv, InHeaders, StackBuilt, Running
  <1>18. InSegment(t)
    <2>1. t.va \in Nat /\ d <= t.va /\ t.va <= t.end /\ t.va % PAGE_SIZE = 0
      BY <1>6, <1>8, <1>9, <1>10, <1>15
    <2>2. t.seg < Len(t.image.ph) /\ t.image.ph[t.seg + 1] = p
      BY <1>1, <1>2, <1>15 DEF LoadInv, InSegment
    <2> QED
      BY <1>5, <1>8, <1>15, <2>1, <2>2 DEF InSegment
  <1>19. InBounds(t)
    <2> SUFFICES ASSUME NEW a \in DOMAIN t.mem
                 PROVE  /\ a \in Int /\ MIN <= a /\ (a < t.brk \/ (a < t.va /\ t.va <= t.end))
                        /\ t.mem[a] < t.image.len
      BY <1>15 DEF InBounds
    <2>1. CASE a \in DOMAIN new
      <3>1. t.mem[a] = new[a] /\ a \in va..va + P - 1
        BY <1>12, <1>15, <2>1
      <3> QED
        BY <1>6, <1>8, <1>9, <1>10, <1>12, <1>15, <2>1, <3>1, ElfSizes
    <2>2. CASE a \notin DOMAIN new
      <3>1. a \in DOMAIN st.mem /\ t.mem[a] = st.mem[a]
        BY <1>15, <2>2
      <3>2. a \in Int /\ MIN <= a /\ (a < st.brk \/ a < st.va) /\ st.mem[a] < st.image.len
        BY <1>1, <3>1 DEF LoadInv, InBounds
      <3> QED
        BY <1>4, <1>6, <1>9, <1>10, <1>15, <3>1, <3>2
    <2> QED
      BY <2>1, <2>2
  <1>20. BytesHold(t)
    <2> SUFFICES ASSUME Elf!PagesApart(st.image), NEW i \in Elf!Loads(st.image),
                        NEW k \in 0..st.image.ph[i].memsz - 1, Reached(t, i, k),
                        Elf!Spans(st.image.ph[i])
                 PROVE  Holds(t.mem, st.image, st.image.ph[i], k)
      BY <1>15 DEF BytesHold
    <2>1. i \in 1..Len(st.image.ph) /\ n \in Elf!Loads(st.image)
      BY <1>1, <1>2, <1>3, <1>5 DEF Elf!Loads
    <2>2. PICK q \in Elf!Header : q = st.image.ph[i]
      BY <2>1, ImageIs DEF LoadInv, LoadTypes
    <2>3. PICK x : x = q.vaddr + k
      OBVIOUS
    <2>4. q.vaddr \in Nat /\ q.memsz \in Nat /\ k \in Nat /\ k \in 0..q.memsz - 1 /\ x \in Nat
      BY <2>2, <2>3, HeaderIs
    <2>5. CASE x \in DOMAIN new
      <3>1. i = n
        <4>1. x \in Elf!Pages(q)
          BY <2>2, <2>3, <2>4, OnPages
        <4>2. x \in Elf!Pages(p)
          <5>1. x \in va..va + P - 1
            BY ONLY <1>12, <2>5
          <5>2. d \in Nat /\ va \in Nat /\ P \in Nat /\ end \in Nat
            OBVIOUS
          <5>3. x \in d..end - 1
            BY ONLY <1>8, <1>10, <2>4, <5>1, <5>2
          <5> QED
            BY ONLY <1>5, <1>8, <1>9, <5>3 DEF Elf!Pages
        <4> QED
          BY <1>2, <2>1, <2>2, <4>1, <4>2 DEF Elf!PagesApart
      <3>2. q = p
        BY <1>2, <2>2, <3>1
      <3>3. new[x] = ByteOf(st.image, q, k)
        BY <1>12, <2>3, <2>4, <2>5, <3>2
      <3>4. x \in DOMAIN t.mem /\ t.mem[x] = new[x]
        BY <1>15, <2>5
      <3> QED
        BY <2>2, <2>3, <3>3, <3>4 DEF Holds
    <2>6. CASE x \notin DOMAIN new
      <3>1. Reached(st, i, k)
        <4>1. i <= st.seg \/ (i = n /\ x < va + P)
          BY <1>1, <1>15, <2>2, <2>3 DEF Reached
        <4>2. i = n /\ x < va + P => x < va
          BY <1>6, <1>12, <2>4, <2>6
        <4> QED
          BY <1>1, <1>4, <2>2, <2>3, <4>1, <4>2 DEF Reached
      <3>2. Holds(st.mem, st.image, q, k)
        BY <1>1, <2>2, <3>1 DEF LoadInv, BytesHold, Running
      <3>3. x \in DOMAIN t.mem /\ t.mem[x] = st.mem[x]
        BY <1>15, <2>3, <2>6, <3>2 DEF Holds
      <3> QED
        BY <2>2, <2>3, <3>2, <3>3 DEF Holds
    <2> QED
      BY <2>5, <2>6
  <1> QED
    BY <1>13, <1>16, <1>17, <1>18, <1>19, <1>20 DEF LoadInv

LEMMA SegmentEndKeeps ==
    ASSUME LoadInv(st), Elf!SegmentEnd
    PROVE  LoadInv(st')
  <1>1. PICK n \in Nat : n = st.seg + 1 /\ n \in 1..Len(st.image.ph) /\ st.phase = "page"
    BY ImageIs DEF Elf!SegmentEnd, LoadInv, LoadTypes, InSegment
  <1>2. PICK p \in Elf!Header : p = st.image.ph[n]
    BY <1>1, ImageIs DEF LoadInv, LoadTypes
  <1>3. /\ Elf!Accepted(st.image) /\ DOMAIN st.image.ph = 1..Len(st.image.ph) /\ Len(st.image.ph) \in Nat
    BY <1>1, ImageIs DEF LoadInv, LoadTypes, InHeaders, Running
  <1>4. p.vaddr \in Nat /\ p.memsz \in Nat /\ p.vaddr + p.memsz \in Nat /\ WORD > 0
    BY HeaderIs
  <1>5. PICK end \in Nat : /\ end = st.end /\ end % PAGE_SIZE = 0
                           /\ Elf!Spans(p) => p.vaddr + p.memsz <= end
    <2>1. st.end = Elf!Up(p.vaddr + p.memsz)
      BY <1>1, <1>2 DEF LoadInv, InSegment
    <2> QED
      BY <1>4, <2>1, UpIs DEF Elf!Spans
  <1>6. PICK va \in Nat : va = st.va /\ (Elf!Spans(p) => va <= end) /\ va >= end
    BY <1>1, <1>2, <1>5 DEF Elf!SegmentEnd, LoadInv, InSegment
  <1>7. PICK brk \in Int : brk = Elf!Max({st.brk, end}) /\ brk >= st.brk /\ brk >= end /\ (brk = st.brk \/ brk = end)
    BY GreatestOf DEF LoadInv, LoadTypes
  <1>8. PICK t : t = st'
    OBVIOUS
  <1>9. /\ DOMAIN t = DOMAIN st /\ t.phase = "segment" /\ t.mem = st.mem /\ t.seg = n
        /\ t.image = st.image /\ t.argv = st.argv /\ t.brk = brk /\ t.exec = st.exec
    BY <1>1, <1>5, <1>7, <1>8 DEF Elf!SegmentEnd, LoadInv, LoadTypes
  <1>10. LoadTypes(t) /\ ArgsFit(t)
    <2>1. brk \in Nat /\ brk % PAGE_SIZE = 0
      BY <1>5, <1>7 DEF LoadInv, LoadTypes
    <2> QED
      BY <1>9, <2>1 DEF LoadInv, LoadTypes, ArgsFit
  <1>11. InHeaders(t) /\ InSegment(t) /\ StackBuilt(t)
    BY <1>1, <1>3, <1>9 DEF InHeaders, InSegment, StackBuilt, Running
  <1>12. InBounds(t)
    <2> SUFFICES ASSUME NEW a \in DOMAIN st.mem
                 PROVE  a \in Int /\ MIN <= a /\ a < brk /\ st.mem[a] < st.image.len
      BY <1>9 DEF InBounds
    <2>1. a \in Int /\ MIN <= a /\ (a < st.brk \/ a < end) /\ st.mem[a] < st.image.len
      BY <1>1, <1>5, <1>6 DEF LoadInv, InBounds
    <2>2. st.brk \in Nat
      BY DEF LoadInv, LoadTypes
    <2> QED
      BY <1>7, <2>1, <2>2
  <1>13. ASSUME NEW i \in Elf!Loads(t.image), NEW k \in 0..t.image.ph[i].memsz - 1, Reached(t, i, k),
                Elf!Spans(t.image.ph[i])
         PROVE  Reached(st, i, k)
    <2>1. i \in 1..Len(st.image.ph) /\ i <= n
      BY <1>3, <1>9, <1>13 DEF Elf!Loads, Reached
    <2>2. i = n => st.image.ph[i].vaddr + k < st.va
      BY <1>2, <1>4, <1>5, <1>6, <1>9, <1>13
    <2> QED
      BY <1>1, <2>1, <2>2 DEF Reached, LoadInv, LoadTypes
  <1>14. BytesHold(t)
    BY <1>1, <1>9, <1>13 DEF LoadInv, BytesHold, Running
  <1> QED
    BY <1>8, <1>10, <1>11, <1>12, <1>14 DEF LoadInv

LEMMA BuildStackKeeps ==
    ASSUME LoadInv(st), Elf!BuildStack
    PROVE  LoadInv(st')
  <1>1. st.phase = "segment" /\ st.seg = Len(st.image.ph) /\ Len(st.image.ph) \in Nat
    BY ImageIs DEF Elf!BuildStack, LoadInv, LoadTypes
  <1>2. PICK n : n = Elf!Counted(st.argv)
    OBVIOUS
  <1>3. n \in Nat /\ 1 <= n /\ n <= MAX_ARGS
    BY <1>2, CountedIs DEF LoadInv, LoadTypes
  <1>4. PICK at : at = Elf!Strings(st.argv)
    OBVIOUS
  <1>5. CASE \E i \in 1..n : at[i] < STACK + RESERVED
    BY <1>2, <1>4, <1>5, FailKeeps DEF Elf!BuildStack
  <1>6. CASE ~\E i \in 1..n : at[i] < STACK + RESERVED
    <2>1. st' = [st EXCEPT !.phase = "ready", !.astr = at,
                           !.esp = Elf!Aligned(at[1]) - 8 - 4 - 4 * (n + 1) - 4]
      BY <1>2, <1>4, <1>6 DEF Elf!BuildStack
    <2>2. PICK t : t = st'
      OBVIOUS
    <2>3. /\ DOMAIN t = DOMAIN st /\ t.phase = "ready" /\ t.mem = st.mem /\ t.seg = st.seg
          /\ t.image = st.image /\ t.argv = st.argv /\ t.brk = st.brk /\ t.exec = st.exec
          /\ t.astr = at /\ t.esp = Elf!Aligned(at[1]) - 8 - 4 - 4 * (n + 1) - 4
      BY <2>1, <2>2 DEF LoadInv, LoadTypes
    <2>4. LoadTypes(t) /\ ArgsFit(t)
      BY <2>3 DEF LoadInv, LoadTypes, ArgsFit
    <2>5. InHeaders(t) /\ InSegment(t) /\ InBounds(t)
      BY <1>1, <2>3 DEF LoadInv, InHeaders, InSegment, InBounds, Running
    <2>6. BytesHold(t)
      BY <1>1, <2>3 DEF LoadInv, BytesHold, Running, Reached
    <2>7. /\ DOMAIN at = 1..n /\ \A i \in 1..n : at[i] \in Int
          /\ \A i \in 1..n :
                 at[i] = (IF i = n THEN STACK + STACK_SIZE ELSE at[i + 1]) - Elf!Length(st.argv, i)
      <3>1. ARG_MAX + 1 \in Nat
        BY ElfSizes
      <3> QED
        BY <1>2, <1>4, <3>1, StringsAre DEF LoadInv, LoadTypes
    <2>8. ASSUME NEW i \in 1..n
          PROVE  at[i] + Elf!Length(st.argv, i) <= IF i = n THEN STACK + STACK_SIZE ELSE at[i + 1]
      <3>1. Elf!Length(st.argv, i) \in Nat
        BY <1>3, LengthIs DEF LoadInv, LoadTypes
      <3>2. STACK + STACK_SIZE \in Int /\ (i # n => i + 1 \in 1..n)
        BY <1>3, ElfSizes
      <3>3. PICK y \in Int : y = IF i = n THEN STACK + STACK_SIZE ELSE at[i + 1]
        BY <2>7, <3>2
      <3>4. at[i] \in Int /\ at[i] = y - Elf!Length(st.argv, i)
        BY <2>7, <3>3
      <3> QED
        BY <3>1, <3>3, <3>4
    <2>9. PICK v \in Int : v = at[1] /\ v >= STACK + RESERVED
      <3>1. 1 \in 1..n /\ STACK + RESERVED \in Int
        BY <1>3, ElfSizes
      <3> QED
        BY <1>6, <2>7, <3>1
    <2>10. PICK e \in Int : e = t.esp /\ e = v - (v % 4) - 8 - 4 - 4 * (n + 1) - 4
      BY <1>3, <2>3, <2>9 DEF Elf!Aligned
    <2>11. e >= STACK /\ e % 4 = 0 /\ e + 4 + 4 * (n + 1) + 4 + 8 <= v
      <3>1. STACK \in Nat /\ RESERVED \in Nat /\ MAX_ARGS \in Nat /\ RESERVED >= 4 * (MAX_ARGS + 1) + 19
        BY ElfSizes
      <3>2. PICK m \in 0..3 : m = v % 4
        OBVIOUS
      <3>3. e = v - m - 4 * n - 20 /\ v >= STACK + RESERVED
        BY <1>3, <2>9, <2>10, <3>2
      <3>4. e >= STACK
        BY <1>3, <3>1, <3>3
      <3>5. e + 4 + 4 * (n + 1) + 4 + 8 <= v
        BY <1>3, <3>3
      <3>6. e % 4 = 0
        BY <1>3, <2>10
      <3> QED
        BY <3>4, <3>5, <3>6
    <2>12. StackBuilt(t)
      BY <1>2, <2>3, <2>7, <2>8, <2>9, <2>10, <2>11 DEF StackBuilt
    <2> QED
      BY <2>2, <2>4, <2>5, <2>6, <2>12 DEF LoadInv
  <1> QED
    BY <1>5, <1>6

LEMMA LoadNext == LoadInv(st) /\ Elf!Next => LoadInv(st')
  <1> SUFFICES ASSUME LoadInv(st), Elf!Next PROVE LoadInv(st')
    OBVIOUS
  <1>1. ASSUME Elf!NoPage PROVE LoadInv(st')
    BY <1>1, FailKeeps DEF Elf!NoPage
  <1>2. ASSUME UNCHANGED st PROVE LoadInv(st')
    BY <1>2
  <1> QED
    BY <1>1, <1>2, ParseKeeps, SegmentKeeps, PageKeeps, SegmentEndKeeps, BuildStackKeeps DEF Elf!Next

LEMMA LoadShows == LoadInv(st) => Elf!Faithful /\ Elf!StackInPage
  <1> SUFFICES ASSUME LoadInv(st) PROVE Elf!Faithful /\ Elf!StackInPage
    OBVIOUS
  <1>1. ASSUME st.phase = "ready", Elf!PagesApart(st.image)
        PROVE  /\ \A i \in Elf!Loads(st.image) :
                     Elf!Spans(st.image.ph[i]) => \A k \in 0..st.image.ph[i].memsz - 1 :
                       st.mem[st.image.ph[i].vaddr + k] = ByteOf(st.image, st.image.ph[i], k)
               /\ \A a \in DOMAIN st.mem : a \in MIN..st.brk - 1 /\ st.mem[a] < st.image.len
               /\ st.brk % PAGE_SIZE = 0
    <2>1. st.seg = Len(st.image.ph) /\ DOMAIN st.image.ph = 1..Len(st.image.ph)
      BY <1>1, ImageIs DEF LoadInv, LoadTypes, InHeaders
    <2>2. ASSUME NEW i \in Elf!Loads(st.image), NEW k \in 0..st.image.ph[i].memsz - 1,
                 Elf!Spans(st.image.ph[i])
          PROVE  Holds(st.mem, st.image, st.image.ph[i], k)
      <3>1. Reached(st, i, k)
        BY <2>1 DEF Elf!Loads, Reached
      <3> QED
        BY <1>1, <2>2, <3>1 DEF LoadInv, BytesHold, Running
    <2>3. ASSUME NEW a \in DOMAIN st.mem PROVE a \in MIN..st.brk - 1 /\ st.mem[a] < st.image.len
      <3>1. a \in Int /\ MIN <= a /\ a < st.brk /\ st.mem[a] < st.image.len
        BY <1>1 DEF LoadInv, InBounds
      <3>2. st.brk \in Nat /\ MIN \in Nat
        BY ElfSizes DEF LoadInv, LoadTypes
      <3> QED
        BY <3>1, <3>2
    <2> QED
      BY <2>2, <2>3 DEF LoadInv, LoadTypes, Holds
  <1>2. ASSUME st.phase = "ready", NEW i \in Elf!Loads(st.image), NEW k \in 0..st.image.ph[i].memsz - 1
        PROVE  ByteOf(st.image, st.image.ph[i], k) =
                   IF k >= st.image.ph[i].filesz THEN Elf!ZERO
                   ELSE IF Elf!OfFile(st.image.ph[i]) THEN st.image.ph[i].off + k
                   ELSE Elf!Source(st.image, st.image.ph[i].off + k)
    <2>1. st.image \in Images /\ Elf!Accepted(st.image) /\ i \in 1..Len(st.image.ph) /\ st.image.ph[i].load
      BY <1>2, ImageIs DEF Elf!Loads, LoadInv, LoadTypes, InHeaders, Running
    <2>2. PICK p \in Elf!Header : p = st.image.ph[i]
      BY <2>1, ImageIs
    <2>3. p.off \in Nat /\ p.filesz \in Nat /\ p.memsz \in Nat /\ k \in Nat
      BY <2>2, HeaderIs
    <2>4. ASSUME k < p.filesz, Elf!OfFile(p) PROVE Elf!Source(st.image, p.off + k) = p.off + k
      <3>1. PICK e \in Nat : e = p.off + p.filesz /\ e < WORD
        BY <2>3, <2>4 DEF Elf!OfFile
      <3>2. e % WORD = e
        BY <3>1, IsWord
      <3>3. e <= st.image.len
        BY <2>1, <2>2, <3>1, <3>2, AcceptedIs
      <3>4. PICK x \in Nat : x = p.off + k /\ x < e
        BY <2>3, <2>4, <3>1
      <3>5. x < WORD
        BY <3>1, <3>4, ElfSizes
      <3>6. x % WORD = x
        BY <3>5, IsWord
      <3>7. x < st.image.len
        BY <2>1, <3>1, <3>3, <3>4, ImageIs
      <3> QED
        BY <3>4, <3>6, <3>7 DEF Elf!Source
    <2> QED
      BY <2>2, <2>3, <2>4 DEF ByteOf, Elf!ZERO
  <1>21. Elf!Faithful
    BY <1>1, <1>2 DEF Elf!Faithful
  <1>3. PICK n : n = Elf!Counted(st.argv)
    OBVIOUS
  <1>4. ASSUME st.exec, NEW i \in 1..n PROVE Elf!Strings(st.argv)[i] >= STACK + RESERVED
    <2>1. st.argv \in Seq(Nat) /\ Len(st.argv) \in 1..MAX_ARGS - 1 /\ \A j \in 1..Len(st.argv) : st.argv[j] <= ARG_MAX
      BY <1>4 DEF LoadInv, LoadTypes, ArgsFit
    <2>2. n \in Nat /\ n <= MAX_ARGS - 1 /\ MAX_ARGS \in Nat
      BY <1>3, <2>1, CountedIs, ElfSizes
    <2>3. PICK A \in Nat : A = ARG_MAX + 1 /\ (MAX_ARGS - 1) * A + RESERVED <= STACK_SIZE
      BY ElfSizes
    <2>4. PICK v \in Int : v = Elf!Strings(st.argv)[i] /\ v >= STACK + STACK_SIZE - (n + 1 - i) * A
      BY <1>3, <2>1, <2>3, StringsAre
    <2>5. PICK x \in Nat : x = n + 1 - i /\ x <= MAX_ARGS - 1
      BY <2>2
    <2>6. PICK y \in Nat : y = MAX_ARGS - 1 /\ x <= y
      BY <2>2, <2>5
    <2>7. x * A \in Nat /\ y * A \in Nat /\ x * A <= y * A
      BY <2>5, <2>6
    <2>8. STACK \in Nat /\ STACK_SIZE \in Nat /\ RESERVED \in Nat
      BY ElfSizes
    <2>9. PICK b \in Nat : b = x * A
      BY <2>7
    <2>10. PICK c \in Nat : c = y * A
      BY <2>7
    <2>11. b <= c /\ c + RESERVED <= STACK_SIZE /\ v >= STACK + STACK_SIZE - b
      BY <2>3, <2>4, <2>5, <2>6, <2>7, <2>9, <2>10
    <2> QED
      BY <2>4, <2>8, <2>11
  <1>5. Elf!StackInPage
    BY <1>3, <1>4 DEF Elf!StackInPage, LoadInv, StackBuilt
  <1> QED
    BY <1>21, <1>5

-----------------------------------------------------------------------------
\* A program that is ready finds its segments byte for byte as its header says, its heap
\* behind them, and its arguments within the stack page: for any page size, layout and
\* arguments and for a header of any words, whose sums wrap as the code's do.  Named in
\* Faithful and left out: images with two segments on a page, and a segment whose end wraps.
THEOREM ProgramsAreRight == ProgramSpec => []ProgramsRight
  <1>1. InitProgram => LoadInv(st) /\ part = "elf"
    BY LoadInit DEF InitProgram
  <1>2. LoadInv(st) /\ part = "elf" /\ [NextProgram]_<<part, st>> => (LoadInv(st) /\ part = "elf")'
    <2> SUFFICES ASSUME LoadInv(st), part = "elf", [NextProgram]_<<part, st>>
                 PROVE  LoadInv(st)' /\ part' = "elf"
      OBVIOUS
    <2>1. LoadInv(st') /\ part' = "elf"
      BY LoadNext DEF NextProgram
    <2> QED
      BY <2>1
  <1>3. LoadInv(st) => ProgramsRight
    BY LoadShows DEF ProgramsRight
  <1> QED
    BY <1>1, <1>2, <1>3, PTL DEF ProgramSpec
=============================================================================
