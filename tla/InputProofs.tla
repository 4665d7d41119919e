---------------------------- MODULE InputProofs ----------------------------
(***************************************************************************)
(* For a ring of any size and any packets: kb_count, the order of the keys,*)
(* the assembly of the packets and the motion, over every interleaving of  *)
(* IRQ 1 and IRQ 12 with a frame.                                          *)
(***************************************************************************)
EXTENDS Input, TLAPS

-----------------------------------------------------------------------------
(* Slots of the ring are numbers modulo its size.                          *)

LEMMA Divided ==
    ASSUME NEW n \in Nat
    PROVE  n \div Size \in Int /\ n % Size \in 0..Size - 1 /\ n = Size * (n \div Size) + (n % Size)
  BY SizeAssumption

\* The quotient and the remainder are the only ones.
LEMMA OneRemainder ==
    ASSUME NEW q \in Int, NEW r \in 0..Size - 1, Size * q + r \in Nat
    PROVE  (Size * q + r) % Size = r
  <1> DEFINE n == Size * q + r
             p == n \div Size
             s == n % Size
  <1>1. n \in Nat /\ p \in Int /\ s \in 0..Size - 1 /\ n = Size * p + s
    BY Divided
  <1> HIDE DEF p, s
  <1>2. ASSUME NEW d \in Int, d >= 1 PROVE Size * d >= Size
    BY <1>2, SizeAssumption
  <1>3. Size \in Int /\ Size * (p - q) = Size * p - Size * q /\ Size * (q - p) = Size * q - Size * p
    BY <1>1, SizeAssumption
  <1>4. Size * (p - q) = r - s /\ Size * (q - p) = s - r
    BY <1>1, <1>3
  <1>5. p - q \in Int /\ q - p \in Int /\ r - s < Size /\ s - r < Size
    BY <1>1, SizeAssumption
  <1>6. ~(p - q >= 1)
    BY <1>2, <1>3, <1>4, <1>5
  <1>7. ~(q - p >= 1)
    BY <1>2, <1>3, <1>4, <1>5
  <1>8. p = q /\ r = s
    BY <1>1, <1>4, <1>6, <1>7
  <1> QED
    BY <1>8 DEF s

LEMMA NextSlot ==
    ASSUME NEW n \in Nat
    PROVE  ((n % Size) + 1) % Size = (n + 1) % Size
  <1> DEFINE p == n \div Size
             s == n % Size
  <1>1. p \in Int /\ s \in 0..Size - 1 /\ n = Size * p + s
    BY Divided
  <1> HIDE DEF p, s
  <1>2. CASE s + 1 < Size
    <2>1. n + 1 = Size * p + (s + 1) /\ s + 1 = Size * 0 + (s + 1)
      BY <1>1, SizeAssumption
    <2>2. s + 1 \in 0..Size - 1 /\ 0 \in Int /\ s + 1 \in Nat /\ n + 1 \in Nat
      BY <1>1, <1>2, SizeAssumption
    <2>3. (n + 1) % Size = s + 1 /\ (s + 1) % Size = s + 1
      BY <1>1, <2>1, <2>2, OneRemainder
    <2> QED
      BY <2>3 DEF s
  <1>3. CASE s + 1 = Size
    <2>1. n + 1 = Size * (p + 1) + 0 /\ s + 1 = Size * 1 + 0
      BY <1>1, <1>3, SizeAssumption
    <2>2. 0 \in 0..Size - 1 /\ 1 \in Int /\ p + 1 \in Int /\ n + 1 \in Nat /\ s + 1 \in Nat
      BY <1>1, SizeAssumption
    <2>3. (n + 1) % Size = 0
      BY ONLY <2>1, <2>2, OneRemainder
    <2>4. (s + 1) % Size = 0
      BY ONLY <2>1, <2>2, OneRemainder
    <2> QED
      BY ONLY <2>3, <2>4 DEF s
  <1> QED
    BY <1>1, <1>2, <1>3, SizeAssumption

\* Two keys fewer than Size apart are in different slots.
LEMMA SlotsApart ==
    ASSUME NEW a \in Nat, NEW b \in Nat, b < a, a - b < Size
    PROVE  a % Size # b % Size
  <1> SUFFICES ASSUME a % Size = b % Size PROVE FALSE
    OBVIOUS
  <1> DEFINE p == a \div Size
             q == b \div Size
             s == a % Size
  <1>1. p \in Int /\ q \in Int /\ s \in 0..Size - 1 /\ a = Size * p + s /\ b = Size * q + s
    BY Divided
  <1> HIDE DEF p, q, s
  <1>2. ASSUME NEW d \in Int PROVE /\ d >= 1 => Size * d >= Size
                                   /\ d <= 0 => Size * d <= 0
    BY <1>2, SizeAssumption
  <1>3. Size \in Int /\ Size * (p - q) = Size * p - Size * q
    BY <1>1, SizeAssumption
  <1>4. Size * (p - q) = a - b /\ p - q \in Int
    BY <1>1, <1>3
  <1> QED
    BY <1>2, <1>3, <1>4

-----------------------------------------------------------------------------
(* The inductive invariant.                                                *)

Before == {"getchar", "head", "load", "store", "readx"}    \* dx not loaded yet
Labels == Before \cup {"ready", "zerox", "zeroy", "move"}

KeyTypes ==
    /\ kb \in [0..Size - 1 -> Nat]
    /\ count \in 0..Size /\ tmp \in 0..Size /\ key \in Int
    /\ pushed \in Nat /\ popped \in Nat /\ lag \in Nat /\ most \in Nat
    /\ pc \in Labels

\* head and tail are those of the next keys, and the ring holds the last Size of
\* the keys that were not taken.
Ring ==
    /\ head = popped % Size /\ tail = pushed % Size
    /\ popped <= pushed /\ Pending <= most
    /\ \A k \in Nat : popped < k /\ k <= pushed /\ pushed - k < Size => kb[(k - 1) % Size] = k

\* The count while getchar is under way.
Counts ==
    /\ pc \notin {"load", "store"} => count = Pending - lag
    /\ pc = "head" => count >= 1
    /\ pc = "load" => count = Pending - lag + 1 /\ count >= 1
    /\ pc = "store" => tmp = Pending - lag + 1 /\ tmp >= 1

Taken ==
    lag = 0 \/ most <= Size =>
        /\ pc = "head" => key = popped + 1
        /\ pc \in {"load", "store"} => key = popped

KeyInv == KeyTypes /\ Ring /\ Counts /\ Taken

MouseTypes ==
    /\ mouse \in [x : Int, dx : Int, y : Int, dy : Int, left : BOOLEAN]
    /\ cursor \in [x : Int, y : Int] /\ dropped \in [x : Int, y : Int]
    /\ mdx \in Int /\ mdy \in Int
    /\ packet \in [1..3 -> 0..255] /\ cycle \in 0..2
    /\ dev \in Packets /\ at \in 0..3

Quiet == clean /\ ~Bit3(dev[2]) /\ ~Bit3(dev[3])

\* Two quiet bytes end the packet that was under way.
Assembly ==
    /\ at = 3 /\ Quiet => cycle \in {0, 2}
    /\ at = 0 /\ sent > 0 /\ Quiet => cycle = 0

Motion ==
    /\ MotionConserved
    /\ pc \in Before => mdx = 0
    /\ pc \in Before \cup {"ready"} => mdy = 0

MouseInv == MouseTypes /\ Assembly /\ Motion /\ sent \in Nat

IInv == KeyInv /\ MouseInv

LEMMA Start == InputInit => IInv
  <1> SUFFICES ASSUME InputInit PROVE IInv
    OBVIOUS
  <1>1. 0 % Size = 0
    BY SizeAssumption, Divided, OneRemainder
  <1>2. KeyTypes /\ Counts /\ Taken
    BY SizeAssumption DEF InputInit, KeyTypes, Labels, Before, Counts, Taken, Pending
  <1>3. Ring
    BY <1>1 DEF InputInit, Ring, Pending
  <1>4. MouseTypes
    BY DEF InputInit, MouseTypes
  <1>5. Assembly
    BY DEF InputInit, Assembly, Quiet
  <1>6. Motion
    BY DEF InputInit, Motion, MotionConserved, Waiting
  <1>7. sent \in Nat
    BY DEF InputInit
  <1> QED
    BY <1>2, <1>3, <1>4, <1>5, <1>6, <1>7 DEF IInv, KeyInv, MouseInv

-----------------------------------------------------------------------------
(* The keys.                                                               *)

\* IRQ 1 stores a key, wherever the frame is.
LEMMA PushKeeps ==
    ASSUME KeyInv, Push, UNCHANGED <<head, key, tmp, popped, pc>>
    PROVE  KeyInv'
  <1>1. CASE ~HasRoom
    <2>1. UNCHANGED <<kb, tail, count, pushed, most, lag>>
      BY <1>1 DEF Push
    <2> QED
      BY <2>1 DEF KeyInv, KeyTypes, Ring, Counts, Taken, Pending
  <1>2. CASE HasRoom
    <2>1. /\ kb' = [kb EXCEPT ![tail] = pushed + 1]
          /\ tail' = (tail + 1) % Size
          /\ count' = count + 1
          /\ pushed' = pushed + 1
          /\ most' = IF Pending + 1 > most THEN Pending + 1 ELSE most
          /\ lag' = IF pc = "store" THEN lag + 1 ELSE lag
          /\ count < Size
      BY <1>2 DEF Push, Slot, HasRoom
    <2>2. /\ KeyTypes /\ Ring /\ Counts /\ Taken
          /\ UNCHANGED <<head, key, tmp, popped, pc>>
      BY DEF KeyInv
    <2>3. pushed % Size \in 0..Size - 1 /\ tail = pushed % Size
      BY <2>2, Divided DEF KeyTypes, Ring
    <2>4. KeyTypes'
      BY <2>1, <2>2, <2>3, SizeAssumption DEF KeyTypes, Pending
    <2>5. Ring'
      <3>1. tail' = pushed' % Size
        BY <2>1, <2>2, <2>3, NextSlot DEF KeyTypes
      <3>2. /\ head' = popped' % Size
            /\ popped' <= pushed' /\ Pending' <= most'
        BY <2>1, <2>2 DEF KeyTypes, Ring, Pending
      <3>3. ASSUME NEW k \in Nat, popped' < k, k <= pushed', pushed' - k < Size
            PROVE  kb'[(k - 1) % Size] = k
        <4>0. popped' = popped /\ pushed' = pushed + 1 /\ popped \in Nat /\ pushed \in Nat
          BY <2>1, <2>2 DEF KeyTypes
        <4> popped < k /\ k <= pushed + 1 /\ pushed + 1 - k < Size
          BY <3>3, <4>0
        <4>1. CASE k = pushed + 1
          BY <2>1, <2>2, <2>3, <4>1 DEF KeyTypes
        <4>2. CASE k # pushed + 1
          <5> pushed \in Nat /\ popped \in Nat /\ Size \in Nat
            BY <2>2, SizeAssumption DEF KeyTypes
          <5>1. k <= pushed /\ pushed - k < Size /\ k - 1 \in Nat /\ k - 1 < pushed
                /\ pushed - (k - 1) < Size
            BY <4>2
          <5>2. (k - 1) % Size # pushed % Size /\ (k - 1) % Size \in 0..Size - 1
            BY <2>2, <5>1, SlotsApart, Divided DEF KeyTypes
          <5>3. kb[(k - 1) % Size] = k
            BY <2>2, <5>1 DEF Ring
          <5> QED
            BY <2>1, <2>2, <2>3, <5>2, <5>3 DEF KeyTypes
        <4> QED
          BY <4>1, <4>2
      <3> QED
        BY <3>1, <3>2, <3>3 DEF Ring
    <2>6. Counts'
      BY <2>1, <2>2 DEF KeyTypes, Counts, Pending
    <2>7. Taken'
      <3>1. lag' = 0 \/ most' <= Size => lag = 0 \/ most <= Size
        BY <2>1, <2>2, SizeAssumption DEF KeyTypes, Pending
      <3> QED
        BY <2>2, <3>1 DEF Taken
    <2> QED
      BY <2>4, <2>5, <2>6, <2>7 DEF KeyInv
  <1> QED
    BY <1>1, <1>2

\* A key press and the other scancodes.
LEMMA Irq1Keeps ==
    ASSUME KeyInv, NEW code, Irq1(code)
    PROVE  KeyInv'
  <1>1. UNCHANGED <<head, key, tmp, popped, pc>>
    BY DEF Irq1
  <1>2. CASE Push
    BY <1>1, <1>2, PushKeeps
  <1>3. CASE UNCHANGED <<kb, tail, count, pushed, most, lag>>
    BY <1>1, <1>3 DEF KeyInv, KeyTypes, Ring, Counts, Taken, Pending
  <1> QED
    BY <1>2, <1>3 DEF Irq1

\* getchar takes the key at head; the count says that there is one.
LEMMA GetKeeps ==
    ASSUME KeyInv, GetEmpty \/ GetSlot \/ GetHead \/ GetLoad \/ GetStore
    PROVE  KeyInv'
  <1>1. KeyTypes /\ Ring /\ Counts /\ Taken
    BY DEF KeyInv
  <1>2. CASE GetEmpty
    <2>1. UNCHANGED <<kb, head, tail, count, tmp, pushed, popped, lag, most>>
          /\ pc = "getchar" /\ pc' = "readx" /\ key' = -1
      BY <1>2 DEF GetEmpty, kbVars
    <2> QED
      BY <1>1, <2>1 DEF KeyInv, KeyTypes, Ring, Counts, Taken, Pending, Labels, Before
  <1>3. CASE GetSlot
    <2>1. UNCHANGED <<kb, head, tail, count, tmp, pushed, popped, lag, most>>
          /\ pc = "getchar" /\ pc' = "head" /\ key' = kb[head] /\ count # 0
      BY <1>3 DEF GetSlot, kbVars
    <2>2. count = Pending - lag /\ count \in 1..Size /\ popped + 1 \in Nat
          /\ popped < popped + 1 /\ popped + 1 <= pushed
      BY <1>1, <2>1 DEF Counts, KeyTypes, Pending
    <2>3. KeyTypes'
      <3>1. head \in 0..Size - 1
        BY <1>1, Divided DEF Ring, KeyTypes
      <3> QED
        BY <1>1, <2>1, <3>1 DEF KeyTypes, Labels, Before
    <2>4. Taken'
      <3>1. SUFFICES ASSUME lag = 0 \/ most <= Size PROVE key' = popped + 1
        BY <2>1 DEF Taken
      <3>2. pushed - (popped + 1) < Size
        BY <1>1, <2>2, <3>1, SizeAssumption DEF KeyTypes, Ring, Pending
      <3>3. kb[((popped + 1) - 1) % Size] = popped + 1
        BY <1>1, <2>2, <3>2 DEF Ring
      <3>4. (popped + 1) - 1 = popped
        BY <1>1 DEF KeyTypes
      <3> QED
        BY <1>1, <2>1, <3>3, <3>4 DEF Ring
    <2> QED
      BY <1>1, <2>1, <2>2, <2>3, <2>4 DEF KeyInv, Ring, Counts, Pending
  <1>4. CASE GetHead
    <2>1. UNCHANGED <<kb, tail, count, tmp, key, pushed, lag, most>>
          /\ pc = "head" /\ pc' = "load" /\ popped' = popped + 1 /\ head' = (head + 1) % Size
      BY <1>4 DEF GetHead
    <2>2. count = Pending - lag /\ count >= 1
      BY <1>1, <2>1 DEF Counts
    <2>3. KeyTypes'
      BY <1>1, <2>1 DEF KeyTypes, Labels, Before
    <2>4. Ring'
      <3>1. head' = popped' % Size
        BY <1>1, <2>1, NextSlot DEF KeyTypes, Ring
      <3>2. tail' = pushed' % Size /\ popped' <= pushed' /\ Pending' <= most'
        BY <1>1, <2>1, <2>2 DEF KeyTypes, Ring, Pending
      <3>3. ASSUME NEW k \in Nat, popped' < k, k <= pushed', pushed' - k < Size
            PROVE  kb'[(k - 1) % Size] = k
        <4>1. popped < k /\ k <= pushed /\ pushed - k < Size
          BY <1>1, <2>1, <3>3 DEF KeyTypes
        <4> QED
          BY <1>1, <2>1, <4>1 DEF Ring
      <3> QED
        BY <3>1, <3>2, <3>3 DEF Ring
    <2>5. Counts'
      BY <1>1, <2>1, <2>2 DEF KeyTypes, Counts, Pending
    <2>6. Taken'
      BY <1>1, <2>1 DEF KeyTypes, Taken
    <2> QED
      BY <2>3, <2>4, <2>5, <2>6 DEF KeyInv
  <1>5. CASE GetLoad
    <2>1. UNCHANGED <<kb, head, tail, count, key, pushed, popped, lag, most>>
          /\ pc = "load" /\ pc' = "store" /\ tmp' = count
      BY <1>5 DEF GetLoad, kbVars
    <2> QED
      BY <1>1, <2>1 DEF KeyInv, KeyTypes, Ring, Counts, Taken, Pending, Labels, Before
  <1>6. CASE GetStore
    <2>1. UNCHANGED <<kb, head, tail, key, tmp, pushed, popped, lag, most>>
          /\ pc = "store" /\ pc' = "readx" /\ count' = tmp - 1
      BY <1>6 DEF GetStore, Less, getVars
    <2>2. tmp - 1 = Pending - lag /\ tmp - 1 \in 0..Size
      BY <1>1, <2>1, SizeAssumption DEF KeyTypes, Counts, Pending
    <2> QED
      BY <1>1, <2>1, <2>2 DEF KeyInv, KeyTypes, Ring, Counts, Taken, Pending, Labels, Before
  <1> QED
    BY <1>2, <1>3, <1>4, <1>5, <1>6

\* The rest of the frame leaves the ring alone.
LEMMA ElsewhereKeeps ==
    ASSUME KeyInv, UNCHANGED <<kbVars, getVars>>,
           \/ pc' = pc
           \/ /\ pc \notin {"head", "load", "store"}
              /\ pc' \in Labels \ {"head", "load", "store"}
    PROVE  KeyInv'
  BY DEF KeyInv, KeyTypes, Ring, Counts, Taken, Pending, kbVars, getVars

-----------------------------------------------------------------------------
(* The mouse.                                                              *)

\* What a step leaves of Motion: the waiting motion depends on pc by two sets only.
LEMMA KeyStepsKeepMouse ==
    ASSUME MouseInv, UNCHANGED <<mouseVars, moveVars, dropped>>,
           pc' = pc \/ (pc \in Before /\ pc' \in Before)
    PROVE  MouseInv'
  <1>1. UNCHANGED <<mouse, packet, cycle, dev, at, sent, lost, clean, mdx, mdy, cursor, prev,
                    dropped>>
    BY DEF mouseVars, moveVars
  <1>2. MouseTypes' /\ Assembly' /\ sent' \in Nat
    BY <1>1 DEF MouseInv, MouseTypes, Assembly, Quiet
  <1>3. Motion'
    BY <1>1 DEF MouseInv, Motion, MotionConserved, Waiting, Before
  <1> QED
    BY <1>2, <1>3 DEF MouseInv

LEMMA Clamped ==
    ASSUME NEW v \in Int
    PROVE  Limited(v) \in Int /\ Excess(v) \in Int /\ Excess(v) + Limited(v) = v
  BY SizeAssumption DEF Limited, Excess

\* The third byte of a packet: what is not dropped is in dx and dy.
LEMMA AccumulateKeeps ==
    ASSUME MouseTypes, Motion, NEW dx \in Int, NEW dy \in Int, Accumulate(dx, dy),
           UNCHANGED <<mdx, mdy, cursor, pc>>
    PROVE  /\ Motion'
           /\ mouse' \in [x : Int, dx : Int, y : Int, dy : Int, left : BOOLEAN]
           /\ dropped' \in [x : Int, y : Int]
  <1> DEFINE ex == Excess(mouse.dx + dx)
             cx == Limited(mouse.dx + dx)
             ey == Excess(mouse.dy - dy)
             cy == Limited(mouse.dy - dy)
  <1>1. /\ mouse.x \in Int /\ mouse.dx \in Int /\ mouse.y \in Int /\ mouse.dy \in Int
        /\ cursor.x \in Int /\ cursor.y \in Int /\ dropped.x \in Int /\ dropped.y \in Int
        /\ mdx \in Int /\ mdy \in Int
    BY DEF MouseTypes
  <1>2. mouse.dx + dx \in Int /\ mouse.dy - dy \in Int /\ mouse.dy + -dy = mouse.dy - dy
    BY <1>1
  <1>3. /\ ex \in Int /\ cx \in Int /\ ex + cx = mouse.dx + dx
        /\ ey \in Int /\ cy \in Int /\ ey + cy = mouse.dy - dy
    BY <1>2, Clamped
  <1>4. /\ mouse' = [x |-> mouse.x + dx, dx |-> cx, y |-> mouse.y - dy, dy |-> cy,
                     left |-> Left(packet[1])]
        /\ dropped' = [x |-> dropped.x + IF pc \in {"ready", "zerox"} THEN dx ELSE ex,
                       y |-> dropped.y + IF pc \in {"zerox", "zeroy"} THEN -dy ELSE ey]
    BY <1>2 DEF Accumulate, Sum
  <1> HIDE DEF ex, cx, ey, cy
  <1>5. /\ mouse' \in [x : Int, dx : Int, y : Int, dy : Int, left : BOOLEAN]
        /\ dropped' \in [x : Int, y : Int]
    BY <1>1, <1>3, <1>4 DEF Left
  <1>6. mouse.x + dx = cursor.x + mdx + dropped'.x + Waiting(cx, {"ready", "zerox"})
    BY <1>1, <1>3, <1>4 DEF Motion, MotionConserved, Waiting
  <1>7. mouse.y - dy = cursor.y + mdy + dropped'.y + Waiting(cy, {"zerox", "zeroy"})
    BY <1>1, <1>3, <1>4 DEF Motion, MotionConserved, Waiting
  <1>8. MotionConserved'
    BY <1>4, <1>6, <1>7 DEF MotionConserved, Waiting
  <1> QED
    BY <1>5, <1>8 DEF Motion

\* A byte that arrives.
LEMMA SendKeeps ==
    ASSUME MouseInv, SendByte
    PROVE  MouseInv'
  <1> DEFINE b == dev[at]
  <1>1. /\ MouseTypes /\ Assembly /\ Motion /\ sent \in Nat
        /\ at \in 1..3 /\ at' = (at + 1) % 4
        /\ UNCHANGED <<dev, sent, clean, mdx, mdy, cursor, pc>>
    BY DEF MouseInv, MouseTypes, SendByte, moveVars
  <1>2. b \in 0..255 /\ at' \in 0..3 /\ (at' = 3 <=> at = 2) /\ (at' = 0 <=> at = 3)
    BY <1>1, PacketsAssumption DEF MouseTypes
  <1>3. CASE cycle = 0 /\ ~Sync(b)
    <2>1. UNCHANGED <<mouse, packet, cycle, dropped>>
      BY <1>3 DEF SendByte, Irq12
    <2> QED
      BY <1>1, <1>2, <1>3, <2>1
      DEF MouseInv, MouseTypes, Assembly, Quiet, Motion, MotionConserved, Waiting
  <1>4. CASE (cycle = 0 /\ Sync(b)) \/ cycle = 1
    <2>1. packet' = [packet EXCEPT ![cycle + 1] = b] /\ cycle' = cycle + 1
          /\ UNCHANGED <<mouse, dropped>>
      BY <1>4 DEF SendByte, Irq12
    <2>2. MouseTypes'
      BY <1>1, <1>2, <1>4, <2>1 DEF MouseTypes
    <2>3. Motion'
      BY <1>1, <2>1 DEF Motion, MotionConserved, Waiting
    <2>4. Assembly'
      BY <1>1, <1>2, <1>4, <2>1 DEF Assembly, Quiet, Sync
    <2> QED
      BY <1>1, <2>2, <2>3, <2>4 DEF MouseInv
  <1>5. CASE cycle = 2
    <2>1. packet' = [packet EXCEPT ![3] = b] /\ cycle' = 0
          /\ Accumulate(Int8(packet[2]), Int8(b))
      BY <1>5 DEF SendByte, Irq12
    <2>2. Int8(packet[2]) \in Int /\ Int8(b) \in Int
      BY <1>1, <1>2 DEF MouseTypes, Int8
    <2>3. /\ Motion'
          /\ mouse' \in [x : Int, dx : Int, y : Int, dy : Int, left : BOOLEAN]
          /\ dropped' \in [x : Int, y : Int]
      BY <1>1, <2>1, <2>2, AccumulateKeeps
    <2>4. MouseTypes'
      BY <1>1, <1>2, <2>1, <2>3 DEF MouseTypes
    <2>5. Assembly'
      BY <2>1 DEF Assembly
    <2> QED
      BY <1>1, <2>3, <2>4, <2>5 DEF MouseInv
  <1> QED
    BY <1>3, <1>4, <1>5 DEF SendByte, Irq12

\* A packet that starts, a byte that is lost: the motion is not touched.
LEMMA DeviceKeeps ==
    ASSUME MouseInv, (\E p \in Packets : StartPacket(p)) \/ LoseByte
    PROVE  MouseInv'
  <1>1. MouseTypes /\ Motion /\ sent \in Nat
        /\ UNCHANGED <<mouse, packet, cycle, dropped, mdx, mdy, cursor, pc>>
    BY DEF MouseInv, StartPacket, LoseByte, moveVars
  <1>2. Motion'
    BY <1>1 DEF Motion, MotionConserved, Waiting
  <1>3. CASE \E p \in Packets : StartPacket(p)
    <2>1. dev' \in Packets /\ at' = 1 /\ sent' = sent + 1
      BY <1>3 DEF StartPacket
    <2> QED
      BY <1>1, <1>2, <2>1 DEF MouseInv, MouseTypes, Assembly
  <1>4. CASE LoseByte
    <2>1. dev' = dev /\ sent' = sent /\ at' = (at + 1) % 4 /\ clean' = FALSE
      BY <1>4 DEF LoseByte
    <2> QED
      BY <1>1, <1>2, <2>1 DEF MouseInv, MouseTypes, Assembly, Quiet
  <1> QED
    BY <1>3, <1>4

\* The frame loads dx and dy, zeroes them, and moves the cursor.
LEMMA MoveKeeps ==
    ASSUME MouseInv, ReadX \/ ReadY \/ ZeroX \/ ZeroY \/ Move
    PROVE  MouseInv'
  <1>1. MouseTypes /\ Assembly /\ Motion /\ sent \in Nat
    BY DEF MouseInv
  <1>2. UNCHANGED <<packet, cycle, dev, at, sent, clean, dropped>>
    BY DEF ReadX, ReadY, ZeroX, ZeroY, Move, mouseVars
  <1>3. Assembly'
    BY <1>1, <1>2 DEF Assembly, Quiet
  <1>4. CASE ReadX
    BY <1>1, <1>2, <1>3, <1>4
    DEF MouseInv, ReadX, mouseVars, MouseTypes, Motion, MotionConserved, Waiting, Before
  <1>5. CASE ReadY
    BY <1>1, <1>2, <1>3, <1>5
    DEF MouseInv, ReadY, mouseVars, MouseTypes, Motion, MotionConserved, Waiting, Before
  <1>6. CASE ZeroX
    BY <1>1, <1>2, <1>3, <1>6
    DEF MouseInv, ZeroX, moveVars, MouseTypes, Motion, MotionConserved, Waiting, Before
  <1>7. CASE ZeroY
    BY <1>1, <1>2, <1>3, <1>7
    DEF MouseInv, ZeroY, moveVars, MouseTypes, Motion, MotionConserved, Waiting, Before
  <1>8. CASE Move
    BY <1>1, <1>2, <1>3, <1>8
    DEF MouseInv, Move, mouseVars, MouseTypes, Motion, MotionConserved, Waiting, Before
  <1> QED
    BY <1>4, <1>5, <1>6, <1>7, <1>8

-----------------------------------------------------------------------------
LEMMA NextKeeps == IInv /\ [InputNext]_inputVars => IInv'
  <1> SUFFICES ASSUME KeyInv, MouseInv, [InputNext]_inputVars PROVE KeyInv' /\ MouseInv'
    BY DEF IInv
  <1>1. ASSUME NEW code, Irq1(code) PROVE KeyInv' /\ MouseInv'
    BY <1>1, Irq1Keeps, KeyStepsKeepMouse DEF Irq1
  <1>2. CASE \E p \in Packets : StartPacket(p)
    <2>1. UNCHANGED <<kbVars, getVars, pc>>
      BY <1>2 DEF StartPacket
    <2> QED
      BY <1>2, <2>1, DeviceKeeps, ElsewhereKeeps
  <1>3. CASE SendByte
    BY <1>3, SendKeeps, ElsewhereKeeps DEF SendByte
  <1>4. CASE LoseByte
    BY <1>4, DeviceKeeps, ElsewhereKeeps DEF LoseByte
  <1>5. CASE GetEmpty \/ GetSlot \/ GetHead \/ GetLoad \/ GetStore
    <2>1. UNCHANGED <<mouseVars, moveVars, dropped>> /\ pc \in Before /\ pc' \in Before
      BY <1>5 DEF GetEmpty, GetSlot, GetHead, GetLoad, GetStore, Before
    <2> QED
      BY <1>5, <2>1, GetKeeps, KeyStepsKeepMouse
  <1>6. CASE ReadX \/ ReadY \/ ZeroX \/ ZeroY \/ Move
    <2>1. /\ UNCHANGED <<kbVars, getVars>>
          /\ pc \notin {"head", "load", "store"}
          /\ pc' \in Labels \ {"head", "load", "store"}
      BY <1>6 DEF ReadX, ReadY, ZeroX, ZeroY, Move, Labels, Before
    <2> QED
      BY <1>6, <2>1, MoveKeeps, ElsewhereKeeps
  <1>7. CASE UNCHANGED inputVars
    BY <1>7, ElsewhereKeeps, KeyStepsKeepMouse DEF inputVars
  <1> QED
    BY <1>1, <1>2, <1>3, <1>4, <1>5, <1>6, <1>7 DEF InputNext, Irq, Frame

LEMMA Always == InputSpec => []IInv
  BY Start, NextKeeps, PTL DEF InputSpec

\* kb_count of keyboard.c, which getchar decrements with interrupts enabled, counts the
\* keys in the ring less the increments it overwrote, for a ring of any size.
THEOREM CountIsExact == InputSpec => []CountExact
  <1>1. IInv => CountExact
    BY DEF IInv, KeyInv, Counts, CountExact
  <1> QED
    BY <1>1, Always, PTL

\* getchar hands out every key once and in order, unless an increment was overwritten
\* and more keys than fit were pending.
THEOREM KeysStayInOrder == InputSpec => []KeysInOrder
  <1>1. IInv => KeysInOrder
    BY DEF IInv, KeyInv, Taken, KeysInOrder
  <1> QED
    BY <1>1, Always, PTL

\* mouse_irq_handler is in step again after one whole packet whose motion bytes do not
\* look like first bytes.
THEOREM PacketsResync == InputSpec => []QuietPacketResyncs
  <1>1. IInv => QuietPacketResyncs
    BY DEF IInv, MouseInv, Assembly, Quiet, QuietPacketResyncs
  <1> QED
    BY <1>1, Always, PTL

\* No motion is lost between mouse_irq_handler and the cursor but in the two places
\* where the code drops it.
THEOREM MotionIsConserved == InputSpec => []MotionConserved
  <1>1. IInv => MotionConserved
    BY DEF IInv, MouseInv, Motion
  <1> QED
    BY <1>1, Always, PTL
=============================================================================
