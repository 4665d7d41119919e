---------------------------- MODULE ProcMemProofs ----------------------------
(***************************************************************************)
(* Proofs about ProcMem for every number of frames and processes, every    *)
(* layout of the address space and every set of images: the type           *)
(* invariant, and the inductive invariant from which the ownership of the  *)
(* pages and the two action properties follow.                             *)
(***************************************************************************)
EXTENDS ProcMem, FiniteSetTheorems, WellFoundedInduction, TLAPS

-----------------------------------------------------------------------------
(* The strengthening.                                                      *)

\* What holds of an address space and its kernel stack at every step, half-built
\* or half-changed: the mapped frames are tracked, none of them is the directory
\* or mapped twice, and no tracked frame is a page table or part of the stack.
Shape(sp, k) ==
    /\ FramesOf(sp, VPages) \subseteq sp.pages \ {sp.pd}
    /\ sp.pd \in sp.pages \cup {NoFrame}
    /\ \A v, w \in VPages : v # w /\ sp.map[v] # NoFrame => sp.map[v] # sp.map[w]
    /\ sp.pages \cap (TableFrames(sp) \cup StackFrames(k)) = {}

Shapes ==
    /\ \A s \in Procs : Shape(space[s], kstack[s])
    /\ \A t \in Threads : Shape(call[t].new, call[t].stack)

\* What a call under way knows of its process, of its loop and of what it builds.
KernelOps == {"idle", "find_elf", "find_user", "create"}
SyscallOps == {"idle", "exec", "brk", "mmap"}
CallIs(c) ==
    /\ c.op \notin {"create", "exec"} => c.new = NoSpace
    /\ c.op # "create" => c.stack = NoFrame
    /\ c.op = "create" => c.who \in Procs /\ state[c.who] = "empty"
    /\ c.op \in {"exec", "brk", "mmap"} => c.who \in Procs /\ state[c.who] = "ready"
    /\ c.op \in {"brk", "mmap"} => c.base <= c.va /\ c.va <= c.end /\ c.end \in VPages
Calls ==
    /\ call["kernel"].op \in KernelOps /\ call["syscall"].op \in SyscallOps
    /\ \A t \in Threads : CallIs(call[t])

\* An empty slot owns nothing.
Slots == \A s \in Procs : state[s] = "empty" => space[s] = NoSpace /\ kstack[s] = NoFrame

IInv == TypeOK /\ Shapes /\ Exclusive /\ Calls /\ Slots

-----------------------------------------------------------------------------
(* The allocator and the operators on an address space.                    *)

LEMMA NatMin ==
    ASSUME NEW S \in SUBSET Nat, S # {}
    PROVE  \E x \in S : \A y \in S : x <= y
  <1> DEFINE R == OpToRel(<, Nat)
  <1>1. IsWellFoundedOn(R, Nat)
    BY NatLessThanWellFounded
  <1>2. \A p \in Nat, q \in Nat : p < q => <<p, q>> \in R
    BY DEF OpToRel
  <1> HIDE DEF R
  <1>3. PICK x \in S : \A y \in S : ~ (<<y, x>> \in R)
    BY <1>1, WFMin
  <1>4. ASSUME NEW y \in S PROVE x <= y
    <2>1. x \in Nat /\ y \in Nat
      OBVIOUS
    <2>2. ~ (y < x)
      BY <2>1, <1>2, <1>3
    <2> QED
      BY <2>1, <2>2
  <1> QED
    BY <1>4

\* alloc_pages fails or returns a free run.
LEMMA FirstFitIs ==
    ASSUME NEW u, NEW n \in Nat
    PROVE  FirstFit(u, n) = NoFrame \/ FreeRun(u, FirstFit(u, n), n)
  <1> DEFINE F == {i \in Frames : FreeRun(u, i, n)}
  <1> SUFFICES ASSUME F # {} PROVE FreeRun(u, FirstFit(u, n), n)
    BY DEF FirstFit
  <1>1. F \in SUBSET Nat
    BY FramesAssumption DEF Frames
  <1>2. PICK i \in F : \A j \in F : i <= j
    BY <1>1, NatMin
  <1> QED
    BY <1>2 DEF FirstFit

\* One page: the bitmap gains the frame that was free, or nothing.
LEMMA OneFrame ==
    ASSUME NEW u \in SUBSET Frames
    PROVE  /\ FirstFit(u, 1) \in MaybeFrame /\ FirstFit(u, 1) \notin u
           /\ AfterAlloc(u, 1) = u \cup ({FirstFit(u, 1)} \ {NoFrame})
           /\ AfterAlloc(u, 1) \in SUBSET Frames
  <1> DEFINE i == FirstFit(u, 1)
  <1>1. i = NoFrame \/ FreeRun(u, i, 1)
    BY FirstFitIs
  <1>2. CASE i = NoFrame
    BY <1>2, FramesAssumption DEF AfterAlloc, MaybeFrame, NoFrame, Frames
  <1>3. CASE i # NoFrame
    <2>1. i \in Frames /\ Run(i, 1) \cap u = {}
      BY <1>1, <1>3 DEF FreeRun
    <2>2. i \in Int
      BY <2>1 DEF Frames
    <2> HIDE DEF i
    <2>3. Run(i, 1) = {i}
      BY <2>2 DEF Run
    <2> USE DEF i
    <2> QED
      BY <1>3, <2>1, <2>3 DEF AfterAlloc, MaybeFrame
  <1> QED
    BY <1>2, <1>3

\* Two pages: the frames of a kernel stack.
LEMMA TwoFrames ==
    ASSUME NEW u \in SUBSET Frames
    PROVE  /\ FirstFit(u, 2) \in MaybeFrame
           /\ StackFrames(FirstFit(u, 2)) \cap u = {}
           /\ AfterAlloc(u, 2) = u \cup StackFrames(FirstFit(u, 2))
           /\ AfterAlloc(u, 2) \in SUBSET Frames
  <1> DEFINE i == FirstFit(u, 2)
  <1>1. i = NoFrame \/ FreeRun(u, i, 2)
    BY FirstFitIs
  <1>2. CASE i = NoFrame
    BY <1>2 DEF AfterAlloc, MaybeFrame, StackFrames
  <1>3. CASE i # NoFrame
    <2>1. i \in Frames /\ Run(i, 2) \cap u = {} /\ i + 2 <= NFRAMES
      BY <1>1, <1>3 DEF FreeRun
    <2>2. i \in Int
      BY <2>1 DEF Frames
    <2> HIDE DEF i
    <2>3. Run(i, 2) = {i, i + 1} /\ {i, i + 1} \subseteq Frames
      BY <2>1, <2>2, FramesAssumption DEF Run, Frames
    <2> USE DEF i
    <2> QED
      BY <1>3, <2>1, <2>3 DEF AfterAlloc, MaybeFrame, StackFrames
  <1> QED
    BY <1>2, <1>3

\* The page tables of a space are as many as its pages at most.
LEMMA TableInside == ASSUME NEW v \in VPages PROVE TableOf(v) \in Tables
  BY LayoutAssumption DEF VPages, Tables, TableOf

\* No frame has the address 0.
LEMMA NoFrameIsNone == NoFrame \notin Frames
  BY FramesAssumption DEF NoFrame, Frames

\* What map_page_in with its allocation does to a well-formed space whose frames
\* are in use: it stays so, keeps what it tracks, and owns nothing more that was
\* in use before.
LEMMA MapOneIs ==
    ASSUME NEW u \in SUBSET Frames, NEW sp \in Space, NEW k \in MaybeFrame, NEW v \in VPages,
           Shape(sp, k), OwnedBy(sp, k) \subseteq u
    PROVE  LET m == MapOne(u, sp, v)
           IN  /\ m.ok \in BOOLEAN /\ m.sp \in Space
               /\ m.used \in SUBSET Frames /\ u \subseteq m.used
               /\ Shape(m.sp, k)
               /\ OwnedBy(m.sp, k) \subseteq m.used
               /\ OwnedBy(m.sp, k) \cap u \subseteq OwnedBy(sp, k)
               /\ sp.pages \subseteq m.sp.pages /\ m.sp.pages \cap u \subseteq sp.pages
               /\ TableFrames(sp) \subseteq TableFrames(m.sp)
  <1> DEFINE f == FirstFit(u, 1)
             u1 == AfterAlloc(u, 1)
             T == TableOf(v)
             old == sp.pt[T]
             t == IF f = NoFrame \/ old # NoFrame THEN old ELSE FirstFit(u1, 1)
             u2 == u1 \cup ({t} \ {NoFrame})
             fits == f # NoFrame /\ t # NoFrame /\ ~Full(sp)
             m == MapOne(u, sp, v)
             pt2 == [sp.pt EXCEPT ![T] = t]
             mapf == [sp.map EXCEPT ![v] = f]
             map0 == [sp.map EXCEPT ![v] = NoFrame]
             spf == [pages |-> sp.pages \cup {f}, pd |-> sp.pd, pt |-> pt2, map |-> mapf]
             sp0 == [pages |-> sp.pages, pd |-> sp.pd, pt |-> pt2, map |-> map0]
  <1>1. /\ sp = [pages |-> sp.pages, pd |-> sp.pd, pt |-> sp.pt, map |-> sp.map]
        /\ sp.pages \in SUBSET Frames /\ sp.pd \in MaybeFrame
        /\ sp.pt \in [Tables -> MaybeFrame] /\ sp.map \in [VPages -> MaybeFrame]
    BY DEF Space
  <1>2. T \in Tables
    BY TableInside
  <1>3. /\ f \in MaybeFrame /\ f \notin u
        /\ u1 = u \cup ({f} \ {NoFrame}) /\ u1 \in SUBSET Frames
    BY OneFrame
  <1>4. old \in MaybeFrame /\ (old # NoFrame => old \in u)
    BY <1>1, <1>2 DEF OwnedBy, TableFrames
  <1>5. /\ t \in MaybeFrame
        /\ t = old \/ (t \notin u1)
        /\ f # NoFrame => t # f
    BY <1>3, <1>4, OneFrame DEF MaybeFrame
  <1>6. m.ok = fits /\ m.used = (IF fits THEN u2 ELSE u2 \ {f})
    BY DEF MapOne, AfterFree
  <1>7. m.sp = IF fits THEN [sp EXCEPT !.pages = @ \cup {f}, !.pt[T] = t, !.map[v] = f]
               ELSE IF f # NoFrame /\ t # NoFrame
               THEN [sp EXCEPT !.pt[T] = t, !.map[v] = NoFrame] ELSE sp
    BY DEF MapOne
  <1>8. m.sp = IF fits THEN spf ELSE IF f # NoFrame /\ t # NoFrame THEN sp0 ELSE sp
    BY <1>1, <1>7
  <1>9. m.ok \in BOOLEAN
    BY <1>6
  <1>10. u2 \in SUBSET Frames /\ u \subseteq u2
    BY <1>3, <1>5 DEF MaybeFrame
  <1>11. m.used \in SUBSET Frames /\ u \subseteq m.used
    BY <1>3, <1>6, <1>10
  <1>12. sp.pages \subseteq u /\ TableFrames(sp) \subseteq u /\ StackFrames(k) \subseteq u
    BY DEF OwnedBy
  <1> HIDE DEF f, u1, T, old, t, m
  <1>13. pt2 \in [Tables -> MaybeFrame] /\ mapf \in [VPages -> MaybeFrame]
         /\ map0 \in [VPages -> MaybeFrame]
    BY <1>1, <1>2, <1>3, <1>5 DEF MaybeFrame
  <1>14. TableFrames(spf) \subseteq TableFrames(sp) \cup ({t} \ {NoFrame})
         /\ TableFrames(sp0) \subseteq TableFrames(sp) \cup ({t} \ {NoFrame})
    BY <1>1, <1>2 DEF TableFrames
  <1>15. t # NoFrame => t \in TableFrames(sp) \/ t \notin u1
    BY <1>1, <1>2, <1>5 DEF TableFrames, old
  <1>19. TableFrames(sp) \subseteq TableFrames(spf) /\ TableFrames(sp) \subseteq TableFrames(sp0)
    <2>1. \A x \in Tables : sp.pt[x] # NoFrame => pt2[x] = sp.pt[x]
      BY <1>1, <1>2 DEF old, t
    <2> QED
      BY <2>1 DEF TableFrames
  <1>16. CASE fits
    <2>1. m.sp = spf /\ m.used = u2 /\ f # NoFrame /\ t # NoFrame
      BY <1>6, <1>8, <1>16
    <2>2. m.sp \in Space
      BY <1>1, <1>3, <1>13, <2>1 DEF Space, MaybeFrame
    <2>3. f \notin sp.pages /\ f \notin TableFrames(sp) /\ f \notin StackFrames(k) /\ f # t
      BY <1>3, <1>5, <1>12, <2>1
    <2>4. FramesOf(spf, VPages) \subseteq FramesOf(sp, VPages) \cup {f}
      BY <1>1 DEF FramesOf
    <2>5. f # sp.pd
      BY <1>3, <1>12, <2>1, <2>3 DEF Shape
    <2>6. \A x, y \in VPages : x # y /\ mapf[x] # NoFrame => mapf[x] # mapf[y]
      <3>1. \A z \in VPages : sp.map[z] # f
        BY <1>1, <2>1, <2>3 DEF Shape, FramesOf
      <3> QED
        BY <1>1, <3>1 DEF Shape
    <2>7. spf.pages \cap (TableFrames(spf) \cup StackFrames(k)) = {}
      <3>1. t \notin sp.pages
        BY <1>3, <1>12, <1>15, <2>1 DEF Shape
      <3> QED
        BY <1>14, <2>3, <3>1 DEF Shape
    <2>8. Shape(m.sp, k)
      <3>1. FramesOf(spf, VPages) \subseteq spf.pages \ {spf.pd}
        BY <2>4, <2>5 DEF Shape
      <3>2. spf.pd \in spf.pages \cup {NoFrame}
        BY DEF Shape
      <3>3. spf.map = mapf
        OBVIOUS
      <3> HIDE DEF spf, mapf
      <3>4. Shape(spf, k)
        BY <2>6, <2>7, <3>1, <3>2, <3>3 DEF Shape
      <3> QED
        BY <2>1, <3>4
    <2>9. OwnedBy(spf, k) \subseteq OwnedBy(sp, k) \cup {f} \cup ({t} \ {NoFrame})
      BY <1>14 DEF OwnedBy
    <2>10. OwnedBy(m.sp, k) \subseteq m.used
      BY <1>3, <1>10, <2>1, <2>9 DEF MaybeFrame
    <2>11. OwnedBy(m.sp, k) \cap u \subseteq OwnedBy(sp, k)
      BY <1>3, <1>15, <2>1, <2>9 DEF OwnedBy
    <2>12. sp.pages \subseteq m.sp.pages /\ m.sp.pages \cap u \subseteq sp.pages
      BY <1>3, <2>1
    <2> QED
      BY <1>9, <1>11, <1>19, <2>1, <2>2, <2>8, <2>10, <2>11, <2>12 DEF m
  <1>17. CASE ~fits /\ f # NoFrame /\ t # NoFrame
    <2>1. m.sp = sp0 /\ m.used = u2 \ {f}
      BY <1>6, <1>8, <1>17
    <2>2. m.sp \in Space
      BY <1>1, <1>13, <2>1 DEF Space
    <2>3. FramesOf(sp0, VPages) \subseteq FramesOf(sp, VPages)
      BY <1>1 DEF FramesOf
    <2>4. \A x, y \in VPages : x # y /\ map0[x] # NoFrame => map0[x] # map0[y]
      BY <1>1 DEF Shape
    <2>5. t \notin sp.pages
      BY <1>3, <1>12, <1>15, <1>17 DEF Shape
    <2>6. sp0.pages \cap (TableFrames(sp0) \cup StackFrames(k)) = {}
      BY <1>14, <2>5 DEF Shape
    <2>7. Shape(m.sp, k)
      <3>1. FramesOf(sp0, VPages) \subseteq sp0.pages \ {sp0.pd}
        BY <2>3 DEF Shape
      <3>2. sp0.pd \in sp0.pages \cup {NoFrame}
        BY DEF Shape
      <3> QED
        BY <2>1, <2>4, <2>6, <3>1, <3>2 DEF Shape
    <2>8. OwnedBy(sp0, k) \subseteq OwnedBy(sp, k) \cup ({t} \ {NoFrame})
      BY <1>14 DEF OwnedBy
    <2>9. OwnedBy(m.sp, k) \subseteq m.used
      BY <1>3, <1>5, <1>10, <1>17, <2>1, <2>8
    <2>10. OwnedBy(m.sp, k) \cap u \subseteq OwnedBy(sp, k)
      BY <1>3, <1>15, <2>1, <2>8 DEF OwnedBy
    <2> QED
      BY <1>9, <1>11, <1>19, <2>1, <2>2, <2>7, <2>9, <2>10 DEF m
  <1>18. CASE ~fits /\ ~(f # NoFrame /\ t # NoFrame)
    <2>1. m.sp = sp
      BY <1>8, <1>18
    <2> QED
      BY <1>9, <1>11, <2>1 DEF m
  <1> QED
    BY <1>16, <1>17, <1>18

\* What an unmapping does to a well-formed space.
LEMMA UnmappedIs ==
    ASSUME NEW sp \in Space, NEW k \in MaybeFrame, NEW range \in SUBSET VPages, Shape(sp, k)
    PROVE  LET F == FramesOf(sp, range)
               un == Unmapped(sp, range)
           IN  /\ un \in Space /\ Shape(un, k)
               /\ F \subseteq sp.pages /\ un.pages = sp.pages \ F
               /\ OwnedBy(un, k) = OwnedBy(sp, k) \ F
               /\ Others(un, k) = Others(sp, k)
  <1> DEFINE F == FramesOf(sp, range)
             un == Unmapped(sp, range)
             map0 == [v \in VPages |-> IF v \in range THEN NoFrame ELSE sp.map[v]]
  <1>1. /\ sp = [pages |-> sp.pages, pd |-> sp.pd, pt |-> sp.pt, map |-> sp.map]
        /\ sp.pages \in SUBSET Frames /\ sp.pd \in MaybeFrame
        /\ sp.pt \in [Tables -> MaybeFrame] /\ sp.map \in [VPages -> MaybeFrame]
    BY DEF Space
  <1>2. un = [pages |-> sp.pages \ F, pd |-> sp.pd, pt |-> sp.pt, map |-> map0]
    <2>1. un = [sp EXCEPT !.pages = sp.pages \ F, !.map = map0]
      BY DEF Unmapped
    <2> HIDE DEF F, map0
    <2> QED
      BY <1>1, <2>1
  <1>3. F \subseteq FramesOf(sp, VPages) /\ F \subseteq sp.pages \ {sp.pd}
    BY DEF FramesOf, Shape
  <1> HIDE DEF F, un
  <1>4. un \in Space
    BY <1>1, <1>2 DEF Space, MaybeFrame
  <1>5. FramesOf(un, VPages) \subseteq FramesOf(sp, VPages) \ F
    <2>1. ASSUME NEW v \in VPages, v \notin range, sp.map[v] # NoFrame PROVE sp.map[v] \notin F
      BY <2>1 DEF F, FramesOf, Shape
    <2> QED
      BY <1>2, <2>1 DEF FramesOf
  <1>6. TableFrames(un) = TableFrames(sp)
    BY <1>2 DEF TableFrames
  <1>7. \A v, w \in VPages : v # w /\ map0[v] # NoFrame => map0[v] # map0[w]
    BY DEF Shape
  <1>8. Shape(un, k)
    <2>1. FramesOf(un, VPages) \subseteq un.pages \ {un.pd}
      BY <1>2, <1>5 DEF Shape
    <2>2. un.pd \in un.pages \cup {NoFrame}
      BY <1>2, <1>3 DEF Shape
    <2>3. un.pages \cap (TableFrames(un) \cup StackFrames(k)) = {}
      BY <1>2, <1>6 DEF Shape
    <2> QED
      BY <1>2, <1>7, <2>1, <2>2, <2>3 DEF Shape
  <1>9. OwnedBy(un, k) = OwnedBy(sp, k) \ F
    BY <1>2, <1>3, <1>6 DEF OwnedBy, Shape
  <1> QED
    BY <1>2, <1>3, <1>4, <1>6, <1>8, <1>9 DEF F, un, Others

-----------------------------------------------------------------------------
(* Who owns what, and what a step that changes one or two owners keeps.    *)

LEMMA HeldIs ==
    /\ \A o : o \in Owners <=> \/ \E s \in Procs : o = <<"process", s>>
                               \/ \E t \in Threads : o = <<"call", t>>
    /\ \A s \in Procs : Held(<<"process", s>>) = OwnedBy(space[s], kstack[s])
    /\ \A t \in Threads : Held(<<"call", t>>) = OwnedBy(call[t].new, call[t].stack)
  BY DEF Owners, Held

LEMMA HeldNext ==
    /\ \A s \in Procs : Held(<<"process", s>>)' = OwnedBy(space'[s], kstack'[s])
    /\ \A t \in Threads : Held(<<"call", t>>)' = OwnedBy(call'[t].new, call'[t].stack)
  BY DEF Held

\* Frames change hands among the owners in C, or between them and the free frames.
LEMMA OwnersChange ==
    ASSUME Exclusive, NEW C \in SUBSET Owners,
           \A p \in Owners \ C : Held(p)' = Held(p),
           used \ UNION {Held(o) : o \in C} \subseteq used',
           \A o \in C : /\ Held(o)' \subseteq used'
                        /\ Held(o)' \cap used \subseteq UNION {Held(q) : q \in C},
           \A o, q \in C : o # q => Held(o)' \cap Held(q)' = {}
    PROVE  Exclusive'
  <1>1. Owners' = Owners
    BY DEF Owners, Threads
  <1>2. ASSUME NEW o \in Owners PROVE Held(o)' \subseteq used'
    <2>1. CASE o \in C
      BY <2>1
    <2>2. CASE o \notin C
      <3>1. \A q \in C : Held(o) \cap Held(q) = {}
        BY <2>2 DEF Exclusive
      <3>2. Held(o)' = Held(o) /\ Held(o) \subseteq used
        BY <2>2 DEF Exclusive
      <3> QED
        BY <3>1, <3>2
    <2> QED
      BY <2>1, <2>2
  <1>3. ASSUME NEW o \in C, NEW p \in Owners \ C PROVE Held(o)' \cap Held(p)' = {}
    <2>1. Held(p)' = Held(p) /\ Held(p) \subseteq used /\ \A q \in C : Held(p) \cap Held(q) = {}
      BY DEF Exclusive
    <2> QED
      BY <2>1
  <1>4. ASSUME NEW o \in Owners, NEW p \in Owners, o # p PROVE Held(o)' \cap Held(p)' = {}
    <2>1. CASE o \in C /\ p \in C
      BY <1>4, <2>1
    <2>2. CASE o \in C /\ p \notin C
      BY <1>3, <2>2
    <2>3. CASE o \notin C /\ p \in C
      <3>1. Held(p)' \cap Held(o)' = {}
        BY <1>3, <2>3
      <3> QED
        BY <3>1
    <2>4. CASE o \notin C /\ p \notin C
      <3>1. Held(o)' = Held(o) /\ Held(p)' = Held(p)
        BY <2>4
      <3> QED
        BY <1>4, <3>1 DEF Exclusive
    <2> QED
      BY <2>1, <2>2, <2>3, <2>4
  <1> QED
    BY <1>1, <1>2, <1>4 DEF Exclusive

\* The shares of the owners, as FrameOwners sees them.
LEMMA ShareIs ==
    /\ \A s \in Procs : /\ Tracks(<<"process", s>>) = space[s].pages
                        /\ HeldElse(<<"process", s>>) = Others(space[s], kstack[s])
    /\ \A t \in Threads : /\ Tracks(<<"call", t>>) = call[t].new.pages
                          /\ HeldElse(<<"call", t>>) = Others(call[t].new, call[t].stack)
    /\ \A o : Held(o) = Tracks(o) \cup HeldElse(o)
  BY DEF Tracks, HeldElse, Held, OwnedBy, Others

LEMMA ShareNext ==
    /\ \A s \in Procs : /\ Tracks(<<"process", s>>)' = space'[s].pages
                        /\ HeldElse(<<"process", s>>)' = Others(space'[s], kstack'[s])
    /\ \A t \in Threads : /\ Tracks(<<"call", t>>)' = call'[t].new.pages
                          /\ HeldElse(<<"call", t>>)' = Others(call'[t].new, call'[t].stack)
    /\ \A o : Held(o)' = Tracks(o)' \cup HeldElse(o)'
  BY DEF Tracks, HeldElse, Held, OwnedBy, Others

\* A step of FrameOwners, and of the kinds it has.
Moves == Ownership!Next

LEMMA TradeIs ==
    ASSUME NEW O \in SUBSET Owners,
           \A p \in Owners \ O : Tracks(p)' = Tracks(p) /\ HeldElse(p)' = HeldElse(p),
           used \ UNION {Held(o) : o \in O} \subseteq used',
           \A o \in O : /\ Held(o)' \subseteq used'
                        /\ Held(o)' \cap used \subseteq UNION {Held(q) : q \in O}
    PROVE  Ownership!Trade(O)
  <1>1. Ownership!Owners = Owners
    BY DEF Owners, Ownership!Owners
  <1>2. Ownership!Hands(O) = UNION {Held(o) : o \in O}
    <2>1. \A o \in O : Ownership!Held(o) = Held(o)
      BY ShareIs DEF Ownership!Held
    <2> QED
      BY <2>1 DEF Ownership!Hands
  <1> QED
    BY <1>1, <1>2, ShareNext DEF Ownership!Trade, Owners

LEMMA WorkMoves ==
    ASSUME NEW o \in Owners, Ownership!Trade({o}),
           Tracks(o) \cap used' \subseteq Tracks(o)', HeldElse(o) \subseteq HeldElse(o)'
    PROVE  Moves
  <1>1. Ownership!Work(o)
    BY DEF Ownership!Work, Owners
  <1>2. o \in Ownership!Owners
    BY DEF Owners, Ownership!Owners
  <1> QED
    BY <1>1, <1>2 DEF Moves, Ownership!Next

LEMMA DropMoves ==
    ASSUME NEW O \in SUBSET Owners, Ownership!Trade(O),
           \A o \in O : Tracks(o) \cap used' = {} /\ Held(o)' = {},
           \/ \E t \in Threads : O = {<<"call", t>>}
           \/ O \subseteq {"process"} \X Procs
    PROVE  Moves
  <1>1. \A o \in O : Tracks(o)' = {} /\ HeldElse(o)' = {}
    BY ShareNext
  <1>2. Ownership!Drop(O)
    BY <1>1 DEF Ownership!Drop, Owners
  <1> QED
    BY <1>2 DEF Moves, Ownership!Next

LEMMA HandOverMoves ==
    ASSUME NEW t \in Threads, NEW s \in Procs,
           Ownership!Trade({<<"call", t>>, <<"process", s>>}),
           Tracks(<<"process", s>>) \cap used' = {},
           Tracks(<<"call", t>>) \subseteq Tracks(<<"process", s>>)',
           HeldElse(<<"call", t>>) \subseteq HeldElse(<<"process", s>>)',
           Held(<<"call", t>>)' = {}
    PROVE  Moves
  <1> DEFINE c == <<"call", t>>
             p == <<"process", s>>
  <1>1. c \in {"call"} \X Threads /\ p \in {"process"} \X Procs
    OBVIOUS
  <1>2. Tracks(c)' = {} /\ HeldElse(c)' = {}
    BY ShareNext
  <1>3. Ownership!HandOver(c, p)
    <2>1. c \in Owners /\ p \in Owners
      BY <1>1 DEF Owners
    <2> HIDE DEF c, p
    <2> QED
      BY <1>2, <2>1 DEF Ownership!HandOver, c, p
  <1> HIDE DEF c, p
  <1> QED
    BY <1>1, <1>3 DEF Moves, Ownership!Next

\* The space that call t builds changes.
LEMMA CallChanges ==
    ASSUME Shapes, Exclusive, NEW t \in Threads,
           UNCHANGED <<space, kstack>>,
           \A x \in Threads \ {t} : call'[x].new = call[x].new /\ call'[x].stack = call[x].stack,
           Shape(call'[t].new, call'[t].stack),
           OwnedBy(call'[t].new, call'[t].stack) \subseteq used',
           OwnedBy(call'[t].new, call'[t].stack) \cap used
               \subseteq OwnedBy(call[t].new, call[t].stack),
           used \ OwnedBy(call[t].new, call[t].stack) \subseteq used',
           \A f \in call[t].new.pages : f \in used' => f \in call'[t].new.pages,
           \/ Others(call[t].new, call[t].stack) \subseteq Others(call'[t].new, call'[t].stack)
           \/ OwnedBy(call'[t].new, call'[t].stack) = {}
    PROVE  Shapes' /\ Exclusive' /\ Moves
  <1> DEFINE c == <<"call", t>>
  <1>1. Shapes'
    <2>1. ASSUME NEW x \in Threads PROVE Shape(call'[x].new, call'[x].stack)
      <3>1. CASE x = t
        BY <3>1
      <3>2. CASE x # t
        BY <3>2 DEF Shapes
      <3> QED
        BY <3>1, <3>2
    <2>2. ASSUME NEW s \in Procs PROVE Shape(space'[s], kstack'[s])
      BY DEF Shapes
    <2> QED
      BY <2>1, <2>2 DEF Shapes, Threads
  <1>2. c \in Owners /\ {c} \in SUBSET Owners
    BY HeldIs
  <1>3. ASSUME NEW p \in Owners \ {c}
        PROVE  Tracks(p)' = Tracks(p) /\ HeldElse(p)' = HeldElse(p)
    <2>1. CASE \E s \in Procs : p = <<"process", s>>
      BY <2>1, ShareIs, ShareNext
    <2>2. CASE \E x \in Threads : p = <<"call", x>>
      <3>1. PICK x \in Threads : p = <<"call", x>>
        BY <2>2
      <3>2. x # t
        BY <3>1
      <3> QED
        BY <3>1, <3>2, ShareIs, ShareNext
    <2> QED
      BY <2>1, <2>2, HeldIs
  <1>4. Held(c) = OwnedBy(call[t].new, call[t].stack)
        /\ Held(c)' = OwnedBy(call'[t].new, call'[t].stack)
    BY HeldIs, HeldNext
  <1>5. UNION {Held(o) : o \in {c}} = Held(c)
    OBVIOUS
  <1>6. Exclusive'
    <2>0. \A o \in Owners \ {c} : Held(o)' = Held(o)
      BY <1>3, ShareIs, ShareNext
    <2>1. used \ UNION {Held(o) : o \in {c}} \subseteq used'
      BY <1>4, <1>5
    <2>2. \A o \in {c} : /\ Held(o)' \subseteq used'
                         /\ Held(o)' \cap used \subseteq UNION {Held(q) : q \in {c}}
      BY <1>4, <1>5
    <2>3. \A o, q \in {c} : o # q => Held(o)' \cap Held(q)' = {}
      OBVIOUS
    <2> QED
      BY <1>2, <2>0, <2>1, <2>2, <2>3, OwnersChange
  <1>7. Moves
    <2>1. Ownership!Trade({c})
      BY <1>2, <1>3, <1>4, <1>5, TradeIs
    <2>2. Tracks(c) \cap used' \subseteq Tracks(c)'
      BY ShareIs, ShareNext
    <2>3. CASE Others(call[t].new, call[t].stack) \subseteq Others(call'[t].new, call'[t].stack)
      <3>1. HeldElse(c) \subseteq HeldElse(c)'
        BY <2>3, ShareIs, ShareNext
      <3> QED
        BY <1>2, <2>1, <2>2, <3>1, WorkMoves
    <2>4. CASE OwnedBy(call'[t].new, call'[t].stack) = {}
      <3>1. Held(c)' = {} /\ Tracks(c)' = {}
        BY <1>4, <2>4, ShareNext
      <3>2. \A o \in {c} : Tracks(o) \cap used' = {} /\ Held(o)' = {}
        BY <2>2, <3>1
      <3> QED
        BY <1>2, <2>1, <3>2, DropMoves
    <2> QED
      BY <2>3, <2>4
  <1> QED
    BY <1>1, <1>6, <1>7

\* The space of process s, or its kernel stack, changes.
LEMMA ProcessChanges ==
    ASSUME Shapes, Exclusive, NEW s \in Procs,
           \A t \in Threads : call'[t].new = call[t].new /\ call'[t].stack = call[t].stack,
           \A r \in Procs \ {s} : space'[r] = space[r] /\ kstack'[r] = kstack[r],
           Shape(space'[s], kstack'[s]),
           OwnedBy(space'[s], kstack'[s]) \subseteq used',
           OwnedBy(space'[s], kstack'[s]) \cap used \subseteq OwnedBy(space[s], kstack[s]),
           used \ OwnedBy(space[s], kstack[s]) \subseteq used',
           \A f \in space[s].pages : f \in used' => f \in space'[s].pages,
           Others(space[s], kstack[s]) \subseteq Others(space'[s], kstack'[s])
    PROVE  Shapes' /\ Exclusive' /\ Moves
  <1> DEFINE c == <<"process", s>>
  <1>1. Shapes'
    <2>1. ASSUME NEW r \in Procs PROVE Shape(space'[r], kstack'[r])
      <3>1. CASE r = s
        BY <3>1
      <3>2. CASE r # s
        BY <3>2 DEF Shapes
      <3> QED
        BY <3>1, <3>2
    <2>2. ASSUME NEW t \in Threads PROVE Shape(call'[t].new, call'[t].stack)
      BY DEF Shapes
    <2> QED
      BY <2>1, <2>2 DEF Shapes, Threads
  <1>2. c \in Owners /\ {c} \in SUBSET Owners
    BY HeldIs
  <1>3. ASSUME NEW p \in Owners \ {c}
        PROVE  Tracks(p)' = Tracks(p) /\ HeldElse(p)' = HeldElse(p)
    <2>1. CASE \E t \in Threads : p = <<"call", t>>
      BY <2>1, ShareIs, ShareNext
    <2>2. CASE \E r \in Procs : p = <<"process", r>>
      <3>1. PICK r \in Procs : p = <<"process", r>>
        BY <2>2
      <3>2. r # s
        BY <3>1
      <3> QED
        BY <3>1, <3>2, ShareIs, ShareNext
    <2> QED
      BY <2>1, <2>2, HeldIs
  <1>4. Held(c) = OwnedBy(space[s], kstack[s]) /\ Held(c)' = OwnedBy(space'[s], kstack'[s])
    BY HeldIs, HeldNext
  <1>5. UNION {Held(o) : o \in {c}} = Held(c)
    OBVIOUS
  <1>6. Exclusive'
    <2>0. \A o \in Owners \ {c} : Held(o)' = Held(o)
      BY <1>3, ShareIs, ShareNext
    <2>1. used \ UNION {Held(o) : o \in {c}} \subseteq used'
      BY <1>4, <1>5
    <2>2. \A o \in {c} : /\ Held(o)' \subseteq used'
                         /\ Held(o)' \cap used \subseteq UNION {Held(q) : q \in {c}}
      BY <1>4, <1>5
    <2>3. \A o, q \in {c} : o # q => Held(o)' \cap Held(q)' = {}
      OBVIOUS
    <2> QED
      BY <1>2, <2>0, <2>1, <2>2, <2>3, OwnersChange
  <1>7. Moves
    <2>1. Ownership!Trade({c})
      BY <1>2, <1>3, <1>4, <1>5, TradeIs
    <2>2. Tracks(c) \cap used' \subseteq Tracks(c)' /\ HeldElse(c) \subseteq HeldElse(c)'
      BY ShareIs, ShareNext
    <2> QED
      BY <1>2, <2>1, <2>2, WorkMoves
  <1> QED
    BY <1>1, <1>6, <1>7

\* Process s takes over what call t has built, and gives up what it had.
LEMMA HandedOver ==
    ASSUME Shapes, Exclusive, NEW t \in Threads, NEW s \in Procs,
           \A x \in Threads \ {t} : call'[x].new = call[x].new /\ call'[x].stack = call[x].stack,
           \A r \in Procs \ {s} : space'[r] = space[r] /\ kstack'[r] = kstack[r],
           Shape(call'[t].new, call'[t].stack), OwnedBy(call'[t].new, call'[t].stack) = {},
           Shape(space'[s], kstack'[s]),
           OwnedBy(space'[s], kstack'[s]) \subseteq used',
           OwnedBy(space'[s], kstack'[s]) \cap used
               \subseteq OwnedBy(space[s], kstack[s]) \cup OwnedBy(call[t].new, call[t].stack),
           used \ (OwnedBy(space[s], kstack[s]) \cup OwnedBy(call[t].new, call[t].stack))
               \subseteq used',
           \A f \in space[s].pages : f \notin used',
           call[t].new.pages \subseteq space'[s].pages,
           Others(call[t].new, call[t].stack) \subseteq Others(space'[s], kstack'[s])
    PROVE  Shapes' /\ Exclusive' /\ Moves
  <1> DEFINE c == <<"call", t>>
             p == <<"process", s>>
             C == {c, p}
  <1>1. Shapes'
    <2>1. ASSUME NEW r \in Procs PROVE Shape(space'[r], kstack'[r])
      <3>1. CASE r = s
        BY <3>1
      <3>2. CASE r # s
        BY <3>2 DEF Shapes
      <3> QED
        BY <3>1, <3>2
    <2>2. ASSUME NEW x \in Threads PROVE Shape(call'[x].new, call'[x].stack)
      <3>1. CASE x = t
        BY <3>1
      <3>2. CASE x # t
        BY <3>2 DEF Shapes
      <3> QED
        BY <3>1, <3>2
    <2> QED
      BY <2>1, <2>2 DEF Shapes, Threads
  <1>2. c \in Owners /\ p \in Owners /\ C \in SUBSET Owners
    BY HeldIs
  <1>3. ASSUME NEW o \in Owners \ C
        PROVE  Tracks(o)' = Tracks(o) /\ HeldElse(o)' = HeldElse(o)
    <2>1. CASE \E x \in Threads : o = <<"call", x>>
      <3>1. PICK x \in Threads : o = <<"call", x>>
        BY <2>1
      <3>2. x # t
        BY <3>1
      <3> QED
        BY <3>1, <3>2, ShareIs, ShareNext
    <2>2. CASE \E r \in Procs : o = <<"process", r>>
      <3>1. PICK r \in Procs : o = <<"process", r>>
        BY <2>2
      <3>2. r # s
        BY <3>1
      <3> QED
        BY <3>1, <3>2, ShareIs, ShareNext
    <2> QED
      BY <2>1, <2>2, HeldIs
  <1>4. /\ Held(p) = OwnedBy(space[s], kstack[s]) /\ Held(p)' = OwnedBy(space'[s], kstack'[s])
        /\ Held(c) = OwnedBy(call[t].new, call[t].stack) /\ Held(c)' = {}
    BY HeldIs, HeldNext
  <1>5. UNION {Held(o) : o \in C} = Held(p) \cup Held(c)
    OBVIOUS
  <1>6. Exclusive'
    <2>0. \A o \in Owners \ C : Held(o)' = Held(o)
      BY <1>3, ShareIs, ShareNext
    <2>1. used \ UNION {Held(o) : o \in C} \subseteq used'
      BY <1>4, <1>5
    <2>2. \A o \in C : /\ Held(o)' \subseteq used'
                       /\ Held(o)' \cap used \subseteq UNION {Held(q) : q \in C}
      <3>1. Held(p)' \subseteq used' /\ Held(p)' \cap used \subseteq UNION {Held(q) : q \in C}
        BY <1>4, <1>5
      <3>2. Held(c)' \subseteq used' /\ Held(c)' \cap used \subseteq UNION {Held(q) : q \in C}
        BY <1>4
      <3> QED
        BY <3>1, <3>2
    <2>3. \A o, q \in C : o # q => Held(o)' \cap Held(q)' = {}
      BY <1>4
    <2> QED
      BY <1>2, <2>0, <2>1, <2>2, <2>3, OwnersChange
  <1>7. Moves
    <2>1. Ownership!Trade(C)
      <3>1. \A o \in C : /\ Held(o)' \subseteq used'
                         /\ Held(o)' \cap used \subseteq UNION {Held(q) : q \in C}
        BY <1>4, <1>5
      <3>2. used \ UNION {Held(o) : o \in C} \subseteq used'
        BY <1>4, <1>5
      <3> HIDE DEF C
      <3> QED
        BY <1>2, <1>3, <3>1, <3>2, TradeIs
    <2>2. /\ Tracks(p) \cap used' = {} /\ Tracks(c) \subseteq Tracks(p)'
          /\ HeldElse(c) \subseteq HeldElse(p)' /\ Held(c)' = {}
      BY <1>4, ShareIs, ShareNext
    <2> QED
      BY <2>1, <2>2, HandOverMoves
  <1> QED
    BY <1>1, <1>6, <1>7

-----------------------------------------------------------------------------
(* The empty space and the idle call.                                      *)

LEMMA NoSpaceIs ==
    /\ NoSpace \in Space /\ NoSpace.pages = {} /\ NoSpace.pd = NoFrame
    /\ TableFrames(NoSpace) = {} /\ FramesOf(NoSpace, VPages) = {}
    /\ \A v \in VPages : NoSpace.map[v] = NoFrame
    /\ \A k : Shape(NoSpace, k) /\ OwnedBy(NoSpace, k) = StackFrames(k)
    /\ StackFrames(NoFrame) = {}
  <1>1. /\ NoSpace \in Space /\ NoSpace.pages = {} /\ NoSpace.pd = NoFrame
        /\ TableFrames(NoSpace) = {} /\ FramesOf(NoSpace, VPages) = {}
        /\ \A v \in VPages : NoSpace.map[v] = NoFrame
    BY DEF NoSpace, Space, TableFrames, FramesOf, MaybeFrame
  <1>2. \A k : Shape(NoSpace, k)
    BY <1>1 DEF Shape
  <1>3. \A k : OwnedBy(NoSpace, k) = StackFrames(k)
    BY <1>1 DEF OwnedBy
  <1> QED
    BY <1>1, <1>2, <1>3 DEF StackFrames

\* A directory that has just been allocated.
LEMMA NewSpaceIs ==
    ASSUME NEW d \in Frames, NEW k \in MaybeFrame, d \notin StackFrames(k)
    PROVE  LET sp == [NoSpace EXCEPT !.pd = d, !.pages = {d}]
           IN  /\ sp \in Space /\ sp.pages = {d} /\ Shape(sp, k)
               /\ OwnedBy(sp, k) = {d} \cup StackFrames(k)
  <1> DEFINE sp == [NoSpace EXCEPT !.pd = d, !.pages = {d}]
  <1>1. /\ sp \in Space /\ sp.pages = {d} /\ sp.pd = d
        /\ TableFrames(sp) = {} /\ FramesOf(sp, VPages) = {}
        /\ \A v \in VPages : sp.map[v] = NoFrame
    BY DEF NoSpace, Space, TableFrames, FramesOf, MaybeFrame
  <1> HIDE DEF sp
  <1>2. Shape(sp, k)
    BY <1>1 DEF Shape
  <1>3. OwnedBy(sp, k) = {d} \cup StackFrames(k)
    BY <1>1 DEF OwnedBy
  <1> QED
    BY <1>1, <1>2, <1>3 DEF sp

\* Facts about the layout that every address in it rests on.
LEMMA LayoutIs ==
    /\ STACK_VA \in Nat /\ 0 \in VPages /\ STACK_VA \in VPages /\ STACK_VA - 1 \in VPages
    /\ CODE_VA \in VPages /\ CODE_VA + 1 \in VPages /\ CODE_VA # STACK_VA
  BY LayoutAssumption DEF VPages

LEMMA IdleIs ==
    /\ Idle \in Call /\ Idle.op = "idle" /\ Idle.new = NoSpace /\ Idle.stack = NoFrame
    /\ Idle.va = 0 /\ Idle.end = 0
  <1> USE DEF MaybeFrame
  <1>1. <<>> \in Seq(Int \X Int)
    OBVIOUS
  <1> QED
    BY <1>1, NoSpaceIs, LayoutIs DEF Idle, Call

\* A call returns.
LEMMA ReturnIs ==
    ASSUME TypeOK, NEW t \in Threads, Return(t)
    PROVE  /\ call' \in [Threads -> Call] /\ call'[t] = Idle
           /\ \A x \in Threads \ {t} : call'[x] = call[x]
           /\ \A x \in Threads : call'[x].va .. call'[x].end - 1 \subseteq VPages
  <1>1. call' \in [Threads -> Call] /\ call'[t] = Idle /\ \A x \in Threads \ {t} : call'[x] = call[x]
    BY IdleIs DEF TypeOK, Return
  <1>2. 0 .. 0 - 1 = {}
    OBVIOUS
  <1> QED
    BY <1>1, <1>2, IdleIs DEF TypeOK

\* A call changes.
LEMMA CallSet ==
    ASSUME TypeOK, NEW t \in Threads, NEW c \in Call, call' = [call EXCEPT ![t] = c],
           c.va .. c.end - 1 \subseteq VPages
    PROVE  /\ call' \in [Threads -> Call] /\ call'[t] = c
           /\ \A x \in Threads \ {t} : call'[x] = call[x]
           /\ \A x \in Threads : call'[x].va .. call'[x].end - 1 \subseteq VPages
  <1>1. call' \in [Threads -> Call] /\ call'[t] = c /\ \A x \in Threads \ {t} : call'[x] = call[x]
    BY DEF TypeOK
  <1> QED
    BY <1>1 DEF TypeOK

\* While there is no system call, and while there is one.
LEMMA WhoRuns ==
    ASSUME IInv
    PROVE  /\ SyscallIdle => call["syscall"].op = "idle"
           /\ \A t \in Threads : Building(t) =>
                /\ t = "kernel" => SyscallIdle /\ call[t].op = "create"
                /\ t = "syscall" => call[t].op = "exec"
  BY IdleIs DEF IInv, Calls, KernelOps, SyscallOps, SyscallIdle, Building, Runs, Threads

\* The types of what a call under way holds.
LEMMA CallTypes ==
    ASSUME TypeOK, NEW t \in Threads
    PROVE  LET c == call[t]
           IN  /\ c = [op |-> c.op, who |-> c.who, va |-> c.va, end |-> c.end, segs |-> c.segs,
                       base |-> c.base, new |-> c.new, stack |-> c.stack]
               /\ c \in Call /\ c.who \in Procs \cup {0} /\ c.va \in Int /\ c.end \in Int
               /\ c.base \in VPages /\ c.segs \in Seq(Int \X Int)
               /\ c.new \in Space /\ c.stack \in MaybeFrame
               /\ c.va .. c.end - 1 \subseteq VPages
  BY DEF TypeOK, Call

\* What a step has to keep, and to be for FrameOwners.
Good == IInv' /\ Moves

\* Call t becomes what it becomes; the process of any other call keeps its state.
LEMMA CallsNext ==
    ASSUME Calls, NEW t \in Threads,
           \A x \in Threads \ {t} : /\ call'[x] = call[x]
                                    /\ \/ call[x].op \in {"idle", "find_elf", "find_user"}
                                       \/ state'[call[x].who] = state[call[x].who],
           t = "kernel" => call'[t].op \in KernelOps,
           t = "syscall" => call'[t].op \in SyscallOps,
           CallIs(call[t])'
    PROVE  Calls'
  <1>1. call'["kernel"].op \in KernelOps /\ call'["syscall"].op \in SyscallOps
    <2>1. t = "kernel" \/ t = "syscall"
      BY DEF Threads
    <2>2. CASE t = "kernel"
      <3>1. "syscall" \in Threads \ {t}
        BY <2>2 DEF Threads
      <3> QED
        BY <2>2, <3>1 DEF Calls
    <2>3. CASE t = "syscall"
      <3>1. "kernel" \in Threads \ {t}
        BY <2>3 DEF Threads
      <3> QED
        BY <2>3, <3>1 DEF Calls
    <2> QED
      BY <2>1, <2>2, <2>3
  <1>2. ASSUME NEW x \in Threads PROVE CallIs(call[x])'
    <2>1. CASE x = t
      BY <2>1
    <2>2. CASE x # t
      <3>1. call'[x] = call[x] /\ CallIs(call[x])
        BY <2>2 DEF Calls
      <3>2. \/ call[x].op \in {"idle", "find_elf", "find_user"}
            \/ state'[call[x].who] = state[call[x].who]
        BY <2>2
      <3> QED
        BY <3>1, <3>2 DEF CallIs
    <2> QED
      BY <2>1, <2>2
  <1> QED
    BY <1>1, <1>2 DEF Calls, KernelOps, SyscallOps, Threads

LEMMA CallsReturn ==
    ASSUME IInv, NEW t \in Threads, Return(t),
           \A x \in Threads \ {t} : \/ call[x].op \in {"idle", "find_elf", "find_user"}
                                    \/ state'[call[x].who] = state[call[x].who]
    PROVE  Calls'
  <1>1. call'[t] = Idle /\ \A x \in Threads \ {t} : call'[x] = call[x]
    BY ReturnIs DEF IInv
  <1>2. CallIs(call[t])'
    BY <1>1, IdleIs DEF CallIs
  <1>3. call'[t].op = "idle"
    BY <1>1, IdleIs
  <1> QED
    BY <1>1, <1>2, <1>3, CallsNext DEF IInv, KernelOps, SyscallOps

\* `fail:' and `rollback:', whatever the call has mapped so far.
LEMMA FailKeeps ==
    ASSUME IInv, NEW t \in Threads, NEW u \in SUBSET Frames, NEW sp \in Space,
           used \subseteq u,
           OwnedBy(sp, call[t].stack) \cap used \subseteq OwnedBy(call[t].new, call[t].stack),
           call[t].new.pages \subseteq sp.pages,
           Fail(t, u, sp)
    PROVE  Good
  <1>1. /\ used' = u \ (sp.pages \cup {call[t].stack})
        /\ Return(t) /\ UNCHANGED <<state, kstack, user_brk, mmap_base, space>>
    BY DEF Fail, proc
  <1>2. /\ call' \in [Threads -> Call] /\ call'[t] = Idle
        /\ \A x \in Threads \ {t} : call'[x] = call[x]
        /\ \A x \in Threads : call'[x].va .. call'[x].end - 1 \subseteq VPages
    BY <1>1, ReturnIs DEF IInv
  <1>3. call'[t].new = NoSpace /\ call'[t].stack = NoFrame
    BY <1>2, IdleIs
  <1>4. OwnedBy(NoSpace, NoFrame) = {} /\ Shape(NoSpace, NoFrame)
    BY NoSpaceIs
  <1>5. used \ OwnedBy(call[t].new, call[t].stack) \subseteq used'
    <2>1. used \subseteq Frames /\ NoFrame \notin Frames
      BY NoFrameIsNone DEF IInv, TypeOK
    <2>2. sp.pages \cap used \subseteq OwnedBy(call[t].new, call[t].stack)
      BY DEF OwnedBy
    <2>3. call[t].stack # NoFrame => call[t].stack \in OwnedBy(call[t].new, call[t].stack)
      BY DEF OwnedBy, StackFrames
    <2> QED
      BY <1>1, <2>1, <2>2, <2>3
  <1>6. Shapes' /\ Exclusive' /\ Moves
    <2>1. \A f \in call[t].new.pages : f \notin used'
      BY <1>1
    <2>2. UNCHANGED <<space, kstack>>
      BY <1>1
    <2>3. OwnedBy(call'[t].new, call'[t].stack) = {} /\ Shape(call'[t].new, call'[t].stack)
      BY <1>3, <1>4
    <2> QED
      BY <1>2, <1>5, <2>1, <2>2, <2>3, CallChanges DEF IInv
  <1>7. TypeOK'
    BY <1>1, <1>2 DEF IInv, TypeOK
  <1>8. Calls'
    BY <1>1, CallsReturn
  <1>9. Slots'
    BY <1>1 DEF IInv, Slots
  <1> QED
    BY <1>6, <1>7, <1>8, <1>9 DEF Good, IInv

\* A call that neither builds nor maps anything in this step.
LEMMA QuietKeeps ==
    ASSUME IInv, NEW t \in Threads, UNCHANGED <<used, space, kstack>>,
           \A x \in Threads \ {t} : call'[x] = call[x],
           call'[t].new = call[t].new, call'[t].stack = call[t].stack
    PROVE  Shapes' /\ Exclusive' /\ Moves
  <1>1. Shape(call'[t].new, call'[t].stack)
    BY DEF IInv, Shapes
  <1>2. OwnedBy(call'[t].new, call'[t].stack) \subseteq used
    <2>1. <<"call", t>> \in Owners /\ Held(<<"call", t>>) = OwnedBy(call[t].new, call[t].stack)
      BY HeldIs, SMTT(30)
    <2> QED
      BY <2>1 DEF IInv, Exclusive
  <1> QED
    BY <1>1, <1>2, CallChanges DEF IInv

LEMMA NextSegmentKeeps ==
    ASSUME IInv, NEW t \in Threads, NextSegment(t)
    PROVE  Good
  <1> DEFINE c == call[t]
             g == Head(c.segs)
             base == IF g[2] > c.base THEN g[2] ELSE c.base
             d == [c EXCEPT !.va = g[1], !.end = g[2], !.segs = Tail(c.segs), !.base = base]
  <1>1. /\ c = [op |-> c.op, who |-> c.who, va |-> c.va, end |-> c.end, segs |-> c.segs,
                base |-> c.base, new |-> c.new, stack |-> c.stack]
        /\ c \in Call /\ c.base \in VPages /\ c.segs \in Seq(Int \X Int)
        /\ c.new \in Space /\ c.stack \in MaybeFrame
    BY CallTypes DEF IInv
  <1>2. Building(t) /\ c.segs # <<>>
    BY DEF NextSegment
  <1>3. g \in Int \X Int /\ Tail(c.segs) \in Seq(Int \X Int)
    BY <1>1, <1>2
  <1>4. CASE InRange(g) /\ UNCHANGED <<used, proc, space>>
             /\ call' = [call EXCEPT ![t].va = g[1], ![t].end = g[2], ![t].segs = Tail(@),
                                     ![t].base = IF g[2] > @ THEN g[2] ELSE @]
    <2>1. g[1] \in Int /\ g[2] \in Int /\ g[1] >= 0 /\ g[2] <= STACK_VA
      BY <1>3, <1>4 DEF InRange
    <2>2. base \in VPages
      BY <1>1, <2>1, LayoutIs DEF VPages
    <2>3. call' = [call EXCEPT ![t] = d]
      BY <1>4 DEF IInv, TypeOK
    <2>4. /\ d.new = c.new /\ d.stack = c.stack /\ d.op = c.op /\ d.who = c.who
          /\ d.va = g[1] /\ d.end = g[2]
      <3> HIDE DEF c, g, base
      <3> QED
        BY <1>1
    <2>5. d \in Call
      <3> HIDE DEF c, g, base
      <3> QED
        BY <1>1, <1>3, <2>1, <2>2 DEF Call
    <2>6. d.va .. d.end - 1 \subseteq VPages
      <3>1. g[1] .. g[2] - 1 \subseteq VPages
        BY <2>1, LayoutIs DEF VPages
      <3> QED
        BY <2>4, <3>1
    <2> HIDE DEF d
    <2>7. /\ call' \in [Threads -> Call] /\ call'[t] = d
          /\ \A x \in Threads \ {t} : call'[x] = call[x]
          /\ \A x \in Threads : call'[x].va .. call'[x].end - 1 \subseteq VPages
      BY <2>3, <2>5, <2>6, CallSet DEF IInv
    <2>8. d.new = c.new /\ d.stack = c.stack /\ d.op = c.op /\ d.who = c.who
      BY <2>4
    <2>9. UNCHANGED <<used, state, kstack, user_brk, mmap_base, space>>
      BY <1>4 DEF proc
    <2>10. Shapes' /\ Exclusive' /\ Moves
      BY <2>7, <2>8, <2>9, QuietKeeps
    <2>11. TypeOK'
      BY <2>7, <2>9 DEF IInv, TypeOK
    <2>12. CallIs(call[t])'
      <3>1. CallIs(c) /\ c.op \in {"create", "exec"}
        BY <1>2 DEF IInv, Calls, Building
      <3> QED
        BY <2>7, <2>8, <2>9, <3>1 DEF CallIs
    <2>13. Calls'
      <3>1. t = "kernel" => d.op \in KernelOps
        BY <2>8 DEF IInv, Calls
      <3>2. t = "syscall" => d.op \in SyscallOps
        BY <2>8 DEF IInv, Calls
      <3> QED
        BY <2>7, <2>9, <2>12, <3>1, <3>2, CallsNext DEF IInv
    <2>14. Slots'
      BY <2>9 DEF IInv, Slots
    <2> QED
      BY <2>10, <2>11, <2>13, <2>14 DEF Good, IInv
  <1>5. CASE ~InRange(g) /\ Fail(t, used, c.new)
    BY <1>1, <1>5, FailKeeps DEF IInv, TypeOK
  <1> QED
    BY <1>4, <1>5 DEF NextSegment

\* What every owner holds is in use, in frames that exist.
LEMMA OwnedIsUsed ==
    ASSUME IInv
    PROVE  /\ used \in SUBSET Frames
           /\ \A s \in Procs : /\ space[s] \in Space /\ kstack[s] \in MaybeFrame
                               /\ Shape(space[s], kstack[s])
                               /\ OwnedBy(space[s], kstack[s]) \subseteq used
           /\ \A t \in Threads : /\ call[t].new \in Space /\ call[t].stack \in MaybeFrame
                                 /\ Shape(call[t].new, call[t].stack)
                                 /\ OwnedBy(call[t].new, call[t].stack) \subseteq used
           /\ \A s \in Procs, t \in Threads :
                OwnedBy(space[s], kstack[s]) \cap OwnedBy(call[t].new, call[t].stack) = {}
  <1>1. used \in SUBSET Frames
    BY DEF IInv, TypeOK
  <1>2. ASSUME NEW s \in Procs
        PROVE  /\ space[s] \in Space /\ kstack[s] \in MaybeFrame
               /\ Shape(space[s], kstack[s])
               /\ OwnedBy(space[s], kstack[s]) \subseteq used
    <2>1. <<"process", s>> \in Owners /\ Held(<<"process", s>>) = OwnedBy(space[s], kstack[s])
      BY HeldIs
    <2> QED
      BY <2>1 DEF IInv, TypeOK, Shapes, Exclusive
  <1>3. ASSUME NEW t \in Threads
        PROVE  /\ call[t].new \in Space /\ call[t].stack \in MaybeFrame
               /\ Shape(call[t].new, call[t].stack)
               /\ OwnedBy(call[t].new, call[t].stack) \subseteq used
    <2>1. <<"call", t>> \in Owners
          /\ Held(<<"call", t>>) = OwnedBy(call[t].new, call[t].stack)
      BY HeldIs
    <2> QED
      BY <2>1, CallTypes DEF IInv, Shapes, Exclusive
  <1>4. ASSUME NEW s \in Procs, NEW t \in Threads
        PROVE  OwnedBy(space[s], kstack[s]) \cap OwnedBy(call[t].new, call[t].stack) = {}
    <2>1. /\ <<"process", s>> \in Owners /\ Held(<<"process", s>>) = OwnedBy(space[s], kstack[s])
          /\ <<"call", t>> \in Owners
          /\ Held(<<"call", t>>) = OwnedBy(call[t].new, call[t].stack)
      BY HeldIs
    <2>2. <<"process", s>> # <<"call", t>>
      OBVIOUS
    <2> QED
      BY <2>1, <2>2 DEF IInv, Exclusive
  <1> QED
    BY <1>1, <1>2, <1>3, <1>4

\* A page of the image, or of the stack.
LEMMA NewPageIs ==
    ASSUME IInv, NEW t \in Threads, NEW v \in VPages
    PROVE  LET m == NewPage(t, v)
               c == call[t]
           IN  /\ m.ok \in BOOLEAN /\ m.sp \in Space
               /\ m.used \in SUBSET Frames /\ used \subseteq m.used
               /\ Shape(m.sp, c.stack)
               /\ OwnedBy(m.sp, c.stack) \subseteq m.used
               /\ OwnedBy(m.sp, c.stack) \cap used \subseteq OwnedBy(c.new, c.stack)
               /\ c.new.pages \subseteq m.sp.pages /\ m.sp.pages \cap used \subseteq c.new.pages
               /\ TableFrames(c.new) \subseteq TableFrames(m.sp)
  <1>1. /\ used \in SUBSET Frames /\ call[t].new \in Space /\ call[t].stack \in MaybeFrame
        /\ Shape(call[t].new, call[t].stack)
        /\ OwnedBy(call[t].new, call[t].stack) \subseteq used
    BY OwnedIsUsed
  <1>2. CASE call[t].op = "exec" /\ Full(call[t].new)
    <2>1. NewPage(t, v) = [ok |-> FALSE, used |-> used, sp |-> call[t].new]
      BY <1>2 DEF NewPage
    <2> QED
      BY <1>1, <2>1
  <1>3. CASE ~(call[t].op = "exec" /\ Full(call[t].new))
    <2>1. NewPage(t, v) = MapOne(used, call[t].new, v)
      BY <1>3 DEF NewPage
    <2> DEFINE n == MapOne(used, call[t].new, v)
    <2>2. /\ n.ok \in BOOLEAN /\ n.sp \in Space
          /\ n.used \in SUBSET Frames /\ used \subseteq n.used
          /\ Shape(n.sp, call[t].stack)
          /\ OwnedBy(n.sp, call[t].stack) \subseteq n.used
          /\ OwnedBy(n.sp, call[t].stack) \cap used \subseteq OwnedBy(call[t].new, call[t].stack)
          /\ call[t].new.pages \subseteq n.sp.pages /\ n.sp.pages \cap used \subseteq call[t].new.pages
          /\ TableFrames(call[t].new) \subseteq TableFrames(n.sp)
      BY <1>1, MapOneIs
    <2> HIDE DEF n
    <2>3. NewPage(t, v) = n
      BY <2>1 DEF n
    <2> QED
      BY <2>2, <2>3
  <1> QED
    BY <1>2, <1>3

LEMMA MapImageKeeps ==
    ASSUME IInv, NEW t \in Threads, MapImage(t)
    PROVE  Good
  <1> DEFINE c == call[t]
             m == NewPage(t, c.va)
             d == [c EXCEPT !.new = m.sp, !.va = c.va + 1]
  <1>1. Building(t) /\ c.va < c.end
    BY DEF MapImage
  <1>2. /\ c \in Call /\ c.va \in Int /\ c.end \in Int
        /\ c.va .. c.end - 1 \subseteq VPages
    BY CallTypes DEF IInv
  <1>3. c.va \in VPages
    BY <1>1, <1>2
  <1>4. /\ m.sp \in Space
        /\ m.used \in SUBSET Frames /\ used \subseteq m.used
        /\ Shape(m.sp, c.stack)
        /\ OwnedBy(m.sp, c.stack) \subseteq m.used
        /\ OwnedBy(m.sp, c.stack) \cap used \subseteq OwnedBy(c.new, c.stack)
        /\ c.new.pages \subseteq m.sp.pages
        /\ Others(c.new, c.stack) \subseteq Others(m.sp, c.stack)
    BY <1>3, NewPageIs DEF Others
  <1>5. CASE m.ok /\ used' = m.used /\ UNCHANGED <<proc, space>>
             /\ call' = [call EXCEPT ![t].new = m.sp, ![t].va = @ + 1]
    <2>1. call' = [call EXCEPT ![t] = d]
      BY <1>5 DEF IInv, TypeOK
    <2>2. /\ d.new = m.sp /\ d.stack = c.stack /\ d.op = c.op /\ d.who = c.who
          /\ d.va = c.va + 1 /\ d.end = c.end
      <3> HIDE DEF c, m
      <3> QED
        BY <1>2 DEF Call
    <2>3. d \in Call
      <3>1. c.va + 1 \in Int
        BY <1>2
      <3> DEFINE next == c.va + 1
                 e == [c EXCEPT !.new = m.sp]
      <3>2. e \in Call
        <4> HIDE DEF c, m
        <4> QED
          BY <1>2, <1>4 DEF Call
      <3>3. d = [e EXCEPT !.va = next]
        OBVIOUS
      <3> HIDE DEF c, m, d, e, next
      <3>4. [e EXCEPT !.va = next] \in Call
        BY <3>1, <3>2 DEF Call, next
      <3> QED
        BY <3>3, <3>4
    <2>4. d.va .. d.end - 1 \subseteq VPages
      <3>1. (c.va + 1) .. c.end - 1 \subseteq c.va .. c.end - 1
        BY <1>2
      <3> QED
        BY <1>2, <2>2, <3>1
    <2> HIDE DEF d
    <2>5. /\ call' \in [Threads -> Call] /\ call'[t] = d
          /\ \A x \in Threads \ {t} : call'[x] = call[x]
          /\ \A x \in Threads : call'[x].va .. call'[x].end - 1 \subseteq VPages
      BY <2>1, <2>3, <2>4, CallSet DEF IInv
    <2>6. UNCHANGED <<state, kstack, user_brk, mmap_base, space>>
      BY <1>5 DEF proc
    <2>7. Shapes' /\ Exclusive' /\ Moves
      <3>1. used' = m.used
        BY <1>5
      <3>2. call'[t].new = m.sp /\ call'[t].stack = c.stack
        BY <2>2, <2>5
      <3> HIDE DEF m
      <3> QED
        BY <1>4, <2>5, <2>6, <3>1, <3>2, CallChanges DEF IInv
    <2>8. TypeOK'
      <3>1. used' \subseteq Frames
        BY <1>4, <1>5
      <3> QED
        BY <2>5, <2>6, <3>1 DEF IInv, TypeOK
    <2>9. CallIs(call[t])'
      <3>1. CallIs(c) /\ c.op \in {"create", "exec"}
        BY <1>1 DEF IInv, Calls, Building
      <3> QED
        BY <2>2, <2>5, <2>6, <3>1 DEF CallIs
    <2>10. Calls'
      <3>1. (t = "kernel" => d.op \in KernelOps) /\ (t = "syscall" => d.op \in SyscallOps)
        BY <2>2 DEF IInv, Calls
      <3> QED
        BY <2>5, <2>6, <2>9, <3>1, CallsNext DEF IInv
    <2>11. Slots'
      BY <2>6 DEF IInv, Slots
    <2> QED
      BY <2>7, <2>8, <2>10, <2>11 DEF Good, IInv
  <1>6. CASE ~m.ok /\ Fail(t, m.used, m.sp)
    <2>1. Fail(t, m.used, m.sp)
      BY <1>6
    <2> HIDE DEF m
    <2> QED
      BY <1>4, <2>1, FailKeeps
  <1> QED
    BY <1>5, <1>6 DEF MapImage

\* A process is committed: the types, and the slots.
LEMMA CommitIs ==
    ASSUME IInv, NEW s \in Procs, NEW sp \in Space, NEW k \in MaybeFrame, NEW brk \in VPages,
           Commit(s, sp, k, brk)
    PROVE  /\ state' \in [Procs -> {"empty", "ready", "exited"}]
           /\ kstack' \in [Procs -> MaybeFrame] /\ space' \in [Procs -> Space]
           /\ user_brk' \in [Procs -> VPages] /\ mmap_base' \in [Procs -> VPages]
           /\ state'[s] = "ready" /\ space'[s] = sp /\ kstack'[s] = k
           /\ \A r \in Procs \ {s} : /\ state'[r] = state[r] /\ space'[r] = space[r]
                                     /\ kstack'[r] = kstack[r]
           /\ Slots'
  <1>1. /\ state \in [Procs -> {"empty", "ready", "exited"}]
        /\ kstack \in [Procs -> MaybeFrame] /\ space \in [Procs -> Space]
        /\ user_brk \in [Procs -> VPages] /\ mmap_base \in [Procs -> VPages]
    BY DEF IInv, TypeOK
  <1>2. STACK_VA - 1 \in VPages
    BY LayoutIs
  <1>3. /\ state' = [state EXCEPT ![s] = "ready"] /\ space' = [space EXCEPT ![s] = sp]
        /\ kstack' = [kstack EXCEPT ![s] = k] /\ user_brk' = [user_brk EXCEPT ![s] = brk]
        /\ mmap_base' = [mmap_base EXCEPT ![s] = STACK_VA - 1]
    BY DEF Commit
  <1>4. /\ state'[s] = "ready" /\ space'[s] = sp /\ kstack'[s] = k
        /\ \A r \in Procs \ {s} : /\ state'[r] = state[r] /\ space'[r] = space[r]
                                  /\ kstack'[r] = kstack[r]
    BY <1>1, <1>3
  <1>5. Slots'
    BY <1>4 DEF IInv, Slots
  <1> QED
    BY <1>1, <1>2, <1>3, <1>4, <1>5

LEMMA FinishKeeps ==
    ASSUME IInv, NEW t \in Threads, Finish(t)
    PROVE  Good
  <1> DEFINE c == call[t]
             m == NewPage(t, STACK_VA)
             s == c.who
             old == OwnedBy(space[s], kstack[s])
             built == OwnedBy(c.new, c.stack)
  <1>1. Building(t) /\ c.op \in {"create", "exec"}
    BY DEF Finish, Building
  <1>2. c \in Call /\ c.base \in VPages /\ c.stack \in MaybeFrame
    BY CallTypes DEF IInv
  <1>3. /\ m.sp \in Space
        /\ m.used \in SUBSET Frames /\ used \subseteq m.used
        /\ Shape(m.sp, c.stack)
        /\ OwnedBy(m.sp, c.stack) \subseteq m.used
        /\ OwnedBy(m.sp, c.stack) \cap used \subseteq built
        /\ c.new.pages \subseteq m.sp.pages /\ m.sp.pages \cap used \subseteq c.new.pages
        /\ TableFrames(c.new) \subseteq TableFrames(m.sp)
    BY LayoutIs, NewPageIs
  <1>4. /\ CallIs(c)
        /\ s \in Procs /\ state[s] = IF c.op = "create" THEN "empty" ELSE "ready"
        /\ c.op = "exec" => c.stack = NoFrame
    BY <1>1 DEF IInv, Calls, CallIs
  <1>5. /\ space[s] \in Space /\ kstack[s] \in MaybeFrame /\ Shape(space[s], kstack[s])
        /\ old \subseteq used /\ built \subseteq used /\ old \cap built = {}
    BY <1>4, OwnedIsUsed
  <1>6. \A x \in Threads \ {t} : call[x].op \in {"idle", "find_elf", "find_user"}
                                 \/ (t = "syscall" /\ call[x].op = "create"
                                     /\ call[x].who \in Procs /\ state[call[x].who] = "empty")
    <2>1. CASE t = "kernel"
      <3>1. call["syscall"].op = "idle"
        BY <1>1, <2>1, WhoRuns
      <3> QED
        BY <2>1, <3>1 DEF Threads
    <2>2. CASE t = "syscall"
      <3>1. call["kernel"].op \in KernelOps /\ CallIs(call["kernel"])
        BY DEF IInv, Calls, Threads
      <3> QED
        BY <2>2, <3>1 DEF Threads, CallIs, KernelOps
    <2> QED
      BY <2>1, <2>2 DEF Threads
  <1> HIDE DEF m
  <1>7. ASSUME Return(t), NEW k \in MaybeFrame, Commit(s, m.sp, k, c.base),
               Shape(m.sp, k), used' \in SUBSET Frames,
               OwnedBy(m.sp, k) \subseteq used', OwnedBy(m.sp, k) \cap used \subseteq old \cup built,
               used \ (old \cup built) \subseteq used',
               \A f \in space[s].pages : f \notin used',
               Others(c.new, c.stack) \subseteq Others(m.sp, k),
               t = "syscall" => state[s] = "ready"
        PROVE  Good
    <2>1. /\ call' \in [Threads -> Call] /\ call'[t] = Idle
          /\ \A x \in Threads \ {t} : call'[x] = call[x]
          /\ \A x \in Threads : call'[x].va .. call'[x].end - 1 \subseteq VPages
      BY <1>7, ReturnIs DEF IInv
    <2>2. /\ state' \in [Procs -> {"empty", "ready", "exited"}]
          /\ kstack' \in [Procs -> MaybeFrame] /\ space' \in [Procs -> Space]
          /\ user_brk' \in [Procs -> VPages] /\ mmap_base' \in [Procs -> VPages]
          /\ space'[s] = m.sp /\ kstack'[s] = k
          /\ \A r \in Procs \ {s} : /\ state'[r] = state[r] /\ space'[r] = space[r]
                                    /\ kstack'[r] = kstack[r]
          /\ Slots'
      BY <1>2, <1>3, <1>4, <1>7, CommitIs
    <2>3. Shape(call'[t].new, call'[t].stack) /\ OwnedBy(call'[t].new, call'[t].stack) = {}
      BY <2>1, IdleIs, NoSpaceIs
    <2>4. Shapes' /\ Exclusive' /\ Moves
      BY <1>3, <1>4, <1>7, <2>1, <2>2, <2>3, HandedOver DEF IInv
    <2>5. TypeOK'
      BY <1>7, <2>1, <2>2 DEF TypeOK
    <2>6. Calls'
      <3>1. ASSUME NEW x \in Threads \ {t}
            PROVE  \/ call[x].op \in {"idle", "find_elf", "find_user"}
                   \/ state'[call[x].who] = state[call[x].who]
        <4>1. CASE t = "syscall" /\ call[x].op = "create"
                     /\ call[x].who \in Procs /\ state[call[x].who] = "empty"
          <5>1. call[x].who # s
            BY <1>7, <4>1
          <5> QED
            BY <2>2, <4>1, <5>1
        <4> QED
          BY <1>6, <4>1
      <3> QED
        BY <1>7, <3>1, CallsReturn
    <2> QED
      BY <2>2, <2>4, <2>5, <2>6 DEF Good, IInv
  <1>8. CASE m.ok /\ c.op = "create" /\ Commit(s, m.sp, c.stack, c.base) /\ used' = m.used
             /\ Return(t)
    <2>1. space[s] = NoSpace /\ kstack[s] = NoFrame /\ state[s] = "empty"
      BY <1>4, <1>8 DEF IInv, Slots
    <2>2. space[s].pages = {}
      BY <2>1, NoSpaceIs
    <2>3. t = "kernel"
      BY <1>1, <1>8, WhoRuns DEF Threads
    <2>4. Others(c.new, c.stack) \subseteq Others(m.sp, c.stack)
      BY <1>3 DEF Others
    <2> QED
      BY <1>2, <1>3, <1>7, <1>8, <2>2, <2>3, <2>4
  <1>9. CASE m.ok /\ c.op = "exec" /\ Commit(s, m.sp, kstack[s], c.base)
             /\ used' = m.used \ ExecFrees(s) /\ Return(t)
    <2>1. used' = m.used \ space[s].pages
      BY <1>9 DEF ExecFrees
    <2>2. state[s] = "ready" /\ c.stack = NoFrame
      BY <1>4, <1>9
    <2>3. OwnedBy(m.sp, c.stack) = m.sp.pages \cup TableFrames(m.sp)
      BY <2>2, NoSpaceIs DEF OwnedBy
    <2>4. OwnedBy(m.sp, kstack[s]) = m.sp.pages \cup TableFrames(m.sp) \cup StackFrames(kstack[s])
      BY DEF OwnedBy
    <2>5. space[s].pages \subseteq old /\ StackFrames(kstack[s]) \subseteq old
      BY DEF OwnedBy
    <2>6. (m.sp.pages \cup TableFrames(m.sp)) \cap old = {}
      BY <1>3, <1>5, <2>3
    <2>7. Shape(m.sp, kstack[s])
      BY <1>3, <2>5, <2>6 DEF Shape
    <2>8. OwnedBy(m.sp, kstack[s]) \subseteq used'
      <3>1. StackFrames(kstack[s]) \cap space[s].pages = {}
        BY <1>5 DEF Shape
      <3> QED
        BY <1>3, <1>5, <2>1, <2>3, <2>4, <2>5, <2>6, <3>1
    <2>9. OwnedBy(m.sp, kstack[s]) \cap used \subseteq old \cup built
      BY <1>3, <2>3, <2>4, <2>5
    <2>10. used \ (old \cup built) \subseteq used'
      BY <1>3, <2>1, <2>5
    <2>11. /\ \A f \in space[s].pages : f \notin used'
           /\ Others(c.new, c.stack) \subseteq Others(m.sp, kstack[s])
      BY <1>3, <2>1, <2>2, NoSpaceIs DEF Others
    <2>12. used' \in SUBSET Frames
      BY <1>3, <2>1
    <2> QED
      BY <1>5, <1>7, <1>9, <2>2, <2>7, <2>8, <2>9, <2>10, <2>11, <2>12
  <1>10. CASE Fail(t, m.used, m.sp)
    BY <1>3, <1>10, FailKeeps
  <1> QED
    BY <1>8, <1>9, <1>10 DEF Finish, m

-----------------------------------------------------------------------------
(* The beginning of a creation and of an exec.                             *)

LEMMA ExecBeginKeeps ==
    ASSUME IInv, NEW s \in Procs, ExecBegin(s)
    PROVE  Good
  <1> DEFINE t == "syscall"
             d == FirstFit(used, 1)
             sp == [NoSpace EXCEPT !.pd = d, !.pages = {d}]
  <1>1. PICK image \in Images :
            call' = [call EXCEPT ![t] = [Idle EXCEPT !.op = "exec", !.who = s, !.segs = image,
                                                     !.new = sp]]
    BY DEF ExecBegin
  <1> DEFINE c == [Idle EXCEPT !.op = "exec", !.who = s, !.segs = image, !.new = sp]
  <1>2. /\ SyscallIdle /\ state[s] = "ready" /\ d # NoFrame /\ used' = AfterAlloc(used, 1)
        /\ UNCHANGED <<state, kstack, user_brk, mmap_base, space>> /\ t \in Threads
    BY DEF ExecBegin, proc, Threads
  <1>3. /\ d \in Frames /\ d \notin used /\ used' = used \cup {d} /\ used' \in SUBSET Frames
    BY <1>2, OneFrame, OwnedIsUsed DEF MaybeFrame
  <1> HIDE DEF d
  <1>4. /\ sp \in Space /\ sp.pages = {d} /\ Shape(sp, NoFrame) /\ OwnedBy(sp, NoFrame) = {d}
    <2>1. NoFrame \in MaybeFrame /\ StackFrames(NoFrame) = {}
      BY NoSpaceIs DEF MaybeFrame
    <2>2. /\ sp \in Space /\ sp.pages = {d} /\ Shape(sp, NoFrame)
          /\ OwnedBy(sp, NoFrame) = {d} \cup StackFrames(NoFrame)
      BY <1>3, <2>1, NewSpaceIs
    <2> HIDE DEF sp
    <2> QED
      BY <2>1, <2>2
  <1> HIDE DEF sp
  <1>5. /\ c \in Call /\ c.op = "exec" /\ c.who = s /\ c.new = sp /\ c.stack = NoFrame
        /\ c.va = 0 /\ c.end = 0
    BY <1>4, IdleIs, ImagesAssumption DEF Call
  <1>6. c.va .. c.end - 1 \subseteq VPages
    BY <1>5
  <1> HIDE DEF c
  <1>7. /\ call' \in [Threads -> Call] /\ call'[t] = c
        /\ \A x \in Threads \ {t} : call'[x] = call[x]
        /\ \A x \in Threads : call'[x].va .. call'[x].end - 1 \subseteq VPages
    BY <1>1, <1>2, <1>5, <1>6, CallSet DEF IInv, c
  <1>8. call[t].new = NoSpace /\ call[t].stack = NoFrame
    BY <1>2, IdleIs DEF SyscallIdle
  <1>9. Shapes' /\ Exclusive' /\ Moves
    <2>1. /\ OwnedBy(call[t].new, call[t].stack) = {} /\ call[t].new.pages = {}
          /\ Others(call[t].new, call[t].stack) = {}
      BY <1>8, NoSpaceIs DEF Others
    <2>2. UNCHANGED <<space, kstack>>
      BY <1>2
    <2>3. call'[t].new = sp /\ call'[t].stack = NoFrame
      BY <1>5, <1>7
    <2> QED
      BY <1>2, <1>3, <1>4, <1>7, <2>1, <2>2, <2>3, CallChanges DEF IInv
  <1>10. TypeOK'
    BY <1>2, <1>3, <1>7 DEF IInv, TypeOK
  <1>11. Calls'
    <2>1. CallIs(call[t])'
      BY <1>2, <1>5, <1>7 DEF CallIs
    <2>2. call'[t].op \in SyscallOps
      BY <1>5, <1>7 DEF SyscallOps
    <2> QED
      BY <1>2, <1>7, <2>1, <2>2, CallsNext DEF IInv
  <1>12. Slots'
    BY <1>2 DEF IInv, Slots
  <1> QED
    BY <1>9, <1>10, <1>11, <1>12 DEF Good, IInv

LEMMA ElfBeginKeeps ==
    ASSUME IInv, ElfBegin
    PROVE  Good
  <1> DEFINE t == "kernel"
             k == FirstFit(used, 2)
             u1 == AfterAlloc(used, 2)
             d == FirstFit(u1, 1)
             sp == [NoSpace EXCEPT !.pd = d, !.pages = {d}]
  <1>1. /\ SyscallIdle /\ call[t].op = "find_elf" /\ t \in Threads
        /\ UNCHANGED <<state, kstack, user_brk, mmap_base, space>>
    BY DEF ElfBegin, proc, Threads
  <1>2. /\ k \in MaybeFrame /\ StackFrames(k) \cap used = {}
        /\ u1 = used \cup StackFrames(k) /\ u1 \in SUBSET Frames
    BY TwoFrames, OwnedIsUsed
  <1>3. /\ d \in MaybeFrame /\ d \notin u1
        /\ AfterAlloc(u1, 1) = u1 \cup ({d} \ {NoFrame}) /\ AfterAlloc(u1, 1) \in SUBSET Frames
    BY <1>2, OneFrame
  <1>4. call[t].new = NoSpace /\ call[t].stack = NoFrame
    BY <1>1 DEF IInv, Calls, CallIs
  <1>5. /\ OwnedBy(call[t].new, call[t].stack) = {} /\ call[t].new.pages = {}
        /\ Others(call[t].new, call[t].stack) = {}
    BY <1>4, NoSpaceIs DEF Others
  <1>6. Slots'
    BY <1>1 DEF IInv, Slots
  <1>7. CASE Return(t) /\ used' \in {used, u1}
    <2>1. /\ call' \in [Threads -> Call] /\ call'[t] = Idle
          /\ \A x \in Threads \ {t} : call'[x] = call[x]
          /\ \A x \in Threads : call'[x].va .. call'[x].end - 1 \subseteq VPages
      BY <1>1, <1>7, ReturnIs DEF IInv
    <2>2. used \subseteq used' /\ used' \in SUBSET Frames
      BY <1>2, <1>7, OwnedIsUsed
    <2>3. Shapes' /\ Exclusive' /\ Moves
      <3>1. Shape(call'[t].new, call'[t].stack) /\ OwnedBy(call'[t].new, call'[t].stack) = {}
        BY <2>1, IdleIs, NoSpaceIs
      <3> QED
        BY <1>1, <1>5, <2>1, <2>2, <3>1, CallChanges DEF IInv
    <2>4. TypeOK'
      BY <1>1, <2>1, <2>2 DEF IInv, TypeOK
    <2>5. Calls'
      BY <1>1, <1>7, CallsReturn
    <2> QED
      BY <1>6, <2>3, <2>4, <2>5 DEF Good, IInv
  <1>8. ASSUME k # NoFrame, d # NoFrame, used' = AfterAlloc(u1, 1), NEW s \in Procs, FreeSlot(s),
               call' = [call EXCEPT ![t].op = "create", ![t].who = s, ![t].new = sp,
                                    ![t].stack = k]
        PROVE  Good
    <2>1. /\ call[t] \in Call
          /\ call[t].va .. call[t].end - 1 \subseteq VPages
      BY <1>1, CallTypes DEF IInv
    <2> DEFINE b == call[t]
               c == [b EXCEPT !.op = "create", !.who = s, !.new = sp, !.stack = k]
    <2>2. call' = [call EXCEPT ![t] = c]
      BY <1>1, <1>8 DEF IInv, TypeOK
    <2>3. d \in Frames /\ d \notin StackFrames(k)
      BY <1>2, <1>3, <1>8 DEF MaybeFrame
    <2> HIDE DEF b, d, k, u1
    <2>4. /\ sp \in Space /\ sp.pages = {d} /\ Shape(sp, k)
          /\ OwnedBy(sp, k) = {d} \cup StackFrames(k)
      BY <1>2, <2>3, NewSpaceIs
    <2> HIDE DEF sp
    <2>5. b \in Call /\ b.va .. b.end - 1 \subseteq VPages
      BY <2>1 DEF b
    <2>6. /\ c \in Call /\ c.op = "create" /\ c.who = s /\ c.new = sp /\ c.stack = k
          /\ c.va = b.va /\ c.end = b.end
      BY <1>2, <2>4, <2>5 DEF Call
    <2> HIDE DEF c
    <2>7. /\ call' \in [Threads -> Call] /\ call'[t] = c
          /\ \A x \in Threads \ {t} : call'[x] = call[x]
          /\ \A x \in Threads : call'[x].va .. call'[x].end - 1 \subseteq VPages
      BY <1>1, <2>2, <2>5, <2>6, CallSet DEF IInv
    <2>8. used' = used \cup StackFrames(k) \cup {d} /\ used' \in SUBSET Frames
      BY <1>2, <1>3, <1>8
    <2>9. Shapes' /\ Exclusive' /\ Moves
      <3>1. OwnedBy(call'[t].new, call'[t].stack) \cap used = {}
        BY <1>2, <1>3, <2>4, <2>6, <2>7
      <3>2. call'[t].new = sp /\ call'[t].stack = k
        BY <2>6, <2>7
      <3>3. OwnedBy(call'[t].new, call'[t].stack) \subseteq used' /\ used \subseteq used'
        BY <2>4, <2>8, <3>2
      <3>4. Shape(call'[t].new, call'[t].stack)
        BY <2>4, <3>2
      <3>5. used \ OwnedBy(call[t].new, call[t].stack) \subseteq used'
        BY <3>3
      <3> QED
        BY <1>1, <1>5, <2>7, <3>1, <3>3, <3>4, <3>5, CallChanges DEF IInv
    <2>10. TypeOK'
      BY <1>1, <2>7, <2>8 DEF IInv, TypeOK
    <2>11. Calls'
      <3>1. CallIs(call[t])'
        BY <1>1, <1>8, <2>6, <2>7 DEF CallIs, FreeSlot
      <3>2. call'[t].op \in KernelOps
        BY <2>6, <2>7 DEF KernelOps
      <3> QED
        BY <1>1, <2>7, <3>1, <3>2, CallsNext DEF IInv
    <2> QED
      BY <1>6, <2>9, <2>10, <2>11 DEF Good, IInv
  <1> QED
    BY <1>7, <1>8 DEF ElfBegin

\* exit, and a kill: the process keeps what it owns until the reap.
LEMMA ExitKeeps ==
    ASSUME IInv, NEW s \in Procs, Exit(s)
    PROVE  Good
  <1>1. /\ state' = [state EXCEPT ![s] = "exited"] /\ state[s] = "ready" /\ SyscallIdle
        /\ UNCHANGED <<used, kstack, space, user_brk, mmap_base, call>>
    BY DEF Exit
  <1>2. Shapes' /\ Exclusive' /\ Moves
    <2>1. "kernel" \in Threads
      BY DEF Threads
    <2> QED
      BY <1>1, <2>1, QuietKeeps
  <1>3. TypeOK'
    BY <1>1 DEF IInv, TypeOK
  <1>4. Calls'
    <2>1. \A x \in Threads : x = "syscall" => call[x].op = "idle"
      BY <1>1, WhoRuns
    <2>2. \A x \in Threads : (CallIs(call[x]) /\ call[x].op \in KernelOps) \/ call[x].op = "idle"
      BY <2>1 DEF IInv, Calls, Threads
    <2>3. \A x \in Threads : CallIs(call[x])
      BY DEF IInv, Calls
    <2>4. state \in [Procs -> {"empty", "ready", "exited"}]
      BY DEF IInv, TypeOK
    <2>5. ASSUME NEW x \in Threads PROVE CallIs(call[x])'
      <3>1. CallIs(call[x]) /\ call[x].op \notin {"exec", "brk", "mmap"} /\ call'[x] = call[x]
        BY <1>1, <2>2, <2>3 DEF KernelOps
      <3> QED
        BY <1>1, <2>4, <3>1 DEF CallIs
    <2> QED
      BY <1>1, <2>5 DEF IInv, Calls, KernelOps, SyscallOps, Threads
  <1>5. Slots'
    BY <1>1 DEF IInv, TypeOK, Slots
  <1> QED
    BY <1>2, <1>3, <1>4, <1>5 DEF Good, IInv

-----------------------------------------------------------------------------
(* The system calls.                                                       *)

\* brk and mmap begin, with a range of pages of the process.
LEMMA BeginKeeps ==
    ASSUME IInv, NEW s \in Procs, NEW o \in {"brk", "mmap"}, NEW from \in VPages,
           NEW to \in VPages, from <= to, to <= STACK_VA - 1, Begin(o, s, from, to)
    PROVE  Good
  <1> DEFINE t == "syscall"
             c == [Idle EXCEPT !.op = o, !.who = s, !.va = from, !.base = from, !.end = to]
  <1>1. /\ SyscallIdle /\ state[s] = "ready" /\ call' = [call EXCEPT ![t] = c] /\ t \in Threads
        /\ UNCHANGED <<used, state, kstack, user_brk, mmap_base, space>>
    BY DEF Begin, proc, Threads
  <1>2. from \in Int /\ to \in Int /\ from >= 0 /\ to <= STACK_VA
    BY LayoutIs DEF VPages
  <1>3. /\ c \in Call /\ c.op = o /\ c.who = s /\ c.new = NoSpace /\ c.stack = NoFrame
        /\ c.va = from /\ c.end = to /\ c.base = from
    BY <1>2, IdleIs DEF Call
  <1> HIDE DEF c
  <1>4. c.va .. c.end - 1 \subseteq VPages
    BY <1>2, <1>3, LayoutIs DEF VPages
  <1>5. /\ call' \in [Threads -> Call] /\ call'[t] = c
        /\ \A x \in Threads \ {t} : call'[x] = call[x]
        /\ \A x \in Threads : call'[x].va .. call'[x].end - 1 \subseteq VPages
    BY <1>1, <1>3, <1>4, CallSet DEF IInv
  <1>6. call[t].new = NoSpace /\ call[t].stack = NoFrame
    BY <1>1, IdleIs DEF SyscallIdle
  <1>7. Shapes' /\ Exclusive' /\ Moves
    BY <1>1, <1>3, <1>5, <1>6, QuietKeeps
  <1>8. TypeOK'
    BY <1>1, <1>5 DEF IInv, TypeOK
  <1>9. Calls'
    <2>1. CallIs(call[t])'
      BY <1>1, <1>2, <1>3, <1>5 DEF CallIs
    <2>2. call'[t].op \in SyscallOps
      BY <1>3, <1>5 DEF SyscallOps
    <2> QED
      BY <1>1, <1>5, <2>1, <2>2, CallsNext DEF IInv
  <1>10. Slots'
    BY <1>1 DEF IInv, Slots
  <1> QED
    BY <1>7, <1>8, <1>9, <1>10 DEF Good, IInv

LEMMA BrkBeginKeeps == ASSUME IInv, NEW s \in Procs, BrkBegin(s) PROVE Good
  <1>1. PICK addr \in VPages : /\ addr > user_brk[s] /\ addr <= STACK_VA - 1
                               /\ Begin("brk", s, user_brk[s], addr)
    BY DEF BrkBegin
  <1>2. user_brk[s] \in VPages
    BY DEF IInv, TypeOK
  <1>3. user_brk[s] <= addr
    BY <1>1, <1>2 DEF VPages
  <1> QED
    BY <1>1, <1>2, <1>3, BeginKeeps

LEMMA MmapBeginKeeps == ASSUME IInv, NEW s \in Procs, MmapBegin(s) PROVE Good
  <1>1. PICK n \in 1 .. STACK_VA, fixed \in BOOLEAN, at \in VPages :
            LET b == IF fixed THEN at ELSE mmap_base[s] - n
            IN  MmapFits(s, b, n) /\ Begin("mmap", s, b, b + n)
    BY DEF MmapBegin
  <1> DEFINE b == IF fixed THEN at ELSE mmap_base[s] - n
  <1>2. mmap_base[s] \in VPages
    BY DEF IInv, TypeOK
  <1>3. b \in Int /\ n \in Int /\ n >= 1
    BY <1>2 DEF VPages
  <1>4. MmapFits(s, b, n) /\ Begin("mmap", s, b, b + n)
    BY <1>1
  <1> HIDE DEF b
  <1>5. b >= 0 /\ b + n <= STACK_VA - 1
    BY <1>4 DEF MmapFits
  <1>6. b \in VPages /\ b + n \in VPages /\ b <= b + n
    BY <1>3, <1>5, LayoutIs DEF VPages
  <1> QED
    BY <1>4, <1>5, <1>6, BeginKeeps

\* The call under way, its process, and its range.
LEMMA SysIs ==
    ASSUME IInv, Sys.op \in {"brk", "mmap"}
    PROVE  /\ "syscall" \in Threads /\ Sys.who \in Procs /\ state[Sys.who] = "ready"
           /\ Sys.new = NoSpace /\ Sys.stack = NoFrame
           /\ Sys \in Call /\ Sys.va \in Int /\ Sys.end \in VPages /\ Sys.base \in VPages
           /\ Sys.base <= Sys.va /\ Sys.va <= Sys.end /\ Sys.va \in VPages
           /\ Sys.base .. Sys.va - 1 \subseteq VPages
  <1>1. "syscall" \in Threads
    BY DEF Threads
  <1>2. Sys \in Call /\ Sys.va \in Int /\ Sys.base \in VPages
    BY <1>1, CallTypes DEF IInv, Sys
  <1>3. CallIs(Sys)
    BY <1>1 DEF IInv, Calls, Sys
  <1>4. /\ Sys.who \in Procs /\ state[Sys.who] = "ready"
        /\ Sys.new = NoSpace /\ Sys.stack = NoFrame
        /\ Sys.base <= Sys.va /\ Sys.va <= Sys.end /\ Sys.end \in VPages
    BY <1>3 DEF CallIs
  <1>5. Sys.va \in VPages /\ Sys.base .. Sys.va - 1 \subseteq VPages
    BY <1>2, <1>4, LayoutIs DEF VPages
  <1> QED
    BY <1>1, <1>2, <1>4, <1>5

\* The end of brk and of mmap.
LEMMA EndKeeps ==
    ASSUME IInv, Sys.op \in {"brk", "mmap"}, Return("syscall"),
           UNCHANGED <<used, state, kstack, space>>,
           user_brk' \in [Procs -> VPages], mmap_base' \in [Procs -> VPages]
    PROVE  Good
  <1>1. "syscall" \in Threads /\ call["syscall"].new = NoSpace /\ call["syscall"].stack = NoFrame
    BY SysIs DEF Sys
  <1>2. /\ call' \in [Threads -> Call] /\ call'["syscall"] = Idle
        /\ \A x \in Threads \ {"syscall"} : call'[x] = call[x]
        /\ \A x \in Threads : call'[x].va .. call'[x].end - 1 \subseteq VPages
    BY <1>1, ReturnIs DEF IInv
  <1>3. Shapes' /\ Exclusive' /\ Moves
    BY <1>1, <1>2, IdleIs, QuietKeeps
  <1>4. TypeOK'
    BY <1>2 DEF IInv, TypeOK
  <1>5. Calls'
    BY <1>1, CallsReturn
  <1>6. Slots'
    BY DEF IInv, Slots
  <1> QED
    BY <1>3, <1>4, <1>5, <1>6 DEF Good, IInv

LEMMA BrkEndKeeps == ASSUME IInv, BrkEnd PROVE Good
  <1>1. /\ Sys.op = "brk" /\ user_brk' = [user_brk EXCEPT ![Sys.who] = Sys.end]
        /\ Return("syscall") /\ UNCHANGED <<used, state, kstack, mmap_base, space>>
    BY DEF BrkEnd
  <1>2. Sys.end \in VPages
    BY <1>1, SysIs
  <1>3. user_brk' \in [Procs -> VPages] /\ mmap_base' \in [Procs -> VPages]
    BY <1>1, <1>2 DEF IInv, TypeOK
  <1> QED
    BY <1>1, <1>3, EndKeeps

LEMMA MmapEndKeeps == ASSUME IInv, MmapEnd PROVE Good
  <1>1. /\ Sys.op = "mmap" /\ mmap_base' = [mmap_base EXCEPT ![Sys.who] = Sys.base]
        /\ Return("syscall") /\ UNCHANGED <<used, state, kstack, user_brk, space>>
    BY DEF MmapEnd
  <1>2. Sys.base \in VPages
    BY <1>1, SysIs
  <1>3. user_brk' \in [Procs -> VPages] /\ mmap_base' \in [Procs -> VPages]
    BY <1>1, <1>2 DEF IInv, TypeOK
  <1> QED
    BY <1>1, <1>3, EndKeeps

\* What the space of a process becomes when a call maps or unmaps pages of it, and
\* goes on with the next page, returns, or was one step.
LEMMA PageKeeps ==
    ASSUME IInv, NEW s \in Procs, state[s] = "ready", NEW sp \in Space,
           space' = [space EXCEPT ![s] = sp], used' \in SUBSET Frames,
           UNCHANGED <<state, kstack, user_brk, mmap_base>>,
           \/ Sys.op \in {"brk", "mmap"} /\ Sys.va < Sys.end /\ NextPage
           \/ Return("syscall")
           \/ UNCHANGED call,
           Sys.new = NoSpace, Sys.stack = NoFrame,
           Shape(sp, kstack[s]), OwnedBy(sp, kstack[s]) \subseteq used',
           OwnedBy(sp, kstack[s]) \cap used \subseteq OwnedBy(space[s], kstack[s]),
           used \ OwnedBy(space[s], kstack[s]) \subseteq used',
           \A f \in space[s].pages : f \in used' => f \in sp.pages,
           Others(space[s], kstack[s]) \subseteq Others(sp, kstack[s])
    PROVE  Good
  <1> DEFINE t == "syscall"
  <1>1. t \in Threads
    BY DEF Threads
  <1>2. /\ call' \in [Threads -> Call]
        /\ \A x \in Threads \ {t} : call'[x] = call[x]
        /\ \A x \in Threads : call'[x].va .. call'[x].end - 1 \subseteq VPages
        /\ call'[t].new = NoSpace /\ call'[t].stack = NoFrame
        /\ Calls'
    <2>1. CASE Sys.op \in {"brk", "mmap"} /\ Sys.va < Sys.end /\ NextPage
      <3> DEFINE c == [Sys EXCEPT !.va = Sys.va + 1]
      <3>1. /\ Sys \in Call /\ Sys.va \in Int /\ Sys.end \in VPages /\ Sys.base \in VPages
            /\ Sys.base <= Sys.va /\ CallIs(Sys) /\ Sys.va .. Sys.end - 1 \subseteq VPages
        BY <1>1, <2>1, SysIs, CallTypes DEF IInv, Calls, Sys
      <3>2. call' = [call EXCEPT ![t] = c]
        BY <1>1, <2>1 DEF IInv, TypeOK, NextPage, Sys
      <3>3. /\ c \in Call /\ c.va = Sys.va + 1 /\ c.end = Sys.end /\ c.base = Sys.base
            /\ c.op = Sys.op /\ c.who = Sys.who /\ c.new = Sys.new /\ c.stack = Sys.stack
        <4> DEFINE next == Sys.va + 1
                   b == Sys
        <4>1. next \in Int /\ b \in Call
          BY <3>1
        <4>2. c = [b EXCEPT !.va = next]
          OBVIOUS
        <4> HIDE DEF next, b
        <4>3. [b EXCEPT !.va = next] \in Call
          BY <4>1 DEF Call
        <4>4. LET e == [b EXCEPT !.va = next]
              IN  /\ e.va = next /\ e.end = b.end /\ e.base = b.base
                  /\ e.op = b.op /\ e.who = b.who /\ e.new = b.new /\ e.stack = b.stack
          BY <4>1 DEF Call
        <4> QED
          BY <4>2, <4>3, <4>4 DEF next, b
      <3> HIDE DEF c
      <3>4. Sys.end \in Int /\ Sys.base \in Int
        BY <3>1 DEF VPages
      <3>5. c.va .. c.end - 1 \subseteq VPages
        <4>1. Sys.va + 1 .. Sys.end - 1 \subseteq Sys.va .. Sys.end - 1
          BY <3>1, <3>4
        <4> QED
          BY <3>1, <3>3, <4>1
      <3>6. /\ call' \in [Threads -> Call] /\ call'[t] = c
            /\ \A x \in Threads \ {t} : call'[x] = call[x]
            /\ \A x \in Threads : call'[x].va .. call'[x].end - 1 \subseteq VPages
        BY <1>1, <3>2, <3>3, <3>5, CallSet DEF IInv
      <3>7. CallIs(call[t])'
        BY <2>1, <3>1, <3>3, <3>4, <3>6 DEF CallIs
      <3>8. call'[t].op \in SyscallOps
        BY <2>1, <3>3, <3>6 DEF SyscallOps
      <3>9. Calls'
        BY <1>1, <3>6, <3>7, <3>8, CallsNext DEF IInv
      <3> QED
        BY <3>3, <3>6, <3>9
    <2>2. CASE Return("syscall")
      <3>1. Calls'
        BY <1>1, <2>2, CallsReturn
      <3> QED
        BY <1>1, <2>2, <3>1, ReturnIs, IdleIs DEF IInv
    <2>3. CASE UNCHANGED call
      <3>1. Calls'
        BY <2>3 DEF IInv, Calls, CallIs, Threads, KernelOps, SyscallOps
      <3> QED
        BY <1>1, <2>3, <3>1 DEF IInv, TypeOK, Sys
    <2> QED
      BY <2>1, <2>2, <2>3
  <1>3. space' \in [Procs -> Space] /\ space'[s] = sp
        /\ \A r \in Procs \ {s} : space'[r] = space[r] /\ kstack'[r] = kstack[r]
    BY DEF IInv, TypeOK
  <1>4. Shapes' /\ Exclusive' /\ Moves
    <2>1. \A x \in Threads : call'[x].new = call[x].new /\ call'[x].stack = call[x].stack
      BY <1>2 DEF Sys
    <2>2. /\ Shape(space'[s], kstack'[s])
          /\ OwnedBy(space'[s], kstack'[s]) = OwnedBy(sp, kstack[s])
          /\ Others(space'[s], kstack'[s]) = Others(sp, kstack[s])
      BY <1>3
    <2> QED
      BY <1>3, <2>1, <2>2, ProcessChanges DEF IInv
  <1>5. TypeOK'
    BY <1>2, <1>3 DEF IInv, TypeOK
  <1>6. Slots'
    BY <1>3 DEF IInv, Slots
  <1> QED
    BY <1>2, <1>4, <1>5, <1>6 DEF Good, IInv

\* A page more for a process.
LEMMA GrownIs ==
    ASSUME IInv, NEW s \in Procs, NEW v \in VPages
    PROVE  LET m == MapOne(used, space[s], v)
           IN  /\ m.sp \in Space /\ m.used \in SUBSET Frames /\ used \subseteq m.used
               /\ Shape(m.sp, kstack[s]) /\ OwnedBy(m.sp, kstack[s]) \subseteq m.used
               /\ OwnedBy(m.sp, kstack[s]) \cap used \subseteq OwnedBy(space[s], kstack[s])
               /\ space[s].pages \subseteq m.sp.pages
               /\ Others(space[s], kstack[s]) \subseteq Others(m.sp, kstack[s])
  <1>1. /\ used \in SUBSET Frames /\ space[s] \in Space /\ kstack[s] \in MaybeFrame
        /\ Shape(space[s], kstack[s]) /\ OwnedBy(space[s], kstack[s]) \subseteq used
    BY OwnedIsUsed
  <1> QED
    BY <1>1, MapOneIs DEF Others

LEMMA BrkPageKeeps == ASSUME IInv, BrkPage PROVE Good
  <1> DEFINE s == Sys.who
             m == MapOne(used, space[s], Sys.va)
             there == space[s].map[Sys.va] # NoFrame
  <1>1. Sys.op = "brk" /\ Sys.va < Sys.end /\ UNCHANGED <<state, kstack, user_brk, mmap_base>>
    BY DEF BrkPage, proc
  <1>2. /\ s \in Procs /\ state[s] = "ready" /\ Sys.va \in VPages
        /\ Sys.new = NoSpace /\ Sys.stack = NoFrame
    BY <1>1, SysIs
  <1>3. /\ used \in SUBSET Frames /\ space[s] \in Space /\ kstack[s] \in MaybeFrame
        /\ Shape(space[s], kstack[s]) /\ OwnedBy(space[s], kstack[s]) \subseteq used
    BY <1>2, OwnedIsUsed
  <1>4. /\ m.sp \in Space /\ m.used \in SUBSET Frames /\ used \subseteq m.used
        /\ Shape(m.sp, kstack[s]) /\ OwnedBy(m.sp, kstack[s]) \subseteq m.used
        /\ OwnedBy(m.sp, kstack[s]) \cap used \subseteq OwnedBy(space[s], kstack[s])
        /\ space[s].pages \subseteq m.sp.pages
        /\ Others(space[s], kstack[s]) \subseteq Others(m.sp, kstack[s])
    BY <1>2, GrownIs
  <1> HIDE DEF m
  <1>5. CASE there /\ NextPage /\ UNCHANGED <<used, space>>
    <2>1. space' = [space EXCEPT ![s] = space[s]]
      BY <1>2, <1>5 DEF IInv, TypeOK
    <2> QED
      BY <1>1, <1>2, <1>3, <1>5, <2>1, PageKeeps
  <1>6. CASE used' = m.used /\ space' = [space EXCEPT ![s] = m.sp]
             /\ (NextPage \/ Return("syscall"))
    BY <1>1, <1>2, <1>3, <1>4, <1>6, PageKeeps
  <1> QED
    BY <1>5, <1>6 DEF BrkPage, m

LEMMA MmapPageKeeps == ASSUME IInv, MmapPage PROVE Good
  <1> DEFINE s == Sys.who
             m == MapOne(used, space[s], Sys.va)
             done == Sys.base .. Sys.va - 1
             F == FramesOf(m.sp, done)
             un == Unmapped(m.sp, done)
  <1>1. Sys.op = "mmap" /\ Sys.va < Sys.end /\ UNCHANGED <<state, kstack, user_brk, mmap_base>>
    BY DEF MmapPage
  <1>2. /\ s \in Procs /\ state[s] = "ready" /\ Sys.va \in VPages /\ done \in SUBSET VPages
        /\ Sys.new = NoSpace /\ Sys.stack = NoFrame
    BY <1>1, SysIs
  <1>3. /\ used \in SUBSET Frames /\ space[s] \in Space /\ kstack[s] \in MaybeFrame
        /\ Shape(space[s], kstack[s]) /\ OwnedBy(space[s], kstack[s]) \subseteq used
    BY <1>2, OwnedIsUsed
  <1>4. /\ m.sp \in Space /\ m.used \in SUBSET Frames /\ used \subseteq m.used
        /\ Shape(m.sp, kstack[s]) /\ OwnedBy(m.sp, kstack[s]) \subseteq m.used
        /\ OwnedBy(m.sp, kstack[s]) \cap used \subseteq OwnedBy(space[s], kstack[s])
        /\ space[s].pages \subseteq m.sp.pages
        /\ Others(space[s], kstack[s]) \subseteq Others(m.sp, kstack[s])
    BY <1>2, GrownIs
  <1> HIDE DEF m, done
  <1>5. /\ un \in Space /\ Shape(un, kstack[s])
        /\ F \subseteq m.sp.pages /\ un.pages = m.sp.pages \ F
        /\ OwnedBy(un, kstack[s]) = OwnedBy(m.sp, kstack[s]) \ F
        /\ Others(un, kstack[s]) = Others(m.sp, kstack[s])
    BY <1>2, <1>3, <1>4, UnmappedIs
  <1> HIDE DEF F, un
  <1>6. CASE m.ok /\ NextPage /\ used' = m.used /\ space' = [space EXCEPT ![s] = m.sp]
    BY <1>1, <1>2, <1>3, <1>4, <1>6, PageKeeps
  <1>7. CASE ~m.ok /\ Return("syscall") /\ used' = m.used \ F
             /\ space' = [space EXCEPT ![s] = un]
    <2>1. used' \in SUBSET Frames /\ OwnedBy(un, kstack[s]) \subseteq used'
      BY <1>4, <1>5, <1>7
    <2>2. OwnedBy(un, kstack[s]) \cap used \subseteq OwnedBy(space[s], kstack[s])
      BY <1>4, <1>5
    <2>3. F \subseteq OwnedBy(m.sp, kstack[s])
      BY <1>5 DEF OwnedBy
    <2>4. used \ OwnedBy(space[s], kstack[s]) \subseteq used'
      BY <1>4, <1>7, <2>3
    <2>5. \A f \in space[s].pages : f \in used' => f \in un.pages
      BY <1>4, <1>5, <1>7
    <2>6. Others(space[s], kstack[s]) \subseteq Others(un, kstack[s])
      BY <1>4, <1>5
    <2> QED
      BY <1>1, <1>2, <1>5, <1>7, <2>1, <2>2, <2>4, <2>5, <2>6, PageKeeps
  <1> QED
    BY <1>6, <1>7 DEF MmapPage, m, done, F, un

LEMMA MunmapKeeps == ASSUME IInv, NEW s \in Procs, Munmap(s) PROVE Good
  <1>1. PICK from \in VPages, to \in VPages :
            /\ from < to
            /\ used' = used \ FramesOf(space[s], from .. to - 1)
            /\ space' = [space EXCEPT ![s] = Unmapped(@, from .. to - 1)]
    BY DEF Munmap
  <1> DEFINE range == from .. to - 1
             F == FramesOf(space[s], range)
             un == Unmapped(space[s], range)
  <1>2. /\ SyscallIdle /\ state[s] = "ready"
        /\ UNCHANGED <<state, kstack, user_brk, mmap_base, call>>
    BY DEF Munmap
  <1>3. range \in SUBSET VPages
    BY LayoutIs DEF VPages
  <1>4. /\ used \in SUBSET Frames /\ space[s] \in Space /\ kstack[s] \in MaybeFrame
        /\ Shape(space[s], kstack[s]) /\ OwnedBy(space[s], kstack[s]) \subseteq used
    BY OwnedIsUsed
  <1>5. used' = used \ F /\ space' = [space EXCEPT ![s] = un]
    BY <1>1 DEF IInv, TypeOK
  <1> HIDE DEF range
  <1>6. /\ un \in Space /\ Shape(un, kstack[s])
        /\ F \subseteq space[s].pages /\ un.pages = space[s].pages \ F
        /\ OwnedBy(un, kstack[s]) = OwnedBy(space[s], kstack[s]) \ F
        /\ Others(un, kstack[s]) = Others(space[s], kstack[s])
    BY <1>3, <1>4, UnmappedIs
  <1> HIDE DEF F, un
  <1>7. Sys.new = NoSpace /\ Sys.stack = NoFrame
    BY <1>2, IdleIs DEF SyscallIdle, Sys
  <1>8. F \subseteq OwnedBy(space[s], kstack[s])
    BY <1>6 DEF OwnedBy
  <1> QED
    BY <1>2, <1>4, <1>5, <1>6, <1>7, <1>8, PageKeeps

-----------------------------------------------------------------------------
(* The reap, and process_create_user.                                      *)

LEMMA CreateBeginKeeps == ASSUME IInv, CreateBegin PROVE Good
  <1> DEFINE t == "kernel"
             C == {"process"} \X Dead
             freed == UNION {FreedBy(s) : s \in Dead}
  <1>1. /\ SyscallIdle /\ call[t] = Idle /\ t \in Threads /\ Dead \subseteq Procs
        /\ used' = used \ freed
        /\ state' = Reset(state, "empty") /\ kstack' = Reset(kstack, NoFrame)
        /\ space' = Reset(space, NoSpace)
        /\ user_brk' = Reset(user_brk, 0) /\ mmap_base' = Reset(mmap_base, 0)
    BY DEF CreateBegin, Threads, Dead
  <1>2. PICK o \in {"find_elf", "find_user"}, image \in Images :
            call' = [call EXCEPT ![t] = [Idle EXCEPT !.op = o, !.segs = image]]
    BY DEF CreateBegin
  <1> DEFINE c == [Idle EXCEPT !.op = o, !.segs = image]
  <1>3. /\ c \in Call /\ c.op = o /\ c.new = NoSpace /\ c.stack = NoFrame
        /\ c.va = 0 /\ c.end = 0
    BY IdleIs, ImagesAssumption DEF Call
  <1>4. c.va .. c.end - 1 \subseteq VPages
    BY <1>3
  <1> HIDE DEF c
  <1>5. /\ call' \in [Threads -> Call] /\ call'[t] = c
        /\ \A x \in Threads \ {t} : call'[x] = call[x]
        /\ \A x \in Threads : call'[x].va .. call'[x].end - 1 \subseteq VPages
    BY <1>1, <1>2, <1>3, <1>4, CallSet DEF IInv, c
  <1>6. \A s \in Dead : space'[s] = NoSpace /\ kstack'[s] = NoFrame /\ state'[s] = "empty"
    BY <1>1 DEF Reset
  <1>7. \A s \in Procs \ Dead : space'[s] = space[s] /\ kstack'[s] = kstack[s]
                                /\ state'[s] = state[s]
    BY <1>1 DEF Reset
  <1>8. \A x \in Threads : call'[x].new = call[x].new /\ call'[x].stack = call[x].stack
    BY <1>1, <1>3, <1>5, IdleIs
  <1>10. \A s \in Dead : FreedBy(s) \cap Frames \subseteq OwnedBy(space[s], kstack[s])
    BY NoFrameIsNone DEF FreedBy, OwnedBy, StackFrames
  <1>11. Shapes'
    <2>1. ASSUME NEW s \in Procs PROVE Shape(space'[s], kstack'[s])
      <3>1. CASE s \in Dead
        BY <1>6, <3>1, NoSpaceIs
      <3>2. CASE s \notin Dead
        BY <1>7, <3>2 DEF IInv, Shapes
      <3> QED
        BY <3>1, <3>2
    <2>2. ASSUME NEW x \in Threads PROVE Shape(call'[x].new, call'[x].stack)
      BY <1>8 DEF IInv, Shapes
    <2> QED
      BY <2>1, <2>2 DEF Shapes, Threads
  <1>12. C \in SUBSET Owners /\ C \subseteq {"process"} \X Procs
    BY <1>1 DEF Owners
  <1>13. ASSUME NEW p \in Owners \ C
         PROVE  Tracks(p)' = Tracks(p) /\ HeldElse(p)' = HeldElse(p)
    <2>1. CASE \E x \in Threads : p = <<"call", x>>
      BY <1>8, <2>1, ShareIs, ShareNext
    <2>2. CASE \E r \in Procs : p = <<"process", r>>
      <3>1. PICK r \in Procs : p = <<"process", r>>
        BY <2>2
      <3>2. r \notin Dead
        BY <3>1
      <3> QED
        BY <1>7, <3>1, <3>2, ShareIs, ShareNext
    <2> QED
      BY <2>1, <2>2, HeldIs
  <1>17. ASSUME NEW p \in C PROVE Held(p)' = {} /\ Tracks(p) \cap used' = {}
    <2>1. PICK r \in Dead : p = <<"process", r>>
      OBVIOUS
    <2>2. Held(p)' = {}
      BY <1>1, <1>6, <2>1, HeldNext, NoSpaceIs
    <2>3. Tracks(p) \subseteq freed
      BY <1>1, <2>1, ShareIs DEF FreedBy
    <2> QED
      BY <1>1, <2>2, <2>3
  <1>18. used \ UNION {Held(p) : p \in C} \subseteq used'
    <2>1. \A s \in Dead : FreedBy(s) \cap used \subseteq Held(<<"process", s>>)
      <3>1. used \in SUBSET Frames
        BY OwnedIsUsed
      <3>2. \A s \in Dead : Held(<<"process", s>>) = OwnedBy(space[s], kstack[s])
        BY <1>1, HeldIs
      <3> QED
        BY <1>10, <3>1, <3>2
    <2>2. \A s \in Dead : <<"process", s>> \in C
      OBVIOUS
    <2> HIDE DEF C
    <2> QED
      BY <1>1, <2>1, <2>2
  <1> HIDE DEF C
  <1>19. Exclusive' /\ Moves
    <2>1. \A p \in C : /\ Held(p)' \subseteq used'
                       /\ Held(p)' \cap used \subseteq UNION {Held(q) : q \in C}
      BY <1>17
    <2>2. \A p, q \in C : p # q => Held(p)' \cap Held(q)' = {}
      BY <1>17
    <2>3. \A p \in Owners \ C : Held(p)' = Held(p)
      BY <1>13, ShareIs, ShareNext
    <2>4. Exclusive'
      BY <1>12, <1>18, <2>1, <2>2, <2>3, OwnersChange DEF IInv
    <2>5. Ownership!Trade(C)
      BY <1>12, <1>13, <1>18, <2>1, TradeIs
    <2> QED
      BY <1>12, <1>17, <2>4, <2>5, DropMoves
  <1>14. TypeOK'
    <2>1. 0 \in VPages /\ NoFrame \in MaybeFrame /\ NoSpace \in Space
      BY LayoutIs, NoSpaceIs DEF MaybeFrame
    <2>2. /\ used' \subseteq Frames
          /\ state' \in [Procs -> {"empty", "ready", "exited"}]
          /\ kstack' \in [Procs -> MaybeFrame] /\ space' \in [Procs -> Space]
          /\ user_brk' \in [Procs -> VPages] /\ mmap_base' \in [Procs -> VPages]
      BY <1>1, <2>1 DEF IInv, TypeOK, Reset
    <2> QED
      BY <1>5, <2>2 DEF TypeOK
  <1>15. Calls'
    <2>1. CallIs(call[t])'
      BY <1>3, <1>5 DEF CallIs
    <2>2. call'[t].op \in KernelOps
      BY <1>3, <1>5 DEF KernelOps
    <2>3. \A x \in Threads \ {t} : call[x].op = "idle"
      BY <1>1, WhoRuns DEF Threads
    <2> QED
      BY <1>1, <1>5, <2>1, <2>2, <2>3, CallsNext DEF IInv
  <1>16. Slots'
    BY <1>6, <1>7 DEF IInv, Slots
  <1> QED
    BY <1>11, <1>14, <1>15, <1>16, <1>19 DEF Good, IInv

\* The space process_create_user makes: two pages, one directory, their tables.
LEMMA UserSpaceIs ==
    ASSUME NEW k \in MaybeFrame, NEW c \in Frames, NEW p \in Frames, NEW d \in Frames,
           NEW t1 \in Frames, NEW t2 \in Frames,
           c # p, c # d, p # d,
           {c, p, d} \cap {t1, t2} = {}, {c, p, d} \cap StackFrames(k) = {}
    PROVE  LET sp == [pages |-> {c, p, d}, pd |-> d,
                      pt |-> [NoSpace.pt EXCEPT ![TableOf(CODE_VA)] = t1,
                                                ![TableOf(STACK_VA)] = t2],
                      map |-> [NoSpace.map EXCEPT ![CODE_VA] = c, ![STACK_VA] = p]]
           IN  /\ sp \in Space /\ sp.pages = {c, p, d} /\ Shape(sp, k)
               /\ OwnedBy(sp, k) \subseteq {c, p, d} \cup {t1, t2} \cup StackFrames(k)
  <1> DEFINE T1 == TableOf(CODE_VA)
             T2 == TableOf(STACK_VA)
             pt == [NoSpace.pt EXCEPT ![T1] = t1, ![T2] = t2]
             map == [NoSpace.map EXCEPT ![CODE_VA] = c, ![STACK_VA] = p]
             sp == [pages |-> {c, p, d}, pd |-> d, pt |-> pt, map |-> map]
  <1>1. T1 \in Tables /\ T2 \in Tables /\ CODE_VA \in VPages /\ STACK_VA \in VPages
        /\ CODE_VA # STACK_VA
    BY LayoutIs, TableInside
  <1>2. NoSpace.pt = [t \in Tables |-> NoFrame] /\ NoSpace.map = [v \in VPages |-> NoFrame]
    BY DEF NoSpace
  <1> HIDE DEF T1, T2
  <1>3. pt \in [Tables -> MaybeFrame] /\ map \in [VPages -> MaybeFrame]
    BY <1>1, <1>2 DEF MaybeFrame
  <1>4. \A t \in Tables : pt[t] \in {NoFrame, t1, t2}
    BY <1>1, <1>2
  <1>5. \A v \in VPages : map[v] = IF v = CODE_VA THEN c ELSE IF v = STACK_VA THEN p ELSE NoFrame
    BY <1>1, <1>2
  <1>6. /\ sp.pages = {c, p, d} /\ sp.pd = d /\ sp.pt = pt /\ sp.map = map
    OBVIOUS
  <1>7. sp \in Space
    BY <1>3 DEF Space, MaybeFrame
  <1> HIDE DEF pt, map, sp
  <1>8. TableFrames(sp) \subseteq {t1, t2}
    BY <1>4, <1>6 DEF TableFrames
  <1>9. FramesOf(sp, VPages) \subseteq {c, p}
    BY <1>5, <1>6 DEF FramesOf
  <1>10. Shape(sp, k)
    BY <1>5, <1>6, <1>8, <1>9 DEF Shape
  <1>11. OwnedBy(sp, k) \subseteq {c, p, d} \cup {t1, t2} \cup StackFrames(k)
    BY <1>6, <1>8 DEF OwnedBy
  <1> QED
    BY <1>6, <1>7, <1>10, <1>11 DEF sp, pt, map, T1, T2

LEMMA UserCreateKeeps == ASSUME IInv, UserCreate PROVE Good
  <1> DEFINE t == "kernel"
             k == FirstFit(used, 2)         u1 == AfterAlloc(used, 2)
             c == FirstFit(u1, 1)           u2 == AfterAlloc(u1, 1)
             p == FirstFit(u2, 1)           u3 == AfterAlloc(u2, 1)
             d == FirstFit(u3, 1)           u4 == AfterAlloc(u3, 1)
             t1 == FirstFit(u4, 1)          u5 == AfterAlloc(u4, 1)
             same == TableOf(CODE_VA) = TableOf(STACK_VA)
             t2 == IF same THEN t1 ELSE FirstFit(u5, 1)
             u6 == IF same THEN u5 ELSE AfterAlloc(u5, 1)
             sp == [pages |-> {c, p, d}, pd |-> d,
                    pt |-> [NoSpace.pt EXCEPT ![TableOf(CODE_VA)] = t1,
                                              ![TableOf(STACK_VA)] = t2],
                    map |-> [NoSpace.map EXCEPT ![CODE_VA] = c, ![STACK_VA] = p]]
  <1>1. /\ SyscallIdle /\ call[t].op = "find_user" /\ Return(t) /\ t \in Threads
    BY DEF UserCreate, Threads
  <1>2. /\ k \in MaybeFrame /\ StackFrames(k) \cap used = {}
        /\ u1 = used \cup StackFrames(k) /\ u1 \in SUBSET Frames
    BY TwoFrames, OwnedIsUsed
  <1>3. /\ c \in MaybeFrame /\ c \notin u1
        /\ u2 = u1 \cup ({c} \ {NoFrame}) /\ u2 \in SUBSET Frames
    BY <1>2, OneFrame
  <1>4. /\ p \in MaybeFrame /\ p \notin u2
        /\ u3 = u2 \cup ({p} \ {NoFrame}) /\ u3 \in SUBSET Frames
    BY <1>3, OneFrame
  <1>5. /\ d \in MaybeFrame /\ d \notin u3
        /\ u4 = u3 \cup ({d} \ {NoFrame}) /\ u4 \in SUBSET Frames
    BY <1>4, OneFrame
  <1>6. /\ t1 \in MaybeFrame /\ t1 \notin u4
        /\ u5 = u4 \cup ({t1} \ {NoFrame}) /\ u5 \in SUBSET Frames
    BY <1>5, OneFrame
  <1>7. /\ t2 \in MaybeFrame /\ t2 \notin u4
        /\ u6 = u5 \cup ({t2} \ {NoFrame}) /\ u6 \in SUBSET Frames
    <2>1. /\ FirstFit(u5, 1) \in MaybeFrame /\ FirstFit(u5, 1) \notin u5
          /\ AfterAlloc(u5, 1) = u5 \cup ({FirstFit(u5, 1)} \ {NoFrame})
          /\ AfterAlloc(u5, 1) \in SUBSET Frames
      BY <1>6, OneFrame
    <2> HIDE DEF u5, t1, same
    <2> QED
      BY <1>6, <2>1
  <1> HIDE DEF k, u1, c, u2, p, u3, d, u4, t1, u5, t2, u6
  <1>8. call[t].new = NoSpace /\ call[t].stack = NoFrame
    BY <1>1 DEF IInv, Calls, CallIs
  <1>9. /\ call' \in [Threads -> Call] /\ call'[t] = Idle
        /\ \A x \in Threads \ {t} : call'[x] = call[x]
        /\ \A x \in Threads : call'[x].va .. call'[x].end - 1 \subseteq VPages
    BY <1>1, ReturnIs DEF IInv
  <1>10. \A x \in Threads : call'[x].new = call[x].new /\ call'[x].stack = call[x].stack
    BY <1>8, <1>9, IdleIs
  <1>11. Calls'
    <2>1. \A x \in Threads \ {t} : call[x].op = "idle"
      BY <1>1, WhoRuns DEF Threads
    <2> QED
      BY <1>1, <2>1, CallsReturn
  <1>12. CASE /\ NoFrame \notin {k, c, p, d, t1, t2} /\ used' = u6
              /\ \E s \in Procs : FreeSlot(s) /\ Commit(s, sp, k, CODE_VA + 1)
    <2>1. PICK s \in Procs : FreeSlot(s) /\ Commit(s, sp, k, CODE_VA + 1)
      BY <1>12
    <2>2. c \in Frames /\ p \in Frames /\ d \in Frames /\ t1 \in Frames /\ t2 \in Frames
      BY <1>3, <1>4, <1>5, <1>6, <1>7, <1>12 DEF MaybeFrame
    <2>3. c # p /\ c # d /\ p # d /\ {c, p, d} \cap {t1, t2} = {}
          /\ {c, p, d} \cap StackFrames(k) = {}
      BY <1>2, <1>3, <1>4, <1>5, <1>6, <1>7, <1>12
    <2>4. /\ sp \in Space /\ sp.pages = {c, p, d} /\ Shape(sp, k)
          /\ OwnedBy(sp, k) \subseteq {c, p, d} \cup {t1, t2} \cup StackFrames(k)
      BY <1>2, <2>2, <2>3, UserSpaceIs
    <2> HIDE DEF sp
    <2>5. ({c, p, d} \cup {t1, t2} \cup StackFrames(k)) \cap used = {}
      BY <1>2, <1>3, <1>4, <1>5, <1>6, <1>7
    <2>6. ({c, p, d} \cup {t1, t2} \cup StackFrames(k)) \subseteq used' /\ used \subseteq used'
          /\ used' \in SUBSET Frames
      BY <1>2, <1>3, <1>4, <1>5, <1>6, <1>7, <1>12
    <2>7. space[s] = NoSpace /\ kstack[s] = NoFrame
      BY <2>1 DEF IInv, Slots, FreeSlot
    <2>8. /\ OwnedBy(space[s], kstack[s]) = {} /\ space[s].pages = {}
          /\ Others(space[s], kstack[s]) = {}
      BY <2>7, NoSpaceIs DEF Others
    <2>9. /\ state' \in [Procs -> {"empty", "ready", "exited"}]
          /\ kstack' \in [Procs -> MaybeFrame] /\ space' \in [Procs -> Space]
          /\ user_brk' \in [Procs -> VPages] /\ mmap_base' \in [Procs -> VPages]
          /\ space'[s] = sp /\ kstack'[s] = k
          /\ \A r \in Procs \ {s} : space'[r] = space[r] /\ kstack'[r] = kstack[r]
          /\ Slots'
      BY <1>2, <2>1, <2>4, CommitIs, LayoutIs
    <2>10. Shapes' /\ Exclusive' /\ Moves
      BY <1>10, <2>4, <2>5, <2>6, <2>8, <2>9, ProcessChanges DEF IInv
    <2>11. TypeOK'
      BY <1>9, <2>6, <2>9 DEF TypeOK
    <2> QED
      BY <1>11, <2>9, <2>10, <2>11 DEF Good, IInv
  <1>13. CASE /\ UNCHANGED <<proc, space>>
              /\ used' = used \/ used' = (IF k = NoFrame THEN used ELSE u6 \ {k, c, p, d})
    <2>1. k # NoFrame => k \in StackFrames(k)
      BY DEF StackFrames
    <2>2. used \subseteq used' /\ used' \in SUBSET Frames
      BY <1>2, <1>3, <1>4, <1>5, <1>6, <1>7, <1>13, <2>1
    <2>3. UNCHANGED <<state, kstack, user_brk, mmap_base, space>>
      BY <1>13 DEF proc
    <2>4. OwnedBy(call[t].new, call[t].stack) \subseteq used
          /\ Shape(call[t].new, call[t].stack)
      BY <1>1, OwnedIsUsed
    <2>5. Shapes' /\ Exclusive' /\ Moves
      BY <1>1, <1>10, <2>2, <2>3, <2>4, CallChanges DEF IInv
    <2>6. TypeOK'
      BY <1>9, <2>2, <2>3 DEF IInv, TypeOK
    <2>7. Slots'
      BY <2>3 DEF IInv, Slots
    <2> QED
      BY <1>11, <2>5, <2>6, <2>7 DEF Good, IInv
  <1> QED
    BY <1>12, <1>13 DEF UserCreate, k, u1, c, u2, p, u3, d, u4, t1, u5, t2, u6, sp

-----------------------------------------------------------------------------
(* The inductive invariant, and the theorems.                              *)

LEMMA InitIInv == Init => IInv
  <1> SUFFICES ASSUME Init PROVE IInv
    OBVIOUS
  <1> USE DEF Init
  <1>1. TypeOK
    <2>1. 0 \in VPages /\ NoFrame \in MaybeFrame /\ NoSpace \in Space /\ 0 .. 0 - 1 = {}
      BY LayoutIs, NoSpaceIs DEF MaybeFrame
    <2>2. \A t \in Threads : call[t] = Idle
      OBVIOUS
    <2>3. call \in [Threads -> Call]
      BY IdleIs
    <2>4. \A t \in Threads : call[t].va .. call[t].end - 1 \subseteq VPages
      BY <2>1, <2>2, IdleIs
    <2> QED
      BY <2>1, <2>3, <2>4 DEF TypeOK
  <1>2. /\ \A s \in Procs : space[s] = NoSpace /\ kstack[s] = NoFrame
        /\ \A t \in Threads : call[t] = Idle /\ call[t].new = NoSpace /\ call[t].stack = NoFrame
    BY IdleIs
  <1>3. Shapes
    BY <1>2, NoSpaceIs DEF Shapes
  <1>4. \A o \in Owners : Held(o) = {}
    BY <1>2, NoSpaceIs, HeldIs
  <1>5. Exclusive
    BY <1>4 DEF Exclusive
  <1>6. Calls
    BY <1>2, IdleIs DEF Calls, CallIs, KernelOps, SyscallOps, Threads
  <1>7. Slots
    BY <1>2 DEF Slots
  <1> QED
    BY <1>1, <1>3, <1>5, <1>6, <1>7 DEF IInv

\* Every step keeps the invariant and what is tracked.
LEMMA NextGood == IInv /\ Next => Good
  BY CreateBeginKeeps, ElfBeginKeeps, UserCreateKeeps, NextSegmentKeeps, MapImageKeeps,
     FinishKeeps, ExecBeginKeeps, ExitKeeps, BrkBeginKeeps, MmapBeginKeeps, MunmapKeeps,
     BrkPageKeeps, BrkEndKeeps, MmapPageKeeps, MmapEndKeeps DEF Next

LEMMA StutterKeeps == IInv /\ UNCHANGED vars => Good
  <1> SUFFICES ASSUME IInv, UNCHANGED vars PROVE Good
    OBVIOUS
  <1>1. UNCHANGED <<used, state, kstack, user_brk, mmap_base, space, call>>
    BY DEF vars, proc
  <1>2. TypeOK'
    BY <1>1 DEF IInv, TypeOK
  <1>3. Shapes' /\ Exclusive' /\ Moves
    <2>1. "kernel" \in Threads
      BY DEF Threads
    <2> QED
      BY <1>1, <2>1, QuietKeeps
  <1>4. Calls'
    BY <1>1 DEF IInv, Calls, CallIs, Threads, KernelOps, SyscallOps
  <1>5. Slots'
    BY <1>1 DEF IInv, Slots
  <1> QED
    BY <1>2, <1>3, <1>4, <1>5 DEF Good, IInv

\* The inductive invariant holds in every behaviour.
THEOREM InvariantHolds == Spec => []IInv
  <1>1. IInv /\ [Next]_vars => IInv'
    BY NextGood, StutterKeeps DEF Good
  <1> QED
    BY InitIInv, <1>1, PTL DEF Spec

\* The type invariant: no loop of exec, brk or mmap leaves the pages of a process.
THEOREM TypeCorrect == Spec => []TypeOK
  <1>1. IInv => TypeOK
    BY DEF IInv
  <1> QED
    BY InvariantHolds, <1>1, PTL

\* No mapped page is free, mapped twice or the directory, whatever call failed when.
THEOREM MappedPagesAreOwned == Spec => []MappedIsOwned
  <1>1. IInv => MappedIsOwned
    BY DEF IInv, Shapes, Shape, MappedIsOwned
  <1> QED
    BY InvariantHolds, <1>1, PTL

\* No frame has two owners, and none that has an owner is free.
THEOREM FramesAreExclusive == Spec => []Exclusive
  <1>1. IInv => Exclusive
    BY DEF IInv
  <1> QED
    BY InvariantHolds, <1>1, PTL

\* Every step is one of FrameOwners: the system calls, with all their failures, pass the
\* frames from hand to hand as it allows.
THEOREM ImplementsFrameOwners == Spec => FramesHaveOwners
  <1>1. Init => Ownership!Init
    <2> SUFFICES ASSUME Init PROVE Ownership!Init
      OBVIOUS
    <2>1. \A o \in Owners : Held(o) = {}
      <3>1. /\ \A s \in Procs : space[s] = NoSpace /\ kstack[s] = NoFrame
            /\ \A t \in Threads : call[t].new = NoSpace /\ call[t].stack = NoFrame
        BY IdleIs DEF Init
      <3> QED
        BY <3>1, NoSpaceIs, HeldIs
    <2>2. \A o \in Owners : Tracks(o) = {} /\ HeldElse(o) = {}
      BY <2>1, ShareIs
    <2> QED
      BY <2>2 DEF Init, Ownership!Init, Ownership!Owners, Owners
  <1>2. IInv /\ [Next]_vars => [Ownership!Next]_(Ownership!vars)
    BY NextGood, StutterKeeps DEF Good, Moves
  <1> QED
    BY InvariantHolds, <1>1, <1>2, PTL DEF Spec, FramesHaveOwners, Ownership!Spec

\* What the owners track all together, and that no frame leaves it but to be freed.
TrackedByAll == UNION {Tracks(o) : o \in Owners}
NothingTrackedIsLost == [][TrackedByAll \cap used' \subseteq TrackedByAll']_vars

LEMMA MovesLoseNothing == Moves => TrackedByAll \cap used' \subseteq TrackedByAll'
  <1> SUFFICES ASSUME Moves, NEW o \in Owners, NEW f \in Tracks(o), f \in used'
               PROVE  \E p \in Owners : f \in Tracks(p)'
    BY DEF TrackedByAll, Owners
  <1>1. Ownership!Owners = Owners
    BY DEF Owners, Ownership!Owners
  <1>2. ASSUME NEW O, Ownership!Trade(O), o \notin O PROVE Tracks(o)' = Tracks(o)
    BY <1>1, <1>2 DEF Ownership!Trade, Owners
  <1>3. CASE \E q \in Owners : Ownership!Work(q)
    <2>1. PICK q \in Owners : Ownership!Work(q)
      BY <1>3
    <2>2. Ownership!Trade({q})
      BY <2>1 DEF Ownership!Work
    <2>3. CASE q = o
      <3>1. Tracks(o) \cap used' \subseteq Tracks(o)'
        BY <2>1, <2>3 DEF Ownership!Work, Owners
      <3> QED
        BY <3>1
    <2>4. CASE q # o
      BY <1>2, <2>2, <2>4
    <2> QED
      BY <2>3, <2>4
  <1>4. ASSUME NEW O, Ownership!Drop(O) PROVE Tracks(o)' = Tracks(o)
    <2>1. Ownership!Trade(O)
      BY <1>4 DEF Ownership!Drop
    <2>2. o \notin O
      BY <1>4 DEF Ownership!Drop, Owners
    <2> QED
      BY <1>2, <2>1, <2>2
  <1>5. CASE \E c \in {"call"} \X Threads, p \in {"process"} \X Procs : Ownership!HandOver(c, p)
    <2>1. PICK c \in {"call"} \X Threads, p \in {"process"} \X Procs : Ownership!HandOver(c, p)
      BY <1>5
    <2>2. c \in Owners /\ p \in Owners
      BY DEF Owners
    <2>3. Ownership!Trade({c, p})
      BY <2>1 DEF Ownership!HandOver
    <2>4. Tracks(p) \cap used' = {} /\ Tracks(c) \subseteq Tracks(p)'
      BY <2>1, <2>2 DEF Ownership!HandOver, Owners
    <2>5. CASE o \in {c, p}
      BY <2>2, <2>4, <2>5
    <2>6. CASE o \notin {c, p}
      BY <1>2, <2>3, <2>6
    <2> QED
      BY <2>5, <2>6
  <1> QED
    BY <1>1, <1>3, <1>4, <1>5 DEF Moves, Ownership!Next

\* So what elf_pages tracks is never lost: a tracked frame is freed or stays tracked, and
\* segments, stacks, heaps and mappings come back whatever call fails when.
THEOREM TrackingIsComplete == Spec => NothingTrackedIsLost
  <1>1. IInv /\ [Next]_vars => [TrackedByAll \cap used' \subseteq TrackedByAll']_vars
    BY NextGood, MovesLoseNothing DEF Good
  <1> QED
    BY InvariantHolds, <1>1, PTL DEF Spec, NothingTrackedIsLost

\* A step of exec, while it runs and when it ends.
LEMMA ExecStep ==
    ASSUME IInv, Next, Sys.op = "exec"
    PROVE  \/ UNCHANGED <<space, proc>>
           \/ space[Sys.who].pages \cap (space'[Sys.who].pages \cup used') = {}
  <1> DEFINE t == "syscall"
             s == Sys.who
             m == NewPage(t, STACK_VA)
  <1>1. ~SyscallIdle /\ Sys = call[t] /\ t \in Threads
    BY IdleIs DEF SyscallIdle, Sys, Threads
  <1>2. \A x \in Threads : Building(x) => x = t
    BY <1>1, WhoRuns DEF Threads
  <1>3. \E x \in Threads : NextSegment(x) \/ MapImage(x) \/ Finish(x)
    BY <1>1, ZenonT(40) DEF Next, CreateBegin, ElfBegin, UserCreate, ExecBegin, Exit, BrkBegin, MmapBegin,
                Begin, Munmap, BrkPage, BrkEnd, MmapPage, MmapEnd
  <1>4. NextSegment(t) \/ MapImage(t) \/ Finish(t)
    <2>1. PICK x \in Threads : NextSegment(x) \/ MapImage(x) \/ Finish(x)
      BY <1>3
    <2>2. Building(x)
      BY <2>1 DEF NextSegment, MapImage, Finish
    <2> QED
      BY <1>2, <2>1, <2>2
  <1>5. CASE NextSegment(t)
    BY <1>5 DEF NextSegment, Fail
  <1>6. CASE MapImage(t)
    BY <1>6 DEF MapImage, Fail
  <1>7. CASE Finish(t)
    <2>1. \/ Commit(s, m.sp, kstack[s], Sys.base) /\ used' = m.used \ space[s].pages
          \/ UNCHANGED <<space, proc>>
      BY <1>1, <1>7 DEF Finish, Fail, ExecFrees
    <2>2. CASE Commit(s, m.sp, kstack[s], Sys.base) /\ used' = m.used \ space[s].pages
      <3>1. CallIs(Sys)
        BY <1>1 DEF IInv, Calls
      <3>2. s \in Procs
        BY <3>1 DEF CallIs
      <3>3. space'[s] = m.sp
        BY <2>2, <3>2 DEF IInv, TypeOK, Commit
      <3>4. m.sp.pages \cap used \subseteq Sys.new.pages
        BY <1>1, LayoutIs, NewPageIs
      <3>5. /\ space[s].pages \subseteq used
            /\ space[s].pages \cap Sys.new.pages = {}
        <4>1. /\ OwnedBy(space[s], kstack[s]) \subseteq used
              /\ OwnedBy(space[s], kstack[s]) \cap OwnedBy(Sys.new, Sys.stack) = {}
          BY <1>1, <3>2, OwnedIsUsed
        <4> QED
          BY <4>1 DEF OwnedBy
      <3> HIDE DEF m
      <3> QED
        BY <2>2, <3>3, <3>4, <3>5
    <2> QED
      BY <2>1, <2>2
  <1> QED
    BY <1>4, <1>5, <1>6, <1>7

\* An exec leaves the process as it was, or releases every old page.
THEOREM ExecIsAllOrNothing == Spec => ExecAllOrNothing
  <1>1. IInv /\ [Next]_vars =>
          [Sys.op = "exec" => \/ UNCHANGED <<space, proc>>
                              \/ space[Sys.who].pages \cap (space'[Sys.who].pages \cup used') = {}]_vars
    BY ExecStep
  <1> QED
    BY InvariantHolds, <1>1, PTL DEF Spec, ExecAllOrNothing
=============================================================================
