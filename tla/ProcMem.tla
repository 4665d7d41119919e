------------------------------- MODULE ProcMem -------------------------------
(***************************************************************************)
(* The memory of the ring-3 processes: process_create_user,                *)
(* process_create_elf, process_exec_reload, brk, mmap, munmap, exit and    *)
(* the reaping of the dead, over the allocator of PhysMem.                 *)
(*                                                                         *)
(* Two threads of control: the kernel's main thread (shell, GUI), which    *)
(* creates processes with interrupts enabled, and the system call under    *)
(* way, which runs with interrupts disabled: while there is one the main   *)
(* thread does not move.  The loops over pages take one step per page.     *)
(* What an interrupt inside the allocator does is in AllocRace, and inside *)
(* the process table in Scheduler.  A process makes no call after exit.    *)
(* Addresses are page numbers counted from MEMORY_END, the first page a    *)
(* process may map; breaks and lengths are whole pages.  Page contents,    *)
(* and the file behind a mapping, are left out.                            *)
(***************************************************************************)
EXTENDS PhysMem, Sequences

CONSTANTS
    Procs,        \* user slots of the process table, TASK_MAX - 1 of them
    STACK_VA,     \* ELF_USER_STACK_ADDR
    CODE_VA,      \* USER_CODE_ADDR
    SPAN,         \* pages one page table maps (1024)
    MAX_TRACKED,  \* TASK_MAX_TRACKED_PAGES
    Images        \* ELF images: their PT_LOAD segments, as <<first page, end page>>

ASSUME ProcsAssumption == Procs \subseteq Nat
ASSUME LayoutAssumption ==
    /\ STACK_VA \in Nat /\ CODE_VA \in 0 .. STACK_VA - 3
    /\ SPAN \in Nat \ {0} /\ MAX_TRACKED \in Nat /\ MAX_TRACKED >= 3
ASSUME ImagesAssumption == Images \subseteq Seq(Int \X Int)

VPages == 0 .. STACK_VA
TableOf(v) == v \div SPAN
Tables == 0 .. STACK_VA
MaybeFrame == Frames \cup {NoFrame}

\* An address space: tracked frames (elf_pages), page directory, page tables, map.
Space == [pages : SUBSET Frames, pd : MaybeFrame,
          pt : [Tables -> MaybeFrame], map : [VPages -> MaybeFrame]]
NoSpace == [pages |-> {}, pd |-> NoFrame,
            pt |-> [t \in Tables |-> NoFrame], map |-> [v \in VPages |-> NoFrame]]

Threads == {"kernel", "syscall"}
\* The call a thread executes: its process, its loop (next page, end of the range,
\* ranges to come), its result so far, and the space and stack it builds.
Idle == [op |-> "idle", who |-> 0, va |-> 0, end |-> 0, segs |-> <<>>, base |-> 0,
         new |-> NoSpace, stack |-> NoFrame]

VARIABLES
    used,                     \* the page bitmap
    state, kstack, space,     \* per slot; kstack is the first of two frames
    user_brk, mmap_base,      \* per slot
    call                      \* per thread

proc == <<state, kstack, user_brk, mmap_base>>
vars == <<used, proc, space, call>>

Init ==
    /\ used = {}
    /\ state = [s \in Procs |-> "empty"] /\ kstack = [s \in Procs |-> NoFrame]
    /\ space = [s \in Procs |-> NoSpace]
    /\ user_brk = [s \in Procs |-> 0] /\ mmap_base = [s \in Procs |-> 0]
    /\ call = [t \in Threads |-> Idle]

-----------------------------------------------------------------------------
(* One page: alloc_page, paging_map_page_in, process_track_page.           *)

Full(sp) == Cardinality(sp.pages) >= MAX_TRACKED

\* The bitmap and the space when page v has been mapped, or when it could not be:
\* the page is given back then, but a page table installed on the way stays.
MapOne(u, sp, v) ==
    LET f == FirstFit(u, 1)
        u1 == AfterAlloc(u, 1)
        old == sp.pt[TableOf(v)]
        t == IF f = NoFrame \/ old # NoFrame THEN old ELSE FirstFit(u1, 1)
        u2 == u1 \cup ({t} \ {NoFrame})
        fits == f # NoFrame /\ t # NoFrame /\ ~Full(sp)
    IN  [ok |-> fits,
         used |-> IF fits THEN u2 ELSE AfterFree(u2, f),
         sp |-> IF fits THEN [sp EXCEPT !.pages = @ \cup {f}, !.pt[TableOf(v)] = t, !.map[v] = f]
                ELSE IF f # NoFrame /\ t # NoFrame
                THEN [sp EXCEPT !.pt[TableOf(v)] = t, !.map[v] = NoFrame] ELSE sp]

\* proc_unmap_one, free_page and process_untrack_page for a range of pages.
FramesOf(sp, range) == {sp.map[v] : v \in range} \ {NoFrame}
Unmapped_Bug(sp, range) ==
    [sp EXCEPT !.map = [v \in VPages |-> IF v \in range THEN NoFrame ELSE sp.map[v]]]
StalePte_Bug(sp, range) == [sp EXCEPT !.pages = @ \ FramesOf(sp, range)]
Unmapped(sp, range) ==
    [sp EXCEPT !.pages = @ \ FramesOf(sp, range),
               !.map = [v \in VPages |-> IF v \in range THEN NoFrame ELSE sp.map[v]]]

SyscallIdle == call["syscall"] = Idle
Runs(t) == t = "syscall" \/ SyscallIdle
Return(t) == call' = [call EXCEPT ![t] = Idle]

-----------------------------------------------------------------------------
(* Creation.  It reaps first: tracked frames, one frame of the kernel stack.*)

Dead == {s \in Procs : state[s] = "exited"}
FreedBy_Bug(s) == (space[s].pages \ {space[s].pd}) \cup {kstack[s]}
FreedBy(s) == space[s].pages \cup {kstack[s]}
Reset(f, value) == [s \in Procs |-> IF s \in Dead THEN value ELSE f[s]]

CreateBegin ==
    /\ SyscallIdle /\ call["kernel"] = Idle
    /\ used' = used \ UNION {FreedBy(s) : s \in Dead}
    /\ state' = Reset(state, "empty") /\ kstack' = Reset(kstack, NoFrame)
    /\ space' = Reset(space, NoSpace)
    /\ user_brk' = Reset(user_brk, 0) /\ mmap_base' = Reset(mmap_base, 0)
    /\ \E o \in {"find_elf", "find_user"}, image \in Images :
        call' = [call EXCEPT !["kernel"] = [Idle EXCEPT !.op = o, !.segs = image]]

FreeSlot(s) == state[s] = "empty" /\ \A r \in Procs : state[r] = "empty" => s <= r
NoSlot == \A s \in Procs : state[s] # "empty"

\* process_create_elf up to the directory.  Without one it returns as it is: the
\* stack just allocated is not given back.
ElfBegin ==
    /\ SyscallIdle /\ call["kernel"].op = "find_elf"
    /\ LET k == FirstFit(used, 2)
           u1 == AfterAlloc(used, 2)
           d == FirstFit(u1, 1)
       IN  \/ /\ k # NoFrame /\ d # NoFrame
              /\ \E s \in Procs :
                  /\ FreeSlot(s)
                  /\ call' = [call EXCEPT !["kernel"].op = "create", !["kernel"].who = s,
                                          !["kernel"].new = [NoSpace EXCEPT !.pd = d, !.pages = {d}],
                                          !["kernel"].stack = k]
              /\ used' = AfterAlloc(u1, 1)
           \/ NoSlot /\ Return("kernel") /\ UNCHANGED used
           \/ /\ ~NoSlot /\ NoFrame \in {k, d}
              /\ Return("kernel") /\ used' = u1
    /\ UNCHANGED <<proc, space>>

Commit(s, sp, stack, brk) ==
    /\ state' = [state EXCEPT ![s] = "ready"]
    /\ space' = [space EXCEPT ![s] = sp]
    /\ kstack' = [kstack EXCEPT ![s] = stack]
    /\ user_brk' = [user_brk EXCEPT ![s] = brk]
    /\ mmap_base' = [mmap_base EXCEPT ![s] = STACK_VA - 1]

\* process_create_user: kernel stack, code, user stack and directory, each only if
\* the one before was found, then the two mappings.
UserCreate ==
    /\ SyscallIdle /\ call["kernel"].op = "find_user"
    /\ LET k == FirstFit(used, 2)         u1 == AfterAlloc(used, 2)
           c == FirstFit(u1, 1)           u2 == AfterAlloc(u1, 1)
           p == FirstFit(u2, 1)           u3 == AfterAlloc(u2, 1)
           d == FirstFit(u3, 1)           u4 == AfterAlloc(u3, 1)
           t1 == FirstFit(u4, 1)          u5 == AfterAlloc(u4, 1)
           same == TableOf(CODE_VA) = TableOf(STACK_VA)
           t2 == IF same THEN t1 ELSE FirstFit(u5, 1)
           u6 == IF same THEN u5 ELSE AfterAlloc(u5, 1)
           sp == [pages |-> {c, p, d}, pd |-> d,
                  pt |-> [NoSpace.pt EXCEPT ![TableOf(CODE_VA)] = t1, ![TableOf(STACK_VA)] = t2],
                  map |-> [NoSpace.map EXCEPT ![CODE_VA] = c, ![STACK_VA] = p]]
       IN  \/ /\ NoFrame \notin {k, c, p, d, t1, t2}
              /\ \E s \in Procs : FreeSlot(s) /\ Commit(s, sp, k, CODE_VA + 1)
              /\ used' = u6
           \/ NoSlot /\ UNCHANGED <<used, proc, space>>
           \/ /\ ~NoSlot /\ NoFrame \in {k, c, p, d, t1, t2}
              /\ used' = IF k = NoFrame THEN used ELSE u6 \ {k, c, p, d}
              /\ UNCHANGED <<proc, space>>
    /\ Return("kernel")

-----------------------------------------------------------------------------
(* The image of process_create_elf and of process_exec_reload.             *)

Building(t) == Runs(t) /\ call[t].op \in {"create", "exec"}

\* `fail:' and `rollback:' give back what is tracked and, for a creation, the
\* stack; the page tables of the directory are in no list.
Fail(t, u, sp) ==
    /\ used' = u \ (sp.pages \cup {call[t].stack})
    /\ Return(t) /\ UNCHANGED <<proc, space>>

\* One page of the image or of the stack; exec tests the tracking limit before
\* it maps, a creation after.
NewPage(t, v) ==
    IF call[t].op = "exec" /\ Full(call[t].new)
    THEN [ok |-> FALSE, used |-> used, sp |-> call[t].new]
    ELSE MapOne(used, call[t].new, v)

\* A segment lies in [USER_MIN_VADDR, ELF_USER_STACK_ADDR): its start is not below,
\* its end, which may have wrapped round, not above.
InRange_Bug(g) == g[2] <= STACK_VA
InRange(g) == g[1] >= 0 /\ g[2] <= STACK_VA

NextSegment(t) ==
    /\ Building(t) /\ call[t].va >= call[t].end /\ call[t].segs # <<>>
    /\ LET g == Head(call[t].segs)
       IN  \/ /\ InRange(g)
              /\ call' = [call EXCEPT ![t].va = g[1], ![t].end = g[2], ![t].segs = Tail(@),
                                      ![t].base = IF g[2] > @ THEN g[2] ELSE @]
              /\ UNCHANGED <<used, proc, space>>
           \/ ~InRange(g) /\ Fail(t, used, call[t].new)

MapImage(t) ==
    /\ Building(t) /\ call[t].va < call[t].end
    /\ LET m == NewPage(t, call[t].va)
       IN  \/ /\ m.ok
              /\ used' = m.used /\ call' = [call EXCEPT ![t].new = m.sp, ![t].va = @ + 1]
              /\ UNCHANGED <<proc, space>>
           \/ ~m.ok /\ Fail(t, m.used, m.sp)

\* The stack page, the argument block (which may be too long), and the commit.
ExecFrees_Bug(s) == space[s].pages \ {space[s].pd}
ExecFrees(s) == space[s].pages

Finish(t) ==
    /\ Building(t) /\ call[t].va >= call[t].end /\ call[t].segs = <<>>
    /\ LET m == NewPage(t, STACK_VA)
           s == call[t].who
       IN  \/ /\ m.ok /\ call[t].op = "create"
              /\ Commit(s, m.sp, call[t].stack, call[t].base) /\ used' = m.used
              /\ Return(t)
           \/ /\ m.ok /\ call[t].op = "exec"
              /\ Commit(s, m.sp, kstack[s], call[t].base) /\ used' = m.used \ ExecFrees(s)
              /\ Return(t)
           \/ Fail(t, m.used, m.sp)

ExecBegin(s) ==
    /\ SyscallIdle /\ state[s] = "ready"
    /\ FirstFit(used, 1) # NoFrame
    /\ used' = AfterAlloc(used, 1)
    /\ \E image \in Images :
        call' = [call EXCEPT !["syscall"] =
                    [Idle EXCEPT !.op = "exec", !.who = s, !.segs = image,
                                 !.new = [NoSpace EXCEPT !.pd = FirstFit(used, 1),
                                                         !.pages = {FirstFit(used, 1)}]]]
    /\ UNCHANGED <<proc, space>>

-----------------------------------------------------------------------------
(* The other system calls of a process.                                    *)

Sys == call["syscall"]
Begin(o, s, from, to) ==
    /\ SyscallIdle /\ state[s] = "ready"
    /\ call' = [call EXCEPT !["syscall"] =
                    [Idle EXCEPT !.op = o, !.who = s, !.va = from, !.base = from, !.end = to]]
    /\ UNCHANGED <<used, proc, space>>
NextPage == call' = [call EXCEPT !["syscall"].va = @ + 1]

\* exit; also task_kill, which the main thread may call between two calls.
Exit(s) ==
    /\ SyscallIdle /\ state[s] = "ready"
    /\ state' = [state EXCEPT ![s] = "exited"]
    /\ UNCHANGED <<used, kstack, space, user_brk, mmap_base, call>>

\* do_brk(addr) with something to do; it refuses to shrink.
BrkBegin(s) ==
    \E addr \in VPages : /\ addr > user_brk[s] /\ addr <= STACK_VA - 1
                         /\ Begin("brk", s, user_brk[s], addr)

BrkPage ==
    /\ Sys.op = "brk" /\ Sys.va < Sys.end
    /\ LET s == Sys.who
           m == MapOne(used, space[s], Sys.va)
           there == space[s].map[Sys.va] # NoFrame
       IN  \/ there /\ NextPage /\ UNCHANGED <<used, space>>
           \/ /\ ~there
              /\ used' = m.used /\ space' = [space EXCEPT ![s] = m.sp]
              /\ IF m.ok THEN NextPage ELSE Return("syscall")
    /\ UNCHANGED proc

BrkEnd ==
    /\ Sys.op = "brk" /\ Sys.va = Sys.end
    /\ user_brk' = [user_brk EXCEPT ![Sys.who] = Sys.end]
    /\ Return("syscall") /\ UNCHANGED <<used, state, kstack, mmap_base, space>>

\* do_mmap: where the n pages go (fixed: at b), and the tests before any of them.
MmapFits(s, b, n) ==
    /\ n <= MAX_TRACKED - Cardinality(space[s].pages)
    /\ b >= 0 /\ b + n <= STACK_VA - 1 /\ b >= user_brk[s]

MmapBegin(s) ==
    \E n \in 1 .. STACK_VA, fixed \in BOOLEAN, at \in VPages :
        LET b == IF fixed THEN at ELSE mmap_base[s] - n
        IN  MmapFits(s, b, n) /\ Begin("mmap", s, b, b + n)

MmapPage ==
    /\ Sys.op = "mmap" /\ Sys.va < Sys.end
    /\ LET s == Sys.who
           m == MapOne(used, space[s], Sys.va)
           done == Sys.base .. Sys.va - 1
       IN  \/ /\ m.ok /\ NextPage
              /\ used' = m.used /\ space' = [space EXCEPT ![s] = m.sp]
           \/ /\ ~m.ok /\ Return("syscall")
              /\ used' = m.used \ FramesOf(m.sp, done)
              /\ space' = [space EXCEPT ![s] = Unmapped(m.sp, done)]
    /\ UNCHANGED <<state, kstack, user_brk, mmap_base>>

MmapEnd ==
    /\ Sys.op = "mmap" /\ Sys.va = Sys.end
    /\ mmap_base' = [mmap_base EXCEPT ![Sys.who] = Sys.base]
    /\ Return("syscall") /\ UNCHANGED <<used, state, kstack, user_brk, space>>

Munmap(s) ==
    /\ SyscallIdle /\ state[s] = "ready"
    /\ \E from, to \in VPages :
        /\ from < to
        /\ used' = used \ FramesOf(space[s], from .. to - 1)
        /\ space' = [space EXCEPT ![s] = Unmapped(@, from .. to - 1)]
    /\ UNCHANGED <<state, kstack, user_brk, mmap_base, call>>

Next ==
    \/ CreateBegin \/ ElfBegin \/ UserCreate
    \/ \E t \in Threads : NextSegment(t) \/ MapImage(t) \/ Finish(t)
    \/ \E s \in Procs : ExecBegin(s) \/ Exit(s) \/ BrkBegin(s) \/ MmapBegin(s) \/ Munmap(s)
    \/ BrkPage \/ BrkEnd \/ MmapPage \/ MmapEnd

Spec == Init /\ [][Next]_vars

-----------------------------------------------------------------------------
(* Properties.                                                             *)

Call == [op : {"idle", "find_elf", "find_user", "create", "exec", "brk", "mmap"},
         who : Procs \cup {0}, va : Int, end : Int, base : VPages,
         segs : Seq(Int \X Int), new : Space, stack : MaybeFrame]

\* The type invariant.  The end of a segment is computed in 32 bits and may lie
\* before its start, outside VPages; what a loop has still to map never does.
TypeOK ==
    /\ used \subseteq Frames
    /\ state \in [Procs -> {"empty", "ready", "exited"}] /\ kstack \in [Procs -> MaybeFrame]
    /\ space \in [Procs -> Space]
    /\ user_brk \in [Procs -> VPages] /\ mmap_base \in [Procs -> VPages]
    /\ call \in [Threads -> Call]
    /\ \A t \in Threads : call[t].va .. call[t].end - 1 \subseteq VPages

TableFrames(sp) == {sp.pt[t] : t \in Tables} \ {NoFrame}
StackFrames(k) == IF k = NoFrame THEN {} ELSE {k, k + 1}
OwnedBy(sp, k) == sp.pages \cup TableFrames(sp) \cup StackFrames(k)
\* Everything that owns frames: the processes, and the calls that build one.
Owners == ({"process"} \X Procs) \cup ({"call"} \X Threads)
Held(o) == IF o[1] = "process" THEN OwnedBy(space[o[2]], kstack[o[2]])
           ELSE OwnedBy(call[o[2]].new, call[o[2]].stack)

\* A page a process can reach is allocated to that process, mapped once, and so is
\* its directory: no brk, mmap, munmap or exec, and no failure half-way through
\* one, frees a page that stays mapped.
MappedIsOwned ==
    \A s \in Procs :
        /\ FramesOf(space[s], VPages) \subseteq space[s].pages \ {space[s].pd}
        /\ space[s].pd \in space[s].pages \cup {NoFrame}
        /\ \A v, w \in VPages : v # w /\ space[s].map[v] # NoFrame
                                  => space[s].map[v] # space[s].map[w]

\* No frame has two owners and an owned frame is never free, while processes are
\* created, reaped, re-executed and grown in any order and any call fails.
Exclusive ==
    /\ \A o \in Owners : Held(o) \subseteq used
    /\ \A o, p \in Owners : o # p => Held(o) \cap Held(p) = {}

\* The owners in the terms of FrameOwners: what an owner tracks (elf_pages), and its
\* other frames.
Tracks(o) == IF o[1] = "process" THEN space[o[2]].pages ELSE call[o[2]].new.pages
Others(sp, k) == TableFrames(sp) \cup StackFrames(k)
HeldElse(o) == IF o[1] = "process" THEN Others(space[o[2]], kstack[o[2]])
               ELSE Others(call[o[2]].new, call[o[2]].stack)
Ownership == INSTANCE FrameOwners WITH
    Processes <- {"process"} \X Procs, Calls <- {"call"} \X Threads,
    pages <- [o \in Owners |-> Tracks(o)], rest <- [o \in Owners |-> HeldElse(o)]

\* Frames go from hand to hand as FrameOwners says, through every failure half-way: only
\* their owner gives them back, what a call builds goes to one process whole, and what
\* elf_pages tracks is never lost, so that segments, stacks, heaps and mappings come back.
FramesHaveOwners == Ownership!Spec

\* task.c:648 "on failure no resource of the old process is touched; on success
\* the old user pages are all released": a step of exec changes nothing of the
\* process, or replaces its space and keeps no page of the old one.
ExecAllOrNothing ==
    [][Sys.op = "exec" => \/ UNCHANGED <<space, proc>>
                          \/ space[Sys.who].pages \cap (space'[Sys.who].pages \cup used') = {}]_vars

\* task.c:354 "reap exited ring-3 processes: free the user pages, page directory
\* and kernel stack": with no call under way, all that is in use has an owner.
NothingLeaks == (\A t \in Threads : call[t] = Idle) => used \subseteq UNION {Held(o) : o \in Owners}
=============================================================================
