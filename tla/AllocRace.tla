------------------------------ MODULE AllocRace ------------------------------
(***************************************************************************)
(* The page allocator of mm.c at the grain at which it can be interrupted. *)
(*                                                                         *)
(* alloc_pages and kfree take no lock and do not disable interrupts.  The  *)
(* main thread (shell, GUI) calls them with interrupts enabled, and an IRQ *)
(* switches to a ring-3 process whose brk, mmap or execve calls them       *)
(* again, in a system call nothing interrupts.  So the main thread takes   *)
(* one step per test of a bit, per load and per store (the kernel is built *)
(* without optimisation, and |=, &= and += are a load and a store), and    *)
(* the process makes a whole call in one.  Scheduler and ProcMem take the  *)
(* allocator as atomic: this module is about what that leaves out.         *)
(***************************************************************************)
EXTENDS PhysMem

CONSTANTS
    BYTE          \* bits of the bitmap that one load or store carries (8)

VARIABLES
    bitmap,       \* frames whose bit is set
    used_pages,
    mine, theirs, \* frames the main thread and the ring-3 process were given
    pc,           \* where the main thread is
    count, i, j,  \* locals of alloc_pages; i is also the frame kfree gives back
    reg           \* what the last load read: the bits of a byte, or used_pages

vars == <<bitmap, used_pages, mine, theirs, pc, count, i, j, reg>>

ByteOf(f) == {g \in Frames : g \div BYTE = f \div BYTE}

Init ==
    /\ bitmap = {} /\ used_pages = 0 /\ mine = {} /\ theirs = {}
    /\ pc = "idle" /\ count = 0 /\ i = 0 /\ j = 0 /\ reg = {}

Alloc ==
    /\ pc = "idle" /\ count' \in 1 .. 2
    /\ pc' = "scan" /\ i' = 0 /\ j' = 0
    /\ UNCHANGED <<bitmap, used_pages, mine, theirs, reg>>

\* bitmap_test(i + j), the end of a run, the end of the bitmap.
Scan ==
    /\ pc = "scan"
    /\ \/ i + count > NFRAMES /\ pc' = "idle" /\ UNCHANGED <<i, j>>
       \/ /\ i + count <= NFRAMES /\ j < count
          /\ IF i + j \in bitmap THEN i' = i + 1 /\ j' = 0 ELSE j' = j + 1 /\ UNCHANGED i
          /\ UNCHANGED pc
       \/ i + count <= NFRAMES /\ j = count /\ pc' = "set" /\ j' = 0 /\ UNCHANGED i
    /\ UNCHANGED <<bitmap, used_pages, mine, theirs, count, reg>>

\* bitmap_set(i + j): the byte is read, then written.
SetLoad ==
    /\ pc = "set" /\ pc' = "set_store"
    /\ reg' = bitmap \cap ByteOf(i + j)
    /\ UNCHANGED <<bitmap, used_pages, mine, theirs, count, i, j>>

SetStore ==
    /\ pc = "set_store"
    /\ bitmap' = (bitmap \ ByteOf(i + j)) \cup reg \cup {i + j}
    /\ j' = j + 1 /\ pc' = IF j + 1 < count THEN "set" ELSE "add"
    /\ UNCHANGED <<used_pages, mine, theirs, count, i, reg>>

\* used_pages += count, and the address is returned.
AddLoad ==
    /\ pc = "add" /\ pc' = "add_store" /\ reg' = used_pages
    /\ UNCHANGED <<bitmap, used_pages, mine, theirs, count, i, j>>

AddStore ==
    /\ pc = "add_store" /\ pc' = "idle"
    /\ used_pages' = reg + count /\ mine' = mine \cup Run(i, count)
    /\ UNCHANGED <<bitmap, theirs, count, i, j, reg>>

\* free_page and kfree: test, clear, used_pages--.
Free ==
    /\ pc = "idle"
    /\ \E f \in mine :
        /\ i' = f /\ mine' = mine \ {f}
        /\ pc' = IF f \in bitmap THEN "clear" ELSE "idle"
    /\ UNCHANGED <<bitmap, used_pages, theirs, count, j, reg>>

ClearLoad ==
    /\ pc = "clear" /\ pc' = "clear_store" /\ reg' = bitmap \cap ByteOf(i)
    /\ UNCHANGED <<bitmap, used_pages, mine, theirs, count, i, j>>

ClearStore ==
    /\ pc = "clear_store" /\ pc' = "sub"
    /\ bitmap' = (bitmap \ ByteOf(i)) \cup (reg \ {i})
    /\ UNCHANGED <<used_pages, mine, theirs, count, i, j, reg>>

SubLoad ==
    /\ pc = "sub" /\ pc' = "sub_store" /\ reg' = used_pages
    /\ UNCHANGED <<bitmap, used_pages, mine, theirs, count, i, j>>

SubStore ==
    /\ pc = "sub_store" /\ pc' = "idle" /\ used_pages' = reg - 1
    /\ UNCHANGED <<bitmap, mine, theirs, count, i, j, reg>>

\* A page for brk, mmap or execve of the process, and munmap.
SyscallAlloc ==
    /\ FirstFit(bitmap, 1) # NoFrame
    /\ bitmap' = AfterAlloc(bitmap, 1) /\ used_pages' = used_pages + 1
    /\ theirs' = theirs \cup {FirstFit(bitmap, 1)}
    /\ UNCHANGED <<mine, pc, count, i, j, reg>>

SyscallFree ==
    /\ \E f \in theirs :
        /\ theirs' = theirs \ {f}
        /\ bitmap' = AfterFree(bitmap, f)
        /\ used_pages' = IF f \in bitmap THEN used_pages - 1 ELSE used_pages
    /\ UNCHANGED <<mine, pc, count, i, j, reg>>

Next ==
    \/ Alloc \/ Scan \/ SetLoad \/ SetStore \/ AddLoad \/ AddStore
    \/ Free \/ ClearLoad \/ ClearStore \/ SubLoad \/ SubStore
    \/ SyscallAlloc \/ SyscallFree

Spec == Init /\ [][Next]_vars

\* mm.c:59 "allocate count contiguous free pages": a frame the main thread is given
\* is free, so it is not also in the address space of a process.
GivenIsFree == mine \cap theirs = {}
=============================================================================
