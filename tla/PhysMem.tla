------------------------------- MODULE PhysMem -------------------------------
(***************************************************************************)
(* The page allocator of mm.c as functions of its bitmap.  A frame is its  *)
(* index in the bitmap; the bitmap is the set of frames in use.  A call is *)
(* one step here; what an interrupt in the middle of one does is in        *)
(* AllocRace.                                                              *)
(***************************************************************************)
EXTENDS Integers, FiniteSets

CONSTANTS
    NFRAMES       \* total_pages

ASSUME FramesAssumption == NFRAMES \in Nat

Frames == 0 .. NFRAMES - 1
NoFrame == -1            \* the address 0 an allocation returns when it fails

\* The frames i .. i+count-1 of a run.
Run(i, count) == i .. i + count - 1

FreeRun(used, i, count) == i \in Frames /\ i + count <= NFRAMES /\ Run(i, count) \cap used = {}

\* The frame alloc_pages(count) returns: the first free run (first fit).
FirstFit(used, count) ==
    IF \E i \in Frames : FreeRun(used, i, count)
    THEN CHOOSE i \in Frames : /\ FreeRun(used, i, count)
                               /\ \A j \in Frames : FreeRun(used, j, count) => i <= j
    ELSE NoFrame

\* What the bitmap becomes.
AfterAlloc(used, count) ==
    LET i == FirstFit(used, count)
    IN  IF i = NoFrame THEN used ELSE used \cup Run(i, count)

\* free_page, and kfree, which gives back one page whatever was allocated.
AfterFree(used, i) == used \ {i}
=============================================================================
