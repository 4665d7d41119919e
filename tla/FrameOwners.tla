----------------------------- MODULE FrameOwners -----------------------------
(***************************************************************************)
(* What the memory of the processes promises about page frames, whatever   *)
(* the system calls do inside: every frame in use has one owner, a process *)
(* or a call that builds one, or it is lost for good.  An owner takes free *)
(* frames and gives back its own, a call hands all it has built to one     *)
(* process, and what an owner tracks never leaves it but to be freed or    *)
(* handed over.  Frames the owner does not track (page tables, the kernel  *)
(* stack) may be lost, when the owner goes, and frames it was about to     *)
(* take.  ProcMem implements it.                                           *)
(***************************************************************************)
CONSTANTS Processes, Calls

VARIABLES
    used,       \* the frames in use
    pages,      \* per owner: the frames it tracks
    rest        \* per owner: its other frames

vars == <<used, pages, rest>>

Owners == Processes \cup Calls
Held(o) == pages[o] \cup rest[o]
Hands(O) == UNION {Held(o) : o \in O}

Init ==
    /\ used = {}
    /\ pages = [o \in Owners |-> {}] /\ rest = [o \in Owners |-> {}]

\* Only the owners in O take part, and nobody else's frame changes hands or is freed.
Trade(O) ==
    /\ \A p \in Owners \ O : pages'[p] = pages[p] /\ rest'[p] = rest[p]
    /\ used \ Hands(O) \subseteq used'
    /\ \A o \in O : /\ pages'[o] \cup rest'[o] \subseteq used'
                    /\ (pages'[o] \cup rest'[o]) \cap used \subseteq Hands(O)

\* The owner takes free frames, or gives back some of those it tracks.
Work(o) ==
    /\ Trade({o})
    /\ pages[o] \cap used' \subseteq pages'[o]
    /\ rest[o] \subseteq rest'[o]

\* Owners go: all that they track is free again.
Drop(O) ==
    /\ Trade(O)
    /\ \A o \in O : pages[o] \cap used' = {} /\ pages'[o] = {} /\ rest'[o] = {}

\* Process p gets everything call c has built, in the place of its own pages, which are
\* all free again.
HandOver(c, p) ==
    /\ Trade({c, p})
    /\ pages[p] \cap used' = {}
    /\ pages[c] \subseteq pages'[p] /\ rest[c] \subseteq rest'[p]
    /\ pages'[c] = {} /\ rest'[c] = {}

Next ==
    \/ \E o \in Owners : Work(o)
    \/ \E c \in Calls : Drop({c}) \/ \E p \in Processes : HandOver(c, p)
    \/ \E P \in SUBSET Processes : Drop(P)

Spec == Init /\ [][Next]_vars
=============================================================================
