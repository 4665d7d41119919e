------------------------------- MODULE UserHeap ----------------------------
(***************************************************************************)
(* malloc, free, fopen and fclose of user/epoch.c in one process, which    *)
(* may also move the break itself (sbrk), write through what it was given, *)
(* and free a pointer twice.  Addresses count units of HBLK_ALIGN bytes.   *)
(***************************************************************************)
EXTENDS Integers, Sequences, SequencesExt, FiniteSets, FiniteSetsExt, Functions

CONSTANTS
    PAGE,       \* units of a page
    HEADER,     \* sizeof(hblk): two units
    Base,       \* the break of the new process
    LIMIT,      \* ELF_USER_STACK_BASE - PAGE_SIZE
    Sizes,      \* what the program asks for
    Steps,      \* what it adds to the break itself
    FILE,       \* sizeof(FILE)
    FDS         \* descriptors left to the process

ASSUME UserHeapAssumption ==
    /\ PAGE \in Nat \ {0} /\ HEADER \in Nat \ {0} /\ FILE \in Nat \ {0}
    /\ Base \in Nat /\ LIMIT \in Nat /\ Sizes \cup Steps \subseteq Nat

VARIABLE hp     \* ready, top, brk (heap_ready, heap_top, heap_brk); kbrk, the kernel's
                \* user_brk; hdr: the headers in memory, by address; free: hfree;
                \* files: the open FILEs [at, fd]; fds: the descriptors the kernel has
                \* open for the process; as history, given: what malloc
                \* returned and nobody freed [at, len], own: what sbrk returned, late:
                \* whether that was after the first malloc

HeapInit == hp = [ready |-> FALSE, top |-> 0, brk |-> 0, kbrk |-> Base, hdr |-> <<>>,
              free |-> <<>>, files |-> {}, fds |-> {}, given |-> {}, own |-> {},
              late |-> FALSE]

\* SYS_brk: it never shrinks; a page may be missing.
Breaks(kbrk, addr) ==
    IF addr <= kbrk \/ addr > LIMIT THEN {kbrk} ELSE {kbrk, addr}

\* The first malloc asks where the break is: the program may have moved it.
Started_Bug == IF hp.ready THEN hp ELSE [hp EXCEPT !.ready = TRUE, !.top = Base, !.brk = hp.kbrk]
Started == IF hp.ready THEN hp ELSE [hp EXCEPT !.ready = TRUE, !.top = hp.kbrk, !.brk = hp.kbrk]

With(hdr, at, h) == [a \in DOMAIN hdr \cup {at} |-> IF a = at THEN h ELSE hdr[a]]

Give(s, at, n) == [s EXCEPT !.given = @ \cup {[at |-> at + HEADER, len |-> n]}]

\* First fit; a block is given whole.
Fits(s, need) == {i \in DOMAIN s.free : s.hdr[s.free[i]].size >= need}
Reuse(s, n) ==
    LET i == Min(Fits(s, n + HEADER))
        at == s.free[i]
    IN  Give([s EXCEPT !.free = RemoveAt(@, i), !.hdr[at].used = TRUE], at, n)

Bump(s, n) ==
    Give([s EXCEPT !.top = @ + n + HEADER,
                   !.hdr = With(@, s.top, [size |-> n + HEADER, used |-> TRUE])], s.top, n)

\* The states malloc may end in, of which those without a new block returned NULL.
Malloc(s, n) ==
    LET end == s.top + n + HEADER
        req == ((end + PAGE - 1) \div PAGE) * PAGE
    IN  IF Fits(s, n + HEADER) # {} THEN {Reuse(s, n)}
        ELSE IF end <= s.brk THEN {Bump(s, n)}
        ELSE {IF k = req THEN Bump([s EXCEPT !.brk = k, !.kbrk = k], n)
                         ELSE [s EXCEPT !.kbrk = k] : k \in Breaks(s.kbrk, req)}

Alloc(n) == hp' \in Malloc(Started, n)

\* The place of b in the list by address.
Place(s, b) == Min({i \in 1..Len(s.free) + 1 : i > Len(s.free) \/ s.free[i] >= b})

\* The block absorbs its successor, then its predecessor absorbs it.
MergeNext(s, b) ==
    LET i == CHOOSE k \in DOMAIN s.free : s.free[k] = b
    IN  IF i < Len(s.free) /\ b + s.hdr[b].size = s.free[i + 1]
        THEN [s EXCEPT !.hdr[b].size = @ + s.hdr[s.free[i + 1]].size,
                       !.free = RemoveAt(@, i + 1)]
        ELSE s

MergePrev_Bug(s, b) ==
    LET i == CHOOSE k \in DOMAIN s.free : s.free[k] = b
    IN  IF i > 1 THEN [s EXCEPT !.hdr[s.free[i - 1]].size = @ + s.hdr[b].size,
                                !.free = RemoveAt(@, i)]
        ELSE s
MergePrev(s, b) ==
    LET i == CHOOSE k \in DOMAIN s.free : s.free[k] = b
    IN  IF i > 1 /\ s.free[i - 1] + s.hdr[s.free[i - 1]].size = b
        THEN [s EXCEPT !.hdr[s.free[i - 1]].size = @ + s.hdr[b].size,
                       !.free = RemoveAt(@, i)]
        ELSE s

\* free(p): without a header in use in front of p nothing happens.
Freed(s, p) ==
    LET b == p - HEADER
        out == [s EXCEPT !.hdr[b].used = FALSE, !.given = {g \in @ : g.at # p},
                         !.free = InsertAt(@, Place(s, b), b)]
    IN  IF b \notin DOMAIN s.hdr \/ ~s.hdr[b].used THEN s
        ELSE MergePrev(MergeNext(out, b), b)

IsFile(p) == \E f \in hp.files : f.at = p

\* Any pointer the program ever got, freed before or not, but a FILE that is open.
Free(p) == ~IsFile(p) /\ hp' = Freed(hp, p)

\* The program fills a block: what malloc kept there of older blocks is gone.
Fill(g) ==
    /\ ~IsFile(g.at)
    /\ hp' = [hp EXCEPT !.hdr = Restrict(@, DOMAIN @ \ (g.at..g.at + g.len - 1))]

Sbrk(n) ==
    /\ hp.kbrk + n \in Breaks(hp.kbrk, hp.kbrk + n)
    /\ hp' = [hp EXCEPT !.kbrk = @ + n, !.own = @ \cup (hp.kbrk..hp.kbrk + n - 1),
                        !.late = @ \/ hp.ready]

Closed_Bug(fds, fd) == IF Cardinality(fds) > 1 THEN fds ELSE fds \ {fd}
Closed(fds, fd) == fds \ {fd}

\* The new descriptor is closed again when there is no memory for the FILE.
Fopen(fd) ==
    \E s \in Malloc(Started, FILE) :
        LET new == s.given \ hp.given
            fds == hp.fds \cup {fd}
        IN  hp' = IF new = {} THEN [s EXCEPT !.fds = Closed(fds, fd)]
                  ELSE [s EXCEPT !.fds = fds,
                                 !.files = @ \cup {[at |-> g.at, fd |-> fd] : g \in new}]

\* f->fd = -1 is written before the block is freed, so closing twice is refused.
Fclose(f) == hp' = [Freed(hp, f.at) EXCEPT !.files = @ \ {f}, !.fds = Closed(@, f.fd)]

HeapNext ==
    \/ \E n \in Sizes : Alloc(n)
    \/ \E n \in Steps : Sbrk(n)
    \/ \E b \in DOMAIN hp.hdr : Free(b + HEADER)
    \/ \E g \in hp.given : Fill(g)
    \/ \E fd \in FDS \ hp.fds : Fopen(fd)
    \/ \E f \in hp.files : Fclose(f)

HeapSpec == HeapInit /\ [][HeapNext]_hp

Used == {g.at - HEADER : g \in hp.given}
Block(b) == b..b + hp.hdr[b].size - 1

\* From its first block to its top the heap is tiled by the blocks given and the
\* free ones: none overlap, no byte is lost, a second free changes nothing; the
\* list is in the order of addresses and no two of its blocks touch; what was asked
\* for fits; and all of it is below the break the kernel granted.
Tiled ==
    LET blocks == Used \cup ToSet(hp.free)
    IN  hp.ready =>
        /\ blocks \subseteq DOMAIN hp.hdr
        /\ Used = {b \in DOMAIN hp.hdr : hp.hdr[b].used}
        /\ \A b, c \in blocks : b # c => Block(b) \cap Block(c) = {}
        /\ Cardinality(UNION {Block(b) : b \in blocks}) =
             hp.top - (IF blocks = {} THEN hp.top ELSE Min(blocks))
        /\ \A i \in 1..Len(hp.free) - 1 :
             hp.free[i] + hp.hdr[hp.free[i]].size < hp.free[i + 1]
        /\ \A g \in hp.given : hp.hdr[g.at - HEADER].size >= g.len + HEADER
        /\ hp.top <= hp.brk /\ hp.brk <= hp.kbrk

\* Memory the program took with sbrk before its first malloc is never handed out.
\* (Taken later it may be: heap_brk does not follow the break.)
SbrkIsApart ==
    ~hp.late => \A g \in hp.given : (g.at - HEADER..g.at + g.len - 1) \cap hp.own = {}

\* Every open FILE has memory and a descriptor of its own, and no descriptor stays
\* open without one, also when fopen finds no memory.
FilesOwn ==
    /\ hp.fds = {f.fd : f \in hp.files}
    /\ \A f \in hp.files : \E g \in hp.given : g.at = f.at
    /\ \A f, g \in hp.files : f.at = g.at \/ f.fd = g.fd => f = g
=============================================================================
