------------------------------ MODULE NameStore -----------------------------
(***************************************************************************)
(* What a file system promises its users: a map from paths to directories  *)
(* and files, in which an operation changes what it was asked to change    *)
(* (fs.h), a directory goes only when it is empty (fs.h:31) and takes what *)
(* is below it along when it is renamed (fs.c:237).  Whether an operation  *)
(* is possible, for want of a parent or of room, is left open.  FileSystem *)
(* implements it with a table of slots, but for what it names there.       *)
(***************************************************************************)
EXTENDS Integers, Sequences

CONSTANTS
    Names,        \* paths, as sequences of components
    Contents,     \* what a file may hold
    Nothing       \* what a new file holds

VARIABLE store

NoNames == [n \in {} |-> Nothing]
File(d) == [is_dir |-> FALSE, data |-> d]
Dir == [is_dir |-> TRUE, data |-> Nothing]

With(n, e) == [m \in DOMAIN store \cup {n} |-> IF m = n THEN e ELSE store[m]]
Without(n) == [m \in DOMAIN store \ {n} |-> store[m]]

Init == store = NoNames

Make(n) == n \notin DOMAIN store /\ store' = With(n, Dir)

\* The file is created if there is none.
Put(n, d) ==
    /\ n \in DOMAIN store => ~store[n].is_dir
    /\ store' = With(n, File(d))

Under(k, n) == Len(k) > Len(n) /\ SubSeq(k, 1, Len(n)) = n
Below(n) == {k \in DOMAIN store : Under(k, n)}

Remove(n) ==
    /\ n \in DOMAIN store
    /\ store[n].is_dir => Below(n) = {}
    /\ store' = Without(n)

\* The entry, and with a directory all that is below it, at the same place below its
\* new name; no two of them get one name.
Move(n, m) ==
    /\ n \in DOMAIN store /\ m \notin DOMAIN store
    /\ LET to(k) == IF k = n THEN m
                    ELSE IF store[n].is_dir /\ Under(k, n)
                    THEN m \o SubSeq(k, Len(n) + 1, Len(k)) ELSE k
       IN  /\ \A j, k \in DOMAIN store : to(j) = to(k) => j = k
           /\ store' = [x \in {to(k) : k \in DOMAIN store} |->
                           store[CHOOSE k \in DOMAIN store : to(k) = x]]

\* What is left when an entry alone changes its name.
Alone(n, m) == [k \in (DOMAIN store \ {n}) \cup {m} |-> IF k = m THEN store[n] ELSE store[k]]

Clear == store' = NoNames

Next ==
    \/ \E n \in Names : Make(n) \/ Remove(n) \/ \E d \in Contents : Put(n, d)
    \/ \E n, m \in Names : Move(n, m)
    \/ Clear

Spec == Init /\ [][Next]_store
=============================================================================
