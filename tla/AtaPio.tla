-------------------------------- MODULE AtaPio ------------------------------
(***************************************************************************)
(* ata_read_sectors and ata_write_sectors of ata.c against a drive.  The   *)
(* driver polls the status register; a poll gives up after its loop.  The  *)
(* drive is external: it works on its own, may report an error instead of  *)
(* its data, keeps written sectors in a cache until it is flushed, and, as *)
(* the one of QEMU does, ignores a command while it is busy or wants data. *)
(***************************************************************************)
EXTENDS Integers, Sequences, SequencesExt

CONSTANTS
    Lbas,       \* where a transfer may start
    MAX_COUNT   \* sectors of a transfer, 128 in the code

ASSUME AtaAssumption == Lbas \subseteq Nat /\ MAX_COUNT \in Nat \ {0}

VARIABLE io     \* the driver: op, lba, count, s (sector of the loop), buf, pc, res; the
                \* drive: busy, drq, err, doing ("read", "write", "flush", "idle"), at
                \* (the next sector), left, cache and media (pairs of a sector and
                \* whether the last transfer wrote it); and as history expired (some poll
                \* gave up) and late (an error after the last data)

AtaInit == io = [op |-> "none", lba |-> 0, count |-> 0, s |-> 0, buf |-> <<>>, pc |-> "idle",
              res |-> 0, busy |-> FALSE, drq |-> FALSE, err |-> FALSE, doing |-> "idle", at |-> 0,
              left |-> 0, cache |-> {}, media |-> {}, expired |-> FALSE,
              late |-> FALSE]

-----------------------------------------------------------------------------
(* The drive.                                                              *)

Ignores(d) == d.busy \/ d.drq
Command(d, op, lba, count) ==
    IF Ignores(d) THEN d
    ELSE [d EXCEPT !.busy = TRUE, !.err = FALSE, !.doing = op, !.at = lba, !.left = count]

\* A flush is only heeded between two commands.
FlushCommand(d) == IF Ignores(d) THEN d
                   ELSE [d EXCEPT !.busy = TRUE, !.err = FALSE, !.doing = "flush"]

Stored(d) ==
    {p \in d.media : \A q \in d.cache : q[1] # p[1]} \cup d.cache

\* It is ready: for the data of the next sector, or done.
Ready ==
    /\ io.busy
    /\ io' = IF io.doing = "flush"
             THEN [io EXCEPT !.busy = FALSE, !.doing = "idle", !.media = Stored(io), !.cache = {}]
             ELSE IF io.left = 0 THEN [io EXCEPT !.busy = FALSE, !.doing = "idle"]
             ELSE [io EXCEPT !.busy = FALSE, !.drq = TRUE]

Fails ==
    /\ io.busy
    /\ io' = [io EXCEPT !.busy = FALSE, !.err = TRUE, !.doing = "idle", !.left = 0,
                        !.late = io.op = "write" /\ io.pc \in {"done", "flushed"}
                                 /\ io.s = io.count - 1]

Moved == [io EXCEPT !.drq = FALSE, !.busy = io.doing = "write" \/ io.left > 1,
                    !.doing = IF io.doing = "read" /\ io.left = 1 THEN "idle" ELSE @,
                    !.at = @ + 1, !.left = @ - 1]

-----------------------------------------------------------------------------
(* The driver.                                                             *)

Aged(written) == {<<p[1], FALSE>> : p \in written}

Start(op, lba, count) ==
    /\ io.pc = "idle" 
    /\ io' = [Command(io, op, lba, count) EXCEPT
                !.op = op, !.lba = lba, !.count = count, !.s = 0, !.buf = <<>>,
                !.pc = "wait", !.res = 0, !.late = FALSE, !.cache = Aged(@), !.media = Aged(@)]

Return(r) == io' = [io EXCEPT !.pc = "idle", !.res = r]

\* ata_wait_bsy gives up.
Expire ==
    /\ io.pc # "idle" /\ io.busy
    /\ io' = [io EXCEPT !.pc = "idle", !.expired = TRUE,
                        !.res = CASE io.pc = "wait" -> -2 [] io.pc = "done" -> -5
                                  [] io.pc = "flushed" -> -6]

Refused ==
    /\ io.pc = "wait" /\ ~io.busy
    /\ \/ io.err /\ Return(-3)
       \/ ~io.err /\ ~io.drq /\ Return(-4)

NextSector(d) == IF d.s + 1 = d.count THEN [d EXCEPT !.s = @ + 1, !.pc = "idle"]
                 ELSE [d EXCEPT !.s = @ + 1, !.pc = "wait"]

\* insl reads the sector the drive is at, whatever was asked for.
ReadSector ==
    /\ io.pc = "wait" /\ ~io.busy /\ ~io.err /\ io.drq /\ io.op = "read"
    /\ io' = NextSector([Moved EXCEPT !.buf = Append(@, io.at)])

WriteSector ==
    /\ io.pc = "wait" /\ ~io.busy /\ ~io.err /\ io.drq /\ io.op = "write"
    /\ io' = [Moved EXCEPT !.pc = "done",
                           !.cache = {p \in @ : p[1] # io.at} \cup {<<io.at, TRUE>>}]

\* The write is done or has failed: the status is not looked at, the cache is
\* flushed.
Flush_Bug == io.pc = "done" /\ ~io.busy /\ io' = [io EXCEPT !.pc = "flushed"]
Flush == io.pc = "done" /\ ~io.busy /\ io' = [FlushCommand(io) EXCEPT !.pc = "flushed"]

Flushed == io.pc = "flushed" /\ ~io.busy /\ io' = NextSector(io)

AtaNext ==
    \/ \E op \in {"read", "write"}, lba \in Lbas, count \in 1..MAX_COUNT : Start(op, lba, count)
    \/ Expire \/ Refused \/ ReadSector \/ WriteSector \/ Flush \/ Flushed
    \/ Ready \/ Fails

AtaSpec == AtaInit /\ [][AtaNext]_io

-----------------------------------------------------------------------------
Asked == [i \in 1..io.count |-> io.lba + i - 1]
OnMedia == \A i \in 1..io.count : <<io.lba + i - 1, TRUE>> \in io.media

\* A transfer that returns 0 moved every sector it was asked for, in order: a read
\* holds exactly those, a write is on the medium and no longer in the cache; one
\* that fails has moved those before the failure.  Two things the code does
\* not see are excluded: an error on the last sector or its flush, and the drive
\* still busy with a transfer whose poll gave up.
Transferred ==
    /\ io.op = "read" /\ ~io.expired => IsPrefix(io.buf, Asked)
    /\ io.pc = "idle" /\ io.op # "none" /\ io.res = 0 /\ ~io.late /\ ~io.expired =>
         IF io.op = "read" THEN io.buf = Asked ELSE OnMedia /\ io.cache = {}
    /\ io.op = "write" /\ ~io.expired =>
         {<<io.lba + i - 1, TRUE>> : i \in 1..io.s} \subseteq io.cache \cup io.media
=============================================================================
