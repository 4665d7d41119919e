--------------------------------- MODULE Ide -------------------------------
(***************************************************************************)
(* ide_run, the interpreter of the IDE window of gui.c, line by line.  The *)
(* program is any sequence of lines.  An expression is a constant or a     *)
(* variable; an unknown variable is an error.                              *)
(***************************************************************************)
EXTENDS Integers, Sequences, SequencesExt, FiniteSets

CONSTANTS
    DEPTH,          \* the 8 of if_stack
    IDE_VARS,
    OUT,            \* the room in ide_out, in prints
    Names, Values,  \* variables and constants of the program
    MaxNest         \* bound: ifs open at once

\* What the constants must satisfy.
IdeAssumption ==
    /\ DEPTH \in Nat \ {0} /\ IDE_VARS \in Nat /\ OUT \in Nat /\ MaxNest \in Nat
    /\ Values \subseteq Int /\ 0 \in Values

VARIABLE st     \* if_stack, skip (skip_cnt), vars (the pairs of ide_vnames and
                \* ide_vvals), out (ide_outn); as history nest, the conditions of
                \* all open ifs; deep, whether they ever exceeded the stack; want,
                \* what the executed lines assigned; ran and due, whether the last
                \* line was executed and should have been

Init == st = [if_stack |-> <<>>, skip |-> 0, vars |-> <<>>, out |-> 0, nest |-> <<>>,
              deep |-> FALSE, want |-> {}, ran |-> FALSE, due |-> FALSE]

Find(n) == {i \in DOMAIN st.vars : st.vars[i][1] = n}

\* The possible results of an expression: <<error, value>>.
Results ==
    {<<FALSE, v>> : v \in Values} \cup
    {IF Find(n) = {} THEN <<TRUE, 0>>
     ELSE <<FALSE, st.vars[CHOOSE i \in Find(n) : TRUE][2]>> : n \in Names}

Due == \A i \in DOMAIN st.nest : st.nest[i]

\* An if deeper than the stack is ignored; inside a skipped part its condition is
\* not evaluated.
If(r) ==
    LET taken == ~r[1] /\ r[2] # 0
        all == Append(st.nest, taken)
    IN  /\ Len(st.nest) < MaxNest
        /\ st' = [st EXCEPT
             !.nest = all, !.deep = @ \/ Len(all) > DEPTH,
             !.if_stack = IF Len(@) >= DEPTH THEN @ ELSE Append(@, st.skip = 0 /\ taken),
             !.skip = IF Len(st.if_stack) >= DEPTH THEN @
                      ELSE IF @ > 0 THEN @ + 1 ELSE IF taken THEN 0 ELSE 1]

Unskip_Bug(skip, was) == IF ~was THEN 0 ELSE skip
Unskip(skip, was) == IF ~was /\ skip > 0 THEN skip - 1 ELSE skip

\* An endif without an if is ignored.
Endif ==
    st' = IF st.if_stack = <<>> THEN [st EXCEPT !.nest = IF @ = <<>> THEN @ ELSE Front(@)]
          ELSE [st EXCEPT !.if_stack = Front(@), !.skip = Unskip(@, Last(st.if_stack)),
                          !.nest = IF @ = <<>> THEN @ ELSE Front(@)]

Seen(s) == [s EXCEPT !.ran = (st.skip = 0), !.due = Due]

\* print, help: the output is cut where the buffer ends.
PrintLine ==
    st' = IF st.skip > 0 \/ st.out >= OUT THEN Seen(st) ELSE Seen([st EXCEPT !.out = @ + 1])

\* ide_var_set: an error assigns nothing, a full table drops a new name.
Assign(n, r) ==
    LET i == CHOOSE k \in Find(n) : TRUE
        kept == {w \in st.want : w[1] # n}
    IN  st' = IF st.skip > 0 \/ r[1] THEN Seen(st)
              ELSE IF Find(n) # {}
              THEN Seen([st EXCEPT !.vars[i][2] = r[2], !.want = kept \cup {<<n, r[2]>>}])
              ELSE IF Len(st.vars) >= IDE_VARS THEN Seen(st)
              ELSE Seen([st EXCEPT !.vars = Append(@, <<n, r[2]>>),
                                   !.want = @ \cup {<<n, r[2]>>}])

\* Run pressed again: everything anew, open ifs included.
Run == st' = [if_stack |-> <<>>, skip |-> 0, vars |-> <<>>, out |-> 0, nest |-> <<>>,
              deep |-> FALSE, want |-> {}, ran |-> FALSE, due |-> FALSE]

Next ==
    \/ \E r \in Results : If(r)
    \/ Endif
    \/ PrintLine
    \/ \E n \in Names, r \in Results : Assign(n, r)
    \/ Run

\* As long as the ifs fit in the stack a line is executed exactly when all the ifs
\* around it were taken, whatever was skipped before; and a variable holds what the
\* last executed assignment gave it.
Taken ==
    /\ ~st.deep => (st.ran <=> st.due)
    /\ ~st.deep => (st.skip = 0 <=> Due)
    /\ {st.vars[i] : i \in DOMAIN st.vars} = st.want
    /\ Cardinality({st.vars[i][1] : i \in DOMAIN st.vars}) = Len(st.vars)
=============================================================================
