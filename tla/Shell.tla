------------------------------- MODULE Shell -------------------------------
(***************************************************************************)
(* The text screen (vga.c), the command line of the shell on it, and the   *)
(* current directory with join_path, which every command that takes a path *)
(* uses (shell.c).  A behaviour is one of the two: the screen shows no     *)
(* path, and a path takes nothing from the screen.                         *)
(***************************************************************************)
EXTENDS Integers, Sequences, FiniteSets, SequencesExt

CONSTANTS
    VGA_WIDTH, VGA_HEIGHT,
    CMDLINE_MAX,
    ARGC_MAX,       \* the words execute has room for (16)
    Prompt,         \* what print_prompt prints
    Typed,          \* the characters that are typed
    KEYS,           \* a bound of the model: the number of keys
    FS_MAX_NAME,
    PathArgs        \* the arguments typed after cd

VARIABLE st     \* of the screen: vbuf, row, col, cmd (cmdline), aligned, keys;
                \* of the directory: cwd, and what it was moved from, by which arg

-----------------------------------------------------------------------------
(***************************************************************************)
(* The screen is vbuf, a row of cells after another; the command line is   *)
(* cmdline[0 .. cmd_len - 1].  A character is a string; a command of one   *)
(* letter stands for each kind: "e" is echo, "c" clear, "n" one whose      *)
(* output does not matter, any other word is not found.                    *)
(***************************************************************************)
\* What the constants must satisfy.
ScreenAssumption == VGA_WIDTH \in Nat \ {0} /\ VGA_HEIGHT \in Nat \ {0}

ClearScreen == [i \in 0 .. VGA_WIDTH * VGA_HEIGHT - 1 |-> " "]

\* aligned: since the prompt no tab was typed, nor a backspace in column 0 (kept for
\* the property).
Booted(r) ==
    [vbuf |-> [ClearScreen EXCEPT ![r * VGA_WIDTH] = "#"], row |-> r, col |-> Len(Prompt),
     cmd |-> <<>>, aligned |-> TRUE, keys |-> 0]
TermInit == \E r \in 0 .. VGA_HEIGHT - 1 : st = Booted(r)

-----------------------------------------------------------------------------
(***************************************************************************)
(* vga_putchar, as an operator from a terminal to the next.                *)
(***************************************************************************)
set_cell(t, c) == [t EXCEPT !.vbuf[t.row * VGA_WIDTH + t.col] = c]

vga_scroll_Bug(t) ==
    [t EXCEPT
        !.vbuf = [i \in DOMAIN t.vbuf |->
                    IF i < (VGA_HEIGHT - 1) * VGA_WIDTH THEN t.vbuf[i] ELSE " "],
        !.row = VGA_HEIGHT - 1]
vga_scroll(t) ==
    [t EXCEPT
        !.vbuf = [i \in DOMAIN t.vbuf |->
                    IF i < (VGA_HEIGHT - 1) * VGA_WIDTH THEN t.vbuf[i + VGA_WIDTH] ELSE " "],
        !.row = VGA_HEIGHT - 1]

Settled(t) ==
    LET wrapped == IF t.col >= VGA_WIDTH THEN [t EXCEPT !.col = 0, !.row = @ + 1] ELSE t
    IN  IF wrapped.row >= VGA_HEIGHT THEN vga_scroll(wrapped) ELSE wrapped

Advance(t, c) == Settled([set_cell(t, c) EXCEPT !.col = @ + 1])

vga_putchar(t, c) ==
    CASE c = "NL" -> Settled([t EXCEPT !.col = 0, !.row = @ + 1])
      [] c = "TAB" -> FoldLeft(Advance, t, <<" ", " ", " ", " ">>)
      [] c = "BS" -> IF t.col = 0 THEN t
                     ELSE LET back == [t EXCEPT !.col = @ - 1] IN set_cell(back, " ")
      [] OTHER -> Advance(t, c)

vga_write(t, s) == FoldLeft(vga_putchar, t, s)

vga_clear(t) == [t EXCEPT !.vbuf = ClearScreen, !.row = 0, !.col = 0]

-----------------------------------------------------------------------------
(***************************************************************************)
(* The shell.                                                              *)
(***************************************************************************)
Separators == {" ", "TAB"}

\* The words of the line, as many as argv takes.
parse_cmd(line) ==
    LET starts == {i \in 1 .. Len(line) :
                    line[i] \notin Separators /\ (i > 1 => line[i - 1] \in Separators)}
        stop(i) == CHOOSE j \in i .. Len(line) :
                    /\ \A k \in i .. j : line[k] \notin Separators
                    /\ j < Len(line) => line[j + 1] \in Separators
        words == [n \in 1 .. Cardinality(starts) |->
                    LET i == SetToSortSeq(starts, <)[n] IN SubSeq(line, i, stop(i))]
    IN  SubSeq(words, 1, IF Len(words) < ARGC_MAX THEN Len(words) ELSE ARGC_MAX)

cmd_echo(t, argv) ==
    LET shown == [i \in 1 .. Len(argv) - 1 |->
                    IF i + 1 < Len(argv) THEN Append(argv[i + 1], " ") ELSE argv[i + 1]]
    IN  vga_write(t, Append(FlattenSeq(shown), "NL"))

execute(t, line) ==
    LET argv == parse_cmd(line)
    IN  CASE argv = <<>> -> t
          [] argv # <<>> /\ argv[1] = <<"e">> -> cmd_echo(t, argv)
          [] argv # <<>> /\ argv[1] = <<"c">> -> vga_clear(t)
          [] OTHER -> vga_write(t, Append(argv[1], "NL"))

print_prompt(t) == [vga_write(t, Prompt) EXCEPT !.aligned = TRUE]

Enter ==
    LET run == execute(vga_putchar(st, "NL"), st.cmd)
    IN  st' = [print_prompt(run) EXCEPT !.cmd = <<>>, !.keys = @ + 1]

Back ==
    IF st.cmd = <<>> THEN st' = [st EXCEPT !.keys = @ + 1]
    ELSE st' = [vga_putchar(st, "BS") EXCEPT
                    !.cmd = Front(@), !.keys = @ + 1,
                    !.aligned = @ /\ st.col > 0]

Key(c) ==
    IF Len(st.cmd) >= CMDLINE_MAX - 1 THEN st' = [st EXCEPT !.keys = @ + 1]
    ELSE st' = [vga_putchar(st, c) EXCEPT
                    !.cmd = Append(@, c), !.keys = @ + 1,
                    !.aligned = @ /\ c # "TAB"]

shell_process_char(c) ==
    /\ st.keys < KEYS
    /\ CASE c = "NL" -> Enter
         [] c = "BS" -> Back
         [] OTHER -> Key(c)

\* The next boot, as often as the bound on the keys is reached.
Boot == st.keys = KEYS /\ \E r \in 0 .. VGA_HEIGHT - 1 : st' = Booted(r)

TermNext == Boot \/ \E c \in Typed : shell_process_char(c)

-----------------------------------------------------------------------------
\* The line that is executed is the line on the screen: behind a prompt at the start
\* of a row stands cmdline up to the cursor, through wrapping, scrolling and erasing,
\* until a tab (one character, four cells) or a backspace in column 0 (which erases
\* the character from the line only), as far as the screen has not scrolled it off.
LineOnScreen ==
    LET line == Prompt \o st.cmd
        end == st.row * VGA_WIDTH + st.col
        from == end - Len(line)
    IN  st.aligned =>
        /\ from % VGA_WIDTH = 0
        /\ \A i \in 1 .. Len(line) : from + i - 1 >= 0 => st.vbuf[from + i - 1] = line[i]

-----------------------------------------------------------------------------
(***************************************************************************)
(* The current directory.  A path is a sequence of characters in a buffer  *)
(* of FS_MAX_NAME; "/" and "." are themselves and the other characters     *)
(* stand for names.                                                        *)
(***************************************************************************)
CwdInit == st = [cwd |-> <<"/">>, old |-> <<"/">>, arg |-> <<"/">>]

Cut(s, n) == SubSeq(s, 1, IF Len(s) < n THEN Len(s) ELSE n)

\* The text between the slashes, empty pieces too.
Pieces(s) ==
    LET ends == {i \in 1 .. Len(s) : s[i] = "/"} \cup {Len(s) + 1}
        at == SetToSortSeq(ends, <)
    IN  [k \in 1 .. Len(at) |-> SubSeq(s, (IF k = 1 THEN 0 ELSE at[k - 1]) + 1, at[k] - 1)]

\* tmp: the argument, behind cwd when it is relative, cut to the buffer.
Whole(cwd, arg) ==
    IF Head(arg) = "/"
    THEN LET first == CHOOSE i \in 1 .. Len(arg) + 1 :
                        /\ \A j \in 1 .. i - 1 : arg[j] = "/"
                        /\ i <= Len(arg) => arg[i] # "/"
         IN  SubSeq(arg, first, Len(arg))
    ELSE (IF cwd = <<"/">> THEN <<>> ELSE Append(Tail(cwd), "/")) \o arg
Tmp(cwd, arg) == Cut(Whole(cwd, arg), FS_MAX_NAME - 1)

\* The stack of segments.
Follow_Bug(stack, seg) ==
    CASE seg \in {<<>>, <<".">>} -> stack
      [] seg = <<".", ".">> -> IF stack = <<>> THEN stack ELSE Tail(stack)
      [] OTHER -> Append(stack, seg)
Follow(stack, seg) ==
    CASE seg \in {<<>>, <<".">>} -> stack
      [] seg = <<".", ".">> -> IF stack = <<>> THEN stack ELSE Front(stack)
      [] OTHER -> Append(stack, seg)

\* Each segment behind a slash, cut to the buffer segment by segment: the slash of a
\* segment that does not fit is written all the same.
Put(out, seg) == LET slash == Append(out, "/")
                 IN  slash \o Cut(seg, IF Len(slash) < FS_MAX_NAME - 1
                                       THEN FS_MAX_NAME - 1 - Len(slash) ELSE 0)

join_path(cwd, arg) ==
    LET stack == FoldLeft(Follow, <<>>, Pieces(Tmp(cwd, arg)))
    IN  IF stack = <<>> THEN <<"/">> ELSE FoldLeft(Put, <<>>, stack)

\* fs_is_dir drops the slashes around a name; the root has no entry and is no
\* directory to it.  Any other name may be one.
fs_is_dir(path) == IF path = <<"/">> THEN {FALSE} ELSE BOOLEAN

\* cmd_cd: without an argument to the root.
Home == st' = [cwd |-> <<"/">>, old |-> <<"/">>, arg |-> <<"/">>]
cmd_cd(arg) ==
    LET full == join_path(st.cwd, arg)
    IN  /\ TRUE \in fs_is_dir(full)
        /\ st' = [cwd |-> Cut(full, FS_MAX_NAME - 1), old |-> st.cwd, arg |-> arg]

CdNext == Home \/ \E arg \in PathArgs : cmd_cd(arg)

-----------------------------------------------------------------------------
\* What a list of names comes to: a name stays unless some way on from it goes up
\* more often than down.
Resolved(names) ==
    LET list == SelectSeq(names, LAMBDA seg : seg \notin {<<>>, <<".">>})
        up(i, j) == {k \in i .. j : list[k] = <<".", ".">>}
        stays == {i \in 1 .. Len(list) :
                    /\ list[i] # <<".", ".">>
                    /\ \A j \in i + 1 .. Len(list) : 2 * Cardinality(up(i + 1, j)) <= j - i}
    IN  [n \in 1 .. Cardinality(stays) |-> list[SetToSortSeq(stays, <)[n]]]

\* cd goes where its argument says from where the shell was, written in the shortest
\* form, whenever the two fit together in a path.
CdResolves ==
    LET dirs == Resolved((IF Head(st.arg) = "/" THEN <<>> ELSE Pieces(st.old)) \o Pieces(st.arg))
    IN  Len(Whole(st.old, st.arg)) <= FS_MAX_NAME - 2 =>
            st.cwd = IF dirs = <<>> THEN <<"/">> ELSE FlattenSeq([i \in 1 .. Len(dirs) |-> <<"/">> \o dirs[i]])

\* What does not fit is cut: no path join_path makes is longer than its buffer.
InBuffer == Len(join_path(st.old, st.arg)) <= FS_MAX_NAME - 1
=============================================================================
