------------------------------- MODULE Stdio -------------------------------
(***************************************************************************)
(* Text output and number conversion: the stdio of user programs (epoch.c) *)
(* with its line buffer, and the kernel's itoa, atoi and printf (string.c, *)
(* vga.c, serial.c).  A text is a sequence of characters and a format the  *)
(* sequence of its pieces, [k |-> kind, n |-> number, s |-> text].  What   *)
(* the calls were asked to write is kept in want, which the code has not.  *)
(***************************************************************************)
EXTENDS Integers, Sequences, FiniteSets, SequencesExt

CONSTANTS
    BITS,       \* the width of an int
    BUF,        \* the size of outbuf
    CAPS,       \* the sizes of the buffers given to snprintf
    FILE_MAX,   \* the bytes of a file (FS_MAX_SIZE)
    Formats,    \* the formats that are printed
    Texts,      \* the texts of puts
    OUT_MAX     \* a bound of the model: calls are made while at most this many characters were asked for

VARIABLE st

NUL == "NUL"
JUNK == "junk"
Ints == -(2^(BITS - 1)) .. 2^(BITS - 1) - 1
Unsigned(v) == v % 2^BITS
Signed(v) == IF Unsigned(v) < 2^(BITS - 1) THEN Unsigned(v) ELSE Unsigned(v) - 2^BITS
Lower == <<"0", "1", "2", "3", "4", "5", "6", "7", "8", "9", "a", "b", "c", "d", "e", "f">>
Upper == SubSeq(Lower, 1, 10) \o <<"A", "B", "C", "D", "E", "F">>
IsDigit(c) == \E d \in 1 .. 10 : Lower[d] = c
ValueIn(digits, c) == CHOOSE d \in 0 .. 15 : digits[d + 1] = c

(***************************************************************************)
(* Conversions.  A negative int is negated in the width of an int, where   *)
(* the least one is its own negation, and printed as unsigned.             *)
(***************************************************************************)
fmt_unsigned(v, base, digits) ==
    LET text[n \in Nat] ==
            IF n < base THEN <<digits[n + 1]>>
            ELSE Append(text[n \div base], digits[(n % base) + 1])
    IN  text[v]

Negated(v) == Unsigned(Signed(-v))
itoa(v, base) ==
    IF v < 0 /\ base = 10 THEN <<"-">> \o fmt_unsigned(Negated(v), base, Upper)
    ELSE fmt_unsigned(Unsigned(v), base, Upper)

atoi(s) ==
    LET from == CHOOSE i \in 1 .. Len(s) + 1 :
                    /\ i <= Len(s) => s[i] # " "
                    /\ \A j \in 1 .. i - 1 : s[j] = " "
        sign == IF from <= Len(s) /\ s[from] \in {"-", "+"} THEN s[from] ELSE ""
        first == IF sign = "" THEN from ELSE from + 1
        sum[i \in first - 1 .. Len(s)] ==
            IF i < first THEN [v |-> 0, on |-> TRUE]
            ELSE IF sum[i - 1].on /\ IsDigit(s[i])
            THEN [v |-> Signed(sum[i - 1].v * 10 + ValueIn(Upper, s[i])), on |-> TRUE]
            ELSE [sum[i - 1] EXCEPT !.on = FALSE]
    IN  IF sign = "-" THEN Signed(-sum[Len(s)].v) ELSE sum[Len(s)].v

(***************************************************************************)
(* One piece of a format, as printf and vformat, vga_printf and            *)
(* serial_printf write it.  "wide" is a number with a width, as in %04x,   *)
(* which vga_printf takes and does not use; the other two know no widths.  *)
(***************************************************************************)
Piece(k, n, s) == [k |-> k, n |-> n, s |-> s]
Plain(p, hex, x) ==
    CASE p.k \in {"lit", "c", "s"} -> p.s
      [] p.k = "null" -> <<"(null)">>
      [] p.k = "%" -> <<"%">>
      [] p.k = "end" -> <<>>
      [] p.k = "d" -> itoa(p.n, 10)
      [] p.k = "u" -> fmt_unsigned(Unsigned(p.n), 10, hex)
      [] p.k = "x" -> fmt_unsigned(Unsigned(p.n), 16, x)
      [] p.k = "X" -> fmt_unsigned(Unsigned(p.n), 16, Upper)
      [] p.k = "wide" -> <<"%", "0", "4", "x">>
      [] OTHER -> <<"%">> \o p.s
User(p) == Plain(p, Lower, Lower)
Vga(p) ==
    IF p.k = "wide" THEN fmt_unsigned(Unsigned(p.n), 16, Upper) ELSE Plain(p, Upper, Upper)
Serial(p) == IF p.k = "X" THEN <<"%", "X">> ELSE Plain(p, Upper, Upper)
Text(ps, Of(_)) == FlattenSeq([i \in 1 .. Len(ps) |-> Of(ps[i])])

(***************************************************************************)
(* The state: the line buffer, what descriptor 1 got, what it was to get,  *)
(* the two consoles of the kernel, the last snprintf, the last int that    *)
(* was converted, and a file under fwrite and fread.  The functions of one *)
(* use share nothing with those of another: a behaviour is one of them.    *)
(***************************************************************************)
Start(use) ==
    [use |-> use, outbuf |-> <<>>, out |-> <<>>, want |-> <<>>, screen |-> <<>>, com1 |-> <<>>,
     dst |-> [i \in {} |-> JUNK], ret |-> 0, full |-> <<>>, num |-> 0,
     file |-> 0, wrote |-> 0, size |-> 1, pos |-> 0, got |-> 0]
Init == \E use \in {"user", "kernel", "buffer", "number", "file"} : st = Start(use)

\* do_write to a console stops at a NUL, and the caller does not write the rest.
Console(s) ==
    IF \E i \in 1 .. Len(s) : s[i] = NUL
    THEN SubSeq(s, 1, (CHOOSE i \in 1 .. Len(s) : s[i] = NUL /\ \A j \in 1 .. i - 1 : s[j] # NUL) - 1)
    ELSE s

out_flush(b) == [b EXCEPT !.out = @ \o Console(b.outbuf), !.outbuf = <<>>]
out_char_Bug(b, c) ==
    IF Len(b.outbuf) >= BUF THEN [out_flush(b) EXCEPT !.outbuf = <<>>]
    ELSE [b EXCEPT !.outbuf = Append(@, c)]
out_char(b, c) ==
    LET room == IF Len(b.outbuf) >= BUF THEN out_flush(b) ELSE b
    IN  [room EXCEPT !.outbuf = Append(@, c)]

CanWrite == Len(st.want) <= OUT_MAX
printf(ps) ==
    /\ CanWrite
    /\ st' = [out_flush(FoldLeft(out_char, st, Text(ps, User))) EXCEPT
                !.want = @ \o Text(ps, User)]

putchar(c) ==
    /\ CanWrite
    /\ st' = [st EXCEPT !.out = @ \o Console(<<c>>), !.want = Append(@, c)]

puts(s) ==
    /\ CanWrite
    /\ st' = [st EXCEPT !.out = @ \o Console(s) \o <<"\n">>, !.want = @ \o s \o <<"\n">>]

\* vformat: every character counts, and goes to dst while one byte is left for the NUL.
Kept(n, cap) == n + 1 < cap
snprintf(cap, ps) ==
    LET full == Text(ps, User)
        n == Len(full)
        last == IF n < cap THEN n ELSE cap - 1
        put == [i \in 0 .. cap - 1 |-> IF i < n /\ Kept(i, cap) THEN full[i + 1] ELSE JUNK]
    IN  st' = [st EXCEPT !.dst = [put EXCEPT ![last] = NUL], !.ret = n, !.full = full]

\* The messages of ps, elf and wait go to the screen and to the serial line.
Report(ps) ==
    /\ Len(st.screen) <= OUT_MAX
    /\ st' = [st EXCEPT !.screen = @ \o Text(ps, Vga), !.com1 = @ \o Text(ps, Serial)]

Convert(v) == st' = [st EXCEPT !.num = v]

(***************************************************************************)
(* fwrite and fread call write and read until everything is moved or the   *)
(* kernel moves nothing more: do_write cuts what does not fit in the file, *)
(* do_read what is behind its end.                                         *)
(***************************************************************************)
Moved(want, there) == IF want < there THEN want ELSE there
Elements(bytes, size) == bytes \div size

fwrite(nmemb) ==
    LET done == Moved(st.size * nmemb, FILE_MAX - st.file)
    IN  /\ st.file < FILE_MAX
        /\ st' = [st EXCEPT !.file = @ + done, !.wrote = @ + Elements(done, st.size)]

fread(nmemb) ==
    LET got == Moved(st.size * nmemb, st.file - st.pos)
    IN  /\ st.pos < st.file
        /\ st' = [st EXCEPT !.pos = @ + got, !.got = @ + Elements(got, st.size)]

\* Another program writes and reads elements of another size in a new file.
Truncate(size) ==
    st' = [st EXCEPT !.file = 0, !.wrote = 0, !.size = size, !.pos = 0, !.got = 0]

\* The next program, or the next boot.
Again ==
    /\ ~CanWrite \/ Len(st.screen) > OUT_MAX
    /\ st' = Start(st.use)

Next ==
    \/ Again
    \/ /\ st.use = "user"
       /\ \/ \E ps \in Formats : printf(ps)
          \/ \E s \in Texts : puts(s) \/ \E i \in 1 .. Len(s) : putchar(s[i])
    \/ st.use = "kernel" /\ \E ps \in Formats : Report(ps)
    \/ st.use = "buffer" /\ \E ps \in Formats, cap \in CAPS : snprintf(cap, ps)
    \/ st.use = "number" /\ \E v \in Ints : Convert(v)
    \/ /\ st.use = "file"
       /\ \/ \E n \in 1 .. 2 : fwrite(n) \/ fread(n)
          \/ \E size \in 1 .. 3 : Truncate(size)
-----------------------------------------------------------------------------
\* What the output calls were asked to write arrives whole and in the order of the
\* calls, whichever of them go through the line buffer, unless it holds a NUL.
InOrder == (\A i \in 1 .. Len(st.want) : st.want[i] # NUL) => st.out = st.want

\* snprintf returns the length of the whole text and leaves in the buffer as much
\* of it as fits before the NUL, and nothing behind it.
Truncated ==
    LET cap == Cardinality(DOMAIN st.dst)
        n == IF st.ret < cap THEN st.ret ELSE cap - 1
    IN  /\ st.ret = Len(st.full)
        /\ \A i \in DOMAIN st.dst :
               st.dst[i] = IF i < n THEN st.full[i + 1] ELSE IF i = n THEN NUL ELSE JUNK

\* Every int that is printed reads back as itself, the least one too, in user
\* programs as in the kernel, and its hexadecimal digits are its bits.
ReadsBack ==
    /\ atoi(itoa(st.num, 10)) = st.num
    /\ atoi(<<" ">> \o User(Piece("d", st.num, <<>>)) \o <<"a">>) = st.num
    /\ LET hex == itoa(st.num, 16)
           value[n \in 0 .. Len(hex)] ==
               IF n = 0 THEN 0 ELSE value[n - 1] * 16 + ValueIn(Upper, hex[n])
       IN  value[Len(hex)] = Unsigned(st.num) /\ (Len(hex) > 1 => hex[1] # "0")

\* The screen and the serial line report the same, in the formats both know.
SameOnBoth == st.screen = st.com1

\* fread counts the elements it delivered whole: to the end of the file they are as
\* many as fwrite said it wrote, also when the file was full within one.
ElementsWhole ==
    /\ st.got * st.size <= st.pos
    /\ st.pos = st.file => st.got = st.wrote
=============================================================================
