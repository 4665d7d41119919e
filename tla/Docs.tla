-------------------------------- MODULE Docs -------------------------------
(***************************************************************************)
(* The applications of gui.c that keep files in ramfs: Notes, the archive  *)
(* manager, the format converter, the screen capture with the photo        *)
(* viewer, and the store.  A behaviour uses one of them, while other       *)
(* programs fill the table and change its files.  fs maps the files there  *)
(* are to their contents, sequences of characters.                         *)
(***************************************************************************)
EXTENDS Integers, Sequences, FiniteSets, SequencesExt, Functions

CONSTANTS
    FS_MAX_FILES, FS_MAX_SIZE,
    NOTE_SIZE,      \* the size of app_buf
    RUN_MAX,        \* the longest run one pair of the archive holds (255)
    SHOT,           \* the size of a screen, in the unit of FS_MAX_SIZE
    DocApps,        \* the applications of this instance
    DocTexts        \* the texts other programs write

VARIABLE st

NUL == "NUL"
NL == "NL"

(***************************************************************************)
(* use is the application; buf its app_buf; said what it shows: a save was *)
(* done, a snapshot could not be opened.  The rest is history, kept for    *)
(* the properties: refused, the last save was; same, nobody has changed    *)
(* the files since; from, the text the last file was made of, and whole,   *)
(* nothing of it was cut.                                                  *)
(***************************************************************************)
Init ==
    \E use \in DocApps :
        st = [use |-> use, fs |-> [f \in {} |-> <<>>], more |-> 0,
              buf |-> [i \in 0 .. NOTE_SIZE - 1 |-> NUL], said |-> FALSE, err |-> FALSE,
              refused |-> FALSE, same |-> FALSE, from |-> <<>>, whole |-> FALSE]

Cut(s, n) == SubSeq(s, 1, IF Len(s) < n THEN Len(s) ELSE n)
Exists(f) == f \in DOMAIN st.fs
Full(s) == Cardinality(DOMAIN s.fs) + s.more >= FS_MAX_FILES

\* fs_create: no parent, no file.
Parent(f) == CASE f = "shot" -> {"tmp"} [] f = "marker" -> {"apps"} [] OTHER -> {}
Creates(s, f) == f \in DOMAIN s.fs \/ (Parent(f) \subseteq DOMAIN s.fs /\ ~Full(s))

\* fs_create and fs_write, one after the other, as every application does it: none
\* looks at what they return.  fs_write cuts what is too long and returns success.
Stored(s, f, data) ==
    IF Creates(s, f)
    THEN [s EXCEPT !.fs = (f :> Cut(data, FS_MAX_SIZE)) @@ @, !.refused = FALSE]
    ELSE [s EXCEPT !.refused = TRUE]

-----------------------------------------------------------------------------
(***************************************************************************)
(* Notes.                                                                  *)
(***************************************************************************)
Text(buf) ==
    LET end == CHOOSE n \in 0 .. NOTE_SIZE - 1 : buf[n] = NUL /\ \A i \in 0 .. n - 1 : buf[i] # NUL
    IN  [i \in 1 .. end |-> buf[i - 1]]

NoteType(c) ==
    LET len == Len(Text(st.buf))
    IN  /\ len < NOTE_SIZE - 2
        /\ st' = [st EXCEPT !.buf[len] = c, !.buf[len + 1] = NUL, !.said = FALSE, !.whole = FALSE]

NoteBack_Bug ==
    LET len == Len(Text(st.buf))
    IN  len > 0 /\ st' = [st EXCEPT !.buf[len - 1] = NUL]
NoteBack ==
    LET len == Len(Text(st.buf))
    IN  len > 0 /\ st' = [st EXCEPT !.buf[len - 1] = NUL, !.said = FALSE, !.whole = FALSE]

NoteSave ==
    st' = [Stored(st, "notes", Text(st.buf)) EXCEPT !.said = TRUE, !.same = TRUE]

\* What is read is not followed by a NUL of its own: longer text that was there
\* before goes on behind it.
NoteLoad ==
    LET data == Cut(st.fs["notes"], NOTE_SIZE - 1)
    IN  /\ Exists("notes")
        /\ st' = [st EXCEPT
                    !.buf = [i \in DOMAIN @ |->
                                IF i < Len(data) THEN data[i + 1]
                                ELSE IF i = NOTE_SIZE - 1 THEN NUL ELSE @[i]],
                    !.said = FALSE, !.same = TRUE, !.from = data, !.whole = TRUE]

NoteClear == st' = [st EXCEPT !.buf[0] = NUL, !.said = FALSE, !.whole = FALSE]

-----------------------------------------------------------------------------
(***************************************************************************)
(* The archive: pairs of a character and how often it comes.               *)
(***************************************************************************)
Run(s, i) ==
    CHOOSE n \in 1 .. Len(s) - i + 1 :
        /\ \A k \in i .. i + n - 1 : s[k] = s[i]
        /\ n <= RUN_MAX
        /\ n = RUN_MAX \/ i + n > Len(s) \/ s[i + n] # s[i]

Packed(s) ==
    LET pack[i \in 1 .. Len(s) + 1, out \in 0 .. FS_MAX_SIZE] ==
            IF i > Len(s) \/ out >= FS_MAX_SIZE - 2 THEN [data |-> <<>>, end |-> i]
            ELSE LET rest == pack[i + Run(s, i), out + 2]
                 IN  [rest EXCEPT !.data = <<[c |-> s[i], n |-> Run(s, i)]>> \o @]
    IN  pack[1, 0]

Unpacked(pairs) ==
    Cut(FlattenSeq([i \in 1 .. Len(pairs) |-> [k \in 1 .. pairs[i].n |-> pairs[i].c]]), FS_MAX_SIZE)

Compress ==
    LET packed == Packed(st.fs["doc"])
    IN  /\ Exists("doc")
        /\ st' = [Stored(st, "epz", packed.data) EXCEPT
                    !.from = st.fs["doc"], !.same = TRUE, !.said = FALSE,
                    !.whole = packed.end = Len(st.fs["doc"]) + 1 /\ Creates(st, "epz")]

Extract ==
    /\ Exists("epz")
    /\ st' = [Stored(st, "doc2", Unpacked(st.fs["epz"])) EXCEPT !.said = TRUE]

-----------------------------------------------------------------------------
(***************************************************************************)
(* The converter, line by line; a tag is one character.                    *)
(***************************************************************************)
Lines(s) ==
    LET ends == {i \in 1 .. Len(s) : s[i] = NL} \cup (IF s = <<>> \/ Last(s) = NL THEN {} ELSE {Len(s) + 1})
        at == SetToSortSeq(ends, <)
    IN  [k \in 1 .. Len(at) |-> SubSeq(s, (IF k = 1 THEN 0 ELSE at[k - 1]) + 1, at[k] - 1)]

\* A line keeps its newline, which the last one may lack.
Rewritten(s, Line(_)) ==
    LET lines == Lines(s)
    IN  FlattenSeq([k \in 1 .. Len(lines) |->
            IF k = Len(lines) /\ Last(s) # NL THEN Line(lines[k]) ELSE Append(Line(lines[k]), NL)])

Quoted(line) == IF line = <<>> THEN <<>> ELSE <<">", " ">> \o line
conv_txt2md(s) == Rewritten(s, Quoted)

Begins(line, mark) == Len(line) >= Len(mark) /\ SubSeq(line, 1, Len(mark)) = mark
Tagged(line) ==
    LET Put(tag, skip) == <<tag>> \o SubSeq(line, skip + 1, Len(line)) \o <<"/" \o tag>>
    IN  CASE line = <<>> -> <<"br">>
          [] Begins(line, <<"#", "#", " ">>) -> Put("h2", 3)
          [] Begins(line, <<"#", " ">>) -> Put("h1", 2)
          [] Begins(line, <<"-", " ">>) -> Put("li", 2)
          [] Begins(line, <<">", " ">>) -> Put("quote", 2)
          [] OTHER -> Put("p", 0)
conv_md2html(s) == Rewritten(s, Tagged)

conv_upper(s) == [i \in 1 .. Len(s) |-> IF s[i] = "a" THEN "A" ELSE s[i]]

\* The last byte of a file of the full size finds no room in conv_out.
conv_hex(s) ==
    FlattenSeq([i \in 1 .. (IF Len(s) = FS_MAX_SIZE THEN Len(s) - 1 ELSE Len(s)) |-> <<"hi", "lo", " ">>])

Convert(source, target, data) ==
    /\ Exists(source)
    /\ st' = [Stored(st, target, Cut(data, 3 * FS_MAX_SIZE)) EXCEPT
                !.said = target = "html",
                !.same = target = "md" \/ @,
                !.from = IF target = "md" THEN st.fs[source] ELSE @,
                !.whole = /\ target = "md" \/ @
                          /\ Creates(st, target) /\ Len(data) <= FS_MAX_SIZE]
ConvertAny ==
    \/ Exists("doc") /\ Convert("doc", "md", conv_txt2md(st.fs["doc"]))
    \/ Exists("md") /\ Convert("md", "html", conv_md2html(st.fs["md"]))
    \/ Exists("doc") /\ Convert("doc", "upper", conv_upper(st.fs["doc"]))
    \/ Exists("doc") /\ Convert("doc", "hex", conv_hex(st.fs["doc"]))

-----------------------------------------------------------------------------
(***************************************************************************)
(* Screen capture and photo viewer; install and uninstall.                 *)
(***************************************************************************)
Capture ==
    st' = [Stored(st, "shot", [i \in 1 .. SHOT |-> "a"]) EXCEPT !.said = TRUE, !.err = FALSE]
OpenSnapshot ==
    st' = [st EXCEPT !.err = ~Exists("shot") \/ Len(st.fs["shot"]) < SHOT]
ClearPhoto == st' = [st EXCEPT !.err = FALSE]

Dir(s, d) == IF Full(s) \/ d \in DOMAIN s.fs THEN s ELSE [s EXCEPT !.fs = (d :> <<>>) @@ @]
Install ==
    LET made == Dir(st, "apps")
    IN  /\ ~Exists("marker")
        /\ st' = [Stored(made, "marker", <<"1">>) EXCEPT !.said = Creates(made, "marker")]
Uninstall ==
    /\ Exists("marker")
    /\ st' = [st EXCEPT !.fs = [f \in DOMAIN @ \ {"marker"} |-> @[f]], !.said = FALSE]

\* Other programs: a file of theirs more or less, a text written, a file deleted.
Others ==
    \/ ~Full(st) /\ st' = [st EXCEPT !.more = @ + 1]
    \/ st.more > 0 /\ st' = [st EXCEPT !.more = @ - 1]
    \/ \E f \in {IF st.use = "note" THEN "notes" ELSE "doc"}, t \in DocTexts :
           /\ Creates(st, f)
           /\ st' = [Stored(st, f, t) EXCEPT !.same = @ /\ f # "notes", !.refused = st.refused]
    \/ \E f \in DOMAIN st.fs :
           st' = [st EXCEPT !.fs = [g \in DOMAIN @ \ {f} |-> @[g]], !.same = FALSE, !.said = FALSE]
    \/ st' = Dir(st, "tmp")

Next ==
    \/ Others
    \/ /\ st.use = "note"
       /\ \/ \E c \in {"a", "b"} : NoteType(c)
          \/ NoteBack \/ NoteSave \/ NoteLoad \/ NoteClear
    \/ st.use = "zip" /\ (Compress \/ Extract)
    \/ st.use = "convert" /\ ConvertAny
    \/ st.use = "shot" /\ (Capture \/ OpenSnapshot \/ ClearPhoto)
    \/ st.use = "store" /\ (Install \/ Uninstall)

-----------------------------------------------------------------------------
\* While Notes shows "Saved", the file holds the text of the window, and what Load
\* read is what the window begins with, as long as nobody else writes the file and the
\* table had room for it.
NoteIsSaved ==
    st.use = "note" =>
        /\ st.said /\ st.same /\ ~st.refused => st.fs["notes"] = Text(st.buf)
        /\ st.whole => IsPrefix(st.from, Text(st.buf))

\* Extract gives back the text that was compressed, if all of it was.
ZipRestores ==
    st.use = "zip" /\ st.said /\ st.whole /\ st.same /\ ~st.refused => st.fs["doc2"] = st.from

\* Through TXT -> MD -> HTML every line with something in it becomes one quotation
\* and every empty one a break.
LinesConverted ==
    st.use = "convert" /\ st.said /\ st.whole /\ st.same =>
        LET count(tag) == Len(SelectSeq(st.fs["html"], LAMBDA c : c = tag))
            empty == Len(SelectSeq(Lines(st.from), LAMBDA line : line = <<>>))
        IN  count("br") = empty /\ count("quote") = Len(Lines(st.from)) - empty

\* "Installed" means that the marker is there.
InstalledIsThere == st.use = "store" /\ st.said => Exists("marker")
=============================================================================
