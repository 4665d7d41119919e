------------------------------- MODULE ElfLoad -----------------------------
(***************************************************************************)
(* What a user program finds in its memory: elf_load_from_fs or do_execve, *)
(* elf_parse, the segment loop of process_create_elf (process_exec_reload  *)
(* repeats it) and build_user_stack.  A byte of memory is the offset of    *)
(* the byte of the file it was copied from, or ZERO, or JUNK, what the     *)
(* frame held before, or FOREIGN.  Sums of the header's fields are of 32   *)
(* bits and wrap: a header or a segment may pass the tests of elf_parse    *)
(* and lie around the buffer of the file, and FOREIGN is what is read      *)
(* there.  (A read that faults stops the kernel and is left out.)  Frames  *)
(* and failures to allocate them are in ProcMem; here one may fail.        *)
(***************************************************************************)
EXTENDS Integers, Sequences, SequencesExt, FiniteSets, FiniteSetsExt, Functions

CONSTANTS
    WORD,           \* 2^32
    PAGE_SIZE,
    MIN, STACK,     \* USER_MIN_VADDR, ELF_USER_STACK_ADDR
    EHDR, PHDR,     \* sizes of the ELF header and of a program header
    MAX_PHDR,       \* ELF_MAX_PHDR
    Images,         \* the files: good (magic, class, type, machine), len, phoff,
                    \* and ph, what is read as the program headers: load, off, vaddr,
                    \* filesz, memsz
    STACK_SIZE,     \* bytes of the user stack, the 4096 of its page
    RESERVED,       \* 0x80
    MAX_ARGS,       \* 16
    ARG_MAX,        \* 63, the longest string execve takes
    NAME,           \* the length of the name a program has without arguments
    Args            \* argument vectors, as the lengths of their strings

Words == 0..WORD - 1
Header == [load: BOOLEAN, off: Words, vaddr: Words, filesz: Words, memsz: Words]

\* A header may hold any words.  The stack is in the address space; the tables of
\* build_user_stack fit below its strings in what is reserved, and the strings of execve
\* in the rest of the page.
ElfAssumption ==
    /\ PAGE_SIZE \in Nat \ {0} /\ {MIN, STACK, EHDR, PHDR, MAX_PHDR, STACK_SIZE, RESERVED} \subseteq Nat
    /\ MIN % PAGE_SIZE = 0 /\ STACK % PAGE_SIZE = 0
    /\ WORD \in Nat /\ STACK + STACK_SIZE <= WORD
    /\ Images \subseteq [good: BOOLEAN, len: Words, phoff: Words, ph: Seq(Header)]
    /\ Args \subseteq Seq(Nat)
    /\ MAX_ARGS \in Nat \ {0, 1} /\ ARG_MAX \in Nat /\ NAME \in 0..ARG_MAX
    /\ RESERVED >= 4 * (MAX_ARGS + 1) + 19
    /\ (MAX_ARGS - 1) * (ARG_MAX + 1) + RESERVED <= STACK_SIZE

VARIABLE st     \* phase; exec (or spawned by elf_load_from_fs); image; seg (i), va, end
                \* (seg_end), remain and brk (max_brk_vaddr) of the loop; mem; argv; esp
                \* and astr of build_user_stack

ZERO == -1
JUNK == -2
FOREIGN == -3

Down(v) == (v \div PAGE_SIZE) * PAGE_SIZE
Up(v) == Down((v + PAGE_SIZE - 1) % WORD)

\* do_execve copies arguments up to the first that is no address of the program's,
\* each cut to its buffer; without any, the name of the file is argv[0].
ExecArgs_Bug(args) == {args}
ExecArgs(args) ==
    {IF n = 0 THEN <<NAME>> ELSE [i \in 1..n |-> Min({args[i], ARG_MAX})] :
        n \in 0..Min({Len(args), MAX_ARGS - 1})}

Init ==
    \E image \in Images, args \in Args, exec \in BOOLEAN :
      \E argv \in IF exec THEN ExecArgs(args) ELSE {args} :
        st = [phase |-> "parse", exec |-> exec, image |-> image, seg |-> 0, va |-> 0, end |-> 0, remain |-> 0,
              brk |-> 0, mem |-> <<>>, argv |-> argv, esp |-> 0, astr |-> <<>>]

Fail == st' = [st EXCEPT !.phase = "failed", !.mem = <<>>]

\* elf_parse.
SegmentOk(f, p) == p.load => (p.off + p.filesz) % WORD <= f.len /\ p.memsz >= p.filesz
Accepted(f) ==
    /\ f.len >= EHDR /\ f.good
    /\ f.phoff # 0 /\ Len(f.ph) \in 1..MAX_PHDR
    /\ (f.phoff + Len(f.ph) * PHDR) % WORD <= f.len
    /\ \A i \in DOMAIN f.ph : SegmentOk(f, f.ph[i])

Parse ==
    /\ st.phase = "parse"
    /\ IF Accepted(st.image) THEN st' = [st EXCEPT !.phase = "segment"] ELSE Fail

\* The next program header; one that is not PT_LOAD is passed over.  A segment whose end
\* wraps may pass with no page, or one, to map.
Segment ==
    LET p == st.image.ph[st.seg + 1]
        start == Down(p.vaddr)
        end == Up(p.vaddr + p.memsz)
    IN  /\ st.phase = "segment" /\ st.seg < Len(st.image.ph)
        /\ IF ~p.load THEN st' = [st EXCEPT !.seg = @ + 1]
           ELSE IF start < MIN \/ end > STACK THEN Fail
           ELSE st' = [st EXCEPT !.phase = "page", !.va = start, !.end = end,
                                 !.remain = p.filesz]

\* The byte at an offset from the start of the file's buffer.
Source(f, offset) == IF offset % WORD < f.len THEN offset % WORD ELSE FOREIGN

\* What a page of the segment holds: file bytes from page_off on, then zeros; what
\* lies before page_off is not written.
Filled(f, p, va, remain) ==
    LET off == IF va = Down(p.vaddr) THEN p.vaddr % PAGE_SIZE ELSE 0
        copied == Min({PAGE_SIZE - off, remain})
    IN  [a \in va..va + PAGE_SIZE - 1 |->
            IF a < va + off THEN JUNK
            ELSE IF a < va + off + copied THEN Source(f, p.off + (p.filesz - remain) + (a - va - off))
            ELSE ZERO]

Copied_Bug(p, va, remain) == Min({remain, PAGE_SIZE})
Copied(p, va, remain) ==
    Min({remain, PAGE_SIZE - IF va = Down(p.vaddr) THEN p.vaddr % PAGE_SIZE ELSE 0})

\* A new page replaces one that another segment mapped at the same address.
Page ==
    LET p == st.image.ph[st.seg + 1]
        new == Filled(st.image, p, st.va, st.remain)
    IN  /\ st.phase = "page" /\ st.va < st.end
        /\ st' = [st EXCEPT !.va = @ + PAGE_SIZE,
                            !.remain = @ - Copied(p, st.va, st.remain),
                            !.mem = [a \in DOMAIN st.mem \cup DOMAIN new |->
                                        IF a \in DOMAIN new THEN new[a] ELSE st.mem[a]]]

NoPage == st.phase = "page" /\ st.va < st.end /\ Fail

SegmentEnd ==
    /\ st.phase = "page" /\ st.va >= st.end
    /\ st' = [st EXCEPT !.phase = "segment", !.seg = @ + 1, !.brk = Max({@, st.end})]

\* build_user_stack: the strings from the last to the first, then a pair of auxv, the
\* end of envp, argv with its end, and argc.
Counted(argv) == Min({MAX_ARGS, Max({1, Len(argv)})})
Length(argv, i) == IF i <= Len(argv) THEN argv[i] + 1 ELSE 1

Strings(argv) ==
    LET n == Counted(argv)
        at[k \in 0..n] == IF k = 0 THEN STACK + STACK_SIZE ELSE at[k - 1] - Length(argv, n + 1 - k)
    IN  [i \in 1..n |-> at[n + 1 - i]]

Aligned(v) == v - (v % 4)

BuildStack ==
    /\ st.phase = "segment" /\ st.seg = Len(st.image.ph)
    /\ LET n == Counted(st.argv)
           at == Strings(st.argv)
       IN  IF \E i \in 1..n : at[i] < STACK + RESERVED THEN Fail
           ELSE st' = [st EXCEPT !.phase = "ready", !.astr = at,
                                 !.esp = Aligned(at[1]) - 8 - 4 - 4 * (n + 1) - 4]

\* The program is gone; another is loaded.
Next == Parse \/ Segment \/ Page \/ NoPage \/ SegmentEnd \/ BuildStack
        \/ (st.phase \in {"ready", "failed"} /\ UNCHANGED st)

Loads(f) == {i \in DOMAIN f.ph : f.ph[i].load}
Pages(p) == Down(p.vaddr)..Up(p.vaddr + p.memsz) - 1

\* The linker script of the user programs never puts two segments on one page.
PagesApart(f) ==
    \A i, j \in Loads(f) : i # j => Pages(f.ph[i]) \cap Pages(f.ph[j]) = {}

\* Its end is computed without a wrap; its bytes are all of the file.
Spans(p) == p.vaddr + p.memsz + PAGE_SIZE - 1 < WORD
OfFile(p) == p.off + p.filesz < WORD

\* A program that is ready to run finds in its memory what its header says: each byte
\* of a segment is the one at its offset or, beyond filesz, zero, and if the offset and
\* the size do not wrap, that is the file's own; nothing is mapped below MIN, and the heap
\* starts on the page after the last segment.  Of a segment whose end wraps nothing is
\* said: the code starts the program without it.
Faithful ==
    st.phase = "ready" /\ PagesApart(st.image) =>
        /\ \A i \in Loads(st.image) :
             LET p == st.image.ph[i]
             IN  Spans(p) => \A k \in 0..p.memsz - 1 :
                   st.mem[p.vaddr + k] = IF k >= p.filesz THEN ZERO
                                         ELSE IF OfFile(p) THEN p.off + k
                                         ELSE Source(st.image, p.off + k)
        /\ \A a \in DOMAIN st.mem : a \in MIN..st.brk - 1 /\ st.mem[a] < st.image.len
        /\ st.brk % PAGE_SIZE = 0

\* The strings of argv, the tables below them and argc lie in the stack page one
\* below the other, whatever the arguments; and what execve lets through always fits.
StackInPage ==
    LET n == Counted(st.argv)
    IN  /\ st.exec /\ st.phase = "segment" /\ st.seg = Len(st.image.ph) =>
             \A i \in 1..n : Strings(st.argv)[i] >= STACK + RESERVED
        /\ st.phase = "ready" =>
            /\ \A i \in DOMAIN st.astr :
                 st.astr[i] + Length(st.argv, i) <=
                     IF i = n THEN STACK + STACK_SIZE ELSE st.astr[i + 1]
            /\ st.esp >= STACK /\ st.esp % 4 = 0
            /\ st.esp + 4 + 4 * (n + 1) + 4 + 8 <= st.astr[1]
=============================================================================
