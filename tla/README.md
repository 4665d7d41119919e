# A TLA+ model of EpochOS

EpochOS (`src/EpochOS`) is a 32-bit x86 hobby operating system in C: a
preemptive kernel, ring-3 ELF processes, a file system in memory that a save
copies to an ATA disk, and a windowed GUI that runs inside the kernel. This
directory holds TLA+ modules of its core, the TLC configurations that check
them on small instances, and proofs that TLAPS checks.

Paths below are relative to `src/EpochOS/kernel/` unless they say otherwise.

## 1. The system

| Component | State | Operations | Talks to |
|---|---|---|---|
| Scheduler and process table (`task.c`, `interrupts.S`) | `tasks[TASK_MAX]`, `current_task`, CR3, `g_tss.esp0` | `scheduler_switch` after every IRQ, `process_create_user`, `process_create_elf`, `process_exec_reload`, `task_kill`, `reap_exited_processes` | allocator, paging, shell, GUI, system calls |
| Page allocator (`mm.c`) | the bitmap, `used_pages` | `alloc_pages`, `kmalloc`, `kfree`, `free_page` | everything that owns memory |
| Address spaces (`paging.c`, `task.c`, `syscall.c`) | page directory, page tables, `elf_pages`, `user_brk`, `mmap_base` | image loading, `brk`, `mmap`, `munmap` | allocator, process table |
| ramfs (`fs.c`) | `files[FS_MAX_FILES]` | create, mkdir, write, append, delete, rmdir, rename, format | shell, GUI, system calls |
| File descriptors (`syscall.c`) | `g_fds[FD_TABLE_MAX]`, one table for all processes | open, read, write, lseek, close | ramfs |
| Disk image (`fs.c`, `ata.c`) | super block, one header and one data area per slot, `fs_dirty` | `fs_disk_save`, `fs_disk_mount` | ramfs, the disk |
| Keyboard, mouse, timer (`keyboard.c`, `mouse.c`, `timer.c`) | key ring, packet being assembled, ticks | IRQ 0, 1, 12; polling by the main loop | GUI, shell, `nanosleep` |
| ELF loader (`elf.c`) | none | `elf_parse`, `elf_load_from_fs` | ramfs, process creation |
| GUI (`gui.c`) | window table, focus, the state of about forty applications | clicks, keys, rendering | everything above |
| Shell (`shell.c`) | current directory | commands | ramfs, processes |
| Double buffer and text screen (`gfx.c`, `vga.c`) | back buffer, dirty rectangles; the 80 by 25 text | primitives, `gfx_swap`; `vga_putchar` and the cursor | GUI, shell |
| Clock (`cmos.c`) | the chip's registers | `rtc_read` | GUI, shell |
| User library (`../user/epoch.c`) | heap, stdio | libc subset | system calls |

How they interact. There is one CPU and no lock. The main thread (task 0: boot,
then the GUI loop or the shell) runs in ring 0 with interrupts enabled. Every
IRQ ends in `scheduler_switch`, so the main thread can lose the CPU between any
two instructions. System calls enter through an interrupt gate and run with
interrupts off, all but `nanosleep`, which turns them on while it spins. So the
races of this kernel are between the main thread and whole system calls, and
between the main thread and interrupt handlers.

What is hard. A process is published field by field while a tick can run it. A
reap frees the stack and directory of a slot while `esp0` and CR3 are global
registers. Exit only marks a process, which runs on to the next tick. Each
creation, exec, brk and mmap can fail after any page. The allocator is entered
by a system call while the main thread is inside it. The disk image is written
sector by sector, without a journal. The drive and the mouse may fail, or lose what
they sent. `kb_count` and the mouse's sums are updated by a handler and by the main
loop. One descriptor table of whole-file copies
serves everybody. PROJECT.json lists each of these under `hazards` with its line.

What correct means, component by component:

* scheduler: the CPU always runs a task on its own directory and trap stack;
  nothing that is in use is freed; nobody starves;
* memory: every frame has one owner; what is mapped is owned; a failed call gives
  back exactly what it took; nothing that is tracked is lost;
* ramfs and descriptors: one entry per name; an operation changes what it was asked
  to change; positions inside the copy;
* input: a key is delivered once, in order; the packets come back in step after a
  loss; no motion disappears but where the code drops it; a press is seen;
* windows: one window per type, on the screen, and the keys go to one that is seen;
* loader, heap, stdio: a program finds its bytes and arguments, its blocks tile the
  heap, its output arrives in order;
* applications: what is kept stays kept, boards agree with the play, results are
  right within their words;
* disk: a save that ends leaves the table in every slot whose writes arrived; a mount makes up nothing; what a save put
  in parent-first order comes back whatever else is on the disk.

## 2. The modules

| Module | Models | Uses |
|---|---|---|
| `Scheduler` | process table, context switch, creation and reap store by store | |
| `PhysMem` | the allocator as functions of its bitmap | |
| `AllocRace` | the allocator cut at each load and store | `PhysMem` |
| `FrameOwners` | abstract: frames and who owns them | |
| `ProcMem` | process memory, page by page | `PhysMem`, `FrameOwners` |
| `RamFs` | the file table as functions | |
| `NameStore` | abstract: a map from paths to directories and files | |
| `FileSystem` | ramfs under the shell, the GUI and the descriptors | `RamFs`, `NameStore` |
| `FsDisk` | save, mount, power loss | `FileSystem` |
| `Windows` | the window table of the GUI | |
| `Input` | key ring and mouse packets, load by load and store by store | |
| `UserHeap` | `malloc`, `free`, `sbrk`, `fopen`, `fclose` of a user program | |
| `ElfLoad` | `elf_parse`, the segment loop, `execve`'s arguments, the initial stack | |
| `AtaPio` | the PIO driver against a drive with a write cache | |
| `Rtc` | the clock chip and the time zone | |
| `Screen` | the double buffer and its dirty rectangles | |
| `Platform` | the heap and the loading of a program, the disk driver, the clock and the double buffer, each alone | `UserHeap`, `ElfLoad`, `AtaPio`, `Rtc`, `Screen` |
| `Services` | the platform and the parts below, each alone | all of them |
| `Stdio` | `printf`, `snprintf`, `FILE`, the kernel's `printf`, `itoa`, `atoi` | |
| `Repaint` | what a frame paints again, layer by layer | |
| `Shell` | the text screen with the command line on it; `cd` and `join_path` | |
| `FilesApp` | the file window, Clean, `fs_list_dir` | |
| `Viewers` | task manager, File Search, hex viewer | |
| `Docs` | Notes, archive, converter, screen capture, store | |
| `ArcadeGames` | Snake, Tetris, Brick | |
| `TableGames` | Tic Tac Toe, Memory, Minesweeper, 2048 | |
| `Gadgets` | Paint, the Todo list, the clocks and stopwatches, the tools that compute | |
| `Apps` | composes the applications: `ArcadeGames`, `TableGames`, `Gadgets`, `Fields`, `Quiz`, `Ide`, `Calc` | those |
| `SchedulerProofs`, `ProcMemProofs`, `FileSystemProofs`, `FsDiskProofs`, `WindowsProofs`, `InputProofs`, `ProgramsProofs`, `DevicesProofs` | the theorems | their module, `TLAPS` |
| `MC...` | values of the constants for TLC | |

### Scheduler

The fields of `struct task` are one function per field. The kernel stack a task
executes on is `kstk` (NULL in ring 3); a saved frame is named by the stack it is
on. `Irq` is `irq_common_stub` with `scheduler_switch`: it pushes the frame on
the stack in use, picks the next runnable slot, loads CR3 and `esp0`. Task 0 is a
program counter `pc` with the locals of the code it executes; each store of a
creation (`SetState` ... `SetTss`) and each object a reap frees is one action.
Both creation functions are one sequence, `elf` telling them apart where they
differ (what they do when there is no directory). A switch to a slot with no
saved frame or no directory is one after which nothing can be said: `halted`
stands for that and for `panic_screen`. The allocator is atomic here.

### ProcMem and PhysMem

Addresses are page numbers from `MEMORY_END`. A `Space` is the tracked list
(`elf_pages`) with the directory, its page tables and the map. Two threads:
`"kernel"` creates processes with interrupts on, `"syscall"` runs the call of
a process with interrupts off; each step allocates, maps and tracks one page, so
a creation interleaves with whole system calls, and every failure happens at
every page. Allocations are first fit, as in `alloc_pages`: which frame is reused
by whom is the code's. `kfree` frees one frame, as the code does.

`FrameOwners` is what this promises about frames, whatever the calls do inside: an owner (a
process, or a call that builds one) takes free frames or gives back its own (`Work`),
goes and frees all it tracks (`Drop`), or hands all it has built to one process in the place
of what that had (`HandOver`); nobody else's frame changes hands. `ProcMem` implements it
with `pages <- Tracks(o)`, the tracked list, and `rest <- HeldElse(o)`, the page tables
and the kernel stack, which the code may lose when their owner goes.

### AllocRace

The main thread's `alloc_pages` and `free_page`, one step per bit test, load and
store (the build passes no `-O` flag, so `|=` is a load and a store), against
atomic allocations by a system call. `Scheduler` and `ProcMem` assume atomic
allocation; this module is what they leave out.

### RamFs, FileSystem, FsDisk

A path is a sequence of components, with a leading `"/"` when the caller wrote
one: that is what separates `fs_normalize`, which drops it, from `fs_rmdir` and
`fs_rename`, which compare without dropping it. Shell and GUI operations are
actions of `FileSystem` with the path form their callers pass (`join_path` makes
mkdir, rmdir and mv absolute). A descriptor holds the copy taken at open. `FsDisk`
adds the disk, the save as one step per sector group with a failure branch each,
file operations of processes between those steps, and `Restart`, at any time and
with any set of unreadable slots. The driver does not look at the status after the last
sector of a write, nor after the flush (`ata.c:189-195`; `AtaPio` has this as `late`), so a
header or the last sector of a data area may be lost although the write returned 0 and the
save goes on: `Passed` adds the slot to the history `lost`, at most `MAX_LOST` of them in a
run and any number in the proofs. The header of a slot is copied before it is written and
the kind and the data are read again after it, with processes in between: `changed` is the
history of what they did since the save began.

`NameStore` is what the file system promises: a map from paths to directories and
files, with `Make`, `Put`, `Remove`, `Move` and `Clear`. A directory is removed only when it
is empty (`fs.h:31`), and what is below it moves with it (`fs.c:237`). The code does neither:
`fs_under_dir` finds nothing below a path with a leading `/`. `IsNameStore` therefore allows
one more step, `Strands`, an rmdir or mv of a directory with entries below that takes the entry
alone; the run `FsRename` shows mv do so against the comment. `FileSystem` implements it
under the mapping `store <- Content(files)`: the slots in use, by name. Which slot
holds what, the dirty flag and the descriptors are invisible there; a read, a seek or
a refused operation is a stutter. A descriptor's write is a `Put` of the whole file,
and so is the creation inside `open`.

### Windows

`wins[]`, `active_win`, the drag and the desktop menu of `gui.c`. One thread runs the
GUI, so the unit is a handler: `Escape` is the key part of a frame, `Mouse` the mouse
part. The code calls one function after another on the same globals; the model
writes each as an operator from a desktop record to the next (`OpenWindow`,
`DesktopClick`, `WindowClick`, `RightPress`, `Drag`), and `Mouse` composes them in the
code's order. The screen is a grid: a bar or a title is one cell high and a title
button one cell wide, so the proportions that decide who gets a click (a window
dragged to the top has its title under the status bar, the title offset of
`drag_oy`) are those of the code. Which taskbar icon or menu entry is under the
pointer, and whether a second click came within 30 ticks, are choices.

### Input

IRQ 1 (`kb_handle_scancode` with `kb_push`) and IRQ 12 (`mouse_irq_handler`) are
atomic, for they run with interrupts off. A frame of the main loop is cut at every
load and store of `keyboard_getchar` (`pc`: head, load, store) and of the lines of
`gui_handle_input` that read the motion and clear it, so that a handler falls in
any gap. `dev` is the packet the mouse sends, of which any byte may be lost. Variables
the code does not have are history: how many keys were stored and taken, which
increments of `kb_count` a decrement overwrote (`lag`), what was dropped between a
load and its zero or by the clamp to 2000.

### UserHeap and ElfLoad

`UserHeap` is one process with the library's heap. An address counts units of
`HBLK_ALIGN` bytes; `hdr` maps the addresses where a header lies to its size and `used`,
whether its block still exists or was absorbed, since `free` believes any header
it finds. `free` searches its place in the list (`Place`), then merges with the next block
and the one before. The program may free any pointer it ever got, write over the
whole of a block it has (`Fill`, which erases the headers of absorbed blocks there), and
move the break itself. `fopen` and `fclose` take a descriptor and a block each.

`ElfLoad` is one load of a program, a page at a time: a byte of memory is the offset of the byte
of the file it was copied from, or zero, or what the frame held before, or `FOREIGN`. Sums of
the header's fields wrap at `WORD`, as in `elf.c:59` and 70 and `task.c:510`: a segment whose
offset and size wrap is accepted, and what is copied then begins outside the file's buffer
(`FOREIGN`; a read there that faults stops the kernel and is left out). An allocation
may fail at any page. `Platform` puts it next to the heap, which has a variable (`hp`) and a
specification of its own; a behaviour of `ProgramSpec` is a load.

### AtaPio, Rtc and Screen

`AtaPio` is the driver's loop over sectors, one action between two polls, and a drive:
it becomes ready or fails at any time, keeps what is written in a cache until a flush,
and ignores a command while it is busy or wants data.

`Platform` puts next to the driver the two other devices theorems are stated of: `Rtc`,
where each register of the clock is read by an action of its own and the chip may tick
between any two, and `Screen`, where each primitive of `gfx.c` is an action and the list
of dirty rectangles is merged as the code merges it: the loop of `gfx.c:504-516` uses -1 for
"no pair yet" and takes the pair after one of negative cost whatever its own, so `MergedPair` is
the cheapest of the pairs behind the last such pair, not of all (against the comment at 500).
`MCServices` checks that it is what the loop computes. `AtaPio` has a variable (`io`) and a
specification of its own; a behaviour of `DeviceSpec` is one of the other two.

### Services and Apps

The parts below the kernel's core share no state with each other: a clock reading
touches no game. `Services` is their composition: a behaviour picks a part and runs it,
`Apps` does the same for the windows. But for the heap and the disk driver the parts
share `st`. Each part is a module
with its own state record, actions and properties, and a handler is an action there
as elsewhere. Where a part meets others of the system the others are its
environment: in `FilesApp`, `Docs` and `Viewers` the shell and other processes change
the files or the task table between two clicks; in `Repaint` an animated window behind
asks to be painted.

`Repaint` and `Screen` keep one cell or pixel, any: what was last painted on it.
`Calc` and `Gadgets` work modulo `2^w` of a small word, for their overflow tests
are the point. `Stdio` compares the words a call should write with those it wrote.
`Fields` has the keys of every text field and the Todo list, `TableGames` Tic Tac Toe
and Memory, `Quiz` Sudoku, the typing test, Guess and the dice.

## 3. The runs

Passing runs:

* `Scheduler` (83 k to 110 k states). Three slots, two stacks, three directories:
  task 0 and two processes, enough for a reap of one while the other runs, for a
  stack or directory to be freed and handed out again, and for exec to swap two.
  Checks `TypeOK`, `RunsInOwnContext`, `NoDanglingContext`, `SavedFramesApart`,
  `DirsAccounted`, and under fairness `EveryTaskRuns` and `Task0Returns`.
* `ProcMem` (440 k states). Two processes, eleven frames, five virtual pages and
  five tracked pages: both processes fit, and their later pages, or a page table, may
  not, or may not be tracked. `exec`, `brk` and `mmap` fail after their first page, and one
  reap takes both processes. Images: a one-page program loaded twice at one
  address (overlapping segments), and one with a segment whose end wraps in 32 bits, one
  that fits and one out of range. Checks `TypeOK`, `MappedIsOwned`, `Exclusive`,
  `ExecAllOrNothing` and the refinement `FramesHaveOwners`.
* `Desktop` (358 k states). Three modules that share no variable, in one instance:
  `MCDesktop` picks one at the start, and the other two rest.

  - `FileSystem` (26 k). Three slots, names `d`, `e`, `d/e` with and without `/`,
    one descriptor: the table fills, and each name is at some time a file, a directory
    or below either. Checks `TypeOK`, `NamesUnique`, `PosInside` and the refinement
    `IsNameStore`.
  - `Windows` (89 k). A 5 by 6 grid; Settings and Files exist from the boot, hidden;
    Snake, which needs installing, and the store are opened from the taskbar. Four
    types fill a table of four; every type is opened first, opened again while
    hidden, dragged against each edge, maximized, and hidden by each of its ways.
    Files stands for the boot's other windows, which differ in size only. Checks
    `GuiTypeOK`, `OnePerType`, `MaximizedFills`, `InsideScreen`, `DragIsActive`,
    `FocusNeverHidden`.
  - `Input` (243 k). A ring of two, a clamp of nine, and three budgets: five keys,
    which fill the ring and wrap it; three packets with two lost bytes, so that a loss,
    the wrong assembly and the return to step all happen; two keys with one packet,
    for the frame's order. The packets are a press in place, a move, and one whose
    motion bytes look like first bytes. Checks `CountExact`, `KeysInOrder`,
    `QuietPacketResyncs`, `MotionConserved`, and under fairness `ButtonSeen`.
* `FsDisk` (214 k states). Two slots, names `d` and `d/e`, two blocks, one of them the
  filler. Two slots give every order of parent and child, a slot reused by
  the other entry, and every cut of a save; one slot in a save may lose a write
  that returned 0 (`MAX_LOST = 1`). No descriptors (`NFDS = 0`), so
  a process races the save by an `open` that creates a file; an instance with a descriptor, which
  also races by writes and truncation, passes with one block of data (784 k states, too long for
  every check), and the proofs have any number of both. Checks `MountedUnique`,
  `SaveIsComplete`, `MountInventsNothing`, `MountRestores`.
* `Services` (567 k states). Each part over inputs small enough to take all of them
  and chosen at its limits:

  - the user heap (15 k): pages of four units, a break that starts inside a page and may
    rise to 16, requests of one and three units, a `FILE` of one, two descriptors: the
    heap runs out in `malloc` and in `fopen`, blocks are reused, merged on both sides,
    freed twice, and the program moves the break before and after its first `malloc`;
  - the disk driver (49 k): transfers of up to three sectors from one start, so that a
    later one finds in the cache what another left; three sectors have a first,
    a middle and a last one, and the drive may fail or be late at each;
  - program images of two segments over five pages, that meet inside a page or do not fit,
    with words of eight bits (`WORD = 256`) so that offsets, ends and the table of headers
    wrap; three dirty rectangles (`MAX_DIRTY_RECT = 3`), the least with pairs to choose from;
    clock readings at the ends of days, months, leap years and the century; buffers that
    fill in the middle of a number; boards of 3 by 3 and 2 by 2 (Brick has the real one).

  Checks `Tiled`, `SbrkIsApart`, `FilesOwn` of the heap, `Transferred` of the driver, and
  five conjunctions, one conjunct for each part, stated and commented in its module:

  | Property | The parts' properties |
  |---|---|
  | `ProgramsRight` | `Faithful`, `StackInPage` (ElfLoad) |
  | `DevicesRight` | `LocalTime` (Rtc), `NothingLost` (Screen) |
  | `DocsKept` | `NoteIsSaved`, `ZipRestores`, `LinesConverted`, `InstalledIsThere` (Docs); `DelTakesShown`, `ListingIsDir`, `CleanTakesTmp` (FilesApp); `EndsTheShown`, `FindsAll`, `PageFull` (Viewers); `Fit`, `InList` (Fields), `Follows` (Gadgets) |
  | `AppsRight` | `Whole`, `Fits`, `Scored` (ArcadeGames), `Fair`, `FaceUp`, `Counted`, `TilesKept` (TableGames), `Honest` (Quiz), `Right` (Calc), `Exact`, `Sound` (Gadgets), `Taken` (Ide) |
  | `OutputRight` | `FrameShows` (Repaint); `InOrder`, `Truncated`, `ReadsBack`, `SameOnBoth`, `ElementsWhole` (Stdio); `LineOnScreen`, `CdResolves`, `InBuffer` (Shell) |

Runs that show the code to disagree with what a comment of it says:

| Run | Property | The code | The comment |
|---|---|---|---|
| `SchedulerPublish` | `SwitchLoadsFrame` | READY is stored before the frame (`task.c:607`) | `task.h:26` |
| `AllocRace` | `GivenIsFree` | bits tested, then set, with interrupts on (`mm.c:66`) | `mm.c:59` |
| `ProcMemLeak` | `NothingLeaks` | `kfree` frees one page of two; page tables never freed | `task.c:354` |
| `FsRename` | `RenameTakesBelow` | names compared with an absolute path: a renamed directory leaves its children (`fs.c:242`; rmdir at 204 likewise) | `fs.c:237` |
| `DiskMount` | `MountParentsFirst` | directories made in slot order (`fs.c:435`) | `fs.c:428` |
| `UnitTool` | `UnitDivides` | `ll_div32` returns the remainder (`gui.c:5246-5255`) | `gui.c:5245` |
| `ActiveOnTop` | `ActiveOnTop` | the active window is painted last only if it is dirty; an animated one behind always is (`gui.c:4843-4871`) | `gui.c:4866` |

Deadlock is checked where the system cannot stop. `Scheduler` may: after
`panic_screen` the CPU halts for ever. Every other passing run checks it: a GUI loop with
no input left still turns.

Fairness. `Scheduler`'s `FairSpec` assumes `WF(Irq)`: the PIT
fires for ever, and nothing keeps interrupts off for ever. It assumes
`SF(Task0Step)`: a step of task 0 is disabled while another task has the CPU, and
a 10 ms slice is long enough to execute instructions when it has it. No fairness
is assumed of processes, of exit, or of commands. `Input`'s `FairSpec` (and `MCDesktop`, for
that part alone) assumes `WF(Frame)`: the GUI's loop halts until the next interrupt, the PIT's at the latest,
so the main thread is never stuck in a frame. Nothing is assumed of keys or packets.

Definitions whose name ends in `_Bug` are slips of the code: each stands before the
definition it would replace. Those PROJECT.json lists under `mutants` break the property
it pairs them with; the others break one of the properties of their own part. A mutant of
a conjunction breaks one of its conjuncts and says nothing of the others.

## 4. The proofs

### The scheduler

`SchedulerProofs` proves for every number of slots, every set of stacks and
directories, and every set of exit codes:

| Theorem | States |
|---|---|
| `TypeCorrect` | `Spec => []TypeOK` |
| `ContextSafety` | `Spec => []RunsInOwnContext` |
| `NoUseAfterFree` | `Spec => []NoDanglingContext` |
| `FramesApart` | `Spec => []SavedFramesApart` |
| `DirsConserved` | `Spec => []DirsAccounted` |

Assumptions: `TableAssumption` (more than one slot), `PointerAssumption` (the boot
stack, the kernel directory and NULL are not among the allocator's objects),
`CodeAssumption`.

The argument. None of the invariants is inductive: that the task switched to has
its own stack depends on who else can hold that stack. `Inv` is the conjunction
of `Boot` (task 0 keeps its stack and directory and stays runnable), `Locals` (what
the locals of a creation or reap hold at each label: the slot is EMPTY, or READY
and half stored, or EXITED and off the CPU), `SlotShapes` (which fields of a slot
are null together), `StackOwners` and `DirOwners` (each object handed out belongs
to one slot or to the creation under way, and a slot's frame is on its own
stack), and `RunsInOwnContext`. `NextInv` shows each action preserves each
conjunct; `InvSuffices` derives the invariants. The half-published process is the
reason the invariants are conditional on `~halted`, and `SchedulerPublish` shows
that the condition is not idle.

### The file system

`FileSystemProofs` proves for any number of slots, any names and contents, and any
number of descriptors:

| Theorem | States |
|---|---|
| `TypeCorrect` | `Spec => []TypeOK` |
| `NamesStayUnique` | `Spec => []NamesUnique` |
| `PositionsInside` | `Spec => []PosInside` |
| `ImplementsNameStore` | `Spec => IsNameStore`, the refinement |

Assumptions: the table has a slot and a file a maximal size (`TableAssumption`),
a path is not empty and has no leading `/` (`PathsAssumption`; the form with one is
made from it), the number of descriptors is a natural number (`FdsAssumption`). The invariant `FInv` says that the table is one of
`Tables` (typed, names unique among the used slots) and the descriptors are typed with
positions inside their copies. The refinement needs it: only while names are unique is
`Content(files)` a function that an operation changes at one name. So the lemmas
(`Added`, `Erased`, `Written`, `Renamed`) say what each operation of `RamFs` does to the map, and a step
of `FileSystem` is then a step of `NameStore` or a stutter, but for rmdir and mv of a directory with
entries below: `RmdirStep` and `RenameStep` show that these are what `Strands` names, the entry alone
(`NothingUnderAbs`: no stored name lies under a path that begins with `/`).

### Process memory

`ProcMemProofs` proves for any number of frames and process slots, any layout of the
address space and any set of images:

| Theorem | States |
|---|---|
| `InvariantHolds` | `Spec => []IInv`, the inductive invariant |
| `TypeCorrect` | `Spec => []TypeOK` |
| `MappedPagesAreOwned` | `Spec => []MappedIsOwned` |
| `FramesAreExclusive` | `Spec => []Exclusive` |
| `ImplementsFrameOwners` | `Spec => FramesHaveOwners`, the refinement |
| `TrackingIsComplete` | `Spec => NothingTrackedIsLost`, which follows from it |
| `ExecIsAllOrNothing` | `Spec => ExecAllOrNothing` |

Assumptions: slots are naturals (`ProcsAssumption`), the stack lies above the code with
room between and the list of tracked pages holds at least three (`LayoutAssumption`;
`task.h` has 64), images are sequences of pairs of page numbers (`ImagesAssumption`),
the number of frames is a natural number (`FramesAssumption`).

The argument. Neither `MappedIsOwned` nor `Exclusive` is inductive: a creation and an
`exec` hand a space they built page by page over to a slot, and the first says nothing
of the space before, the second nothing of what the slot held. `IInv` adds
`Shapes` (of every space, finished, half-built or half-replaced: mapped frames are
tracked, none is the directory, a page table or part of the stack, none is mapped
twice), `Calls` (what a call at each `pc` knows of its process, its loop and what it
builds) and `Slots` (an empty slot owns nothing). Ownership is one map, `Held`, over processes
and the calls under way, so one lemma (`OwnersChange`) covers a frame that is allocated,
freed, or passed on, and `HandedOver` the publication of a process and the swap of
`exec`. Each action has its own lemma, and shows besides that the step is one of `FrameOwners`
(`Moves`): `WorkMoves`, `DropMoves` and `HandOverMoves` are its three kinds. That a
tracked frame is never lost (`NothingTrackedIsLost`) is a consequence of any such step
(`MovesLoseNothing`), and no longer argued call by call.

The proof corrected the type invariant. `end` of a segment is computed in 32 bits
(`p_vaddr + p_memsz`, rounded up; `task.c:510`) and wraps for a segment at the top of memory; the
segment is then empty for the loop, and the page before its end is below its first. So
a call carries any integer as its end, `TypeOK` states what is needed (the pages
from `va` to before `end` are pages of the process), and the run has an image with such
a segment.

### The disk

`FsDiskProofs` proves for tables and disks of any size, any names and contents, and any
pattern of failing writes, restarts and unreadable sectors:

| Theorem | States |
|---|---|
| `DiskInvariant` | `DSpec => []DInv`, the inductive invariant |
| `DiskTypeCorrect` | `DSpec => []DTypeOK` (proved only: no run checks it) |
| `MountedStaysUnique` | `DSpec => []MountedUnique` |
| `MountAddsOnlyStored` | `DSpec => MountInventsNothing` |
| `SaveLeavesTheTable` | `DSpec => SaveIsComplete` |
| `MountRestoresTheTree` | `DSpec => MountRestores` |

Assumptions: those of the file system, that the filler is a block
(`ZeroAssumption`), and that the bound on lost writes is a number (`LostAssumption`), any number.

The argument has two halves. The save: `SaveInv` says that each slot behind `i` is as `Saved`
says, unless its write was `lost`; that the header that was copied is still that of its entry,
in name and kind while a process may have written to it and wholly if none has (`Heads`); and that
between the two writes of a slot the disk has that header, unless lost. A process can fill or create
an entry but neither remove it nor make it a directory (`CreateKeeps`, `WriteKeeps`,
`SyscallKeeps`), which is why a raced slot keeps its name and kind. It needs that directories
have no content (`DirsHold` for the table, `ImageInv` for the disk), for the save
writes no data for them; that follows through the refinement, since every step of
the files is one of `NameStore` or strands something (`DirsStayEmpty`).

The mount: `Pass` is a recursive function of the number of slots done. That such a
function exists (`Recursion`), and what it preserves, is shown by the least number at
which it would fail (`NatMin`), as the induction theorems of the library take an operator
and cannot be used. `Made(t, S)` says that each entry of `t` is one of the slots in
`S`; the first pass makes its table of the directories before slot n, the second of all
the directories and the files before slot n (`DirsMade`, `FilesMade`). Nothing
more is needed for `MountInventsNothing`. For `MountRestores` each pass must also succeed:
the name is new because names on the disk differ, the parent is there because it
is stored in a lower slot and itself restorable (`ParentOf`), and there is room because a
table made of `S` has no more entries than `S` has slots: the pigeonhole
principle (`RoomFor`).

### The input

`InputProofs` proves, for a ring of any size, any packets and any clamp,
`CountIsExact`, `KeysStayInOrder`, `PacketsResync` and `MotionIsConserved`: the four
invariants of the run. The inductive invariant ties `head` and `tail` to the numbers
of keys taken and stored modulo the ring's size, the contents of the ring to the
keys still pending, `kb_count` to both and to `lag` at each `pc` (a decrement has
loaded a value that IRQ 1 has outdated since), and `mouse_cycle` and `mouse_packet` to
the bytes sent since the last loss. That slots of keys not more than the ring's size
apart differ is arithmetic the solver does not find: `OneRemainder`, `NextSlot` and
`SlotsApart` give it.

### The windows

`WindowsProofs` proves every property of the run, for any screen, window types, places
on it and points of the pointer: `TypeCorrect`, `OneWindowPerType`, `MaximizedStays`,
`StaysInside`, `DragsActive`, `FocusStaysVisible`. It assumes what `gui.c` writes as
numbers: every window's place is on the screen above the taskbar
(`PlacesAssumption`), `wins[]` has an entry for each type and the boot opens none twice
(`WinsAssumption`).
Since a handler is a composition of operators on a desktop record, so is the proof:
`Sound(d)` is what each of them preserves (types, one window for each type, places on
the screen, a maximized window full and not dragged), `FocusKept(d, e)` what each
does from `d` to `e`, and it is transitive. There is one lemma for an
operator, and `MouseKeeps` chains them. `MaximizedFills` needs `DragIsActive`: a title
button is only pressed by a new press, and before a press there is no drag. That the
table is never full for a new type is the pigeonhole principle (`FS_Injection`).

### User programs

`ProgramsProofs` proves, of the heap, for pages, headers, requests, a `FILE` and limits of any size, and
any number of descriptors:

| Theorem | States |
|---|---|
| `UserHeapInvariant` | `HeapSpec => []Inv`, the inductive invariant |
| `HeapStaysTiled` | `HeapSpec => []Tiled` |
| `SbrkStaysApart` | `HeapSpec => []SbrkIsApart` |
| `FilesOwnTheirs` | `HeapSpec => []FilesOwn` |

and of the loader, for any word and page size, layout, images and arguments:

| Theorem | States |
|---|---|
| `ProgramsAreRight` | `ProgramSpec => []ProgramsRight`: `Faithful` and `StackInPage` |

The heap. Assumptions: sizes and addresses are natural numbers, a page, a header and a `FILE` are
not empty (`UserHeapAssumption`). The 32-bit width of a request is left out, as in the model.

The argument. `Tiled` says where the first block is by `Min`, which a step may
move; the invariant names the place `lo` where the heap began, and says that the
blocks, given or free, cover every address from `lo` to the top (`Tiles`), that a header is in use
exactly where a block is given (`Headed`), and that what `sbrk` gave before lies
below `lo` (`Below`). A block given is always wide enough to hold what `Fill`
writes, so no header of a block is lost. That no two free blocks touch
(`Coalesced`) breaks in the middle of `free`: `TouchOnly` says that while the
block is in the list and not merged yet, it is one of the two that touch. `ListedIs`,
`NextMerged` and `PrevMerged` are the three stages, and `Neighbours` is why the
neighbour in the list is enough: the list is in the order of addresses, so the block
that begins where another ends follows it there. Lists are changed by
`RemoveAt` and `InsertAt` only (`Removed`, `Inserted`), and `MinIs` gives the least
element of a set of numbers. The count in `Tiled` follows: the union of the
blocks is an interval.

The loader. `ElfAssumption` says what the numbers of `task.h` and `syscall.c` give: the
program's area begins and ends at page boundaries and lies in the address space; what `build_user_stack` reserves holds its tables for
the most arguments there may be; and 15 strings of 64 bytes fit in the rest of the
page. Only the last clause of `StackInPage`, that what `execve` lets through always fits, uses the
latter; a program spawned from the shell may have any arguments, and then the string check
of the code is what keeps the stack in its page. The invariant (`LoadInv`) describes the two
loops: in the loop over pages `remain` is what the file still has for the address `va`
(`Rest`), the bytes of earlier segments and those of this one below `va` are in memory
(`BytesHold`), and nothing is mapped at or above `va` but what lies under the break of
earlier segments (`InBounds`). `FilledIs` is one page: its offset matters in the first page
of a segment only, and `PagesStep` is why `va` meets `seg_end` exactly. A new page replaces an
earlier one at its address, so `BytesHold` needs that the segments share no page
(`PagesApart`), as `Faithful` says. A header may hold any words. A segment whose end wraps passes the
test of its end and maps no page, or one: `Faithful` says nothing of its bytes (`Spans`), only
that it puts nothing below the program's area. One whose offset and size wrap (`OfFile`) gets what is
read at its offsets modulo `WORD` (`Source`). `StringsAre` gives the recursive function of the strings:
each ends where the one above begins, and k of them take no more than k times the longest.

### The devices

`DevicesProofs` proves for transfers of any length, any time zone and times, any
screen, and any number of dirty rectangles from two:

| Theorem | States |
|---|---|
| `AtaInvariant` | `AtaSpec => []Inv`, the inductive invariant of the disk driver |
| `TransfersAreWhole` | `AtaSpec => []Transferred` |
| `DevicesAreRight` | `DeviceSpec => []DevicesRight`, the clock and the double buffer |

The clock. It assumes that the chip shows days and hours there are, in years 100 to 9999,
and an offset of -12 to 14 hours (`RtcAssumption`). What `rtc_read` owes is stated by
day numbers: the local time lies `OFFSET` hours from the chip's, and the day of the week is
that of the day's number, although the code counts neither and carries over days, months and
years by hand. `Years` and `Before` are the two halves of a day number, the days
before a year and before a month of it; with them `TomorrowIs` and `YesterdayIs` show that
one carry of the code moves the number by one, and `LocalIs` that at most one is
needed. `BcdIs`, `ValueIs` and `HourIs` undo the coding of the registers. The
invariant (`RtcInv`) is about a reading cut by a tick: until the chip ticks over the end
of a minute, the registers read so far are those of the start (`RtcGot`); a tick within
a minute shows in the seconds alone, the register that is read first.

The double buffer. It assumes a screen and glyphs that are not empty and a list of two
rectangles or more (`ScreenAssumption`). `NothingLost` says that a pixel drawn in the back
buffer that the frame buffer lacks lies in a dirty rectangle, that the listed rectangles
lie on the screen, and that the list fits its array. With types added (`ScreenOk`) it is
inductive. That a swap copies all of a rectangle, by two pixels at a time or by one, is `SwapKeeps`. `ClipIs`
gives the part of a rectangle on the screen, `HullIs` that the union of two holds both,
`PairIs` that what the loop over the pairs of a full list leaves is a pair of it (`FirstIs`: of
pairs in any number there is a first cheapest), and `MarkIs` that marking loses no
pixel in any of the ways it can end (absorbed, merged with its neighbours, appended, merged
because the list is full). A primitive then needs one argument, that all it paints is
within what it marks (`PaintedKeeps`). For most this is a comparison; the corners of a round
rectangle and the glow need a bound on squares; a line (`LineKeeps`) needs that
Bresenham's error keeps the point in the box of its ends: `LineStep` carries
`err = (Y + 1) * dx - (X + 1) * dy` from one pixel to the next. The path is a recursive
function; that it exists is `Recursion`, by the least number where it would fail.

The disk driver. It assumes that sectors are natural numbers (`AtaAssumption`). `Transferred` speaks of the end of a
transfer; the invariant of what is true between two polls. `InStep` ties the
drive's position and what it has left to do to the driver's loop: this is what makes `insl` read the sector that was
asked for, and the flush after the last sector be heeded, since the drive then
wants no more data. `Wrote` says that each sector written is in the cache or on the medium
and that no older copy of it is in the cache, so that a flush cannot bring that back. Once a poll has
given up (`expired`) nothing of this holds, and nothing is claimed. The
proof showed that a clause of `Transferred`, which excused a write cut by a late error from keeping its
earlier sectors, was not needed; it is gone.

## 5. Only model-checked, and not modelled

Only model-checked: `DocsKept`, `AppsRight` and `OutputRight`, which are of the other parts of
`Services` (the applications, the repaint of a frame and the texts); liveness
(`EveryTaskRuns`, `Task0Returns`, `ButtonSeen`), which is out of the prover's reach, and
whatever a fold or a recursive function computes for every input (converters, games,
the interpreter).

Not modelled:

* `task_create`, `task_exit`, `task_yield` (no caller in the tree); the small-block pool
  and bump heap; initialisation of the PIC, PIT, GDT, IDT, 8042; `ata_identify`; `mouse_update`
  (polling, not used once IRQ 12 works); `writev`, a sequence of writes.
* `.`, `..` and repeated slashes in stored names; the 508-byte super block written as 512.
* Windows that only draw or copy: About, the Browser's pages, Calendar, Music, PDF,
  Video, Net, Weather. Blending, rounded shapes, fonts, icons, wallpaper, the cursor's
  bitmap: pixels and tables (`icons.c` alone is 6471 lines of them). UART, speaker,
  `memcpy` and its like, the demo programs, the serial test commands, host scripts.
* A system call that finds a file operation of the main thread half done: file
  operations are atomic except against the save.
* Two things `FsDisk` and `Windows` model and no property states: `fs_disk_save` clears
  `fs_dirty` even if a file changed meanwhile or a write was lost (against `fs.h:42`, "whether
  there are unsaved changes"), and a press on a title bar moves the
  window up by `TITLE_H` (`gui.c:2538` takes the offset from the title's top, 3132
  applies it to the content's).

What the models show of the code, where no text of the repository says otherwise. Each
is modelled as it is, and a property that would trip over it names it and leaves it out:

* Clock: the 12-hour conversion is applied to a chip in 24-hour mode too, so 12:xx
  reads 00:xx (`cmos.c:107-113` against 127), and the afternoon of a chip in 12-hour mode
  and BCD is lost. `LocalTime` leaves those readings out.
* Disk: the status after the last sector and after the flush is not read, and a poll
  that gives up leaves the drive busy with the old command (`ata.c:189-193`). `AtaPio`
  marks such transfers `late` or `expired`, and excludes them by name: `Transferred` bounds
  this and does not catch it. `FsDisk` has the consequence, `lost`.
* Heap: `sbrk` by the program after the first `malloc` gives memory the heap holds
  already (`epoch.c:104`); a size near 2^32 wraps.
* Loader: a segment that shares a page with an earlier one gets a new page mapped over
  it, and the earlier bytes are gone from the process.
* Loader: the sums of `elf_parse` wrap, so a header with an offset near 2^32 is accepted and
  the program runs with bytes from outside its file; a segment whose end wraps passes the
  range test and is not, or hardly, mapped (`elf.c:59`, 70, `task.c:510`).
* Dirty rectangles: a full list does not always merge the pair whose area grows least
  (`gfx.c:500` says so), since a pair that overlaps has a negative cost, which the loop takes for
  "none yet". Nothing is lost by it, only painted twice.
* Graphics: `vga_render` draws neither clipped nor marked dirty (`vga.c:138`);
  `gfx_fill_soft_gradient` divides by zero for one line.
* Repaint (`Clean` lists what is left out): a window painted while it is
  behind another or over a bar; ESC on a hidden active window, which clears its place; the
  menu's image when the right button drops it (`gui.c:3120`); the cursor over the blank
  part of the top bar; maximize and restore; the shadow a drag leaves. A background
  window that animates is painted over the active one (run `ActiveOnTop`). A
  new wallpaper is not shown, for `g_desk_ready` is never reset.
* Input: between a load of the motion and its zero a packet is lost; the decrement of
  `kb_count` may overwrite an increment, and then a key stays behind until the next. `dropped` and
  `lag` book both: the properties bound these races and do not catch them.
* Shell: `cd /` and `cd ..` to the root always fail; a path that is too long is cut
  without a message; `touch`, `write`, `cat`, `rm`, `ls` and `elf` ignore the current
  directory.
* Focus: the second click on a desktop icon goes on to the windows and takes the
  focus from the window it opened (`gui.c:2504`, 2584).
* Descriptors: a write replaces the file by the copy of `open` (`syscall.c:92`; the
  comment at 84 speaks of appending to the file).
* File window: `fs_list_dir` lists the sibling `ab` in the directory `a` as `b`; a name of 23
  characters loses its last in `files_join_path`; rows are drawn 8 pixels below where they are
  clicked (3452-3507, 1504, 1538); listings longer than 1024 or 2048 bytes lose entries; a
  third click within 35 ticks opens again.
* Documents: the Text Editor has no key handler, and its Save writes an empty
  `/doc.txt`; "Saved" is shown even if `fs_write` refused; a loaded note is not
  terminated; a screen shot is 800*600*4 bytes cut to 4096, which the photo
  viewer never accepts (`gui.c:1790`, 1809).
* Viewers: Find's "(no match)" is erased at once (6098); the hex viewer scrolls without
  bound, and its offsets are padded on the right; the task manager's list ends at a
  gap in the table.
* Games: `mines_first` is 0 at boot, so the first game has no mines; 2048 puts no tile
  after a move; arrow keys of Snake and 2048 go elsewhere than the comments say
  (224 and 2674, 298 and 2679); the typing test cannot be finished, for space and R switch its
  text (2838); the ball of Brick may leave the board; Paint goes on drawing after the
  button came up.
* Tools: `Sound` says nothing of the unit converter (run `UnitTool`); a password may hold a NUL; F to F is not
  the identity.

## 6. Plan

Done: the process table, memory, files, disk, windows, input and the services and
applications above, with proofs for the first six of these, the user heap, the loader, the disk driver, the
clock and the double buffer. Left:

1. A proof of what a frame paints again (`FrameShows`).
2. `mmap` and `nanosleep` with 32-bit words; the publication of a process in `ProcMem`; a
   property of the exit code `wait` reports.
3. An abstract specification for `FsDisk` (a register that a save writes and a mount
   reads).
