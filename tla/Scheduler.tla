----------------------------- MODULE Scheduler -----------------------------
(***************************************************************************)
(* The process table and the context switch of the kernel (task.c), with   *)
(* the callers that drive it: the shell and the GUI, which are task 0, and *)
(* the ring-3 processes through int 0x80.                                  *)
(*                                                                         *)
(* One CPU.  Task 0 runs kernel code with interrupts enabled, so an IRQ    *)
(* may fall between any two of its stores: every field of struct task that *)
(* a creation writes, and every object a reap frees, is a step of its own. *)
(* A system call runs with interrupts disabled (gate 0x8E/0xEE), so it is  *)
(* one step, except nanosleep, which enables them while it spins.          *)
(*                                                                         *)
(* Data kept: which kernel stack holds a task's saved frame, which page    *)
(* directory it uses, its state and exit code.  A kernel stack and a page  *)
(* directory are single objects here; their pages are in ProcMem, and the  *)
(* allocator they come from in PhysMem.  Left out: names, pids, ticks_run, *)
(* the register contents of a frame.                                       *)
(***************************************************************************)
EXTENDS Integers, FiniteSets

CONSTANTS
    TASK_MAX,     \* slots of the process table; slot 0 is the kernel's main thread
    Stacks,       \* kernel stacks kmalloc(TASK_STACK_SIZE) can return
    Dirs,         \* pages alloc_page can return for a page directory
    BOOT_STACK,   \* the stack the boot code gave to task 0
    KERNEL_PD,    \* kernel_page_directory
    NULL,         \* a null pointer
    Codes         \* the codes processes pass to exit()

ASSUME TableAssumption == TASK_MAX \in Nat /\ TASK_MAX > 1
ASSUME PointerAssumption ==
    /\ NULL \notin Stacks /\ BOOT_STACK \notin Stacks \cup {NULL}
    /\ NULL \notin Dirs /\ KERNEL_PD \notin Dirs \cup {NULL}
ASSUME CodeAssumption == Codes \subseteq Nat

Slots == 0 .. TASK_MAX - 1
UserSlots == Slots \ {0}

EMPTY == "empty"
READY == "ready"
RUNNING == "running"
EXITED == "exited"
States == {EMPTY, READY, RUNNING, EXITED}
NotExited == -1            \* the initial exit_code

\* Where task 0 is in the kernel code it executes.
Labels == {"idle", "reap", "reap_kstack", "reap_clear", "find", "kstack", "pd",
           "load", "fail_kstack", "set_state", "set_esp", "set_stack",
           "set_ring", "set_cr3", "set_exit", "set_tss", "wait"}

VARIABLES
    state, ring, esp, stack_base, cr3, exit_code,   \* struct task, one function per field
    kstk,        \* the kernel stack a task executes on, NULL in ring 3
    current,     \* current_task
    cpu_cr3,     \* the CR3 register
    esp0,        \* g_tss.esp0, named by the stack it is the top of
    usedStacks, usedDirs,                           \* what the allocator has handed out
    pc, k, elf, new_stack, new_pd,                  \* locals of the code task 0 executes
    halted       \* panic_screen was reached, or a garbage frame was loaded

table == <<state, ring, esp, stack_base, cr3, exit_code>>
cpu == <<current, cpu_cr3, esp0, kstk, halted>>
heap == <<usedStacks, usedDirs>>
locals == <<k, elf, new_stack, new_pd>>
vars == <<table, cpu, heap, pc, locals>>

\* Definitions whose name ends in _Bug are slips in the code that the runs must
\* detect; each stands before the definition it would replace and is used nowhere.
Runnable(s) == state[s] \in {READY, RUNNING}

Init ==
    /\ state = [s \in Slots |-> IF s = 0 THEN RUNNING ELSE EMPTY]
    /\ ring = [s \in Slots |-> 0]
    /\ esp = [s \in Slots |-> NULL]
    /\ stack_base = [s \in Slots |-> NULL]
    /\ cr3 = [s \in Slots |-> IF s = 0 THEN KERNEL_PD ELSE NULL]
    /\ exit_code = [s \in Slots |-> NotExited]
    /\ kstk = [s \in Slots |-> IF s = 0 THEN BOOT_STACK ELSE NULL]
    /\ current = 0 /\ cpu_cr3 = KERNEL_PD /\ esp0 = NULL
    /\ usedStacks = {} /\ usedDirs = {}
    /\ pc = "idle" /\ k = 0 /\ elf = FALSE /\ new_stack = NULL /\ new_pd = NULL
    /\ halted = FALSE

-----------------------------------------------------------------------------
(* The context switch.  It follows every IRQ, not only the timer's.        *)

Distance_Bug(c, s) == s
\* Distance of slot s from slot c in the round robin: c itself comes last.
Distance(c, s) == IF s > c THEN s - c ELSE s - c + TASK_MAX

\* n is the task scheduler_pick_next returns.
IsNext(n) ==
    \/ /\ Runnable(n)
       /\ \A s \in Slots : Runnable(s) => Distance(current, n) <= Distance(current, s)
    \/ n = current /\ \A s \in Slots : ~Runnable(s)

\* The interrupted context is pushed where the CPU was: from ring 3 on the
\* stack TSS.esp0 names, from the kernel on the stack already in use.
FrameStack == IF kstk[current] = NULL THEN esp0 ELSE kstk[current]

\* The frame and the address space a switch to n restores are those of n.
Resumable(n, frames) == frames[n] # NULL /\ cr3[n] # NULL

\* scheduler_load_cr3.
LoadCr3_Bug(n) == cr3[n]
LoadCr3(n) == IF cr3[n] # NULL THEN cr3[n] ELSE cpu_cr3
LoadEsp0_Bug(n) == IF esp0 = NULL THEN stack_base[n] ELSE esp0
LoadEsp0(n) == IF ring[n] = 3 /\ stack_base[n] # NULL THEN stack_base[n] ELSE esp0

Irq ==
    /\ ~halted
    /\ \E n \in Slots :
        /\ IsNext(n)
        /\ esp' = [esp EXCEPT ![current] = FrameStack]
        /\ current' = n
        /\ cpu_cr3' = LoadCr3(n)
        /\ esp0' = LoadEsp0(n)
        /\ halted' = ~Resumable(n, esp')
    /\ UNCHANGED <<state, ring, stack_base, cr3, exit_code, kstk, heap, pc, locals>>

-----------------------------------------------------------------------------
(* Task 0: process_create_user and process_create_elf, which reap first.   *)

Kernel(at) == ~halted /\ current = 0 /\ pc = at

CreateBegin ==
    /\ Kernel("idle")
    /\ elf' \in BOOLEAN
    /\ pc' = "reap" /\ k' = 1
    /\ UNCHANGED <<table, cpu, heap, new_stack, new_pd>>

\* One round of the loop of reap_exited_processes: test, free the tracked pages.
MustReap_Bug(s) == ring[s] = 3
MustReap(s) == state[s] = EXITED /\ ring[s] = 3

Reap ==
    /\ Kernel("reap") /\ k \in UserSlots
    /\ IF MustReap(k)
       THEN usedDirs' = usedDirs \ {cr3[k]} /\ pc' = "reap_kstack" /\ k' = k
       ELSE k' = k + 1 /\ UNCHANGED <<usedDirs, pc>>
    /\ UNCHANGED <<table, cpu, usedStacks, elf, new_stack, new_pd>>

ReapStack ==
    /\ Kernel("reap_kstack")
    /\ usedStacks' = usedStacks \ {stack_base[k]}
    /\ pc' = "reap_clear"
    /\ UNCHANGED <<table, cpu, usedDirs, locals>>

ReapClear ==
    /\ Kernel("reap_clear")
    /\ state' = [state EXCEPT ![k] = EMPTY]
    /\ ring' = [ring EXCEPT ![k] = 0]
    /\ esp' = [esp EXCEPT ![k] = NULL]
    /\ stack_base' = [stack_base EXCEPT ![k] = NULL]
    /\ cr3' = [cr3 EXCEPT ![k] = NULL]
    /\ exit_code' = [exit_code EXCEPT ![k] = NotExited]
    /\ k' = k + 1 /\ pc' = "reap"
    /\ UNCHANGED <<cpu, heap, elf, new_stack, new_pd>>

ReapDone ==
    /\ Kernel("reap") /\ k \notin UserSlots
    /\ pc' = "find"
    /\ UNCHANGED <<table, cpu, heap, locals>>

FindSlot ==
    /\ Kernel("find")
    /\ \/ /\ \E s \in UserSlots :
                /\ state[s] = EMPTY /\ \A r \in UserSlots : state[r] = EMPTY => s <= r
                /\ k' = s
          /\ pc' = "kstack"
       \/ /\ \A s \in UserSlots : state[s] # EMPTY
          /\ pc' = "idle" /\ k' = k
    /\ UNCHANGED <<table, cpu, heap, elf, new_stack, new_pd>>

\* An allocation may find no memory: the images, which are not here, take it too.
AllocStack ==
    /\ Kernel("kstack")
    /\ \/ /\ \E s \in Stacks \ usedStacks :
                new_stack' = s /\ usedStacks' = usedStacks \cup {s}
          /\ pc' = "pd"
       \/ pc' = "idle" /\ UNCHANGED <<new_stack, usedStacks>>
    /\ UNCHANGED <<table, cpu, usedDirs, k, elf, new_pd>>

\* process_create_elf clears the slot once it has a directory; when it has none
\* it returns without giving its kernel stack back (process_create_user does).
AllocPd ==
    /\ Kernel("pd")
    /\ \/ /\ \E d \in Dirs \ usedDirs : new_pd' = d /\ usedDirs' = usedDirs \cup {d}
          /\ exit_code' = IF elf THEN [exit_code EXCEPT ![k] = 0] ELSE exit_code
          /\ pc' = "load" /\ new_stack' = new_stack
       \/ /\ pc' = IF elf THEN "idle" ELSE "fail_kstack"
          /\ new_stack' = IF elf THEN NULL ELSE new_stack
          /\ UNCHANGED <<new_pd, usedDirs, exit_code>>
    /\ UNCHANGED <<state, ring, esp, stack_base, cr3, cpu, usedStacks, k, elf>>

Load_Bug ==
    /\ Kernel("load")
    /\ pc' \in {"set_state", "fail_kstack"} /\ new_pd' = IF pc' = "set_state" THEN new_pd ELSE NULL
    /\ UNCHANGED <<table, cpu, heap, k, elf, new_stack>>

\* Segments and user stack: all of it succeeds, or `fail:' frees the pages.
Load ==
    /\ Kernel("load")
    /\ \/ pc' = "set_state" /\ UNCHANGED <<usedDirs, new_pd>>
       \/ pc' = "fail_kstack" /\ usedDirs' = usedDirs \ {new_pd} /\ new_pd' = NULL
    /\ UNCHANGED <<table, cpu, usedStacks, k, elf, new_stack>>

FailStack ==
    /\ Kernel("fail_kstack")
    /\ usedStacks' = usedStacks \ {new_stack}
    /\ new_stack' = NULL /\ pc' = "idle"
    /\ UNCHANGED <<table, cpu, usedDirs, k, elf, new_pd>>

(* The stores that publish the new process, in the order of the code.      *)
SetState ==
    /\ Kernel("set_state") /\ pc' = "set_esp"
    /\ state' = [state EXCEPT ![k] = READY]
    /\ UNCHANGED <<ring, esp, stack_base, cr3, exit_code, cpu, heap, locals>>

SetEsp ==
    /\ Kernel("set_esp") /\ pc' = "set_stack"
    /\ esp' = [esp EXCEPT ![k] = new_stack]
    /\ kstk' = [kstk EXCEPT ![k] = NULL]     \* the forged frame returns to ring 3
    /\ UNCHANGED <<state, ring, stack_base, cr3, exit_code>>
    /\ UNCHANGED <<current, cpu_cr3, esp0, halted, heap, locals>>

SetStack ==
    /\ Kernel("set_stack") /\ pc' = "set_ring"
    /\ stack_base' = [stack_base EXCEPT ![k] = new_stack]
    /\ UNCHANGED <<state, ring, esp, cr3, exit_code, cpu, heap, locals>>

SetRing ==
    /\ Kernel("set_ring") /\ pc' = "set_cr3"
    /\ ring' = [ring EXCEPT ![k] = 3]
    /\ UNCHANGED <<state, esp, stack_base, cr3, exit_code, cpu, heap, locals>>

SetCr3 ==
    /\ Kernel("set_cr3") /\ pc' = "set_exit"
    /\ cr3' = [cr3 EXCEPT ![k] = new_pd]
    /\ new_pd' = NULL            \* from here the slot owns it
    /\ UNCHANGED <<state, ring, esp, stack_base, exit_code, cpu, heap, k, elf, new_stack>>

SetExit ==
    /\ Kernel("set_exit") /\ pc' = "set_tss"
    /\ exit_code' = [exit_code EXCEPT ![k] = NotExited]
    /\ UNCHANGED <<state, ring, esp, stack_base, cr3, cpu, heap, locals>>

SetTss ==
    /\ Kernel("set_tss") /\ pc' = "idle"
    /\ esp0' = new_stack /\ new_stack' = NULL
    /\ UNCHANGED <<table, current, cpu_cr3, kstk, halted, heap, k, elf, new_pd>>

-----------------------------------------------------------------------------
(* Task 0: the kill of the task manager, the wait of the shell.            *)

\* The list shows the slots below task_get_count: with a gap, not the last ones.
task_get_count == Cardinality({s \in Slots : state[s] # EMPTY})

Kill ==
    /\ Kernel("idle")
    /\ \E s \in UserSlots :
        /\ s < task_get_count /\ state[s] \notin {EMPTY, EXITED}
        /\ state' = [state EXCEPT ![s] = EXITED]
    /\ UNCHANGED <<ring, esp, stack_base, cr3, exit_code, cpu, heap, pc, locals>>

WaitBegin ==
    /\ Kernel("idle")
    /\ \E s \in UserSlots : state[s] # EMPTY /\ ring[s] = 3 /\ k' = s
    /\ pc' = "wait"
    /\ UNCHANGED <<table, cpu, heap, elf, new_stack, new_pd>>

WaitOver_Bug(s) == state[s] = EMPTY
WaitOver(s) == state[s] \in {EMPTY, EXITED}

WaitEnd ==
    /\ Kernel("wait")
    /\ WaitOver(k)
    /\ pc' = "idle"
    /\ UNCHANGED <<table, cpu, heap, locals>>

-----------------------------------------------------------------------------
(* Ring-3 processes.                                                       *)

InUser == ~halted /\ current # 0 /\ kstk[current] = NULL

\* do_exit only marks the task: the process runs on until the next IRQ.
SysExit ==
    /\ InUser
    /\ \E c \in Codes : exit_code' = [exit_code EXCEPT ![current] = c]
    /\ state' = [state EXCEPT ![current] = EXITED]
    /\ UNCHANGED <<ring, esp, stack_base, cr3, cpu, heap, pc, locals>>

\* process_exec_reload: new directory in, old pages out, same slot and stack.
SysExec ==
    /\ InUser /\ ring[current] = 3
    /\ \E d \in Dirs \ usedDirs :
        /\ cpu_cr3' = d
        /\ usedDirs' = (usedDirs \ {cr3[current]}) \cup {d}
        /\ cr3' = [cr3 EXCEPT ![current] = d]
    /\ exit_code' = [exit_code EXCEPT ![current] = NotExited]
    /\ state' = [state EXCEPT ![current] = READY]
    /\ esp0' = stack_base[current]
    /\ UNCHANGED <<ring, esp, stack_base, current, kstk, halted, usedStacks, pc, locals>>

\* do_nanosleep spins in the kernel, on the stack the trap took, with IF set.
SleepBegin ==
    /\ InUser
    /\ kstk' = [kstk EXCEPT ![current] = esp0]
    /\ UNCHANGED <<table, current, cpu_cr3, esp0, halted, heap, pc, locals>>

SleepEnd ==
    /\ ~halted /\ current # 0 /\ kstk[current] # NULL
    /\ kstk' = [kstk EXCEPT ![current] = NULL]
    /\ UNCHANGED <<table, current, cpu_cr3, esp0, halted, heap, pc, locals>>

\* A CPU exception, whatever its origin in ring 3, stops the machine.
Fault ==
    /\ InUser
    /\ halted' = TRUE
    /\ UNCHANGED <<table, current, cpu_cr3, esp0, kstk, heap, pc, locals>>

Task0Step ==
    \/ Reap \/ ReapStack \/ ReapClear \/ ReapDone \/ FindSlot
    \/ AllocStack \/ AllocPd \/ Load \/ FailStack
    \/ SetState \/ SetEsp \/ SetStack \/ SetRing \/ SetCr3 \/ SetExit \/ SetTss
    \/ WaitEnd

UserStep == SysExit \/ SysExec \/ SleepBegin \/ SleepEnd \/ Fault

Next == Irq \/ CreateBegin \/ Task0Step \/ Kill \/ WaitBegin \/ UserStep

Spec == Init /\ [][Next]_vars

(* The PIT fires for ever (WF), and a time slice of 10 ms is long enough   *)
(* for the task that gets it to execute: task 0 is not preempted before    *)
(* its next store for ever (SF; Irq disables its steps in between).        *)
FairSpec == Spec /\ WF_vars(Irq) /\ SF_vars(Task0Step)
-----------------------------------------------------------------------------
(* Properties.                                                             *)

\* The type invariant of the process table, the CPU and the locals of task 0.
TypeOK ==
    /\ state \in [Slots -> States]
    /\ ring \in [Slots -> {0, 3}]
    /\ esp \in [Slots -> Stacks \cup {BOOT_STACK, NULL}]
    /\ stack_base \in [Slots -> Stacks \cup {NULL}]
    /\ cr3 \in [Slots -> Dirs \cup {KERNEL_PD, NULL}]
    /\ exit_code \in [Slots -> Int]
    /\ kstk \in [Slots -> Stacks \cup {BOOT_STACK, NULL}]
    /\ current \in Slots
    /\ cpu_cr3 \in Dirs \cup {KERNEL_PD}
    /\ esp0 \in Stacks \cup {NULL}
    /\ usedStacks \subseteq Stacks /\ usedDirs \subseteq Dirs
    /\ pc \in Labels /\ k \in Nat /\ elf \in BOOLEAN
    /\ new_stack \in Stacks \cup {NULL} /\ new_pd \in Dirs \cup {NULL}
    /\ halted \in BOOLEAN

\* The address space and the trap stack in use are those of the task that runs:
\* scheduler_load_cr3 and exec keep CR3 and TSS.esp0 in step with current_task.
RunsInOwnContext ==
    ~halted => IF current = 0 THEN cpu_cr3 = KERNEL_PD
               ELSE cpu_cr3 = cr3[current] /\ esp0 = stack_base[current]

\* No use after free: the CPU never runs on a page directory, nor a runnable
\* process on a kernel stack or a saved frame, that a reap, an exec or a failed
\* creation has given back to the allocator.
NoDanglingContext ==
    ~halted =>
        /\ cpu_cr3 \in usedDirs \cup {KERNEL_PD}
        /\ \A s \in UserSlots : Runnable(s) =>
            /\ cr3[s] \in usedDirs \cup {NULL}
            /\ stack_base[s] \in usedStacks \cup {NULL}
            /\ s # current => esp[s] \in usedStacks \cup {NULL}

\* Two tasks switched out never have their frames on the same kernel stack,
\* although esp0 is one register and stacks are freed and handed out again.
SavedFramesApart ==
    ~halted => \A s, t \in Slots :
        s # t /\ Runnable(s) /\ Runnable(t) /\ current \notin {s, t} /\ esp[s] # NULL
            => esp[s] # esp[t]

\* Page directories are conserved: each one handed out belongs to exactly one
\* slot or to the creation under way, through every exec, reap and failure.
Reaping(s) == pc \in {"reap_kstack", "reap_clear"} /\ s = k
HasDir(s) == s \in UserSlots /\ cr3[s] # NULL /\ ~Reaping(s)
DirsAccounted ==
    ~halted =>
        /\ usedDirs = {cr3[s] : s \in {r \in UserSlots : HasDir(r)}} \cup ({new_pd} \ {NULL})
        /\ \A s, t \in UserSlots : HasDir(s) /\ HasDir(t) /\ cr3[s] = cr3[t] => s = t
        /\ \A s \in UserSlots : HasDir(s) => cr3[s] # new_pd

\* Round robin starves nobody: a task that stays runnable gets the CPU.
EveryTaskRuns ==
    \A s \in Slots : Runnable(s) ~> (current = s \/ ~Runnable(s) \/ halted)

\* A creation under way ends, and so does the wait of the shell once the process
\* it waits for has exited and lost the CPU, whatever the processes do meanwhile.
Task0Returns ==
    /\ (pc \notin {"idle", "wait"}) ~> (pc = "idle" \/ halted)
    /\ (pc = "wait" /\ state[k] = EXITED /\ current # k) ~> (pc = "idle" \/ halted)

\* task.h:26 says of esp "the saved stack pointer (points at the top of the
\* interrupt frame)": a switch should only ever load a stack pointer of that kind.
SwitchLoadsFrame == [][current' # current => esp[current'] # NULL]_vars
=============================================================================
