--------------------------- MODULE SchedulerProofs ---------------------------
(***************************************************************************)
(* Proofs about Scheduler for every number of slots, stacks and page       *)
(* directories: the type invariant, and the inductive invariant from which *)
(* the context, dangling-pointer and conservation invariants follow.       *)
(***************************************************************************)
EXTENDS Scheduler, TLAPS

(* The strengthening.  Creating labels: the slot k is still EMPTY.         *)
Creating == {"kstack", "pd", "load", "fail_kstack", "set_state"}
Publishing == {"set_esp", "set_stack", "set_ring", "set_cr3", "set_exit", "set_tss"}

\* Task 0 keeps its own address space and stack and is always runnable.
Boot ==
    /\ state[0] = RUNNING /\ ring[0] = 0 /\ stack_base[0] = NULL
    /\ cr3[0] = KERNEL_PD /\ kstk[0] = BOOT_STACK
    /\ esp[0] \in {NULL, BOOT_STACK} /\ (current # 0 => esp[0] = BOOT_STACK)

\* What the locals of task 0 hold at each label.
Locals ==
    /\ pc = "reap" => k # 0
    /\ pc \in {"reap_kstack", "reap_clear", "wait"} \cup Creating \cup Publishing
         => k \in UserSlots
    /\ new_stack = NULL <=> pc \notin (Creating \ {"kstack"}) \cup Publishing
    /\ new_pd = NULL <=> pc \notin {"load", "set_state", "set_esp", "set_stack",
                                    "set_ring", "set_cr3"}
    /\ pc \in {"reap_kstack", "reap_clear"} =>
         state[k] = EXITED /\ ring[k] = 3 /\ k # current
    /\ pc \in Creating => state[k] = EMPTY
    /\ pc \in Publishing =>
         /\ state[k] # EMPTY
         /\ pc \in {"set_esp", "set_stack", "set_ring", "set_cr3"} =>
              state[k] = READY /\ cr3[k] = NULL /\ k # current
         /\ esp[k] = NULL <=> pc = "set_esp"
         /\ pc = "set_stack" => esp[k] = new_stack /\ kstk[k] = NULL
         /\ stack_base[k] = IF pc \in {"set_esp", "set_stack"} THEN NULL ELSE new_stack
         /\ ring[k] = IF pc \in {"set_esp", "set_stack", "set_ring"} THEN 0 ELSE 3

\* The slot's fields before SetCr3 of its creation, and from then on.
Partial(s) == s = k /\ pc \in {"set_esp", "set_stack", "set_ring", "set_cr3"}
SlotShapes == \A s \in UserSlots :
    /\ state[s] # RUNNING /\ cr3[s] # KERNEL_PD
    /\ state[s] = EMPTY => /\ esp[s] = NULL /\ stack_base[s] = NULL /\ cr3[s] = NULL
                           /\ ring[s] = 0 /\ s # current
    /\ state[s] # EMPTY /\ ~Partial(s) =>
         /\ ring[s] = 3 /\ cr3[s] # NULL /\ stack_base[s] # NULL
         /\ kstk[s] \in {NULL, stack_base[s]}
         /\ s # current => esp[s] = stack_base[s]
    /\ Partial(s) /\ pc \in {"set_ring", "set_cr3"} =>
         esp[s] = stack_base[s] /\ kstk[s] = NULL

\* Kernel stacks and page directories: who has which.
HasStack(s) == s \in UserSlots /\ stack_base[s] # NULL /\ ~(pc = "reap_clear" /\ s = k)
StackOwners ==
    /\ \A s \in UserSlots : HasStack(s) => stack_base[s] \in usedStacks
    /\ \A s, t \in UserSlots :
         HasStack(s) /\ HasStack(t) /\ stack_base[s] = stack_base[t] => s = t
    /\ new_stack # NULL => new_stack \in usedStacks
    /\ \A s \in UserSlots : HasStack(s) /\ stack_base[s] = new_stack => s = k /\ pc \in Publishing

DirOwners ==
    /\ \A s \in UserSlots : HasDir(s) => cr3[s] \in usedDirs
    /\ \A s, t \in UserSlots : HasDir(s) /\ HasDir(t) /\ cr3[s] = cr3[t] => s = t
    /\ new_pd # NULL => new_pd \in usedDirs
    /\ \A s \in UserSlots : HasDir(s) => cr3[s] # new_pd
    /\ \A d \in usedDirs : d = new_pd \/ \E s \in UserSlots : HasDir(s) /\ cr3[s] = d

Inv == ~halted =>
    Boot /\ Locals /\ SlotShapes /\ StackOwners /\ DirOwners /\ RunsInOwnContext

(***************************************************************************)
(* Type correctness.                                                       *)
(***************************************************************************)
\* The exit code of a task that has not exited is a C int.
LEMMA NotExitedType == NotExited \in Int
  BY DEF NotExited

\* The initial state is well typed.
LEMMA InitType == Init => TypeOK
<1> SUFFICES ASSUME Init PROVE TypeOK
  OBVIOUS
<1>1. elf \in BOOLEAN /\ halted \in BOOLEAN
  BY Zenon DEF Init
<1>2. state \in [Slots -> States]
  BY DEF Init, Slots, States, RUNNING, EMPTY
<1>3. pc \in Labels
  BY DEF Init, Labels
<1>4. exit_code \in [Slots -> Int]
  BY NotExitedType DEF Init
<1>5. esp \in [Slots -> Stacks \cup {BOOT_STACK, NULL}] /\ ring \in [Slots -> {0, 3}]
  BY DEF Init
<1>6. cr3 \in [Slots -> Dirs \cup {KERNEL_PD, NULL}]
  BY DEF Init
<1>7. stack_base \in [Slots -> Stacks \cup {NULL}]
      /\ kstk \in [Slots -> Stacks \cup {BOOT_STACK, NULL}]
  BY DEF Init
<1>8. current \in Slots
  BY TableAssumption DEF Init, Slots
<1>9. /\ cpu_cr3 \in Dirs \cup {KERNEL_PD} /\ esp0 \in Stacks \cup {NULL}
      /\ usedStacks \subseteq Stacks /\ usedDirs \subseteq Dirs /\ k \in Nat
      /\ new_stack \in Stacks \cup {NULL} /\ new_pd \in Dirs \cup {NULL}
  BY DEF Init
<1> QED
  BY <1>1, <1>2, <1>3, <1>4, <1>5, <1>6, <1>7, <1>8, <1>9, Zenon DEF TypeOK

\* Every step of task 0, of the processes and of the interrupts keeps the types.
LEMMA NextType == TypeOK /\ [Next]_vars => TypeOK'
<1> SUFFICES ASSUME TypeOK, [Next]_vars PROVE TypeOK'
  OBVIOUS
<1> USE TableAssumption, PointerAssumption, CodeAssumption, NotExitedType
     DEF TypeOK, Slots, UserSlots, States, Labels, EMPTY, READY, RUNNING, EXITED
<1>1. CASE Irq
  <2> PICK n \in Slots :
        /\ esp' = [esp EXCEPT ![current] = FrameStack]
        /\ current' = n /\ cpu_cr3' = LoadCr3(n) /\ esp0' = LoadEsp0(n)
        /\ halted' = ~Resumable(n, esp')
    BY <1>1 DEF Irq
  <2>1. FrameStack \in Stacks \cup {BOOT_STACK, NULL}
    BY DEF FrameStack
  <2>2. LoadCr3(n) \in Dirs \cup {KERNEL_PD} /\ LoadEsp0(n) \in Stacks \cup {NULL}
    BY DEF LoadCr3, LoadEsp0
  <2>3. halted' \in BOOLEAN
    BY Zenon DEF Resumable
  <2> QED
    BY <1>1, <2>1, <2>2, <2>3 DEF Irq, heap, locals
<1>2. CASE CreateBegin
  BY <1>2 DEF CreateBegin, Kernel, table, cpu, heap
<1>3. CASE Reap
  BY <1>3 DEF Reap, MustReap, Kernel, table, cpu
<1>4. CASE ReapStack
  BY <1>4 DEF ReapStack, Kernel, table, cpu, locals
<1>5. CASE ReapClear
  <2>1. state' \in [Slots -> States] /\ ring' \in [Slots -> {0, 3}]
    BY <1>5 DEF ReapClear
  <2>2. esp' \in [Slots -> Stacks \cup {BOOT_STACK, NULL}]
        /\ stack_base' \in [Slots -> Stacks \cup {NULL}]
    BY <1>5 DEF ReapClear
  <2>3. cr3' \in [Slots -> Dirs \cup {KERNEL_PD, NULL}] /\ exit_code' \in [Slots -> Int]
    BY <1>5 DEF ReapClear
  <2>4. pc' \in Labels /\ k' \in Nat
    BY <1>5 DEF ReapClear
  <2> QED
    BY <1>5, <2>1, <2>2, <2>3, <2>4 DEF ReapClear, cpu, heap
<1>6. CASE ReapDone
  BY <1>6 DEF ReapDone, Kernel, table, cpu, heap, locals
<1>7. CASE FindSlot
  BY <1>7 DEF FindSlot, Kernel, table, cpu, heap
<1>8. CASE AllocStack
  BY <1>8 DEF AllocStack, Kernel, table, cpu
<1>9. CASE AllocPd
  BY <1>9 DEF AllocPd, Kernel, cpu
<1>10. CASE Load
  BY <1>10 DEF Load, Kernel, table, cpu
<1>11. CASE FailStack
  BY <1>11 DEF FailStack, Kernel, table, cpu
<1>12. CASE SetState
  BY <1>12 DEF SetState, Kernel, cpu, heap, locals
<1>13. CASE SetEsp
  BY <1>13 DEF SetEsp, Kernel, heap, locals
<1>14. CASE SetStack
  BY <1>14 DEF SetStack, Kernel, cpu, heap, locals
<1>15. CASE SetRing
  BY <1>15 DEF SetRing, Kernel, cpu, heap, locals
<1>16. CASE SetCr3
  BY <1>16 DEF SetCr3, Kernel, cpu, heap
<1>17. CASE SetExit
  BY <1>17 DEF SetExit, Kernel, cpu, heap, locals
<1>18. CASE SetTss
  BY <1>18 DEF SetTss, Kernel, table, heap
<1>19. CASE WaitEnd
  BY <1>19 DEF WaitEnd, Kernel, table, cpu, heap, locals
<1>20. CASE Kill
  BY <1>20 DEF Kill, Kernel, cpu, heap, locals
<1>21. CASE WaitBegin
  BY <1>21 DEF WaitBegin, Kernel, table, cpu, heap
<1>22. CASE SysExit
  BY <1>22 DEF SysExit, InUser, cpu, heap, locals
<1>23. CASE SysExec
  BY <1>23 DEF SysExec, InUser, locals
<1>24. CASE SleepBegin
  BY <1>24 DEF SleepBegin, InUser, table, heap, locals
<1>25. CASE SleepEnd
  BY <1>25 DEF SleepEnd, InUser, table, heap, locals
<1>26. CASE Fault
  BY <1>26 DEF Fault, InUser, table, heap, locals
<1>27. CASE UNCHANGED vars
  BY <1>27 DEF vars, table, cpu, heap, locals
<1> QED
  BY <1>1, <1>2, <1>3, <1>4, <1>5, <1>6, <1>7, <1>8, <1>9, <1>10, <1>11, <1>12, <1>13, <1>14, <1>15, <1>16, <1>17, <1>18, <1>19, <1>20, <1>21, <1>22, <1>23, <1>24, <1>25, <1>26, <1>27
  DEF Next, Task0Step, UserStep

\* The process table, the CPU registers the kernel sets and the locals of task 0
\* keep their types for ever.
THEOREM TypeCorrect == Spec => []TypeOK
  BY InitType, NextType, PTL DEF Spec
(***************************************************************************)
(* The inductive invariant.                                                *)
(***************************************************************************)
\* The boot state satisfies it: only task 0 exists.
LEMMA InitInv == Init => Inv
<1> SUFFICES ASSUME Init PROVE Boot /\ Locals /\ SlotShapes /\ StackOwners /\ DirOwners
                                /\ RunsInOwnContext
  BY DEF Inv
<1> USE TableAssumption, PointerAssumption DEF Init, Slots, UserSlots, EMPTY, READY, RUNNING, EXITED
<1>1. Boot /\ RunsInOwnContext
  BY DEF Boot, RunsInOwnContext
<1>2. Locals
  BY DEF Locals, Creating, Publishing
<1>3. SlotShapes
  BY DEF SlotShapes, Partial
<1>4. StackOwners /\ DirOwners
  BY DEF StackOwners, DirOwners, HasStack, HasDir
<1> QED
  BY <1>1, <1>2, <1>3, <1>4

\* A context switch: the interrupted task's frame lands on its own stack, and the
\* task switched to, unless the machine stops, has a complete context.
LEMMA IrqInv == ASSUME TypeOK, Inv, ~halted', Irq PROVE Inv'
<1> USE TableAssumption, PointerAssumption
     DEF Slots, UserSlots, EMPTY, READY, RUNNING, EXITED, Creating, Publishing
<1>0. /\ Boot /\ Locals /\ SlotShapes /\ StackOwners /\ DirOwners
      /\ RunsInOwnContext /\ ~halted
  BY DEF Inv, Irq
<1> PICK n \in Slots :
      /\ IsNext(n)
      /\ esp' = [esp EXCEPT ![current] = FrameStack]
      /\ current' = n /\ cpu_cr3' = LoadCr3(n) /\ esp0' = LoadEsp0(n)
      /\ halted' = ~Resumable(n, esp')
  BY DEF Irq
<1>1. Runnable(n)
  BY <1>0 DEF IsNext, Runnable, Boot
<1>2. cr3[n] # NULL
  BY DEF Resumable
<1>3. FrameStack = IF current = 0 THEN BOOT_STACK ELSE stack_base[current]
  BY <1>0 DEF FrameStack, Boot, RunsInOwnContext, SlotShapes, Partial, Locals, TypeOK
<1>4. n # 0 => ~Partial(n) /\ ring[n] = 3 /\ stack_base[n] # NULL
  BY <1>0, <1>1, <1>2 DEF SlotShapes, Partial, Locals, Runnable
<1>5. UNCHANGED <<state, ring, stack_base, cr3, kstk, usedStacks, usedDirs, pc, k,
                  new_stack, new_pd>>
  BY DEF Irq, heap, locals
<1>6. Boot'
  BY <1>0, <1>3, <1>5 DEF Boot, TypeOK
<1>7. Locals'
  BY <1>0, <1>1, <1>2, <1>3, <1>5 DEF Locals, Runnable, TypeOK, Boot
<1>8. SlotShapes'
  BY <1>0, <1>1, <1>3, <1>4, <1>5 DEF SlotShapes, Partial, Locals, Runnable, TypeOK
<1>9. StackOwners'
  BY <1>0, <1>5 DEF StackOwners, HasStack
<1>10. DirOwners'
  BY <1>0, <1>5 DEF DirOwners, HasDir, Reaping
<1>11. RunsInOwnContext'
  BY <1>0, <1>2, <1>4, <1>5 DEF RunsInOwnContext, LoadCr3, LoadEsp0, Boot
<1> QED
  BY <1>6, <1>7, <1>8, <1>9, <1>10, <1>11 DEF Inv

\* Every step keeps the invariant, whatever task 0 was doing when it was interrupted.
LEMMA NextInv == TypeOK /\ TypeOK' /\ Inv /\ [Next]_vars => Inv'
<1> USE TableAssumption, PointerAssumption
     DEF Slots, UserSlots, EMPTY, READY, RUNNING, EXITED, Creating, Publishing
<1>1. ASSUME TypeOK, TypeOK', Inv, ~halted', CreateBegin PROVE Inv'
  <2>0. /\ Boot /\ Locals /\ SlotShapes /\ StackOwners /\ DirOwners
        /\ RunsInOwnContext /\ ~halted
    BY <1>1 DEF Inv, CreateBegin, Kernel
  <2>1. Boot'
    BY <1>1, <2>0 DEF CreateBegin, Kernel, table, cpu, heap, Boot
  <2>2. Locals'
    BY <1>1, <2>0 DEF CreateBegin, Kernel, table, cpu, heap, Locals
  <2>3. SlotShapes'
    BY <1>1, <2>0 DEF CreateBegin, Kernel, table, cpu, heap, SlotShapes, Partial
  <2>4. StackOwners'
    BY <1>1, <2>0 DEF CreateBegin, Kernel, table, cpu, heap, StackOwners, HasStack
  <2>5. DirOwners'
    BY <1>1, <2>0 DEF CreateBegin, Kernel, table, cpu, heap, DirOwners, HasDir, Reaping
  <2>6. RunsInOwnContext'
    BY <1>1, <2>0 DEF CreateBegin, Kernel, table, cpu, heap, RunsInOwnContext
  <2> QED
    BY <2>1, <2>2, <2>3, <2>4, <2>5, <2>6 DEF Inv
<1>2. ASSUME TypeOK, TypeOK', Inv, ~halted', Reap PROVE Inv'
  <2>0. /\ Boot /\ Locals /\ SlotShapes /\ StackOwners /\ DirOwners
        /\ RunsInOwnContext /\ ~halted
    BY <1>2 DEF Inv, Reap, Kernel
  <2>1. Boot'
    BY <1>2, <2>0 DEF Reap, Kernel, MustReap, table, cpu, Boot
  <2>2. Locals'
    BY <1>2, <2>0 DEF Reap, Kernel, MustReap, table, cpu, Locals
  <2>3. SlotShapes'
    BY <1>2, <2>0 DEF Reap, Kernel, MustReap, table, cpu, SlotShapes, Partial
  <2>4. StackOwners'
    BY <1>2, <2>0 DEF Reap, Kernel, MustReap, table, cpu, StackOwners, HasStack
  <2>5. DirOwners'
    BY <1>2, <2>0 DEF Reap, Kernel, MustReap, table, cpu, DirOwners, HasDir, Reaping
  <2>6. RunsInOwnContext'
    BY <1>2, <2>0 DEF Reap, Kernel, MustReap, table, cpu, RunsInOwnContext
  <2> QED
    BY <2>1, <2>2, <2>3, <2>4, <2>5, <2>6 DEF Inv
<1>3. ASSUME TypeOK, TypeOK', Inv, ~halted', ReapStack PROVE Inv'
  <2>0. /\ Boot /\ Locals /\ SlotShapes /\ StackOwners /\ DirOwners
        /\ RunsInOwnContext /\ ~halted
    BY <1>3 DEF Inv, ReapStack, Kernel
  <2>1. Boot'
    BY <1>3, <2>0 DEF ReapStack, Kernel, table, cpu, locals, Boot
  <2>2. Locals'
    BY <1>3, <2>0 DEF ReapStack, Kernel, table, cpu, locals, Locals
  <2>3. SlotShapes'
    BY <1>3, <2>0 DEF ReapStack, Kernel, table, cpu, locals, SlotShapes, Partial
  <2>4. StackOwners'
    BY <1>3, <2>0 DEF ReapStack, Kernel, table, cpu, locals, StackOwners, HasStack, Locals
  <2>5. DirOwners'
    BY <1>3, <2>0 DEF ReapStack, Kernel, table, cpu, locals, DirOwners, HasDir, Reaping
  <2>6. RunsInOwnContext'
    BY <1>3, <2>0 DEF ReapStack, Kernel, table, cpu, locals, RunsInOwnContext
  <2> QED
    BY <2>1, <2>2, <2>3, <2>4, <2>5, <2>6 DEF Inv
<1>4. ASSUME TypeOK, TypeOK', Inv, ~halted', ReapClear PROVE Inv'
  <2>0. /\ Boot /\ Locals /\ SlotShapes /\ StackOwners /\ DirOwners
        /\ RunsInOwnContext /\ ~halted
    BY <1>4 DEF Inv, ReapClear, Kernel
  <2>1. Boot'
    BY <1>4, <2>0 DEF ReapClear, Kernel, cpu, heap, Boot, Locals
  <2>2. Locals'
    BY <1>4, <2>0 DEF ReapClear, Kernel, cpu, heap, Locals
  <2>3. SlotShapes'
    BY <1>4, <2>0 DEF ReapClear, Kernel, cpu, heap, SlotShapes, Partial, TypeOK
  <2>4. StackOwners'
    BY <1>4, <2>0 DEF ReapClear, Kernel, cpu, heap, StackOwners, HasStack, TypeOK
  <2>5. DirOwners'
    BY <1>4, <2>0 DEF ReapClear, Kernel, cpu, heap, DirOwners, HasDir, Reaping, TypeOK
  <2>6. RunsInOwnContext'
    BY <1>4, <2>0 DEF ReapClear, Kernel, cpu, heap, RunsInOwnContext
  <2> QED
    BY <2>1, <2>2, <2>3, <2>4, <2>5, <2>6 DEF Inv
<1>5. ASSUME TypeOK, TypeOK', Inv, ~halted', ReapDone PROVE Inv'
  <2>0. /\ Boot /\ Locals /\ SlotShapes /\ StackOwners /\ DirOwners
        /\ RunsInOwnContext /\ ~halted
    BY <1>5 DEF Inv, ReapDone, Kernel
  <2>1. Boot'
    BY <1>5, <2>0 DEF ReapDone, Kernel, table, cpu, heap, locals, Boot
  <2>2. Locals'
    BY <1>5, <2>0 DEF ReapDone, Kernel, table, cpu, heap, locals, Locals
  <2>3. SlotShapes'
    BY <1>5, <2>0 DEF ReapDone, Kernel, table, cpu, heap, locals, SlotShapes, Partial
  <2>4. StackOwners'
    BY <1>5, <2>0 DEF ReapDone, Kernel, table, cpu, heap, locals, StackOwners, HasStack
  <2>5. DirOwners'
    BY <1>5, <2>0 DEF ReapDone, Kernel, table, cpu, heap, locals, DirOwners, HasDir, Reaping
  <2>6. RunsInOwnContext'
    BY <1>5, <2>0 DEF ReapDone, Kernel, table, cpu, heap, locals, RunsInOwnContext
  <2> QED
    BY <2>1, <2>2, <2>3, <2>4, <2>5, <2>6 DEF Inv
<1>6. ASSUME TypeOK, TypeOK', Inv, ~halted', FindSlot PROVE Inv'
  <2>0. /\ Boot /\ Locals /\ SlotShapes /\ StackOwners /\ DirOwners
        /\ RunsInOwnContext /\ ~halted
    BY <1>6 DEF Inv, FindSlot, Kernel
  <2>1. Boot'
    BY <1>6, <2>0 DEF FindSlot, Kernel, table, cpu, heap, Boot
  <2>2. Locals'
    BY <1>6, <2>0 DEF FindSlot, Kernel, table, cpu, heap, Locals
  <2>3. SlotShapes'
    BY <1>6, <2>0 DEF FindSlot, Kernel, table, cpu, heap, SlotShapes, Partial
  <2>4. StackOwners'
    BY <1>6, <2>0 DEF FindSlot, Kernel, table, cpu, heap, StackOwners, HasStack
  <2>5. DirOwners'
    BY <1>6, <2>0 DEF FindSlot, Kernel, table, cpu, heap, DirOwners, HasDir, Reaping
  <2>6. RunsInOwnContext'
    BY <1>6, <2>0 DEF FindSlot, Kernel, table, cpu, heap, RunsInOwnContext
  <2> QED
    BY <2>1, <2>2, <2>3, <2>4, <2>5, <2>6 DEF Inv
<1>7. ASSUME TypeOK, TypeOK', Inv, ~halted', AllocStack PROVE Inv'
  <2>0. /\ Boot /\ Locals /\ SlotShapes /\ StackOwners /\ DirOwners
        /\ RunsInOwnContext /\ ~halted
    BY <1>7 DEF Inv, AllocStack, Kernel
  <2>1. Boot'
    BY <1>7, <2>0 DEF AllocStack, Kernel, table, cpu, Boot
  <2>2. Locals'
    BY <1>7, <2>0 DEF AllocStack, Kernel, table, cpu, Locals
  <2>3. SlotShapes'
    BY <1>7, <2>0 DEF AllocStack, Kernel, table, cpu, SlotShapes, Partial
  <2>4. StackOwners'
    BY <1>7, <2>0 DEF AllocStack, Kernel, table, cpu, StackOwners, HasStack
  <2>5. DirOwners'
    BY <1>7, <2>0 DEF AllocStack, Kernel, table, cpu, DirOwners, HasDir, Reaping
  <2>6. RunsInOwnContext'
    BY <1>7, <2>0 DEF AllocStack, Kernel, table, cpu, RunsInOwnContext
  <2> QED
    BY <2>1, <2>2, <2>3, <2>4, <2>5, <2>6 DEF Inv
<1>8. ASSUME TypeOK, TypeOK', Inv, ~halted', AllocPd PROVE Inv'
  <2>0. /\ Boot /\ Locals /\ SlotShapes /\ StackOwners /\ DirOwners
        /\ RunsInOwnContext /\ ~halted
    BY <1>8 DEF Inv, AllocPd, Kernel
  <2>1. Boot'
    BY <1>8, <2>0 DEF AllocPd, Kernel, cpu, Boot
  <2>2. Locals'
    BY <1>8, <2>0 DEF AllocPd, Kernel, cpu, Locals
  <2>3. SlotShapes'
    BY <1>8, <2>0 DEF AllocPd, Kernel, cpu, SlotShapes, Partial
  <2>4. StackOwners'
    BY <1>8, <2>0 DEF AllocPd, Kernel, cpu, StackOwners, HasStack
  <2>5. DirOwners'
    <3>1. new_pd = NULL /\ cr3' = cr3 /\ \A s \in UserSlots : HasDir(s)' <=> HasDir(s)
      BY <1>8, <2>0 DEF AllocPd, Kernel, Locals, HasDir, Reaping
    <3>2. CASE usedDirs' = usedDirs /\ new_pd' = new_pd
      BY <2>0, <3>1, <3>2 DEF DirOwners
    <3>3. ASSUME NEW d \in Dirs \ usedDirs, usedDirs' = usedDirs \cup {d}, new_pd' = d
          PROVE  DirOwners'
      <4>1. ASSUME NEW e \in usedDirs PROVE \E s \in UserSlots : HasDir(s) /\ cr3[s] = e
        <5>1. e # NULL
          BY <1>8, <4>1 DEF TypeOK
        <5> QED
          BY <2>0, <3>1, <4>1, <5>1 DEF DirOwners
      <4>2. \A e \in usedDirs' : e = new_pd' \/ \E s \in UserSlots : HasDir(s)' /\ cr3'[s] = e
        BY <3>1, <3>3, <4>1
      <4>3. \A s \in UserSlots : HasDir(s)' => cr3'[s] \in usedDirs /\ cr3'[s] # d
        BY <2>0, <3>1, <3>3 DEF DirOwners
      <4>4. \A s, t \in UserSlots : HasDir(s)' /\ HasDir(t)' /\ cr3'[s] = cr3'[t] => s = t
        BY <2>0, <3>1 DEF DirOwners
      <4> QED
        BY <3>3, <4>2, <4>3, <4>4 DEF DirOwners
    <3> QED
      BY <1>8, <3>2, <3>3 DEF AllocPd
  <2>6. RunsInOwnContext'
    BY <1>8, <2>0 DEF AllocPd, Kernel, cpu, RunsInOwnContext
  <2> QED
    BY <2>1, <2>2, <2>3, <2>4, <2>5, <2>6 DEF Inv
<1>9. ASSUME TypeOK, TypeOK', Inv, ~halted', Load PROVE Inv'
  <2>0. /\ Boot /\ Locals /\ SlotShapes /\ StackOwners /\ DirOwners
        /\ RunsInOwnContext /\ ~halted
    BY <1>9 DEF Inv, Load, Kernel
  <2>1. Boot'
    BY <1>9, <2>0 DEF Load, Kernel, table, cpu, Boot
  <2>2. Locals'
    BY <1>9, <2>0 DEF Load, Kernel, table, cpu, Locals
  <2>3. SlotShapes'
    BY <1>9, <2>0 DEF Load, Kernel, table, cpu, SlotShapes, Partial
  <2>4. StackOwners'
    BY <1>9, <2>0 DEF Load, Kernel, table, cpu, StackOwners, HasStack
  <2>5. DirOwners'
    BY <1>9, <2>0 DEF Load, Kernel, table, cpu, DirOwners, HasDir, Reaping
  <2>6. RunsInOwnContext'
    BY <1>9, <2>0 DEF Load, Kernel, table, cpu, RunsInOwnContext
  <2> QED
    BY <2>1, <2>2, <2>3, <2>4, <2>5, <2>6 DEF Inv
<1>10. ASSUME TypeOK, TypeOK', Inv, ~halted', FailStack PROVE Inv'
  <2>0. /\ Boot /\ Locals /\ SlotShapes /\ StackOwners /\ DirOwners
        /\ RunsInOwnContext /\ ~halted
    BY <1>10 DEF Inv, FailStack, Kernel
  <2>1. Boot'
    BY <1>10, <2>0 DEF FailStack, Kernel, table, cpu, Boot
  <2>2. Locals'
    BY <1>10, <2>0 DEF FailStack, Kernel, table, cpu, Locals
  <2>3. SlotShapes'
    BY <1>10, <2>0 DEF FailStack, Kernel, table, cpu, SlotShapes, Partial
  <2>4. StackOwners'
    BY <1>10, <2>0 DEF FailStack, Kernel, table, cpu, StackOwners, HasStack
  <2>5. DirOwners'
    BY <1>10, <2>0 DEF FailStack, Kernel, table, cpu, DirOwners, HasDir, Reaping
  <2>6. RunsInOwnContext'
    BY <1>10, <2>0 DEF FailStack, Kernel, table, cpu, RunsInOwnContext
  <2> QED
    BY <2>1, <2>2, <2>3, <2>4, <2>5, <2>6 DEF Inv
<1>11. ASSUME TypeOK, TypeOK', Inv, ~halted', SetState PROVE Inv'
  <2>0. /\ Boot /\ Locals /\ SlotShapes /\ StackOwners /\ DirOwners
        /\ RunsInOwnContext /\ ~halted
    BY <1>11 DEF Inv, SetState, Kernel
  <2>1. Boot'
    BY <1>11, <2>0 DEF SetState, Kernel, cpu, heap, locals, Boot, Locals
  <2>2. Locals'
    BY <1>11, <2>0 DEF SetState, Kernel, cpu, heap, locals, Locals, TypeOK, Boot, SlotShapes, Partial, RunsInOwnContext
  <2>3. SlotShapes'
    BY <1>11, <2>0 DEF SetState, Kernel, cpu, heap, locals, SlotShapes, Partial
  <2>4. StackOwners'
    BY <1>11, <2>0 DEF SetState, Kernel, cpu, heap, locals, StackOwners, HasStack
  <2>5. DirOwners'
    BY <1>11, <2>0 DEF SetState, Kernel, cpu, heap, locals, DirOwners, HasDir, Reaping
  <2>6. RunsInOwnContext'
    BY <1>11, <2>0 DEF SetState, Kernel, cpu, heap, locals, RunsInOwnContext
  <2> QED
    BY <2>1, <2>2, <2>3, <2>4, <2>5, <2>6 DEF Inv
<1>12. ASSUME TypeOK, TypeOK', Inv, ~halted', SetEsp PROVE Inv'
  <2>0. /\ Boot /\ Locals /\ SlotShapes /\ StackOwners /\ DirOwners
        /\ RunsInOwnContext /\ ~halted
    BY <1>12 DEF Inv, SetEsp, Kernel
  <2>1. Boot'
    BY <1>12, <2>0 DEF SetEsp, Kernel, heap, locals, Boot, Locals
  <2>2. Locals'
    BY <1>12, <2>0 DEF SetEsp, Kernel, heap, locals, Locals, TypeOK
  <2>3. SlotShapes'
    BY <1>12, <2>0 DEF SetEsp, Kernel, heap, locals, SlotShapes, Partial, Locals
  <2>4. StackOwners'
    BY <1>12, <2>0 DEF SetEsp, Kernel, heap, locals, StackOwners, HasStack
  <2>5. DirOwners'
    BY <1>12, <2>0 DEF SetEsp, Kernel, heap, locals, DirOwners, HasDir, Reaping
  <2>6. RunsInOwnContext'
    BY <1>12, <2>0 DEF SetEsp, Kernel, heap, locals, RunsInOwnContext
  <2> QED
    BY <2>1, <2>2, <2>3, <2>4, <2>5, <2>6 DEF Inv
<1>13. ASSUME TypeOK, TypeOK', Inv, ~halted', SetStack PROVE Inv'
  <2>0. /\ Boot /\ Locals /\ SlotShapes /\ StackOwners /\ DirOwners
        /\ RunsInOwnContext /\ ~halted
    BY <1>13 DEF Inv, SetStack, Kernel
  <2>1. Boot'
    BY <1>13, <2>0 DEF SetStack, Kernel, cpu, heap, locals, Boot, Locals
  <2>2. Locals'
    BY <1>13, <2>0 DEF SetStack, Kernel, cpu, heap, locals, Locals, TypeOK
  <2>3. SlotShapes'
    BY <1>13, <2>0 DEF SetStack, Kernel, cpu, heap, locals, SlotShapes, Partial, Locals, TypeOK
  <2>4. StackOwners'
    BY <1>13, <2>0 DEF SetStack, Kernel, cpu, heap, locals, StackOwners, HasStack
  <2>5. DirOwners'
    BY <1>13, <2>0 DEF SetStack, Kernel, cpu, heap, locals, DirOwners, HasDir, Reaping
  <2>6. RunsInOwnContext'
    BY <1>13, <2>0 DEF SetStack, Kernel, cpu, heap, locals, RunsInOwnContext
  <2> QED
    BY <2>1, <2>2, <2>3, <2>4, <2>5, <2>6 DEF Inv
<1>14. ASSUME TypeOK, TypeOK', Inv, ~halted', SetRing PROVE Inv'
  <2>0. /\ Boot /\ Locals /\ SlotShapes /\ StackOwners /\ DirOwners
        /\ RunsInOwnContext /\ ~halted
    BY <1>14 DEF Inv, SetRing, Kernel
  <2>1. Boot'
    BY <1>14, <2>0 DEF SetRing, Kernel, cpu, heap, locals, Boot, Locals
  <2>2. Locals'
    BY <1>14, <2>0 DEF SetRing, Kernel, cpu, heap, locals, Locals, TypeOK
  <2>3. SlotShapes'
    BY <1>14, <2>0 DEF SetRing, Kernel, cpu, heap, locals, SlotShapes, Partial, Locals
  <2>4. StackOwners'
    BY <1>14, <2>0 DEF SetRing, Kernel, cpu, heap, locals, StackOwners, HasStack
  <2>5. DirOwners'
    BY <1>14, <2>0 DEF SetRing, Kernel, cpu, heap, locals, DirOwners, HasDir, Reaping
  <2>6. RunsInOwnContext'
    BY <1>14, <2>0 DEF SetRing, Kernel, cpu, heap, locals, RunsInOwnContext
  <2> QED
    BY <2>1, <2>2, <2>3, <2>4, <2>5, <2>6 DEF Inv
<1>15. ASSUME TypeOK, TypeOK', Inv, ~halted', SetCr3 PROVE Inv'
  <2>0. /\ Boot /\ Locals /\ SlotShapes /\ StackOwners /\ DirOwners
        /\ RunsInOwnContext /\ ~halted
    BY <1>15 DEF Inv, SetCr3, Kernel
  <2>1. Boot'
    BY <1>15, <2>0 DEF SetCr3, Kernel, cpu, heap, Boot, Locals
  <2>2. Locals'
    BY <1>15, <2>0 DEF SetCr3, Kernel, cpu, heap, Locals
  <2>3. SlotShapes'
    BY <1>15, <2>0 DEF SetCr3, Kernel, cpu, heap, SlotShapes, Partial, Locals, TypeOK
  <2>4. StackOwners'
    BY <1>15, <2>0 DEF SetCr3, Kernel, cpu, heap, StackOwners, HasStack
  <2>5. DirOwners'
    BY <1>15, <2>0 DEF SetCr3, Kernel, cpu, heap, DirOwners, HasDir, Reaping, Locals, TypeOK
  <2>6. RunsInOwnContext'
    BY <1>15, <2>0 DEF SetCr3, Kernel, cpu, heap, RunsInOwnContext
  <2> QED
    BY <2>1, <2>2, <2>3, <2>4, <2>5, <2>6 DEF Inv
<1>16. ASSUME TypeOK, TypeOK', Inv, ~halted', SetExit PROVE Inv'
  <2>0. /\ Boot /\ Locals /\ SlotShapes /\ StackOwners /\ DirOwners
        /\ RunsInOwnContext /\ ~halted
    BY <1>16 DEF Inv, SetExit, Kernel
  <2>1. Boot'
    BY <1>16, <2>0 DEF SetExit, Kernel, cpu, heap, locals, Boot
  <2>2. Locals'
    BY <1>16, <2>0 DEF SetExit, Kernel, cpu, heap, locals, Locals
  <2>3. SlotShapes'
    BY <1>16, <2>0 DEF SetExit, Kernel, cpu, heap, locals, SlotShapes, Partial
  <2>4. StackOwners'
    BY <1>16, <2>0 DEF SetExit, Kernel, cpu, heap, locals, StackOwners, HasStack
  <2>5. DirOwners'
    BY <1>16, <2>0 DEF SetExit, Kernel, cpu, heap, locals, DirOwners, HasDir, Reaping
  <2>6. RunsInOwnContext'
    BY <1>16, <2>0 DEF SetExit, Kernel, cpu, heap, locals, RunsInOwnContext
  <2> QED
    BY <2>1, <2>2, <2>3, <2>4, <2>5, <2>6 DEF Inv
<1>17. ASSUME TypeOK, TypeOK', Inv, ~halted', SetTss PROVE Inv'
  <2>0. /\ Boot /\ Locals /\ SlotShapes /\ StackOwners /\ DirOwners
        /\ RunsInOwnContext /\ ~halted
    BY <1>17 DEF Inv, SetTss, Kernel
  <2>1. Boot'
    BY <1>17, <2>0 DEF SetTss, Kernel, table, heap, Boot
  <2>2. Locals'
    BY <1>17, <2>0 DEF SetTss, Kernel, table, heap, Locals
  <2>3. SlotShapes'
    BY <1>17, <2>0 DEF SetTss, Kernel, table, heap, SlotShapes, Partial
  <2>4. StackOwners'
    BY <1>17, <2>0 DEF SetTss, Kernel, table, heap, StackOwners, HasStack
  <2>5. DirOwners'
    BY <1>17, <2>0 DEF SetTss, Kernel, table, heap, DirOwners, HasDir, Reaping
  <2>6. RunsInOwnContext'
    BY <1>17, <2>0 DEF SetTss, Kernel, table, heap, RunsInOwnContext
  <2> QED
    BY <2>1, <2>2, <2>3, <2>4, <2>5, <2>6 DEF Inv
<1>18. ASSUME TypeOK, TypeOK', Inv, ~halted', WaitEnd PROVE Inv'
  <2>0. /\ Boot /\ Locals /\ SlotShapes /\ StackOwners /\ DirOwners
        /\ RunsInOwnContext /\ ~halted
    BY <1>18 DEF Inv, WaitEnd, Kernel
  <2>1. Boot'
    BY <1>18, <2>0 DEF WaitEnd, Kernel, table, cpu, heap, locals, Boot
  <2>2. Locals'
    BY <1>18, <2>0 DEF WaitEnd, Kernel, table, cpu, heap, locals, Locals
  <2>3. SlotShapes'
    BY <1>18, <2>0 DEF WaitEnd, Kernel, table, cpu, heap, locals, SlotShapes, Partial
  <2>4. StackOwners'
    BY <1>18, <2>0 DEF WaitEnd, Kernel, table, cpu, heap, locals, StackOwners, HasStack
  <2>5. DirOwners'
    BY <1>18, <2>0 DEF WaitEnd, Kernel, table, cpu, heap, locals, DirOwners, HasDir, Reaping
  <2>6. RunsInOwnContext'
    BY <1>18, <2>0 DEF WaitEnd, Kernel, table, cpu, heap, locals, RunsInOwnContext
  <2> QED
    BY <2>1, <2>2, <2>3, <2>4, <2>5, <2>6 DEF Inv
<1>19. ASSUME TypeOK, TypeOK', Inv, ~halted', Kill PROVE Inv'
  <2>0. /\ Boot /\ Locals /\ SlotShapes /\ StackOwners /\ DirOwners
        /\ RunsInOwnContext /\ ~halted
    BY <1>19 DEF Inv, Kill, Kernel
  <2>1. Boot'
    BY <1>19, <2>0 DEF Kill, Kernel, cpu, heap, locals, Boot
  <2>2. Locals'
    BY <1>19, <2>0 DEF Kill, Kernel, cpu, heap, locals, Locals
  <2>3. SlotShapes'
    BY <1>19, <2>0 DEF Kill, Kernel, cpu, heap, locals, SlotShapes, Partial
  <2>4. StackOwners'
    BY <1>19, <2>0 DEF Kill, Kernel, cpu, heap, locals, StackOwners, HasStack
  <2>5. DirOwners'
    BY <1>19, <2>0 DEF Kill, Kernel, cpu, heap, locals, DirOwners, HasDir, Reaping
  <2>6. RunsInOwnContext'
    BY <1>19, <2>0 DEF Kill, Kernel, cpu, heap, locals, RunsInOwnContext
  <2> QED
    BY <2>1, <2>2, <2>3, <2>4, <2>5, <2>6 DEF Inv
<1>20. ASSUME TypeOK, TypeOK', Inv, ~halted', WaitBegin PROVE Inv'
  <2>0. /\ Boot /\ Locals /\ SlotShapes /\ StackOwners /\ DirOwners
        /\ RunsInOwnContext /\ ~halted
    BY <1>20 DEF Inv, WaitBegin, Kernel
  <2>1. Boot'
    BY <1>20, <2>0 DEF WaitBegin, Kernel, table, cpu, heap, Boot
  <2>2. Locals'
    BY <1>20, <2>0 DEF WaitBegin, Kernel, table, cpu, heap, Locals
  <2>3. SlotShapes'
    BY <1>20, <2>0 DEF WaitBegin, Kernel, table, cpu, heap, SlotShapes, Partial
  <2>4. StackOwners'
    BY <1>20, <2>0 DEF WaitBegin, Kernel, table, cpu, heap, StackOwners, HasStack
  <2>5. DirOwners'
    BY <1>20, <2>0 DEF WaitBegin, Kernel, table, cpu, heap, DirOwners, HasDir, Reaping
  <2>6. RunsInOwnContext'
    BY <1>20, <2>0 DEF WaitBegin, Kernel, table, cpu, heap, RunsInOwnContext
  <2> QED
    BY <2>1, <2>2, <2>3, <2>4, <2>5, <2>6 DEF Inv
<1>21. ASSUME TypeOK, TypeOK', Inv, ~halted', SysExit PROVE Inv'
  <2>0. /\ Boot /\ Locals /\ SlotShapes /\ StackOwners /\ DirOwners
        /\ RunsInOwnContext /\ ~halted
    BY <1>21 DEF Inv, SysExit, InUser
  <2>1. Boot'
    BY <1>21, <2>0 DEF SysExit, InUser, cpu, heap, locals, Boot
  <2>2. Locals'
    BY <1>21, <2>0 DEF SysExit, InUser, cpu, heap, locals, Locals, TypeOK, Boot, SlotShapes, Partial, RunsInOwnContext
  <2>3. SlotShapes'
    BY <1>21, <2>0 DEF SysExit, InUser, cpu, heap, locals, SlotShapes, Partial
  <2>4. StackOwners'
    BY <1>21, <2>0 DEF SysExit, InUser, cpu, heap, locals, StackOwners, HasStack
  <2>5. DirOwners'
    BY <1>21, <2>0 DEF SysExit, InUser, cpu, heap, locals, DirOwners, HasDir, Reaping
  <2>6. RunsInOwnContext'
    BY <1>21, <2>0 DEF SysExit, InUser, cpu, heap, locals, RunsInOwnContext
  <2> QED
    BY <2>1, <2>2, <2>3, <2>4, <2>5, <2>6 DEF Inv
<1>22. ASSUME TypeOK, TypeOK', Inv, ~halted', SysExec PROVE Inv'
  <2>0. /\ Boot /\ Locals /\ SlotShapes /\ StackOwners /\ DirOwners
        /\ RunsInOwnContext /\ ~halted
    BY <1>22 DEF Inv, SysExec, InUser
  <2>1. Boot'
    BY <1>22, <2>0 DEF SysExec, InUser, locals, Boot
  <2>2. Locals'
    BY <1>22, <2>0 DEF SysExec, InUser, locals, Locals, TypeOK, Boot, SlotShapes, Partial, RunsInOwnContext
  <2>3. SlotShapes'
    BY <1>22, <2>0 DEF SysExec, InUser, locals, SlotShapes, Partial
  <2>4. StackOwners'
    BY <1>22, <2>0 DEF SysExec, InUser, locals, StackOwners, HasStack
  <2>5. DirOwners'
    BY <1>22, <2>0 DEF SysExec, InUser, locals, DirOwners, HasDir, Reaping, Locals, TypeOK
  <2>6. RunsInOwnContext'
    BY <1>22, <2>0 DEF SysExec, InUser, locals, RunsInOwnContext, TypeOK
  <2> QED
    BY <2>1, <2>2, <2>3, <2>4, <2>5, <2>6 DEF Inv
<1>23. ASSUME TypeOK, TypeOK', Inv, ~halted', SleepBegin PROVE Inv'
  <2>0. /\ Boot /\ Locals /\ SlotShapes /\ StackOwners /\ DirOwners
        /\ RunsInOwnContext /\ ~halted
    BY <1>23 DEF Inv, SleepBegin, InUser
  <2>1. Boot'
    BY <1>23, <2>0 DEF SleepBegin, InUser, table, heap, locals, Boot
  <2>2. Locals'
    BY <1>23, <2>0 DEF SleepBegin, InUser, table, heap, locals, Locals
  <2>3. SlotShapes'
    BY <1>23, <2>0 DEF SleepBegin, InUser, table, heap, locals, SlotShapes, Partial, Locals, TypeOK, Boot, RunsInOwnContext
  <2>4. StackOwners'
    BY <1>23, <2>0 DEF SleepBegin, InUser, table, heap, locals, StackOwners, HasStack
  <2>5. DirOwners'
    BY <1>23, <2>0 DEF SleepBegin, InUser, table, heap, locals, DirOwners, HasDir, Reaping
  <2>6. RunsInOwnContext'
    BY <1>23, <2>0 DEF SleepBegin, InUser, table, heap, locals, RunsInOwnContext
  <2> QED
    BY <2>1, <2>2, <2>3, <2>4, <2>5, <2>6 DEF Inv
<1>24. ASSUME TypeOK, TypeOK', Inv, ~halted', SleepEnd PROVE Inv'
  <2>0. /\ Boot /\ Locals /\ SlotShapes /\ StackOwners /\ DirOwners
        /\ RunsInOwnContext /\ ~halted
    BY <1>24 DEF Inv, SleepEnd, InUser
  <2>1. Boot'
    BY <1>24, <2>0 DEF SleepEnd, InUser, table, heap, locals, Boot
  <2>2. Locals'
    BY <1>24, <2>0 DEF SleepEnd, InUser, table, heap, locals, Locals
  <2>3. SlotShapes'
    BY <1>24, <2>0 DEF SleepEnd, InUser, table, heap, locals, SlotShapes, Partial
  <2>4. StackOwners'
    BY <1>24, <2>0 DEF SleepEnd, InUser, table, heap, locals, StackOwners, HasStack
  <2>5. DirOwners'
    BY <1>24, <2>0 DEF SleepEnd, InUser, table, heap, locals, DirOwners, HasDir, Reaping
  <2>6. RunsInOwnContext'
    BY <1>24, <2>0 DEF SleepEnd, InUser, table, heap, locals, RunsInOwnContext
  <2> QED
    BY <2>1, <2>2, <2>3, <2>4, <2>5, <2>6 DEF Inv
<1>25. ASSUME Fault PROVE Inv'
  BY <1>25 DEF Fault, Inv
<1>26. ASSUME Inv, UNCHANGED vars PROVE Inv'
  BY <1>26 DEF vars, table, cpu, heap, locals, Inv, Boot, Locals, SlotShapes, Partial, StackOwners,
     HasStack, DirOwners, HasDir, Reaping, RunsInOwnContext
<1> QED
  BY IrqInv, <1>1, <1>2, <1>3, <1>4, <1>5, <1>6, <1>7, <1>8, <1>9, <1>10, <1>11, <1>12, <1>13, <1>14, <1>15, <1>16, <1>17, <1>18, <1>19, <1>20, <1>21, <1>22, <1>23, <1>24, <1>25, <1>26
  DEF Next, Task0Step, UserStep, Inv

\* The invariant implies the four safety invariants of the model-checking run.
LEMMA InvSuffices == TypeOK /\ Inv =>
    RunsInOwnContext /\ NoDanglingContext /\ SavedFramesApart /\ DirsAccounted
<1> SUFFICES ASSUME TypeOK, Inv, ~halted
             PROVE  RunsInOwnContext /\ NoDanglingContext /\ SavedFramesApart /\ DirsAccounted
  BY DEF Inv, RunsInOwnContext, NoDanglingContext, SavedFramesApart, DirsAccounted
<1> USE TableAssumption, PointerAssumption
     DEF Slots, UserSlots, EMPTY, READY, RUNNING, EXITED, Creating, Publishing
<1>0. /\ Boot /\ Locals /\ SlotShapes /\ StackOwners /\ DirOwners /\ RunsInOwnContext
  BY DEF Inv
<1>1. \A s \in UserSlots : Runnable(s) => ~Reaping(s) /\ state[s] # EMPTY
  BY <1>0 DEF Runnable, Reaping, Locals
<1>2. NoDanglingContext
  <2>1. cpu_cr3 \in usedDirs \cup {KERNEL_PD}
    BY <1>0 DEF RunsInOwnContext, SlotShapes, Partial, Locals, DirOwners, HasDir, Reaping, TypeOK
  <2>2. ASSUME NEW s \in UserSlots, Runnable(s)
        PROVE  /\ cr3[s] \in usedDirs \cup {NULL}
               /\ stack_base[s] \in usedStacks \cup {NULL}
               /\ s # current => esp[s] \in usedStacks \cup {NULL}
    <3>1. cr3[s] \in usedDirs \cup {NULL} /\ stack_base[s] \in usedStacks \cup {NULL}
      BY <1>0, <1>1, <2>2 DEF DirOwners, HasDir, StackOwners, HasStack, Reaping
    <3>2. s # current => esp[s] \in {NULL, stack_base[s], new_stack}
      BY <1>0, <1>1, <2>2 DEF SlotShapes, Partial, Locals
    <3>3. new_stack \in usedStacks \cup {NULL}
      BY <1>0 DEF StackOwners
    <3> QED
      BY <3>1, <3>2, <3>3
  <2> QED
    BY <2>1, <2>2 DEF NoDanglingContext
<1>3. SavedFramesApart
  <2> SUFFICES ASSUME NEW s \in Slots, NEW t \in Slots, s # t, Runnable(s), Runnable(t),
                      current \notin {s, t}, esp[s] # NULL, esp[s] = esp[t]
               PROVE  FALSE
    BY DEF SavedFramesApart
  <2> DEFINE Own(r) == IF r = k /\ pc = "set_stack" THEN new_stack ELSE stack_base[r]
  <2>1. \A r \in UserSlots : Runnable(r) /\ r # current /\ esp[r] # NULL => esp[r] = Own(r)
    BY <1>0, <1>1 DEF SlotShapes, Partial, Locals
  <2>2. s # 0 /\ t # 0
    BY <1>0, <2>1 DEF Boot, TypeOK
  <2>3. esp[s] = Own(s) /\ esp[t] = Own(t)
    BY <2>1, <2>2
  <2>4. CASE (s # k /\ t # k) \/ pc # "set_stack"
    BY <1>0, <1>1, <2>2, <2>3, <2>4 DEF StackOwners, HasStack, Reaping
  <2>5. CASE (s = k \/ t = k) /\ pc = "set_stack"
    BY <1>0, <1>1, <2>2, <2>3, <2>5 DEF StackOwners, HasStack, Reaping
  <2> QED
    BY <2>4, <2>5
<1>4. DirsAccounted
  <2>1. usedDirs \subseteq {cr3[s] : s \in {r \in UserSlots : HasDir(r)}} \cup ({new_pd} \ {NULL})
    BY <1>0, PointerAssumption DEF DirOwners, TypeOK
  <2>2. {cr3[s] : s \in {r \in UserSlots : HasDir(r)}} \cup ({new_pd} \ {NULL}) \subseteq usedDirs
    BY <1>0 DEF DirOwners
  <2> QED
    BY <1>0, <2>1, <2>2 DEF DirsAccounted, DirOwners
<1> QED
  BY <1>0, <1>2, <1>3, <1>4

\* The inductive invariant holds for ever.
LEMMA InvAlways == Spec => []Inv
<1>1. Init => TypeOK /\ Inv
  BY InitType, InitInv
<1>2. TypeOK /\ Inv /\ [Next]_vars => (TypeOK /\ Inv)'
  BY NextType, NextInv
<1> QED
  BY <1>1, <1>2, PTL DEF Spec

\* Whatever the interleaving of interrupts, creations, reaps, execs and exits, the
\* task that runs has its own page directory in CR3 and its own stack in TSS.esp0.
THEOREM ContextSafety == Spec => []RunsInOwnContext
  BY TypeCorrect, InvAlways, InvSuffices, PTL

\* No page directory, kernel stack or saved frame in use has been freed.
THEOREM NoUseAfterFree == Spec => []NoDanglingContext
  BY TypeCorrect, InvAlways, InvSuffices, PTL

\* No two suspended tasks share the kernel stack their frames lie on.
THEOREM FramesApart == Spec => []SavedFramesApart
  BY TypeCorrect, InvAlways, InvSuffices, PTL

\* Every page directory handed out has exactly one owner.
THEOREM DirsConserved == Spec => []DirsAccounted
  BY TypeCorrect, InvAlways, InvSuffices, PTL
=============================================================================
