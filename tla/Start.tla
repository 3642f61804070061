------------------------------- MODULE Start -------------------------------
(***************************************************************************)
(* The kernel from its entry to the first process: cstart(), initProtect() *)
(* and kernel_main(), which set up what modules Sched and Ipc begin with.  *)
(* Interrupts are off all the time.                                        *)
(***************************************************************************)
EXTENDS Boot

CONSTANTS
  NR_TASK,
  NR_PROCESS,
  StackSize      \* StackSize[p] in taskTable and userProcessTable

Procs == 0 .. NR_TASK + NR_PROCESS - 1

INDEX_FLAT_RW      == 1
INDEX_FLAT_C       == 2
INDEX_TSS          == 4
INDEX_LDT_FIRST    == 5
SELECTOR_LDT_FIRST == 40
GDT_SIZE           == 128
Irqs               == 0 .. 15
INT_VECTOR_IRQ0    == 32
INT_VECTOR_IRQ8    == 40
INT_VECTOR_SYSCALL == 144
CLOCK_IRQ          == 0
ANY                == NR_TASK + NR_PROCESS + 10
NO_TASK            == NR_TASK + NR_PROCESS + 20
NULL               == "NULL"

ASSUME StartAssumption ==
  /\ NR_TASK \in Nat /\ NR_PROCESS \in Nat /\ NR_TASK + NR_PROCESS > 0
  /\ INDEX_LDT_FIRST + NR_TASK + NR_PROCESS <= GDT_SIZE
  /\ StackSize \in [Procs -> Nat \ {0}]

VARIABLES
  gdt,           \* what the descriptors in use describe
  procTable,     \* the entries kernel_main() has written
  stack,         \* p_task_stack, from the start of taskStack
  idt,           \* the gates: [to, dpl]
  firstVector,   \* the vectors the two 8259A give to IRQ 0 and IRQ 8
  masked,        \* the IRQs that are masked in them
  irqTable,
  k_reenter, no_schedule, p_proc_ready

chips == <<idt, firstVector, masked, irqTable>>
kernelVars == <<gdt, procTable, stack, chips, k_reenter, no_schedule, p_proc_ready>>
vars == <<bootVars, kernelVars>>

(* What the stacks of the first p processes take together.                 *)
StacksBefore[p \in 0 .. NR_TASK + NR_PROCESS] ==
  IF p = 0 THEN 0 ELSE StacksBefore[p - 1] + StackSize[p - 1]

(* STACK_SIZE_TOTAL                                                        *)
StackTotal == StacksBefore[NR_TASK + NR_PROCESS]

(* The descriptors of setup.asm, which the memory of the kernel follows.   *)
LoaderGdt ==
  [i \in 0 .. 3 |-> CASE i = 0 -> <<"null">>
                     [] i = INDEX_FLAT_RW -> <<"flat data">>
                     [] i = INDEX_FLAT_C -> <<"flat code">>
                     [] i = 3 -> <<"video">>]

Init ==
  /\ BootInit
  /\ gdt = <<>>
  /\ procTable = <<>>
  /\ stack = 0
  /\ idt = <<>> /\ firstVector = <<8, 112>>    \* as the BIOS has set them
  /\ masked = {} /\ irqTable = <<>>
  /\ k_reenter = 0 /\ no_schedule = FALSE /\ p_proc_ready = 0

Ldt(p) == <<"ldt", p>>

(* cstart(): MemCopy of the loader's descriptors to gdt.                   *)
CStart ==
  /\ pc = "kernel"
  /\ gdt' = LoaderGdt
  /\ pc' = "protect"
  /\ UNCHANGED <<n, es, bx, mem, failed, memInfo, segNumber, memSize, tables>>
  /\ UNCHANGED <<procTable, stack, chips, k_reenter, no_schedule, p_proc_ready>>

(* Mutant: init8259A() leaves the keyboard on.                             *)
MaskedButKeyboard == Irqs \ {1}

(* init8259A() masks every interrupt (0FFh to both controllers).           *)
MaskedAtFirst == Irqs

Gate(to, dpl) == [to |-> to, dpl |-> dpl]

(* The gates of initIdtDescriptor(): breakpoint, overflow and the system   *)
(* call may be raised by ring 3.                                           *)
Gates ==
  LET ExceptionVectors == (0 .. 14) \cup {16}
      MasterVectors    == INT_VECTOR_IRQ0 .. INT_VECTOR_IRQ0 + 7
      SlaveVectors     == INT_VECTOR_IRQ8 .. INT_VECTOR_IRQ8 + 7
  IN  [vec \in ExceptionVectors \cup MasterVectors \cup SlaveVectors \cup {INT_VECTOR_SYSCALL} |->
         CASE vec \in ExceptionVectors -> Gate(<<"exception", vec>>, IF vec \in {3, 4} THEN 3 ELSE 0)
           [] vec \in MasterVectors    -> Gate(<<"hwint", vec - INT_VECTOR_IRQ0>>, 0)
           [] vec \in SlaveVectors     -> Gate(<<"hwint", 8 + vec - INT_VECTOR_IRQ8>>, 0)
           [] vec = INT_VECTOR_SYSCALL -> Gate(<<"sys_Call">>, 3)]

(* The descriptors of initProtect(): the TSS and an LDT for each process.  *)
ProtectGdt ==
  [i \in {INDEX_TSS} \cup (INDEX_LDT_FIRST .. INDEX_LDT_FIRST + NR_TASK + NR_PROCESS - 1) |->
     IF i = INDEX_TSS THEN <<"tss">> ELSE Ldt(i - INDEX_LDT_FIRST)]

(* initProtect(): init8259A(), the gates, the TSS, and an LDT for each     *)
(* process.                                                                *)
InitProtect ==
  /\ pc = "protect"
  /\ firstVector' = <<INT_VECTOR_IRQ0, INT_VECTOR_IRQ8>>
  /\ masked' = MaskedAtFirst
  /\ idt' = Gates
  /\ irqTable' = [irq \in Irqs |-> "spuriousIrq"]
  /\ gdt' = Over(ProtectGdt, gdt)
  /\ stack' = StackTotal
  /\ pc' = "main"
  /\ UNCHANGED <<n, es, bx, mem, failed, memInfo, segNumber, memSize, tables>>
  /\ UNCHANGED <<procTable, k_reenter, no_schedule, p_proc_ready>>

(* Mutant: the selector of the first LDT is one descriptor too low.        *)
SelectorFromTss(i) == SELECTOR_LDT_FIRST - 8 + 8 * i

LdtSel(i) == SELECTOR_LDT_FIRST + 8 * i

Prio(i)      == IF i < NR_TASK THEN 15 ELSE 5
Privilege(i) == IF i < NR_TASK THEN 1 ELSE 3

(* The entry of process i: its LDT holds copies of the kernel's flat       *)
(* segments with the privilege of the process.                             *)
Pcb(i, esp) ==
  [ldtSel |-> LdtSel(i), ldt |-> <<gdt[INDEX_FLAT_C], gdt[INDEX_FLAT_RW]>>,
   dpl |-> Privilege(i), rpl |-> Privilege(i), esp |-> esp,
   p_flags |-> {}, p_msg |-> NULL, p_recvfrom |-> NO_TASK, p_sendto |-> NO_TASK,
   q_sending |-> NULL, next_sending |-> NULL,
   ticks |-> Prio(i), priority |-> Prio(i), nr_tty |-> 0]

(* One turn of the loop of kernel_main().                                  *)
MakeProcess ==
  /\ pc = "main" /\ n < NR_TASK + NR_PROCESS
  /\ procTable' = Over([p \in {n} |-> Pcb(n, stack)], procTable)
  /\ stack' = stack - StackSize[n]
  /\ n' = n + 1
  /\ UNCHANGED <<pc, es, bx, mem, failed, memInfo, segNumber, memSize, tables>>
  /\ UNCHANGED <<gdt, chips, k_reenter, no_schedule, p_proc_ready>>

(* The bit of an IRQ in the mask of its 8259A.                             *)
disableIRQ(mask, irq) == mask \cup {irq}
enableIRQ(mask, irq)  == mask \ {irq}

(* setIrqHandler(), which masks the line, and enableIRQ().                 *)
init8253 ==
  /\ irqTable' = [irqTable EXCEPT ![CLOCK_IRQ] = "clockHandler"]
  /\ masked' = enableIRQ(disableIRQ(masked, CLOCK_IRQ), CLOCK_IRQ)
  /\ UNCHANGED <<idt, firstVector>>

Terminal(p) == IF p \in {NR_TASK + 1, NR_TASK + 2} THEN 1 ELSE 0

(* The rest of kernel_main(), init8253() included, up to the iretd of      *)
(* restart().                                                              *)
Restart ==
  /\ pc = "main" /\ n = NR_TASK + NR_PROCESS
  /\ procTable' = [p \in Procs |->
       [procTable[p] EXCEPT !.nr_tty = Terminal(p)]]
  /\ init8253
  /\ no_schedule' = TRUE
  /\ p_proc_ready' = 0
  /\ k_reenter' = 0 - 1
  /\ pc' = "running"
  /\ UNCHANGED <<n, es, bx, mem, failed, memInfo, segNumber, memSize, tables>>
  /\ UNCHANGED <<gdt, stack>>

Next ==
  \/ BootNext /\ UNCHANGED kernelVars
  \/ CStart \/ InitProtect \/ MakeProcess \/ Restart

Spec == Init /\ [][Next]_vars

-----------------------------------------------------------------------------
(* Properties                                                              *)

(* restart loads the LDT of the process it starts, with the privilege of   *)
(* the process, and no two processes share any of taskStack, although the  *)
(* descriptors are made in one file and the selectors, the stacks and the  *)
(* rest of the entries in another.                                         *)
StackOf(p) == procTable[p].esp - StackSize[p] .. procTable[p].esp - 1

OwnSegments ==
  pc = "running" =>
    \A p \in Procs :
      /\ procTable[p].ldtSel % 8 = 0
      /\ gdt[procTable[p].ldtSel \div 8] = Ldt(p)
      /\ procTable[p].dpl = procTable[p].rpl
      /\ procTable[p].ldt = <<LoaderGdt[INDEX_FLAT_C], LoaderGdt[INDEX_FLAT_RW]>>
      /\ StackOf(p) \subseteq 0 .. StackTotal - 1
      /\ \A q \in Procs \ {p} : StackOf(p) \cap StackOf(q) = {}

(* What kernel_main() hands over is what Sched and Ipc begin with, and the *)
(* only interrupt that can come arrives, through the vectors the 8259A     *)
(* were given, at the entry of its own line, which finds a handler; and a  *)
(* process can raise the system call, a breakpoint and an overflow, and no *)
(* other interrupt.                                                        *)
S == INSTANCE Sched WITH
  NProcs <- NR_TASK + NR_PROCESS,
  Priority <- [p \in Procs |-> Prio(p)],
  Irqs <- {"clock"}, MaxNested <- 0,
  ticks <- [p \in Procs |-> procTable[p].ticks],
  blocked <- [p \in Procs |-> procTable[p].p_flags # {}],
  masked <- masked \cap {CLOCK_IRQ}, frames <- <<>>, nested <- 0

I == INSTANCE Ipc WITH
  FirstProc <- 0, Callers <- Procs \ {0}, Bodies <- {0}, Zero <- 0,
  p_flags      <- [p \in Procs |-> procTable[p].p_flags],
  p_sendto     <- [p \in Procs |-> procTable[p].p_sendto],
  p_recvfrom   <- [p \in Procs |-> procTable[p].p_recvfrom],
  p_msg        <- [p \in Procs |-> procTable[p].p_msg],
  q_sending    <- [p \in Procs |-> procTable[p].q_sending],
  next_sending <- [p \in Procs |-> procTable[p].next_sending],
  buf          <- [p \in Procs |-> [source |-> 0, body |-> 0]],
  cpu          <- "run"

HandsOver ==
  pc = "running" =>
    /\ S!Init
    /\ I!Init
    /\ \A irq \in Irqs \ masked : irqTable[irq] # "spuriousIrq"
    /\ \A irq \in Irqs :
         LET vec == firstVector[irq \div 8 + 1] + (irq % 8) IN
           vec \in DOMAIN idt /\ idt[vec] = Gate(<<"hwint", irq>>, 0)
    /\ \A vec \in DOMAIN idt :
         idt[vec].dpl = 3 => idt[vec].to \in {<<"sys_Call">>, <<"exception", 3>>, <<"exception", 4>>}

-----------------------------------------------------------------------------
(* The inductive invariant: what each function of the start finds done by  *)
(* the ones before it.                                                     *)
StackBase(p) == StackTotal - StacksBefore[p]

TablesInv ==
  /\ pc \in {"kernel", "protect"} => n = 0
  /\ pc = "protect" => gdt = LoaderGdt
  /\ pc \in {"main", "running"} =>
       /\ gdt = Over(ProtectGdt, LoaderGdt)
       /\ idt = Gates
       /\ firstVector = <<INT_VECTOR_IRQ0, INT_VECTOR_IRQ8>>

ProcessesInv ==
  /\ pc \notin {"main", "running"} => procTable = <<>>
  /\ pc = "main" =>
       /\ masked = Irqs
       /\ irqTable = [irq \in Irqs |-> "spuriousIrq"]
       /\ n <= NR_TASK + NR_PROCESS
       /\ stack = StackBase(n)
       /\ DOMAIN procTable = 0 .. n - 1
       /\ \A p \in 0 .. n - 1 : procTable[p] = Pcb(p, StackBase(p))
  /\ pc = "running" =>
       /\ masked = Irqs \ {CLOCK_IRQ}
       /\ irqTable = [irq \in Irqs |-> IF irq = CLOCK_IRQ THEN "clockHandler" ELSE "spuriousIrq"]
       /\ \A p \in Procs : procTable[p] = [Pcb(p, StackBase(p)) EXCEPT !.nr_tty = Terminal(p)]
       /\ no_schedule = TRUE /\ p_proc_ready = 0 /\ k_reenter = 0 - 1

StartInv == BootInv /\ TablesInv /\ ProcessesInv
=============================================================================
