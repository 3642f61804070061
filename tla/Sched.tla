------------------------------- MODULE Sched -------------------------------
(***************************************************************************)
(* Entering and leaving the kernel (save, restart, hwint_master, sys_Call) *)
(* and what shares the scheduling state while it is inside: clockHandler() *)
(* and schedule(), which both run with interrupts on.                      *)
(*                                                                         *)
(* The kernel stack is the sequence frames, its last element running.  An  *)
(* entry up to its sti, and an exit from its cli, cannot be interrupted    *)
(* and are single steps.  Between them the kernel is interrupted anywhere. *)
(*                                                                         *)
(* ticks of a PCB is only ever compared with 0 or with a positive number,  *)
(* so every value below 1 is represented by 0.                             *)
(***************************************************************************)
EXTENDS Integers, Sequences, SequencesExt

CONSTANTS
  NProcs,      \* NR_TASK + NR_PROCESS
  Priority,    \* Priority[p], the ticks p gets when it is refilled
  Irqs,        \* the interrupts that occur: "clock", "keyboard"
  MaxNested    \* clock interrupts that fall into one stay in the kernel

Procs == 0 .. NProcs - 1

ASSUME SchedAssumption ==
  /\ NProcs \in Nat \ {0}
  /\ Priority \in [Procs -> Nat \ {0}]
  /\ Irqs \subseteq {"clock", "keyboard"}
  /\ MaxNested \in Nat

VARIABLES
  ticks,         \* ticks[p] in the PCB of p
  blocked,       \* blocked[p]: p_flags of p is not 0
  p_proc_ready,
  no_schedule,
  k_reenter,
  masked,        \* the IRQs hwint_master has masked in the 8259A
  frames,        \* the kernel stack
  nested         \* clock interrupts since user mode (bounded by MaxNested)

vars == <<ticks, blocked, p_proc_ready, no_schedule, k_reenter, masked, frames, nested>>

(* A frame: what entered the kernel, where it is, the process that was     *)
(* running, the PCB pointer sys_Call pushes, and p and greatestTick of     *)
(* schedule().                                                             *)
Frame(kind, pc) ==
  [kind |-> kind, pc |-> pc, from |-> p_proc_ready, pcb |-> NProcs, p |-> 0, greatest |-> 0]

Top      == Last(frames)
Running(pc) == frames # <<>> /\ Top.pc = pc
UserMode == frames = <<>>

(* The running frame continues at pc, after the changes of its locals.     *)
Goto(pc)       == frames' = Front(frames) \o <<[Top EXCEPT !.pc = pc]>>
GotoWith(f)    == frames' = Front(frames) \o <<f>>

InSchedule(f) == f.pc \in {"schedule", "compare", "take", "refill"}

(* Where a frame may be, by what entered the kernel.                       *)
Places == [syscall  |-> {"entered", "service", "schedule", "compare", "take", "refill", "return"},
           clock    |-> {"count", "test", "schedule", "compare", "take", "refill", "return"},
           keyboard |-> {"handler", "return"}]

Frames == [kind : {"syscall"} \cup Irqs, pc : UNION {Places[k] : k \in DOMAIN Places},
           from : Procs, pcb : 0 .. NProcs, p : 0 .. NProcs, greatest : Nat]

TypeOK ==
  /\ ticks \in [Procs -> Nat]
  /\ blocked \in [Procs -> BOOLEAN]
  /\ p_proc_ready \in Procs
  /\ no_schedule \in BOOLEAN
  /\ k_reenter \in Int
  /\ masked \subseteq Irqs
  /\ nested \in Nat
  /\ frames \in Seq(Frames)

(* kernel_main() up to the iretd of its restart().                         *)
Init ==
  /\ ticks = Priority
  /\ blocked = [p \in Procs |-> FALSE]
  /\ p_proc_ready = 0
  /\ no_schedule = TRUE
  /\ k_reenter = -1
  /\ masked = {}
  /\ frames = <<>>
  /\ nested = 0

-----------------------------------------------------------------------------
(* Entry and exit                                                          *)

(* int 90h: sys_Call up to its sti.                                        *)
Trap ==
  /\ UserMode
  /\ frames' = <<Frame("syscall", "entered")>>
  /\ k_reenter' = k_reenter + 1
  /\ UNCHANGED <<ticks, blocked, p_proc_ready, no_schedule, masked, nested>>

(* Mutant: hwint_master does not mask the interrupt it handles.            *)
MaskingNothing(irq) == UNCHANGED masked

Masking(irq) == masked' = masked \cup {irq}

(* hwint_master up to its sti.                                             *)
Interrupt(irq) ==
  /\ irq \in Irqs \ masked
  /\ irq = "clock" => nested < MaxNested
  /\ Masking(irq)
  /\ frames' = Append(frames, Frame(irq, IF irq = "clock" THEN "count" ELSE "handler"))
  /\ k_reenter' = k_reenter + 1
  /\ nested' = IF irq = "clock" THEN nested + 1 ELSE nested
  /\ UNCHANGED <<ticks, blocked, p_proc_ready, no_schedule>>

(* From cli to the iretd of restart or restart_reenter.                    *)
Return ==
  /\ Running("return")
  /\ frames' = Front(frames)
  /\ masked' = masked \ {Top.kind}
  /\ k_reenter' = k_reenter - 1
  /\ nested' = IF Len(frames) = 1 THEN 0 ELSE nested
  /\ UNCHANGED <<ticks, blocked, p_proc_ready, no_schedule>>

-----------------------------------------------------------------------------
(* System calls and interrupt handlers                                     *)

(* push dword [p_proc_ready], the argument p of the system call.           *)
PushPcb ==
  /\ Running("entered")
  /\ GotoWith([Top EXCEPT !.pc = "service", !.pcb = p_proc_ready])
  /\ UNCHANGED <<ticks, blocked, p_proc_ready, no_schedule, k_reenter, masked, nested>>

(* A system call that ends without blocking its caller: it may have        *)
(* unblocked a process (msg_send() or msg_receive() of Ipc, or sys_printx).*)
Serve ==
  /\ Running("service")
  /\ Goto("return")
  /\ \/ UNCHANGED blocked
     \/ \E q \in Procs : blocked[q] /\ blocked' = [blocked EXCEPT ![q] = FALSE]
  /\ UNCHANGED <<ticks, p_proc_ready, no_schedule, k_reenter, masked, nested>>

(* A system call that blocks its caller: block() calls schedule().  taskTTY *)
(* (process 0) never sends or receives.                                    *)
Block ==
  /\ Running("service")
  /\ Top.pcb # 0
  /\ blocked' = [blocked EXCEPT ![Top.pcb] = TRUE]
  /\ Goto("schedule")
  /\ UNCHANGED <<ticks, p_proc_ready, no_schedule, k_reenter, masked, nested>>

(* keyboardHandler() touches nothing of this module.                       *)
Handler ==
  /\ Running("handler")
  /\ Goto("return")
  /\ UNCHANGED <<ticks, blocked, p_proc_ready, no_schedule, k_reenter, masked, nested>>

(* clockHandler(): p_proc_ready->ticks--.                                  *)
Count ==
  /\ Running("count")
  /\ ticks' = [ticks EXCEPT ![p_proc_ready] = IF @ > 0 THEN @ - 1 ELSE 0]
  /\ Goto("test")
  /\ UNCHANGED <<blocked, p_proc_ready, no_schedule, k_reenter, masked, nested>>

(* Mutant: clockHandler() does not look at k_reenter.                      *)
PreemptsKernel == ticks[p_proc_ready] = 0

(* clockHandler() goes on to schedule().                                   *)
Preempts == k_reenter = 0 /\ ticks[p_proc_ready] = 0

Test ==
  /\ Running("test")
  /\ Goto(IF Preempts THEN "schedule" ELSE "return")
  /\ UNCHANGED <<ticks, blocked, p_proc_ready, no_schedule, k_reenter, masked, nested>>

-----------------------------------------------------------------------------
(* schedule()                                                              *)

Schedule ==
  /\ Running("schedule")
  /\ IF no_schedule
     THEN no_schedule' = FALSE /\ Goto("return")
     ELSE /\ GotoWith([Top EXCEPT !.pc = "compare", !.p = 0, !.greatest = 0])
          /\ UNCHANGED no_schedule
  /\ UNCHANGED <<ticks, blocked, p_proc_ready, k_reenter, masked, nested>>

(* Mutant: blocked processes are candidates too.                           *)
BetterThoughBlocked(p, greatest) == ticks[p] > greatest

(* Mutant: any process with ticks left replaces the best so far.           *)
BetterIfAnyTicks(p, greatest) == ~blocked[p] /\ ticks[p] > 0

Better(p, greatest) == ~blocked[p] /\ ticks[p] > greatest

(* One turn of the for loop, and what follows it.                          *)
Compare ==
  /\ Running("compare")
  /\ IF Top.p < NProcs
     THEN IF Better(Top.p, Top.greatest)
          THEN Goto("take")
          ELSE GotoWith([Top EXCEPT !.p = @ + 1])
     ELSE IF Top.greatest = 0
          THEN GotoWith([Top EXCEPT !.pc = "refill", !.p = 0])
          ELSE Goto("return")
  /\ UNCHANGED <<ticks, blocked, p_proc_ready, no_schedule, k_reenter, masked, nested>>

(* greatestTick = p->ticks; p_proc_ready = p.                              *)
Take ==
  /\ Running("take")
  /\ GotoWith([Top EXCEPT !.pc = "compare", !.greatest = ticks[Top.p], !.p = @ + 1])
  /\ p_proc_ready' = Top.p
  /\ UNCHANGED <<ticks, blocked, no_schedule, k_reenter, masked, nested>>

(* Mutant: only the first process is refilled.                             *)
RefilledFirst(p) == IF blocked[p] \/ p # 0 THEN ticks ELSE [ticks EXCEPT ![p] = Priority[p]]

Refilled(p) == IF blocked[p] THEN ticks ELSE [ticks EXCEPT ![p] = Priority[p]]

Refill ==
  /\ Running("refill")
  /\ IF Top.p < NProcs
     THEN /\ ticks' = Refilled(Top.p)
          /\ GotoWith([Top EXCEPT !.p = @ + 1])
     ELSE /\ GotoWith([Top EXCEPT !.pc = "compare", !.p = 0])
          /\ UNCHANGED ticks
  /\ UNCHANGED <<blocked, p_proc_ready, no_schedule, k_reenter, masked, nested>>

-----------------------------------------------------------------------------
KernelStep ==
  \/ Return \/ PushPcb \/ Serve \/ Block \/ Handler \/ Count \/ Test
  \/ Schedule \/ Compare \/ Take \/ Refill

Next == Trap \/ (\E irq \in Irqs : Interrupt(irq)) \/ KernelStep

(* The kernel always goes on with its innermost frame, also between two    *)
(* keyboard interrupts; and the clock, which never stops, does not forever *)
(* miss the moments at which the processor is in user mode.                *)
Fairness ==
  /\ \A kind \in {"syscall"} \cup Irqs :
       SF_vars(~UserMode /\ Top.kind = kind /\ KernelStep)
  /\ SF_vars(UserMode /\ Interrupt("clock"))

Spec     == Init /\ [][Next]_vars
FairSpec == Spec /\ Fairness

-----------------------------------------------------------------------------
(* Properties                                                              *)

(* schedule() is never entered while an interrupted schedule() is still on *)
(* the kernel stack, although it runs with interrupts on and is called     *)
(* from the clock and from block().                                        *)
OneScheduler ==
  \A i, j \in DOMAIN frames :
    (InSchedule(frames[i]) /\ InSchedule(frames[j])) => i = j

(* sys_Call hands the system call the PCB of the process that trapped, and *)
(* p_proc_ready still names it whenever the call looks at it, however many *)
(* clock interrupts came since.                                            *)
CallerKept ==
  \A i \in DOMAIN frames :
    /\ frames[i].pc = "entered" => p_proc_ready = frames[i].from
    /\ frames[i].pc = "service" => p_proc_ready = frames[i].pcb /\ frames[i].pcb = frames[i].from

(* The kernel stack holds one system call and one frame of each interrupt  *)
(* at most, and k_reenter counts them: the depth of the stack is bounded.  *)
StackBounded ==
  /\ k_reenter = Len(frames) - 1
  /\ \A i, j \in DOMAIN frames : frames[i].kind = frames[j].kind => i = j
  /\ \A i \in DOMAIN frames : frames[i].kind = "syscall" => i = 1

(* When restart is about to load it, p_proc_ready is not blocked: neither  *)
(* block() nor the first call of schedule() leaves a blocked process there.*)
ReadyToRun ==
  (UserMode \/ (Len(frames) = 1 /\ Top.pc = "return")) => ~blocked[p_proc_ready]

(* What the clock interrupt chose, it chose as documented: the first of    *)
(* those with the most ticks, or the process that got the first tick of    *)
(* all, when no_schedule was still on.                                     *)
FirstGreatest(p) ==
  /\ ~blocked[p] /\ ticks[p] > 0
  /\ \A q \in Procs : ~blocked[q] =>
       ticks[q] <= ticks[p] /\ (q < p => ticks[q] < ticks[p])

GreatestChosen ==
  [][(Running("compare") /\ Top.kind = "clock" /\ Running("return")')
       => FirstGreatest(p_proc_ready)]_vars

(* Nobody starves: a process that is not blocked is eventually given the   *)
(* processor, whatever the others do, unless it is inside the system call  *)
(* that blocks it.                                                         *)
NoStarvation ==
  \A p \in Procs : (~blocked[p]) ~> (blocked[p] \/ (UserMode /\ p_proc_ready = p))

-----------------------------------------------------------------------------
(* The inductive invariant behind the safety properties                    *)

(* schedule() runs in the outermost frame only: what nests into it finds   *)
(* k_reenter above 0.  The frames are where their code can be, and a line  *)
(* is masked exactly as long as its frame is on the stack.                 *)
FramesInv ==
  /\ \A i \in DOMAIN frames :
       /\ frames[i].pc \in Places[frames[i].kind]
       /\ InSchedule(frames[i]) => i = 1
       /\ frames[i].pc = "take" => frames[i].p < NProcs
  /\ \A irq \in Irqs : irq \in masked <=> \E i \in DOMAIN frames : frames[i].kind = irq

(* The first call of schedule() does not choose, which is right because    *)
(* process 0 is still running.                                             *)
FirstRun ==
  /\ ~blocked[0]
  /\ no_schedule => p_proc_ready = 0
  /\ \A i \in DOMAIN frames : frames[i].pc \in {"compare", "take", "refill"} => ~no_schedule

(* Whom p_proc_ready names may be blocked only from Block to the first     *)
(* Take.                                                                   *)
Resumable ==
  /\ UserMode \/ ~InSchedule(frames[1]) => ~blocked[p_proc_ready]
  /\ ~UserMode =>
       /\ frames[1].pc = "take" => ~blocked[frames[1].p]
       /\ frames[1].pc \in {"compare", "take", "refill"} /\ frames[1].greatest > 0
            => ~blocked[p_proc_ready]

(* What the clock's schedule() has found among the processes before p.     *)
Best(f) ==
  IF f.greatest = 0
  THEN \A q \in Procs : q < f.p /\ ~blocked[q] => ticks[q] = 0
  ELSE /\ p_proc_ready < f.p
       /\ ticks[p_proc_ready] = f.greatest
       /\ \A q \in Procs : q < f.p /\ ~blocked[q] =>
            ticks[q] <= f.greatest /\ (q < p_proc_ready => ticks[q] < f.greatest)

Scanning ==
  ~UserMode /\ frames[1].kind = "clock" =>
    /\ frames[1].pc \in {"compare", "take"} => Best(frames[1])
    /\ frames[1].pc = "take" => ticks[frames[1].p] > frames[1].greatest
    /\ frames[1].pc = "refill" => frames[1].greatest = 0

IInv == TypeOK /\ StackBounded /\ FramesInv /\ CallerKept /\ FirstRun /\ Resumable /\ Scanning
=============================================================================
