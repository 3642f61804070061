------------------------------ MODULE Failure ------------------------------
(***************************************************************************)
(* What the system does when something fails: panic(), a failed assert(),  *)
(* a CPU exception.  All end in printf(), in the trap printx and in        *)
(* sys_printx(), in the ring of a process as in the kernel; between any    *)
(* two steps the clock may give the processor to another process, but not  *)
(* while the kernel is entered.                                            *)
(*                                                                         *)
(* Which process schedule() picks, and that it picks each of them again,   *)
(* is Sched; which PCB sys_Call passes is Sched's CallerKept.  va2la() is  *)
(* the identity, because the segments start at 0 (OwnSegments of Start).   *)
(***************************************************************************)
EXTENDS Format, SequencesExt

CONSTANTS
  NProcs,       \* NR_TASK + NR_PROCESS
  NTasks,       \* NR_TASK
  TtyOf,        \* TtyOf[p]: nr_tty of p
  Calls,        \* Calls[p]: the formats and arguments with which p calls printf()
  Tails,        \* what may follow the buffer of panic() in memory up to a 0
  Vectors,      \* the exceptions that occur
  BufLen        \* the size of buf in printf(): 256

Procs == 0 .. NProcs - 1

(* The characters that printx looks for.                                   *)
MAG_CH_PANIC  == 2
MAG_CH_ASSERT == 3
Magic == {MAG_CH_PANIC, MAG_CH_ASSERT}

(* The exceptions for which the CPU pushes an error code.                  *)
WithCode == {8, 10, 11, 12, 13, 14}
NoCode   == -1
Codes    == {2}

ASSUME FailureAssumption ==
  /\ NProcs \in Nat \ {0}
  /\ NTasks \in 0 .. NProcs
  /\ TtyOf \in [Procs -> Nat]
  /\ DOMAIN Calls = Procs
  /\ \A p \in Procs : \A call \in Calls[p] : call.fmt \in Seq(Parts) /\ Fits(call.fmt, call.args)
  /\ Tails \subseteq Seq(Byte)
  /\ Vectors \subseteq (0 .. 14) \cup {16}
  /\ BufLen \in Nat \ {0}

VARIABLES
  proc,          \* proc[p]: what the code of p is doing in its own ring
  frames,        \* the kernel stack: a system call, and a printx made in it
  p_proc_ready,
  k_reenter,
  out,           \* what the running printx has given to outChar()
  machine,       \* "running", halted by the hlt of "printx" or "exception", or
                 \* "overrun": a text was too long, and what happens is open
  report         \* what exception_handler() shows, and what had happened

vars == <<proc, frames, p_proc_ready, k_reenter, out, machine, report>>

(* What code is doing: its own work ("code"), a printf with what follows   *)
(* it ("print"), the call of spin(), its loop, or ud2.                     *)
At(pc)                  == [pc |-> pc, fmt |-> <<>>, args |-> <<>>, after |-> pc]
Prints(fmt, args, after) == [pc |-> "print", fmt |-> fmt, args |-> args, after |-> after]

(* printf("\n%c  assert(%s) failed: ...", MAG_CH_ASSERT, ...).  The        *)
(* wording is left out, here and below.                                    *)
AssertionFailure == Prints(<<Lit(10), Directive("c"), Directive("s")>>,
                           <<MAG_CH_ASSERT, <<65>> >>, "spin()")

(* Mutant: the panic message begins like that of an assertion.             *)
PanickingOnNewLine(tail) ==
  Prints(<<Lit(10), Directive("c"), Directive("s")>>, <<MAG_CH_PANIC, <<80>> \o tail>>, "ud2")

(* printf("%c !!panic!! %s", MAG_CH_PANIC, buf): panic() does not write    *)
(* the 0 behind what vsprintf() left in buf.                               *)
Panicking(tail) == Prints(<<Directive("c"), Directive("s")>>,
                          <<MAG_CH_PANIC, <<80>> \o tail>>, "ud2")

(* printf("\nspinning in %s ...\n", func_name).                            *)
Spinning == Prints(<<Lit(10), Directive("s")>>, << <<83>> >>, "spin")

Init ==
  /\ proc = [p \in Procs |-> At("code")]
  /\ frames = <<>>
  /\ p_proc_ready = 0
  /\ k_reenter = -1
  /\ out = <<>>
  /\ machine = "running"
  /\ report = <<>>

Top      == Last(frames)
Running  == machine = "running"
UserMode == Running /\ frames = <<>>
InKernel(kind) == Running /\ frames # <<>> /\ Top.kind = kind

-----------------------------------------------------------------------------
(* What code does when it fails, as a relation between what it is doing    *)
(* before (c) and after (d).                                               *)
Fails(c, d) ==
  \/ c.pc = "code" /\ d = AssertionFailure
  \/ c.pc = "code" /\ \E tail \in Tails : d = Panicking(tail)

CallsSpin(c, d) == c.pc = "spin()" /\ d = Spinning

(* What c prints fits into the buffers of printf(), with the 0 behind it.  *)
Prepared(c) == InBounds(c.fmt, c.args, BufLen - 1)

(* printx, up to sys_printx().                                             *)
PrintxFrame(c) ==
  [kind |-> "printx", pc |-> "test", code |-> c, pcb |-> p_proc_ready,
   text |-> vsprintf(c.fmt, c.args), pos |-> 1]

(* Process p, in its own ring.                                             *)
ProcessWorks(p) ==
  /\ UserMode /\ p_proc_ready = p
  /\ \/ \E call \in Calls[p] :
          proc[p].pc = "code" /\ proc' = [proc EXCEPT ![p] = Prints(call.fmt, call.args, "code")]
     \/ \E d \in {AssertionFailure, Spinning} \cup {Panicking(tail) : tail \in Tails} :
          (Fails(proc[p], d) \/ CallsSpin(proc[p], d)) /\ proc' = [proc EXCEPT ![p] = d]
  /\ UNCHANGED <<frames, p_proc_ready, k_reenter, out, machine, report>>

ProcessTraps(p) ==
  /\ UserMode /\ p_proc_ready = p
  /\ proc[p].pc = "print" /\ Prepared(proc[p])
  /\ frames' = <<PrintxFrame(proc[p])>>
  /\ proc' = [proc EXCEPT ![p] = At(@.after)]
  /\ k_reenter' = k_reenter + 1
  /\ UNCHANGED <<p_proc_ready, out, machine, report>>

(* The text of p goes over the end of a buffer: over the frame of printf() *)
(* and what is above it.  That is undefined, and the model ends here.      *)
ProcessOverruns(p) ==
  /\ UserMode /\ p_proc_ready = p
  /\ proc[p].pc = "print" /\ ~Prepared(proc[p])
  /\ machine' = "overrun"
  /\ UNCHANGED <<proc, frames, p_proc_ready, k_reenter, out, report>>

(* sendrec: sys_sendrec() asserts and panics in the kernel.                *)
Sendrec(p) ==
  /\ UserMode /\ p_proc_ready = p
  /\ proc[p].pc = "code"
  /\ frames' = <<[kind |-> "sendrec", code |-> At("code")]>>
  /\ k_reenter' = k_reenter + 1
  /\ UNCHANGED <<proc, p_proc_ready, out, machine, report>>

KernelWorks ==
  /\ InKernel("sendrec")
  /\ \E d \in {AssertionFailure, Spinning} \cup {Panicking(tail) : tail \in Tails} :
       /\ Fails(Top.code, d) \/ CallsSpin(Top.code, d)
       /\ frames' = <<[Top EXCEPT !.code = d]>>
  /\ UNCHANGED <<proc, p_proc_ready, k_reenter, out, machine, report>>

(* printx in ring 0: an interrupt re-enters the kernel.                    *)
KernelTraps ==
  /\ InKernel("sendrec")
  /\ Top.code.pc = "print" /\ Prepared(Top.code)
  /\ frames' = <<[Top EXCEPT !.code = At(@.after)], PrintxFrame(Top.code)>>
  /\ k_reenter' = k_reenter + 1
  /\ UNCHANGED <<proc, p_proc_ready, out, machine, report>>

(* The same on the kernel stack.                                           *)
KernelOverruns ==
  /\ InKernel("sendrec")
  /\ Top.code.pc = "print" /\ ~Prepared(Top.code)
  /\ machine' = "overrun"
  /\ UNCHANGED <<proc, frames, p_proc_ready, k_reenter, out, report>>

SendrecReturns ==
  /\ InKernel("sendrec")
  /\ Top.code.pc = "code"
  /\ frames' = <<>>
  /\ k_reenter' = k_reenter - 1
  /\ UNCHANGED <<proc, p_proc_ready, out, machine, report>>

-----------------------------------------------------------------------------
(* sys_printx()                                                            *)

(* Mutant: a magic character halts wherever it stands.                     *)
HaltsAnywhere(text) == \E i \in DOMAIN text : text[i] \in Magic

(* Mutant: the panic character is looked for behind the first.             *)
HaltsOnSecond(text) == Len(text) > 1 /\ text[2] = MAG_CH_PANIC

Halts(text) ==
  /\ text # <<>>
  /\ \/ text[1] = MAG_CH_PANIC
     \/ text[1] = MAG_CH_ASSERT /\ p_proc_ready < NTasks

(* disableINT(), the red screen, hlt; or on to the loop.                   *)
Test ==
  /\ InKernel("printx") /\ Top.pc = "test"
  /\ IF Halts(Top.text)
     THEN machine' = "printx" /\ UNCHANGED <<frames, out>>
     ELSE /\ frames' = Front(frames) \o <<[Top EXCEPT !.pc = "loop"]>>
          /\ out' = <<>>
          /\ UNCHANGED machine
  /\ UNCHANGED <<proc, p_proc_ready, k_reenter, report>>

(* Mutant: the character before the magic one is lost with it.             *)
SkipsNewlines(ch) == ch \in Magic \cup {10}

IsSkipped(ch) == ch \in Magic

(* One turn of the loop; outChar() is Tty.                                 *)
PrintChar ==
  /\ InKernel("printx") /\ Top.pc = "loop"
  /\ Top.pos <= Len(Top.text)
  /\ LET ch == Top.text[Top.pos] IN
       out' = IF IsSkipped(ch) THEN out ELSE Append(out, <<TtyOf[Top.pcb], ch>>)
  /\ frames' = Front(frames) \o <<[Top EXCEPT !.pos = @ + 1]>>
  /\ UNCHANGED <<proc, p_proc_ready, k_reenter, machine, report>>

PrintxReturns ==
  /\ InKernel("printx") /\ Top.pc = "loop"
  /\ Top.pos > Len(Top.text)
  /\ frames' = Front(frames)
  /\ k_reenter' = k_reenter - 1
  /\ out' = <<>>
  /\ UNCHANGED <<proc, p_proc_ready, machine, report>>

-----------------------------------------------------------------------------
(* The clock, and exceptions                                               *)

(* clockHandler(): k_reenter counts the clock interrupt itself.            *)
Preempts == k_reenter + 1 = 0

(* The clock interrupt, after which q runs.                                *)
Tick(q) ==
  /\ Running /\ Preempts
  /\ q # p_proc_ready
  /\ p_proc_ready' = q
  /\ UNCHANGED <<proc, frames, k_reenter, out, machine, report>>

(* Mutant: double_fault is written like the stubs before it.               *)
StubPushingAlways(vec) == <<NoCode, vec>>

(* What the stub of vec pushes on what the CPU has pushed.                 *)
Stub(vec) == IF vec \in WithCode THEN <<vec>> ELSE <<NoCode, vec>>

(* Exception vec, in any code: the CPU pushes eflags, cs, eip (here their  *)
(* names) and its error code, the stub the rest; the arguments of          *)
(* exception_handler() are at the top of that stack.  Interrupts are off   *)
(* (an interrupt gate) at the hlt.                                         *)
Exception(vec) ==
  /\ Running /\ vec \in Vectors
  /\ \E code \in (IF vec \in WithCode THEN Codes ELSE {NoCode}) :
       LET stack == <<"eflags", "cs", "eip">>
                    \o (IF vec \in WithCode THEN <<code>> ELSE <<>>) \o Stub(vec)
       IN report' = [vec_no   |-> stack[Len(stack)],
                     err_code |-> stack[Len(stack) - 1],
                     eip      |-> stack[Len(stack) - 2],
                     cause    |-> <<vec, code>>]
  /\ machine' = "exception"
  /\ UNCHANGED <<proc, frames, p_proc_ready, k_reenter, out>>

-----------------------------------------------------------------------------
ProcessPrints(p) == ProcessTraps(p) \/ ProcessOverruns(p)
ProcessStep(p) == ProcessWorks(p) \/ ProcessPrints(p) \/ Sendrec(p)
KernelStep ==
  KernelWorks \/ KernelTraps \/ KernelOverruns \/ SendrecReturns \/ Test \/ PrintChar \/ PrintxReturns

Next ==
  \/ \E p \in Procs : ProcessStep(p)
  \/ KernelStep
  \/ \E q \in Procs : Tick(q)
  \/ \E vec \in Vectors : Exception(vec)

(* The kernel goes on; the clock comes again and again, and schedule()     *)
(* picks every process again and again (NoStarvation of Sched: here no     *)
(* process blocks); code that is in printf() or spin() goes on when it has *)
(* the processor, and nothing obliges it to fail.                          *)
Fairness ==
  /\ WF_vars(KernelStep)
  /\ \A p \in Procs : SF_vars(Tick(p)) /\ SF_vars(ProcessPrints(p) \/ (proc[p].pc = "spin()" /\ ProcessWorks(p)))

Spec     == Init /\ [][Next]_vars
FairSpec == Spec /\ Fairness
-----------------------------------------------------------------------------
(* Properties                                                              *)

KernelSpins == InKernel("sendrec") /\ Top.code.pc = "spin"
Stopped     == ~Running \/ KernelSpins

(* Code that has called panic() and printx() has not returned to it.       *)
PanicBegun(p) ==
  \/ proc[p].pc = "print" /\ proc[p].after = "ud2"
  \/ frames # <<>> /\ p_proc_ready = p /\ Top.code.after = "ud2"

(* Once panic() is called, by a process or by the kernel, the machine      *)
(* stops: whoever runs before the message is printed, and whatever follows *)
(* the message in memory.  (It stops without the message when the kernel   *)
(* fails an assertion first, for then nobody else runs any more; and what  *)
(* an overrun does is open.)                                               *)
PanicStops == (\E p \in Procs : PanicBegun(p)) ~> Stopped

(* The ud2 behind panic() is never reached: whoever has called panic(), in *)
(* its own ring or in the kernel, has either not yet been heard or is the  *)
(* last to run.                                                            *)
PanicFinal ==
  /\ UserMode => \A p \in Procs : proc[p].pc # "ud2"
  /\ InKernel("sendrec") => Top.code.pc # "ud2"

(* A failed assertion outside the kernel costs its process only: that ends *)
(* in the loop of spin(), and every other process gets the processor       *)
(* again, unless something else has stopped the machine: an exception, an  *)
(* assertion of the kernel, a text that begins with a magic character, an  *)
(* overrun.                                                                *)
StoppedOtherwise ==
  machine \in {"exception", "overrun"} \/ KernelSpins \/ (machine = "printx" /\ Top.code.after # "spin()")

AssertContained ==
  \A p \in Procs : \A q \in Procs \ {p} :
    (proc[p].pc = "print" /\ proc[p].after = "spin()")
      ~> (StoppedOtherwise \/ (proc[p].pc = "spin" /\ UserMode /\ p_proc_ready = q))

(* A text without its magic characters.                                    *)
Visible(text) ==
  LET kept[i \in 0 .. Len(text)] ==
        IF i = 0 THEN <<>>
        ELSE IF text[i] \in Magic THEN kept[i - 1] ELSE Append(kept[i - 1], text[i])
  IN  kept[Len(text)]

(* When sys_printx() is about to return, the terminal of its caller has    *)
(* got what the format and the arguments stand for, without the magic      *)
(* characters, and no other terminal has got anything.  That text and its  *)
(* 0 fit into the buffer of printf().                                      *)
TextExact ==
  (InKernel("printx") /\ Top.pc = "loop" /\ Top.pos > Len(Top.text)
     /\ Representable(Top.code.fmt, Top.code.args)) =>
    LET text  == Reference(Top.code.fmt, Top.code.args)
        shown == Visible(text)
    IN  /\ out = [i \in 1 .. Len(shown) |-> <<TtyOf[p_proc_ready], shown[i]>>]
        /\ Len(text) < BufLen

(* exception_handler() names the exception that happened, with the error   *)
(* code the CPU has pushed if it pushes one, and the place where it did.   *)
FaultReported ==
  machine = "exception" =>
    /\ <<report.vec_no, report.err_code>> = report.cause
    /\ report.eip = "eip"

(* What the comment in sys_printx() says (lib/io.c:224): if an assertion   *)
(* fails in any task the system is halted.  The code does not: the message *)
(* begins with a newline, and printx returns to the task, which spins.     *)
TaskAssertHalts == UserMode => \A p \in 0 .. NTasks - 1 : proc[p].pc # "spin()"
=============================================================================
