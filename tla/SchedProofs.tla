---------------------------- MODULE SchedProofs ----------------------------
(***************************************************************************)
(* The kernel's entry and exit and schedule(), for any number of           *)
(* processes, any priorities and any number of nested clock interrupts.    *)
(***************************************************************************)
EXTENDS Sched, SequenceTheorems, TLAPS

(* The running frame leaves the kernel.                                    *)
LEMMA TopLeft ==
  ASSUME NEW S, NEW s \in Seq(S), s # <<>>
  PROVE  /\ Front(s) \in Seq(S) /\ Len(Front(s)) = Len(s) - 1
         /\ \A i \in 1 .. Len(s) - 1 : Front(s)[i] = s[i]
<1>1. Len(s) \in Nat \ {0}
  OBVIOUS
<1>2. \A i \in 1 .. Len(s) - 1 : s[i] \in S
  BY <1>1
<1> DEFINE t == SubSeq(s, 1, Len(s) - 1)
<1>3. /\ t \in Seq(S)
      /\ Len(t) = IF 1 <= Len(s) - 1 THEN Len(s) - 1 - 1 + 1 ELSE 0
      /\ \A i \in 1 .. Len(s) - 1 - 1 + 1 : t[i] = s[1 + i - 1]
  <2>1. 1 \in Int /\ Len(s) - 1 \in Int
    BY <1>1
  <2> QED
    BY <1>2, <2>1, SubSeqProperties
<1>4. Front(s) = t
  BY DEF Front
<1> HIDE DEF t
<1>5. Len(t) = Len(s) - 1
  <2>1. ASSUME NEW n \in Nat \ {0} PROVE (IF 1 <= n - 1 THEN n - 1 - 1 + 1 ELSE 0) = n - 1
    OBVIOUS
  <2>2. (IF 1 <= Len(s) - 1 THEN Len(s) - 1 - 1 + 1 ELSE 0) = Len(s) - 1
    BY <1>1, <2>1, Zenon
  <2> QED
    BY <1>3, <2>2
<1>6. ASSUME NEW i \in 1 .. Len(s) - 1 PROVE t[i] = s[i]
  <2>1. 1 + i - 1 = i /\ i \in 1 .. Len(s) - 1 - 1 + 1
    BY <1>1
  <2> QED
    BY <1>3, <2>1
<1> QED
  BY <1>3, <1>4, <1>5, <1>6

(* The locals or the place of the running frame change.                    *)
LEMMA TopChanged ==
  ASSUME NEW s \in Seq(Frames), s # <<>>, NEW f \in Frames
  PROVE  /\ Front(s) \o <<f>> \in Seq(Frames) /\ Len(Front(s) \o <<f>>) = Len(s)
         /\ (Front(s) \o <<f>>)[Len(s)] = f
         /\ \A i \in 1 .. Len(s) - 1 : (Front(s) \o <<f>>)[i] = s[i]
  BY TopLeft

(* The running frame is one of the stack.                                  *)
LEMMA TopFact ==
  ASSUME TypeOK, ~UserMode
  PROVE  /\ Len(frames) \in Nat \ {0} /\ Len(frames) \in DOMAIN frames
         /\ 1 \in DOMAIN frames
         /\ Top = frames[Len(frames)] /\ Top \in Frames
  BY DEF TypeOK, UserMode, Top, Last

(* kernel_main() establishes the invariant.                                *)
LEMMA InitInv == Init => IInv
  BY SchedAssumption
  DEF Init, IInv, TypeOK, StackBounded, FramesInv, CallerKept, FirstRun, Resumable, Scanning,
      UserMode, Procs

(* sys_Call up to its sti.                                                 *)
LEMMA TrapStep ==
  ASSUME IInv, Trap
  PROVE  IInv'
<1> DEFINE f == Frame("syscall", "entered")
<1>1. f \in Frames /\ f.kind = "syscall" /\ f.pc = "entered" /\ f.from = p_proc_ready
  BY SchedAssumption DEF f, Frame, Frames, Places, IInv, TypeOK, Procs
<1>2. frames = <<>> /\ frames' = <<f>> /\ k_reenter' = 0
      /\ UNCHANGED <<ticks, blocked, p_proc_ready, no_schedule, masked, nested>>
  BY DEF Trap, UserMode, IInv, StackBounded
<1> HIDE DEF f
<1>3. frames' \in Seq(Frames) /\ Len(frames') = 1 /\ frames'[1] = f /\ DOMAIN frames' = {1}
  BY <1>1, <1>2
<1>4. TypeOK' /\ StackBounded'
  BY <1>1, <1>2, <1>3 DEF IInv, TypeOK, StackBounded
<1>5. FramesInv'
  BY <1>1, <1>2, <1>3, SchedAssumption DEF IInv, FramesInv, Places, InSchedule
<1>6. CallerKept' /\ FirstRun' /\ Resumable' /\ Scanning'
  BY <1>1, <1>2, <1>3 DEF IInv, CallerKept, FirstRun, Resumable, Scanning, UserMode
<1> QED
  BY <1>4, <1>5, <1>6 DEF IInv

(* hwint_master up to its sti.                                             *)
LEMMA InterruptStep ==
  ASSUME IInv, NEW irq \in Irqs, Interrupt(irq)
  PROVE  IInv'
<1> DEFINE f == Frame(irq, IF irq = "clock" THEN "count" ELSE "handler")
<1>1. /\ f \in Frames /\ f.kind = irq /\ irq \in {"clock", "keyboard"}
      /\ f.pc = (IF irq = "clock" THEN "count" ELSE "handler")
  BY SchedAssumption DEF f, Frame, Frames, Places, IInv, TypeOK, Procs
<1>2. /\ frames' = Append(frames, f)
      /\ irq \notin masked /\ masked' = masked \cup {irq}
      /\ k_reenter' = k_reenter + 1
      /\ nested' = (IF irq = "clock" THEN nested + 1 ELSE nested)
      /\ UNCHANGED <<ticks, blocked, p_proc_ready, no_schedule>>
  BY DEF Interrupt, Masking
<1> HIDE DEF f
<1>3. /\ frames \in Seq(Frames) /\ frames' \in Seq(Frames)
      /\ Len(frames) \in Nat /\ Len(frames') = Len(frames) + 1
      /\ DOMAIN frames = 1 .. Len(frames) /\ DOMAIN frames' = 1 .. Len(frames) + 1
      /\ frames'[Len(frames) + 1] = f
      /\ \A i \in DOMAIN frames : frames'[i] = frames[i]
  BY <1>1, <1>2 DEF IInv, TypeOK
<1>4. \A i \in DOMAIN frames : frames[i].kind # irq
  BY <1>2 DEF IInv, FramesInv
<1>5. TypeOK'
  BY <1>1, <1>2, <1>3 DEF IInv, TypeOK
<1>6. StackBounded'
  BY <1>1, <1>2, <1>3, <1>4 DEF IInv, StackBounded
<1>7. FramesInv'
  <2>1. \A i \in DOMAIN frames' :
          /\ frames'[i].pc \in Places[frames'[i].kind]
          /\ InSchedule(frames'[i]) => i = 1
          /\ frames'[i].pc = "take" => frames'[i].p < NProcs
    BY <1>1, <1>3 DEF IInv, FramesInv, Places, InSchedule
  <2>2. ASSUME NEW q \in Irqs
        PROVE  q \in masked' <=> \E i \in DOMAIN frames' : frames'[i].kind = q
    <3>1. (\E i \in DOMAIN frames' : frames'[i].kind = q)
            <=> (\E i \in DOMAIN frames : frames[i].kind = q) \/ q = irq
      BY <1>1, <1>3
    <3> QED
      BY <1>2, <3>1 DEF IInv, FramesInv
  <2> QED
    BY <2>1, <2>2 DEF FramesInv, InSchedule
<1>8. CallerKept' /\ FirstRun'
  BY <1>1, <1>2, <1>3 DEF IInv, CallerKept, FirstRun
<1>9. Resumable' /\ Scanning'
  <2>1. CASE UserMode
    BY <1>1, <1>2, <1>3, <2>1 DEF IInv, Resumable, Scanning, UserMode, InSchedule
  <2>2. CASE ~UserMode
    <3>1. frames'[1] = frames[1] /\ ~UserMode'
      BY <1>3, <2>2 DEF UserMode
    <3> QED
      BY <1>2, <2>2, <3>1 DEF IInv, Resumable, Scanning, Best, InSchedule
  <2> QED
    BY <2>1, <2>2
<1> QED
  BY <1>5, <1>6, <1>7, <1>8, <1>9 DEF IInv

(* restart and restart_reenter from their cli.                             *)
LEMMA ReturnStep ==
  ASSUME IInv, Return
  PROVE  IInv'
<1>1. /\ ~UserMode /\ Top.pc = "return"
      /\ frames' = Front(frames)
      /\ masked' = masked \ {Top.kind}
      /\ k_reenter' = k_reenter - 1
      /\ nested' = (IF Len(frames) = 1 THEN 0 ELSE nested)
      /\ UNCHANGED <<ticks, blocked, p_proc_ready, no_schedule>>
  BY DEF Return, Running, UserMode
<1>2. /\ Len(frames) \in Nat \ {0} /\ Len(frames) \in DOMAIN frames
      /\ Top = frames[Len(frames)] /\ Top \in Frames
      /\ DOMAIN frames = 1 .. Len(frames)
  BY <1>1, TopFact DEF IInv, TypeOK
<1>3. /\ frames' \in Seq(Frames) /\ Len(frames') = Len(frames) - 1
      /\ DOMAIN frames' = 1 .. Len(frames) - 1
      /\ \A i \in 1 .. Len(frames) - 1 : frames'[i] = frames[i]
  BY <1>1, TopLeft DEF IInv, TypeOK, UserMode
<1>4. TypeOK' /\ StackBounded'
  <2>1. TypeOK'
    BY <1>1, <1>3 DEF IInv, TypeOK
  <2>2. k_reenter' = Len(frames') - 1
    BY <1>1, <1>2, <1>3 DEF IInv, StackBounded
  <2>3. \A i \in DOMAIN frames' : i \in DOMAIN frames /\ frames'[i] = frames[i]
    BY <1>2, <1>3
  <2>4. StackBounded'
    BY <2>2, <2>3 DEF IInv, StackBounded
  <2> QED
    BY <2>1, <2>4
<1>5. FramesInv'
  <2>1. \A i \in DOMAIN frames' :
          /\ frames'[i].pc \in Places[frames'[i].kind]
          /\ InSchedule(frames'[i]) => i = 1
          /\ frames'[i].pc = "take" => frames'[i].p < NProcs
    BY <1>2, <1>3 DEF IInv, FramesInv
  <2>2. ASSUME NEW q \in Irqs
        PROVE  q \in masked' <=> \E i \in DOMAIN frames' : frames'[i].kind = q
    <3>1. \A i \in DOMAIN frames' : frames'[i].kind # Top.kind
      BY <1>2, <1>3 DEF IInv, StackBounded
    <3>2. (\E i \in DOMAIN frames' : frames'[i].kind = q)
            <=> (\E i \in DOMAIN frames : frames[i].kind = q) /\ q # Top.kind
      BY <1>2, <1>3, <3>1
    <3> QED
      BY <1>1, <3>2 DEF IInv, FramesInv
  <2> QED
    BY <2>1, <2>2 DEF FramesInv, InSchedule
<1>6. CallerKept' /\ FirstRun'
  BY <1>1, <1>2, <1>3 DEF IInv, CallerKept, FirstRun
<1>7. Resumable' /\ Scanning'
  <2>1. CASE Len(frames) = 1
    BY <1>1, <1>2, <1>3, <2>1 DEF IInv, Resumable, Scanning, UserMode, InSchedule
  <2>2. CASE Len(frames) # 1
    <3>1. frames'[1] = frames[1] /\ ~UserMode'
      BY <1>2, <1>3, <2>2 DEF UserMode
    <3> QED
      BY <1>1, <3>1 DEF IInv, Resumable, Scanning, Best, InSchedule
  <2> QED
    BY <2>1, <2>2
<1> QED
  BY <1>4, <1>5, <1>6, <1>7 DEF IInv

(* The running frame becomes f, one that is allowed where it is.           *)
LEMMA FrameStep ==
  ASSUME IInv, ~UserMode, NEW f \in Frames, frames' = Front(frames) \o <<f>>,
         f.kind = Top.kind, f.pc \in Places[f.kind],
         InSchedule(f) => Len(frames) = 1,
         f.pc = "take" => f.p < NProcs,
         UNCHANGED <<k_reenter, masked>>
  PROVE  /\ frames' \in Seq(Frames) /\ ~UserMode' /\ DOMAIN frames' = DOMAIN frames
         /\ frames'[Len(frames)] = f /\ Len(frames') = Len(frames)
         /\ \A i \in DOMAIN frames : i # Len(frames) => frames'[i] = frames[i]
         /\ StackBounded' /\ FramesInv'
<1>1. /\ Len(frames) \in Nat \ {0} /\ Top = frames[Len(frames)]
      /\ DOMAIN frames = 1 .. Len(frames) /\ frames \in Seq(Frames)
  BY TopFact DEF IInv, TypeOK
<1>2. /\ frames' \in Seq(Frames) /\ Len(frames') = Len(frames)
      /\ DOMAIN frames' = 1 .. Len(frames)
      /\ frames'[Len(frames)] = f
      /\ \A i \in 1 .. Len(frames) - 1 : frames'[i] = frames[i]
  <2>1. frames # <<>>
    BY DEF UserMode
  <2> DEFINE t == Front(frames) \o <<f>>
  <2>2. /\ t \in Seq(Frames) /\ Len(t) = Len(frames)
        /\ t[Len(frames)] = f
        /\ \A i \in 1 .. Len(frames) - 1 : t[i] = frames[i]
    BY <1>1, <2>1, TopChanged, Zenon
  <2>3. frames' = t
    OBVIOUS
  <2> HIDE DEF t
  <2>4. DOMAIN t = 1 .. Len(frames)
    BY <1>1, <2>2
  <2> QED
    BY <2>2, <2>3, <2>4
<1>3. ASSUME NEW i \in DOMAIN frames, i # Len(frames) PROVE frames'[i] = frames[i]
  <2>1. i \in 1 .. Len(frames) - 1
    BY <1>1, <1>3
  <2> QED
    BY <1>2, <2>1
<1>4. \A i \in DOMAIN frames : frames'[i].kind = frames[i].kind
  BY <1>1, <1>2, <1>3
<1>5. StackBounded'
  BY <1>1, <1>2, <1>4 DEF IInv, StackBounded
<1>6. FramesInv'
  <2>1. \A i \in DOMAIN frames' :
          /\ frames'[i].pc \in Places[frames'[i].kind]
          /\ InSchedule(frames'[i]) => i = 1
          /\ frames'[i].pc = "take" => frames'[i].p < NProcs
    BY <1>1, <1>2, <1>3 DEF IInv, FramesInv
  <2>2. ASSUME NEW q \in Irqs
        PROVE  q \in masked' <=> \E i \in DOMAIN frames' : frames'[i].kind = q
    <3>1. (\E i \in DOMAIN frames' : frames'[i].kind = q)
            <=> \E i \in DOMAIN frames : frames[i].kind = q
      BY <1>1, <1>2, <1>4
    <3> QED
      BY <3>1 DEF IInv, FramesInv
  <2> QED
    BY <2>1, <2>2 DEF FramesInv, InSchedule
<1> QED
  BY <1>1, <1>2, <1>3, <1>5, <1>6 DEF UserMode

(* Where the running frame is tells what it is and how deep.               *)
LEMMA TopPlace ==
  ASSUME IInv, ~UserMode
  PROVE  /\ Top = frames[Len(frames)] /\ Top \in Frames
         /\ Len(frames) \in Nat \ {0} /\ DOMAIN frames = 1 .. Len(frames)
         /\ Top.pc \in {"entered", "service"} => Top.kind = "syscall" /\ Len(frames) = 1
         /\ Top.pc \in {"count", "test"} => Top.kind = "clock"
         /\ Top.pc = "handler" => Top.kind = "keyboard"
         /\ InSchedule(Top) => Top.kind \in {"syscall", "clock"} /\ Len(frames) = 1
         /\ Len(frames) = 1 => DOMAIN frames = {1} /\ Top = frames[1]
<1>1. /\ Top = frames[Len(frames)] /\ Top \in Frames /\ Len(frames) \in DOMAIN frames
      /\ Len(frames) \in Nat \ {0} /\ DOMAIN frames = 1 .. Len(frames)
  BY TopFact DEF IInv, TypeOK
<1>2. Top.pc \in Places[Top.kind] /\ Top.kind \in {"syscall", "clock", "keyboard"}
  BY <1>1, SchedAssumption DEF IInv, FramesInv, Frames
<1>3. /\ Top.pc \in {"entered", "service"} => Top.kind = "syscall"
      /\ Top.pc \in {"count", "test"} => Top.kind = "clock"
      /\ Top.pc = "handler" => Top.kind = "keyboard"
      /\ InSchedule(Top) => Top.kind \in {"syscall", "clock"}
  BY <1>2 DEF Places, InSchedule
<1> QED
  BY <1>1, <1>3 DEF IInv, StackBounded, FramesInv

(* The rest of the invariant, when the only frame becomes f.               *)
LEMMA OnlyFrameStep ==
  ASSUME IInv, ~UserMode, Len(frames) = 1, NEW f \in Frames,
         frames' = Front(frames) \o <<f>>,
         f.kind = Top.kind, f.pc \in Places[f.kind], f.pc = "take" => f.p < NProcs,
         UNCHANGED <<k_reenter, masked>>
  PROVE  /\ frames' \in Seq(Frames) /\ ~UserMode'
         /\ DOMAIN frames' = {1} /\ frames'[1] = f
         /\ StackBounded' /\ FramesInv'
  BY FrameStep, TopPlace

(* sys_Call pushes the PCB of its caller.                                  *)
LEMMA PushPcbStep ==
  ASSUME IInv, PushPcb
  PROVE  IInv'
<1> DEFINE f == [Top EXCEPT !.pc = "service", !.pcb = p_proc_ready]
<1>1. /\ ~UserMode /\ Top.pc = "entered" /\ frames' = Front(frames) \o <<f>>
      /\ UNCHANGED <<ticks, blocked, p_proc_ready, no_schedule, k_reenter, masked, nested>>
  BY DEF PushPcb, Running, UserMode, GotoWith
<1>2. /\ Top.kind = "syscall" /\ Len(frames) = 1 /\ Top = frames[1] /\ Top \in Frames
      /\ DOMAIN frames = {1} /\ Top.from = p_proc_ready
  BY <1>1, TopPlace DEF IInv, CallerKept
<1>3. p_proc_ready \in Procs /\ p_proc_ready \in 0 .. NProcs
  BY SchedAssumption DEF IInv, TypeOK, Procs
<1>4. /\ f \in Frames /\ f.kind = "syscall" /\ f.pc = "service" /\ f.pc \in Places["syscall"]
      /\ f.pcb = p_proc_ready /\ f.from = p_proc_ready
  <2>1. f \in Frames
    <3>1. [Top EXCEPT !.pc = "service"] \in Frames
      BY <1>2 DEF Frames, Places
    <3> QED
      BY <1>3, <3>1 DEF Frames
  <2>2. Top.from = p_proc_ready /\ "service" \in Places["syscall"] /\ Top \in Frames /\ Top.kind = "syscall"
    BY <1>2 DEF Places
  <2> QED
    BY <2>1, <2>2 DEF Frames
<1> HIDE DEF f
<1>5. /\ frames' \in Seq(Frames) /\ ~UserMode' /\ DOMAIN frames' = {1} /\ frames'[1] = f
      /\ StackBounded' /\ FramesInv'
  BY <1>1, <1>2, <1>4, OnlyFrameStep
<1>6. TypeOK'
  BY <1>1, <1>5 DEF IInv, TypeOK
<1>7. CallerKept' /\ FirstRun'
  BY <1>1, <1>4, <1>5 DEF IInv, CallerKept, FirstRun
<1>8. Resumable' /\ Scanning'
  BY <1>1, <1>2, <1>4, <1>5 DEF IInv, Resumable, Scanning, InSchedule
<1> QED
  BY <1>5, <1>6, <1>7, <1>8 DEF IInv

(* A system call that does not block its caller.                           *)
LEMMA ServeStep ==
  ASSUME IInv, Serve
  PROVE  IInv'
<1> DEFINE f == [Top EXCEPT !.pc = "return"]
<1>1. /\ ~UserMode /\ Top.pc = "service" /\ frames' = Front(frames) \o <<f>>
      /\ UNCHANGED <<ticks, p_proc_ready, no_schedule, k_reenter, masked, nested>>
      /\ \/ UNCHANGED blocked
         \/ \E q \in Procs : blocked[q] /\ blocked' = [blocked EXCEPT ![q] = FALSE]
  BY DEF Serve, Running, UserMode, Goto
<1>2. /\ Top.kind = "syscall" /\ Len(frames) = 1 /\ Top = frames[1] /\ Top \in Frames
      /\ DOMAIN frames = {1}
  BY <1>1, TopPlace
<1>3. f \in Frames /\ f.kind = "syscall" /\ f.pc = "return" /\ f.pc \in Places["syscall"]
  BY <1>2 DEF Frames, Places
<1> HIDE DEF f
<1>4. /\ frames' \in Seq(Frames) /\ ~UserMode' /\ DOMAIN frames' = {1} /\ frames'[1] = f
      /\ StackBounded' /\ FramesInv'
  BY <1>1, <1>2, <1>3, OnlyFrameStep
<1>5. /\ blocked' \in [Procs -> BOOLEAN]
      /\ \A q \in Procs : ~blocked[q] => ~blocked'[q]
  BY <1>1 DEF IInv, TypeOK
<1>6. TypeOK'
  BY <1>1, <1>4, <1>5 DEF IInv, TypeOK
<1>7. CallerKept' /\ FirstRun'
  <2>1. CallerKept'
    BY <1>3, <1>4 DEF CallerKept
  <2>2. FirstRun'
    BY <1>1, <1>3, <1>4, <1>5, SchedAssumption DEF IInv, FirstRun, Procs
  <2> QED
    BY <2>1, <2>2
<1>8. ~blocked[p_proc_ready] /\ p_proc_ready \in Procs
  BY <1>1, <1>2 DEF IInv, Resumable, InSchedule, TypeOK
<1>9. Resumable' /\ Scanning'
  BY <1>1, <1>3, <1>4, <1>5, <1>8 DEF Resumable, Scanning, InSchedule
<1> QED
  BY <1>4, <1>6, <1>7, <1>9 DEF IInv

(* A system call that blocks its caller.                                   *)
LEMMA BlockStep ==
  ASSUME IInv, Block
  PROVE  IInv'
<1> DEFINE f == [Top EXCEPT !.pc = "schedule"]
<1>1. /\ ~UserMode /\ Top.pc = "service" /\ frames' = Front(frames) \o <<f>>
      /\ Top.pcb # 0 /\ blocked' = [blocked EXCEPT ![Top.pcb] = TRUE]
      /\ UNCHANGED <<ticks, p_proc_ready, no_schedule, k_reenter, masked, nested>>
  BY DEF Block, Running, UserMode, Goto
<1>2. /\ Top.kind = "syscall" /\ Len(frames) = 1 /\ Top = frames[1] /\ Top \in Frames
      /\ DOMAIN frames = {1} /\ Top.pcb = p_proc_ready
  BY <1>1, TopPlace DEF IInv, CallerKept
<1>3. f \in Frames /\ f.kind = "syscall" /\ f.pc = "schedule" /\ f.pc \in Places["syscall"]
  BY <1>2 DEF Frames, Places
<1> HIDE DEF f
<1>4. /\ frames' \in Seq(Frames) /\ ~UserMode' /\ DOMAIN frames' = {1} /\ frames'[1] = f
      /\ StackBounded' /\ FramesInv'
  BY <1>1, <1>2, <1>3, OnlyFrameStep
<1>5. TypeOK'
  BY <1>1, <1>4 DEF IInv, TypeOK
<1>6. CallerKept' /\ FirstRun'
  <2>1. CallerKept'
    BY <1>3, <1>4 DEF CallerKept
  <2>2. 0 \in Procs /\ ~blocked'[0]
    BY <1>1, SchedAssumption DEF IInv, TypeOK, FirstRun, Procs
  <2>3. FirstRun'
    BY <1>1, <1>3, <1>4, <2>2 DEF IInv, FirstRun
  <2> QED
    BY <2>1, <2>3
<1>7. Resumable' /\ Scanning'
  BY <1>1, <1>3, <1>4 DEF Resumable, Scanning, InSchedule
<1> QED
  BY <1>4, <1>5, <1>6, <1>7 DEF IInv

(* An interrupt handler outside schedule() goes on, at any depth: only the *)
(* clock's changes ticks, and no other clock frame is on the stack.        *)
LEMMA HandlingStep ==
  ASSUME IInv, ~UserMode, NEW f \in Frames, frames' = Front(frames) \o <<f>>,
         f.kind = Top.kind, f.pc \in Places[f.kind],
         f.pc \in {"test", "return"}, ~InSchedule(Top),
         f.kind # "syscall", f.kind # "clock" => UNCHANGED ticks,
         ticks' \in [Procs -> Nat],
         UNCHANGED <<blocked, p_proc_ready, no_schedule, k_reenter, masked, nested>>
  PROVE  IInv'
<1>1. /\ Top = frames[Len(frames)] /\ Len(frames) \in Nat \ {0}
      /\ DOMAIN frames = 1 .. Len(frames)
  BY TopPlace
<1>2. ~InSchedule(f) /\ f.pc \notin {"take", "entered", "service"}
  BY DEF InSchedule
<1>3. /\ frames' \in Seq(Frames) /\ ~UserMode' /\ DOMAIN frames' = DOMAIN frames
      /\ frames'[Len(frames)] = f
      /\ \A i \in DOMAIN frames : i # Len(frames) => frames'[i] = frames[i]
      /\ StackBounded' /\ FramesInv'
  BY <1>2, FrameStep
<1>4. TypeOK'
  BY <1>3 DEF IInv, TypeOK
<1>5. CallerKept' /\ FirstRun'
  BY <1>1, <1>2, <1>3 DEF IInv, CallerKept, FirstRun, InSchedule
<1>6. Resumable' /\ Scanning'
  <2>1. CASE Len(frames) = 1
    <3>1. frames'[1] = f /\ ~blocked[p_proc_ready]
      BY <1>1, <1>3, <2>1 DEF IInv, Resumable
    <3> QED
      BY <1>2, <1>3, <3>1 DEF Resumable, Scanning, InSchedule
  <2>2. CASE Len(frames) # 1
    <3>1. frames'[1] = frames[1] /\ 1 \in DOMAIN frames /\ Len(frames) \in DOMAIN frames
      <4>1. 1 \in DOMAIN frames /\ Len(frames) \in DOMAIN frames
        BY <1>1
      <4> QED
        BY <1>3, <2>2, <4>1
    <3>2. frames[1].kind = "clock" => UNCHANGED ticks
      BY <1>1, <2>2, <3>1 DEF IInv, StackBounded
    <3> QED
      BY <1>3, <3>1, <3>2 DEF IInv, Resumable, Scanning, Best, InSchedule
  <2> QED
    BY <2>1, <2>2
<1> QED
  BY <1>3, <1>4, <1>5, <1>6 DEF IInv

(* keyboardHandler().                                                      *)
LEMMA HandlerStep ==
  ASSUME IInv, Handler
  PROVE  IInv'
<1> DEFINE f == [Top EXCEPT !.pc = "return"]
<1>1. /\ ~UserMode /\ Top.pc = "handler" /\ frames' = Front(frames) \o <<f>>
      /\ UNCHANGED <<ticks, blocked, p_proc_ready, no_schedule, k_reenter, masked, nested>>
  BY DEF Handler, Running, UserMode, Goto
<1>2. Top.kind = "keyboard" /\ ~InSchedule(Top) /\ Top \in Frames
  BY <1>1, TopPlace DEF InSchedule
<1>3. f \in Frames /\ f.pc = "return" /\ f.kind = "keyboard" /\ f.pc \in Places[f.kind]
  BY <1>2 DEF Frames, Places
<1> HIDE DEF f
<1>4. ticks' \in [Procs -> Nat]
  BY <1>1 DEF IInv, TypeOK
<1> QED
  BY <1>1, <1>2, <1>3, <1>4, HandlingStep

(* clockHandler() counts a tick of the interrupted process.                *)
LEMMA CountStep ==
  ASSUME IInv, Count
  PROVE  IInv'
<1> DEFINE f == [Top EXCEPT !.pc = "test"]
<1>1. /\ ~UserMode /\ Top.pc = "count" /\ frames' = Front(frames) \o <<f>>
      /\ ticks' = [ticks EXCEPT ![p_proc_ready] = IF @ > 0 THEN @ - 1 ELSE 0]
      /\ UNCHANGED <<blocked, p_proc_ready, no_schedule, k_reenter, masked, nested>>
  BY DEF Count, Running, UserMode, Goto
<1>2. Top.kind = "clock" /\ ~InSchedule(Top) /\ Top \in Frames
  BY <1>1, TopPlace DEF InSchedule
<1>3. f \in Frames /\ f.pc = "test" /\ f.kind = "clock" /\ f.pc \in Places[f.kind]
  BY <1>2 DEF Frames, Places
<1> HIDE DEF f
<1>4. ticks' \in [Procs -> Nat]
  BY <1>1 DEF IInv, TypeOK
<1> QED
  BY <1>1, <1>2, <1>3, <1>4, HandlingStep

(* clockHandler() calls schedule() only when nothing is interrupted but a  *)
(* process.                                                                *)
LEMMA TestStep ==
  ASSUME IInv, Test
  PROVE  IInv'
<1> DEFINE pc == IF Preempts THEN "schedule" ELSE "return"
           f  == [Top EXCEPT !.pc = pc]
<1>1. /\ ~UserMode /\ Top.pc = "test" /\ frames' = Front(frames) \o <<f>>
      /\ UNCHANGED <<ticks, blocked, p_proc_ready, no_schedule, k_reenter, masked, nested>>
  BY DEF Test, Running, UserMode, Goto
<1>2. Top.kind = "clock" /\ ~InSchedule(Top) /\ Top \in Frames
  BY <1>1, TopPlace DEF InSchedule
<1>3. f \in Frames /\ f.pc = pc /\ f.kind = "clock" /\ f.pc \in Places[f.kind]
  <2>1. pc \in {"schedule", "return"}
    OBVIOUS
  <2> HIDE DEF pc
  <2> QED
    BY <1>2, <2>1 DEF Frames, Places
<1>4. CASE Preempts
  <2>1. f.pc = "schedule" /\ Len(frames) = 1 /\ DOMAIN frames = {1} /\ Top = frames[1]
    <3>1. f.pc = "schedule"
      BY <1>3, <1>4
    <3>2. Len(frames) = 1
      BY <1>1, <1>4, TopPlace DEF Preempts, IInv, StackBounded, TypeOK
    <3> QED
      BY <1>1, <3>1, <3>2, TopPlace
  <2>2. ~blocked[p_proc_ready]
    BY <1>1, <1>2, <2>1 DEF IInv, Resumable
  <2> HIDE DEF f
  <2>3. /\ frames' \in Seq(Frames) /\ ~UserMode' /\ DOMAIN frames' = {1} /\ frames'[1] = f
        /\ StackBounded' /\ FramesInv'
    BY <1>1, <1>2, <1>3, <2>1, OnlyFrameStep
  <2>4. TypeOK' /\ CallerKept'
    BY <1>1, <2>1, <2>3 DEF IInv, TypeOK, CallerKept
  <2>5. FirstRun' /\ Resumable' /\ Scanning'
    BY <1>1, <2>1, <2>2, <2>3 DEF IInv, FirstRun, Resumable, Scanning
  <2> QED
    BY <2>3, <2>4, <2>5 DEF IInv
<1>5. CASE ~Preempts
  <2>1. f.pc = "return"
    BY <1>3, <1>5
  <2> HIDE DEF f
  <2>2. ticks' \in [Procs -> Nat]
    BY <1>1 DEF IInv, TypeOK
  <2> QED
    BY <1>1, <1>2, <1>3, <2>1, <2>2, HandlingStep
<1> QED
  BY <1>4, <1>5

-----------------------------------------------------------------------------
(* schedule()                                                              *)

(* What a step inside schedule() leaves alone, and where it is.            *)
LEMMA InScheduleFact ==
  ASSUME IInv, ~UserMode, InSchedule(Top)
  PROVE  /\ Len(frames) = 1 /\ DOMAIN frames = {1} /\ Top = frames[1] /\ Top \in Frames
         /\ Top.kind \in {"syscall", "clock"} /\ Top.p \in 0 .. NProcs /\ Top.greatest \in Nat
  BY TopPlace DEF Frames

(* The entry of schedule().                                                *)
LEMMA ScheduleStep ==
  ASSUME IInv, Schedule
  PROVE  IInv'
<1>1. /\ ~UserMode /\ Top.pc = "schedule" /\ InSchedule(Top)
      /\ UNCHANGED <<ticks, blocked, p_proc_ready, k_reenter, masked, nested>>
  BY DEF Schedule, Running, UserMode, InSchedule
<1>2. /\ Len(frames) = 1 /\ DOMAIN frames = {1} /\ Top = frames[1] /\ Top \in Frames
      /\ Top.kind \in {"syscall", "clock"}
  BY <1>1, InScheduleFact
<1>3. CASE no_schedule
  <2> DEFINE f == [Top EXCEPT !.pc = "return"]
  <2>1. no_schedule' = FALSE /\ frames' = Front(frames) \o <<f>>
    BY <1>3 DEF Schedule, Goto
  <2>2. f \in Frames /\ f.kind = Top.kind /\ f.pc = "return" /\ f.pc \in Places[f.kind]
    BY <1>2 DEF Frames, Places
  <2> HIDE DEF f
  <2>3. /\ frames' \in Seq(Frames) /\ ~UserMode' /\ DOMAIN frames' = {1} /\ frames'[1] = f
        /\ StackBounded' /\ FramesInv'
    BY <1>1, <1>2, <2>1, <2>2, OnlyFrameStep
  <2>4. TypeOK' /\ CallerKept'
    BY <1>1, <2>1, <2>2, <2>3 DEF IInv, TypeOK, CallerKept
  <2>5. ~blocked[p_proc_ready]
    BY <1>3 DEF IInv, FirstRun
  <2>6. FirstRun' /\ Resumable' /\ Scanning'
    BY <1>1, <2>1, <2>2, <2>3, <2>5 DEF IInv, FirstRun, Resumable, Scanning, InSchedule
  <2> QED
    BY <2>3, <2>4, <2>6 DEF IInv
<1>4. CASE ~no_schedule
  <2> DEFINE f == [Top EXCEPT !.pc = "compare", !.p = 0, !.greatest = 0]
  <2>1. no_schedule' = no_schedule /\ frames' = Front(frames) \o <<f>>
    BY <1>4 DEF Schedule, GotoWith
  <2>2. /\ f \in Frames /\ f.kind = Top.kind /\ f.pc = "compare" /\ f.pc \in Places[f.kind]
        /\ f.p = 0 /\ f.greatest = 0
    <3>1. [Top EXCEPT !.pc = "compare"] \in Frames /\ "compare" \in Places[Top.kind]
      BY <1>2 DEF Frames, Places
    <3>2. 0 \in 0 .. NProcs
      BY SchedAssumption
    <3>3. f \in Frames
      BY <3>1, <3>2 DEF Frames
    <3> QED
      BY <1>2, <3>1, <3>3 DEF Frames
  <2> HIDE DEF f
  <2>3. /\ frames' \in Seq(Frames) /\ ~UserMode' /\ DOMAIN frames' = {1} /\ frames'[1] = f
        /\ StackBounded' /\ FramesInv'
    BY <1>1, <1>2, <2>1, <2>2, OnlyFrameStep
  <2>4. TypeOK' /\ CallerKept'
    BY <1>1, <2>1, <2>2, <2>3 DEF IInv, TypeOK, CallerKept
  <2>5. FirstRun' /\ Resumable'
    BY <1>1, <1>4, <2>1, <2>2, <2>3 DEF IInv, FirstRun, Resumable, InSchedule
  <2>6. Scanning'
    BY <2>2, <2>3 DEF Scanning, Best, Procs
  <2> QED
    BY <2>3, <2>4, <2>5, <2>6 DEF IInv
<1> QED
  BY <1>3, <1>4

(* What every step of the scan has in common.                              *)
LEMMA ScanStep ==
  ASSUME IInv, ~UserMode, Top.pc \in {"compare", "take", "refill"},
         NEW f \in Frames, frames' = Front(frames) \o <<f>>,
         f.kind = Top.kind, f.pc \in {"compare", "take", "refill", "return"},
         f.pc = "take" => f.p < NProcs,
         ticks' \in [Procs -> Nat], p_proc_ready' \in Procs,
         UNCHANGED <<blocked, no_schedule, k_reenter, masked, nested>>
  PROVE  /\ ~UserMode' /\ DOMAIN frames' = {1} /\ frames'[1] = f
         /\ TypeOK' /\ StackBounded' /\ FramesInv' /\ CallerKept' /\ FirstRun'
<1>1. /\ Len(frames) = 1 /\ DOMAIN frames = {1} /\ Top = frames[1] /\ Top \in Frames
      /\ Top.kind \in {"syscall", "clock"}
  BY InScheduleFact DEF InSchedule
<1>2. f.pc \in Places[f.kind] /\ f.pc \notin {"entered", "service"}
  BY <1>1 DEF Places
<1>3. /\ frames' \in Seq(Frames) /\ ~UserMode' /\ DOMAIN frames' = {1} /\ frames'[1] = f
      /\ StackBounded' /\ FramesInv'
  BY <1>1, <1>2, OnlyFrameStep
<1>4. TypeOK' /\ CallerKept'
  BY <1>2, <1>3 DEF IInv, TypeOK, CallerKept
<1>5. ~no_schedule
  BY <1>1 DEF IInv, FirstRun
<1>6. FirstRun'
  BY <1>5 DEF IInv, FirstRun
<1> QED
  BY <1>3, <1>4, <1>6

(* One turn of the for loop, and what follows it.                          *)
LEMMA CompareStep ==
  ASSUME IInv, Compare
  PROVE  IInv'
<1>1. /\ ~UserMode /\ Top.pc = "compare" /\ InSchedule(Top)
      /\ UNCHANGED <<ticks, blocked, p_proc_ready, no_schedule, k_reenter, masked, nested>>
  BY DEF Compare, Running, UserMode, InSchedule
<1>2. /\ Top = frames[1] /\ Top \in Frames /\ Top.p \in 0 .. NProcs /\ Top.greatest \in Nat
      /\ ticks' \in [Procs -> Nat] /\ p_proc_ready' \in Procs /\ ticks \in [Procs -> Nat]
      /\ p_proc_ready \in Procs /\ blocked \in [Procs -> BOOLEAN]
  BY <1>1, InScheduleFact DEF IInv, TypeOK
<1>3. /\ Top.greatest > 0 => ~blocked[p_proc_ready]
      /\ Top.kind = "clock" => Best(Top)
  BY <1>1, <1>2 DEF IInv, Resumable, Scanning
<1>4. CASE Top.p < NProcs /\ Better(Top.p, Top.greatest)
  <2> DEFINE f == [Top EXCEPT !.pc = "take"]
  <2>1. frames' = Front(frames) \o <<f>>
    BY <1>4 DEF Compare, Goto
  <2>2. /\ f \in Frames /\ f.kind = Top.kind /\ f.pc = "take"
        /\ f.p = Top.p /\ f.greatest = Top.greatest
    BY <1>2 DEF Frames, Places
  <2> HIDE DEF f
  <2>3. /\ ~UserMode' /\ DOMAIN frames' = {1} /\ frames'[1] = f
        /\ TypeOK' /\ StackBounded' /\ FramesInv' /\ CallerKept' /\ FirstRun'
    BY <1>1, <1>2, <1>4, <2>1, <2>2, ScanStep
  <2>4. ~blocked[Top.p] /\ ticks[Top.p] > Top.greatest
    BY <1>4 DEF Better
  <2>5. Resumable'
    BY <1>1, <1>3, <2>2, <2>3, <2>4 DEF Resumable, InSchedule
  <2>6. Scanning'
    BY <1>1, <1>3, <2>2, <2>3, <2>4 DEF Scanning, Best
  <2> QED
    BY <2>3, <2>5, <2>6 DEF IInv
<1>5. CASE Top.p < NProcs /\ ~Better(Top.p, Top.greatest)
  <2> DEFINE f == [Top EXCEPT !.p = @ + 1]
  <2>1. frames' = Front(frames) \o <<f>>
    BY <1>5 DEF Compare, GotoWith
  <2>2. /\ f \in Frames /\ f.kind = Top.kind /\ f.pc = "compare"
        /\ f.p = Top.p + 1 /\ f.greatest = Top.greatest
    <3>1. Top.p + 1 \in 0 .. NProcs
      BY <1>2, <1>5, SchedAssumption
    <3> QED
      BY <1>1, <1>2, <3>1 DEF Frames
  <2> HIDE DEF f
  <2>3. /\ ~UserMode' /\ DOMAIN frames' = {1} /\ frames'[1] = f
        /\ TypeOK' /\ StackBounded' /\ FramesInv' /\ CallerKept' /\ FirstRun'
    BY <1>1, <1>2, <2>1, <2>2, ScanStep
  <2>4. Resumable'
    BY <1>1, <1>3, <2>2, <2>3 DEF Resumable, InSchedule
  <2>5. Top.p \in Procs /\ (~blocked[Top.p] => ticks[Top.p] <= Top.greatest)
    BY <1>2, <1>5, SchedAssumption DEF Better, Procs
  <2>6. \A q \in Procs : q < Top.p + 1 <=> q < Top.p \/ q = Top.p
    <3>1. \A q, m \in Int : q < m + 1 <=> q < m \/ q = m
      OBVIOUS
    <3>2. Top.p \in Int /\ \A q \in Procs : q \in Int
      BY <1>2, SchedAssumption DEF Procs
    <3> QED
      BY <3>1, <3>2, Zenon
  <2>7. Scanning'
    <3>1. SUFFICES ASSUME Top.kind = "clock"
                   PROVE  Best(frames[1])'
      BY <2>2, <2>3 DEF Scanning
    <3>2. CASE Top.greatest = 0
      BY <1>1, <1>2, <1>3, <2>2, <2>3, <2>5, <2>6, <3>1, <3>2 DEF Best
    <3>3. CASE Top.greatest # 0
      <4>1. /\ p_proc_ready < Top.p + 1
            /\ ticks[p_proc_ready] = Top.greatest
        BY <1>2, <1>3, <3>1, <3>3, SchedAssumption DEF Best, Procs
      <4>2. \A q \in Procs : q < Top.p + 1 /\ ~blocked[q] =>
              ticks[q] <= Top.greatest /\ (q < p_proc_ready => ticks[q] < Top.greatest)
        <5>1. ASSUME NEW q \in Procs, q < Top.p, ~blocked[q]
              PROVE  ticks[q] <= Top.greatest /\ (q < p_proc_ready => ticks[q] < Top.greatest)
          BY <1>3, <3>1, <3>3, <5>1 DEF Best
        <5>2. p_proc_ready < Top.p
          BY <1>3, <3>1, <3>3 DEF Best
        <5>3. ~(Top.p < p_proc_ready)
          BY <1>2, <5>2, SchedAssumption DEF Procs
        <5> QED
          BY <2>5, <2>6, <5>1, <5>3, Zenon
      <4> QED
        BY <1>1, <2>2, <2>3, <3>3, <4>1, <4>2 DEF Best
    <3> QED
      BY <3>2, <3>3
  <2> QED
    BY <2>3, <2>4, <2>7 DEF IInv
<1>6. CASE ~(Top.p < NProcs) /\ Top.greatest = 0
  <2> DEFINE f == [Top EXCEPT !.pc = "refill", !.p = 0]
  <2>1. frames' = Front(frames) \o <<f>>
    BY <1>6 DEF Compare, GotoWith
  <2>2. /\ f \in Frames /\ f.kind = Top.kind /\ f.pc = "refill" /\ f.greatest = 0
    <3>1. [Top EXCEPT !.pc = "refill"] \in Frames
      BY <1>2 DEF Frames, Places
    <3>2. 0 \in 0 .. NProcs
      BY SchedAssumption
    <3>3. f \in Frames
      BY <3>1, <3>2 DEF Frames
    <3> QED
      BY <1>2, <1>6, <3>3 DEF Frames
  <2> HIDE DEF f
  <2>3. /\ ~UserMode' /\ DOMAIN frames' = {1} /\ frames'[1] = f
        /\ TypeOK' /\ StackBounded' /\ FramesInv' /\ CallerKept' /\ FirstRun'
    BY <1>1, <1>2, <2>1, <2>2, ScanStep
  <2>4. Resumable' /\ Scanning'
    BY <2>2, <2>3 DEF Resumable, Scanning, InSchedule
  <2> QED
    BY <2>3, <2>4 DEF IInv
<1>7. CASE ~(Top.p < NProcs) /\ Top.greatest # 0
  <2> DEFINE f == [Top EXCEPT !.pc = "return"]
  <2>1. frames' = Front(frames) \o <<f>>
    BY <1>7 DEF Compare, Goto
  <2>2. f \in Frames /\ f.kind = Top.kind /\ f.pc = "return"
    BY <1>2 DEF Frames, Places
  <2> HIDE DEF f
  <2>3. /\ ~UserMode' /\ DOMAIN frames' = {1} /\ frames'[1] = f
        /\ TypeOK' /\ StackBounded' /\ FramesInv' /\ CallerKept' /\ FirstRun'
    BY <1>1, <1>2, <2>1, <2>2, ScanStep
  <2>4. ~blocked[p_proc_ready]
    BY <1>2, <1>3, <1>7
  <2>5. Resumable' /\ Scanning'
    BY <1>1, <2>2, <2>3, <2>4 DEF Resumable, Scanning, InSchedule
  <2> QED
    BY <2>3, <2>5 DEF IInv
<1> QED
  BY <1>4, <1>5, <1>6, <1>7

(* The process just found becomes the best.                                *)
LEMMA TakeStep ==
  ASSUME IInv, Take
  PROVE  IInv'
<1> DEFINE g == [Top EXCEPT !.pc = "compare", !.greatest = ticks[Top.p]]
           f == [Top EXCEPT !.pc = "compare", !.greatest = ticks[Top.p], !.p = @ + 1]
<1>1. /\ ~UserMode /\ Top.pc = "take" /\ InSchedule(Top) /\ frames' = Front(frames) \o <<f>>
      /\ p_proc_ready' = Top.p
      /\ UNCHANGED <<ticks, blocked, no_schedule, k_reenter, masked, nested>>
  BY DEF Take, Running, UserMode, InSchedule, GotoWith
<1>2. /\ Top = frames[1] /\ Top \in Frames /\ Top.p \in 0 .. NProcs /\ Top.greatest \in Nat
      /\ ticks' \in [Procs -> Nat] /\ ticks \in [Procs -> Nat]
      /\ p_proc_ready \in Procs /\ blocked \in [Procs -> BOOLEAN]
      /\ Top.p < NProcs /\ 1 \in DOMAIN frames
  BY <1>1, InScheduleFact DEF IInv, TypeOK, FramesInv
<1>3. /\ ~blocked[Top.p]
      /\ Top.kind = "clock" => Best(Top) /\ ticks[Top.p] > Top.greatest
  BY <1>1, <1>2 DEF IInv, Resumable, Scanning
<1>4. Top.p \in Procs /\ ticks[Top.p] \in Nat /\ Top.p + 1 \in 0 .. NProcs
  BY <1>2, SchedAssumption DEF Procs
<1>5. /\ f \in Frames /\ f.kind = Top.kind /\ f.pc = "compare"
      /\ f.p = Top.p + 1 /\ f.greatest = ticks[Top.p]
  <2>1. [Top EXCEPT !.pc = "compare"] \in Frames
    BY <1>2 DEF Frames, Places
  <2>2. g \in Frames /\ g.p = Top.p /\ g.kind = Top.kind /\ g.pc = "compare" /\ g.greatest = ticks[Top.p]
    BY <1>2, <1>4, <2>1 DEF Frames
  <2>3. f = [g EXCEPT !.p = @ + 1]
    BY <1>2 DEF Frames
  <2> HIDE DEF f, g
  <2> QED
    BY <1>4, <2>2, <2>3 DEF Frames
<1> HIDE DEF f, g
<1>6. /\ ~UserMode' /\ DOMAIN frames' = {1} /\ frames'[1] = f
      /\ TypeOK' /\ StackBounded' /\ FramesInv' /\ CallerKept' /\ FirstRun'
  BY <1>1, <1>2, <1>4, <1>5, ScanStep
<1>7. Resumable'
  BY <1>1, <1>3, <1>5, <1>6 DEF Resumable, InSchedule
<1>8. Scanning'
  <2>1. SUFFICES ASSUME Top.kind = "clock"
                 PROVE  Best(frames[1])'
    BY <1>5, <1>6 DEF Scanning
  <2>2. ticks[Top.p] # 0 /\ Top.p < Top.p + 1 /\ ticks[Top.p] \in Nat
    BY <1>2, <1>3, <1>4, <2>1
  <2>3. ASSUME NEW q \in Procs, q < Top.p + 1, ~blocked[q]
        PROVE  ticks[q] <= ticks[Top.p] /\ (q < Top.p => ticks[q] < ticks[Top.p])
    <3>1. q \in Int /\ Top.p \in Int /\ ticks[q] \in Nat
      BY <1>2, SchedAssumption DEF Procs
    <3>2. CASE q = Top.p
      BY <2>2, <3>1, <3>2
    <3>3. CASE q < Top.p
      <4>1. ticks[q] <= Top.greatest
        BY <1>2, <1>3, <2>1, <2>3, <3>1, <3>3 DEF Best
      <4> QED
        BY <1>2, <1>3, <2>1, <2>2, <3>1, <4>1
    <3> QED
      BY <2>3, <3>1, <3>2, <3>3
  <2> QED
    BY <1>1, <1>5, <1>6, <2>2, <2>3 DEF Best
<1> QED
  BY <1>6, <1>7, <1>8 DEF IInv

(* One turn of the loop that gives new ticks, and what follows it.         *)
LEMMA RefillStep ==
  ASSUME IInv, Refill
  PROVE  IInv'
<1>1. /\ ~UserMode /\ Top.pc = "refill" /\ InSchedule(Top)
      /\ UNCHANGED <<blocked, p_proc_ready, no_schedule, k_reenter, masked, nested>>
  BY DEF Refill, Running, UserMode, InSchedule
<1>2. /\ Top = frames[1] /\ Top \in Frames /\ Top.p \in 0 .. NProcs /\ Top.greatest \in Nat
      /\ ticks \in [Procs -> Nat] /\ p_proc_ready' \in Procs
  BY <1>1, InScheduleFact DEF IInv, TypeOK
<1>3. /\ Top.greatest > 0 => ~blocked[p_proc_ready]
      /\ Top.kind = "clock" => Top.greatest = 0
  BY <1>1, <1>2 DEF IInv, Resumable, Scanning
<1>4. CASE Top.p < NProcs
  <2> DEFINE f == [Top EXCEPT !.p = @ + 1]
  <2>1. frames' = Front(frames) \o <<f>> /\ ticks' = Refilled(Top.p)
    BY <1>4 DEF Refill, GotoWith
  <2>2. /\ f \in Frames /\ f.kind = Top.kind /\ f.pc = "refill" /\ f.greatest = Top.greatest
    <3>1. Top.p + 1 \in 0 .. NProcs
      BY <1>2, <1>4, SchedAssumption
    <3> QED
      BY <1>1, <1>2, <3>1 DEF Frames
  <2> HIDE DEF f
  <2>3. ticks' \in [Procs -> Nat]
    BY <1>2, <2>1, SchedAssumption DEF Refilled
  <2>4. /\ ~UserMode' /\ DOMAIN frames' = {1} /\ frames'[1] = f
        /\ TypeOK' /\ StackBounded' /\ FramesInv' /\ CallerKept' /\ FirstRun'
    BY <1>1, <1>2, <2>1, <2>2, <2>3, ScanStep
  <2>5. Resumable' /\ Scanning'
    BY <1>1, <1>3, <2>2, <2>4 DEF Resumable, Scanning, InSchedule
  <2> QED
    BY <2>4, <2>5 DEF IInv
<1>5. CASE ~(Top.p < NProcs)
  <2> DEFINE f == [Top EXCEPT !.pc = "compare", !.p = 0]
  <2>1. frames' = Front(frames) \o <<f>> /\ ticks' = ticks
    BY <1>5 DEF Refill, GotoWith
  <2>2. /\ f \in Frames /\ f.kind = Top.kind /\ f.pc = "compare" /\ f.p = 0
        /\ f.greatest = Top.greatest
    <3>1. [Top EXCEPT !.pc = "compare"] \in Frames
      BY <1>2 DEF Frames, Places
    <3>2. 0 \in 0 .. NProcs
      BY SchedAssumption
    <3>3. f \in Frames
      BY <3>1, <3>2 DEF Frames
    <3> QED
      BY <1>2, <3>3 DEF Frames
  <2> HIDE DEF f
  <2>3. ticks' \in [Procs -> Nat]
    BY <1>2, <2>1
  <2>4. /\ ~UserMode' /\ DOMAIN frames' = {1} /\ frames'[1] = f
        /\ TypeOK' /\ StackBounded' /\ FramesInv' /\ CallerKept' /\ FirstRun'
    BY <1>1, <1>2, <2>1, <2>2, <2>3, ScanStep
  <2>5. Resumable'
    BY <1>1, <1>3, <2>2, <2>4 DEF Resumable, InSchedule
  <2>6. Scanning'
    BY <1>3, <2>2, <2>4 DEF Scanning, Best, Procs
  <2> QED
    BY <2>4, <2>5, <2>6 DEF IInv
<1> QED
  BY <1>4, <1>5

(* No step of the kernel, of a process or of an interrupt breaks the       *)
(* invariant.                                                              *)
LEMMA Inductive == IInv /\ [Next]_vars => IInv'
<1> SUFFICES ASSUME IInv, [Next]_vars PROVE IInv'
  OBVIOUS
<1>1. CASE Trap
  BY <1>1, TrapStep
<1>2. CASE \E irq \in Irqs : Interrupt(irq)
  BY <1>2, InterruptStep
<1>3. CASE KernelStep
  BY <1>3, ReturnStep, PushPcbStep, ServeStep, BlockStep, HandlerStep, CountStep, TestStep,
     ScheduleStep, CompareStep, TakeStep, RefillStep DEF KernelStep
<1>4. CASE UNCHANGED vars
  BY <1>4 DEF vars, IInv, TypeOK, StackBounded, FramesInv, CallerKept, FirstRun, Resumable,
              Scanning, Best, UserMode, InSchedule
<1> QED
  BY <1>1, <1>2, <1>3, <1>4 DEF Next

(* The invariant holds in every reachable state.                           *)
LEMMA InvariantHolds == Spec => []IInv
  BY InitInv, Inductive, PTL DEF Spec

-----------------------------------------------------------------------------
(* The kernel stack holds one system call and one frame of each interrupt  *)
(* at most, whatever the number of interrupts, and k_reenter counts them   *)
(* (save, restart).                                                        *)
THEOREM StackAlwaysBounded == Spec => []StackBounded
<1>1. IInv => StackBounded
  BY DEF IInv
<1> QED
  BY <1>1, InvariantHolds, PTL

(* schedule(), called by the clock and by block(), is never interrupted by *)
(* itself.                                                                 *)
THEOREM AlwaysOneScheduler == Spec => []OneScheduler
<1>1. IInv => OneScheduler
  BY DEF IInv, FramesInv, OneScheduler
<1> QED
  BY <1>1, InvariantHolds, PTL

(* A system call works on the PCB of the process that made it (sys_Call).  *)
THEOREM CallerAlwaysKept == Spec => []CallerKept
<1>1. IInv => CallerKept
  BY DEF IInv
<1> QED
  BY <1>1, InvariantHolds, PTL

(* restart never loads a blocked process, even when the first call of      *)
(* schedule() does not choose one.                                         *)
THEOREM AlwaysReadyToRun == Spec => []ReadyToRun
<1>1. IInv => ReadyToRun
  <2> SUFFICES ASSUME IInv, UserMode \/ (Len(frames) = 1 /\ Top.pc = "return")
               PROVE  ~blocked[p_proc_ready]
    BY DEF ReadyToRun
  <2>1. CASE UserMode
    BY <2>1 DEF IInv, Resumable
  <2>2. CASE ~UserMode
    <3>1. Top = frames[1] /\ Top.pc = "return"
      BY <2>2, TopPlace DEF UserMode
    <3> QED
      BY <3>1 DEF IInv, Resumable, InSchedule
  <2> QED
    BY <2>1, <2>2
<1> QED
  BY <1>1, InvariantHolds, PTL

-----------------------------------------------------------------------------
(* A clock's schedule() only returns from its loop at the end of the table,*)
(* with what Best says of the whole of it.                                 *)
LEMMA ChoosingStep ==
  ASSUME IInv, [Next]_vars, Running("compare"), Top.kind = "clock", Running("return")'
  PROVE  FirstGreatest(p_proc_ready)
<1>1. ~UserMode /\ Top.pc = "compare" /\ InSchedule(Top)
  BY DEF Running, UserMode, InSchedule
<1>2. /\ Top = frames[1] /\ Top \in Frames /\ Top.p \in 0 .. NProcs /\ Top.greatest \in Nat
      /\ Len(frames) = 1 /\ ticks \in [Procs -> Nat] /\ p_proc_ready \in Procs
  BY <1>1, InScheduleFact DEF IInv, TypeOK, Frames
<1>3. Top' = Last(frames') /\ Top'.pc = "return"
  BY DEF Top, Running
<1>4. Compare
  <2>1. CASE Trap
    BY <1>1, <2>1 DEF Trap
  <2>2. ASSUME NEW irq \in Irqs, Interrupt(irq)
        PROVE  FALSE
    <3> DEFINE f == Frame(irq, IF irq = "clock" THEN "count" ELSE "handler")
    <3>1. f.pc # "return"
      BY DEF f, Frame
    <3>2. frames' = Append(frames, f) /\ frames \in Seq(Frames)
      BY <2>2 DEF Interrupt, IInv, TypeOK
    <3> HIDE DEF f
    <3>3. Last(frames') = f
      BY <1>2, <3>2 DEF Last
    <3> QED
      BY <1>3, <3>1, <3>3
  <2>3. CASE KernelStep
    BY <1>1, <2>3
    DEF KernelStep, Return, PushPcb, Serve, Block, Handler, Count, Test, Schedule, Take, Refill,
        Running
  <2>4. CASE UNCHANGED vars
    BY <1>1, <1>3, <2>4 DEF vars, Top
  <2> QED
    BY <2>1, <2>2, <2>3, <2>4 DEF Next
<1>5. ASSUME NEW f \in Frames, frames' = Front(frames) \o <<f>>
      PROVE  Top' = f
  <2>1. /\ frames \in Seq(Frames) /\ frames # <<>>
    BY <1>1 DEF IInv, TypeOK, UserMode
  <2>2. Len(frames') = 1 /\ frames'[1] = f
    BY <1>2, <1>5, <2>1, TopChanged
  <2> QED
    BY <1>3, <2>2 DEF Last
<1>6. ~(Top.p < NProcs) /\ Top.greatest # 0
  <2>1. CASE Top.p < NProcs /\ Better(Top.p, Top.greatest)
    <3>1. [Top EXCEPT !.pc = "take"] \in Frames /\ [Top EXCEPT !.pc = "take"].pc = "take"
      BY <1>2 DEF Frames, Places
    <3> QED
      BY <1>3, <1>4, <1>5, <2>1, <3>1 DEF Compare, Goto
  <2>2. CASE Top.p < NProcs /\ ~Better(Top.p, Top.greatest)
    <3>1. Top.p + 1 \in 0 .. NProcs
      BY <1>2, <2>2, SchedAssumption
    <3>2. [Top EXCEPT !.p = @ + 1] \in Frames /\ [Top EXCEPT !.p = @ + 1].pc = "compare"
      BY <1>1, <1>2, <3>1 DEF Frames
    <3> QED
      BY <1>3, <1>4, <1>5, <2>2, <3>2 DEF Compare, GotoWith
  <2>3. CASE ~(Top.p < NProcs) /\ Top.greatest = 0
    <3> DEFINE f == [Top EXCEPT !.pc = "refill", !.p = 0]
    <3>1. [Top EXCEPT !.pc = "refill"] \in Frames /\ 0 \in 0 .. NProcs
      BY <1>2, SchedAssumption DEF Frames, Places
    <3>2. f \in Frames /\ f.pc = "refill"
      BY <3>1 DEF Frames
    <3>3. frames' = Front(frames) \o <<f>>
      BY <1>4, <2>3 DEF Compare, GotoWith
    <3> QED
      BY <1>3, <1>5, <3>2, <3>3
  <2> QED
    BY <2>1, <2>2, <2>3
<1>7. Best(Top) /\ ~blocked[p_proc_ready]
  BY <1>1, <1>2, <1>6 DEF IInv, Scanning, Resumable
<1>8. \A q \in Procs : q < Top.p
  BY <1>2, <1>6, SchedAssumption DEF Procs
<1> QED
  BY <1>2, <1>6, <1>7, <1>8 DEF Best, FirstGreatest

(* What the clock's schedule() chooses has the most ticks of all that are  *)
(* not blocked and is the first of those, although clock interrupts that   *)
(* nest into the loop count ticks down meanwhile.                          *)
THEOREM AlwaysGreatestChosen == Spec => GreatestChosen
<1>1. IInv /\ [Next]_vars =>
        (Running("compare") /\ Top.kind = "clock" /\ Running("return")' => FirstGreatest(p_proc_ready))
  BY ChoosingStep
<1> QED
  BY <1>1, InvariantHolds, PTL DEF Spec, GreatestChosen
=============================================================================
