--------------------------- MODULE SysTaskProofs ---------------------------
(***************************************************************************)
(* The ticks service, for any number of clients, any other processes and   *)
(* any bound of the counter, over the invariant of Ipc.                    *)
(***************************************************************************)
EXTENDS SysTask, IpcProofs

(* Who is who.                                                             *)
LEMMA ActorsFact ==
  /\ SYS \in Callers /\ SYS \in Procs /\ SYS \notin Clients
  /\ Callers \subseteq Procs /\ Clients \subseteq Callers /\ Clients \subseteq Procs
  /\ \A p \in Callers : p = SYS \/ p \in Clients
  /\ ANY \notin Procs
  BY ConstantsAssumption, SysTaskAssumption

(* The parts of a message.                                                 *)
LEMMA MessageFact ==
  ASSUME NEW m \in Messages
  PROVE  /\ m.source \in Procs /\ m.body \in Bodies
         /\ m.body.type \in {"ZERO", "GET_TICKS"} /\ m.body.RETVAL \in 0 .. MaxTicks
  BY SysTaskAssumption DEF Messages

-----------------------------------------------------------------------------
(* What the system calls of Ipc do to flags, partners and buffers          *)

(* msg_send() to a process that waits.                                     *)
LEMMA SendDirectFact ==
  ASSUME IInv, NEW p \in Callers, NEW d \in Procs \ {p}, SendDirect(p, d)
  PROVE  /\ IInv' /\ cpu' = cpu
         /\ Receiving(d) /\ ~Sending(d) /\ p_recvfrom[d] \in {p, ANY}
         /\ p_flags[p] = {} /\ p_flags'[p] = {}
         /\ p_sendto' = p_sendto
         /\ buf'[p] = [buf[p] EXCEPT !.source = p] /\ buf'[d] = buf'[p]
         /\ \A x \in Procs :
              /\ Sending(x)' <=> Sending(x)
              /\ Receiving(x)' <=> Receiving(x) /\ x # d
              /\ x # d => p_flags'[x] = p_flags[x] /\ p_recvfrom'[x] = p_recvfrom[x]
              /\ x \notin {p, d} => buf'[x] = buf[x]
<1>1. IInv'
  BY SendDirectStep
<1>2. p \in Procs /\ p_flags[p] = {}
  BY CallerFact DEF SendDirect
<1>3. /\ Receiving(d) /\ p_recvfrom[d] \in {p, ANY} /\ ~Sending(d) /\ p_msg[d] = d
  BY DEF SendDirect, Awaits, IInv, PcbConsistent, Receiving
<1>4. /\ p_flags' = [p_flags EXCEPT ![d] = @ \ {"RECEIVING"}]
      /\ p_recvfrom' = [p_recvfrom EXCEPT ![d] = NO_TASK]
      /\ buf' = [Stamped(p) EXCEPT ![d] = Stamped(p)[p]]
      /\ p_sendto' = p_sendto /\ cpu' = cpu
  BY <1>3 DEF SendDirect, ReleaseReceiver
<1>5. /\ p_flags \in [Procs -> SUBSET Flags] /\ buf \in [Procs -> Messages]
      /\ p_recvfrom \in [Procs -> Procs \cup {ANY, NO_TASK}]
  BY DEF IInv, TypeOK
<1>6. /\ Stamped(p)[p] = [buf[p] EXCEPT !.source = p]
      /\ DOMAIN Stamped(p) = Procs
      /\ \A x \in Procs \ {p} : Stamped(p)[x] = buf[x]
  BY <1>2, <1>5 DEF Stamped
<1>7. /\ buf'[p] = Stamped(p)[p] /\ buf'[d] = Stamped(p)[p]
      /\ \A x \in Procs \ {p, d} : buf'[x] = Stamped(p)[x]
  BY <1>2, <1>4, <1>6
<1> QED
  BY <1>1, <1>2, <1>3, <1>4, <1>5, <1>6, <1>7 DEF Sending, Receiving

(* msg_send() to a process that does not wait.                             *)
LEMMA SendBlockFact ==
  ASSUME IInv, NEW p \in Callers, NEW d \in Procs \ {p}, SendBlock(p, d)
  PROVE  /\ IInv' /\ cpu' = cpu
         /\ ~(Receiving(d) /\ p_recvfrom[d] \in {p, ANY})
         /\ p_flags[p] = {}
         /\ buf'[p] = [buf[p] EXCEPT !.source = p]
         /\ p_recvfrom' = p_recvfrom /\ p_sendto'[p] = d
         /\ \A x \in Procs :
              /\ Sending(x)' <=> Sending(x) \/ x = p
              /\ Receiving(x)' <=> Receiving(x)
              /\ x # p => p_flags'[x] = p_flags[x] /\ p_sendto'[x] = p_sendto[x] /\ buf'[x] = buf[x]
<1>1. IInv'
  BY SendBlockStep
<1>2. p \in Procs /\ p_flags[p] = {}
  BY CallerFact DEF SendBlock
<1>3. /\ p_flags' = [p_flags EXCEPT ![p] = @ \cup {"SENDING"}]
      /\ p_sendto' = [p_sendto EXCEPT ![p] = d]
      /\ buf' = Stamped(p) /\ p_recvfrom' = p_recvfrom /\ cpu' = cpu
      /\ ~Awaits(d, p)
  BY DEF SendBlock
<1>4. /\ p_flags \in [Procs -> SUBSET Flags] /\ buf \in [Procs -> Messages]
      /\ p_sendto \in [Procs -> Procs \cup {NO_TASK}]
  BY DEF IInv, TypeOK
<1> QED
  BY <1>1, <1>2, <1>3, <1>4 DEF Stamped, Awaits, Sending, Receiving

(* msg_receive() of a message that waits.                                  *)
LEMMA ReceiveTakeFact ==
  ASSUME IInv, NEW p \in Callers, NEW s \in (Procs \ {p}) \cup {ANY}, ReceiveTake(p, s)
  PROVE  /\ IInv' /\ cpu' = cpu
         /\ p_flags[p] = {} /\ p_flags'[p] = {}
         /\ p_recvfrom' = p_recvfrom
         /\ \E q \in Procs \ {p} :
              /\ Sending(q) /\ p_sendto[q] = p /\ s \in {q, ANY}
              /\ buf'[p] = buf[q]
              /\ \A x \in Procs :
                   /\ Sending(x)' <=> Sending(x) /\ x # q
                   /\ Receiving(x)' <=> Receiving(x)
                   /\ x # q => p_flags'[x] = p_flags[x] /\ p_sendto'[x] = p_sendto[x]
                   /\ x # p => buf'[x] = buf[x]
<1>1. IInv'
  BY ReceiveTakeStep
<1>2. p \in Procs /\ p_flags[p] = {}
  BY CallerFact DEF ReceiveTake
<1>3. PICK q \in Offers(p, s) : CopyFrom(p, q) /\ ReleaseSender(q)
  BY DEF ReceiveTake
<1>4. q \in Procs /\ Sending(q) /\ p_sendto[q] = p /\ p_msg[q] = q /\ q # p
  BY <1>2, OfferFact DEF Senders
<1>5. s \in {q, ANY}
  BY <1>3 DEF Offers
<1>6. /\ p_flags' = [p_flags EXCEPT ![q] = @ \ {"SENDING"}]
      /\ p_sendto' = [p_sendto EXCEPT ![q] = NO_TASK]
      /\ buf' = [buf EXCEPT ![p] = buf[q]]
  BY <1>3, <1>4 DEF CopyFrom, ReleaseSender
<1>7. p_recvfrom' = p_recvfrom /\ cpu' = cpu
  BY DEF ReceiveTake
<1>8. /\ p_flags \in [Procs -> SUBSET Flags] /\ buf \in [Procs -> Messages]
      /\ p_sendto \in [Procs -> Procs \cup {NO_TASK}]
  BY DEF IInv, TypeOK
<1>9. /\ buf'[p] = buf[q]
      /\ p_flags'[p] = {}
      /\ \A x \in Procs :
           /\ Sending(x)' <=> Sending(x) /\ x # q
           /\ Receiving(x)' <=> Receiving(x)
           /\ x # q => p_flags'[x] = p_flags[x] /\ p_sendto'[x] = p_sendto[x]
           /\ x # p => buf'[x] = buf[x]
  BY <1>2, <1>4, <1>6, <1>8 DEF Sending, Receiving
<1> QED
  BY <1>1, <1>2, <1>4, <1>5, <1>7, <1>9

(* msg_receive() when none does.                                           *)
LEMMA ReceiveBlockFact ==
  ASSUME IInv, NEW p \in Callers, NEW s \in (Procs \ {p}) \cup {ANY}, ReceiveBlock(p, s)
  PROVE  /\ IInv' /\ cpu' = cpu
         /\ p_flags[p] = {}
         /\ s # ANY => ~(Sending(s) /\ p_sendto[s] = p)
         /\ p_sendto' = p_sendto /\ p_recvfrom'[p] = s
         /\ \A x \in Procs :
              /\ Sending(x)' <=> Sending(x)
              /\ Receiving(x)' <=> Receiving(x) \/ x = p
              /\ x # p => p_flags'[x] = p_flags[x] /\ p_recvfrom'[x] = p_recvfrom[x] /\ buf'[x] = buf[x]
<1>1. IInv'
  BY ReceiveBlockStep
<1>2. p \in Procs /\ p_flags[p] = {}
  BY CallerFact DEF ReceiveBlock
<1>3. /\ p_flags' = [p_flags EXCEPT ![p] = @ \cup {"RECEIVING"}]
      /\ p_recvfrom' = [p_recvfrom EXCEPT ![p] = s]
      /\ buf' = Stamped(p) /\ p_sendto' = p_sendto /\ cpu' = cpu
  BY DEF ReceiveBlock
<1>4. s # ANY => ~(Sending(s) /\ p_sendto[s] = p)
  BY DEF ReceiveBlock, Offers, SendEdge, Sending
<1>5. /\ p_flags \in [Procs -> SUBSET Flags] /\ buf \in [Procs -> Messages]
      /\ p_recvfrom \in [Procs -> Procs \cup {ANY, NO_TASK}]
  BY DEF IInv, TypeOK
<1> QED
  BY <1>1, <1>2, <1>3, <1>4, <1>5 DEF Stamped, Sending, Receiving

-----------------------------------------------------------------------------
(* The steps of the programs                                               *)

(* pc when p goes on at l.                                                 *)
LEMMA GotoFact ==
  ASSUME STypeOK, NEW p \in Callers, NEW l \in {"call", "send", "receive", "return", "reset", "switch"},
         Goto(p, l)
  PROVE  /\ pc' \in [Callers -> {"call", "send", "receive", "return", "reset", "switch"}]
         /\ pc'[p] = l
         /\ \A x \in Callers : x # p => pc'[x] = pc[x]
  BY DEF STypeOK, Goto

(* kernel_main() and the beginnings of the programs.                       *)
LEMMA SInitInv == SInit => SInv
<1> SUFFICES ASSUME SInit PROVE SInv
  OBVIOUS
<1>1. IInv /\ NeverHalts
  BY InitInv DEF SInit, Init, NeverHalts
<1>2. STypeOK
  BY ActorsFact, ConstantsAssumption, SysTaskAssumption DEF SInit, STypeOK
<1>3. \A p \in Procs : p_flags[p] = {}
  BY DEF SInit, Init
<1>4. OthersFree
  BY <1>3 DEF OthersFree
<1>5. ClientInv
  BY <1>3, ActorsFact DEF SInit, ClientInv, ClientOk, At, Sending, Receiving
<1>6. ServerInv
  BY <1>3, ActorsFact DEF SInit, ServerInv, At, Sending, Receiving
<1> QED
  BY <1>1, <1>2, <1>4, <1>5, <1>6 DEF SInv

(* The clock counts, and may give the processor away.                      *)
LEMMA ClockStep ==
  ASSUME SInv, Clock
  PROVE  SInv'
<1>1. /\ UNCHANGED <<pcb, buf, cpu, pc, src, asked>>
      /\ ticks \in 0 .. MaxTicks /\ ticks' \in 0 .. MaxTicks /\ ticks <= ticks'
      /\ asked \in [Clients -> 0 .. MaxTicks]
  <2>1. UNCHANGED <<pcb, buf, cpu, pc, src, asked>>
    BY DEF Clock, ClockSchedule, vars
  <2> QED
    BY <2>1, SysTaskAssumption DEF SInv, STypeOK, Clock
<1>2. IInv'
  <2>1. CASE ClockSchedule
    BY <2>1, ClockScheduleStep DEF SInv
  <2>2. CASE UNCHANGED vars
    BY <2>2, Inductive DEF SInv
  <2> QED
    BY <2>1, <2>2 DEF Clock
<1>3. STypeOK' /\ NeverHalts' /\ OthersFree'
  BY <1>1 DEF SInv, STypeOK, NeverHalts, OthersFree, pcb
<1>4. /\ buf \in [Procs -> Messages]
      /\ \A m \in Messages : m.body.RETVAL \in 0 .. MaxTicks
  BY MessageFact DEF SInv, IInv, TypeOK
<1>5. \A c \in Clients, v \in 0 .. MaxTicks : InTime(c, v) => InTime(c, v)'
  BY <1>1 DEF InTime
<1>6. ClientInv'
  <2> SUFFICES ASSUME NEW c \in Clients
               PROVE  /\ asked[c] <= ticks'
                      /\ At(c, "return") /\ ~Receiving(c) => InTime(c, buf[c].body.RETVAL)'
    BY <1>1 DEF SInv, ClientInv, ClientOk, At, Sending, Receiving, pcb
  <2>1. asked[c] <= ticks /\ asked[c] \in 0 .. MaxTicks
    BY <1>1 DEF SInv, ClientInv, ClientOk
  <2>2. buf[c].body.RETVAL \in 0 .. MaxTicks
    BY <1>4, ActorsFact
  <2>3. At(c, "return") /\ ~Receiving(c) => InTime(c, buf[c].body.RETVAL)
    BY DEF SInv, ClientInv, ClientOk
  <2> QED
    BY <1>1, <1>5, <2>1, <2>2, <2>3
<1>7. ServerInv'
  <2>1. buf[SYS].body.RETVAL \in 0 .. MaxTicks
    BY <1>4, ActorsFact
  <2>2. \A c \in Clients : InTime(c, buf[SYS].body.RETVAL) => InTime(c, buf[SYS].body.RETVAL)'
    BY <1>1, <1>5, <2>1
  <2> QED
    BY <1>1, <2>2 DEF SInv, ServerInv, At, Sending, Receiving, Pending, pcb
<1> QED
  BY <1>2, <1>3, <1>6, <1>7 DEF SInv

(* m_getTicks() prepares its request.                                      *)
LEMMA RequestStep ==
  ASSUME SInv, NEW p \in Clients, Request(p)
  PROVE  SInv'
<1>1. /\ p \in Callers /\ p \in Procs /\ At(p, "call") /\ Calls(p)
      /\ UNCHANGED <<pcb, sched, cpu, ticks, src>>
  BY ActorsFact DEF Request
<1>2. /\ pc' \in [Callers -> {"call", "send", "receive", "return", "reset", "switch"}]
      /\ pc'[p] = "send" /\ \A x \in Callers : x # p => pc'[x] = pc[x]
  BY <1>1, GotoFact DEF Request, SInv
<1> DEFINE m == [ZeroMessage EXCEPT !.body.type = "GET_TICKS"]
<1>3. m \in Messages /\ m.body.type = "GET_TICKS"
  <2>1. ZeroMessage = [source |-> FirstProc, body |-> [type |-> "ZERO", RETVAL |-> 0]]
    BY SysTaskAssumption DEF ZeroMessage
  <2>2. m = [source |-> FirstProc, body |-> [type |-> "GET_TICKS", RETVAL |-> 0]]
    BY <2>1
  <2> QED
    BY <2>2, ConstantsAssumption, SysTaskAssumption DEF Messages
<1>4. /\ buf' \in [Procs -> Messages] /\ buf'[p] = m
      /\ \A x \in Procs : x # p => buf'[x] = buf[x]
  BY <1>1, <1>3 DEF Request, SInv, IInv, TypeOK
<1> HIDE DEF m
<1>5. /\ asked' \in [Clients -> 0 .. MaxTicks] /\ asked'[p] = ticks
      /\ \A x \in Clients : x # p => asked'[x] = asked[x]
  BY DEF Request, SInv, STypeOK
<1>6. p_flags[p] = {}
  BY <1>1, CallerFact DEF SInv
<1>7. IInv'
  BY <1>1, <1>4, PcbUntouched DEF SInv, IInv, TypeOK, RunningNotBlocked, FirstProcFirst, pcb, sched
<1>8. STypeOK' /\ NeverHalts' /\ OthersFree'
  BY <1>1, <1>2, <1>5 DEF SInv, STypeOK, NeverHalts, OthersFree, pcb
<1>9. ticks \in Int
  BY DEF SInv, STypeOK
<1>10. ClientInv'
  <2> SUFFICES ASSUME NEW c \in Clients
               PROVE  /\ pc'[c] \in {"call", "send", "receive", "return"}
                      /\ Sending(c) => pc'[c] = "receive" /\ p_sendto[c] = SYS
                      /\ Receiving(c) => pc'[c] = "return" /\ p_recvfrom[c] = SYS
                      /\ pc'[c] = "send" \/ Sending(c) => buf'[c].body.type = "GET_TICKS"
                      /\ Sending(c) => buf'[c].source = c
                      /\ asked'[c] <= ticks
                      /\ pc'[c] = "return" /\ ~Receiving(c) =>
                           buf'[c].source = SYS /\ asked'[c] <= buf'[c].body.RETVAL
                           /\ buf'[c].body.RETVAL <= ticks
    BY <1>1 DEF ClientInv, ClientOk, At, Sending, Receiving, InTime, pcb
  <2>1. CASE c = p
    BY <1>2, <1>3, <1>4, <1>5, <1>6, <1>9, <2>1 DEF Sending, Receiving
  <2>2. CASE c # p
    BY <1>2, <1>4, <1>5, <2>2, ActorsFact DEF SInv, ClientInv, ClientOk, At, InTime
  <2> QED
    BY <2>1, <2>2
<1>11. ServerInv'
  <2>1. ~Pending(p)
    BY <1>1, <1>6 DEF At, Pending, Receiving
  <2>2. \A c \in Clients : Pending(c) => Pending(c)' /\ c # p
    BY <1>1, <1>2, <2>1, ActorsFact DEF Pending, At, Sending, Receiving, pcb
  <2>3. \A c \in Clients \ {p} : \A v : InTime(c, v) => InTime(c, v)'
    BY <1>1, <1>5 DEF InTime
  <2>4. buf'[SYS] = buf[SYS] /\ pc'[SYS] = pc[SYS]
    BY <1>2, <1>4, ActorsFact
  <2>5. \A c \in Clients : At(c, "receive") => pc'[c] = "receive" /\ c # p
    BY <1>1, <1>2, ActorsFact DEF At
  <2> QED
    BY <1>1, <2>2, <2>3, <2>4, <2>5 DEF SInv, ServerInv, At, Sending, Receiving, pcb
<1> QED
  BY <1>7, <1>8, <1>10, <1>11 DEF SInv

(* A step that does not concern client c.                                  *)
LEMMA OtherClient ==
  ASSUME NEW c \in Clients, ClientOk(c), UNCHANGED ticks,
         pc'[c] = pc[c], asked'[c] = asked[c], buf'[c] = buf[c],
         Sending(c)' <=> Sending(c), Receiving(c)' <=> Receiving(c),
         p_sendto'[c] = p_sendto[c], p_recvfrom'[c] = p_recvfrom[c]
  PROVE  ClientOk(c)'
  BY DEF ClientOk, At, InTime

(* A step that does not concern taskSYS, nor takes from the client it      *)
(* serves that it waits.                                                   *)
LEMMA OtherThanServer ==
  ASSUME ServerInv, UNCHANGED <<ticks, src>>,
         pc'[SYS] = pc[SYS], buf'[SYS] = buf[SYS],
         Sending(SYS)' <=> Sending(SYS), Receiving(SYS)' <=> Receiving(SYS),
         p_sendto'[SYS] = p_sendto[SYS], p_recvfrom'[SYS] = p_recvfrom[SYS],
         \A c \in Clients :
           Pending(c) => Pending(c)' /\ asked'[c] = asked[c],
         Sending(SYS) => pc'[p_sendto[SYS]] = "receive" /\ ~Sending(p_sendto[SYS])'
  PROVE  ServerInv'
<1>1. Sending(SYS) => Pending(p_sendto[SYS])
  BY DEF ServerInv, Pending
<1> QED
  BY <1>1 DEF ServerInv, At, InTime, Sending

(* m_getTicks() returns.                                                   *)
LEMMA ResultStep ==
  ASSUME SInv, NEW p \in Clients, Result(p)
  PROVE  SInv'
<1>1. /\ p \in Callers /\ p \in Procs /\ At(p, "return") /\ Calls(p)
      /\ UNCHANGED <<vars, ticks, src, asked>>
  BY ActorsFact DEF Result
<1>2. /\ pc' \in [Callers -> {"call", "send", "receive", "return", "reset", "switch"}]
      /\ pc'[p] = "call" /\ \A x \in Callers : x # p => pc'[x] = pc[x]
  BY <1>1, GotoFact DEF Result, SInv
<1>3. p_flags[p] = {}
  BY <1>1, CallerFact DEF SInv
<1>4. IInv'
  BY <1>1, Inductive DEF SInv
<1>5. STypeOK' /\ NeverHalts' /\ OthersFree'
  BY <1>1, <1>2 DEF SInv, STypeOK, NeverHalts, OthersFree, vars, pcb
<1>6. ClientInv'
  <2> SUFFICES ASSUME NEW c \in Clients PROVE ClientOk(c)'
    BY DEF ClientInv
  <2>1. CASE c = p
    BY <1>1, <1>2, <1>3, <2>1 DEF SInv, ClientInv, ClientOk, At, Sending, Receiving, vars, pcb
  <2>2. CASE c # p
    BY <1>1, <1>2, <2>2, ActorsFact, OtherClient DEF SInv, ClientInv, Sending, Receiving, vars, pcb
  <2> QED
    BY <2>1, <2>2
<1>7. ServerInv'
  <2>1. \A c \in Clients : Pending(c) => c # p
    BY <1>1, <1>3 DEF Pending, At, Receiving
  <2>2. \A c \in Clients : Pending(c) => Pending(c)'
    BY <1>1, <1>2, <2>1, ActorsFact DEF Pending, At, Sending, Receiving, vars, pcb
  <2>3. Sending(SYS) => pc'[p_sendto[SYS]] = "receive" /\ ~Sending(p_sendto[SYS])'
    BY <1>1, <1>2, ActorsFact DEF SInv, ServerInv, At, Sending, vars, pcb
  <2> QED
    BY <1>1, <1>2, <2>2, <2>3, ActorsFact, OtherThanServer
    DEF SInv, Sending, Receiving, vars, pcb
<1> QED
  BY <1>4, <1>5, <1>6, <1>7 DEF SInv

(* deadlock() finds no circle: whoever taskSYS may be sending to does not  *)
(* send.                                                                   *)
LEMMA NoCircle ==
  ASSUME SInv, NEW p \in Callers, NEW d \in Callers,
         \/ p \in Clients /\ d = SYS /\ At(p, "send")
         \/ p = SYS /\ d \in Clients /\ ~Sending(d)
  PROVE  ~Deadlock(p, d)
<1>1. /\ p \in Procs /\ d \in Procs
      /\ \A x \in Procs : SendEdge[x] = IF Sending(x) THEN p_sendto[x] ELSE NO_TASK
  BY ActorsFact DEF SendEdge, Sending
<1>2. CASE p = SYS /\ d \in Clients /\ ~Sending(d)
  <2>1. SendEdge[d] = NO_TASK
    BY <1>1, <1>2
  <2>2. Closed({d}, SendEdge)
    BY <2>1, ConstantsAssumption DEF Closed
  <2>3. Visited(d, SendEdge) \subseteq {d}
    BY <1>1, <2>2, VisitedLeast
  <2> QED
    BY <1>1, <2>1, <2>3, ConstantsAssumption DEF Deadlock
<1>3. CASE p \in Clients /\ d = SYS /\ At(p, "send")
  <2>1. CASE ~Sending(SYS)
    <3>1. SendEdge[SYS] = NO_TASK
      BY <1>1, <1>3, <2>1
    <3>2. Closed({SYS}, SendEdge)
      BY <3>1, ConstantsAssumption DEF Closed
    <3>3. Visited(SYS, SendEdge) \subseteq {SYS}
      BY <1>1, <1>3, <3>2, VisitedLeast
    <3> QED
      BY <1>1, <1>3, <3>1, <3>3, ConstantsAssumption DEF Deadlock
  <2>2. CASE Sending(SYS)
    <3> DEFINE c == p_sendto[SYS]
    <3>1. c \in Clients /\ c \in Procs /\ At(c, "receive") /\ ~Sending(c)
      BY <2>2, ActorsFact DEF SInv, ServerInv
    <3>2. SendEdge[SYS] = c /\ SendEdge[c] = NO_TASK /\ c # p
      BY <1>1, <1>3, <2>2, <3>1 DEF At
    <3> HIDE DEF c
    <3>3. Closed({SYS, c}, SendEdge)
      BY <3>2, ConstantsAssumption DEF Closed
    <3>4. Visited(SYS, SendEdge) \subseteq {SYS, c}
      BY <1>1, <1>3, <3>1, <3>3, VisitedLeast
    <3> QED
      BY <1>1, <1>3, <3>2, <3>4, ConstantsAssumption DEF Deadlock
  <2> QED
    BY <2>1, <2>2
<1> QED
  BY <1>2, <1>3

(* The SEND of m_getTicks().                                               *)
LEMMA AskSendStep ==
  ASSUME SInv, NEW p \in Clients, AskSend(p)
  PROVE  SInv'
<1>1. /\ p \in Callers /\ p \in Procs /\ SYS \in Procs \ {p} /\ At(p, "send")
      /\ UNCHANGED <<ticks, src, asked>>
  BY ActorsFact DEF AskSend
<1>2. /\ pc' \in [Callers -> {"call", "send", "receive", "return", "reset", "switch"}]
      /\ pc'[p] = "receive" /\ \A x \in Callers : x # p => pc'[x] = pc[x]
  BY <1>1, GotoFact DEF AskSend, AfterSend, SInv
<1>3. buf[p] \in Messages /\ buf[p].body.type = "GET_TICKS"
  BY <1>1 DEF SInv, ClientInv, ClientOk, IInv, TypeOK
<1>4. \A c \in Clients : Pending(c) => c # p
  BY <1>1 DEF Pending, At
<1>5. asked[p] <= ticks
  BY DEF SInv, ClientInv, ClientOk
<1>6. CASE SendDirect(p, SYS)
  <2>1. /\ IInv' /\ cpu' = cpu
        /\ Receiving(SYS) /\ ~Sending(SYS)
        /\ p_flags[p] = {} /\ p_flags'[p] = {}
        /\ p_sendto' = p_sendto
        /\ buf'[p] = [buf[p] EXCEPT !.source = p] /\ buf'[SYS] = buf'[p]
        /\ \A x \in Procs :
              /\ Sending(x)' <=> Sending(x)
              /\ Receiving(x)' <=> Receiving(x) /\ x # SYS
              /\ x # SYS => p_flags'[x] = p_flags[x] /\ p_recvfrom'[x] = p_recvfrom[x]
              /\ x \notin {p, SYS} => buf'[x] = buf[x]
    BY <1>1, <1>6, SendDirectFact DEF SInv
  <2>2. buf'[p].source = p /\ buf'[p].body = buf[p].body
    BY <1>3, <2>1 DEF Messages
  <2>3. STypeOK' /\ NeverHalts' /\ OthersFree'
    BY <1>1, <1>2, <2>1, ActorsFact DEF SInv, STypeOK, NeverHalts, OthersFree
  <2>4. ClientOk(p)'
    BY <1>1, <1>2, <1>5, <2>1, ActorsFact DEF ClientOk, At, Sending, Receiving
  <2>5. ASSUME NEW c \in Clients, c # p PROVE ClientOk(c)'
    BY <1>1, <1>2, <2>1, <2>5, ActorsFact, OtherClient DEF SInv, ClientInv
  <2>6. At(SYS, "switch")
    BY <2>1 DEF SInv, ServerInv
  <2>7. ServerInv'
    BY <1>1, <1>2, <1>3, <2>1, <2>2, <2>6, ActorsFact
    DEF ServerInv, At, Pending, Sending, Receiving
  <2> QED
    BY <2>1, <2>3, <2>4, <2>5, <2>7 DEF SInv, ClientInv
<1>7. CASE SendBlock(p, SYS)
  <2>1. /\ IInv' /\ cpu' = cpu
        /\ p_flags[p] = {}
        /\ buf'[p] = [buf[p] EXCEPT !.source = p]
        /\ p_recvfrom' = p_recvfrom /\ p_sendto'[p] = SYS
        /\ \A x \in Procs :
              /\ Sending(x)' <=> Sending(x) \/ x = p
              /\ Receiving(x)' <=> Receiving(x)
              /\ x # p => p_flags'[x] = p_flags[x] /\ p_sendto'[x] = p_sendto[x] /\ buf'[x] = buf[x]
    BY <1>1, <1>7, SendBlockFact DEF SInv
  <2>2. buf'[p].source = p /\ buf'[p].body = buf[p].body
    BY <1>3, <2>1 DEF Messages
  <2>3. STypeOK' /\ NeverHalts' /\ OthersFree'
    BY <1>1, <1>2, <2>1, ActorsFact DEF SInv, STypeOK, NeverHalts, OthersFree
  <2>4. ClientOk(p)'
    BY <1>1, <1>2, <1>3, <1>5, <2>1, <2>2 DEF ClientOk, At, Receiving
  <2>5. ASSUME NEW c \in Clients, c # p PROVE ClientOk(c)'
    BY <1>1, <1>2, <2>1, <2>5, ActorsFact, OtherClient DEF SInv, ClientInv
  <2>6. \A c \in Clients : Pending(c) => Pending(c)'
    BY <1>2, <1>4, <2>1, ActorsFact DEF Pending, At
  <2>7. Sending(SYS) => p_sendto[SYS] \in Clients /\ At(p_sendto[SYS], "receive") /\ ~Sending(p_sendto[SYS])
    BY DEF SInv, ServerInv
  <2>8. Sending(SYS) => pc'[p_sendto[SYS]] = "receive" /\ ~Sending(p_sendto[SYS])'
    <3> SUFFICES ASSUME NEW c \in Clients, At(c, "receive"), ~Sending(c)
                 PROVE  pc'[c] = "receive" /\ ~Sending(c)'
      BY <1>1, <2>1, <2>7
    <3> QED
      BY <1>1, <1>2, <2>1, ActorsFact DEF At
  <2>9. ServerInv'
    BY <1>1, <1>2, <2>1, <2>6, <2>8, ActorsFact, OtherThanServer DEF SInv
  <2> QED
    BY <2>1, <2>3, <2>4, <2>5, <2>9 DEF SInv, ClientInv
<1> QED
  BY <1>1, <1>6, <1>7, NoCircle, ActorsFact DEF AskSend, Send, SendPanic

(* The RECEIVE of m_getTicks().                                            *)
LEMMA AskReceiveStep ==
  ASSUME SInv, NEW p \in Clients, AskReceive(p)
  PROVE  SInv'
<1>1. /\ p \in Callers /\ p \in Procs /\ SYS \in Procs \ {p} /\ At(p, "receive")
      /\ UNCHANGED <<ticks, src, asked>> /\ SYS # ANY
  BY ActorsFact DEF AskReceive
<1>2. /\ pc' \in [Callers -> {"call", "send", "receive", "return", "reset", "switch"}]
      /\ pc'[p] = "return" /\ \A x \in Callers : x # p => pc'[x] = pc[x]
  BY <1>1, GotoFact DEF AskReceive, SInv
<1>3. asked[p] <= ticks
  BY DEF SInv, ClientInv, ClientOk
<1>4. CASE ReceiveTake(p, SYS)
  <2>1. /\ IInv' /\ cpu' = cpu
        /\ p_flags[p] = {} /\ p_flags'[p] = {}
        /\ p_recvfrom' = p_recvfrom
        /\ Sending(SYS) /\ p_sendto[SYS] = p
        /\ buf'[p] = buf[SYS]
        /\ \A x \in Procs :
              /\ Sending(x)' <=> Sending(x) /\ x # SYS
              /\ Receiving(x)' <=> Receiving(x)
              /\ x # SYS => p_flags'[x] = p_flags[x] /\ p_sendto'[x] = p_sendto[x]
              /\ x # p => buf'[x] = buf[x]
    BY <1>1, <1>4, ReceiveTakeFact DEF SInv
  <2>2. /\ At(SYS, "reset") /\ ~Receiving(SYS)
        /\ buf[SYS].source = SYS /\ InTime(p, buf[SYS].body.RETVAL)
    BY <2>1 DEF SInv, ServerInv, At
  <2>3. STypeOK' /\ NeverHalts' /\ OthersFree'
    BY <1>1, <1>2, <2>1, ActorsFact DEF SInv, STypeOK, NeverHalts, OthersFree
  <2>4. ClientOk(p)'
    BY <1>1, <1>2, <1>3, <2>1, <2>2 DEF ClientOk, At, Sending, Receiving, InTime
  <2>5. ASSUME NEW c \in Clients, c # p PROVE ClientOk(c)'
    BY <1>1, <1>2, <2>1, <2>5, ActorsFact, OtherClient DEF SInv, ClientInv
  <2>6. ServerInv'
    BY <1>1, <1>2, <2>1, <2>2, ActorsFact DEF ServerInv, At
  <2> QED
    BY <2>1, <2>3, <2>4, <2>5, <2>6 DEF SInv, ClientInv
<1>5. CASE ReceiveBlock(p, SYS)
  <2>1. /\ IInv' /\ cpu' = cpu
        /\ p_flags[p] = {}
        /\ ~(Sending(SYS) /\ p_sendto[SYS] = p)
        /\ p_sendto' = p_sendto /\ p_recvfrom'[p] = SYS
        /\ \A x \in Procs :
              /\ Sending(x)' <=> Sending(x)
              /\ Receiving(x)' <=> Receiving(x) \/ x = p
              /\ x # p => p_flags'[x] = p_flags[x] /\ p_recvfrom'[x] = p_recvfrom[x] /\ buf'[x] = buf[x]
    BY <1>1, <1>5, ReceiveBlockFact DEF SInv
  <2>2. STypeOK' /\ NeverHalts' /\ OthersFree'
    BY <1>1, <1>2, <2>1, ActorsFact DEF SInv, STypeOK, NeverHalts, OthersFree
  <2>3. ClientOk(p)'
    BY <1>1, <1>2, <1>3, <2>1 DEF ClientOk, At, Sending
  <2>4. ASSUME NEW c \in Clients, c # p PROVE ClientOk(c)'
    BY <1>1, <1>2, <2>1, <2>4, ActorsFact, OtherClient DEF SInv, ClientInv
  <2>5. \A c \in Clients : Pending(c) => Pending(c)'
    BY <1>2, <2>1, ActorsFact DEF Pending, At
  <2>6. Sending(SYS) => p_sendto[SYS] \in Clients /\ At(p_sendto[SYS], "receive") /\ ~Sending(p_sendto[SYS])
    BY DEF SInv, ServerInv
  <2>7. Sending(SYS) => pc'[p_sendto[SYS]] = "receive" /\ ~Sending(p_sendto[SYS])'
    <3> SUFFICES ASSUME NEW c \in Clients, At(c, "receive"), ~Sending(c), c # p
                 PROVE  pc'[c] = "receive" /\ ~Sending(c)'
      BY <2>1, <2>6
    <3> QED
      BY <1>1, <1>2, <2>1, ActorsFact DEF At
  <2>8. ServerInv'
    BY <1>1, <1>2, <2>1, <2>5, <2>7, ActorsFact, OtherThanServer DEF SInv
  <2> QED
    BY <2>1, <2>2, <2>3, <2>4, <2>8 DEF SInv, ClientInv
<1> QED
  BY <1>4, <1>5 DEF AskReceive, Receive

-----------------------------------------------------------------------------
(* taskSYS()                                                               *)

(* The reset before its RECEIVE.                                           *)
LEMMA SysResetStep ==
  ASSUME SInv, SysReset
  PROVE  SInv'
<1>1. /\ At(SYS, "reset") /\ Calls(SYS) /\ UserReset(SYS)
      /\ UNCHANGED <<pcb, sched, cpu, ticks, src, asked>>
  BY DEF SysReset, UserReset
<1>2. /\ pc' \in [Callers -> {"call", "send", "receive", "return", "reset", "switch"}]
      /\ pc'[SYS] = "receive" /\ \A x \in Callers : x # SYS => pc'[x] = pc[x]
  BY ActorsFact, GotoFact DEF SysReset, SInv
<1>3. p_flags[SYS] = {}
  BY <1>1, ActorsFact, CallerFact DEF SInv
<1>4. \A x \in Procs \ {SYS} : buf'[x] = buf[x]
  BY <1>1 DEF UserReset, SInv, IInv, TypeOK
<1>5. IInv'
  BY <1>1, UserStep, ActorsFact DEF SInv
<1>6. STypeOK' /\ NeverHalts' /\ OthersFree'
  BY <1>1, <1>2 DEF SInv, STypeOK, NeverHalts, OthersFree, pcb
<1>7. ASSUME NEW c \in Clients PROVE ClientOk(c)'
  BY <1>1, <1>2, <1>4, ActorsFact, OtherClient DEF SInv, ClientInv, Sending, Receiving, pcb
<1>8. ServerInv'
  BY <1>1, <1>2, <1>3 DEF ServerInv, At, Sending, Receiving, pcb
<1> QED
  BY <1>5, <1>6, <1>7, <1>8 DEF SInv, ClientInv

(* Its RECEIVE takes the request of a client, or waits.                    *)
LEMMA SysReceiveStep ==
  ASSUME SInv, SysReceive
  PROVE  SInv'
<1>1. /\ SYS \in Callers /\ SYS \in Procs /\ ANY \in (Procs \ {SYS}) \cup {ANY} /\ At(SYS, "receive")
      /\ UNCHANGED <<ticks, src, asked>>
  BY ActorsFact DEF SysReceive
<1>2. /\ pc' \in [Callers -> {"call", "send", "receive", "return", "reset", "switch"}]
      /\ pc'[SYS] = "switch" /\ \A x \in Callers : x # SYS => pc'[x] = pc[x]
  BY <1>1, GotoFact DEF SysReceive, SInv
<1>3. CASE ReceiveTake(SYS, ANY)
  <2>1. /\ IInv' /\ cpu' = cpu
        /\ p_flags[SYS] = {} /\ p_flags'[SYS] = {}
        /\ p_recvfrom' = p_recvfrom
    BY <1>1, <1>3, ReceiveTakeFact DEF SInv
  <2>2. PICK q \in Procs \ {SYS} :
          /\ Sending(q) /\ p_sendto[q] = SYS
          /\ buf'[SYS] = buf[q]
          /\ \A x \in Procs :
               /\ Sending(x)' <=> Sending(x) /\ x # q
               /\ Receiving(x)' <=> Receiving(x)
               /\ x # q => p_flags'[x] = p_flags[x] /\ p_sendto'[x] = p_sendto[x]
               /\ x # SYS => buf'[x] = buf[x]
    BY <1>1, <1>3, ReceiveTakeFact DEF SInv
  <2>3. q \in Clients
    BY <2>2, ActorsFact DEF SInv, OthersFree, Sending
  <2>4. /\ At(q, "receive") /\ ~Receiving(q) /\ asked[q] <= ticks
        /\ buf[q].source = q /\ buf[q].body.type = "GET_TICKS"
    BY <2>2, <2>3 DEF SInv, ClientInv, ClientOk, At
  <2>5. NeverHalts' /\ STypeOK'
    BY <1>1, <1>2, <2>1 DEF SInv, STypeOK, NeverHalts
  <2>6. OthersFree'
    BY <2>2, <2>3, ActorsFact DEF SInv, OthersFree
  <2>7. ClientOk(q)'
    BY <1>1, <1>2, <2>2, <2>3, <2>4, ActorsFact DEF ClientOk, At
  <2>8. ASSUME NEW c \in Clients, c # q PROVE ClientOk(c)'
    BY <1>1, <1>2, <2>1, <2>2, <2>8, ActorsFact, OtherClient DEF SInv, ClientInv
  <2>9. ServerInv'
    BY <1>1, <1>2, <2>1, <2>2, <2>3, <2>4, ActorsFact DEF ServerInv, At, Pending, Sending, Receiving
  <2> QED
    BY <2>1, <2>5, <2>6, <2>7, <2>8, <2>9 DEF SInv, ClientInv
<1>4. CASE ReceiveBlock(SYS, ANY)
  <2>1. /\ IInv' /\ cpu' = cpu
        /\ p_flags[SYS] = {}
        /\ p_sendto' = p_sendto /\ p_recvfrom'[SYS] = ANY
        /\ \A x \in Procs :
              /\ Sending(x)' <=> Sending(x)
              /\ Receiving(x)' <=> Receiving(x) \/ x = SYS
              /\ x # SYS => p_flags'[x] = p_flags[x] /\ p_recvfrom'[x] = p_recvfrom[x] /\ buf'[x] = buf[x]
    BY <1>1, <1>4, ReceiveBlockFact DEF SInv
  <2>2. STypeOK' /\ NeverHalts' /\ OthersFree'
    BY <1>1, <1>2, <2>1, ActorsFact DEF SInv, STypeOK, NeverHalts, OthersFree
  <2>3. ASSUME NEW c \in Clients PROVE ClientOk(c)'
    BY <1>1, <1>2, <2>1, ActorsFact, OtherClient DEF SInv, ClientInv
  <2>4. ServerInv'
    BY <1>1, <1>2, <2>1 DEF ServerInv, At, Sending
  <2> QED
    BY <2>1, <2>2, <2>3, <2>4 DEF SInv, ClientInv
<1> QED
  BY <1>3, <1>4 DEF SysReceive, Receive

(* The answer is made; what came is a request.                             *)
LEMMA SysSwitchStep ==
  ASSUME SInv, SysSwitch
  PROVE  SInv'
<1>1. /\ At(SYS, "switch") /\ Calls(SYS) /\ SYS \in Procs
      /\ UNCHANGED <<pcb, sched, ticks, asked>> /\ src' = buf[SYS].source
  BY ActorsFact DEF SysSwitch, Requester
<1>2. p_flags[SYS] = {}
  BY <1>1, ActorsFact, CallerFact DEF SInv
<1>3. buf[SYS].source \in Clients /\ Pending(buf[SYS].source) /\ buf[SYS].body.type = "GET_TICKS"
  BY <1>1, <1>2 DEF SInv, ServerInv, Receiving
<1>4. buf' = [buf EXCEPT ![SYS].body = Answer] /\ Goto(SYS, "send") /\ cpu' = cpu
  BY <1>3 DEF SysSwitch
<1>5. /\ pc' \in [Callers -> {"call", "send", "receive", "return", "reset", "switch"}]
      /\ pc'[SYS] = "send" /\ \A x \in Callers : x # SYS => pc'[x] = pc[x]
  BY <1>4, ActorsFact, GotoFact DEF SInv
<1>6. buf \in [Procs -> Messages] /\ buf[SYS] \in Messages /\ ticks \in 0 .. MaxTicks
  BY <1>1 DEF SInv, STypeOK, IInv, TypeOK
<1>7. Answer \in Bodies /\ Answer.RETVAL = ticks
  BY <1>6, SysTaskAssumption DEF Answer, Messages
<1>8. /\ buf' \in [Procs -> Messages] /\ buf'[SYS].body = Answer
      /\ \A x \in Procs \ {SYS} : buf'[x] = buf[x]
  BY <1>1, <1>4, <1>6, <1>7 DEF Messages
<1>9. IInv'
  BY <1>1, <1>4, <1>8, PcbUntouched DEF SInv, IInv, TypeOK, RunningNotBlocked, FirstProcFirst, pcb, sched
<1>10. STypeOK' /\ NeverHalts' /\ OthersFree'
  BY <1>1, <1>3, <1>4, <1>5, ActorsFact DEF SInv, STypeOK, NeverHalts, OthersFree, pcb
<1>11. ASSUME NEW c \in Clients PROVE ClientOk(c)'
  BY <1>1, <1>5, <1>8, ActorsFact, OtherClient DEF SInv, ClientInv, Sending, Receiving, pcb
<1>12. ServerInv'
  <2>1. PICK c \in Clients : c = buf[SYS].source
    BY <1>3
  <2>2. Pending(c)'
    BY <1>1, <1>3, <1>5, <2>1, ActorsFact DEF Pending, At, Sending, Receiving, pcb
  <2>3. InTime(c, ticks)'
    BY <1>1, <1>6 DEF SInv, ClientInv, ClientOk, InTime
  <2>4. src' = c /\ buf'[SYS].body.RETVAL = ticks /\ ~Sending(SYS)' /\ ~Receiving(SYS)'
    BY <1>1, <1>2, <1>7, <1>8, <2>1 DEF Sending, Receiving, pcb
  <2> QED
    BY <1>1, <1>5, <2>2, <2>3, <2>4 DEF ServerInv, At, InTime
<1> QED
  BY <1>9, <1>10, <1>11, <1>12 DEF SInv, ClientInv

(* The answer goes to the client that waits for it.                        *)
LEMMA SysSendStep ==
  ASSUME SInv, SysSend
  PROVE  SInv'
<1>1. /\ SYS \in Callers /\ SYS \in Procs /\ At(SYS, "send")
      /\ UNCHANGED <<ticks, src, asked>>
  BY ActorsFact DEF SysSend
<1>2. /\ pc' \in [Callers -> {"call", "send", "receive", "return", "reset", "switch"}]
      /\ pc'[SYS] = "reset" /\ \A x \in Callers : x # SYS => pc'[x] = pc[x]
  BY <1>1, GotoFact DEF SysSend, SInv
<1>3. /\ src \in Clients /\ src \in Procs \ {SYS} /\ src \in Callers
      /\ Pending(src) /\ InTime(src, buf[SYS].body.RETVAL)
      /\ asked[src] <= ticks
  BY <1>1, ActorsFact DEF SInv, ServerInv, ClientInv, ClientOk
<1>4. ~Sending(src)
  BY <1>3 DEF Pending, SInv, ClientInv, ClientOk, At
<1>5. buf[SYS] \in Messages
  BY <1>1 DEF SInv, IInv, TypeOK
<1>6. CASE SendDirect(SYS, src)
  <2>1. /\ IInv' /\ cpu' = cpu
        /\ Receiving(src)
        /\ p_flags[SYS] = {} /\ p_flags'[SYS] = {}
        /\ p_sendto' = p_sendto
        /\ buf'[SYS] = [buf[SYS] EXCEPT !.source = SYS] /\ buf'[src] = buf'[SYS]
        /\ \A x \in Procs :
              /\ Sending(x)' <=> Sending(x)
              /\ Receiving(x)' <=> Receiving(x) /\ x # src
              /\ x # src => p_flags'[x] = p_flags[x] /\ p_recvfrom'[x] = p_recvfrom[x]
              /\ x \notin {SYS, src} => buf'[x] = buf[x]
    BY <1>1, <1>3, <1>6, SendDirectFact DEF SInv
  <2>2. buf'[SYS].source = SYS /\ buf'[SYS].body = buf[SYS].body
    BY <1>5, <2>1 DEF Messages
  <2>3. STypeOK' /\ NeverHalts' /\ OthersFree'
    BY <1>1, <1>2, <1>3, <2>1, ActorsFact DEF SInv, STypeOK, NeverHalts, OthersFree
  <2>4. At(src, "return")
    BY <1>3, <2>1 DEF SInv, ClientInv, ClientOk
  <2>5. ASSUME NEW c \in Clients, c = src PROVE ClientOk(c)'
    BY <1>1, <1>2, <1>3, <1>4, <2>1, <2>2, <2>4, <2>5, ActorsFact DEF ClientOk, At, InTime
  <2>6. ASSUME NEW c \in Clients, c # src PROVE ClientOk(c)'
    BY <1>1, <1>2, <2>1, <2>6, ActorsFact, OtherClient DEF SInv, ClientInv
  <2>7. ServerInv'
    BY <1>1, <1>2, <2>1 DEF ServerInv, At, Sending, Receiving
  <2> QED
    BY <2>1, <2>3, <2>5, <2>6, <2>7 DEF SInv, ClientInv
<1>7. CASE SendBlock(SYS, src)
  <2>1. /\ IInv' /\ cpu' = cpu
        /\ ~(Receiving(src) /\ p_recvfrom[src] \in {SYS, ANY})
        /\ p_flags[SYS] = {}
        /\ buf'[SYS] = [buf[SYS] EXCEPT !.source = SYS]
        /\ p_recvfrom' = p_recvfrom /\ p_sendto'[SYS] = src
        /\ \A x \in Procs :
              /\ Sending(x)' <=> Sending(x) \/ x = SYS
              /\ Receiving(x)' <=> Receiving(x)
              /\ x # SYS => p_flags'[x] = p_flags[x] /\ p_sendto'[x] = p_sendto[x] /\ buf'[x] = buf[x]
    BY <1>1, <1>3, <1>7, SendBlockFact DEF SInv
  <2>2. buf'[SYS].source = SYS /\ buf'[SYS].body = buf[SYS].body
    BY <1>5, <2>1 DEF Messages
  <2>3. STypeOK' /\ NeverHalts' /\ OthersFree'
    BY <1>1, <1>2, <1>3, <2>1, ActorsFact DEF SInv, STypeOK, NeverHalts, OthersFree
  <2>4. ASSUME NEW c \in Clients PROVE ClientOk(c)'
    BY <1>1, <1>2, <2>1, <2>4, ActorsFact, OtherClient DEF SInv, ClientInv
  <2>5. ~Receiving(src) /\ At(src, "receive")
    BY <1>3, <2>1 DEF Pending, SInv, ClientInv, ClientOk
  <2>6. ~Receiving(SYS)
    BY <2>1 DEF Receiving
  <2>7. pc'[src] = "receive" /\ ~Sending(src)'
    BY <1>1, <1>2, <1>3, <1>4, <2>1, <2>5 DEF At
  <2>8. ServerInv'
    BY <1>1, <1>2, <1>3, <2>1, <2>2, <2>6, <2>7 DEF ServerInv, At, InTime
  <2> QED
    BY <2>1, <2>3, <2>4, <2>8 DEF SInv, ClientInv
<1> QED
  BY <1>1, <1>3, <1>4, <1>6, <1>7, NoCircle DEF SysSend, Send, SendPanic

-----------------------------------------------------------------------------
(* Every step keeps the invariant.                                         *)
LEMMA SInductive == SInv /\ [SNext]_svars => SInv'
<1> SUFFICES ASSUME SInv, [SNext]_svars PROVE SInv'
  OBVIOUS
<1>1. CASE Sys
  BY <1>1, SysResetStep, SysReceiveStep, SysSwitchStep, SysSendStep DEF Sys
<1>2. ASSUME NEW p \in Clients, Client(p) PROVE SInv'
  BY <1>2, RequestStep, AskSendStep, AskReceiveStep, ResultStep DEF Client
<1>3. CASE UNCHANGED svars
  <2>1. UNCHANGED <<vars, pcb, buf, cpu, ticks, pc, src, asked>>
    BY <1>3 DEF svars, vars
  <2>2. IInv'
    BY <2>1, Inductive DEF SInv
  <2>3. \A c \in Clients : ClientOk(c)'
    BY <2>1, OtherClient DEF SInv, ClientInv, Sending, Receiving, pcb
  <2> QED
    BY <2>1, <2>2, <2>3
    DEF SInv, STypeOK, NeverHalts, OthersFree, ClientInv, ServerInv, At, Pending, InTime, Sending,
        Receiving, pcb
<1> QED
  BY <1>1, <1>2, <1>3, ClockStep DEF SNext

(* The invariant holds in every reachable state.                           *)
LEMMA SInvariantHolds == SSpec => []SInv
  BY SInitInv, SInductive, PTL DEF SSpec

(* The machine does not stop: deadlock() never finds a circle among        *)
(* taskSYS and its clients, and taskSYS only gets requests.                *)
THEOREM NeverEverHalts == SSpec => []NeverHalts
<1>1. SInv => NeverHalts
  BY DEF SInv
<1> QED
  BY <1>1, SInvariantHolds, PTL

(* What m_getTicks() returns was the counter's value during the call, for  *)
(* every client, however many others ask at the same time.                 *)
THEOREM AlwaysFresh == SSpec => []TicksFresh
<1>1. SInv => TicksFresh
  BY DEF SInv, TicksFresh, ClientInv, ClientOk, InTime, Receiving
<1> QED
  BY <1>1, SInvariantHolds, PTL

(* An answer taskSYS holds is for a client that waits for it, although its *)
(* SEND_RECV is two system calls.                                          *)
THEOREM AnswerAlwaysExpected == SSpec => []AnswerExpected
<1>1. SInv => AnswerExpected
  BY DEF SInv, AnswerExpected, ServerInv, Pending
<1> QED
  BY <1>1, SInvariantHolds, PTL
=============================================================================
