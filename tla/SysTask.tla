------------------------------ MODULE SysTask ------------------------------
(***************************************************************************)
(* The ticks service: taskSYS() of kernel/systask.c and the clients that   *)
(* call m_getTicks(), as programs over the system calls of Ipc.  Between   *)
(* any two of their steps the clock may come and give the processor to     *)
(* another process.                                                        *)
(***************************************************************************)
EXTENDS Ipc, Integers

CONSTANTS
  SYS,       \* TASK_SYS
  Clients,   \* the processes that call m_getTicks()
  MaxTicks   \* bound of the counter of clock interrupts

ASSUME SysTaskAssumption ==
  /\ MaxTicks \in Nat
  /\ Callers = Clients \cup {SYS} /\ SYS \notin Clients
  /\ Bodies = [type : {"ZERO", "GET_TICKS"}, RETVAL : 0 .. MaxTicks]
  /\ Zero = [type |-> "ZERO", RETVAL |-> 0]

VARIABLES
  ticks,   \* the counter clockHandler() increments
  pc,      \* what a process does next
  src,     \* the variable src of taskSYS()
  asked    \* ticks when m_getTicks() was called (history variable)

svars == <<vars, ticks, pc, src, asked>>

SInit ==
  /\ Init
  /\ ticks = 0
  /\ pc = [p \in Callers |-> IF p = SYS THEN "reset" ELSE "call"]
  /\ src = FirstProc
  /\ asked = [p \in Clients |-> 0]

At(p, l) == pc[p] = l
Goto(p, l) == pc' = [pc EXCEPT ![p] = l]

(* clockHandler(): count, then schedule or go on with the same process.    *)
Clock ==
  /\ ClockSchedule \/ (cpu = "run" /\ UNCHANGED vars)
  /\ ticks' = IF ticks < MaxTicks THEN ticks + 1 ELSE ticks
  /\ UNCHANGED <<pc, src, asked>>

-----------------------------------------------------------------------------
(* m_getTicks()                                                            *)

(* reset_msg(&msg); msg.type = GET_TICKS.                                  *)
Request(p) ==
  /\ At(p, "call")
  /\ Calls(p)
  /\ buf' = [buf EXCEPT ![p] = [ZeroMessage EXCEPT !.body.type = "GET_TICKS"]]
  /\ asked' = [asked EXCEPT ![p] = ticks]
  /\ Goto(p, "send")
  /\ UNCHANGED <<pcb, sched, cpu, ticks, src>>

(* Mutant: SEND_RECV does not wait for the answer.                         *)
AfterSendReturn == "return"

(* What send_recv(SEND_RECV, ...) does when its SEND is over.              *)
AfterSend == "receive"

AskSend(p) ==
  /\ At(p, "send")
  /\ Send(p, SYS)
  /\ Goto(p, AfterSend)
  /\ UNCHANGED <<ticks, src, asked>>

AskReceive(p) ==
  /\ At(p, "receive")
  /\ Receive(p, SYS)
  /\ Goto(p, "return")
  /\ UNCHANGED <<ticks, src, asked>>

(* return msg.RETVAL.                                                      *)
Result(p) ==
  /\ At(p, "return")
  /\ Calls(p)
  /\ Goto(p, "call")
  /\ UNCHANGED <<vars, ticks, src, asked>>

Client(p) == Request(p) \/ AskSend(p) \/ AskReceive(p) \/ Result(p)

-----------------------------------------------------------------------------
(* taskSYS()                                                               *)

(* The MemSet() of send_recv(RECEIVE, ANY, &msg).                          *)
SysReset ==
  /\ At(SYS, "reset")
  /\ UserReset(SYS)
  /\ Goto(SYS, "receive")
  /\ UNCHANGED <<ticks, src, asked>>

SysReceive ==
  /\ At(SYS, "receive")
  /\ Receive(SYS, ANY)
  /\ Goto(SYS, "switch")
  /\ UNCHANGED <<ticks, src, asked>>

(* Mutant: the previous requester is answered.                             *)
RequesterPrevious == src

(* int src = msg.source.                                                   *)
Requester == buf[SYS].source

(* Mutant: RETVAL is left as the client sent it.                           *)
AnswerUnset == buf[SYS].body

(* msg.RETVAL = ticks.                                                     *)
Answer == [buf[SYS].body EXCEPT !.RETVAL = ticks]

(* switch (msg.type): GET_TICKS is answered, anything else is a panic.     *)
SysSwitch ==
  /\ At(SYS, "switch")
  /\ Calls(SYS)
  /\ src' = Requester
  /\ IF buf[SYS].body.type = "GET_TICKS"
     THEN buf' = [buf EXCEPT ![SYS].body = Answer] /\ Goto(SYS, "send") /\ UNCHANGED cpu
     ELSE cpu' = "hlt" /\ UNCHANGED <<buf, pc>>
  /\ UNCHANGED <<pcb, sched, ticks, asked>>

SysSend ==
  /\ At(SYS, "send")
  /\ Send(SYS, src)
  /\ Goto(SYS, "reset")
  /\ UNCHANGED <<ticks, src, asked>>

Sys == SysReset \/ SysReceive \/ SysSwitch \/ SysSend

-----------------------------------------------------------------------------
SNext == Clock \/ Sys \/ \E p \in Clients : Client(p)

(* Sched shows that a process that is not blocked is given the processor   *)
(* again and again; while it has it, it executes its program.              *)
SFairness ==
  /\ \A p \in Procs : SF_svars(Clock /\ p_proc_ready' = p)
  /\ \A p \in Clients : SF_svars(Client(p))
  /\ SF_svars(Sys)

SSpec == SInit /\ [][SNext]_svars /\ SFairness

-----------------------------------------------------------------------------
(* Properties                                                              *)

(* The machine never stops: neither does deadlock() find a circle, although *)
(* the server may block sending to a client that is still about to receive, *)
(* nor does taskSYS() ever get a message that is not a request.            *)
NeverHalts == cpu = "run"

(* m_getTicks() returns the value the counter had at a moment between its  *)
(* call and its return, never a stale one or one meant for somebody else.  *)
TicksFresh ==
  \A p \in Clients : (At(p, "return") /\ p_flags[p] = {}) =>
    /\ buf[p].source = SYS
    /\ asked[p] <= buf[p].body.RETVAL /\ buf[p].body.RETVAL <= ticks

(* While taskSYS() holds an answer, the client it is for waits for it, and *)
(* has not been given the answer before.                                   *)
AnswerExpected ==
  At(SYS, "send") => /\ src \in Clients
                     /\ \/ At(src, "receive") /\ ~Sending(src)
                        \/ At(src, "return") /\ Receiving(src)

(* Every call of m_getTicks() returns.                                     *)
Answered == \A p \in Clients : At(p, "send") ~> At(p, "call")

-----------------------------------------------------------------------------
(* The inductive invariant behind the safety properties                    *)

STypeOK ==
  /\ ticks \in 0 .. MaxTicks
  /\ pc \in [Callers -> {"call", "send", "receive", "return", "reset", "switch"}]
  /\ src \in Procs
  /\ asked \in [Clients -> 0 .. MaxTicks]

OthersFree == \A p \in Procs \ Callers : p_flags[p] = {}

(* A moment of the call of c is the one at which the counter was v.        *)
InTime(c, v) == asked[c] <= v /\ v <= ticks

(* taskSYS() has taken the request of c and has not answered it.           *)
Pending(c) == (At(c, "receive") /\ ~Sending(c)) \/ (At(c, "return") /\ Receiving(c))

ClientOk(c) ==
  /\ pc[c] \in {"call", "send", "receive", "return"}
  /\ Sending(c) => At(c, "receive") /\ p_sendto[c] = SYS
  /\ Receiving(c) => At(c, "return") /\ p_recvfrom[c] = SYS
  /\ At(c, "send") \/ Sending(c) => buf[c].body.type = "GET_TICKS"
  /\ Sending(c) => buf[c].source = c
  /\ asked[c] <= ticks
  /\ At(c, "return") /\ ~Receiving(c) => buf[c].source = SYS /\ InTime(c, buf[c].body.RETVAL)

ClientInv == \A c \in Clients : ClientOk(c)

ServerInv ==
  /\ pc[SYS] \in {"reset", "receive", "switch", "send"}
  /\ Sending(SYS) =>
       /\ At(SYS, "reset")
       /\ p_sendto[SYS] \in Clients
       /\ At(p_sendto[SYS], "receive") /\ ~Sending(p_sendto[SYS])
       /\ buf[SYS].source = SYS
       /\ InTime(p_sendto[SYS], buf[SYS].body.RETVAL)
  /\ Receiving(SYS) => At(SYS, "switch") /\ p_recvfrom[SYS] = ANY
  /\ At(SYS, "switch") /\ ~Receiving(SYS) =>
       /\ buf[SYS].source \in Clients
       /\ Pending(buf[SYS].source)
       /\ buf[SYS].body.type = "GET_TICKS"
  /\ At(SYS, "send") =>
       /\ src \in Clients
       /\ Pending(src)
       /\ InTime(src, buf[SYS].body.RETVAL)

SInv == STypeOK /\ IInv /\ NeverHalts /\ OthersFree /\ ClientInv /\ ServerInv
=============================================================================
