-------------------------------- MODULE Ipc --------------------------------
(***************************************************************************)
(* The kernel half of message passing: sys_sendrec(), msg_send(),          *)
(* msg_receive() and deadlock() of kernel/ipc.c over the fields they share *)
(* in the process table (PCB in include/type.h).                           *)
(*                                                                         *)
(* A system call is one action.  It runs on the kernel stack with          *)
(* k_reenter = 0, where an interrupt may nest but clockHandler() returns   *)
(* without calling schedule(), so no other process touches these fields    *)
(* before the call ends.  Between two calls the clock may hand the         *)
(* processor to any process that is not blocked: that is the concurrency   *)
(* of this module.  schedule() is abstracted to the choice of a process    *)
(* with p_flags = 0; module Sched models how it chooses.                   *)
(*                                                                         *)
(* q_sending / next_sending are the linked lists of the code.  What a loop *)
(* over such a list reaches is given as a least closed set, so that the    *)
(* module has no recursion and IpcProofs can reason about it.              *)
(***************************************************************************)

CONSTANTS
  Procs,      \* the entries of procTable
  FirstProc,  \* procTable[0], running taskTTY
  Callers,    \* the processes whose program calls sendrec()
  Bodies,     \* what a Message carries apart from its source
  Zero,       \* the body of a Message that was never written (.bss)
  ANY,        \* receive from whoever comes first
  NO_TASK,    \* p_sendto / p_recvfrom of a process that is not blocked
  NULL        \* the null pointer

(* kernel_main() starts procTable[0], and taskTTY never calls send_recv(). *)
ASSUME ConstantsAssumption ==
  /\ FirstProc \in Procs
  /\ Callers \subseteq Procs \ {FirstProc}
  /\ Zero \in Bodies
  /\ ANY \notin Procs /\ NO_TASK \notin Procs /\ NULL \notin Procs
  /\ ANY # NO_TASK

VARIABLES
  p_flags,       \* p_flags[p]: the set of the flag bits that are on
  p_sendto,
  p_recvfrom,
  p_msg,         \* the process whose Message buffer p_msg points to, or NULL
  q_sending,     \* first process waiting to send to this one, or NULL
  next_sending,  \* next process waiting for the same receiver, or NULL
  buf,           \* buf[p]: the Message buffer in the memory of process p
  p_proc_ready,  \* the process that returns from the kernel
  no_schedule,   \* TRUE until schedule() was called once
  cpu            \* "hlt" once panic() stopped the machine

pcb   == <<p_flags, p_sendto, p_recvfrom, p_msg, q_sending, next_sending>>
sched == <<p_proc_ready, no_schedule>>
vars  == <<pcb, buf, sched, cpu>>

Flags    == {"SENDING", "RECEIVING"}
Messages == [source : Procs, body : Bodies]

(* A Message of zeroes: its source reads as pid 0, the pid of FirstProc.   *)
ZeroMessage == [source |-> FirstProc, body |-> Zero]

TypeOK ==
  /\ p_flags      \in [Procs -> SUBSET Flags]
  /\ p_sendto     \in [Procs -> Procs \cup {NO_TASK}]
  /\ p_recvfrom   \in [Procs -> Procs \cup {ANY, NO_TASK}]
  /\ p_msg        \in [Procs -> Procs \cup {NULL}]
  /\ q_sending    \in [Procs -> Procs \cup {NULL}]
  /\ next_sending \in [Procs -> Procs \cup {NULL}]
  /\ buf          \in [Procs -> Messages]
  /\ p_proc_ready \in Procs
  /\ no_schedule  \in BOOLEAN
  /\ cpu          \in {"run", "hlt"}

Init ==
  /\ p_flags      = [p \in Procs |-> {}]
  /\ p_sendto     = [p \in Procs |-> NO_TASK]
  /\ p_recvfrom   = [p \in Procs |-> NO_TASK]
  /\ p_msg        = [p \in Procs |-> NULL]
  /\ q_sending    = [p \in Procs |-> NULL]
  /\ next_sending = [p \in Procs |-> NULL]
  /\ buf          = [p \in Procs |-> ZeroMessage]
  /\ p_proc_ready = FirstProc
  /\ no_schedule  = TRUE
  /\ cpu          = "run"

-----------------------------------------------------------------------------
(* Chains of pointers                                                      *)

(* S contains the successor, if there is one, of each of its members.      *)
Closed(S, next) == \A p \in S : next[p] \in Procs => next[p] \in S

(* What a loop  p = start; ... p = next[p]; ...  visits.                    *)
Visited(start, next) ==
  {p \in Procs : \A S \in SUBSET Procs :
                   (start \in S /\ Closed(S, next)) => p \in S}

(* Whom each process waits for in msg_send().                              *)
SendEdge ==
  [p \in Procs |-> IF "SENDING" \in p_flags[p] THEN p_sendto[p] ELSE NO_TASK]

(* Mutant: only the destination itself is examined, not the chain.         *)
DeadlockNoWalk(src, dest) == SendEdge[dest] = src

(* deadlock(): the chain of blocked senders from dest leads back to src.   *)
Deadlock(src, dest) == \E p \in Visited(dest, SendEdge) : SendEdge[p] = src

(* The processes on the sending queue of d.                                *)
Queue(d) ==
  IF q_sending[d] = NULL THEN {} ELSE Visited(q_sending[d], next_sending)

LastInQueue(d)      == CHOOSE p \in Queue(d) : next_sending[p] = NULL
Predecessor(d, src) == CHOOSE p \in Queue(d) : next_sending[p] = src

-----------------------------------------------------------------------------
(* Scheduling, as far as message passing depends on it                     *)

(* Mutant: p_flags is not looked at.                                       *)
RunnableAll == Procs

Runnable == {p \in Procs : p_flags[p] = {}}

(* schedule(): its very first call only clears no_schedule.                *)
Schedule ==
  \/ /\ no_schedule
     /\ no_schedule' = FALSE
     /\ UNCHANGED p_proc_ready
  \/ /\ ~no_schedule
     /\ p_proc_ready' \in Runnable'
     /\ UNCHANGED no_schedule

(* The clock interrupts user code and clockHandler() calls schedule().     *)
ClockSchedule ==
  /\ cpu = "run"
  /\ UNCHANGED <<pcb, buf, cpu>>
  /\ Schedule

-----------------------------------------------------------------------------
(* sys_sendrec                                                             *)

(* p is in user mode and may execute the int instruction.                  *)
Calls(p) == cpu = "run" /\ p = p_proc_ready /\ p \in Callers

(* The caller fills in its own Message before a call.                      *)
UserWrite(p, b) ==
  /\ Calls(p)
  /\ b # buf[p].body
  /\ buf' = [buf EXCEPT ![p].body = b]
  /\ UNCHANGED <<pcb, sched, cpu>>

(* reset_msg(), by which send_recv() also begins every RECEIVE.             *)
UserReset(p) ==
  /\ Calls(p)
  /\ buf' = [buf EXCEPT ![p] = ZeroMessage]
  /\ UNCHANGED <<pcb, sched, cpu>>

(* mla->source = caller, done for SEND and for RECEIVE.                    *)
Stamped(p) == [buf EXCEPT ![p].source = p]

(* Mutant: a receiver that waits for ANY is not recognised.                *)
AwaitsNotAny(d, p) == "RECEIVING" \in p_flags[d] /\ p_recvfrom[d] = p

(* d is blocked in msg_receive() and would take a message from p.          *)
Awaits(d, p) == "RECEIVING" \in p_flags[d] /\ p_recvfrom[d] \in {p, ANY}

SendPanic(p, dest) ==
  /\ Calls(p)
  /\ Deadlock(p, dest)
  /\ buf' = Stamped(p)
  /\ cpu' = "hlt"
  /\ UNCHANGED <<pcb, sched>>

(* Mutant: p_recvfrom survives the delivery.                               *)
ReleaseReceiverKeepingSource(d) ==
  /\ p_msg'      = [p_msg EXCEPT ![d] = NULL]
  /\ p_flags'    = [p_flags EXCEPT ![d] = @ \ {"RECEIVING"}]
  /\ UNCHANGED p_recvfrom

(* Mutant: the receiver keeps waiting although it has the message.         *)
ReleaseReceiverForgotten(d) == UNCHANGED <<p_msg, p_flags, p_recvfrom>>

(* The receiver d has its message.                                         *)
ReleaseReceiver(d) ==
  /\ p_msg'      = [p_msg EXCEPT ![d] = NULL]
  /\ p_flags'    = [p_flags EXCEPT ![d] = @ \ {"RECEIVING"}]
  /\ p_recvfrom' = [p_recvfrom EXCEPT ![d] = NO_TASK]

SendDirect(p, dest) ==
  /\ Calls(p)
  /\ ~Deadlock(p, dest)
  /\ Awaits(dest, p)
  /\ buf' = [Stamped(p) EXCEPT ![p_msg[dest]] = Stamped(p)[p]]
  /\ ReleaseReceiver(dest)
  /\ UNCHANGED <<p_sendto, q_sending, next_sending, sched, cpu>>

(* Mutant: the new sender goes to the front of the queue.                  *)
EnqueueFront(p, d) ==
  /\ q_sending' = [q_sending EXCEPT ![d] = p]
  /\ next_sending' = [next_sending EXCEPT ![p] = q_sending[d]]

(* Mutant: linked behind the first sender without walking to the last.     *)
EnqueueSecond(p, d) ==
  \/ /\ q_sending[d] = NULL
     /\ q_sending' = [q_sending EXCEPT ![d] = p]
     /\ next_sending' = [next_sending EXCEPT ![p] = NULL]
  \/ /\ q_sending[d] # NULL
     /\ next_sending' = [next_sending EXCEPT ![q_sending[d]] = p, ![p] = NULL]
     /\ UNCHANGED q_sending

(* Append p to the sending queue of d.                                     *)
Enqueue(p, d) ==
  \/ /\ q_sending[d] = NULL
     /\ q_sending' = [q_sending EXCEPT ![d] = p]
     /\ next_sending' = [next_sending EXCEPT ![p] = NULL]
  \/ /\ q_sending[d] # NULL
     /\ next_sending' = [next_sending EXCEPT ![LastInQueue(d)] = p, ![p] = NULL]
     /\ UNCHANGED q_sending

SendBlock(p, dest) ==
  /\ Calls(p)
  /\ ~Deadlock(p, dest)
  /\ ~Awaits(dest, p)
  /\ buf' = Stamped(p)
  /\ p_flags'  = [p_flags EXCEPT ![p] = @ \cup {"SENDING"}]
  /\ p_sendto' = [p_sendto EXCEPT ![p] = dest]
  /\ p_msg'    = [p_msg EXCEPT ![p] = p]
  /\ Enqueue(p, dest)
  /\ Schedule
  /\ UNCHANGED <<p_recvfrom, cpu>>

(* Unlink src from the sending queue of p.                                 *)
Dequeue(p, src) ==
  \/ /\ src = q_sending[p]
     /\ q_sending' = [q_sending EXCEPT ![p] = next_sending[src]]
     /\ next_sending' = [next_sending EXCEPT ![src] = NULL]
  \/ /\ src # q_sending[p]
     /\ next_sending' = [next_sending EXCEPT
          ![Predecessor(p, src)] = next_sending[src], ![src] = NULL]
     /\ UNCHANGED q_sending

(* The process msg_receive() takes a message from, when there is one.      *)
Offers(p, src) ==
  IF src = ANY
  THEN {q \in Procs : q = q_sending[p]}
  ELSE {q \in Procs : q = src /\ SendEdge[q] = p}

(* Mutant: p_sendto gets the value p_recvfrom has while waiting for anyone. *)
ReleaseSenderToAny(q) ==
  /\ p_msg'    = [p_msg EXCEPT ![q] = NULL]
  /\ p_sendto' = [p_sendto EXCEPT ![q] = ANY]
  /\ p_flags'  = [p_flags EXCEPT ![q] = @ \ {"SENDING"}]

(* The message of the sender q has been taken.                             *)
ReleaseSender(q) ==
  /\ p_msg'    = [p_msg EXCEPT ![q] = NULL]
  /\ p_sendto' = [p_sendto EXCEPT ![q] = NO_TASK]
  /\ p_flags'  = [p_flags EXCEPT ![q] = @ \ {"SENDING"}]

(* Mutant: the copy is always made from the first sender.                  *)
CopyFromFirst(p, q) == buf' = [buf EXCEPT ![p] = buf[p_msg[q_sending[p]]]]

CopyFrom(p, q) == buf' = [buf EXCEPT ![p] = buf[p_msg[q]]]

ReceiveTake(p, src) ==
  /\ Calls(p)
  /\ \E q \in Offers(p, src) :
       /\ Dequeue(p, q)
       /\ CopyFrom(p, q)
       /\ ReleaseSender(q)
  /\ UNCHANGED <<p_recvfrom, sched, cpu>>

ReceiveBlock(p, src) ==
  /\ Calls(p)
  /\ Offers(p, src) = {}
  /\ buf' = Stamped(p)
  /\ p_flags'    = [p_flags EXCEPT ![p] = @ \cup {"RECEIVING"}]
  /\ p_msg'      = [p_msg EXCEPT ![p] = p]
  /\ p_recvfrom' = [p_recvfrom EXCEPT ![p] = src]
  /\ Schedule
  /\ UNCHANGED <<p_sendto, q_sending, next_sending, cpu>>

(* sys_sendrec() asserts that a process never names itself.                *)
Send(p, dest) == SendPanic(p, dest) \/ SendDirect(p, dest) \/ SendBlock(p, dest)
Receive(p, src) == ReceiveTake(p, src) \/ ReceiveBlock(p, src)

Next ==
  \/ ClockSchedule
  \/ \E p \in Callers :
       \/ \E b \in Bodies : UserWrite(p, b)
       \/ UserReset(p)
       \/ \E d \in Procs \ {p} : Send(p, d)
       \/ \E s \in (Procs \ {p}) \cup {ANY} : Receive(p, s)

Spec == Init /\ [][Next]_vars

-----------------------------------------------------------------------------
(* Properties                                                              *)

Sending(p)   == "SENDING" \in p_flags[p]
Receiving(p) == "RECEIVING" \in p_flags[p]
Senders(d)   == {p \in Procs : Sending(p) /\ p_sendto[p] = d}

(* The assertions of msg_send() and msg_receive(): a process is free,      *)
(* blocked sending or blocked receiving, never two at once, and p_msg,     *)
(* p_sendto and p_recvfrom always agree with p_flags, so that none of the  *)
(* asserts around the copies can fail in whatever order calls are made.    *)
PcbConsistent ==
  \A p \in Procs :
    /\ Sending(p)   <=> p_sendto[p] # NO_TASK
    /\ Receiving(p) <=> p_recvfrom[p] # NO_TASK
    /\ ~(Sending(p) /\ Receiving(p))
    /\ p_msg[p] = IF p_flags[p] = {} THEN NULL ELSE p
    /\ p_sendto[p] # p /\ p_recvfrom[p] # p

(* No sender is ever lost: the list that starts at q_sending of d holds    *)
(* exactly the processes blocked sending to d, however calls, unlinking    *)
(* from the middle and appending at the end interleave.                    *)
QueueExact == \A d \in Procs : Queue(d) = Senders(d)

(* No cycle through the processes of S along next.                         *)
NoCycle(next) ==
  \A S \in SUBSET Procs : S # {} => \E p \in S : next[p] \notin S

(* The processes blocked in msg_send() never wait for each other in a      *)
(* circle; this is also why the loop of deadlock() itself terminates.      *)
NoSendCycle == NoCycle(SendEdge)

(* No wakeup is lost: a process never sleeps in msg_receive() while one it *)
(* would accept is asleep in msg_send() to it.                             *)
NoMissedRendezvous ==
  \A d, p \in Procs :
    (Receiving(d) /\ p \in Senders(d)) => p_recvfrom[d] \notin {p, ANY}

(* The process that returns to user mode is not blocked, although block()  *)
(* relies on schedule(), whose first call leaves p_proc_ready alone.       *)
RunningNotBlocked == p_flags[p_proc_ready] = {}

Delivered ==
  \A p \in Procs :
    /\ (Sending(p) /\ ~Sending(p)') => buf'[p_sendto[p]] = buf[p]
    /\ (Receiving(p) /\ ~Receiving(p)') =>
         /\ p_recvfrom[p] \in {p_proc_ready, ANY}
         /\ buf'[p] = buf'[p_proc_ready]
         /\ buf'[p].source = p_proc_ready

(* A blocked sender is released only by the step that copies its Message   *)
(* into its destination's buffer, and a blocked receiver only by the step  *)
(* in which an acceptable sender fills its own.                            *)
Handoff == [][Delivered]_vars

Undisturbed ==
  \A p \in Procs : (p_flags[p] # {} /\ buf'[p] # buf[p]) =>
                      (Receiving(p) /\ ~Receiving(p)')

(* While a process is blocked nobody touches its buffer except to deliver  *)
(* the message it waits for: p_msg stays valid until the copy.             *)
BlockedBufferStable == [][Undisturbed]_vars

Stuck(p) ==
  \E S \in SUBSET Procs :
    /\ p \in S
    /\ \A q \in S : \/ (Sending(q) /\ p_sendto[q] \in S)
                   \/ (Receiving(q) /\ p_recvfrom[q] \in S)

(* The comment of deadlock(): it checks "whether it is safe to send"; a    *)
(* process that then blocks in msg_send() is not one of a group that can   *)
(* only be released by each other.                                         *)
SafeToSend == [][\A p \in Procs : (~Sending(p) /\ Sending(p)') => ~Stuck(p)']_vars

-----------------------------------------------------------------------------
(* What is needed beside these to make the invariants inductive            *)

(* The first of a queue, and every next one, is a sender of that queue.    *)
HeadIsSender == \A d \in Procs : q_sending[d] # NULL => q_sending[d] \in Senders(d)
NextIsSender ==
  \A p \in Procs : next_sending[p] # NULL =>
    Sending(p) /\ next_sending[p] \in Senders(p_sendto[p])

(* Nobody is linked twice, and nobody is linked before the first.          *)
LinkedOnce ==
  \A p, q \in Procs :
    (next_sending[p] = next_sending[q] /\ next_sending[p] # NULL) => p = q
FirstIsFirst == \A p, d \in Procs : next_sending[p] # NULL => next_sending[p] # q_sending[d]

ListsEnd == NoCycle(next_sending)

QueueInv ==
  HeadIsSender /\ NextIsSender /\ LinkedOnce /\ FirstIsFirst /\ ListsEnd /\ QueueExact

(* block() is reached only after a first call of schedule(): until then    *)
(* the processor belongs to FirstProc, which never calls the kernel.       *)
FirstProcFirst ==
  /\ no_schedule => p_proc_ready = FirstProc
  /\ p_flags[FirstProc] = {}

IInv ==
  /\ TypeOK
  /\ PcbConsistent
  /\ QueueInv
  /\ NoSendCycle
  /\ NoMissedRendezvous
  /\ RunningNotBlocked
  /\ FirstProcFirst
=============================================================================
