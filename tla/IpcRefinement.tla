--------------------------- MODULE IpcRefinement ---------------------------
(***************************************************************************)
(* Ipc implements Rendezvous.  The line of senders is read off the process *)
(* table by following q_sending and next_sending as msg_send() does.       *)
(***************************************************************************)
EXTENDS Ipc, Integers, Sequences, FiniteSets

(* A list that starts at first and goes on along next visits s in turn.    *)
Linked(s, first, next) ==
  /\ s[1] = first
  /\ \A i \in DOMAIN s : next[s[i]] = IF i < Len(s) THEN s[i + 1] ELSE NULL

(* The members of S in the order of that list.                             *)
InOrder(S, first, next) ==
  IF first = NULL THEN <<>>
  ELSE CHOOSE s \in [1 .. Cardinality(S) -> S] : Linked(s, first, next)

lineBar  == [d \in Procs |-> InOrder(Senders(d), q_sending[d], next_sending)]
awaitBar == [p \in Procs |->
               IF p_recvfrom[p] = NO_TASK THEN {}
               ELSE IF p_recvfrom[p] = ANY THEN Procs ELSE {p_recvfrom[p]}]

R == INSTANCE Rendezvous WITH
       line <- lineBar, await <- awaitBar, halted <- (cpu = "hlt")

(* Every system call of the code, with its lists, flags and scheduling, is *)
(* a step of Rendezvous or changes nothing a process can see: messages are *)
(* taken in the order of arrival among those the receiver asked for, none  *)
(* is lost, duplicated or altered on the way, and deadlock() stops the     *)
(* machine exactly when the senders would wait for each other.             *)
Implements == R!RSpec
=============================================================================
