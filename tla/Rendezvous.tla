----------------------------- MODULE Rendezvous -----------------------------
(***************************************************************************)
(* What kernel/ipc.c promises the processes that call send_recv(): a       *)
(* message moves from a sender to a receiver in one step, when both are    *)
(* there; whoever comes first waits, senders in the order they came; a     *)
(* send that would close a circle of waiting senders stops the machine.    *)
(*                                                                         *)
(* There is no process table, no pointer and no scheduler here.  Ipc       *)
(* implements this module: IpcRefinement gives the mapping.                *)
(***************************************************************************)
EXTENDS Sequences, SequencesExt

CONSTANTS Procs, Callers, Bodies, ZeroMessage, ANY

VARIABLES
  line,    \* line[d]: the senders waiting for d, in order of arrival
  await,   \* await[p]: the set of senders p waits for; {} when it does not
  buf,     \* buf[p]: the Message in the memory of p
  halted

rvars == <<line, await, buf, halted>>

RInit ==
  /\ line   = [d \in Procs |-> <<>>]
  /\ await  = [p \in Procs |-> {}]
  /\ buf    = [p \in Procs |-> ZeroMessage]
  /\ halted = FALSE

(* p is executing its program.                                             *)
Free(p) ==
  /\ await[p] = {}
  /\ \A d \in Procs : ~Contains(line[d], p)

WritesOwn(p, m) ==
  /\ buf' = [buf EXCEPT ![p] = m]
  /\ UNCHANGED <<line, await, halted>>

(* Sending p -> d would leave a set of senders that wait for each other.   *)
ClosesCircle(p, d) ==
  \E S \in SUBSET Procs :
    /\ {p, d} \subseteq S
    /\ \A q \in S \ {p} : \E e \in S : Contains(line[e], q)

Signed(p) == [buf EXCEPT ![p].source = p]

Delivers(p, d) ==
  /\ p \in await[d]
  /\ buf' = [Signed(p) EXCEPT ![d] = Signed(p)[p]]
  /\ await' = [await EXCEPT ![d] = {}]
  /\ UNCHANGED <<line, halted>>
  /\ ~ClosesCircle(p, d)

JoinsLine(p, d) ==
  /\ p \notin await[d]
  /\ buf' = Signed(p)
  /\ line' = [line EXCEPT ![d] = Append(@, p)]
  /\ UNCHANGED <<await, halted>>
  /\ ~ClosesCircle(p, d)

Halts(p, d) ==
  /\ buf' = Signed(p)
  /\ halted' = TRUE
  /\ UNCHANGED <<line, await>>
  /\ ClosesCircle(p, d)

(* The first sender in the line of p that is in from.                      *)
Takes(p, from) ==
  /\ \E i \in DOMAIN line[p] :
       /\ line[p][i] \in from
       /\ \A j \in 1..(i - 1) : line[p][j] \notin from
       /\ buf' = [buf EXCEPT ![p] = buf[line[p][i]]]
       /\ line' = [line EXCEPT ![p] = RemoveAt(@, i)]
  /\ UNCHANGED <<await, halted>>

Waits(p, from) ==
  /\ \A i \in DOMAIN line[p] : line[p][i] \notin from
  /\ buf' = Signed(p)
  /\ await' = [await EXCEPT ![p] = from]
  /\ UNCHANGED <<line, halted>>

(* The sets of senders a receiver can ask for: one process, or ANY.        *)
Sources(p) == {{q} : q \in Procs \ {p}} \cup {Procs}

RNext ==
  \E p \in Callers :
    /\ ~halted /\ Free(p)
    /\ \/ \E m \in {ZeroMessage} \cup {[buf[p] EXCEPT !.body = b] : b \in Bodies} :
            WritesOwn(p, m)
       \/ \E d \in Procs \ {p} : Delivers(p, d) \/ JoinsLine(p, d) \/ Halts(p, d)
       \/ \E from \in Sources(p) : Takes(p, from) \/ Waits(p, from)

RSpec == RInit /\ [][RNext]_rvars
=============================================================================
