------------------------------ MODULE IpcProofs ------------------------------
(***************************************************************************)
(* Proofs about Ipc, for every process table and every set of callers, and *)
(* that it implements Rendezvous.                                          *)
(***************************************************************************)
EXTENDS IpcRefinement, SequenceTheorems, FunctionTheorems, FiniteSetTheorems, TLAPS

-----------------------------------------------------------------------------
(* Chains of pointers                                                      *)

(* A loop over a chain visits its start and stays in any set that contains *)
(* the start and is closed: Visited is the least such set.                 *)
LEMMA VisitedLeast ==
  ASSUME NEW start \in Procs, NEW next
  PROVE  /\ Visited(start, next) \subseteq Procs
         /\ start \in Visited(start, next)
         /\ Closed(Visited(start, next), next)
         /\ \A S \in SUBSET Procs :
              (start \in S /\ Closed(S, next)) => Visited(start, next) \subseteq S
BY DEF Visited, Closed

(* Where msg_send() stops its walk: the last sender of a queue that is not *)
(* empty.                                                                  *)
LEMMA LastInQueueFact ==
  ASSUME TypeOK, QueueInv, NEW d \in Procs, q_sending[d] # NULL
  PROVE  /\ LastInQueue(d) \in Senders(d)
         /\ next_sending[LastInQueue(d)] = NULL
<1> DEFINE Q == Queue(d)
<1>1. q_sending[d] \in Procs
  BY DEF TypeOK
<1>2. Q = Visited(q_sending[d], next_sending)
  BY DEF Queue
<1>3. Q \in SUBSET Procs /\ Q # {} /\ Closed(Q, next_sending)
  BY <1>1, <1>2, VisitedLeast
<1>4. PICK p \in Q : next_sending[p] \notin Q
  BY <1>3 DEF QueueInv, ListsEnd, NoCycle
<1>5. next_sending[p] = NULL
  BY <1>3, <1>4 DEF Closed, TypeOK
<1>6. LastInQueue(d) \in Q /\ next_sending[LastInQueue(d)] = NULL
  BY <1>4, <1>5 DEF LastInQueue
<1> QED
  BY <1>6 DEF QueueInv, QueueExact

(* What prev points to in msg_receive() when src is not the first sender.  *)
LEMMA PredecessorFact ==
  ASSUME TypeOK, QueueInv, NEW d \in Procs, NEW src \in Senders(d),
         src # q_sending[d]
  PROVE  /\ Predecessor(d, src) \in Senders(d)
         /\ next_sending[Predecessor(d, src)] = src
<1> DEFINE Q == Queue(d)
<1>1. Q = Senders(d)
  BY DEF QueueInv, QueueExact, Senders
<1>2. q_sending[d] # NULL /\ q_sending[d] \in Procs
  BY <1>1 DEF Queue, TypeOK
<1>3. Q = Visited(q_sending[d], next_sending)
  BY <1>2 DEF Queue
<1>4. Q \in SUBSET Procs /\ q_sending[d] \in Q /\ Closed(Q, next_sending)
  BY <1>2, <1>3, VisitedLeast
<1>5. \E p \in Q : next_sending[p] = src
  <2> SUFFICES ASSUME \A p \in Q : next_sending[p] # src
               PROVE  FALSE
    OBVIOUS
  <2>1. Closed(Q \ {src}, next_sending)
    BY <1>4 DEF Closed
  <2>2. q_sending[d] \in Q \ {src} /\ Q \ {src} \in SUBSET Procs
    BY <1>4
  <2>3. Q \subseteq Q \ {src}
    BY <1>2, <1>3, <2>1, <2>2, VisitedLeast
  <2> QED
    BY <2>3, <1>1
<1>6. Predecessor(d, src) \in Q /\ next_sending[Predecessor(d, src)] = src
  BY <1>5 DEF Predecessor
<1> QED
  BY <1>1, <1>6

-----------------------------------------------------------------------------
(* The lists and the flags                                                 *)

(* A step that neither links nor changes who sends to whom keeps the lists. *)
LEMMA QueueUntouched ==
  ASSUME QueueInv, UNCHANGED <<q_sending, next_sending, p_sendto>>,
         \A p \in Procs : Sending(p)' <=> Sending(p)
  PROVE  QueueInv'
<1>1. \A d : Senders(d)' = Senders(d) /\ Queue(d)' = Queue(d)
  BY DEF Senders, Queue, Visited, Closed
<1> QED
  BY <1>1 DEF QueueInv, HeadIsSender, NextIsSender, LinkedOnce, FirstIsFirst,
              ListsEnd, NoCycle, QueueExact

(* Appending a free process to a queue keeps the lists.                    *)
LEMMA EnqueueStep ==
  ASSUME TypeOK, QueueInv, NEW p \in Procs, NEW d \in Procs, p # d,
         p_flags[p] = {}, Enqueue(p, d),
         p_flags' = [p_flags EXCEPT ![p] = @ \cup {"SENDING"}],
         p_sendto' = [p_sendto EXCEPT ![p] = d]
  PROVE  QueueInv'
<1>1. next_sending[p] = NULL /\ \A x \in Procs : next_sending[x] # p /\ q_sending[x] # p
  <2>1. ~Sending(p) /\ \A x \in Procs : p \notin Senders(p_sendto[x]) /\ p \notin Senders(x)
    BY DEF Senders, Sending
  <2> QED
    BY <2>1, ConstantsAssumption DEF QueueInv, HeadIsSender, NextIsSender
<1>2. /\ Senders(d)' = Senders(d) \cup {p}
      /\ \A x \in Procs \ {d} : Senders(x)' = Senders(x)
      /\ \A x \in Procs : Sending(x)' <=> (Sending(x) \/ x = p)
  BY DEF Senders, Sending, TypeOK
<1>3. CASE q_sending[d] = NULL
  <2>1. /\ q_sending' = [q_sending EXCEPT ![d] = p]
        /\ next_sending' = next_sending
    <3>1. /\ q_sending' = [q_sending EXCEPT ![d] = p]
          /\ next_sending' = [next_sending EXCEPT ![p] = NULL]
      BY <1>3 DEF Enqueue
    <3>2. [next_sending EXCEPT ![p] = NULL] = next_sending
      BY <1>1 DEF TypeOK
    <3> QED
      BY <3>1, <3>2
  <2>2. Senders(d) = {}
    BY <1>3 DEF QueueInv, QueueExact, Queue
  <2>3. HeadIsSender'
    BY <1>2, <2>1 DEF QueueInv, HeadIsSender, TypeOK
  <2>4. NextIsSender'
    BY <1>1, <1>2, <2>1 DEF QueueInv, NextIsSender, TypeOK, Sending, Senders
  <2>5. LinkedOnce' /\ FirstIsFirst' /\ ListsEnd'
    BY <1>1, <2>1 DEF QueueInv, LinkedOnce, FirstIsFirst, ListsEnd, NoCycle, TypeOK
  <2>6. QueueExact'
    <3> SUFFICES ASSUME NEW x \in Procs PROVE Queue(x)' = Senders(x)'
      BY DEF QueueExact
    <3>1. CASE x = d
      <4>1. Queue(d)' = Visited(p, next_sending)
        BY <2>1, ConstantsAssumption DEF Queue, TypeOK, Visited, Closed
      <4>2. Closed({p}, next_sending)
        BY <1>1, ConstantsAssumption DEF Closed
      <4> QED
        BY <3>1, <4>1, <4>2, <1>2, <2>2, VisitedLeast
    <3>2. CASE x # d
      BY <3>2, <1>2, <2>1 DEF QueueInv, QueueExact, Queue, Visited, Closed, TypeOK
    <3> QED
      BY <3>1, <3>2
  <2> QED
    BY <2>3, <2>4, <2>5, <2>6 DEF QueueInv
<1>4. CASE q_sending[d] # NULL
  <2> DEFINE last == LastInQueue(d)
  <2>1. last \in Senders(d) /\ next_sending[last] = NULL /\ last # p
    BY <1>4, LastInQueueFact DEF Senders, Sending
  <2>2. last \in Procs /\ Sending(last) /\ p_sendto[last] = d
    BY <2>1 DEF Senders
  <2> HIDE DEF last
  <2>3. /\ q_sending' = q_sending
        /\ next_sending' = [next_sending EXCEPT ![last] = p]
    BY <1>1, <1>4, <2>1 DEF Enqueue, TypeOK, last
  <2>4. HeadIsSender'
    BY <1>2, <2>3 DEF QueueInv, HeadIsSender, TypeOK
  <2>5. NextIsSender'
    BY <1>1, <1>2, <2>2, <2>3 DEF QueueInv, NextIsSender, TypeOK, Sending, Senders
  <2>6. LinkedOnce' /\ FirstIsFirst'
    BY <1>1, <2>2, <2>3 DEF QueueInv, LinkedOnce, FirstIsFirst, TypeOK
  <2>7. ListsEnd'
    <3> SUFFICES ASSUME NEW S \in SUBSET Procs, S # {}
                 PROVE  \E x \in S : next_sending'[x] \notin S
      BY DEF ListsEnd, NoCycle
    <3>1. CASE p \in S
      BY <3>1, <1>1, <2>1, <2>3, ConstantsAssumption DEF TypeOK
    <3>2. CASE p \notin S
      BY <3>2, <2>3 DEF QueueInv, ListsEnd, NoCycle, TypeOK
    <3> QED
      BY <3>1, <3>2
  <2>8. QueueExact'
    <3> SUFFICES ASSUME NEW x \in Procs PROVE Queue(x)' = Senders(x)'
      BY DEF QueueExact
    <3>1. CASE q_sending[x] = NULL
      BY <3>1, <1>2, <1>4, <2>3 DEF QueueInv, QueueExact, Queue
    <3>2. CASE q_sending[x] # NULL
      <4> DEFINE new == Visited(q_sending[x], next_sending')
      <4>1. q_sending[x] \in Procs /\ Queue(x)' = new
        BY <3>2, <2>3 DEF TypeOK, Queue, Visited, Closed
      <4>2. Queue(x) = Senders(x) /\ Queue(x) = Visited(q_sending[x], next_sending)
        BY <3>2 DEF QueueInv, QueueExact, Queue
      <4>3. new \subseteq Procs /\ q_sending[x] \in new /\ Closed(new, next_sending')
        BY <4>1, VisitedLeast
      <4>4. Closed(new, next_sending)
        BY <4>3, <2>1, <2>2, <2>3, ConstantsAssumption DEF Closed, TypeOK
      <4>5. Senders(x) \subseteq new
        BY <4>1, <4>2, <4>3, <4>4, VisitedLeast
      <4>6. ASSUME x = d PROVE p \in new
        <5>1. last \in new
          BY <4>5, <4>6, <2>1
        <5>2. next_sending'[last] = p
          BY <2>2, <2>3 DEF TypeOK
        <5> QED
          BY <5>1, <5>2, <4>3 DEF Closed
      <4>7. Senders(x)' \subseteq new
        BY <4>5, <4>6, <1>2
      <4>8. Closed(Senders(x)', next_sending') /\ q_sending[x] \in Senders(x)'
        BY <2>4, <2>5, <2>3, <3>2, ConstantsAssumption
           DEF Closed, NextIsSender, HeadIsSender, Senders
      <4>9. new \subseteq Senders(x)'
        BY <4>1, <4>8, VisitedLeast DEF Senders
      <4> QED
        BY <4>1, <4>7, <4>9
    <3> QED
      BY <3>1, <3>2
  <2> QED
    BY <2>4, <2>5, <2>6, <2>7, <2>8 DEF QueueInv
<1> QED
  BY <1>3, <1>4

(* Unlinking a sender, at the front or further back, keeps the lists.      *)
LEMMA DequeueStep ==
  ASSUME TypeOK, QueueInv, NEW p \in Procs, NEW q \in Senders(p),
         Dequeue(p, q), ReleaseSender(q)
  PROVE  QueueInv'
<1>1. /\ q \in Procs /\ Sending(q) /\ p_sendto[q] = p
      /\ next_sending[q] # q /\ next_sending[q] \in Procs \cup {NULL}
  <2>1. q \in Procs /\ Sending(q) /\ p_sendto[q] = p
    BY DEF Senders
  <2>2. \E x \in {q} : next_sending[x] \notin {q}
    BY <2>1 DEF QueueInv, ListsEnd, NoCycle
  <2> QED
    BY <2>1, <2>2 DEF TypeOK
<1>2. /\ Senders(p)' = Senders(p) \ {q}
      /\ \A d \in Procs \ {p} : Senders(d)' = Senders(d) /\ q \notin Senders(d)
      /\ \A x \in Procs : Sending(x)' <=> (Sending(x) /\ x # q)
      /\ \A x \in Procs : x # q => p_sendto'[x] = p_sendto[x]
  BY <1>1, ConstantsAssumption DEF Senders, Sending, ReleaseSender, TypeOK
<1>3. \A d \in Procs : q_sending[d] # NULL =>
        /\ q_sending[d] \in Procs /\ q_sending[d] \in Senders(d)
        /\ Senders(d) = Visited(q_sending[d], next_sending)
  BY DEF QueueInv, QueueExact, Queue, TypeOK, HeadIsSender
<1>4. \A d \in Procs : q_sending[d] = NULL => Senders(d) = {}
  BY DEF QueueInv, QueueExact, Queue
<1>5. \A d \in Procs : Closed(Senders(d), next_sending)
  BY ConstantsAssumption DEF QueueInv, NextIsSender, Closed, Senders
<1>6. CASE q = q_sending[p]
  <2>1. /\ q_sending' = [q_sending EXCEPT ![p] = next_sending[q]]
        /\ next_sending' = [next_sending EXCEPT ![q] = NULL]
    BY <1>6 DEF Dequeue
  <2>2. /\ q_sending'[p] = next_sending[q]
        /\ \A d \in Procs \ {p} : q_sending'[d] = q_sending[d]
        /\ next_sending'[q] = NULL
        /\ \A x \in Procs \ {q} : next_sending'[x] = next_sending[x]
    BY <1>1, <2>1 DEF TypeOK
  <2>3. \A x \in Procs : next_sending[x] # q
    BY <1>1, <1>6, ConstantsAssumption DEF QueueInv, FirstIsFirst
  <2>4. HeadIsSender'
    BY <1>1, <1>2, <2>2 DEF QueueInv, HeadIsSender, NextIsSender
  <2>5. NextIsSender'
    <3> SUFFICES ASSUME NEW x \in Procs, next_sending'[x] # NULL
                 PROVE  Sending(x)' /\ next_sending'[x] \in Senders(p_sendto[x])'
      BY <1>2, <2>2 DEF NextIsSender
    <3>1. x # q /\ next_sending'[x] = next_sending[x] /\ Sending(x)
          /\ next_sending[x] \in Senders(p_sendto[x])
      BY <2>2 DEF QueueInv, NextIsSender
    <3> QED
      BY <3>1, <1>2, <2>3 DEF Senders
  <2>6. LinkedOnce' /\ FirstIsFirst'
    BY <1>1, <2>2 DEF QueueInv, LinkedOnce, FirstIsFirst
  <2>7. ListsEnd'
    <3> SUFFICES ASSUME NEW S \in SUBSET Procs, S # {}
                 PROVE  \E x \in S : next_sending'[x] \notin S
      BY DEF ListsEnd, NoCycle
    <3>1. PICK x \in S : next_sending[x] \notin S
      BY DEF QueueInv, ListsEnd, NoCycle
    <3> QED
      BY <3>1, <2>2, ConstantsAssumption
  <2>8. QueueExact'
    <3> SUFFICES ASSUME NEW d \in Procs PROVE Queue(d)' = Senders(d)'
      BY DEF QueueExact
    <3>1. CASE q_sending'[d] = NULL
      <4>1. CASE d = p
        <5>1. Closed({q}, next_sending)
          BY <3>1, <4>1, <2>2, ConstantsAssumption DEF Closed
        <5>2. Senders(p) \subseteq {q}
          BY <5>1, <1>1, <1>3, <1>6, VisitedLeast, ConstantsAssumption
        <5> QED
          BY <5>2, <4>1, <3>1, <1>2 DEF Queue
      <4>2. CASE d # p
        BY <3>1, <4>2, <1>2, <1>4, <2>2 DEF Queue
      <4> QED
        BY <4>1, <4>2
    <3>2. CASE q_sending'[d] # NULL
      <4> DEFINE new == Visited(q_sending'[d], next_sending')
      <4>1. q_sending'[d] \in Procs /\ Queue(d)' = new
        BY <3>2, <1>1, <2>2 DEF TypeOK, Queue, Visited, Closed
      <4>2. new \subseteq Procs /\ q_sending'[d] \in new /\ Closed(new, next_sending')
        BY <4>1, VisitedLeast
      <4>3. ASSUME d = p PROVE Senders(d)' \subseteq new
        <5>1. Closed(new \cup {q}, next_sending) /\ new \cup {q} \in SUBSET Procs
          BY <4>2, <4>3, <2>2, <1>1 DEF Closed
        <5>2. Senders(p) \subseteq new \cup {q}
          BY <5>1, <1>1, <1>3, <1>6, VisitedLeast, ConstantsAssumption
        <5> QED
          BY <5>2, <4>3, <1>2
      <4>4. ASSUME d # p PROVE Senders(d)' \subseteq new
        <5>1. Closed(new \cap Senders(d), next_sending)
          BY <4>2, <4>4, <1>2, <1>5, <2>2 DEF Closed
        <5>2. Senders(d) \subseteq new
          BY <5>1, <4>2, <4>4, <3>2, <1>3, <2>2, VisitedLeast
        <5> QED
          BY <5>2, <4>4, <1>2
      <4>5. Senders(d)' \subseteq new
        BY <4>3, <4>4, <1>2
      <4>6. Closed(Senders(d)', next_sending') /\ q_sending'[d] \in Senders(d)'
        BY <2>4, <2>5, <3>2, ConstantsAssumption
           DEF Closed, NextIsSender, HeadIsSender, Senders
      <4>7. new \subseteq Senders(d)'
        BY <4>1, <4>6, VisitedLeast DEF Senders
      <4> QED
        BY <4>1, <4>5, <4>7
    <3> QED
      BY <3>1, <3>2
  <2> QED
    BY <2>4, <2>5, <2>6, <2>7, <2>8 DEF QueueInv
<1>7. CASE q # q_sending[p]
  <2> DEFINE prev == Predecessor(p, q)
  <2>1. prev \in Senders(p) /\ next_sending[prev] = q
    BY <1>7, PredecessorFact
  <2>2. prev \in Procs /\ prev # q /\ Sending(prev) /\ p_sendto[prev] = p
    BY <2>1, <1>1 DEF Senders
  <2> HIDE DEF prev
  <2>3. /\ q_sending' = q_sending
        /\ next_sending' =
             [next_sending EXCEPT ![prev] = next_sending[q], ![q] = NULL]
    BY <1>7 DEF Dequeue, prev
  <2>4. /\ next_sending'[prev] = next_sending[q]
        /\ next_sending'[q] = NULL
        /\ \A x \in Procs \ {prev, q} : next_sending'[x] = next_sending[x]
    BY <1>1, <2>2, <2>3 DEF TypeOK
  <2>5. \A x \in Procs \ {prev} : next_sending[x] # q
    BY <1>1, <2>1, <2>2, ConstantsAssumption DEF QueueInv, LinkedOnce
  <2>6. HeadIsSender'
    BY <1>2, <1>7, <2>3 DEF QueueInv, HeadIsSender
  <2>7. NextIsSender'
    <3> SUFFICES ASSUME NEW x \in Procs, next_sending'[x] # NULL
                 PROVE  Sending(x)' /\ next_sending'[x] \in Senders(p_sendto[x])'
      BY <1>2, <2>4 DEF NextIsSender
    <3>1. CASE x = prev
      BY <3>1, <1>1, <1>2, <2>2, <2>4 DEF QueueInv, NextIsSender
    <3>2. CASE x # prev
      <4>1. x # q /\ next_sending'[x] = next_sending[x] /\ Sending(x)
            /\ next_sending[x] \in Senders(p_sendto[x])
        BY <3>2, <2>4 DEF QueueInv, NextIsSender
      <4> QED
        BY <4>1, <3>2, <1>2, <2>5 DEF Senders
    <3> QED
      BY <3>1, <3>2
  <2>8. LinkedOnce'
    BY <1>1, <2>2, <2>4 DEF QueueInv, LinkedOnce
  <2>9. FirstIsFirst'
    <3> SUFFICES ASSUME NEW x \in Procs, NEW d \in Procs, next_sending'[x] # NULL
                 PROVE  next_sending'[x] # q_sending[d]
      BY <2>3 DEF FirstIsFirst
    <3>1. \E y \in Procs : next_sending'[x] = next_sending[y]
      BY <1>1, <2>4
    <3> QED
      BY <3>1 DEF QueueInv, FirstIsFirst
  <2>10. ListsEnd'
    <3> SUFFICES ASSUME NEW S \in SUBSET Procs, S # {},
                        \A x \in S : next_sending'[x] \in S
                 PROVE  FALSE
      BY DEF ListsEnd, NoCycle
    <3>1. q \notin S
      BY <2>4, ConstantsAssumption
    <3>2. \A x \in S \cup {q} : prev \in S => next_sending[x] \in S \cup {q}
      BY <3>1, <2>1, <2>2, <2>4
    <3>3. prev \notin S => \A x \in S : next_sending[x] \in S
      BY <3>1, <2>4
    <3>4. S \cup {q} \in SUBSET Procs /\ S \cup {q} # {}
      BY <1>1
    <3> QED
      BY <3>2, <3>3, <3>4 DEF QueueInv, ListsEnd, NoCycle
  <2>11. QueueExact'
    <3> SUFFICES ASSUME NEW d \in Procs PROVE Queue(d)' = Senders(d)'
      BY DEF QueueExact
    <3>1. CASE q_sending[d] = NULL
      BY <3>1, <1>2, <1>4, <2>3 DEF Queue
    <3>2. CASE q_sending[d] # NULL
      <4> DEFINE new == Visited(q_sending[d], next_sending')
      <4>1. q_sending[d] \in Procs /\ Queue(d)' = new
        BY <3>2, <2>3 DEF TypeOK, Queue, Visited, Closed
      <4>2. new \subseteq Procs /\ q_sending[d] \in new /\ Closed(new, next_sending')
        BY <4>1, VisitedLeast
      <4>3. ASSUME d = p, prev \in new PROVE Senders(d)' \subseteq new
        <5>1. Closed(new \cup {q}, next_sending) /\ new \cup {q} \in SUBSET Procs
          BY <4>2, <4>3, <2>1, <2>2, <2>4, <1>1 DEF Closed
        <5>2. Senders(p) \subseteq new \cup {q}
          BY <5>1, <4>1, <4>2, <4>3, <3>2, <1>3, VisitedLeast
        <5> QED
          BY <5>2, <4>3, <1>2
      <4>4. ASSUME d = p, prev \notin new PROVE Senders(d)' \subseteq new
        <5>1. Closed(new \ {q}, next_sending) /\ new \ {q} \in SUBSET Procs
          BY <4>2, <4>4, <2>4, <2>5, <1>1 DEF Closed
        <5>2. Senders(p) \subseteq new \ {q}
          BY <5>1, <4>1, <4>2, <4>4, <3>2, <1>3, <1>7, VisitedLeast
        <5> QED
          BY <5>2, <4>4, <1>2
      <4>5. ASSUME d # p PROVE Senders(d)' \subseteq new
        <5>1. Closed(new \cap Senders(d), next_sending)
          <6>1. prev \notin Senders(d) /\ q \notin Senders(d)
            BY <4>5, <1>2, <2>2 DEF Senders
          <6> QED
            BY <6>1, <4>2, <1>5, <2>4 DEF Closed
        <5>2. Senders(d) \subseteq new
          BY <5>1, <4>1, <4>2, <3>2, <1>3, VisitedLeast
        <5> QED
          BY <5>2, <4>5, <1>2
      <4>6. Senders(d)' \subseteq new
        BY <4>3, <4>4, <4>5, <1>2
      <4>7. Closed(Senders(d)', next_sending') /\ q_sending[d] \in Senders(d)'
        BY <2>3, <2>6, <2>7, <3>2, ConstantsAssumption
           DEF Closed, NextIsSender, HeadIsSender, Senders
      <4>8. new \subseteq Senders(d)'
        BY <4>1, <4>7, VisitedLeast DEF Senders
      <4> QED
        BY <4>1, <4>6, <4>8
    <3> QED
      BY <3>1, <3>2
  <2> QED
    BY <2>6, <2>7, <2>8, <2>9, <2>10, <2>11 DEF QueueInv
<1> QED
  BY <1>6, <1>7

-----------------------------------------------------------------------------
(* The chain of senders                                                    *)

(* A step after which every blocked sender waits for whom it waited before *)
(* closes no circle.                                                       *)
LEMMA NoNewEdge ==
  ASSUME NoSendCycle,
         \A x \in Procs : Sending(x)' => Sending(x) /\ p_sendto'[x] = p_sendto[x]
  PROVE  NoSendCycle'
<1> SUFFICES ASSUME NEW S \in SUBSET Procs, S # {},
                    \A x \in S : SendEdge'[x] \in S
             PROVE  FALSE
  BY DEF NoSendCycle, NoCycle
<1>1. ASSUME NEW x \in S PROVE SendEdge[x] \in S
  <2>1. SendEdge'[x] = IF Sending(x)' THEN p_sendto'[x] ELSE NO_TASK
    BY DEF SendEdge, Sending
  <2>2. SendEdge[x] = IF Sending(x) THEN p_sendto[x] ELSE NO_TASK
    BY DEF SendEdge, Sending
  <2> QED
    BY <2>1, <2>2, ConstantsAssumption
<1> QED
  BY <1>1 DEF NoSendCycle, NoCycle

(* What deadlock() returns is enough: if the chain from dest does not lead *)
(* back to p, then p may wait for dest.                                    *)
LEMMA SafeEdge ==
  ASSUME TypeOK, NoSendCycle, NEW p \in Procs, NEW dest \in Procs, p # dest,
         p_flags[p] = {}, ~Deadlock(p, dest),
         p_flags' = [p_flags EXCEPT ![p] = @ \cup {"SENDING"}],
         p_sendto' = [p_sendto EXCEPT ![p] = dest]
  PROVE  NoSendCycle'
<1> DEFINE V == Visited(dest, SendEdge)
<1>1. V \subseteq Procs /\ dest \in V /\ Closed(V, SendEdge)
  BY VisitedLeast
<1>2. \A x \in V : SendEdge[x] # p
  BY DEF Deadlock
<1>3. p \notin V
  <2>1. Closed(V \ {p}, SendEdge)
    BY <1>1, <1>2 DEF Closed
  <2>2. V \ {p} \in SUBSET Procs /\ dest \in V \ {p}
    BY <1>1
  <2> QED
    BY <2>1, <2>2, VisitedLeast
<1>4. SendEdge'[p] = dest /\ \A x \in Procs \ {p} : SendEdge'[x] = SendEdge[x]
  BY DEF SendEdge, TypeOK
<1> HIDE DEF V
<1> SUFFICES ASSUME NEW S \in SUBSET Procs, S # {},
                    \A x \in S : SendEdge'[x] \in S
             PROVE  FALSE
  BY DEF NoSendCycle, NoCycle
<1>5. CASE p \in S
  <2>1. dest \in S \cap V
    BY <1>1, <1>4, <1>5
  <2>2. \A x \in S \cap V : SendEdge[x] \in S \cap V
    BY <1>1, <1>3, <1>4 DEF Closed
  <2> QED
    BY <2>1, <2>2 DEF NoSendCycle, NoCycle
<1>6. CASE p \notin S
  BY <1>4, <1>6 DEF NoSendCycle, NoCycle
<1> QED
  BY <1>5, <1>6

-----------------------------------------------------------------------------
(* The first state: the invariant holds when kernel_main() has set up the  *)
(* process table.                                                          *)

LEMMA InitInv == Init => IInv
<1> SUFFICES ASSUME Init PROVE IInv
  OBVIOUS
<1>1. TypeOK
  BY ConstantsAssumption DEF Init, TypeOK, Messages, ZeroMessage
<1>2. PcbConsistent
  BY ConstantsAssumption DEF Init, PcbConsistent, Sending, Receiving
<1>3. \A p \in Procs : Senders(p) = {} /\ Queue(p) = {} /\ next_sending[p] = NULL
                      /\ SendEdge[p] = NO_TASK /\ p_flags[p] = {} /\ q_sending[p] = NULL
  BY DEF Init, Senders, Sending, Queue, SendEdge
<1>4. QueueInv
  BY <1>3, ConstantsAssumption
     DEF QueueInv, HeadIsSender, NextIsSender, LinkedOnce, FirstIsFirst,
         ListsEnd, NoCycle, QueueExact
<1>5. NoSendCycle /\ NoMissedRendezvous
  BY <1>3, ConstantsAssumption DEF NoSendCycle, NoCycle, NoMissedRendezvous
<1>6. RunningNotBlocked /\ FirstProcFirst
  BY <1>3, ConstantsAssumption DEF Init, RunningNotBlocked, FirstProcFirst
<1> QED
  BY <1>1, <1>2, <1>4, <1>5, <1>6 DEF IInv

(* Steps that leave the process table alone.                               *)
LEMMA PcbUntouched ==
  ASSUME IInv, UNCHANGED pcb, TypeOK', RunningNotBlocked', FirstProcFirst'
  PROVE  IInv'
<1>1. /\ \A p : (Sending(p)' <=> Sending(p)) /\ (Receiving(p)' <=> Receiving(p))
      /\ \A d : Senders(d)' = Senders(d)
      /\ UNCHANGED <<p_flags, p_sendto, p_recvfrom, p_msg, q_sending, next_sending>>
  BY DEF pcb, Sending, Receiving, Senders
<1>2. QueueInv'
  BY <1>1, QueueUntouched DEF IInv
<1>3. NoSendCycle'
  BY <1>1, NoNewEdge DEF IInv
<1>4. PcbConsistent' /\ NoMissedRendezvous'
  BY <1>1 DEF IInv, PcbConsistent, NoMissedRendezvous
<1> QED
  BY <1>2, <1>3, <1>4 DEF IInv

(* A clock interrupt that schedules keeps the invariant.                   *)
LEMMA ClockScheduleStep == IInv /\ ClockSchedule => IInv'
<1> SUFFICES ASSUME IInv, ClockSchedule PROVE IInv'
  OBVIOUS
<1>1. UNCHANGED <<pcb, buf, cpu>> /\ UNCHANGED p_flags
  BY DEF ClockSchedule, pcb
<1>2. (p_proc_ready' = p_proc_ready \/ p_proc_ready' \in Runnable')
      /\ no_schedule' = FALSE
  <2>1. Schedule /\ no_schedule \in BOOLEAN
    BY DEF ClockSchedule, IInv, TypeOK
  <2> QED
    BY <2>1 DEF Schedule
<1>3. TypeOK'
  BY <1>1, <1>2 DEF IInv, TypeOK, Runnable, pcb
<1>4. RunningNotBlocked' /\ FirstProcFirst'
  BY <1>1, <1>2 DEF IInv, RunningNotBlocked, FirstProcFirst, Runnable
<1> QED
  BY <1>1, <1>3, <1>4, PcbUntouched

(* Steps in which a process only writes its own Message.                   *)
LEMMA UserStep ==
  ASSUME IInv, NEW p \in Callers,
         UserReset(p) \/ (\E b \in Bodies : UserWrite(p, b)) \/
         (\E d \in Procs : SendPanic(p, d))
  PROVE  IInv'
<1>1. UNCHANGED <<pcb, p_proc_ready, no_schedule>> /\ cpu' \in {"run", "hlt"}
  BY DEF IInv, TypeOK, UserReset, UserWrite, SendPanic, sched
<1>2. p \in Procs
  BY ConstantsAssumption
<1>3. buf' \in [Procs -> Messages]
  BY <1>2, ConstantsAssumption
     DEF IInv, TypeOK, UserReset, UserWrite, SendPanic, Stamped, Messages, ZeroMessage
<1>4. TypeOK' /\ RunningNotBlocked' /\ FirstProcFirst'
  BY <1>1, <1>3 DEF IInv, TypeOK, RunningNotBlocked, FirstProcFirst, pcb
<1> QED
  BY <1>1, <1>4, PcbUntouched

(* Whoever calls is free, and schedule() has been called before.           *)
LEMMA CallerFact ==
  ASSUME IInv, NEW p \in Callers, Calls(p)
  PROVE  /\ p \in Procs /\ p # FirstProc /\ p = p_proc_ready
         /\ p_flags[p] = {} /\ ~no_schedule
         /\ p_sendto[p] = NO_TASK /\ p_recvfrom[p] = NO_TASK
<1>1. p \in Procs /\ p # FirstProc /\ p = p_proc_ready
  BY ConstantsAssumption DEF Calls
<1>2. p_flags[p] = {} /\ ~no_schedule
  BY <1>1 DEF IInv, RunningNotBlocked, FirstProcFirst
<1> QED
  BY <1>1, <1>2 DEF IInv, PcbConsistent, Sending, Receiving

(* msg_send() to a process that waits for the message keeps the invariant. *)
LEMMA SendDirectStep ==
  ASSUME IInv, NEW p \in Callers, NEW dest \in Procs \ {p}, SendDirect(p, dest)
  PROVE  IInv'
<1>1. Calls(p) /\ Receiving(dest) /\ ReleaseReceiver(dest)
      /\ UNCHANGED <<p_sendto, q_sending, next_sending, p_proc_ready, no_schedule, cpu>>
  BY DEF SendDirect, Awaits, Receiving, sched
<1>2. p \in Procs /\ p = p_proc_ready /\ p_flags[p] = {}
  BY <1>1, CallerFact
<1>3. p_msg[dest] = dest /\ ~Sending(dest)
  BY <1>1 DEF IInv, PcbConsistent, Receiving
<1>4. /\ \A x \in Procs : Sending(x)' <=> Sending(x)
      /\ \A x \in Procs : Receiving(x)' <=> (Receiving(x) /\ x # dest)
      /\ p_flags'[dest] = {} /\ \A x \in Procs \ {dest} : p_flags'[x] = p_flags[x]
  BY <1>1, <1>3 DEF IInv, TypeOK, ReleaseReceiver, Sending, Receiving, Flags
<1>5. TypeOK'
  <2>1. buf' = [Stamped(p) EXCEPT ![dest] = Stamped(p)[p]]
    BY <1>3 DEF SendDirect
  <2>2. buf' \in [Procs -> Messages]
    BY <2>1, <1>2 DEF IInv, TypeOK, Stamped, Messages
  <2> QED
    BY <1>1, <2>2 DEF IInv, TypeOK, ReleaseReceiver
<1>6. PcbConsistent'
  BY <1>1, <1>3, <1>4, ConstantsAssumption DEF IInv, TypeOK, PcbConsistent, ReleaseReceiver
<1>7. QueueInv'
  BY <1>1, <1>4, QueueUntouched DEF IInv
<1>8. NoSendCycle'
  BY <1>1, <1>4, NoNewEdge DEF IInv
<1>9. NoMissedRendezvous'
  BY <1>1, <1>4 DEF IInv, TypeOK, NoMissedRendezvous, Senders, ReleaseReceiver
<1>10. RunningNotBlocked' /\ FirstProcFirst'
  BY <1>1, <1>2, <1>4, ConstantsAssumption DEF IInv, RunningNotBlocked, FirstProcFirst
<1> QED
  BY <1>5, <1>6, <1>7, <1>8, <1>9, <1>10 DEF IInv

(* msg_send() that blocks and appends the caller keeps the invariant.      *)
LEMMA SendBlockStep ==
  ASSUME IInv, NEW p \in Callers, NEW dest \in Procs \ {p}, SendBlock(p, dest)
  PROVE  IInv'
<1>1. /\ Calls(p) /\ ~Deadlock(p, dest) /\ ~Awaits(dest, p) /\ Enqueue(p, dest)
      /\ buf' = Stamped(p) /\ p_msg' = [p_msg EXCEPT ![p] = p]
      /\ p_flags'  = [p_flags EXCEPT ![p] = @ \cup {"SENDING"}]
      /\ p_sendto' = [p_sendto EXCEPT ![p] = dest]
      /\ UNCHANGED <<p_recvfrom, cpu>>
  BY DEF SendBlock
<1>2. /\ p \in Procs /\ p # FirstProc /\ p_flags[p] = {} /\ ~no_schedule
      /\ p_recvfrom[p] = NO_TASK
  BY <1>1, CallerFact
<1>3. p_proc_ready' \in Runnable' /\ UNCHANGED no_schedule
  BY <1>2 DEF SendBlock, Schedule
<1>4. /\ \A x \in Procs : Sending(x)' <=> (Sending(x) \/ x = p)
      /\ \A x \in Procs : Receiving(x)' <=> Receiving(x)
      /\ p_flags'[p] = {"SENDING"} /\ \A x \in Procs \ {p} : p_flags'[x] = p_flags[x]
  BY <1>1, <1>2 DEF IInv, TypeOK, Sending, Receiving
<1>5. TypeOK'
  <2>1. buf' \in [Procs -> Messages]
    BY <1>1, <1>2 DEF IInv, TypeOK, Stamped, Messages
  <2>2. q_sending' \in [Procs -> Procs \cup {NULL}]
        /\ next_sending' \in [Procs -> Procs \cup {NULL}]
    BY <1>1, <1>2 DEF IInv, TypeOK, Enqueue
  <2>3. p_flags' \in [Procs -> SUBSET Flags]
    BY <1>1, <1>2 DEF IInv, TypeOK, Flags
  <2> QED
    BY <1>1, <1>2, <1>3, <2>1, <2>2, <2>3 DEF IInv, TypeOK, Runnable
<1>6. PcbConsistent'
  BY <1>1, <1>2, <1>4, ConstantsAssumption
     DEF IInv, TypeOK, PcbConsistent, Sending, Receiving
<1>7. QueueInv'
  BY <1>1, <1>2, EnqueueStep DEF IInv
<1>8. NoSendCycle'
  BY <1>1, <1>2, SafeEdge DEF IInv
<1>9. NoMissedRendezvous'
  BY <1>1, <1>2, <1>4
     DEF IInv, TypeOK, NoMissedRendezvous, Senders, Awaits, Receiving, Sending
<1>10. RunningNotBlocked' /\ FirstProcFirst'
  BY <1>2, <1>3, <1>4, ConstantsAssumption
     DEF IInv, RunningNotBlocked, FirstProcFirst, Runnable
<1> QED
  BY <1>5, <1>6, <1>7, <1>8, <1>9, <1>10 DEF IInv

(* Whom msg_receive() takes a message from is blocked sending to it.       *)
LEMMA OfferFact ==
  ASSUME IInv, NEW p \in Procs, NEW src, NEW q \in Offers(p, src)
  PROVE  q \in Senders(p) /\ q \in Procs /\ p_msg[q] = q /\ q # p
<1>1. q \in Procs /\ q \in Senders(p)
  <2>1. CASE src = ANY
    BY <2>1, ConstantsAssumption DEF Offers, IInv, QueueInv, HeadIsSender
  <2>2. CASE src # ANY
    BY <2>2, ConstantsAssumption DEF Offers, SendEdge, Senders, Sending
  <2> QED
    BY <2>1, <2>2
<1> QED
  BY <1>1 DEF IInv, PcbConsistent, Senders, Sending

(* msg_receive() that takes a waiting sender keeps the invariant.          *)
LEMMA ReceiveTakeStep ==
  ASSUME IInv, NEW p \in Callers, NEW src \in Procs \cup {ANY}, ReceiveTake(p, src)
  PROVE  IInv'
<1>1. PICK q \in Offers(p, src) : Dequeue(p, q) /\ CopyFrom(p, q) /\ ReleaseSender(q)
  BY DEF ReceiveTake
<1>2. Calls(p) /\ UNCHANGED <<p_recvfrom, p_proc_ready, no_schedule, cpu>>
  BY DEF ReceiveTake, sched
<1>3. p \in Procs /\ p # FirstProc /\ p_flags[p] = {} /\ p = p_proc_ready
  BY <1>2, CallerFact
<1>4. q \in Senders(p) /\ q \in Procs /\ p_msg[q] = q /\ q # p
  BY <1>3, OfferFact
<1>5. Sending(q) /\ ~Receiving(q)
  BY <1>4 DEF Senders, IInv, PcbConsistent
<1>6. /\ \A x \in Procs : Sending(x)' <=> (Sending(x) /\ x # q)
      /\ \A x \in Procs : Receiving(x)' <=> Receiving(x)
      /\ p_flags'[q] = {} /\ \A x \in Procs \ {q} : p_flags'[x] = p_flags[x]
  BY <1>1, <1>4, <1>5 DEF IInv, TypeOK, ReleaseSender, Sending, Receiving, Flags
<1>7. TypeOK'
  <2>1. buf' \in [Procs -> Messages]
    BY <1>1, <1>3, <1>4 DEF IInv, TypeOK, CopyFrom
  <2>2. next_sending[q] \in Procs \cup {NULL}
    BY <1>4 DEF IInv, TypeOK
  <2>3. q_sending' \in [Procs -> Procs \cup {NULL}]
        /\ next_sending' \in [Procs -> Procs \cup {NULL}]
    BY <1>1, <1>3, <2>2 DEF IInv, TypeOK, Dequeue
  <2> QED
    BY <1>1, <1>2, <2>1, <2>3 DEF IInv, TypeOK, ReleaseSender
<1>8. PcbConsistent'
  BY <1>1, <1>2, <1>4, <1>5, <1>6, ConstantsAssumption
     DEF IInv, TypeOK, PcbConsistent, ReleaseSender
<1>9. QueueInv'
  BY <1>1, <1>3, <1>4, DequeueStep DEF IInv
<1>10. NoSendCycle'
  BY <1>1, <1>6, NoNewEdge DEF IInv, TypeOK, ReleaseSender
<1>11. NoMissedRendezvous'
  BY <1>1, <1>2, <1>6 DEF IInv, TypeOK, NoMissedRendezvous, Senders, ReleaseSender
<1>12. RunningNotBlocked' /\ FirstProcFirst'
  BY <1>2, <1>3, <1>6, ConstantsAssumption DEF IInv, RunningNotBlocked, FirstProcFirst
<1> QED
  BY <1>7, <1>8, <1>9, <1>10, <1>11, <1>12 DEF IInv

(* msg_receive() that blocks keeps the invariant.                          *)
LEMMA ReceiveBlockStep ==
  ASSUME IInv, NEW p \in Callers, NEW src \in (Procs \ {p}) \cup {ANY},
         ReceiveBlock(p, src)
  PROVE  IInv'
<1>1. /\ Calls(p) /\ Offers(p, src) = {}
      /\ buf' = Stamped(p) /\ p_msg' = [p_msg EXCEPT ![p] = p]
      /\ p_flags'    = [p_flags EXCEPT ![p] = @ \cup {"RECEIVING"}]
      /\ p_recvfrom' = [p_recvfrom EXCEPT ![p] = src]
      /\ UNCHANGED <<p_sendto, q_sending, next_sending, cpu>>
  BY DEF ReceiveBlock
<1>2. /\ p \in Procs /\ p # FirstProc /\ p_flags[p] = {} /\ ~no_schedule
      /\ p_sendto[p] = NO_TASK
  BY <1>1, CallerFact
<1>3. p_proc_ready' \in Runnable' /\ UNCHANGED no_schedule
  BY <1>2 DEF ReceiveBlock, Schedule
<1>4. /\ \A x \in Procs : Sending(x)' <=> Sending(x)
      /\ \A x \in Procs : Receiving(x)' <=> (Receiving(x) \/ x = p)
      /\ p_flags'[p] = {"RECEIVING"} /\ \A x \in Procs \ {p} : p_flags'[x] = p_flags[x]
  BY <1>1, <1>2 DEF IInv, TypeOK, Sending, Receiving
<1>5. TypeOK'
  <2>1. buf' \in [Procs -> Messages]
    BY <1>1, <1>2 DEF IInv, TypeOK, Stamped, Messages
  <2>2. p_flags' \in [Procs -> SUBSET Flags]
    BY <1>1, <1>2 DEF IInv, TypeOK, Flags
  <2> QED
    BY <1>1, <1>2, <1>3, <2>1, <2>2 DEF IInv, TypeOK, Runnable
<1>6. PcbConsistent'
  BY <1>1, <1>2, <1>4, ConstantsAssumption
     DEF IInv, TypeOK, PcbConsistent, Sending, Receiving
<1>7. QueueInv'
  BY <1>1, <1>4, QueueUntouched DEF IInv
<1>8. NoSendCycle'
  BY <1>1, <1>4, NoNewEdge DEF IInv
<1>9. NoMissedRendezvous'
  <2>1. ASSUME NEW x \in Senders(p) PROVE src \notin {x, ANY}
    <3>1. src # x
      BY <1>1, ConstantsAssumption DEF Offers, SendEdge, Senders, Sending
    <3>2. CASE src = ANY
      <4>1. q_sending[p] = NULL
        BY <1>1, <1>2, <3>2 DEF Offers, IInv, TypeOK
      <4> QED
        BY <4>1, <1>2 DEF IInv, QueueInv, QueueExact, Queue
    <3> QED
      BY <3>1, <3>2
  <2>2. \A d \in Procs : Senders(d)' = Senders(d)
    BY <1>1, <1>4 DEF Senders
  <2> QED
    BY <2>1, <2>2, <1>1, <1>2, <1>4 DEF IInv, TypeOK, NoMissedRendezvous
<1>10. RunningNotBlocked' /\ FirstProcFirst'
  BY <1>2, <1>3, <1>4, ConstantsAssumption
     DEF IInv, RunningNotBlocked, FirstProcFirst, Runnable
<1> QED
  BY <1>5, <1>6, <1>7, <1>8, <1>9, <1>10 DEF IInv

(* Every step of the kernel keeps the invariant.                           *)
LEMMA Inductive == IInv /\ [Next]_vars => IInv'
<1> SUFFICES ASSUME IInv, [Next]_vars PROVE IInv'
  OBVIOUS
<1>1. CASE ClockSchedule
  BY <1>1, ClockScheduleStep
<1>2. ASSUME NEW p \in Callers,
             UserReset(p) \/ (\E b \in Bodies : UserWrite(p, b))
      PROVE  IInv'
  BY <1>2, UserStep
<1>3. ASSUME NEW p \in Callers, NEW d \in Procs \ {p}, Send(p, d) PROVE IInv'
  <2>1. CASE SendPanic(p, d)
    BY <2>1, UserStep
  <2>2. CASE SendDirect(p, d)
    BY <2>2, SendDirectStep
  <2>3. CASE SendBlock(p, d)
    BY <2>3, SendBlockStep
  <2> QED
    BY <1>3, <2>1, <2>2, <2>3 DEF Send
<1>4. ASSUME NEW p \in Callers, NEW s \in (Procs \ {p}) \cup {ANY}, Receive(p, s)
      PROVE  IInv'
  <2>1. CASE ReceiveTake(p, s)
    BY <2>1, ReceiveTakeStep
  <2>2. CASE ReceiveBlock(p, s)
    BY <2>2, ReceiveBlockStep
  <2> QED
    BY <1>4, <2>1, <2>2 DEF Receive
<1>5. CASE UNCHANGED vars
  <2>1. UNCHANGED pcb /\ TypeOK' /\ RunningNotBlocked' /\ FirstProcFirst'
    BY <1>5 DEF IInv, vars, pcb, sched, TypeOK, RunningNotBlocked, FirstProcFirst
  <2> QED
    BY <2>1, PcbUntouched
<1> QED
  BY <1>1, <1>2, <1>3, <1>4, <1>5 DEF Next

(* The inductive invariant holds in every reachable state.                 *)
LEMMA InvariantHolds == Spec => []IInv
BY InitInv, Inductive, PTL DEF Spec

-----------------------------------------------------------------------------
(* The properties, for every value of the constants                        *)

(* Every field of the process table keeps its type.                        *)
THEOREM TypeCorrect == Spec => []TypeOK
<1>1. IInv => TypeOK
  BY DEF IInv
<1> QED
  BY <1>1, InvariantHolds, PTL

(* The asserts of msg_send() and msg_receive() about p_flags, p_msg,       *)
(* p_sendto and p_recvfrom never fail.                                     *)
THEOREM PcbAlwaysConsistent == Spec => []PcbConsistent
<1>1. IInv => PcbConsistent
  BY DEF IInv
<1> QED
  BY <1>1, InvariantHolds, PTL

(* The sending queue of every process, followed pointer by pointer, holds  *)
(* exactly the processes that are blocked sending to it.                   *)
THEOREM QueueAlwaysExact == Spec => []QueueExact
<1>1. IInv => QueueExact
  BY DEF IInv, QueueInv
<1> QED
  BY <1>1, InvariantHolds, PTL

(* deadlock() is sound: blocked senders never wait for each other in a     *)
(* circle, however many processes there are.                               *)
THEOREM NeverSendCycle == Spec => []NoSendCycle
<1>1. IInv => NoSendCycle
  BY DEF IInv
<1> QED
  BY <1>1, InvariantHolds, PTL

(* A receiver never sleeps while a sender it would accept is queued.       *)
THEOREM NeverMissedRendezvous == Spec => []NoMissedRendezvous
<1>1. IInv => NoMissedRendezvous
  BY DEF IInv
<1> QED
  BY <1>1, InvariantHolds, PTL

(* The kernel never returns to a process that is blocked.                  *)
THEOREM NeverRunsBlocked == Spec => []RunningNotBlocked
<1>1. IInv => RunningNotBlocked
  BY DEF IInv
<1> QED
  BY <1>1, InvariantHolds, PTL

(* Every step releases a process only by delivering the message it waits   *)
(* for, and leaves the buffers of the others that are blocked alone.       *)
LEMMA StepsDeliver == IInv /\ [Next]_vars => [Delivered /\ Undisturbed]_vars
<1> SUFFICES ASSUME IInv, Next PROVE Delivered /\ Undisturbed
  OBVIOUS
<1>1. ASSUME UNCHANGED <<p_flags, buf>> PROVE Delivered /\ Undisturbed
  BY <1>1 DEF Delivered, Undisturbed, Sending, Receiving
<1>2. ASSUME NEW p \in Callers, Calls(p), UNCHANGED p_flags,
             \A x \in Procs \ {p} : buf'[x] = buf[x]
      PROVE  Delivered /\ Undisturbed
  BY <1>2, CallerFact DEF Delivered, Undisturbed, Sending, Receiving
<1>3. ASSUME NEW p \in Callers, NEW d \in Procs \ {p}, SendDirect(p, d)
      PROVE  Delivered /\ Undisturbed
  <2>1. Calls(p) /\ Receiving(d) /\ p_recvfrom[d] \in {p, ANY} /\ ReleaseReceiver(d)
    BY <1>3 DEF SendDirect, Awaits, Receiving
  <2>2. p \in Procs /\ p = p_proc_ready /\ p_flags[p] = {} /\ p # d
    BY <2>1, CallerFact
  <2>3. p_msg[d] = d /\ ~Sending(d)
    BY <2>1 DEF IInv, PcbConsistent, Receiving
  <2>4. /\ buf'[d] = buf'[p] /\ buf'[p].source = p
        /\ \A x \in Procs \ {p, d} : buf'[x] = buf[x]
    <3>1. buf' = [Stamped(p) EXCEPT ![d] = Stamped(p)[p]]
      BY <1>3, <2>3 DEF SendDirect
    <3> QED
      BY <3>1, <2>2 DEF IInv, TypeOK, Stamped, Messages
  <2>5. /\ \A x \in Procs : Sending(x)' <=> Sending(x)
        /\ \A x \in Procs : Receiving(x)' <=> (Receiving(x) /\ x # d)
    BY <2>1, <2>3 DEF IInv, TypeOK, ReleaseReceiver, Sending, Receiving
  <2> QED
    BY <2>1, <2>2, <2>4, <2>5 DEF Delivered, Undisturbed
<1>4. ASSUME NEW p \in Callers, Calls(p), buf' = Stamped(p),
             \A x \in Procs \ {p} : p_flags'[x] = p_flags[x]
      PROVE  Delivered /\ Undisturbed
  <2>1. p \in Procs /\ p_flags[p] = {}
    BY <1>4, CallerFact
  <2>2. \A x \in Procs \ {p} : buf'[x] = buf[x]
    BY <1>4, <2>1 DEF IInv, TypeOK, Stamped
  <2> QED
    BY <1>4, <2>1, <2>2 DEF Delivered, Undisturbed, Sending, Receiving
<1>5. ASSUME NEW p \in Callers, NEW s \in (Procs \ {p}) \cup {ANY}, ReceiveTake(p, s)
      PROVE  Delivered /\ Undisturbed
  <2>1. PICK q \in Offers(p, s) : CopyFrom(p, q) /\ ReleaseSender(q)
    BY <1>5 DEF ReceiveTake
  <2>2. p \in Procs /\ p_flags[p] = {}
    BY <1>5, CallerFact DEF ReceiveTake
  <2>3. q \in Procs /\ p_sendto[q] = p /\ p_msg[q] = q /\ q # p
    BY <2>2, OfferFact DEF Senders
  <2>4. buf'[p] = buf[q] /\ \A x \in Procs \ {p} : buf'[x] = buf[x]
    BY <2>1, <2>2, <2>3 DEF IInv, TypeOK, CopyFrom
  <2>5. /\ \A x \in Procs : Sending(x)' <=> (Sending(x) /\ x # q)
        /\ \A x \in Procs : Receiving(x)' <=> Receiving(x)
    BY <2>1, <2>3 DEF IInv, TypeOK, ReleaseSender, Sending, Receiving
  <2> QED
    BY <2>2, <2>3, <2>4, <2>5 DEF Delivered, Undisturbed
<1>6. ASSUME ClockSchedule PROVE UNCHANGED <<p_flags, buf>>
  BY <1>6 DEF ClockSchedule, pcb
<1>7. ASSUME NEW p \in Callers,
             UserReset(p) \/ (\E b \in Bodies : UserWrite(p, b)) \/
             (\E d \in Procs : SendPanic(p, d))
      PROVE  Calls(p) /\ UNCHANGED p_flags /\ \A x \in Procs \ {p} : buf'[x] = buf[x]
  <2>1. Calls(p) /\ UNCHANGED p_flags
    BY <1>7 DEF UserReset, UserWrite, SendPanic, pcb
  <2> QED
    BY <1>7, <2>1 DEF IInv, TypeOK, UserReset, UserWrite, SendPanic, Stamped
<1>8. ASSUME NEW p \in Callers, NEW d \in Procs \ {p}, Send(p, d)
      PROVE  Delivered /\ Undisturbed
  <2>1. CASE SendPanic(p, d)
    BY <2>1, <1>2, <1>7
  <2>2. CASE SendBlock(p, d)
    <3>1. Calls(p) /\ buf' = Stamped(p)
          /\ \A x \in Procs \ {p} : p_flags'[x] = p_flags[x]
      BY <2>2 DEF SendBlock, IInv, TypeOK
    <3> QED
      BY <3>1, <1>4
  <2> QED
    BY <1>8, <1>3, <2>1, <2>2 DEF Send
<1>9. ASSUME NEW p \in Callers, NEW s \in (Procs \ {p}) \cup {ANY}, ReceiveBlock(p, s)
      PROVE  Delivered /\ Undisturbed
  <2>1. Calls(p) /\ buf' = Stamped(p)
        /\ \A x \in Procs \ {p} : p_flags'[x] = p_flags[x]
    BY <1>9 DEF ReceiveBlock, IInv, TypeOK
  <2> QED
    BY <2>1, <1>4
<1> QED
  BY <1>1, <1>2, <1>5, <1>6, <1>7, <1>8, <1>9 DEF Next, Receive

(* A blocked process is released only by the step that hands the message   *)
(* over, and to whom it was meant for.                                     *)
THEOREM AlwaysHandoff == Spec => Handoff
<1>1. [Delivered /\ Undisturbed]_vars => [Delivered]_vars
  OBVIOUS
<1> QED
  BY <1>1, StepsDeliver, InvariantHolds, PTL DEF Spec, Handoff

(* The buffer of a blocked process is written only by its delivery.        *)
THEOREM AlwaysBufferStable == Spec => BlockedBufferStable
<1>1. [Delivered /\ Undisturbed]_vars => [Undisturbed]_vars
  OBVIOUS
<1> QED
  BY <1>1, StepsDeliver, InvariantHolds, PTL DEF Spec, BlockedBufferStable

-----------------------------------------------------------------------------
(* Lists and sequences                                                     *)

(* The list that starts at first and goes on along next is s, and its      *)
(* members are those of S, each once.                                      *)
Lists(s, S, first, next) ==
  /\ s \in Seq(S)
  /\ first = NULL <=> s = <<>>
  /\ first # NULL => Linked(s, first, next)
  /\ \A i, j \in 1 .. Len(s) : s[i] = s[j] => i = j
  /\ \A p \in S : \E i \in 1 .. Len(s) : s[i] = p

(* The sequence is as long as S has members.                               *)
LEMMA ListLength ==
  ASSUME NEW S, NEW first, NEW next, NEW s, Lists(s, S, first, next)
  PROVE  Cardinality(S) = Len(s) /\ s \in [1 .. Len(s) -> S] /\ Len(s) \in Nat
<1>1. s \in [1 .. Len(s) -> S] /\ Len(s) \in Nat
  BY LenProperties DEF Lists
<1>2. s \in Bijection(1 .. Len(s), S)
  <2>1. /\ \A i, j \in 1 .. Len(s) : s[i] = s[j] => i = j
        /\ \A p \in S : \E i \in 1 .. Len(s) : s[i] = p
    BY DEF Lists
  <2> QED
    BY <1>1, <2>1, Fun_IsBij
<1>3. ExistsBijection(1 .. Len(s), S)
  BY <1>2 DEF ExistsBijection
<1> QED
  BY <1>1, <1>3, FS_CountingElements

(* There is no other such sequence: where two agree is closed under next.  *)
LEMMA InOrderUnique ==
  ASSUME NEW S \in SUBSET Procs, NEW first, NEW next, NEW s,
         Lists(s, S, first, next),
         first # NULL => S \subseteq Visited(first, next)
  PROVE  InOrder(S, first, next) = s
<1>1. CASE first = NULL
  BY <1>1 DEF InOrder, Lists
<1>2. CASE first # NULL
  <2> DEFINE n == Len(s)
             t == InOrder(S, first, next)
             Agree == {p \in Procs : \E i \in 1 .. n : p = s[i] /\ p = t[i]}
  <2>1. Cardinality(S) = n /\ s \in [1 .. n -> S] /\ n \in Nat
    BY ListLength
  <2>2. Linked(s, first, next) /\ n # 0
    BY <1>2, <2>1, EmptySeq DEF Lists
  <2>3. t \in [1 .. n -> S] /\ Linked(t, first, next)
    BY <1>2, <2>1, <2>2 DEF InOrder
  <2>4. Len(t) = n /\ DOMAIN t = 1 .. n /\ DOMAIN s = 1 .. n
    BY <2>1, <2>3
  <2> HIDE DEF n, t
  <2>5. /\ s[1] = first /\ t[1] = first
        /\ \A i \in 1 .. n : /\ next[s[i]] = IF i < n THEN s[i + 1] ELSE NULL
                             /\ next[t[i]] = IF i < n THEN t[i + 1] ELSE NULL
    BY <2>2, <2>3, <2>4 DEF Linked, n
  <2>6. first \in Agree /\ first \in Procs
    BY <2>1, <2>2, <2>3, <2>5
  <2>7. Closed(Agree, next)
    <3> SUFFICES ASSUME NEW p \in Agree, next[p] \in Procs PROVE next[p] \in Agree
      BY DEF Closed
    <3>1. PICK i \in 1 .. n : p = s[i] /\ p = t[i]
      OBVIOUS
    <3>2. i < n
      BY <3>1, <2>5, ConstantsAssumption
    <3>3. next[p] = s[i + 1] /\ next[p] = t[i + 1]
      BY <3>1, <3>2, <2>5
    <3>4. i + 1 \in 1 .. n
      BY <3>2, <2>1
    <3> QED
      BY <3>3, <3>4
  <2>8. S \subseteq Agree
    <3>1. Agree \in SUBSET Procs
      OBVIOUS
    <3>2. Visited(first, next) \subseteq Agree
      BY <2>6, <2>7, <3>1, VisitedLeast
    <3> QED
      BY <1>2, <3>2
  <2>9. ASSUME NEW i \in 1 .. n PROVE t[i] = s[i]
    <3>1. PICK j \in 1 .. n : s[i] = s[j] /\ s[i] = t[j]
      BY <2>1, <2>8
    <3>2. i = j
      BY <3>1 DEF Lists, n
    <3> QED
      BY <3>1, <3>2
  <2>10. t = s
    BY <2>1, <2>3, <2>9
  <2> QED
    BY <2>10 DEF t
<1> QED
  BY <1>1, <1>2

(* The last member of a list is the one that has no next.                  *)
LEMMA ListEnds ==
  ASSUME NEW S \in SUBSET Procs, NEW first, NEW next, NEW s,
         Lists(s, S, first, next), first # NULL,
         NEW i \in 1 .. Len(s)
  PROVE  /\ s[i] \in S /\ s[i] \in Procs /\ s[1] = first
         /\ i < Len(s) => next[s[i]] = s[i + 1] /\ i + 1 \in 1 .. Len(s)
         /\ i = Len(s) => next[s[i]] = NULL
<1>1. s \in [1 .. Len(s) -> S] /\ Len(s) \in Nat
  BY ListLength
<1>2. Linked(s, first, next) /\ DOMAIN s = 1 .. Len(s)
  BY <1>1 DEF Lists
<1> QED
  BY <1>1, <1>2 DEF Linked

(* Linking p behind the last member appends it.                            *)
LEMMA ListAppended ==
  ASSUME NEW S \in SUBSET Procs, NEW first, NEW next, NEW s,
         Lists(s, S, first, next),
         NEW p \in Procs \ S, NEW newFirst, NEW newNext,
         newFirst = IF first = NULL THEN p ELSE first,
         newNext[p] = NULL,
         \A x \in S : newNext[x] = IF next[x] = NULL THEN p ELSE next[x]
  PROVE  Lists(Append(s, p), S \cup {p}, newFirst, newNext)
<1> DEFINE t == Append(s, p)
           n == Len(s)
<1>1. n \in Nat /\ s \in [1 .. n -> S] /\ s \in Seq(S) /\ s \in Seq(S \cup {p})
  BY ListLength, SeqMonotonic DEF Lists
<1>2. /\ t \in Seq(S \cup {p}) /\ t # <<>> /\ Len(t) = n + 1
      /\ \A i \in 1 .. n : t[i] = s[i]
      /\ t[n + 1] = p
  BY <1>1, AppendProperties
<1> HIDE DEF t
<1>3. DOMAIN t = 1 .. n + 1
  BY <1>2, LenProperties
<1>4. \A i, j \in 1 .. Len(t) : t[i] = t[j] => i = j
  BY <1>1, <1>2 DEF Lists
<1>5. \A x \in S \cup {p} : \E i \in 1 .. Len(t) : t[i] = x
  <2> SUFFICES ASSUME NEW x \in S PROVE \E i \in 1 .. Len(t) : t[i] = x
    BY <1>1, <1>2
  <2>1. PICK i \in 1 .. n : s[i] = x
    BY DEF Lists
  <2> QED
    BY <1>1, <1>2, <2>1
<1>6. newFirst # NULL
  BY ConstantsAssumption
<1>7. t[1] = newFirst
  <2>1. CASE first = NULL
    BY <1>1, <1>2, <2>1, EmptySeq DEF Lists
  <2>2. CASE first # NULL
    <3>1. n # 0
      BY <1>1, <2>2, EmptySeq DEF Lists
    <3>2. 1 \in 1 .. n
      BY <1>1, <3>1
    <3> QED
      BY <1>2, <2>2, <3>2, ListEnds
  <2> QED
    BY <2>1, <2>2
<1>8. ASSUME NEW i \in 1 .. n + 1
      PROVE  newNext[t[i]] = IF i < n + 1 THEN t[i + 1] ELSE NULL
  <2>1. CASE i = n + 1
    BY <1>1, <1>2, <2>1
  <2>2. CASE i \in 1 .. n
    <3>1. first # NULL
      BY <1>1, <2>2, EmptySeq DEF Lists
    <3>2. s[i] \in S /\ t[i] = s[i]
      BY <1>1, <1>2, <2>2
    <3>3. newNext[s[i]] = IF next[s[i]] = NULL THEN p ELSE next[s[i]]
      BY <3>2
    <3>4. CASE i < n
      <4>1. next[s[i]] = s[i + 1] /\ i + 1 \in 1 .. n
        BY <2>2, <3>1, <3>4, ListEnds
      <4>2. s[i + 1] # NULL /\ t[i + 1] = s[i + 1]
        BY <1>1, <1>2, <4>1, ConstantsAssumption
      <4> QED
        BY <1>1, <3>2, <3>3, <3>4, <4>1, <4>2
    <3>5. CASE i = n
      <4>1. next[s[i]] = NULL
        BY <2>2, <3>1, <3>5, ListEnds
      <4> QED
        BY <1>1, <1>2, <3>2, <3>3, <3>5, <4>1
    <3>6. i < n \/ i = n
      <4>1. n \in Nat
        BY <1>1
      <4> HIDE DEF n
      <4> QED
        BY <2>2, <4>1
    <3> QED
      BY <3>4, <3>5, <3>6
  <2>3. i = n + 1 \/ i \in 1 .. n
    BY <1>1
  <2> QED
    BY <2>1, <2>2, <2>3
<1>9. Linked(t, newFirst, newNext)
  BY <1>2, <1>3, <1>7, <1>8 DEF Linked
<1>10. Lists(t, S \cup {p}, newFirst, newNext)
  BY <1>2, <1>4, <1>5, <1>6, <1>9 DEF Lists
<1> QED
  BY <1>10 DEF t

(* What RemoveAt leaves.                                                   *)
LEMMA RemoveAtFact ==
  ASSUME NEW S, NEW s \in Seq(S), NEW i \in 1 .. Len(s)
  PROVE  /\ R!RemoveAt(s, i) \in Seq(S)
         /\ Len(R!RemoveAt(s, i)) = Len(s) - 1
         /\ \A k \in 1 .. Len(s) - 1 :
              R!RemoveAt(s, i)[k] = IF k < i THEN s[k] ELSE s[k + 1]
<1> DEFINE n == Len(s)
           a == SubSeq(s, 1, i - 1)
           b == SubSeq(s, i + 1, n)
<1>1. n \in Nat /\ i \in Nat /\ 1 <= i /\ i <= n
  BY LenProperties
<1>2. a \in Seq(S) /\ Len(a) = i - 1 /\ \A k \in 1 .. i - 1 : a[k] = s[k]
  BY <1>1, SubSeqProperties
<1>3. b \in Seq(S) /\ Len(b) = n - i /\ \A k \in 1 .. n - i : b[k] = s[i + k]
  BY <1>1, SubSeqProperties
<1> HIDE DEF a, b, n
<1>4. /\ a \o b \in Seq(S)
      /\ Len(a \o b) = n - 1
      /\ \A k \in 1 .. n - 1 : (a \o b)[k] = IF k <= i - 1 THEN a[k] ELSE b[k - (i - 1)]
  <2>1. Len(a) + Len(b) = n - 1
    BY <1>1, <1>2, <1>3
  <2> QED
    BY <1>2, <1>3, <2>1, ConcatProperties
<1>5. ASSUME NEW k \in 1 .. n - 1
      PROVE  (a \o b)[k] = IF k < i THEN s[k] ELSE s[k + 1]
  <2>1. CASE k < i
    <3>1. k \in 1 .. i - 1 /\ k <= i - 1
      BY <1>1, <2>1
    <3> QED
      BY <1>2, <1>4, <2>1, <3>1
  <2>2. CASE ~(k < i)
    <3>1. k - (i - 1) \in 1 .. n - i /\ ~(k <= i - 1) /\ i + (k - (i - 1)) = k + 1
      BY <1>1, <2>2
    <3> QED
      BY <1>3, <1>4, <2>2, <3>1
  <2> QED
    BY <2>1, <2>2
<1> QED
  BY <1>4, <1>5 DEF R!RemoveAt, a, b, n

(* Unlinking the i-th member removes it.                                   *)
LEMMA ListRemoved ==
  ASSUME NEW S \in SUBSET Procs, NEW first, NEW next, NEW s,
         Lists(s, S, first, next), first # NULL,
         NEW i \in 1 .. Len(s), NEW newFirst, NEW newNext,
         newFirst = IF s[i] = first THEN next[s[i]] ELSE first,
         \A x \in S \ {s[i]} : newNext[x] = IF next[x] = s[i] THEN next[s[i]] ELSE next[x]
  PROVE  Lists(R!RemoveAt(s, i), S \ {s[i]}, newFirst, newNext)
<1> DEFINE n == Len(s)
           t == R!RemoveAt(s, i)
<1>1. n \in Nat /\ s \in [1 .. n -> S] /\ s \in Seq(S)
  BY ListLength DEF Lists
<1>2. n \in Nat /\ i \in Nat /\ 1 <= i /\ i <= n
  BY <1>1
<1>3. \A j, k \in 1 .. n : s[j] = s[k] => j = k
  BY DEF Lists
<1>4. /\ t \in Seq(S) /\ Len(t) = n - 1
      /\ \A k \in 1 .. n - 1 : t[k] = IF k < i THEN s[k] ELSE s[k + 1]
  BY <1>1, RemoveAtFact
<1>5. /\ s[1] = first
      /\ \A k \in 1 .. n : k < n => next[s[k]] = s[k + 1]
      /\ next[s[n]] = NULL
      /\ \A k \in 1 .. n : s[k] \in Procs /\ s[k] # NULL
  <2>1. \A k \in 1 .. n : /\ s[k] \in Procs /\ s[1] = first
                          /\ k < n => next[s[k]] = s[k + 1]
                          /\ k = n => next[s[k]] = NULL
    BY ListEnds
  <2>2. 1 \in 1 .. n /\ n \in 1 .. n
    BY <1>2
  <2> HIDE DEF n, t
  <2> QED
    BY <2>1, <2>2, ConstantsAssumption
<1> HIDE DEF n, t
<1>6. \A k \in 1 .. n - 1 :
        \/ k < i /\ k \in 1 .. n /\ k # i /\ t[k] = s[k]
        \/ i <= k /\ k + 1 \in 1 .. n /\ k + 1 # i /\ t[k] = s[k + 1]
  <2> SUFFICES ASSUME NEW k \in 1 .. n - 1
               PROVE  \/ k < i /\ k \in 1 .. n /\ k # i /\ t[k] = s[k]
                      \/ i <= k /\ k + 1 \in 1 .. n /\ k + 1 # i /\ t[k] = s[k + 1]
    OBVIOUS
  <2>1. (k < i /\ k \in 1 .. n /\ k # i) \/ (i <= k /\ k + 1 \in 1 .. n /\ k + 1 # i /\ ~(k < i))
    BY <1>2
  <2>2. t[k] = IF k < i THEN s[k] ELSE s[k + 1]
    BY <1>4
  <2> QED
    BY <2>1, <2>2
<1>7. \A k \in 1 .. n - 1 : t[k] \in S \ {s[i]}
  BY <1>1, <1>3, <1>6
<1>8. t \in Seq(S \ {s[i]}) /\ DOMAIN t = 1 .. n - 1
  <2>1. t \in [1 .. n - 1 -> S] /\ DOMAIN t = 1 .. n - 1
    BY <1>4, LenProperties
  <2>2. n - 1 \in Nat
    BY <1>2
  <2>3. t = [k \in 1 .. n - 1 |-> t[k]]
    BY <2>1
  <2> QED
    BY <1>7, <2>1, <2>2, <2>3, IsASeq
<1>9. \A j, k \in 1 .. n - 1 : t[j] = t[k] => j = k
  BY <1>2, <1>3, <1>6
<1>10. ASSUME NEW x \in S \ {s[i]} PROVE \E k \in 1 .. n - 1 : t[k] = x
  <2>1. PICK j \in 1 .. n : s[j] = x
    BY DEF Lists, n
  <2>2. j # i
    BY <2>1
  <2>3. CASE j < i
    BY <1>2, <1>4, <2>1, <2>3
  <2>4. CASE i < j
    <3>1. j - 1 \in 1 .. n - 1 /\ ~(j - 1 < i) /\ (j - 1) + 1 = j
      BY <1>2, <2>4
    <3> QED
      BY <1>4, <2>1, <3>1
  <2> QED
    BY <1>2, <2>2, <2>3, <2>4
<1>11. newFirst = IF n = 1 THEN NULL ELSE t[1]
  <2>1. CASE n = 1
    BY <1>2, <1>5, <2>1
  <2>2. CASE n # 1 /\ i = 1
    <3>1. 1 \in 1 .. n /\ 1 < n /\ 1 \in 1 .. n - 1
      BY <1>2, <2>2
    <3>2. t[1] = s[2] /\ next[s[1]] = s[2]
      BY <1>4, <1>5, <2>2, <3>1
    <3> QED
      BY <1>5, <2>2, <3>2
  <2>3. CASE n # 1 /\ i # 1
    <3>1. 1 \in 1 .. n /\ 1 < i /\ 1 \in 1 .. n - 1 /\ i \in 1 .. n
      BY <1>2, <2>3
    <3>2. t[1] = s[1] /\ s[i] # s[1]
      BY <1>3, <1>4, <2>3, <3>1
    <3> QED
      BY <1>5, <2>3, <3>2
  <2> QED
    BY <2>1, <2>2, <2>3
<1>12. newFirst = NULL <=> t = <<>>
  <2>1. n = 1 <=> t = <<>>
    BY <1>2, <1>4, EmptySeq
  <2>2. n # 1 => t[1] \in Procs
    BY <1>2, <1>7
  <2> QED
    BY <1>11, <2>1, <2>2, ConstantsAssumption
<1>13. ASSUME NEW k \in 1 .. n - 1
       PROVE  newNext[t[k]] = IF k < n - 1 THEN t[k + 1] ELSE NULL
  <2>1. newNext[t[k]] = IF next[t[k]] = s[i] THEN next[s[i]] ELSE next[t[k]]
    BY <1>7
  <2>2. i \in 1 .. n /\ k \in 1 .. n /\ k + 1 \in 1 .. n /\ k \in Nat
    BY <1>2
  <2>3. CASE k + 1 < i
    <3>1. k < n /\ k < i /\ k < n - 1 /\ k + 1 \in 1 .. n - 1 /\ k + 1 # i
      BY <1>2, <2>2, <2>3
    <3>2. t[k] = s[k] /\ t[k + 1] = s[k + 1] /\ next[s[k]] = s[k + 1] /\ s[k + 1] # s[i]
      BY <1>3, <1>4, <1>5, <2>2, <2>3, <3>1
    <3> QED
      BY <2>1, <3>1, <3>2
  <2>4. CASE k + 1 = i
    <3>1. k < n /\ k < i
      BY <1>2, <2>2, <2>4
    <3>2. t[k] = s[k] /\ next[s[k]] = s[i]
      BY <1>4, <1>5, <2>2, <2>4, <3>1
    <3>3. newNext[t[k]] = next[s[i]]
      BY <2>1, <3>2
    <3>4. CASE i = n
      BY <1>2, <1>5, <2>4, <3>3, <3>4
    <3>5. CASE i < n
      <4>1. k < n - 1 /\ k + 1 \in 1 .. n - 1 /\ ~(k + 1 < i)
        BY <1>2, <2>2, <2>4, <3>5
      <4>2. t[k + 1] = s[(k + 1) + 1] /\ next[s[i]] = s[i + 1]
        BY <1>4, <1>5, <2>2, <3>5, <4>1
      <4> QED
        BY <2>4, <3>3, <4>1, <4>2
    <3> QED
      BY <1>2, <3>4, <3>5
  <2>5. CASE i <= k
    <3>1. ~(k < i) /\ t[k] = s[k + 1]
      BY <1>2, <1>4, <2>2, <2>5
    <3>2. CASE k < n - 1
      <4>1. k + 1 < n /\ k + 1 \in 1 .. n - 1 /\ ~(k + 1 < i) /\ (k + 1) + 1 # i
            /\ (k + 1) + 1 \in 1 .. n
        BY <1>2, <2>2, <2>5, <3>2
      <4>2. t[k + 1] = s[(k + 1) + 1] /\ next[s[k + 1]] = s[(k + 1) + 1]
        BY <1>4, <1>5, <2>2, <4>1
      <4>3. s[(k + 1) + 1] # s[i]
        BY <1>3, <2>2, <4>1
      <4> QED
        BY <2>1, <3>1, <3>2, <4>2, <4>3
    <3>3. CASE k = n - 1
      <4>1. k + 1 = n /\ ~(k < n - 1)
        BY <1>2, <3>3
      <4>2. next[t[k]] = NULL /\ s[i] # NULL
        BY <1>5, <2>2, <3>1, <4>1
      <4> QED
        BY <2>1, <4>1, <4>2
    <3>4. k < n - 1 \/ k = n - 1
      BY <1>2
    <3> QED
      BY <3>2, <3>3, <3>4
  <2>6. k + 1 < i \/ k + 1 = i \/ i <= k
    BY <1>2, <2>2
  <2> QED
    BY <2>3, <2>4, <2>5, <2>6
<1>14. newFirst # NULL => Linked(t, newFirst, newNext)
  BY <1>4, <1>8, <1>11, <1>13 DEF Linked
<1>15. Lists(t, S \ {s[i]}, newFirst, newNext)
  BY <1>4, <1>8, <1>9, <1>10, <1>12, <1>14 DEF Lists
<1> QED
  BY <1>15 DEF t

-----------------------------------------------------------------------------
(* The lists of the process table                                          *)

(* The sequence lineBar gives for a process is what its sending queue is.  *)
LineInv == \A d \in Procs : Lists(lineBar[d], Senders(d), q_sending[d], next_sending)

LEMMA LineIs ==
  ASSUME IInv, NEW d \in Procs, NEW s, Lists(s, Senders(d), q_sending[d], next_sending)
  PROVE  lineBar[d] = s
<1>1. Senders(d) \in SUBSET Procs
  BY DEF Senders
<1>2. q_sending[d] # NULL => Senders(d) = Visited(q_sending[d], next_sending)
  BY DEF IInv, QueueInv, QueueExact, Queue
<1>3. InOrder(Senders(d), q_sending[d], next_sending) = s
  BY <1>1, <1>2, InOrderUnique
<1> QED
  BY <1>3 DEF lineBar

LEMMA NextLineIs ==
  ASSUME IInv', NEW d \in Procs, NEW s, Lists(s, Senders(d)', q_sending'[d], next_sending')
  PROVE  lineBar'[d] = s
<1>1. Senders(d)' \in SUBSET Procs
  BY DEF Senders
<1>2. q_sending'[d] # NULL => Senders(d)' = Visited(q_sending'[d], next_sending')
  BY DEF IInv, QueueInv, QueueExact, Queue, Visited, Closed
<1>3. InOrder(Senders(d)', q_sending'[d], next_sending') = s
  BY <1>1, <1>2, InOrderUnique
<1> QED
  BY <1>3 DEF lineBar, InOrder, Linked

(* The members of a line are the senders that wait for its owner.          *)
LEMMA MemberFact ==
  ASSUME LineInv, NEW d \in Procs, NEW q
  PROVE  R!Contains(lineBar[d], q) <=> q \in Senders(d)
<1>1. Lists(lineBar[d], Senders(d), q_sending[d], next_sending)
  BY DEF LineInv
<1>2. lineBar[d] \in [1 .. Len(lineBar[d]) -> Senders(d)]
  BY <1>1, ListLength
<1> QED
  BY <1>1, <1>2 DEF Lists, R!Contains

(* A step that leaves the queues alone leaves the lines alone.             *)
LEMMA LinesUntouched ==
  ASSUME LineInv, UNCHANGED <<q_sending, next_sending>>,
         \A d \in Procs : Senders(d)' = Senders(d)
  PROVE  lineBar' = lineBar /\ LineInv'
<1>1. lineBar' = lineBar
  <2>1. lineBar' = [d \in Procs |-> InOrder(Senders(d)', q_sending'[d], next_sending')]
    BY DEF lineBar
  <2>2. \A d \in Procs : InOrder(Senders(d)', q_sending'[d], next_sending')
                          = InOrder(Senders(d), q_sending[d], next_sending)
    OBVIOUS
  <2> QED
    BY <2>1, <2>2 DEF lineBar
<1> QED
  BY <1>1 DEF LineInv, Lists, Linked

-----------------------------------------------------------------------------
(* deadlock() finds a circle exactly when there is one                     *)

LEMMA SendEdgeFact ==
  ASSUME IInv, NEW q \in Procs, NEW e \in Procs
  PROVE  q \in Senders(e) <=> SendEdge[q] = e
BY ConstantsAssumption DEF Senders, Sending, SendEdge

(* The chain leads back: those from whom it does are a circle with p.      *)
LEMMA DeadlockCloses ==
  ASSUME IInv, NEW p \in Procs, NEW d \in Procs, Deadlock(p, d)
  PROVE  \E S \in SUBSET Procs :
           /\ {p, d} \subseteq S
           /\ \A q \in S \ {p} : \E e \in S : q \in Senders(e)
<1> DEFINE S == {p} \cup {y \in Procs : p \in Visited(y, SendEdge)}
<1>1. d \in S
  <2>1. PICK x \in Visited(d, SendEdge) : SendEdge[x] = p
    BY DEF Deadlock
  <2>2. p \in Visited(d, SendEdge)
    BY <2>1, VisitedLeast DEF Closed
  <2> QED
    BY <2>2
<1>2. ASSUME NEW q \in S \ {p}
      PROVE  \E e \in S : q \in Senders(e)
  <2>1. q \in Procs /\ q # p /\ p \in Visited(q, SendEdge)
    OBVIOUS
  <2>2. SendEdge[q] \in Procs
    <3> SUFFICES ASSUME SendEdge[q] \notin Procs PROVE FALSE
      OBVIOUS
    <3>1. Closed({q}, SendEdge)
      BY DEF Closed
    <3>2. Visited(q, SendEdge) \subseteq {q}
      BY <2>1, <3>1, VisitedLeast
    <3> QED
      BY <2>1, <3>2
  <2> DEFINE e == SendEdge[q]
             W == Visited(e, SendEdge)
  <2>3. W \subseteq Procs /\ e \in W /\ Closed(W, SendEdge)
    BY <2>2, VisitedLeast
  <2>4. Closed({q} \cup W, SendEdge) /\ {q} \cup W \in SUBSET Procs
    BY <2>1, <2>3 DEF Closed
  <2>5. Visited(q, SendEdge) \subseteq {q} \cup W
    BY <2>1, <2>4, VisitedLeast
  <2>6. e \in S
    BY <2>1, <2>2, <2>5
  <2>7. q \in Senders(e)
    BY <2>1, <2>2, SendEdgeFact
  <2> QED
    BY <2>6, <2>7
<1>3. S \in SUBSET Procs /\ {p, d} \subseteq S
  BY <1>1
<1> HIDE DEF S
<1> QED
  BY <1>2, <1>3

(* A circle through p and d is found: the chain of senders from d does not *)
(* leave it, and were it not to come to p it would be a circle without p.  *)
LEMMA ClosesDeadlock ==
  ASSUME IInv, NEW p \in Procs, NEW d \in Procs, p # d, NEW S \in SUBSET Procs,
         {p, d} \subseteq S, \A q \in S \ {p} : \E e \in S : q \in Senders(e)
  PROVE  Deadlock(p, d)
<1> SUFFICES ASSUME ~Deadlock(p, d) PROVE FALSE
  OBVIOUS
<1> DEFINE V == Visited(d, SendEdge)
           T == (V \cap S) \ {p}
<1>1. V \subseteq Procs /\ d \in V /\ Closed(V, SendEdge)
  BY VisitedLeast
<1>2. \A x \in V : SendEdge[x] # p
  BY DEF Deadlock
<1> HIDE DEF V
<1>3. ASSUME NEW x \in T PROVE SendEdge[x] \in T
  <2>1. PICK e \in S : x \in Senders(e)
    OBVIOUS
  <2>2. SendEdge[x] = e /\ e \in Procs
    BY <1>1, <2>1, SendEdgeFact
  <2> QED
    BY <1>1, <1>2, <2>2 DEF Closed
<1>4. d \in T /\ T \in SUBSET Procs
  BY <1>1
<1> HIDE DEF T
<1> QED
  BY <1>3, <1>4 DEF IInv, NoSendCycle, NoCycle

LEMMA CircleFact ==
  ASSUME IInv, LineInv, NEW p \in Procs, NEW d \in Procs, p # d
  PROVE  R!ClosesCircle(p, d) <=> Deadlock(p, d)
<1>1. R!ClosesCircle(p, d) <=>
        \E S \in SUBSET Procs :
          /\ {p, d} \subseteq S
          /\ \A q \in S \ {p} : \E e \in S : q \in Senders(e)
  <2>1. \A e \in Procs, q \in Procs : R!Contains(lineBar[e], q) <=> q \in Senders(e)
    BY MemberFact
  <2> QED
    BY <2>1 DEF R!ClosesCircle
<1>2. ASSUME Deadlock(p, d)
      PROVE  R!ClosesCircle(p, d)
  BY <1>1, <1>2, DeadlockCloses
<1>3. ASSUME R!ClosesCircle(p, d)
      PROVE  Deadlock(p, d)
  <2>1. PICK S \in SUBSET Procs :
          /\ {p, d} \subseteq S
          /\ \A q \in S \ {p} : \E e \in S : q \in Senders(e)
    BY <1>1, <1>3
  <2> QED
    BY <2>1, ClosesDeadlock
<1> QED
  BY <1>2, <1>3

-----------------------------------------------------------------------------
(* What msg_send() and msg_receive() do to the lines                       *)

(* A list depends on the pointers of its members only.                     *)
LEMMA ListSame ==
  ASSUME NEW S \in SUBSET Procs, NEW first, NEW next, NEW s,
         Lists(s, S, first, next),
         NEW newNext, \A x \in S : newNext[x] = next[x]
  PROVE  Lists(s, S, first, newNext)
<1>1. s \in [1 .. Len(s) -> S] /\ DOMAIN s = 1 .. Len(s)
  BY ListLength
<1>2. first # NULL => Linked(s, first, newNext)
  BY <1>1 DEF Lists, Linked
<1> QED
  BY <1>2 DEF Lists

(* If every list has become the one of these sequences, so have the lines. *)
LEMMA LinesBecome ==
  ASSUME IInv', NEW lines, lines = [d \in Procs |-> lines[d]],
         \A d \in Procs : Lists(lines[d], Senders(d)', q_sending'[d], next_sending')
  PROVE  lineBar' = lines /\ LineInv'
<1>1. \A d \in Procs : lineBar'[d] = lines[d]
  BY NextLineIs
<1>2. lineBar' = [d \in Procs |-> lineBar'[d]]
  BY DEF lineBar
<1>3. lineBar' = lines
  BY <1>1, <1>2
<1> QED
  BY <1>1, <1>3 DEF LineInv, Lists, Linked

(* A sender that blocks joins the end of the line of its destination.      *)
LEMMA EnqueueJoins ==
  ASSUME IInv, LineInv, IInv', NEW p \in Procs, NEW d \in Procs, p # d,
         p_flags[p] = {}, Enqueue(p, d),
         p_flags' = [p_flags EXCEPT ![p] = @ \cup {"SENDING"}],
         p_sendto' = [p_sendto EXCEPT ![p] = d]
  PROVE  lineBar' = [lineBar EXCEPT ![d] = Append(@, p)] /\ LineInv'
<1> DEFINE s == lineBar[d]
           S == Senders(d)
<1>1. /\ S \in SUBSET Procs /\ \A x \in Procs : p \notin Senders(x)
      /\ Senders(d)' = S \cup {p}
      /\ \A x \in Procs \ {d} : Senders(x)' = Senders(x)
  BY DEF IInv, TypeOK, Senders, Sending
<1>2. Lists(s, S, q_sending[d], next_sending)
  BY DEF LineInv
<1>0. S = Senders(d)
  OBVIOUS
<1> HIDE DEF s, S
<1>3. ASSUME NEW x \in S
      PROVE  next_sending'[x] = IF next_sending[x] = NULL THEN p ELSE next_sending[x]
  <2>1. q_sending[d] # NULL
    BY <1>0, <1>1, ConstantsAssumption DEF IInv, QueueInv, QueueExact, Queue
  <2>2. LastInQueue(d) \in S /\ next_sending[LastInQueue(d)] = NULL
    BY <1>0, <2>1, LastInQueueFact DEF IInv
  <2>3. x \in Procs /\ x # p /\ LastInQueue(d) \in Procs
    BY <1>0, <1>1, <2>2
  <2>4. next_sending' = [next_sending EXCEPT ![LastInQueue(d)] = p, ![p] = NULL]
    BY <2>1 DEF Enqueue
  <2>5. next_sending[x] = NULL => x = LastInQueue(d)
    <3>1. \A i \in 1 .. Len(s) : next_sending[s[i]] = NULL => i = Len(s)
      <4> SUFFICES ASSUME NEW i \in 1 .. Len(s), i # Len(s) PROVE next_sending[s[i]] # NULL
        OBVIOUS
      <4>1. Len(s) \in Nat
        BY <1>1, <1>2, ListLength
      <4>2. i < Len(s)
        BY <4>1
      <4>3. next_sending[s[i]] = s[i + 1] /\ i + 1 \in 1 .. Len(s)
        BY <1>1, <1>2, <2>1, <4>2, ListEnds
      <4>4. s[i + 1] \in Procs
        BY <1>1, <1>2, <2>1, <4>3, ListEnds
      <4> QED
        BY <4>3, <4>4, ConstantsAssumption
    <3>2. PICK i \in 1 .. Len(s) : s[i] = x
      BY <1>2 DEF Lists
    <3>3. PICK j \in 1 .. Len(s) : s[j] = LastInQueue(d)
      BY <1>2, <2>2 DEF Lists
    <3> QED
      BY <2>2, <3>1, <3>2, <3>3
  <2> QED
    BY <2>2, <2>3, <2>4, <2>5 DEF IInv, TypeOK
<1>4. /\ q_sending' = [q_sending EXCEPT ![d] = IF @ = NULL THEN p ELSE @]
      /\ next_sending'[p] = NULL
      /\ \A x \in Procs : x \notin S \cup {p} => next_sending'[x] = next_sending[x]
  <2>1. CASE q_sending[d] = NULL
    BY <2>1 DEF Enqueue, IInv, TypeOK
  <2>2. CASE q_sending[d] # NULL
    <3>1. LastInQueue(d) \in S /\ LastInQueue(d) \in Procs
      BY <1>0, <1>1, <2>2, LastInQueueFact DEF IInv
    <3>2. /\ q_sending' = q_sending
          /\ next_sending' = [next_sending EXCEPT ![LastInQueue(d)] = p, ![p] = NULL]
      BY <2>2 DEF Enqueue
    <3> QED
      BY <2>2, <3>1, <3>2 DEF IInv, TypeOK
  <2> QED
    BY <2>1, <2>2
<1>5. /\ q_sending'[d] = (IF q_sending[d] = NULL THEN p ELSE q_sending[d])
      /\ \A x \in Procs \ {d} : q_sending'[x] = q_sending[x]
  BY <1>4 DEF IInv, TypeOK
<1>6. Lists(Append(s, p), Senders(d)', q_sending'[d], next_sending')
  <2>1. p \in Procs \ S /\ S \in SUBSET Procs
    BY <1>0, <1>1
  <2>2. Lists(Append(s, p), S \cup {p}, q_sending'[d], next_sending')
    BY <1>2, <1>3, <1>4, <1>5, <2>1, ListAppended
  <2> QED
    BY <1>1, <2>2
<1>7. ASSUME NEW x \in Procs \ {d}
      PROVE  Lists(lineBar[x], Senders(x)', q_sending'[x], next_sending')
  <2>1. Lists(lineBar[x], Senders(x), q_sending[x], next_sending)
    BY DEF LineInv
  <2>2. Senders(x) \in SUBSET Procs /\ \A y \in Senders(x) : y \notin S \cup {p}
    BY <1>1 DEF Senders
  <2>3. \A y \in Senders(x) : next_sending'[y] = next_sending[y]
    BY <1>4, <2>2
  <2>4. Lists(lineBar[x], Senders(x), q_sending[x], next_sending')
    BY <2>1, <2>2, <2>3, ListSame
  <2> QED
    BY <1>1, <1>5, <2>4
<1> DEFINE lines == [lineBar EXCEPT ![d] = Append(s, p)]
<1>8. lines = [x \in Procs |-> IF x = d THEN Append(s, p) ELSE lineBar[x]]
  BY DEF lineBar
<1>9. lines = [x \in Procs |-> lines[x]] /\ lines[d] = Append(s, p)
      /\ \A x \in Procs \ {d} : lines[x] = lineBar[x]
  BY <1>8
<1> HIDE DEF lines
<1>10. \A x \in Procs : Lists(lines[x], Senders(x)', q_sending'[x], next_sending')
  BY <1>6, <1>7, <1>9
<1>11. lineBar' = lines /\ LineInv'
  BY <1>9, <1>10, LinesBecome
<1> QED
  BY <1>11 DEF lines, s

(* A sender whose message is taken leaves the line, wherever it stands.    *)
LEMMA DequeueLeaves ==
  ASSUME IInv, LineInv, IInv', NEW p \in Procs, NEW q \in Senders(p),
         Dequeue(p, q), ReleaseSender(q)
  PROVE  /\ LineInv'
         /\ \E i \in 1 .. Len(lineBar[p]) :
              /\ lineBar[p][i] = q
              /\ lineBar' = [lineBar EXCEPT ![p] = R!RemoveAt(@, i)]
<1> DEFINE s == lineBar[p]
           S == Senders(p)
<1>1. /\ S \in SUBSET Procs /\ q \in Procs
      /\ \A x \in Procs \ {p} : q \notin Senders(x)
      /\ Senders(p)' = S \ {q}
      /\ \A x \in Procs \ {p} : Senders(x)' = Senders(x)
  BY DEF IInv, TypeOK, Senders, Sending, ReleaseSender
<1>2. Lists(s, S, q_sending[p], next_sending)
  BY DEF LineInv
<1>3. PICK i \in 1 .. Len(s) : s[i] = q
  BY <1>2 DEF Lists
<1>4. S = Senders(p) /\ q \in S
  OBVIOUS
<1> HIDE DEF s, S
<1>5. q_sending[p] # NULL
  BY <1>4 DEF IInv, QueueInv, QueueExact, Queue
<1>6. /\ q_sending' = [q_sending EXCEPT ![p] = IF q = @ THEN next_sending[q] ELSE @]
      /\ \A x \in Procs \ {q} :
           next_sending'[x] = IF next_sending[x] = q THEN next_sending[q] ELSE next_sending[x]
  <2>1. q \in Procs /\ q # NULL
    BY <1>1, ConstantsAssumption
  <2>2. CASE q = q_sending[p]
    <3>1. /\ q_sending' = [q_sending EXCEPT ![p] = next_sending[q]]
          /\ next_sending' = [next_sending EXCEPT ![q] = NULL]
      BY <2>2 DEF Dequeue
    <3>2. \A x \in Procs : next_sending[x] # q
      BY <2>1, <2>2 DEF IInv, QueueInv, FirstIsFirst
    <3> QED
      BY <2>1, <2>2, <3>1, <3>2 DEF IInv, TypeOK
  <2>3. CASE q # q_sending[p]
    <3> DEFINE z == Predecessor(p, q)
    <3>1. z \in Senders(p) /\ next_sending[z] = q
      BY <2>3, PredecessorFact DEF IInv
    <3>2. z \in Procs
      BY <1>1, <1>4, <3>1
    <3>3. /\ q_sending' = q_sending
          /\ next_sending' = [next_sending EXCEPT ![z] = next_sending[q], ![q] = NULL]
      BY <2>3 DEF Dequeue
    <3> HIDE DEF z
    <3>4. \A x \in Procs \ {z} : next_sending[x] # q
      BY <2>1, <3>1, <3>2 DEF IInv, QueueInv, LinkedOnce
    <3> QED
      BY <2>1, <2>3, <3>1, <3>2, <3>3, <3>4 DEF IInv, TypeOK
  <2> QED
    BY <2>2, <2>3
<1>7. /\ q_sending'[p] = (IF q = q_sending[p] THEN next_sending[q] ELSE q_sending[p])
      /\ \A x \in Procs \ {p} : q_sending'[x] = q_sending[x]
  BY <1>6 DEF IInv, TypeOK
<1>8. Lists(R!RemoveAt(s, i), Senders(p)', q_sending'[p], next_sending')
  <2>1. \A x \in S \ {s[i]} :
          next_sending'[x] = IF next_sending[x] = s[i] THEN next_sending[s[i]] ELSE next_sending[x]
    BY <1>1, <1>3, <1>6
  <2>2. q_sending'[p] = IF s[i] = q_sending[p] THEN next_sending[s[i]] ELSE q_sending[p]
    BY <1>3, <1>7
  <2>3. Lists(R!RemoveAt(s, i), S \ {s[i]}, q_sending'[p], next_sending')
    BY <1>1, <1>2, <1>5, <2>1, <2>2, ListRemoved
  <2> QED
    BY <1>1, <1>3, <2>3
<1>9. ASSUME NEW x \in Procs \ {p}
      PROVE  Lists(lineBar[x], Senders(x)', q_sending'[x], next_sending')
  <2>1. Lists(lineBar[x], Senders(x), q_sending[x], next_sending)
    BY DEF LineInv
  <2>2. Senders(x) \in SUBSET Procs /\ q \notin Senders(x)
    BY <1>1 DEF Senders
  <2>3. \A y \in Senders(x) : next_sending[y] # q
    <3> SUFFICES ASSUME NEW y \in Senders(x), next_sending[y] = q PROVE FALSE
      OBVIOUS
    <3>1. y \in Procs /\ p_sendto[y] = x
      BY DEF Senders
    <3>2. q \in Senders(x)
      BY <1>1, <3>1, ConstantsAssumption DEF IInv, QueueInv, NextIsSender
    <3> QED
      BY <2>2, <3>2
  <2>4. \A y \in Senders(x) : next_sending'[y] = next_sending[y]
    BY <1>6, <2>2, <2>3
  <2>5. Lists(lineBar[x], Senders(x), q_sending[x], next_sending')
    BY <2>1, <2>2, <2>4, ListSame
  <2> QED
    BY <1>1, <1>7, <2>5
<1> DEFINE lines == [lineBar EXCEPT ![p] = R!RemoveAt(s, i)]
<1>10. lines = [x \in Procs |-> IF x = p THEN R!RemoveAt(s, i) ELSE lineBar[x]]
  BY DEF lineBar
<1>11. lines = [x \in Procs |-> lines[x]] /\ lines[p] = R!RemoveAt(s, i)
       /\ \A x \in Procs \ {p} : lines[x] = lineBar[x]
  BY <1>10
<1> HIDE DEF lines
<1>12. \A x \in Procs : Lists(lines[x], Senders(x)', q_sending'[x], next_sending')
  BY <1>8, <1>9, <1>11
<1>13. lineBar' = lines /\ LineInv'
  BY <1>11, <1>12, LinesBecome
<1> QED
  BY <1>3, <1>13 DEF lines, s

-----------------------------------------------------------------------------
(* The actions of Ipc are those of Rendezvous                              *)

LEMMA AwaitFact ==
  ASSUME IInv, NEW d \in Procs, NEW p \in Procs
  PROVE  p \in awaitBar[d] <=> Awaits(d, p)
BY ConstantsAssumption DEF IInv, TypeOK, PcbConsistent, Receiving, awaitBar, Awaits

(* A process that calls the kernel is executing its program.               *)
LEMMA CallerIsFree ==
  ASSUME IInv, LineInv, NEW p \in Callers, Calls(p)
  PROVE  R!Free(p) /\ cpu # "hlt"
<1>1. p \in Procs /\ p_flags[p] = {} /\ p_recvfrom[p] = NO_TASK
  BY CallerFact
<1>2. awaitBar[p] = {}
  BY <1>1 DEF awaitBar
<1>3. \A d \in Procs : p \notin Senders(d)
  BY <1>1 DEF Senders, Sending
<1>4. \A d \in Procs : ~R!Contains(lineBar[d], p)
  BY <1>3, MemberFact
<1> QED
  BY <1>2, <1>4 DEF R!Free, Calls

LEMMA UserWrites ==
  ASSUME IInv, LineInv, NEW p \in Callers,
         UserReset(p) \/ \E b \in Bodies : UserWrite(p, b)
  PROVE  LineInv' /\ R!RNext
<1>1. /\ Calls(p) /\ cpu' = cpu /\ UNCHANGED <<p_flags, p_sendto, p_recvfrom, q_sending, next_sending>>
      /\ \E m \in {ZeroMessage} \cup {[buf[p] EXCEPT !.body = b] : b \in Bodies} :
           buf' = [buf EXCEPT ![p] = m]
  BY DEF UserReset, UserWrite, pcb
<1>2. awaitBar' = awaitBar /\ \A d \in Procs : Senders(d)' = Senders(d)
  BY <1>1 DEF awaitBar, Senders, Sending
<1>3. lineBar' = lineBar /\ LineInv'
  BY <1>1, <1>2, LinesUntouched
<1>4. R!Free(p) /\ cpu # "hlt"
  BY <1>1, CallerIsFree
<1> QED
  BY <1>1, <1>2, <1>3, <1>4 DEF R!RNext, R!WritesOwn

LEMMA PanicHalts ==
  ASSUME IInv, LineInv, NEW p \in Callers, NEW d \in Procs \ {p}, SendPanic(p, d)
  PROVE  LineInv' /\ R!RNext
<1>1. /\ Calls(p) /\ Deadlock(p, d) /\ buf' = Stamped(p) /\ cpu' = "hlt"
      /\ UNCHANGED <<p_flags, p_sendto, p_recvfrom, q_sending, next_sending>>
  BY DEF SendPanic, pcb
<1>2. awaitBar' = awaitBar /\ \A x \in Procs : Senders(x)' = Senders(x)
  BY <1>1 DEF awaitBar, Senders, Sending
<1>3. lineBar' = lineBar /\ LineInv'
  BY <1>1, <1>2, LinesUntouched
<1>4. R!Free(p) /\ cpu # "hlt" /\ p \in Procs
  BY <1>1, CallerIsFree, CallerFact
<1>5. R!ClosesCircle(p, d)
  BY <1>1, <1>4, CircleFact
<1>6. R!Halts(p, d)
  BY <1>1, <1>2, <1>3, <1>5 DEF R!Halts, R!Signed, Stamped
<1> QED
  BY <1>3, <1>4, <1>6 DEF R!RNext

LEMMA DirectDelivers ==
  ASSUME IInv, LineInv, NEW p \in Callers, NEW d \in Procs \ {p}, SendDirect(p, d)
  PROVE  LineInv' /\ R!RNext
<1>1. /\ Calls(p) /\ ~Deadlock(p, d) /\ Awaits(d, p)
      /\ buf' = [Stamped(p) EXCEPT ![p_msg[d]] = Stamped(p)[p]]
      /\ p_flags' = [p_flags EXCEPT ![d] = @ \ {"RECEIVING"}]
      /\ p_recvfrom' = [p_recvfrom EXCEPT ![d] = NO_TASK]
      /\ UNCHANGED <<p_sendto, q_sending, next_sending, cpu>>
  BY DEF SendDirect, ReleaseReceiver
<1>2. p_msg[d] = d
  BY <1>1 DEF IInv, PcbConsistent, Awaits
<1>3. awaitBar' = [awaitBar EXCEPT ![d] = {}]
  BY <1>1 DEF IInv, TypeOK, awaitBar
<1>4. \A x \in Procs : Senders(x)' = Senders(x)
  BY <1>1 DEF IInv, TypeOK, Senders, Sending
<1>5. lineBar' = lineBar /\ LineInv'
  BY <1>1, <1>4, LinesUntouched
<1>6. R!Free(p) /\ cpu # "hlt" /\ p \in Procs
  BY <1>1, CallerIsFree, CallerFact
<1>7. ~R!ClosesCircle(p, d) /\ p \in awaitBar[d]
  BY <1>1, <1>6, CircleFact, AwaitFact
<1>8. R!Delivers(p, d)
  BY <1>1, <1>2, <1>3, <1>5, <1>7 DEF R!Delivers, R!Signed, Stamped
<1> QED
  BY <1>5, <1>6, <1>8 DEF R!RNext

LEMMA BlockJoins ==
  ASSUME IInv, LineInv, IInv', NEW p \in Callers, NEW d \in Procs \ {p}, SendBlock(p, d)
  PROVE  LineInv' /\ R!RNext
<1>1. /\ Calls(p) /\ ~Deadlock(p, d) /\ ~Awaits(d, p) /\ buf' = Stamped(p)
      /\ p_flags' = [p_flags EXCEPT ![p] = @ \cup {"SENDING"}]
      /\ p_sendto' = [p_sendto EXCEPT ![p] = d]
      /\ Enqueue(p, d)
      /\ UNCHANGED <<p_recvfrom, cpu>>
  BY DEF SendBlock
<1>2. R!Free(p) /\ cpu # "hlt" /\ p \in Procs /\ p_flags[p] = {}
  BY <1>1, CallerIsFree, CallerFact
<1>3. lineBar' = [lineBar EXCEPT ![d] = Append(@, p)] /\ LineInv'
  BY <1>1, <1>2, EnqueueJoins
<1>4. awaitBar' = awaitBar
  BY <1>1 DEF awaitBar
<1>5. ~R!ClosesCircle(p, d) /\ p \notin awaitBar[d]
  BY <1>1, <1>2, CircleFact, AwaitFact
<1>6. R!JoinsLine(p, d)
  BY <1>1, <1>3, <1>4, <1>5 DEF R!JoinsLine, R!Signed, Stamped
<1> QED
  BY <1>2, <1>3, <1>6 DEF R!RNext

(* Whom a receiver asks for, as a set.                                     *)
Asked(src) == IF src = ANY THEN Procs ELSE {src}

LEMMA TakeTakes ==
  ASSUME IInv, LineInv, IInv', NEW p \in Callers, NEW src \in (Procs \ {p}) \cup {ANY},
         ReceiveTake(p, src)
  PROVE  LineInv' /\ R!RNext
<1>1. PICK q \in Offers(p, src) : Dequeue(p, q) /\ CopyFrom(p, q) /\ ReleaseSender(q)
  BY DEF ReceiveTake
<1>2. Calls(p) /\ UNCHANGED <<p_recvfrom, cpu>>
  BY DEF ReceiveTake
<1>3. R!Free(p) /\ cpu # "hlt" /\ p \in Procs
  BY <1>2, CallerIsFree, CallerFact
<1>4. q \in Senders(p) /\ q \in Procs /\ p_msg[q] = q
  BY <1>3, OfferFact
<1>5. LineInv'
  BY <1>1, <1>3, <1>4, DequeueLeaves
<1>6. PICK i \in 1 .. Len(lineBar[p]) :
        lineBar[p][i] = q /\ lineBar' = [lineBar EXCEPT ![p] = R!RemoveAt(@, i)]
  BY <1>1, <1>3, <1>4, DequeueLeaves
<1>7. Lists(lineBar[p], Senders(p), q_sending[p], next_sending) /\ Senders(p) \in SUBSET Procs
  BY <1>3 DEF LineInv, Senders
<1>8. Len(lineBar[p]) \in Nat /\ DOMAIN lineBar[p] = 1 .. Len(lineBar[p])
  BY <1>7, ListLength
<1>9. q \in Asked(src) /\ \A j \in 1 .. (i - 1) : lineBar[p][j] \notin Asked(src)
  <2>1. CASE src = ANY
    <3>1. q = q_sending[p] /\ q # NULL
      BY <1>4, <2>1, ConstantsAssumption DEF Offers
    <3>2. 1 \in 1 .. Len(lineBar[p])
      BY <1>8
    <3>3. lineBar[p][1] = q
      <4> DEFINE L == lineBar[p]
      <4>1. Lists(L, Senders(p), q_sending[p], next_sending) /\ q_sending[p] # NULL
        BY <1>7, <3>1
      <4> HIDE DEF L
      <4>2. L[1] = q_sending[p]
        BY <4>1 DEF Lists, Linked
      <4> QED
        BY <4>2, <3>1 DEF L
    <3>4. i = 1
      BY <1>6, <1>7, <3>2, <3>3 DEF Lists
    <3> QED
      BY <1>4, <2>1, <3>4 DEF Asked
  <2>2. CASE src # ANY
    <3>1. q = src
      BY <2>2 DEF Offers
    <3>2. \A j \in 1 .. (i - 1) : j \in 1 .. Len(lineBar[p]) /\ j # i
      BY <1>8
    <3>3. \A j \in 1 .. (i - 1) : lineBar[p][j] # q
      BY <1>6, <1>7, <3>2 DEF Lists
    <3> QED
      BY <2>2, <3>1, <3>3 DEF Asked
  <2> QED
    BY <2>1, <2>2
<1>10. awaitBar' = awaitBar
  BY <1>2 DEF awaitBar
<1>11. Asked(src) \in R!Sources(p)
  BY DEF Asked, R!Sources
<1>12. R!Takes(p, Asked(src))
  BY <1>1, <1>2, <1>4, <1>6, <1>8, <1>9, <1>10 DEF R!Takes, CopyFrom
<1> QED
  BY <1>3, <1>5, <1>11, <1>12 DEF R!RNext

LEMMA BlockWaits ==
  ASSUME IInv, LineInv, NEW p \in Callers, NEW src \in (Procs \ {p}) \cup {ANY},
         ReceiveBlock(p, src)
  PROVE  LineInv' /\ R!RNext
<1>1. /\ Calls(p) /\ Offers(p, src) = {} /\ buf' = Stamped(p)
      /\ p_flags' = [p_flags EXCEPT ![p] = @ \cup {"RECEIVING"}]
      /\ p_recvfrom' = [p_recvfrom EXCEPT ![p] = src]
      /\ UNCHANGED <<p_sendto, q_sending, next_sending, cpu>>
  BY DEF ReceiveBlock
<1>2. R!Free(p) /\ cpu # "hlt" /\ p \in Procs
  BY <1>1, CallerIsFree, CallerFact
<1>3. \A x \in Procs : Senders(x)' = Senders(x)
  BY <1>1, <1>2 DEF IInv, TypeOK, Senders, Sending
<1>4. lineBar' = lineBar /\ LineInv'
  BY <1>1, <1>3, LinesUntouched
<1>5. awaitBar' = [awaitBar EXCEPT ![p] = Asked(src)]
  <2>1. src # NO_TASK
    BY ConstantsAssumption
  <2>2. awaitBar' = [x \in Procs |-> IF x = p THEN Asked(src) ELSE awaitBar[x]]
    BY <1>1, <1>2, <2>1 DEF IInv, TypeOK, awaitBar, Asked
  <2> QED
    BY <2>2 DEF awaitBar
<1>6. Lists(lineBar[p], Senders(p), q_sending[p], next_sending)
  BY <1>2 DEF LineInv
<1>7. lineBar[p] \in [1 .. Len(lineBar[p]) -> Senders(p)]
  BY <1>6, ListLength
<1>8. \A i \in DOMAIN lineBar[p] : lineBar[p][i] \notin Asked(src)
  <2> SUFFICES ASSUME NEW q \in Senders(p), q \in Asked(src) PROVE FALSE
    BY <1>7
  <2>1. q \in Procs /\ SendEdge[q] = p
    BY <1>2, SendEdgeFact DEF Senders
  <2>2. CASE src = ANY
    <3>1. q_sending[p] \in Procs
      BY <1>2 DEF IInv, TypeOK, QueueInv, QueueExact, Queue
    <3> QED
      BY <1>1, <2>2, <3>1 DEF Offers
  <2>3. CASE src # ANY
    BY <1>1, <2>1, <2>3 DEF Offers, Asked
  <2> QED
    BY <2>2, <2>3
<1>9. Asked(src) \in R!Sources(p)
  BY DEF Asked, R!Sources
<1>10. R!Waits(p, Asked(src))
  BY <1>1, <1>4, <1>5, <1>8 DEF R!Waits, R!Signed, Stamped
<1> QED
  BY <1>2, <1>4, <1>9, <1>10 DEF R!RNext

(* The scheduler is invisible.                                             *)
LEMMA ScheduleStutters ==
  ASSUME LineInv, ClockSchedule \/ UNCHANGED vars
  PROVE  LineInv' /\ UNCHANGED <<lineBar, awaitBar, buf, cpu>>
<1>1. UNCHANGED <<p_flags, p_sendto, p_recvfrom, q_sending, next_sending, buf, cpu>>
  BY DEF ClockSchedule, vars, pcb
<1>2. awaitBar' = awaitBar /\ \A d \in Procs : Senders(d)' = Senders(d)
  BY <1>1 DEF awaitBar, Senders, Sending
<1> QED
  BY <1>1, <1>2, LinesUntouched

LEMMA StepRefines ==
  ASSUME IInv, LineInv, IInv', [Next]_vars
  PROVE  LineInv' /\ [R!RNext]_<<lineBar, awaitBar, buf, cpu = "hlt">>
<1>1. CASE ClockSchedule \/ UNCHANGED vars
  BY <1>1, ScheduleStutters
<1>2. ASSUME NEW p \in Callers,
             UserReset(p) \/ \E b \in Bodies : UserWrite(p, b)
      PROVE  LineInv' /\ R!RNext
  BY <1>2, UserWrites
<1>3. ASSUME NEW p \in Callers, NEW d \in Procs \ {p}, Send(p, d)
      PROVE  LineInv' /\ R!RNext
  BY <1>3, PanicHalts, DirectDelivers, BlockJoins DEF Send
<1>4. ASSUME NEW p \in Callers, NEW src \in (Procs \ {p}) \cup {ANY}, Receive(p, src)
      PROVE  LineInv' /\ R!RNext
  BY <1>4, TakeTakes, BlockWaits DEF Receive
<1> QED
  BY <1>1, <1>2, <1>3, <1>4 DEF Next

LEMMA InitRefines == Init => LineInv /\ R!RInit
<1> SUFFICES ASSUME Init PROVE LineInv /\ R!RInit
  OBVIOUS
<1>1. IInv
  BY InitInv
<1>2. \A d \in Procs : Senders(d) = {} /\ q_sending[d] = NULL
  BY DEF Init, Senders, Sending
<1>3. \A d \in Procs : Lists(<<>>, Senders(d), q_sending[d], next_sending)
  <2> SUFFICES ASSUME NEW d \in Procs
               PROVE  Lists(<<>>, Senders(d), q_sending[d], next_sending)
    OBVIOUS
  <2>1. <<>> \in Seq(Senders(d))
    BY EmptySeq
  <2>2. 1 .. Len(<<>>) = {}
    BY EmptySeq
  <2>3. \A i, j \in 1 .. Len(<<>>) : <<>>[i] = <<>>[j] => i = j
    BY <2>2
  <2> QED
    BY <1>2, <2>1, <2>3 DEF Lists
<1>4. \A d \in Procs : lineBar[d] = <<>>
  BY <1>1, <1>3, LineIs
<1>5. lineBar = [d \in Procs |-> <<>>]
  BY <1>4 DEF lineBar
<1>6. awaitBar = [p \in Procs |-> {}]
  BY DEF Init, awaitBar
<1> QED
  BY <1>3, <1>4, <1>5, <1>6 DEF LineInv, R!RInit, Init

(* What kernel/ipc.c does with flags, pointers and lists is, for any       *)
(* number of processes and any messages, what Rendezvous says: messages    *)
(* are taken in the order in which their senders came, each delivered      *)
(* once, unaltered and in one step, and a send stops the machine exactly   *)
(* when it would close a circle of senders.                                *)
THEOREM AlwaysRendezvous == Spec => Implements
<1>1. Init => LineInv /\ R!RInit
  BY InitRefines
<1>2. IInv /\ IInv' /\ LineInv /\ [Next]_vars
        => LineInv' /\ [R!RNext]_<<lineBar, awaitBar, buf, cpu = "hlt">>
  BY StepRefines
<1> QED
  BY <1>1, <1>2, InvariantHolds, PTL DEF Spec, Implements, R!RSpec, R!rvars
=============================================================================
