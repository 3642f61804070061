--------------------------- MODULE KeyRingProofs ---------------------------
(***************************************************************************)
(* The keyboard's ring, of any size and for any bytes: its invariants, and *)
(* that it is a queue.                                                     *)
(***************************************************************************)
EXTENDS KeyRing, SequenceTheorems, TLAPS

(* initKeyboard() establishes the invariant.                               *)
LEMMA InitInv == Init => IInv
  BY RingAssumption DEF Init, IInv, TypeOK, RingExact, ReaderInv, Slot, Waiting

(* The interrupt handler keeps the invariant, wherever the reader is.      *)
LEMMA HandlerStep ==
  ASSUME IInv, NEW b \in Bytes, keyboardHandler(b)
  PROVE  IInv'
<1> USE RingAssumption DEF IInv, keyboardHandler, HasRoom
<1>1. TypeOK'
  BY DEF TypeOK, Rolled
<1>2. ReaderInv'
  BY DEF TypeOK, ReaderInv
<1>3. RingExact'
  BY DEF TypeOK, ReaderInv, RingExact, Slot, Waiting, Rolled
<1> QED
  BY <1>1, <1>2, <1>3

(* Every step of getByteFromKeyboardIn() keeps the invariant.              *)
LEMMA ReaderStep ==
  ASSUME IInv, Reader
  PROVE  IInv'
<1> USE RingAssumption DEF IInv, ring
<1>1. CASE Wait
  BY <1>1 DEF Wait, TypeOK, ReaderInv, RingExact, Slot, Waiting
<1>2. CASE disableINT
  BY <1>2 DEF disableINT, TypeOK, ReaderInv, RingExact, Slot, Waiting
<1>3. CASE Fetch
  BY <1>3 DEF Fetch, TypeOK, ReaderInv, RingExact, Slot, Waiting
<1>4. CASE Load
  BY <1>4 DEF Load, TypeOK, ReaderInv, RingExact, Slot, Waiting
<1>5. CASE Store
  BY <1>5 DEF Store, TypeOK, ReaderInv, RingExact, Slot, Waiting
<1>6. CASE Wrap
  BY <1>6 DEF Wrap, Rolled, TypeOK, ReaderInv, RingExact, Slot, Waiting
<1>7. CASE enableINT
  BY <1>7 DEF enableINT, TypeOK, ReaderInv, RingExact, Slot, Waiting
<1> QED
  BY <1>1, <1>2, <1>3, <1>4, <1>5, <1>6, <1>7 DEF Reader

(* Nothing the handler or the reader does breaks the invariant.            *)
LEMMA Inductive == IInv /\ [Next]_vars => IInv'
<1> SUFFICES ASSUME IInv, [Next]_vars PROVE IInv'
  OBVIOUS
<1>1. CASE Reader
  BY <1>1, ReaderStep
<1>2. CASE \E b \in Bytes : keyboardHandler(b)
  BY <1>2, HandlerStep
<1>3. CASE UNCHANGED vars
  BY <1>3 DEF IInv, TypeOK, RingExact, ReaderInv, Slot, Waiting, vars, ring
<1> QED
  BY <1>1, <1>2, <1>3 DEF Next, Dropped

(* The invariant holds in every reachable state.                           *)
LEMMA InvariantHolds == Spec => []IInv
  BY InitInv, Inductive, PTL DEF Spec

(* The fields of keyboardIn keep their types: above all count never leaves *)
(* 0 .. KB_IN_BYTES and p_head never leaves the buffer.                    *)
THEOREM TypeCorrect == Spec => []TypeOK
<1>1. IInv => TypeOK
  BY DEF IInv
<1> QED
  BY <1>1, InvariantHolds, PTL

(* p_head, p_tail and count agree after every step of the handler and of   *)
(* the reader.                                                             *)
THEOREM RingAlwaysExact == Spec => []RingExact
<1>1. IInv => RingExact
  BY DEF IInv
<1> QED
  BY <1>1, InvariantHolds, PTL

-----------------------------------------------------------------------------
(* The ring implements the queue                                           *)

Content == [i \in 1 .. Waiting |-> buf[Slot(i - 1)]]

(* How long the queue is, and what is in it.                               *)
LEMMA ContentFact ==
  ASSUME IInv
  PROVE  /\ Waiting \in 0 .. Size
         /\ Content \in Seq(Bytes)
         /\ Len(Content) = Waiting
<1>1. Waiting \in 0 .. Size
  BY RingAssumption DEF IInv, TypeOK, ReaderInv, Waiting
<1>2. \A i \in 1 .. Waiting : buf[Slot(i - 1)] \in Bytes
  BY <1>1, RingAssumption DEF IInv, TypeOK, ReaderInv, Slot, Waiting
<1> QED
  BY <1>1, <1>2 DEF Content

(* A byte that is accepted becomes the last of the queue.                  *)
LEMMA ArriveStep ==
  ASSUME IInv, NEW b \in Bytes, keyboardHandler(b)
  PROVE  Len(Content) < Size /\ Content' = Append(Content, b) /\ scanCode' = scanCode
<1>1. Waiting = count /\ Waiting' = count + 1 /\ count < Size /\ p_tail \in 0 .. Size - 1
  BY RingAssumption DEF IInv, TypeOK, ReaderInv, Waiting, keyboardHandler, HasRoom
<1>2. ASSUME NEW i \in 0 .. count
      PROVE  /\ Slot(i)' = Slot(i)
             /\ i < count => Slot(i) # p_head /\ Slot(i) \in 0 .. Size - 1
             /\ i = count => Slot(i) = p_head
  BY <1>1, RingAssumption DEF IInv, TypeOK, RingExact, Slot, keyboardHandler
<1>3. ASSUME NEW i \in 1 .. count + 1
      PROVE  buf'[Slot(i - 1)'] = Append(Content, b)[i]
  <2>1. i - 1 \in 0 .. count
    BY <1>1 DEF IInv, TypeOK
  <2>2. CASE i = count + 1
    BY <1>1, <1>2, <2>1, <2>2, ContentFact DEF IInv, TypeOK, keyboardHandler
  <2>3. CASE i # count + 1
    <3>1. i \in 1 .. Waiting /\ Slot(i - 1) # p_head /\ Slot(i - 1) \in 0 .. Size - 1
      BY <1>1, <1>2, <2>1, <2>3 DEF IInv, TypeOK
    <3>2. buf'[Slot(i - 1)'] = buf[Slot(i - 1)]
      BY <1>2, <2>1, <3>1 DEF IInv, TypeOK, keyboardHandler
    <3>3. Append(Content, b)[i] = Content[i]
      BY <3>1, ContentFact
    <3> QED
      BY <3>1, <3>2, <3>3 DEF Content
  <2> QED
    BY <2>2, <2>3
<1>4. Content' = [i \in 1 .. count + 1 |-> buf'[Slot(i - 1)']]
  BY <1>1 DEF Content
<1>5. Append(Content, b) = [i \in 1 .. count + 1 |-> Append(Content, b)[i]]
  <2> DEFINE longer == Append(Content, b)
  <2>1. longer \in Seq(Bytes) /\ Len(longer) = count + 1
    BY <1>1, ContentFact, AppendProperties
  <2>2. longer \in [1 .. count + 1 -> Bytes]
    BY <2>1, LenProperties
  <2> QED
    BY <2>2
<1>6. Content' = Append(Content, b)
  BY <1>3, <1>4, <1>5
<1> QED
  BY <1>1, <1>6, ContentFact DEF keyboardHandler

(* The reader takes the first of the queue.                                *)
LEMMA TakeStep ==
  ASSUME IInv, Fetch
  PROVE  Content # <<>> /\ scanCode' = Head(Content) /\ Content' = Tail(Content)
<1>1. /\ Waiting = count /\ Waiting' = count - 1 /\ count \in 1 .. Size
      /\ p_tail \in 0 .. Size - 1 /\ p_tail' = p_tail + 1 /\ buf' = buf
  BY RingAssumption DEF IInv, TypeOK, ReaderInv, Waiting, Fetch
<1>2. ASSUME NEW i \in 1 .. count - 1
      PROVE  Slot(i - 1)' = Slot(i)
  BY <1>1, RingAssumption DEF Slot
<1>3. Content # <<>> /\ scanCode' = Head(Content)
  <2>1. Slot(0) = p_tail
    BY <1>1, RingAssumption DEF Slot
  <2>2. Content[1] = buf[p_tail]
    BY <1>1, <2>1 DEF Content
  <2> QED
    BY <1>1, <2>2, ContentFact DEF Fetch
<1>4. Tail(Content) = [i \in 1 .. count - 1 |-> Content[i + 1]]
  <2> DEFINE rest == Tail(Content)
  <2>1. rest \in Seq(Bytes) /\ Len(rest) = count - 1
    BY <1>1, <1>3, ContentFact, HeadTailProperties
  <2>2. rest = [i \in 1 .. count - 1 |-> rest[i]]
    BY <2>1, LenProperties
  <2>3. \A i \in 1 .. count - 1 : rest[i] = Content[i + 1]
    BY <1>3, <2>1, ContentFact, HeadTailProperties
  <2> HIDE DEF rest
  <2>4. rest = [i \in 1 .. count - 1 |-> Content[i + 1]]
    BY <2>2, <2>3
  <2> QED
    BY <2>4 DEF rest
<1>5. ASSUME NEW i \in 1 .. count - 1
      PROVE  buf'[Slot(i - 1)'] = Content[i + 1]
  BY <1>1, <1>2 DEF Content
<1>6. Content' = [i \in 1 .. count - 1 |-> buf'[Slot(i - 1)']]
  BY <1>1 DEF Content
<1> QED
  BY <1>3, <1>4, <1>5, <1>6

(* Every other step of the reader leaves the queue as it is.               *)
LEMMA OtherStep ==
  ASSUME IInv, Wait \/ disableINT \/ Load \/ Store \/ Wrap \/ enableINT \/ UNCHANGED vars
  PROVE  Content' = Content /\ scanCode' = scanCode
<1>1. /\ Waiting' = Waiting /\ buf' = buf /\ scanCode' = scanCode
      /\ (p_tail' = p_tail \/ (p_tail = Size /\ p_tail' = 0 /\ Waiting < Size))
  BY RingAssumption
     DEF IInv, TypeOK, ReaderInv, Waiting, Wait, disableINT, Load, Store, Wrap, enableINT,
         Rolled, vars, ring
<1>2. ASSUME NEW i \in 1 .. Waiting
      PROVE  Slot(i - 1)' = Slot(i - 1)
  BY <1>1, ContentFact, RingAssumption DEF Slot, IInv, TypeOK
<1>3. Content' = [i \in 1 .. Waiting |-> buf[Slot(i - 1)']]
  BY <1>1 DEF Content
<1> QED
  BY <1>1, <1>2, <1>3 DEF Content

(* The ring is a bounded queue: whatever the interrupts and the reader do, *)
(* scan codes are taken in the order of their arrival, each once, and none *)
(* is lost while there is room.                                            *)
THEOREM AlwaysQueue == Spec => ImplementsQueue
<1>1. Init => Queue!Init
  BY RingAssumption, InitInv, ContentFact DEF Init, Waiting, Queue!Init, Content
<1>2. IInv /\ [Next]_vars => [Queue!Next]_<<Content, scanCode>>
  <2> SUFFICES ASSUME IInv, [Next]_vars PROVE [Queue!Next]_<<Content, scanCode>>
    OBVIOUS
  <2>1. CASE Fetch
    BY <2>1, TakeStep DEF Queue!Next, Queue!Take, Content
  <2>2. CASE \E b \in Bytes : keyboardHandler(b)
    BY <2>2, ArriveStep DEF Queue!Next, Queue!Arrive, Content
  <2>3. CASE Wait \/ disableINT \/ Load \/ Store \/ Wrap \/ enableINT \/ UNCHANGED vars
    BY <2>3, OtherStep
  <2> QED
    BY <2>1, <2>2, <2>3 DEF Next, Reader, Dropped
<1> QED
  BY <1>1, <1>2, InvariantHolds, PTL DEF Spec, ImplementsQueue, Queue!Spec, Content
=============================================================================
