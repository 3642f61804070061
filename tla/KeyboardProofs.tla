--------------------------- MODULE KeyboardProofs ---------------------------
(***************************************************************************)
(* Theorems about Keyboard, for any of its keys, any backlog and any ring  *)
(* that holds what the keyboard may send.                                  *)
(***************************************************************************)
EXTENDS Keyboard, SequenceTheorems, TLAPS

Shifts  == {"shift_l", "shift_r"}
Effects == {"a", "A", "7", "8", "scroll up", "cannot hand"}

Places == [pc : {"first", "pause", "e0", "make", "break"}, i : Nat]
States == [reader : Places, modifiers : SUBSET Shifts, locks : SUBSET {"caps_lock", "num_lock"}]

-----------------------------------------------------------------------------
(* The codes, and one byte of them                                         *)

LEMMA CodesFact ==
  /\ Code["a"] = <<30>> /\ Code["seven"] = <<71>>
  /\ Code["shift_l"] = <<42>> /\ Code["shift_r"] = <<54>>
  /\ Code["up"] = <<224, 72>> /\ Code["caps"] = <<58>> /\ Code["num"] = <<69>>
  /\ Code["prtscr"] = <<224, 42, 224, 55>>
  /\ Code["pause"] = <<225, 29, 69, 225, 157, 197>>
BY DEF Code

LEMMA BreakCodesFact ==
  /\ BreakCode("a") = <<158>> /\ BreakCode("seven") = <<199>>
  /\ BreakCode("shift_l") = <<170>> /\ BreakCode("shift_r") = <<182>>
  /\ BreakCode("up") = <<224, 200>> /\ BreakCode("caps") = <<186>> /\ BreakCode("num") = <<197>>
  /\ BreakCode("prtscr") = <<224, 183, 224, 170>>
  /\ BreakCode("pause") = <<>>
BY CodesFact DEF BreakCode

LEMMA KeysFact ==
  DOMAIN Code = {"a", "seven", "shift_l", "shift_r", "up", "caps", "num", "prtscr", "pause"}
BY DEF Code

(* What keymap() and the switches after it can make of a code.             *)
RawKeys == {"a", "A", "none", "PAD_HOME", "7", "HOME", "SHIFT_L", "SHIFT_R", "PAD_UP", "8", "UP",
            "CAPS_LOCK", "NUM_LOCK"}

LEMMA KeymapFact ==
  ASSUME NEW row, NEW s, NEW e0 \in {0, 1}
  PROVE  keymap(row)[Column(s, row, e0)] \in RawKeys
<1>1. Column(s, row, e0) \in {1, 2, 3}
  BY DEF Column
<1>2. \A c \in {1, 2, 3} : keymap(row)[c] \in RawKeys
  BY DEF keymap, None, RawKeys
<1> QED
  BY <1>1, <1>2

LEMMA RepliesFact ==
  ASSUME NEW key
  PROVE  /\ Replies(key) \in Seq(Nat)
         /\ Len(Replies(key)) \in {0, 4, 6}
         /\ \A i \in 1 .. Len(Replies(key)) : Replies(key)[i] = 250
         /\ (key # "CAPS_LOCK" /\ key # "NUM_LOCK") => Replies(key) = <<>>
<1>1. LedCalls(key) \in {0, 2, 3} /\ (LedCalls(key) # 0 => key \in {"CAPS_LOCK", "NUM_LOCK"})
  BY DEF LedCalls
<1>2. PICK n \in {0, 4, 6} : n = 2 * LedCalls(key)
  BY <1>1
<1>3. Replies(key) = [i \in 1 .. n |-> 250]
  BY <1>2 DEF Replies, ACK
<1> QED
  BY <1>1, <1>2, <1>3

TurnType(turn) ==
  /\ turn.state \in States
  /\ turn.done \in Seq(Effects) /\ Len(turn.done) <= 1
  /\ turn.replies \in Seq(Nat) /\ Len(turn.replies) \in {0, 4, 6}
  /\ \A i \in 1 .. Len(turn.replies) : turn.replies[i] = 250

LEMMA DecodeType ==
  ASSUME NEW s \in States, NEW code, NEW e0 \in {0, 1}
  PROVE  TurnType(Decode(s, code, e0))
<1> DEFINE key == keymap(code % 128)[Column(s, code % 128, e0)]
<1>1. key \in RawKeys
  BY KeymapFact
<1>2. Modifier(key) \in SUBSET Shifts /\ Toggled(key) \in SUBSET {"caps_lock", "num_lock"}
  BY DEF Modifier, Toggled, Shifts
<1>3. \A l : Padded(key, l) \in RawKeys
  <2> HIDE DEF key
  <2> QED
    BY <1>1 DEF Padded, RawKeys
<1>4. ASSUME NEW k \in RawKeys, NEW mods
      PROVE  Done(k, mods) \in Seq(Effects) /\ Len(Done(k, mods)) <= 1
  <2>1. PICK e \in Effects : Done(k, mods) = <<>> \/ Done(k, mods) = <<e>>
    BY DEF Done, Effects
  <2>2. PICK d : d = Done(k, mods)
    OBVIOUS
  <2>3. CASE d = <<>>
    BY <2>2, <2>3
  <2>4. CASE d = <<e>>
    BY <2>2, <2>4
  <2> QED
    BY <2>1, <2>2, <2>3, <2>4
<1> DEFINE mods == IF code < 128 THEN s.modifiers \cup Modifier(key) ELSE s.modifiers \ Modifier(key)
           lock == IF code < 128 THEN (s.locks \ Toggled(key)) \cup (Toggled(key) \ s.locks) ELSE s.locks
           turn == Decode(s, code, e0)
<1>5. turn = [state   |-> [reader |-> Idle, modifiers |-> mods, locks |-> lock],
              done    |-> IF code < 128 THEN Done(Padded(key, lock), mods) ELSE <<>>,
              replies |-> IF code < 128 THEN Replies(key) ELSE <<>>]
  BY DEF Decode
<1>6. mods \in SUBSET Shifts /\ lock \in SUBSET {"caps_lock", "num_lock"}
  BY <1>2 DEF States
<1>7. [reader |-> Idle, modifiers |-> mods, locks |-> lock] \in States
  BY <1>6 DEF States, Places, Idle
<1>8. turn.state \in States /\ turn.state.reader = Idle
  BY <1>5, <1>7
<1>9. turn.done \in Seq(Effects) /\ Len(turn.done) <= 1
  <2>1. Padded(key, lock) \in RawKeys
    BY <1>3
  <2> HIDE DEF key, mods, lock
  <2>2. /\ Done(Padded(key, lock), mods) \in Seq(Effects)
        /\ Len(Done(Padded(key, lock), mods)) <= 1
    BY <2>1, <1>4
  <2> QED
    BY <2>2, <1>5
<1>10. /\ turn.replies \in Seq(Nat) /\ Len(turn.replies) \in {0, 4, 6}
       /\ \A i \in 1 .. Len(turn.replies) : turn.replies[i] = 250
  <2> HIDE DEF key, mods, lock
  <2> QED
    BY <1>5, RepliesFact
<1> QED
  BY <1>8, <1>9, <1>10, Zenon DEF TurnType

LEMMA WaitForType ==
  ASSUME NEW s \in States, NEW pc \in {"first", "pause", "e0", "make", "break"}, NEW i \in Nat
  PROVE  /\ WaitFor(s, pc, i) = [state   |-> [s EXCEPT !.reader = [pc |-> pc, i |-> i]],
                                 done    |-> <<>>,
                                 replies |-> <<>>]
         /\ TurnType(WaitFor(s, pc, i))
<1>1. WaitFor(s, pc, i) = [state   |-> [s EXCEPT !.reader = [pc |-> pc, i |-> i]],
                           done    |-> <<>>,
                           replies |-> <<>>]
  BY DEF WaitFor
<1>2. [s EXCEPT !.reader = [pc |-> pc, i |-> i]] \in States
  BY DEF States, Places
<1> QED
  BY <1>1, <1>2 DEF TurnType

LEMMA NoteFact ==
  /\ <<>> \in Seq(Effects)
  /\ <<"cannot hand">> \in Seq(Effects) /\ Len(<<"cannot hand">>) = 1
<1>1. PICK c \in Effects : c = "cannot hand"
  BY DEF Effects
<1>2. <<c>> \in Seq(Effects) /\ Len(<<c>>) = 1 /\ <<>> \in Seq(Effects)
  OBVIOUS
<1> QED
  BY <1>1, <1>2

LEMMA CannotHandType ==
  ASSUME NEW s \in States
  PROVE  TurnType(CannotHand(s))
<1>1. PICK state, done : state = [s EXCEPT !.reader = Idle] /\ done = <<"cannot hand">>
  OBVIOUS
<1>2. state \in States
  BY <1>1 DEF States, Places, Idle
<1>3. done \in Seq(Effects) /\ Len(done) = 1
  BY <1>1, NoteFact
<1>4. CannotHand(s) = [state |-> state, done |-> done, replies |-> <<>>]
  BY <1>1 DEF CannotHand
<1>5. PICK turn : turn = CannotHand(s)
  OBVIOUS
<1>6. turn.state = state /\ turn.done = done /\ turn.replies = <<>>
  BY <1>4, <1>5
<1>8. turn.replies \in Seq(Nat) /\ Len(turn.replies) = 0
  BY <1>6
<1>9. \A i \in 1 .. Len(turn.replies) : turn.replies[i] = 250
  BY <1>8
<1>10. /\ turn.state \in States
       /\ turn.done \in Seq(Effects) /\ Len(turn.done) <= 1
       /\ turn.replies \in Seq(Nat) /\ Len(turn.replies) \in {0, 4, 6}
  <2>1. turn.state \in States
    BY <1>2, <1>6, Zenon
  <2>2. turn.done \in Seq(Effects) /\ Len(turn.done) = 1
    BY <1>3, <1>6, Zenon
  <2>3. Len(turn.replies) \in {0, 4, 6}
    BY <1>8
  <2> QED
    BY <1>8, <2>1, <2>2, <2>3
<1>7. TurnType(turn)
  BY <1>9, <1>10, Zenon DEF TurnType
<1> QED
  BY <1>5, <1>7

LEMMA TurnFact ==
  ASSUME NEW s \in States, NEW byte
  PROVE  TurnType(Turn(s, byte))
<1>1. s.reader.pc \in {"first", "pause", "e0", "make", "break"} /\ s.reader.i \in Nat
  BY DEF States, Places
<1>2. /\ TurnType(CannotHand(s)) /\ TurnType(WaitFor(s, "pause", 2)) /\ TurnType(WaitFor(s, "e0", 0))
      /\ TurnType(WaitFor(s, "make", 3)) /\ TurnType(WaitFor(s, "break", 3))
      /\ TurnType(WaitFor(s, "pause", s.reader.i + 1))
      /\ s.reader.pc \in {"make", "break"} => TurnType(WaitFor(s, s.reader.pc, 4))
  <2>1. \A pc \in {"first", "pause", "e0", "make", "break"} : \A i \in Nat : TurnType(WaitFor(s, pc, i))
    BY WaitForType
  <2>2. s.reader.i + 1 \in Nat
    BY <1>1
  <2> QED
    BY <2>1, <2>2, CannotHandType
<1>3. \A c : TurnType(Decode(s, c, 1)) /\ TurnType(Decode(s, c, 0))
  BY DecodeType
<1>4. TurnType(First(s, byte))
  BY <1>2, <1>3 DEF First
<1>5. TurnType(Pause(s, byte))
  BY <1>2, <1>3 DEF Pause
<1>6. TurnType(AfterE0(s, byte))
  BY <1>2, <1>3 DEF AfterE0
<1>7. ASSUME s.reader.pc \in {"make", "break"} PROVE TurnType(PrtScr(s, byte))
  <2> DEFINE codes == IF s.reader.pc = "make" THEN Code["prtscr"] ELSE BreakCode("prtscr")
  <2>1. PrtScr(s, byte) = CASE byte # codes[s.reader.i] -> Decode(s, codes[2], 1)
                            [] s.reader.i = 3 -> WaitFor(s, s.reader.pc, 4)
                            [] OTHER -> CannotHand(s)
    BY DEF PrtScr
  <2> HIDE DEF codes
  <2> QED
    BY <1>2, <1>3, <1>7, <2>1
<1> QED
  BY <1>1, <1>4, <1>5, <1>6, <1>7 DEF Turn

-----------------------------------------------------------------------------
(* Reading ahead                                                           *)

(* The bytes q, read one by one: r[i] is the state before the (i + 1)-th,  *)
(* x[i] what is done from there on, and y[i] a bound of the bytes that are *)
(* on their way from there on, where a byte counts as many as the          *)
(* acknowledgements it causes.                                             *)
Weight(turn) == IF Len(turn.replies) = 0 THEN 1 ELSE Len(turn.replies)

Plan(q, r, x, y) ==
  /\ q \in Seq(Nat)
  /\ r \in [0 .. Len(q) -> States]
  /\ x \in [0 .. Len(q) -> Seq(Effects)] /\ x[Len(q)] = <<>>
  /\ y \in [0 .. Len(q) -> Nat]          /\ y[Len(q)] = 0
  /\ \A i \in 0 .. Len(q) - 1 :
       /\ r[i + 1] = Turn(r[i], q[i + 1]).state
       /\ x[i] = Turn(r[i], q[i + 1]).done \o x[i + 1]
       /\ y[i] = Weight(Turn(r[i], q[i + 1])) + y[i + 1]
  /\ \A i \in 0 .. Len(q) : Len(q) - i <= y[i] /\ y[i] <= 6 * (Len(q) - i)

(* Read from state s on, q leads to state t and does e.                    *)
Leads(q, s, e, w, t) ==
  \E r, x, y : Plan(q, r, x, y) /\ r[0] = s /\ x[0] = e /\ y[0] = w /\ r[Len(q)] = t

LEMMA LeadsType ==
  ASSUME NEW q, NEW s, NEW e, NEW w, NEW t, Leads(q, s, e, w, t)
  PROVE  /\ q \in Seq(Nat) /\ s \in States /\ e \in Seq(Effects) /\ w \in Nat /\ t \in States
         /\ Len(q) <= w /\ w <= 6 * Len(q)
<1>1. PICK r, x, y : Plan(q, r, x, y) /\ r[0] = s /\ x[0] = e /\ y[0] = w /\ r[Len(q)] = t
  BY DEF Leads
<1>2. 0 \in 0 .. Len(q) /\ Len(q) \in 0 .. Len(q) /\ Len(q) \in Nat
  BY <1>1 DEF Plan
<1> QED
  BY <1>1, <1>2 DEF Plan

LEMMA LeadsNowhere ==
  ASSUME NEW q, NEW s, NEW e, NEW w, NEW t, Leads(q, s, e, w, t), q = <<>>
  PROVE  t = s /\ e = <<>> /\ w = 0
BY DEF Leads, Plan

LEMMA WeightFact ==
  ASSUME NEW s \in States, NEW byte
  PROVE  Weight(Turn(s, byte)) \in 1 .. 6
BY TurnFact DEF TurnType, Weight

LEMMA Associative ==
  ASSUME NEW a \in Seq(Effects), NEW b \in Seq(Effects), NEW c \in Seq(Effects)
  PROVE  (a \o b) \o c = a \o (b \o c) /\ a \o b \in Seq(Effects) /\ a \o <<>> = a /\ <<>> \o a = a
OBVIOUS

(* One byte.                                                               *)
LEMMA LeadsByte ==
  ASSUME NEW s \in States, NEW byte \in Nat
  PROVE  Leads(<<byte>>, s, Turn(s, byte).done, Weight(Turn(s, byte)), Turn(s, byte).state)
<1>1. PICK state, done, weight :
        state = Turn(s, byte).state /\ done = Turn(s, byte).done /\ weight = Weight(Turn(s, byte))
  OBVIOUS
<1>2. state \in States /\ done \in Seq(Effects) /\ weight \in 1 .. 6
  BY <1>1, TurnFact, WeightFact DEF TurnType
<1> DEFINE r == [i \in 0 .. 1 |-> IF i = 0 THEN s ELSE state]
           x == [i \in 0 .. 1 |-> IF i = 0 THEN done ELSE <<>>]
           y == [i \in 0 .. 1 |-> IF i = 0 THEN weight ELSE 0]
<1>3. <<byte>> \in Seq(Nat) /\ Len(<<byte>>) = 1 /\ <<byte>>[1] = byte
  OBVIOUS
<1>4. /\ r \in [0 .. 1 -> States] /\ x \in [0 .. 1 -> Seq(Effects)] /\ y \in [0 .. 1 -> Nat]
      /\ r[0] = s /\ r[1] = state /\ x[0] = done /\ x[1] = <<>> /\ y[0] = weight /\ y[1] = 0
  BY <1>2
<1>5. done = done \o <<>> /\ weight = weight + 0
  BY <1>2
<1> HIDE DEF r, x, y
<1>6. Plan(<<byte>>, r, x, y)
  <2>1. ASSUME NEW i \in 0 .. 1 - 1
        PROVE  /\ r[i + 1] = Turn(r[i], <<byte>>[i + 1]).state
               /\ x[i] = Turn(r[i], <<byte>>[i + 1]).done \o x[i + 1]
               /\ y[i] = Weight(Turn(r[i], <<byte>>[i + 1])) + y[i + 1]
    <3>1. i = 0 /\ i + 1 = 1
      OBVIOUS
    <3>2. r[1] = Turn(r[0], byte).state /\ x[0] = Turn(r[0], byte).done \o x[1]
          /\ y[0] = Weight(Turn(r[0], byte)) + y[1]
      BY <1>1, <1>4, <1>5
    <3> QED
      BY <1>3, <3>1, <3>2
  <2>2. ASSUME NEW i \in 0 .. 1 PROVE 1 - i <= y[i] /\ y[i] <= 6 * (1 - i)
    <3>1. i = 0 \/ i = 1
      OBVIOUS
    <3> QED
      BY <1>2, <1>4, <3>1
  <2> QED
    BY <1>3, <1>4, <2>1, <2>2 DEF Plan
<1> QED
  BY <1>1, <1>3, <1>4, <1>6 DEF Leads

(* The bytes p after the bytes q.                                          *)
LEMMA LeadsOn ==
  ASSUME NEW q, NEW s, NEW e, NEW w, NEW t, Leads(q, s, e, w, t),
         NEW p, NEW f, NEW v, NEW u, Leads(p, t, f, v, u)
  PROVE  Leads(q \o p, s, e \o f, w + v, u)
<1>1. PICK r1, x1, y1 : Plan(q, r1, x1, y1) /\ r1[0] = s /\ x1[0] = e /\ y1[0] = w /\ r1[Len(q)] = t
  BY DEF Leads
<1>2. PICK r2, x2, y2 : Plan(p, r2, x2, y2) /\ r2[0] = t /\ x2[0] = f /\ y2[0] = v /\ r2[Len(p)] = u
  BY DEF Leads
<1>3. f \in Seq(Effects) /\ v \in Nat /\ Len(p) <= v /\ v <= 6 * Len(p)
  BY LeadsType
<1>4. PICK m \in Nat, n \in Nat : m = Len(q) /\ n = Len(p)
  BY <1>1, <1>2 DEF Plan
<1>5. /\ q \o p \in Seq(Nat) /\ Len(q \o p) = m + n
      /\ \A i \in 0 .. m - 1 : (q \o p)[i + 1] = q[i + 1]
      /\ \A i \in m .. m + n - 1 : (q \o p)[i + 1] = p[i - m + 1]
  BY <1>1, <1>2, <1>4 DEF Plan
<1> DEFINE r == [i \in 0 .. m + n |-> IF i <= m THEN r1[i] ELSE r2[i - m]]
           x == [i \in 0 .. m + n |-> IF i <= m THEN x1[i] \o f ELSE x2[i - m]]
           y == [i \in 0 .. m + n |-> IF i <= m THEN y1[i] + v ELSE y2[i - m]]
<1>6. ASSUME NEW i \in 0 .. m
      PROVE  /\ r[i] = r1[i] /\ x[i] = x1[i] \o f /\ y[i] = y1[i] + v
             /\ r1[i] \in States /\ x1[i] \in Seq(Effects) /\ y1[i] \in Nat
             /\ m - i <= y1[i] /\ y1[i] <= 6 * (m - i)
             /\ x1[i] \o f \in Seq(Effects)
  <2>1. /\ r1[i] \in States /\ x1[i] \in Seq(Effects) /\ y1[i] \in Nat
        /\ m - i <= y1[i] /\ y1[i] <= 6 * (m - i)
    BY <1>1, <1>4 DEF Plan
  <2>2. x1[i] \o f \in Seq(Effects)
    BY <1>3, <2>1, Associative
  <2>3. r[i] = r1[i] /\ x[i] = x1[i] \o f /\ y[i] = y1[i] + v
    BY <1>4
  <2> QED
    BY <2>1, <2>2, <2>3
<1>7. ASSUME NEW i \in m .. m + n
      PROVE  /\ r[i] = r2[i - m] /\ x[i] = x2[i - m] /\ y[i] = y2[i - m]
             /\ r2[i - m] \in States /\ x2[i - m] \in Seq(Effects) /\ y2[i - m] \in Nat
             /\ n - (i - m) <= y2[i - m] /\ y2[i - m] <= 6 * (n - (i - m))
  <2>1. i - m \in 0 .. n
    BY <1>4
  <2>2. /\ r2[i - m] \in States /\ x2[i - m] \in Seq(Effects) /\ y2[i - m] \in Nat
        /\ n - (i - m) <= y2[i - m] /\ y2[i - m] <= 6 * (n - (i - m))
    BY <1>2, <1>4, <2>1 DEF Plan
  <2>3. CASE i = m
    <3>1. r1[m] = r2[0] /\ x1[m] = <<>> /\ y1[m] = 0 /\ i - m = 0
      BY <1>1, <1>2, <1>4, <2>3 DEF Plan
    <3>2. <<>> \o f = f /\ 0 + v = v
      BY <1>3
    <3>3. m \in 0 .. m /\ i - m = 0
      BY <2>3
    <3>4. r[m] = r2[0] /\ x[m] = f /\ y[m] = v
      BY <1>6, <3>1, <3>2, <3>3
    <3>5. r[i] = r2[i - m] /\ x[i] = x2[i - m] /\ y[i] = y2[i - m]
      BY <1>2, <2>3, <3>3, <3>4
    <3> QED
      BY <2>2, <3>5
  <2>4. CASE i # m
    BY <1>4, <2>2, <2>4
  <2> QED
    BY <2>3, <2>4
<1>8. /\ r \in [0 .. m + n -> States] /\ x \in [0 .. m + n -> Seq(Effects)] /\ y \in [0 .. m + n -> Nat]
  <2>1. /\ r = [i \in 0 .. m + n |-> r[i]] /\ x = [i \in 0 .. m + n |-> x[i]]
        /\ y = [i \in 0 .. m + n |-> y[i]]
    OBVIOUS
  <2> HIDE DEF r, x, y
  <2>2. ASSUME NEW i \in 0 .. m + n
        PROVE  r[i] \in States /\ x[i] \in Seq(Effects) /\ y[i] \in Nat
    <3>1. CASE i <= m
      <4>1. i \in 0 .. m
        BY <1>4, <3>1
      <4>2. r[i] \in States /\ x[i] \in Seq(Effects) /\ y[i] = y1[i] + v /\ y1[i] \in Nat
        BY <1>6, <4>1
      <4> QED
        BY <1>3, <4>2
    <3>2. CASE ~(i <= m)
      <4>1. i \in m .. m + n
        BY <1>4, <3>2
      <4> QED
        BY <1>7, <4>1
    <3> QED
      BY <3>1, <3>2
  <2>3. \A i \in 0 .. m + n : r[i] \in States /\ x[i] \in Seq(Effects) /\ y[i] \in Nat
    BY <2>2
  <2> QED
    BY <2>1, <2>3
<1> HIDE DEF r, x, y
<1>9. ASSUME NEW i \in 0 .. (m + n) - 1
      PROVE  /\ r[i + 1] = Turn(r[i], (q \o p)[i + 1]).state
             /\ x[i] = Turn(r[i], (q \o p)[i + 1]).done \o x[i + 1]
             /\ y[i] = Weight(Turn(r[i], (q \o p)[i + 1])) + y[i + 1]
  <2>1. CASE i < m
    <3>1. i \in 0 .. m /\ i + 1 \in 0 .. m /\ i \in 0 .. m - 1 /\ i \in 0 .. Len(q) - 1
      BY <1>4, <2>1
    <3> DEFINE turn == Turn(r1[i], q[i + 1])
    <3>2. r1[i + 1] = turn.state /\ x1[i] = turn.done \o x1[i + 1] /\ y1[i] = Weight(turn) + y1[i + 1]
      BY <1>1, <3>1 DEF Plan
    <3>3. turn.done \in Seq(Effects) /\ Weight(turn) \in Nat
      <4>1. r1[i] \in States
        BY <1>6, <3>1
      <4>2. TurnType(turn) /\ Weight(turn) \in 1 .. 6
        BY <4>1, TurnFact, WeightFact
      <4> HIDE DEF turn
      <4> QED
        BY <4>2 DEF TurnType
    <3>4. r[i] = r1[i] /\ (q \o p)[i + 1] = q[i + 1]
      BY <1>5, <1>6, <3>1
    <3> HIDE DEF turn
    <3>5. (turn.done \o x1[i + 1]) \o f = turn.done \o (x1[i + 1] \o f)
      <4>1. x1[i + 1] \in Seq(Effects)
        BY <1>6, <3>1
      <4>2. PICK a \in Seq(Effects), b \in Seq(Effects) : a = turn.done /\ b = x1[i + 1]
        BY <3>3, <4>1
      <4>3. (a \o b) \o f = a \o (b \o f)
        BY <1>3, Associative
      <4> QED
        BY <4>2, <4>3
    <3>6. (Weight(turn) + y1[i + 1]) + v = Weight(turn) + (y1[i + 1] + v)
      <4>1. PICK a \in Nat, b \in Nat : a = Weight(turn) /\ b = y1[i + 1]
        BY <1>6, <3>1, <3>3
      <4>2. (a + b) + v = a + (b + v)
        BY <1>3
      <4> QED
        BY <4>1, <4>2
    <3>7. r[i + 1] = turn.state /\ x[i] = turn.done \o x[i + 1] /\ y[i] = Weight(turn) + y[i + 1]
      BY <1>6, <3>1, <3>2, <3>5, <3>6
    <3> QED
      BY <3>4, <3>7 DEF turn
  <2>2. CASE ~(i < m)
    <3>1. i \in m .. m + n /\ i + 1 \in m .. m + n /\ i \in m .. m + n - 1
          /\ i - m \in 0 .. Len(p) - 1 /\ (i + 1) - m = (i - m) + 1
      BY <1>4, <2>2
    <3>2. PICK k \in 0 .. Len(p) - 1 : k = i - m
      BY <3>1
    <3>3. /\ r2[k + 1] = Turn(r2[k], p[k + 1]).state
          /\ x2[k] = Turn(r2[k], p[k + 1]).done \o x2[k + 1]
          /\ y2[k] = Weight(Turn(r2[k], p[k + 1])) + y2[k + 1]
      BY <1>2, <3>2 DEF Plan
    <3>4. /\ (q \o p)[i + 1] = p[k + 1] /\ r[i] = r2[k] /\ x[i] = x2[k] /\ y[i] = y2[k]
          /\ r[i + 1] = r2[k + 1] /\ x[i + 1] = x2[k + 1] /\ y[i + 1] = y2[k + 1]
      BY <1>5, <1>7, <3>1, <3>2
    <3> QED
      BY <3>3, <3>4
  <2> QED
    BY <2>1, <2>2
<1>10. ASSUME NEW i \in 0 .. m + n
       PROVE  (m + n) - i <= y[i] /\ y[i] <= 6 * ((m + n) - i)
  <2>1. CASE i <= m
    <3>0. i \in 0 .. m
      BY <1>4, <2>1
    <3>1. PICK k \in Nat : k = y1[i]
      BY <1>6, <3>0
    <3>2. y[i] = k + v /\ m - i <= k /\ k <= 6 * (m - i)
      BY <1>6, <3>0, <3>1
    <3> QED
      BY <1>3, <1>4, <2>1, <3>2
  <2>2. CASE ~(i <= m)
    <3>1. i \in m .. m + n
      BY <1>4, <2>2
    <3>2. y[i] = y2[i - m] /\ n - (i - m) <= y2[i - m] /\ y2[i - m] <= 6 * (n - (i - m))
      BY <1>7, <3>1
    <3>3. n - (i - m) = (m + n) - i
      BY <1>4, <3>1
    <3> QED
      BY <3>2, <3>3
  <2> QED
    BY <2>1, <2>2
<1>11. x[m + n] = <<>> /\ y[m + n] = 0 /\ r[m + n] = u
  <2>1. m + n \in m .. m + n /\ (m + n) - m = n
    BY <1>4
  <2> QED
    BY <1>2, <1>4, <1>7, <2>1 DEF Plan
<1>12. r[0] = s /\ x[0] = e \o f /\ y[0] = w + v
  <2>1. 0 \in 0 .. m
    BY <1>4
  <2> QED
    BY <1>1, <1>6, <2>1
<1>13. Plan(q \o p, r, x, y)
  <2>1. PICK z : z = q \o p
    OBVIOUS
  <2>2. /\ z \in Seq(Nat) /\ Len(z) = m + n
        /\ \A i \in 0 .. (m + n) - 1 :
             /\ r[i + 1] = Turn(r[i], z[i + 1]).state
             /\ x[i] = Turn(r[i], z[i + 1]).done \o x[i + 1]
             /\ y[i] = Weight(Turn(r[i], z[i + 1])) + y[i + 1]
    BY <1>5, <1>9, <2>1
  <2>3. PICK l : l = Len(z)
    OBVIOUS
  <2>4. /\ z \in Seq(Nat)
        /\ r \in [0 .. l -> States]
        /\ x \in [0 .. l -> Seq(Effects)] /\ x[l] = <<>>
        /\ y \in [0 .. l -> Nat]          /\ y[l] = 0
        /\ \A i \in 0 .. l - 1 :
             /\ r[i + 1] = Turn(r[i], z[i + 1]).state
             /\ x[i] = Turn(r[i], z[i + 1]).done \o x[i + 1]
             /\ y[i] = Weight(Turn(r[i], z[i + 1])) + y[i + 1]
        /\ \A i \in 0 .. l : l - i <= y[i] /\ y[i] <= 6 * (l - i)
    BY <1>8, <1>10, <1>11, <2>2, <2>3, Zenon
  <2>5. Plan(z, r, x, y)
    BY <2>3, <2>4, Zenon DEF Plan
  <2> QED
    BY <2>1, <2>5
<1> QED
  BY <1>5, <1>11, <1>12, <1>13 DEF Leads

(* The first of the bytes.                                                 *)
LEMMA LeadsFrom ==
  ASSUME NEW q, NEW s, NEW e, NEW w, NEW t, Leads(q, s, e, w, t), q # <<>>
  PROVE  \E f \in Seq(Effects), v \in Nat :
           /\ Leads(Tail(q), Turn(s, Head(q)).state, f, v, t)
           /\ e = Turn(s, Head(q)).done \o f
           /\ w = Weight(Turn(s, Head(q))) + v
<1>1. PICK r, x, y : Plan(q, r, x, y) /\ r[0] = s /\ x[0] = e /\ y[0] = w /\ r[Len(q)] = t
  BY DEF Leads
<1>2. PICK n \in Nat : Len(q) = n + 1
  <2>1. q \in Seq(Nat) /\ Len(q) \in Nat /\ Len(q) # 0
    BY <1>1 DEF Plan
  <2>2. Len(q) = (Len(q) - 1) + 1 /\ Len(q) - 1 \in Nat
    BY <2>1
  <2> QED
    BY <2>2
<1>3. /\ Tail(q) \in Seq(Nat) /\ Len(Tail(q)) = n /\ Head(q) = q[1]
      /\ \A i \in 0 .. n - 1 : Tail(q)[i + 1] = q[(i + 1) + 1]
  BY <1>1, <1>2 DEF Plan
<1> DEFINE r1 == [i \in 0 .. n |-> r[i + 1]]
           x1 == [i \in 0 .. n |-> x[i + 1]]
           y1 == [i \in 0 .. n |-> y[i + 1]]
<1>4. ASSUME NEW i \in 0 .. n
      PROVE  /\ i + 1 \in 0 .. Len(q)
             /\ r1[i] = r[i + 1] /\ x1[i] = x[i + 1] /\ y1[i] = y[i + 1]
             /\ r[i + 1] \in States /\ x[i + 1] \in Seq(Effects) /\ y[i + 1] \in Nat
             /\ n - i <= y[i + 1] /\ y[i + 1] <= 6 * (n - i)
  <2>1. i + 1 \in 0 .. Len(q) /\ Len(q) - (i + 1) = n - i
    BY <1>2
  <2> QED
    BY <1>1, <2>1 DEF Plan
<1>5. r1 \in [0 .. n -> States] /\ x1 \in [0 .. n -> Seq(Effects)] /\ y1 \in [0 .. n -> Nat]
  BY <1>4
<1>6. x1[n] = <<>> /\ y1[n] = 0 /\ r1[n] = t /\ r1[0] = r[1] /\ x1[0] = x[1] /\ y1[0] = y[1]
  <2>1. n \in 0 .. n /\ 0 \in 0 .. n /\ 0 + 1 = 1
    OBVIOUS
  <2> QED
    BY <1>1, <1>2, <1>4, <2>1 DEF Plan
<1> HIDE DEF r1, x1, y1
<1>7. ASSUME NEW i \in 0 .. n - 1
      PROVE  /\ r1[i + 1] = Turn(r1[i], Tail(q)[i + 1]).state
             /\ x1[i] = Turn(r1[i], Tail(q)[i + 1]).done \o x1[i + 1]
             /\ y1[i] = Weight(Turn(r1[i], Tail(q)[i + 1])) + y1[i + 1]
  <2>1. i \in 0 .. n /\ i + 1 \in 0 .. n /\ i + 1 \in 0 .. Len(q) - 1
    BY <1>2
  <2>2. PICK k \in 0 .. Len(q) - 1 : k = i + 1
    BY <2>1
  <2>3. /\ r[k + 1] = Turn(r[k], q[k + 1]).state
        /\ x[k] = Turn(r[k], q[k + 1]).done \o x[k + 1]
        /\ y[k] = Weight(Turn(r[k], q[k + 1])) + y[k + 1]
    BY <1>1, <2>2 DEF Plan
  <2>4. /\ r1[i] = r[k] /\ x1[i] = x[k] /\ y1[i] = y[k] /\ Tail(q)[i + 1] = q[k + 1]
        /\ r1[k] = r[k + 1] /\ x1[k] = x[k + 1] /\ y1[k] = y[k + 1]
    BY <1>3, <1>4, <2>1, <2>2
  <2> QED
    BY <2>2, <2>3, <2>4
<1>8. \A i \in 0 .. n : n - i <= y1[i] /\ y1[i] <= 6 * (n - i)
  BY <1>4
<1>9. Plan(Tail(q), r1, x1, y1)
  BY <1>3, <1>5, <1>6, <1>7, <1>8 DEF Plan
<1>10. /\ r[1] = Turn(s, Head(q)).state /\ e = Turn(s, Head(q)).done \o x[1]
       /\ w = Weight(Turn(s, Head(q))) + y[1]
  <2>1. PICK k \in 0 .. Len(q) - 1 : k = 0
    BY <1>2
  <2>2. /\ r[k + 1] = Turn(r[k], q[k + 1]).state
        /\ x[k] = Turn(r[k], q[k + 1]).done \o x[k + 1]
        /\ y[k] = Weight(Turn(r[k], q[k + 1])) + y[k + 1]
    BY <1>1, <2>1 DEF Plan
  <2>3. k + 1 = 1 /\ q[1] = Head(q)
    BY <1>3, <2>1
  <2> QED
    BY <1>1, <2>1, <2>2, <2>3
<1>11. x[1] \in Seq(Effects) /\ y[1] \in Nat
  <2>1. 0 \in 0 .. n /\ 0 + 1 = 1
    OBVIOUS
  <2> QED
    BY <1>4, <2>1
<1>12. Leads(Tail(q), Turn(s, Head(q)).state, x[1], y[1], t)
  BY <1>3, <1>6, <1>9, <1>10 DEF Leads
<1> QED
  BY <1>10, <1>11, <1>12

(* Acknowledgements are read without any effect.                           *)
LEMMA AckFact ==
  ASSUME NEW s \in States, s.reader = Idle
  PROVE  Turn(s, 250) = [state |-> s, done |-> <<>>, replies |-> <<>>]
<1>1. Turn(s, 250) = Decode(s, 250, 0)
  BY DEF Turn, First, Idle
<1>2. PICK code, e0 : code = 250 /\ e0 = 0
  OBVIOUS
<1>3. ~(code < 128) /\ code % 128 = 122
  BY <1>2
<1>4. keymap(122)[Column(s, 122, e0)] = "none" /\ Modifier("none") = {}
  <2>1. keymap(122) = <<"none", "none", "none">> /\ Column(s, 122, e0) \in {1, 2, 3}
    BY DEF keymap, None, Column
  <2> QED
    BY <2>1 DEF Modifier
<1>5. Decode(s, code, e0) = [state   |-> [reader |-> Idle, modifiers |-> s.modifiers \ {}, locks |-> s.locks],
                             done    |-> <<>>,
                             replies |-> <<>>]
  BY <1>3, <1>4, Zenon DEF Decode
<1>6. [reader |-> Idle, modifiers |-> s.modifiers \ {}, locks |-> s.locks] = s
  BY DEF States
<1> QED
  BY <1>1, <1>2, <1>5, <1>6

(* Bytes that cause no acknowledgement and of which only the last does     *)
(* anything; bytes that change nothing but the state of the reader.        *)
Says(q, s, d, t) == Leads(q, s, d, Len(q), t)
Passes(q, s, t)  == Says(q, s, <<>>, t)

(* r[i] is the state before the (i + 1)-th of them.                        *)
LEMMA SaysLast ==
  ASSUME NEW q \in Seq(Nat), NEW r \in [0 .. Len(q) -> States], NEW d \in Seq(Effects),
         Len(q) = 0 => d = <<>>,
         \A i \in 0 .. Len(q) - 1 :
           Turn(r[i], q[i + 1])
             = [state |-> r[i + 1], done |-> IF i = Len(q) - 1 THEN d ELSE <<>>, replies |-> <<>>]
  PROVE  Says(q, r[0], d, r[Len(q)])
<1>1. PICK n \in Nat : n = Len(q)
  OBVIOUS
<1> DEFINE x == [i \in 0 .. n |-> IF i = n THEN <<>> ELSE d]
           y == [i \in 0 .. n |-> n - i]
<1>2. /\ x \in [0 .. n -> Seq(Effects)] /\ y \in [0 .. n -> Nat]
      /\ x[0] = d /\ y[0] = n /\ x[n] = <<>> /\ y[n] = 0
  BY <1>1
<1>3. ASSUME NEW i \in 0 .. n - 1
      PROVE  /\ r[i + 1] = Turn(r[i], q[i + 1]).state
             /\ x[i] = Turn(r[i], q[i + 1]).done \o x[i + 1]
             /\ y[i] = Weight(Turn(r[i], q[i + 1])) + y[i + 1]
  <2>1. i \in 0 .. n /\ i + 1 \in 0 .. n
    BY <1>1
  <2>2. x[i] = d /\ (x[i + 1] = IF i = n - 1 THEN <<>> ELSE d)
        /\ y[i] = n - i /\ y[i + 1] = n - (i + 1)
    BY <2>1
  <2>3. PICK turn : turn = Turn(r[i], q[i + 1])
    OBVIOUS
  <2>4. turn = [state |-> r[i + 1], done |-> IF i = n - 1 THEN d ELSE <<>>, replies |-> <<>>]
    BY <1>1, <2>3
  <2>5. d = d \o <<>> /\ d = <<>> \o d /\ n - i = 1 + (n - (i + 1))
    BY <2>1, Associative
  <2> HIDE DEF x, y
  <2> QED
    BY <2>2, <2>3, <2>4, <2>5 DEF Weight
<1>4. \A i \in 0 .. n : n - i <= y[i] /\ y[i] <= 6 * (n - i)
  BY <1>1
<1> HIDE DEF x, y
<1>5. Plan(q, r, x, y)
  BY <1>1, <1>2, <1>3, <1>4 DEF Plan
<1> QED
  BY <1>1, <1>2, <1>5 DEF Leads, Says

LEMMA PassesAcks ==
  ASSUME NEW s \in States, s.reader = Idle,
         NEW q \in Seq(Nat), \A i \in 1 .. Len(q) : q[i] = 250
  PROVE  Passes(q, s, s)
<1>1. PICK r : r = [i \in 0 .. Len(q) |-> s]
  OBVIOUS
<1>2. r \in [0 .. Len(q) -> States] /\ r[0] = s /\ r[Len(q)] = s
  BY <1>1
<1>3. PICK d \in Seq(Effects) : d = <<>>
  BY NoteFact
<1>4. ASSUME NEW i \in 0 .. Len(q) - 1
      PROVE  Turn(r[i], q[i + 1])
               = [state |-> r[i + 1], done |-> IF i = Len(q) - 1 THEN d ELSE <<>>, replies |-> <<>>]
  <2>1. r[i] = s /\ r[i + 1] = s /\ q[i + 1] = 250
    BY <1>1
  <2> QED
    BY <1>3, <2>1, AckFact
<1>5. Says(q, r[0], d, r[Len(q)])
  BY <1>2, <1>3, <1>4, SaysLast
<1> QED
  BY <1>2, <1>3, <1>5 DEF Passes

-----------------------------------------------------------------------------
(* The codes of the keys                                                   *)

(* State s, but in the middle of a code.                                   *)
At(s, pc, i) == [s EXCEPT !.reader = [pc |-> pc, i |-> i]]

LEMMA AtFact ==
  ASSUME NEW s \in States, NEW pc \in {"first", "pause", "e0", "make", "break"}, NEW i \in Nat
  PROVE  /\ At(s, pc, i) \in States
         /\ At(s, pc, i).reader = [pc |-> pc, i |-> i]
         /\ At(s, pc, i).modifiers = s.modifiers /\ At(s, pc, i).locks = s.locks
BY DEF At, States, Places

LEMMA WaitAt ==
  ASSUME NEW s \in States, NEW pc \in {"first", "pause", "e0", "make", "break"}, NEW i \in Nat,
         NEW c \in {"first", "pause", "e0", "make", "break"}, NEW j \in Nat
  PROVE  WaitFor(At(s, pc, i), c, j) = [state |-> At(s, c, j), done |-> <<>>, replies |-> <<>>]
<1>1. At(At(s, pc, i), c, j) = At(s, c, j)
  BY DEF At, States, Places
<1> QED
  BY <1>1 DEF At, WaitFor

LEMMA AtFirst ==
  ASSUME NEW s \in States, s.reader = Idle
  PROVE  At(s, "first", 0) = s
BY DEF At, States, Idle

LEMMA CannotHandAt ==
  ASSUME NEW s \in States, s.reader = Idle,
         NEW pc \in {"first", "pause", "e0", "make", "break"}, NEW i \in Nat
  PROVE  CannotHand(At(s, pc, i)) = [state |-> s, done |-> <<"cannot hand">>, replies |-> <<>>]
<1>1. [At(s, pc, i) EXCEPT !.reader = Idle] = s
  BY DEF At, States, Places
<1> QED
  BY <1>1 DEF CannotHand

LEMMA SaysPause ==
  ASSUME NEW s \in States, s.reader = Idle
  PROVE  Says(<<225, 29, 69, 225, 157, 197>>, s, <<"cannot hand">>, s)
<1>0. ASSUME NEW l \in Nat, NEW k \in Nat
      PROVE  /\ WaitFor(At(s, "pause", l), "pause", k)
                  = [state |-> At(s, "pause", k), done |-> <<>>, replies |-> <<>>]
             /\ CannotHand(At(s, "pause", l))
                  = [state |-> s, done |-> <<"cannot hand">>, replies |-> <<>>]
  <2>1. WaitFor(At(s, "pause", l), "pause", k)
          = [state |-> At(s, "pause", k), done |-> <<>>, replies |-> <<>>]
    BY WaitAt
  <2>2. CannotHand(At(s, "pause", l)) = [state |-> s, done |-> <<"cannot hand">>, replies |-> <<>>]
    BY CannotHandAt
  <2> QED
    BY <2>1, <2>2
<1>9. PICK d : d \in Seq(Effects) /\ d = <<"cannot hand">>
  BY NoteFact
<1>1. PICK r : r = [i \in 0 .. 6 |-> IF i = 0 \/ i = 6 THEN s ELSE At(s, "pause", i + 1)]
  OBVIOUS
<1>2. PICK q : q = <<225, 29, 69, 225, 157, 197>>
  OBVIOUS
<1>3. /\ q \in Seq(Nat) /\ Len(q) = 6 /\ q = Code["pause"]
      /\ q[1] = 225 /\ q[2] = 29 /\ q[3] = 69 /\ q[4] = 225 /\ q[5] = 157 /\ q[6] = 197
  BY <1>2, CodesFact
<1>4. r[0] = s /\ r[6] = s /\ \A i \in 1 .. 5 : r[i] = At(s, "pause", i + 1)
  BY <1>1
<1>5. \A i \in 1 .. 5 : r[i] \in States /\ r[i].reader = [pc |-> "pause", i |-> i + 1]
  BY <1>4, AtFact
<1>6. r \in [0 .. Len(q) -> States]
  <2>1. \A i \in 0 .. 6 : r[i] \in States
    <3>1. \A i \in 0 .. 6 : i = 0 \/ i = 6 \/ i \in 1 .. 5
      OBVIOUS
    <3> QED
      BY <3>1, <1>4, <1>5
  <2>2. r = [i \in 0 .. 6 |-> r[i]]
    BY <1>1
  <2> QED
    BY <1>3, <2>1, <2>2
<1>7. ASSUME NEW i \in 0 .. Len(q) - 1
      PROVE  Turn(r[i], q[i + 1])
               = [state |-> r[i + 1], done |-> IF i = Len(q) - 1 THEN d ELSE <<>>, replies |-> <<>>]
  <2>1. CASE i = 0
    <3>1. Turn(s, 225) = WaitFor(s, "pause", 2)
      BY DEF Turn, First, Idle
    <3>2. WaitFor(s, "pause", 2) = [state |-> At(s, "pause", 2), done |-> <<>>, replies |-> <<>>]
      BY WaitForType DEF At
    <3>3. r[1] = At(s, "pause", 2)
      BY <1>4
    <3> QED
      BY <1>3, <1>4, <2>1, <3>1, <3>2, <3>3
  <2>2. CASE i # 0
    <3>1. i \in 1 .. 5
      BY <1>3, <2>2
    <3>2. PICK t \in States : t = r[i]
      BY <1>5, <3>1
    <3>3. t.reader.pc = "pause" /\ t.reader.i = i + 1
      BY <1>5, <3>1, <3>2
    <3>4. Turn(t, q[i + 1]) = Pause(t, q[i + 1])
      BY <3>3 DEF Turn
    <3>5. PICK l \in Nat : t = At(s, "pause", l)
      <4>1. t = At(s, "pause", i + 1) /\ i + 1 \in Nat
        BY <1>4, <3>1, <3>2
      <4> QED
        BY <4>1
    <3>6. CASE i < 5
      <4>1. PICK k \in Nat : k = (i + 1) + 1
        BY <3>1
      <4>2. Pause(t, q[i + 1]) = WaitFor(t, "pause", k)
        <5>1. ~(q[i + 1] # Code["pause"][t.reader.i]) /\ t.reader.i < 6 /\ t.reader.i + 1 = k
          BY <1>3, <3>1, <3>3, <3>6, <4>1
        <5> QED
          BY <5>1 DEF Pause
      <4>3. WaitFor(t, "pause", k) = [state |-> At(s, "pause", k), done |-> <<>>, replies |-> <<>>]
        <5>1. WaitFor(At(s, "pause", l), "pause", k) = [state |-> At(s, "pause", k), done |-> <<>>, replies |-> <<>>]
          BY <1>0
        <5> QED
          BY <3>5, <5>1
      <4>4. r[i + 1] = At(s, "pause", k)
        BY <1>4, <3>1, <3>6, <4>1
      <4>5. ~(i = Len(q) - 1)
        BY <1>3, <3>6
      <4> QED
        BY <3>2, <3>4, <4>2, <4>3, <4>4, <4>5
    <3>7. CASE ~(i < 5)
      <4>1. Pause(t, q[i + 1]) = CannotHand(t)
        <5>1. ~(q[i + 1] # Code["pause"][t.reader.i]) /\ ~(t.reader.i < 6)
          BY <1>3, <3>1, <3>3, <3>7
        <5> QED
          BY <5>1 DEF Pause
      <4>2. CannotHand(t) = [state |-> s, done |-> d, replies |-> <<>>]
        <5>1. CannotHand(At(s, "pause", l)) = [state |-> s, done |-> <<"cannot hand">>, replies |-> <<>>]
          BY <1>0
        <5> QED
          BY <1>9, <3>5, <5>1
      <4>3. r[i + 1] = s
        BY <1>4, <3>1, <3>7
      <4>4. i = Len(q) - 1
        BY <1>3, <3>1, <3>7
      <4> QED
        BY <3>2, <3>4, <4>1, <4>2, <4>3, <4>4
    <3> QED
      BY <3>6, <3>7
  <2> QED
    BY <2>1, <2>2
<1>8. Says(q, r[0], d, r[Len(q)])
  <2>1. Len(q) = 0 => d = <<>>
    BY <1>3
  <2> QED
    <3>1. \A i \in 0 .. Len(q) - 1 :
            Turn(r[i], q[i + 1])
              = [state |-> r[i + 1], done |-> IF i = Len(q) - 1 THEN d ELSE <<>>, replies |-> <<>>]
      BY <1>7, Zenon
    <3>2. q \in Seq(Nat) /\ d \in Seq(Effects)
      BY <1>3, <1>9
    <3> QED
      BY <1>6, <2>1, <3>1, <3>2, SaysLast, Zenon
<1> QED
  BY <1>2, <1>3, <1>4, <1>8, <1>9

(* Print Screen, pressed (pc = "make") and released ("break").             *)
LEMMA SaysPrtScr ==
  ASSUME NEW s \in States, s.reader = Idle, NEW pc \in {"make", "break"},
         NEW q, q = IF pc = "make" THEN Code["prtscr"] ELSE BreakCode("prtscr")
  PROVE  Says(q, s, <<"cannot hand">>, s)
<1>0. PICK d : d \in Seq(Effects) /\ d = <<"cannot hand">>
  BY NoteFact
<1>1. PICK b \in Nat, c \in Nat :
        b = (IF pc = "make" THEN 42 ELSE 183) /\ c = (IF pc = "make" THEN 55 ELSE 170)
  OBVIOUS
<1>2. q = <<224, b, 224, c>>
  BY <1>1, CodesFact, BreakCodesFact
<1>3. q \in Seq(Nat) /\ Len(q) = 4 /\ q[1] = 224 /\ q[2] = b /\ q[3] = 224 /\ q[4] = c
  <2>1. 224 \in Nat /\ b \in Nat /\ c \in Nat
    BY <1>1
  <2>2. <<224, b, 224, c>> \in Seq(Nat)
    BY ONLY <2>1
  <2>3. Len(<<224, b, 224, c>>) = 4 /\ <<224, b, 224, c>>[1] = 224 /\ <<224, b, 224, c>>[2] = b
        /\ <<224, b, 224, c>>[3] = 224 /\ <<224, b, 224, c>>[4] = c
    OBVIOUS
  <2> QED
    BY <1>2, <2>2, <2>3
<1>4. PICK r : r = [i \in 0 .. 4 |-> CASE i = 1 -> At(s, "e0", 0) [] i = 2 -> At(s, pc, 3)
                                       [] i = 3 -> At(s, pc, 4) [] OTHER -> s]
  OBVIOUS
<1>5. r[0] = s /\ r[1] = At(s, "e0", 0) /\ r[2] = At(s, pc, 3) /\ r[3] = At(s, pc, 4) /\ r[4] = s
  BY <1>4
<1>6. /\ At(s, "e0", 0) \in States /\ At(s, "e0", 0).reader = [pc |-> "e0", i |-> 0]
      /\ At(s, pc, 3) \in States /\ At(s, pc, 3).reader = [pc |-> pc, i |-> 3]
      /\ At(s, pc, 4) \in States /\ At(s, pc, 4).reader = [pc |-> pc, i |-> 4]
  <2>1. At(s, "e0", 0) \in States /\ At(s, "e0", 0).reader = [pc |-> "e0", i |-> 0]
    BY AtFact
  <2>2. At(s, pc, 3) \in States /\ At(s, pc, 3).reader = [pc |-> pc, i |-> 3]
    BY AtFact
  <2>3. At(s, pc, 4) \in States /\ At(s, pc, 4).reader = [pc |-> pc, i |-> 4]
    BY AtFact
  <2> QED
    BY <2>1, <2>2, <2>3
<1>7. r \in [0 .. Len(q) -> States]
  <2>1. \A i \in 0 .. 4 : i = 0 \/ i = 1 \/ i = 2 \/ i = 3 \/ i = 4
    OBVIOUS
  <2>2. \A i \in 0 .. 4 : r[i] \in States
    BY <1>5, <1>6, <2>1
  <2>3. r = [i \in 0 .. 4 |-> r[i]]
    BY <1>4
  <2> QED
    BY <1>3, <2>2, <2>3
<1>8. Turn(r[0], q[1]) = [state |-> r[1], done |-> <<>>, replies |-> <<>>]
  <2>1. Turn(s, 224) = WaitFor(s, "e0", 0)
    BY DEF Turn, First, Idle
  <2>2. WaitFor(s, "e0", 0) = [state |-> At(s, "e0", 0), done |-> <<>>, replies |-> <<>>]
    BY WaitForType DEF At
  <2> QED
    BY <1>3, <1>5, <2>1, <2>2
<1>9. Turn(r[1], q[2]) = [state |-> r[2], done |-> <<>>, replies |-> <<>>]
  <2>1. PICK t \in States : t = At(s, "e0", 0) /\ t.reader = [pc |-> "e0", i |-> 0]
    BY <1>6
  <2>2. Turn(t, b) = AfterE0(t, b)
    BY <2>1 DEF Turn
  <2>3. AfterE0(t, b) = WaitFor(t, pc, 3)
    <3>1. CASE pc = "make"
      BY <1>1, <3>1 DEF AfterE0
    <3>2. CASE pc = "break"
      BY <1>1, <3>2 DEF AfterE0
    <3> QED
      BY <3>1, <3>2
  <2>4. WaitFor(t, pc, 3) = [state |-> At(s, pc, 3), done |-> <<>>, replies |-> <<>>]
    BY <2>1, WaitAt
  <2> QED
    BY <1>3, <1>5, <2>1, <2>2, <2>3, <2>4
<1>10. ASSUME NEW i \in {3, 4}, NEW t \in States, t = At(s, pc, i), t.reader = [pc |-> pc, i |-> i]
       PROVE  Turn(t, q[i]) = IF i = 3 THEN WaitFor(t, pc, 4) ELSE CannotHand(t)
  <2>1. Turn(t, q[i]) = PrtScr(t, q[i])
    BY <1>10 DEF Turn
  <2>2. t.reader.pc = pc /\ t.reader.i = i
    BY <1>10
  <2>3. PrtScr(t, q[i]) = CASE q[i] # q[t.reader.i] -> Decode(t, q[2], 1)
                            [] t.reader.i = 3 -> WaitFor(t, t.reader.pc, 4)
                            [] OTHER -> CannotHand(t)
    BY <2>2 DEF PrtScr
  <2> QED
    BY <2>1, <2>2, <2>3
<1>11. Turn(r[2], q[3]) = [state |-> r[3], done |-> <<>>, replies |-> <<>>]
  <2>1. PICK t \in States : t = At(s, pc, 3) /\ t.reader = [pc |-> pc, i |-> 3]
    BY <1>6
  <2>2. Turn(t, q[3]) = WaitFor(t, pc, 4)
    BY <1>10, <2>1
  <2>3. WaitFor(t, pc, 4) = [state |-> At(s, pc, 4), done |-> <<>>, replies |-> <<>>]
    BY <2>1, WaitAt
  <2> QED
    BY <1>5, <2>1, <2>2, <2>3
<1>12. Turn(r[3], q[4]) = [state |-> r[4], done |-> d, replies |-> <<>>]
  <2>1. PICK t \in States : t = At(s, pc, 4) /\ t.reader = [pc |-> pc, i |-> 4]
    BY <1>6
  <2>2. Turn(t, q[4]) = CannotHand(t)
    BY <1>10, <2>1
  <2>3. CannotHand(t) = [state |-> s, done |-> d, replies |-> <<>>]
    <3>1. PICK stage \in {"first", "pause", "e0", "make", "break"} : stage = pc
      OBVIOUS
    <3>2. CannotHand(At(s, stage, 4)) = [state |-> s, done |-> <<"cannot hand">>, replies |-> <<>>]
      BY CannotHandAt
    <3> QED
      BY <1>0, <2>1, <3>1, <3>2
  <2> QED
    BY <1>5, <2>1, <2>2, <2>3
<1>13. ASSUME NEW i \in 0 .. Len(q) - 1
       PROVE  Turn(r[i], q[i + 1])
                = [state |-> r[i + 1], done |-> IF i = Len(q) - 1 THEN d ELSE <<>>, replies |-> <<>>]
  <2>1. i = 0 \/ i = 1 \/ i = 2 \/ i = 3
    <3>1. i \in 0 .. 4 - 1
      BY <1>3
    <3> QED
      BY ONLY <3>1
  <2>2. 0 + 1 = 1 /\ 1 + 1 = 2 /\ 2 + 1 = 3 /\ 3 + 1 = 4
    OBVIOUS
  <2>3. i = Len(q) - 1 <=> i = 3
    <3>1. Len(q) - 1 = 3
      BY <1>3
    <3> QED
      BY <3>1
  <2> QED
    BY <2>1, <2>2, <2>3, <1>8, <1>9, <1>11, <1>12
<1>14. Says(q, r[0], d, r[Len(q)])
  <2>1. Len(q) = 0 => d = <<>>
    BY <1>3
  <2> QED
    <3>1. \A i \in 0 .. Len(q) - 1 :
            Turn(r[i], q[i + 1])
              = [state |-> r[i + 1], done |-> IF i = Len(q) - 1 THEN d ELSE <<>>, replies |-> <<>>]
      BY <1>13, Zenon
    <3>2. q \in Seq(Nat) /\ d \in Seq(Effects)
      BY <1>0, <1>3
    <3> QED
      BY <1>7, <2>1, <3>1, <3>2, SaysLast, Zenon
<1> QED
  BY <1>0, <1>3, <1>5, <1>14

(* What the press of k does, and the locks after it, by the state in which *)
(* its code is read.                                                       *)
Does(k, mods, lock) ==
  CASE k = "a"     -> <<IF mods # {} \/ "caps_lock" \in lock THEN "A" ELSE "a">>
    [] k = "seven" -> IF mods # {} \/ "num_lock" \in lock THEN <<"7">> ELSE <<>>
    [] k = "up"    -> IF mods # {} THEN <<"scroll up">> ELSE <<>>
    [] k \in {"prtscr", "pause"} -> <<"cannot hand">>
    [] OTHER       -> <<>>

Locked(k, lock) ==
  CASE k = "caps" -> (lock \ {"caps_lock", "num_lock"}) \cup ({"caps_lock", "num_lock"} \ lock)
    [] k = "num"  -> (lock \ {"num_lock"}) \cup ({"num_lock"} \ lock)
    [] OTHER      -> lock

Reading(mods, lock) == [reader |-> Idle, modifiers |-> mods, locks |-> lock]

LEMMA ReadingFact ==
  ASSUME NEW s \in States, s.reader = Idle
  PROVE  s = Reading(s.modifiers, s.locks)
         /\ s.modifiers \in SUBSET Shifts /\ s.locks \in SUBSET {"caps_lock", "num_lock"}
BY DEF States, Reading

(* A row of keymap(), and the column it is read in.                        *)
LEMMA RowsFact ==
  /\ keymap(30) = <<"a", "A", "none">>
  /\ keymap(71) = <<"PAD_HOME", "7", "HOME">>
  /\ keymap(42) = <<"SHIFT_L", "SHIFT_L", "none">>
  /\ keymap(54) = <<"SHIFT_R", "SHIFT_R", "none">>
  /\ keymap(72) = <<"PAD_UP", "8", "UP">>
  /\ keymap(58) = <<"CAPS_LOCK", "CAPS_LOCK", "none">>
  /\ keymap(69) = <<"NUM_LOCK", "NUM_LOCK", "none">>
BY DEF keymap, None

KeyOf(s, row, e0) == keymap(row)[Column(s, row, e0)]
ModsOf(s, key)    == s.modifiers \cup Modifier(key)
LocksOf(s, key)   == (s.locks \ Toggled(key)) \cup (Toggled(key) \ s.locks)

(* A code below 128, and one above.                                        *)
LEMMA MakeFact ==
  ASSUME NEW s \in States, NEW row, row \in 0 .. 127, NEW e0, e0 \in {0, 1}, NEW key, key = KeyOf(s, row, e0)
  PROVE  /\ Decode(s, row, e0).state = Reading(ModsOf(s, key), LocksOf(s, key))
         /\ Decode(s, row, e0).done = Done(Padded(key, LocksOf(s, key)), ModsOf(s, key))
         /\ Decode(s, row, e0).replies = Replies(key)
<1>1. row % 128 = row /\ row < 128
  OBVIOUS
<1>2. PICK make, raw : make = (row < 128) /\ raw = keymap(row % 128)[Column(s, row % 128, e0)]
  OBVIOUS
<1>3. make /\ raw = key
  BY <1>1, <1>2 DEF KeyOf
<1>4. Decode(s, row, e0) =
        LET mo == IF make THEN s.modifiers \cup Modifier(raw) ELSE s.modifiers \ Modifier(raw)
            lo == IF make THEN (s.locks \ Toggled(raw)) \cup (Toggled(raw) \ s.locks) ELSE s.locks
        IN  [state   |-> [reader |-> Idle, modifiers |-> mo, locks |-> lo],
             done    |-> IF make THEN Done(Padded(raw, lo), mo) ELSE <<>>,
             replies |-> IF make THEN Replies(raw) ELSE <<>>]
  BY <1>2, Zenon DEF Decode
<1>5. Decode(s, row, e0) =
        [state   |-> Reading(ModsOf(s, key), LocksOf(s, key)),
         done    |-> Done(Padded(key, LocksOf(s, key)), ModsOf(s, key)),
         replies |-> Replies(key)]
  BY <1>3, <1>4, Zenon DEF Reading, ModsOf, LocksOf
<1> QED
  BY <1>5

LEMMA BreakFact ==
  ASSUME NEW s, NEW code, ~(code < 128), NEW e0
  PROVE  Decode(s, code, e0) =
           [state   |-> Reading(s.modifiers \ Modifier(KeyOf(s, code % 128, e0)), s.locks),
            done    |-> <<>>,
            replies |-> <<>>]
BY Zenon DEF Decode, Reading, KeyOf

LEMMA OneByte ==
  ASSUME NEW s \in States, s.reader = Idle, NEW byte \in Nat, byte # 224, byte # 225
  PROVE  Turn(s, byte) = Decode(s, byte, 0)
<1>1. s.reader.pc = "first"
  BY DEF Idle
<1> QED
  BY <1>1 DEF Turn, First

LEMMA SecondByte ==
  ASSUME NEW s \in States, s.reader.pc = "e0", NEW byte \in Nat, byte # 42, byte # 183
  PROVE  Turn(s, byte) = Decode(s, byte, 1)
BY DEF Turn, AfterE0

LEMMA PressedByte ==
  ASSUME NEW s \in States, s.reader = Idle, NEW k \in {"a", "seven", "shift_l", "shift_r", "caps", "num"},
         NEW byte, <<byte>> = Code[k]
  PROVE  /\ byte \in Nat
         /\ Turn(s, byte).state = Reading(s.modifiers \cup ({k} \cap Shifts), Locked(k, s.locks))
         /\ Turn(s, byte).done = Does(k, s.modifiers, s.locks)
<1>1. byte \in 0 .. 127 /\ byte \in Nat /\ byte # 224 /\ byte # 225
  <2>1. byte \in {30, 71, 42, 54, 58, 69}
    BY CodesFact
  <2> QED
    BY <2>1
<1>2. PICK key : key = KeyOf(s, byte, 0)
  OBVIOUS
<1>3. /\ Turn(s, byte).state = Reading(ModsOf(s, key), LocksOf(s, key))
      /\ Turn(s, byte).done = Done(Padded(key, LocksOf(s, key)), ModsOf(s, key))
  <2>1. Turn(s, byte) = Decode(s, byte, 0)
    BY <1>1, OneByte
  <2> QED
    BY <2>1, <1>1, <1>2, MakeFact
<1>4. s.modifiers \in SUBSET Shifts /\ s.locks \in SUBSET {"caps_lock", "num_lock"}
  BY ReadingFact
<1>5. CASE k = "a"
  <2>1. key = IF s.modifiers # {} \/ "caps_lock" \in s.locks THEN "A" ELSE "a"
    <3>1. byte = 30
      BY <1>5, CodesFact
    <3> QED
      BY <1>2, <3>1, RowsFact DEF KeyOf, Column
  <2>2. LocksOf(s, key) = s.locks /\ ModsOf(s, key) = s.modifiers
    BY <2>1 DEF LocksOf, ModsOf, Toggled, Modifier
  <2>3. Done(Padded(key, s.locks), s.modifiers) = <<key>>
    BY <2>1 DEF Done, Padded
  <2>4. Does(k, s.modifiers, s.locks) = <<key>> /\ Locked(k, s.locks) = s.locks
        /\ s.modifiers \cup ({k} \cap Shifts) = s.modifiers
    BY <1>5, <2>1 DEF Does, Locked, Shifts
  <2> QED
    <3>1. Turn(s, byte).done = Done(Padded(key, s.locks), s.modifiers)
      BY <1>3, <2>2, Zenon
    <3>2. Turn(s, byte).done = Does(k, s.modifiers, s.locks)
      BY <2>3, <2>4, <3>1, Zenon
    <3>3. Turn(s, byte).state = Reading(s.modifiers, s.locks)
      BY <1>3, <2>2, Zenon
    <3>4. Turn(s, byte).state = Reading(s.modifiers \cup ({k} \cap Shifts), Locked(k, s.locks))
      BY <2>4, <3>3, Zenon
    <3> QED
      BY <1>1, <3>2, <3>4
<1>6. CASE k = "seven"
  <2>1. key = IF s.modifiers # {} THEN "7" ELSE "PAD_HOME"
    <3>1. byte = 71
      BY <1>6, CodesFact
    <3> QED
      BY <1>2, <3>1, RowsFact DEF KeyOf, Column
  <2>2. LocksOf(s, key) = s.locks /\ ModsOf(s, key) = s.modifiers
    BY <2>1 DEF LocksOf, ModsOf, Toggled, Modifier
  <2>3. Done(Padded(key, s.locks), s.modifiers) = Does(k, s.modifiers, s.locks)
    BY <1>6, <2>1 DEF Done, Padded, Does
  <2>4. Locked(k, s.locks) = s.locks /\ s.modifiers \cup ({k} \cap Shifts) = s.modifiers
    BY <1>6 DEF Locked, Shifts
  <2> QED
    <3>1. Turn(s, byte).done = Done(Padded(key, s.locks), s.modifiers)
      BY <1>3, <2>2, Zenon
    <3>2. Turn(s, byte).done = Does(k, s.modifiers, s.locks)
      BY <2>3, <3>1, Zenon
    <3>3. Turn(s, byte).state = Reading(s.modifiers, s.locks)
      BY <1>3, <2>2, Zenon
    <3>4. Turn(s, byte).state = Reading(s.modifiers \cup ({k} \cap Shifts), Locked(k, s.locks))
      BY <2>4, <3>3, Zenon
    <3> QED
      BY <1>1, <3>2, <3>4
<1>7. CASE k \in {"shift_l", "shift_r"}
  <2>1. key = IF k = "shift_l" THEN "SHIFT_L" ELSE "SHIFT_R"
    <3>1. byte = IF k = "shift_l" THEN 42 ELSE 54
      BY <1>7, CodesFact
    <3> QED
      BY <1>2, <1>7, <3>1, RowsFact DEF KeyOf, Column
  <2>2. LocksOf(s, key) = s.locks /\ ModsOf(s, key) = s.modifiers \cup ({k} \cap Shifts)
    BY <1>7, <2>1 DEF LocksOf, ModsOf, Toggled, Modifier, Shifts
  <2>3. \A b, m : Done(Padded(key, b), m) = <<>>
    BY <2>1 DEF Done, Padded
  <2>4. Locked(k, s.locks) = s.locks /\ Does(k, s.modifiers, s.locks) = <<>>
    BY <1>7 DEF Locked, Does
  <2> QED
    <3>1. Turn(s, byte).done = <<>>
      BY <1>3, <2>3, Zenon
    <3>2. Turn(s, byte).done = Does(k, s.modifiers, s.locks)
      BY <2>4, <3>1, Zenon
    <3>3. Turn(s, byte).state = Reading(s.modifiers \cup ({k} \cap Shifts), Locked(k, s.locks))
      BY <1>3, <2>2, <2>4, Zenon
    <3> QED
      BY <1>1, <3>2, <3>3
<1>8. CASE k \in {"caps", "num"}
  <2>1. key = IF k = "caps" THEN "CAPS_LOCK" ELSE "NUM_LOCK"
    <3>1. byte = IF k = "caps" THEN 58 ELSE 69
      BY <1>8, CodesFact
    <3> QED
      BY <1>2, <1>8, <3>1, RowsFact DEF KeyOf, Column
  <2>2. LocksOf(s, key) = Locked(k, s.locks) /\ ModsOf(s, key) = s.modifiers
    BY <1>8, <2>1 DEF LocksOf, ModsOf, Toggled, Modifier, Locked
  <2>3. Done(Padded(key, LocksOf(s, key)), ModsOf(s, key)) = <<>>
    BY <2>1 DEF Done, Padded
  <2>4. s.modifiers \cup ({k} \cap Shifts) = s.modifiers /\ Does(k, s.modifiers, s.locks) = <<>>
    BY <1>8 DEF Shifts, Does
  <2> QED
    <3>1. Turn(s, byte).done = <<>>
      BY <1>3, <2>3, Zenon
    <3>2. Turn(s, byte).done = Does(k, s.modifiers, s.locks)
      BY <2>4, <3>1, Zenon
    <3>3. Turn(s, byte).state = Reading(s.modifiers \cup ({k} \cap Shifts), Locked(k, s.locks))
      BY <1>3, <2>2, <2>4, Zenon
    <3> QED
      BY <1>1, <3>2, <3>3
<1> QED
  BY <1>5, <1>6, <1>7, <1>8

(* The code of every key ends with one byte that says what is done.        *)
Taken(q, s, d, mods, lock) ==
  \E v \in Nat : v <= 6 /\ Leads(q, s, d, v, Reading(mods, lock))

LEMMA TakenByte ==
  ASSUME NEW s \in States, NEW byte \in Nat, NEW d, NEW mods, NEW lock,
         Turn(s, byte).state = Reading(mods, lock), Turn(s, byte).done = d
  PROVE  Taken(<<byte>>, s, d, mods, lock)
<1>1. Weight(Turn(s, byte)) \in Nat /\ Weight(Turn(s, byte)) <= 6
  BY WeightFact
<1> QED
  BY <1>1, LeadsByte DEF Taken

LEMMA TakenSaid ==
  ASSUME NEW s \in States, s.reader = Idle, NEW q, NEW d, Says(q, s, d, s), Len(q) <= 6
  PROVE  Taken(q, s, d, s.modifiers, s.locks)
<1>1. Len(q) \in Nat
  BY LeadsType DEF Says
<1> QED
  BY <1>1, ReadingFact DEF Says, Taken

(* A code after E0.                                                        *)
LEMMA TakenE0 ==
  ASSUME NEW s \in States, s.reader = Idle, NEW byte \in Nat, byte # 42, byte # 183,
         NEW d, NEW mods, NEW lock, NEW t, t = At(s, "e0", 0),
         Decode(t, byte, 1).state = Reading(mods, lock), Decode(t, byte, 1).done = d,
         Decode(t, byte, 1).replies = <<>>
  PROVE  Taken(<<224, byte>>, s, d, mods, lock)
<1>1. t \in States /\ t.reader = [pc |-> "e0", i |-> 0]
  BY AtFact
<1>2. PICK turn : turn = Turn(t, byte)
  OBVIOUS
<1>3. turn.state = Reading(mods, lock) /\ turn.done = d /\ turn.replies = <<>>
  <2>1. t.reader.pc = "e0"
    BY <1>1
  <2>2. turn = Decode(t, byte, 1)
    BY <1>1, <1>2, <2>1, SecondByte
  <2> QED
    BY <2>2
<1>4. Weight(turn) = 1
  BY <1>3 DEF Weight
<1>5. Leads(<<byte>>, t, d, 1, Reading(mods, lock))
  BY <1>1, <1>2, <1>3, <1>4, LeadsByte
<1>6. Leads(<<224>>, s, <<>>, 1, t)
  <2>1. Turn(s, 224) = WaitFor(s, "e0", 0)
    BY DEF Turn, First, Idle
  <2>2. WaitFor(s, "e0", 0) = [state |-> t, done |-> <<>>, replies |-> <<>>]
    BY WaitForType DEF At
  <2>3. PICK first : first = Turn(s, 224)
    OBVIOUS
  <2>4. first.state = t /\ first.done = <<>> /\ first.replies = <<>>
    BY <2>1, <2>2, <2>3
  <2>5. Weight(first) = 1
    BY <2>4 DEF Weight
  <2> QED
    BY <2>3, <2>4, <2>5, LeadsByte
<1>7. PICK v : v <= 6 /\ v \in Nat /\ Leads(<<224>> \o <<byte>>, s, <<>> \o d, v, Reading(mods, lock))
  <2>1. PICK x \in Nat, y \in Nat : x = 1 /\ y = 1
    OBVIOUS
  <2>2. Leads(<<224>>, s, <<>>, x, t) /\ Leads(<<byte>>, t, d, y, Reading(mods, lock))
    BY <1>5, <1>6, <2>1
  <2>3. Leads(<<224>> \o <<byte>>, s, <<>> \o d, x + y, Reading(mods, lock))
    <3>1. PICK q, p, f, u : q = <<224>> /\ p = <<byte>> /\ f = <<>> /\ u = Reading(mods, lock)
      OBVIOUS
    <3>2. Leads(q, s, f, x, t) /\ Leads(p, t, d, y, u)
      BY <2>2, <3>1
    <3>3. Leads(q \o p, s, f \o d, x + y, u)
      BY <3>2, LeadsOn
    <3> QED
      BY <3>1, <3>3
  <2>4. x + y <= 6 /\ x + y \in Nat
    BY <2>1
  <2> QED
    BY <2>3, <2>4
<1>8. <<>> \o d = d
  BY <1>5, LeadsType, Associative
<1>9. <<224>> \o <<byte>> = <<224, byte>>
  <2>1. PICK p, o : p = <<224>> \o <<byte>> /\ o = <<224, byte>>
    OBVIOUS
  <2>2. p \in Seq(Nat) /\ Len(p) = 2 /\ p[1] = 224 /\ p[2] = byte
    BY <2>1
  <2>3. o \in Seq(Nat) /\ Len(o) = 2 /\ o[1] = 224 /\ o[2] = byte
    BY <2>1
  <2>4. \A i \in 1 .. Len(p) : i = 1 \/ i = 2
    BY <2>2
  <2>5. Len(p) = Len(o) /\ \A i \in 1 .. Len(p) : p[i] = o[i]
    BY <2>2, <2>3, <2>4
  <2>6. p = o
    BY <2>2, <2>3, <2>5, SeqEqual
  <2> QED
    BY <2>1, <2>6
<1> QED
  BY <1>7, <1>8, <1>9 DEF Taken

LEMMA Pressed ==
  ASSUME NEW s \in States, s.reader = Idle, NEW k \in DOMAIN Code
  PROVE  Taken(Code[k], s, Does(k, s.modifiers, s.locks), s.modifiers \cup ({k} \cap Shifts), Locked(k, s.locks))
<1>1. CASE k \in {"a", "seven", "shift_l", "shift_r", "caps", "num"}
  <2>1. PICK byte : Code[k] = <<byte>>
    BY <1>1, CodesFact
  <2> QED
    BY <1>1, <2>1, PressedByte, TakenByte
<1>2. CASE k \in {"prtscr", "pause"}
  <2>1. Does(k, s.modifiers, s.locks) = <<"cannot hand">> /\ Locked(k, s.locks) = s.locks
        /\ s.modifiers \cup ({k} \cap Shifts) = s.modifiers
    BY <1>2, ReadingFact DEF Does, Locked, Shifts
  <2>2. Says(Code[k], s, <<"cannot hand">>, s) /\ Len(Code[k]) <= 6
    <3>1. CASE k = "prtscr"
      <4>1. Says(Code["prtscr"], s, <<"cannot hand">>, s)
        <5>1. PICK pc, q : pc = "make" /\ q = Code["prtscr"]
          OBVIOUS
        <5>2. Says(q, s, <<"cannot hand">>, s)
          BY <5>1, SaysPrtScr
        <5> QED
          BY <5>1, <5>2
      <4> QED
        <5>1. Len(Code["prtscr"]) = 4
          BY CodesFact
        <5>2. Len(Code["prtscr"]) <= 6
          BY <5>1
        <5> QED
          BY <3>1, <4>1, <5>2, Zenon
    <3>2. CASE k = "pause"
      <4>1. Says(Code["pause"], s, <<"cannot hand">>, s)
        BY SaysPause, CodesFact, Zenon
      <4>2. Len(Code["pause"]) = 6
        BY CodesFact
      <4>3. Len(Code["pause"]) <= 6
        BY <4>2
      <4> QED
        BY <3>2, <4>1, <4>3, Zenon
    <3> QED
      BY <1>2, <3>1, <3>2
  <2> QED
    BY <2>1, <2>2, TakenSaid
<1>3. CASE k = "up"
  <2>1. PICK t : t = At(s, "e0", 0)
    OBVIOUS
  <2>2. t \in States /\ t.modifiers = s.modifiers /\ t.locks = s.locks
    BY <2>1, AtFact
  <2>3. KeyOf(t, 72, 1) = "UP"
    BY RowsFact DEF KeyOf, Column
  <2>4. /\ Decode(t, 72, 1).state = Reading(ModsOf(t, "UP"), LocksOf(t, "UP"))
        /\ Decode(t, 72, 1).done = Done(Padded("UP", LocksOf(t, "UP")), ModsOf(t, "UP"))
        /\ Decode(t, 72, 1).replies = Replies("UP")
    BY <2>2, <2>3, MakeFact
  <2>5. ModsOf(t, "UP") = s.modifiers /\ LocksOf(t, "UP") = s.locks /\ Replies("UP") = <<>>
    BY <2>2, ReadingFact, RepliesFact DEF ModsOf, LocksOf, Modifier, Toggled
  <2>6. Done(Padded("UP", LocksOf(t, "UP")), ModsOf(t, "UP")) = Does(k, s.modifiers, s.locks)
    BY <1>3, <2>5 DEF Done, Padded, Does
  <2>7. s.modifiers \cup ({k} \cap Shifts) = s.modifiers /\ Locked(k, s.locks) = s.locks
    BY <1>3, ReadingFact DEF Locked, Shifts
  <2>8. Taken(<<224, 72>>, s, Does(k, s.modifiers, s.locks), s.modifiers, s.locks)
    BY <2>1, <2>4, <2>5, <2>6, TakenE0
  <2> QED
    BY <1>3, <2>7, <2>8, CodesFact
<1> QED
  BY <1>1, <1>2, <1>3, KeysFact

LEMMA Released ==
  ASSUME NEW s \in States, s.reader = Idle, NEW k \in DOMAIN Code
  PROVE  Taken(BreakCode(k), s, MeantOnRelease(k), s.modifiers \ ({k} \cap Shifts), s.locks)
<1>0. MeantOnRelease(k) = IF k = "prtscr" THEN <<"cannot hand">> ELSE <<>>
  BY DEF MeantOnRelease
<1>1. CASE k \in {"a", "seven", "shift_l", "shift_r", "caps", "num"}
  <2>1. PICK row \in 0 .. 127 :
          row = CASE k = "a" -> 30 [] k = "seven" -> 71 [] k = "shift_l" -> 42
                  [] k = "shift_r" -> 54 [] k = "caps" -> 58 [] OTHER -> 69
    OBVIOUS
  <2>2. PICK byte \in Nat : byte = row + 128 /\ BreakCode(k) = <<byte>> /\ byte # 224 /\ byte # 225
    BY <1>1, <2>1, BreakCodesFact
  <2>3. s.modifiers \ Modifier(KeyOf(s, row, 0)) = s.modifiers \ ({k} \cap Shifts)
    <3>1. keymap(row)[Column(s, row, 0)] \in CASE k = "a" -> {"a", "A"} [] k = "seven" -> {"PAD_HOME", "7"}
            [] k = "shift_l" -> {"SHIFT_L"} [] k = "shift_r" -> {"SHIFT_R"} [] k = "caps" -> {"CAPS_LOCK"}
            [] OTHER -> {"NUM_LOCK"}
      BY <1>1, <2>1, RowsFact DEF Column
    <3> QED
      BY <1>1, <3>1 DEF KeyOf, Modifier, Shifts
  <2>4. Turn(s, byte).state = Reading(s.modifiers \ Modifier(KeyOf(s, row, 0)), s.locks)
        /\ Turn(s, byte).done = <<>>
    <3>1. Turn(s, byte) = Decode(s, byte, 0)
      BY <2>2, OneByte
    <3>2. ~(byte < 128)
      BY <2>1, <2>2
    <3>3. Decode(s, byte, 0) =
            [state   |-> Reading(s.modifiers \ Modifier(KeyOf(s, byte % 128, 0)), s.locks),
             done    |-> <<>>,
             replies |-> <<>>]
      BY <3>2, BreakFact, Zenon
    <3>4. byte % 128 = row
      BY <2>1, <2>2
    <3>5. PICK turn, state : turn = Turn(s, byte) /\ state = Reading(s.modifiers \ Modifier(KeyOf(s, row, 0)), s.locks)
      OBVIOUS
    <3>6. turn = [state |-> state, done |-> <<>>, replies |-> <<>>]
      BY <3>1, <3>3, <3>4, <3>5, Zenon
    <3> QED
      BY <3>5, <3>6
  <2> QED
    <3>1. Turn(s, byte).state = Reading(s.modifiers \ ({k} \cap Shifts), s.locks)
      BY <2>3, <2>4
    <3>2. Taken(<<byte>>, s, <<>>, s.modifiers \ ({k} \cap Shifts), s.locks)
      BY <2>4, <3>1, TakenByte, Zenon
    <3> QED
      BY <1>0, <1>1, <2>2, <3>2
<1>2. CASE k = "prtscr"
  <2>1. Says(BreakCode("prtscr"), s, <<"cannot hand">>, s) /\ Len(BreakCode("prtscr")) <= 6
    <3>1. PICK pc, q : pc = "break" /\ q = BreakCode("prtscr")
      OBVIOUS
    <3>2. Says(q, s, <<"cannot hand">>, s)
      BY <3>1, SaysPrtScr
    <3> QED
      <4>1. Len(q) = 4
        BY <3>1, BreakCodesFact
      <4>2. Len(q) <= 6
        BY <4>1
      <4> QED
        BY <3>1, <3>2, <4>2, Zenon
  <2>2. s.modifiers \ ({k} \cap Shifts) = s.modifiers
    BY <1>2, ReadingFact DEF Shifts
  <2> QED
    BY <1>0, <1>2, <2>1, <2>2, TakenSaid
<1>3. CASE k = "pause"
  <2>1. PICK q : q = <<>>
    OBVIOUS
  <2>2. BreakCode(k) = q /\ q \in Seq(Nat) /\ Len(q) = 0
    BY <1>3, <2>1, BreakCodesFact
  <2>4. Passes(q, s, s)
    <3>1. \A i \in 1 .. Len(q) : q[i] = 250
      BY <2>2
    <3> QED
      BY <2>2, <3>1, PassesAcks, Zenon
  <2>3. s.modifiers \ ({k} \cap Shifts) = s.modifiers
    BY <1>3, ReadingFact DEF Shifts
  <2> QED
    <3>1. Len(q) <= 6
      BY <2>2
    <3>2. Taken(q, s, <<>>, s.modifiers, s.locks)
      BY <2>4, <3>1, TakenSaid, Zenon DEF Passes
    <3> QED
      BY <1>0, <1>3, <2>2, <2>3, <3>2
<1>4. CASE k = "up"
  <2>1. PICK t : t = At(s, "e0", 0)
    OBVIOUS
  <2>2. t \in States /\ t.modifiers = s.modifiers /\ t.locks = s.locks
    BY <2>1, AtFact
  <2>3. KeyOf(t, 72, 1) = "UP" /\ Modifier("UP") = {}
    BY RowsFact DEF KeyOf, Column, Modifier
  <2>4. /\ Decode(t, 200, 1).state = Reading(t.modifiers \ Modifier(KeyOf(t, 72, 1)), t.locks)
        /\ Decode(t, 200, 1).done = <<>>
        /\ Decode(t, 200, 1).replies = <<>>
    <3>1. PICK code, e0 : code = 200 /\ e0 = 1
      OBVIOUS
    <3>2. ~(code < 128)
      BY <3>1
    <3>3. Decode(t, code, e0) =
            [state   |-> Reading(t.modifiers \ Modifier(KeyOf(t, code % 128, e0)), t.locks),
             done    |-> <<>>,
             replies |-> <<>>]
      BY <3>2, BreakFact, Zenon
    <3>4. code % 128 = 72
      BY <3>1
    <3> QED
      BY <3>1, <3>3, <3>4
  <2>5. t.modifiers \ Modifier(KeyOf(t, 72, 1)) = s.modifiers /\ s.modifiers \ ({k} \cap Shifts) = s.modifiers
    BY <1>4, <2>2, <2>3, ReadingFact DEF Shifts
  <2>6. Taken(<<224, 200>>, s, <<>>, s.modifiers, s.locks)
    <3>1. PICK byte \in Nat : byte = 200
      OBVIOUS
    <3>2. /\ Decode(t, byte, 1).state = Reading(s.modifiers, s.locks)
          /\ Decode(t, byte, 1).done = <<>> /\ Decode(t, byte, 1).replies = <<>>
      BY <2>2, <2>4, <2>5, <3>1
    <3>3. byte # 42 /\ byte # 183
      BY <3>1
    <3>4. Taken(<<224, byte>>, s, <<>>, s.modifiers, s.locks)
      BY <2>1, <3>2, <3>3, TakenE0, Zenon
    <3> QED
      BY <3>1, <3>4
  <2> QED
    BY <1>0, <1>4, <2>5, <2>6, BreakCodesFact
<1> QED
  BY <1>1, <1>2, <1>3, <1>4, KeysFact

-----------------------------------------------------------------------------
(* The invariant                                                           *)

LEMMA Joined ==
  ASSUME NEW a \in Seq(Nat), NEW b \in Seq(Nat)
  PROVE  /\ a \o b \in Seq(Nat) /\ Len(a \o b) = Len(a) + Len(b)
         /\ \A c \in Seq(Nat) : (a \o b) \o c = a \o (b \o c)
         /\ a # <<>> => a \o b # <<>> /\ Head(a \o b) = Head(a) /\ Tail(a \o b) = Tail(a) \o b
                        /\ Head(a) \in Nat /\ Tail(a) \in Seq(Nat)
         /\ b # <<>> => Append(a, Head(b)) \o Tail(b) = a \o b
                        /\ Append(a, Head(b)) \in Seq(Nat) /\ Tail(b) \in Seq(Nat)
<1>1. a \o b \in Seq(Nat) /\ Len(a \o b) = Len(a) + Len(b)
      /\ \A c \in Seq(Nat) : (a \o b) \o c = a \o (b \o c)
  OBVIOUS
<1>2. ASSUME a # <<>>
      PROVE  a \o b # <<>> /\ Head(a \o b) = Head(a) /\ Head(a) \in Nat /\ Tail(a) \in Seq(Nat)
  BY <1>2
<1>3. ASSUME a # <<>> PROVE Tail(a \o b) = Tail(a) \o b
  <2>1. PICK p, o : p = Tail(a \o b) /\ o = Tail(a) \o b
    OBVIOUS
  <2>2. a \o b \in Seq(Nat) /\ a \o b # <<>> /\ Tail(a) \in Seq(Nat)
    BY <1>2, <1>3
  <2>3. p \in Seq(Nat) /\ o \in Seq(Nat) /\ Len(p) = (Len(a) + Len(b)) - 1 /\ Len(o) = (Len(a) - 1) + Len(b)
    BY <1>3, <2>1, <2>2
  <2>4. \A i \in 1 .. Len(p) : p[i] = o[i]
    BY <1>3, <2>1, <2>2, <2>3
  <2>5. Len(p) = Len(o)
    BY <2>3
  <2> QED
    BY <2>1, <2>3, <2>4, <2>5, SeqEqual
<1>4. ASSUME b # <<>>
      PROVE  Append(a, Head(b)) \in Seq(Nat) /\ Tail(b) \in Seq(Nat)
  BY <1>4
<1>5. ASSUME b # <<>> PROVE Append(a, Head(b)) \o Tail(b) = a \o b
  <2>1. PICK p, o : p = Append(a, Head(b)) \o Tail(b) /\ o = a \o b
    OBVIOUS
  <2>2. p \in Seq(Nat) /\ o \in Seq(Nat) /\ Len(p) = (Len(a) + 1) + (Len(b) - 1) /\ Len(o) = Len(a) + Len(b)
    BY <1>4, <1>5, <2>1
  <2>3. \A i \in 1 .. Len(p) : p[i] = o[i]
    BY <1>4, <1>5, <2>1, <2>2
  <2>4. Len(p) = Len(o)
    BY <2>2
  <2> QED
    BY <2>1, <2>2, <2>3, <2>4, SeqEqual
<1> QED
  BY <1>1, <1>2, <1>3, <1>4, <1>5

Typed ==
  /\ down \in SUBSET Keys /\ wire \in Seq(Nat) /\ keyboardIn \in Seq(Nat)
  /\ Now \in States

(* The locks as the user has switched them.                                *)
Switched == (IF capital THEN {"caps_lock"} ELSE {}) \cup (IF digits THEN {"num_lock"} ELSE {})

(* Read to the end, the bytes that are on their way lead to state s of the *)
(* reader, in which the shift keys are set as they are held now, and do e. *)
(* Without a caps lock key e is what is expected, and the locks are set as *)
(* the user has switched them; with it they need not be, for its case goes *)
(* on into that of the number lock.                                        *)
Ahead(s, e, w) ==
  /\ Leads(keyboardIn \o wire, Now, e, w, s) /\ w <= 6 * (Backlog + 1)
  /\ s.reader = Idle /\ s.modifiers = down \cap Shifts
  /\ "caps" \notin Keys => expected = e /\ s.locks = Switched

KeyInv == Typed /\ capital \in BOOLEAN /\ digits \in BOOLEAN /\ \E s, e, w : Ahead(s, e, w)

LEMMA AheadFact ==
  ASSUME Typed, NEW s, NEW e, NEW w, Ahead(s, e, w)
  PROVE  /\ s \in States /\ e \in Seq(Effects) /\ w \in Nat
         /\ Len(keyboardIn) + Len(wire) <= w /\ w <= 6 * (Len(keyboardIn) + Len(wire))
         /\ s.modifiers \in SUBSET Shifts /\ s.locks \in SUBSET {"caps_lock", "num_lock"}
<1>1. s \in States /\ e \in Seq(Effects) /\ w \in Nat
      /\ Len(keyboardIn \o wire) <= w /\ w <= 6 * Len(keyboardIn \o wire)
  BY LeadsType DEF Ahead
<1>2. Len(keyboardIn \o wire) = Len(keyboardIn) + Len(wire)
  BY Joined DEF Typed
<1> QED
  BY <1>1, <1>2 DEF States

(* The code q is sent.                                                     *)
LEMMA SentFact ==
  ASSUME Typed, NEW s, NEW e, NEW w, Ahead(s, e, w), Free,
         NEW q, NEW d, NEW mods, NEW lock, Taken(q, s, d, mods, lock),
         wire' = wire \o q, UNCHANGED <<keyboardIn, reader, modifiers, locks>>
  PROVE  /\ wire' \in Seq(Nat) /\ Now' = Now
         /\ \E u \in Nat : /\ Leads(keyboardIn' \o wire', Now', e \o d, u, Reading(mods, lock))
                           /\ u <= 6 * (Backlog + 1)
<1>1. PICK v \in Nat : v <= 6 /\ Leads(q, s, d, v, Reading(mods, lock))
  BY DEF Taken
<1>2. q \in Seq(Nat)
  BY <1>1, LeadsType
<1>3. Leads((keyboardIn \o wire) \o q, Now, e \o d, w + v, Reading(mods, lock))
  BY <1>1, LeadsOn DEF Ahead
<1>4. (keyboardIn \o wire) \o q = keyboardIn \o (wire \o q)
  BY <1>2, Joined DEF Typed
<1>5. wire' \in Seq(Nat) /\ Now' = Now
  BY <1>2, Joined DEF Typed, Now
<1>6. w + v \in Nat /\ w + v <= 6 * (Backlog + 1)
  <2>1. w \in Nat /\ w <= 6 * (Len(keyboardIn) + Len(wire)) /\ Len(keyboardIn) + Len(wire) \in Nat
    BY AheadFact DEF Typed
  <2>2. Len(keyboardIn) + Len(wire) <= Backlog /\ Backlog \in Nat
    BY KeyboardAssumption DEF Free
  <2> QED
    BY <1>1, <2>1, <2>2
<1>7. Leads(keyboardIn' \o wire', Now', e \o d, w + v, Reading(mods, lock))
  BY <1>3, <1>4, <1>5
<1> QED
  BY <1>5, <1>6, <1>7

LEMMA InitKeyInv == Init => KeyInv
<1> SUFFICES ASSUME Init PROVE KeyInv
  OBVIOUS
<1>1. PICK s : s = Now
  OBVIOUS
<1>2. s \in States /\ s.reader = Idle /\ s.modifiers = {} /\ s.locks = {"num_lock"}
  BY <1>1 DEF Init, Now, States, Places, Idle
<1>3. PICK q : q = keyboardIn \o wire
  OBVIOUS
<1>4. q \in Seq(Nat) /\ Len(q) = 2 /\ \A i \in 1 .. Len(q) : q[i] = 250
  BY <1>3 DEF Init, ACK
<1>5. Leads(q, s, <<>>, Len(q), s)
  BY <1>2, <1>4, PassesAcks, Zenon DEF Passes, Says
<1>6. Len(q) <= 6 * (Backlog + 1)
  BY <1>4, KeyboardAssumption
<1>7. s.modifiers = down \cap Shifts /\ expected = <<>> /\ s.locks = Switched
  BY <1>2 DEF Init, Switched
<1>8. Ahead(s, <<>>, Len(q))
  BY <1>1, <1>2, <1>3, <1>5, <1>6, <1>7, Zenon DEF Ahead
<1>9. Typed
  BY <1>1, <1>2 DEF Init, Typed, ACK
<1> QED
  BY <1>8, <1>9 DEF KeyInv, Init

(* What a key is meant to do is what its code does where it is read.       *)
LEMMA MeantFact ==
  ASSUME NEW mods, mods = down \cap Shifts, NEW k, k # "caps", capital \in BOOLEAN, digits \in BOOLEAN
  PROVE  Does(k, mods, Switched) = Meant(k)
<1>1. Shifted <=> mods # {}
  BY DEF Shifted, Shifts
<1>2. ("caps_lock" \in Switched <=> capital) /\ ("num_lock" \in Switched <=> digits)
  BY DEF Switched
<1>3. (mods # {} \/ "caps_lock" \in Switched) <=> (Shifted \/ capital)
  BY <1>1, <1>2
<1>4. (mods # {} \/ "num_lock" \in Switched) <=> (Shifted \/ digits)
  BY <1>1, <1>2
<1> QED
  BY <1>1, <1>3, <1>4, Zenon DEF Does, Meant

LEMMA PressStep ==
  ASSUME KeyInv, NEW k \in Keys, Press(k)
  PROVE  KeyInv'
<1>1. PICK s, e, w : Ahead(s, e, w)
  BY DEF KeyInv
<1>2. Typed /\ k \in DOMAIN Code /\ capital \in BOOLEAN /\ digits \in BOOLEAN
  BY KeyboardAssumption DEF KeyInv
<1>3. s \in States /\ s.reader = Idle /\ s.modifiers = down \cap Shifts
  BY <1>1, <1>2, AheadFact DEF Ahead
<1> DEFINE d == Does(k, s.modifiers, s.locks)
           mods == s.modifiers \cup ({k} \cap Shifts)
           lock == Locked(k, s.locks)
<1>4. Taken(Code[k], s, d, mods, lock)
  BY <1>2, <1>3, Pressed
<1> HIDE DEF d, mods, lock
<1>5. /\ wire' \in Seq(Nat) /\ Now' = Now
      /\ \E u \in Nat : /\ Leads(keyboardIn' \o wire', Now', e \o d, u, Reading(mods, lock))
                        /\ u <= 6 * (Backlog + 1)
  BY <1>1, <1>2, <1>4, SentFact DEF Press
<1>6. PICK u \in Nat : /\ Leads(keyboardIn' \o wire', Now', e \o d, u, Reading(mods, lock))
                       /\ u <= 6 * (Backlog + 1)
  BY <1>5
<1>7. Typed'
  BY <1>2, <1>5 DEF Press, Typed
<1>8. mods = down' \cap Shifts
  BY <1>3 DEF Press, mods
<1>9. capital' \in BOOLEAN /\ digits' \in BOOLEAN
  BY <1>2, Zenon DEF Press
<1>10. ASSUME "caps" \notin Keys PROVE expected' = e \o d /\ lock = Switched'
  <2>1. expected = e /\ s.locks = Switched /\ k # "caps"
    BY <1>1, <1>10 DEF Ahead
  <2>2. d = Meant(k)
    BY <1>2, <1>3, <2>1, MeantFact, Zenon DEF d
  <2>3. capital' = capital
    <3>1. (k = "caps") = FALSE /\ capital' = (capital # (k = "caps"))
      BY <2>1, Zenon DEF Press
    <3> QED
      BY <1>2, <3>1, Zenon
  <2>4. lock = Switched'
    <3>1. CASE k = "num"
      <4>1. digits' = ~digits
        <5>1. digits' = (digits # TRUE)
          BY <3>1, Zenon DEF Press
        <5> QED
          BY <1>2, <5>1, Zenon
      <4> QED
        BY <1>2, <2>1, <2>3, <3>1, <4>1 DEF lock, Locked, Switched
    <3>2. CASE k # "num"
      <4>1. digits' = digits
        <5>1. (k = "num") = FALSE /\ digits' = (digits # (k = "num"))
          BY <3>2, Zenon DEF Press
        <5> QED
          BY <1>2, <5>1, Zenon
      <4> QED
        BY <2>1, <2>3, <3>2, <4>1 DEF lock, Locked, Switched
    <3> QED
      BY <3>1, <3>2
  <2> QED
    BY <2>1, <2>2, <2>4 DEF Press
<1>11. PICK t : t = Reading(mods, lock)
  OBVIOUS
<1>12. t.reader = Idle /\ t.modifiers = mods /\ t.locks = lock
  BY <1>11 DEF Reading
<1>13. Ahead(t, e \o d, u)'
  BY <1>6, <1>8, <1>10, <1>11, <1>12 DEF Ahead
<1> QED
  BY <1>7, <1>9, <1>13 DEF KeyInv

LEMMA ReleaseStep ==
  ASSUME KeyInv, NEW k \in Keys, Release(k)
  PROVE  KeyInv'
<1>1. PICK s, e, w : Ahead(s, e, w)
  BY DEF KeyInv
<1>2. Typed /\ k \in DOMAIN Code /\ capital \in BOOLEAN /\ digits \in BOOLEAN
  BY KeyboardAssumption DEF KeyInv
<1>3. s \in States /\ s.reader = Idle /\ s.modifiers = down \cap Shifts /\ e \in Seq(Effects)
  BY <1>1, <1>2, AheadFact DEF Ahead
<1> DEFINE mods == s.modifiers \ ({k} \cap Shifts)
           d    == MeantOnRelease(k)
<1>4. Taken(BreakCode(k), s, d, mods, s.locks)
  BY <1>2, <1>3, Released
<1>13. expected' = expected \o d
  BY DEF Release
<1> HIDE DEF mods, d
<1>5. /\ wire' \in Seq(Nat) /\ Now' = Now
      /\ \E u \in Nat : /\ Leads(keyboardIn' \o wire', Now', e \o d, u, Reading(mods, s.locks))
                        /\ u <= 6 * (Backlog + 1)
  BY <1>1, <1>2, <1>4, SentFact DEF Release
<1>6. PICK u \in Nat : /\ Leads(keyboardIn' \o wire', Now', e \o d, u, Reading(mods, s.locks))
                       /\ u <= 6 * (Backlog + 1)
  BY <1>5
<1>7. Typed'
  BY <1>2, <1>5 DEF Release, Typed
<1>8. mods = down' \cap Shifts
  BY <1>3 DEF Release, mods
<1>9. capital' = capital /\ digits' = digits
  BY DEF Release
<1>10. Switched' = Switched
  BY <1>9 DEF Switched
<1>11. PICK t : t = Reading(mods, s.locks)
  OBVIOUS
<1>12. t.reader = Idle /\ t.modifiers = mods /\ t.locks = s.locks
  BY <1>11 DEF Reading
<1>14. Ahead(t, e \o d, u)'
  BY <1>1, <1>6, <1>8, <1>9, <1>10, <1>11, <1>12, <1>13 DEF Ahead
<1> QED
  BY <1>2, <1>7, <1>9, <1>14 DEF KeyInv

(* The ring has room for the byte.                                         *)
LEMMA InterruptStep ==
  ASSUME KeyInv, Interrupt
  PROVE  KeyInv'
<1>1. PICK s, e, w : Ahead(s, e, w)
  BY DEF KeyInv
<1>2. Typed /\ wire # <<>> /\ UNCHANGED <<reader, modifiers, locks, down, capital, digits, expected>>
  BY DEF KeyInv, Interrupt
<1>3. Len(keyboardIn) < Size
  <2>1. w \in Nat /\ Len(keyboardIn) + Len(wire) <= w /\ w <= 6 * (Backlog + 1)
    BY <1>1, <1>2, AheadFact DEF Ahead
  <2>2. Len(keyboardIn) \in Nat /\ Len(wire) \in Nat /\ Len(wire) > 0
    BY <1>2 DEF Typed
  <2>3. Backlog \in Nat /\ Size \in Nat /\ Size >= 6 * (Backlog + 1)
    BY KeyboardAssumption
  <2> QED
    BY <2>1, <2>2, <2>3
<1>4. keyboardIn' = Append(keyboardIn, Head(wire)) /\ wire' = Tail(wire)
  BY <1>3 DEF Interrupt
<1>5. keyboardIn' \in Seq(Nat) /\ wire' \in Seq(Nat) /\ keyboardIn' \o wire' = keyboardIn \o wire
  BY <1>2, <1>4, Joined DEF Typed
<1>6. Now' = Now /\ Switched' = Switched
  BY <1>2 DEF Now, Switched
<1>7. Ahead(s, e, w)'
  BY <1>1, <1>2, <1>5, <1>6 DEF Ahead
<1> QED
  BY <1>2, <1>5, <1>6, <1>7 DEF KeyInv, Typed

(* The first of the bytes does the first of what is expected, or nothing,  *)
(* and its acknowledgements come behind all that is on its way.            *)
LEMMA ReadStep ==
  ASSUME KeyInv, Read
  PROVE  KeyInv'
<1>1. PICK s, e, w : Ahead(s, e, w)
  BY DEF KeyInv
<1>2. Typed /\ keyboardIn # <<>> /\ UNCHANGED <<down, capital, digits>>
  BY DEF KeyInv, Read
<1>3. s \in States /\ s.reader = Idle /\ w \in Nat /\ Now \in States
  BY <1>1, <1>2, AheadFact DEF Ahead, Typed
<1>4. PICK byte, q : byte = Head(keyboardIn) /\ q = keyboardIn \o wire
  OBVIOUS
<1>5. q # <<>> /\ Head(q) = byte /\ Tail(q) = Tail(keyboardIn) \o wire /\ byte \in Nat
      /\ Tail(keyboardIn) \in Seq(Nat) /\ wire \in Seq(Nat)
  BY <1>2, <1>4, Joined DEF Typed
<1>6. PICK turn : turn = Turn(Now, byte)
  OBVIOUS
<1>7. TurnType(turn)
  BY <1>3, <1>6, TurnFact
<1>8. PICK f \in Seq(Effects), v \in Nat :
        Leads(Tail(q), turn.state, f, v, s) /\ e = turn.done \o f /\ w = Weight(turn) + v
  <2>1. Leads(q, Now, e, w, s)
    BY <1>1, <1>4 DEF Ahead
  <2>2. q # <<>>
    BY <1>5
  <2>3. \E f \in Seq(Effects), v \in Nat :
          /\ Leads(Tail(q), Turn(Now, Head(q)).state, f, v, s)
          /\ e = Turn(Now, Head(q)).done \o f
          /\ w = Weight(Turn(Now, Head(q))) + v
    BY <2>1, <2>2, LeadsFrom
  <2>4. turn = Turn(Now, Head(q))
    BY <1>5, <1>6
  <2> QED
    BY <2>3, <2>4, Zenon
<1>9. PICK r \in Seq(Nat), n \in Nat : r = turn.replies /\ n = Len(r)
  BY <1>7 DEF TurnType
<1>10. Leads(r, s, <<>>, n, s)
  <2>1. \A i \in 1 .. Len(r) : r[i] = 250
    BY <1>7, <1>9 DEF TurnType
  <2>2. Passes(r, s, s)
    BY <1>3, <2>1, PassesAcks, Zenon
  <2> QED
    BY <1>9, <2>2, Zenon DEF Passes, Says
<1>11. Leads(Tail(q) \o r, turn.state, f, v + n, s)
  <2>1. PICK o : o = <<>>
    OBVIOUS
  <2>2. Leads(Tail(q) \o r, turn.state, f \o o, v + n, s)
    BY <1>8, <1>10, <2>1, LeadsOn
  <2>3. f \o o = f
    BY <2>1
  <2> QED
    BY <2>2, <2>3
<1>12. v + n <= 6 * (Backlog + 1)
  <2>1. Weight(turn) \in Nat /\ n <= Weight(turn)
    BY <1>7, <1>9 DEF Weight, TurnType
  <2>2. w <= 6 * (Backlog + 1) /\ Backlog \in Nat
    BY <1>1, KeyboardAssumption DEF Ahead
  <2> QED
    BY <1>3, <1>8, <2>1, <2>2
<1>13. /\ keyboardIn' = Tail(keyboardIn) /\ wire' = wire \o r
       /\ reader' = turn.state.reader /\ modifiers' = turn.state.modifiers /\ locks' = turn.state.locks
       /\ Settle(turn.done)
  BY <1>4, <1>6, <1>9 DEF Read
<1>14. wire' \in Seq(Nat) /\ keyboardIn' \in Seq(Nat) /\ keyboardIn' \o wire' = Tail(q) \o r
  <2>1. PICK p : p = Tail(keyboardIn)
    OBVIOUS
  <2>2. p \in Seq(Nat) /\ wire \in Seq(Nat) /\ wire \o r \in Seq(Nat)
    BY <1>5, <1>9, <2>1
  <2>3. (p \o wire) \o r = p \o (wire \o r)
    <3>1. PICK o \in Seq(Nat) : o = wire
      BY <2>2
    <3>2. r \in Seq(Nat)
      BY <1>9
    <3>3. (p \o o) \o r = p \o (o \o r)
      BY <2>2, <3>1, <3>2, Joined
    <3> QED
      BY <3>1, <3>3
  <2> QED
    BY <1>5, <1>13, <2>1, <2>2, <2>3, Zenon
<1>15. Now' = turn.state /\ Now' \in States
  <2>1. turn.state \in States
    BY <1>7 DEF TurnType
  <2>2. turn.state = [reader |-> turn.state.reader, modifiers |-> turn.state.modifiers,
                      locks |-> turn.state.locks]
    BY <2>1 DEF States
  <2> QED
    BY <1>13, <2>1, <2>2 DEF Now
<1>16. ASSUME expected = e PROVE expected' = f
  <2>1. PICK done \in Seq(Effects) : done = turn.done /\ Len(done) <= 1
    BY <1>7 DEF TurnType
  <2>2. CASE done = <<>>
    <3>1. expected' = expected
      BY <1>13, <2>1, <2>2 DEF Settle
    <3>2. <<>> \o f = f
      OBVIOUS
    <3> QED
      BY <1>8, <1>16, <2>1, <2>2, <3>1, <3>2
  <2>3. CASE done # <<>>
    <3>1. expected = done \o f
      BY <1>8, <1>16, <2>1
    <3>2. expected # <<>> /\ <<Head(expected)>> = done /\ Tail(expected) = f
      <4>1. Len(done) = 1 /\ done[1] \in Effects
        <5>1. Len(done) \in Nat /\ Len(done) # 0
          BY <2>1, <2>3, EmptySeq
        <5>2. PICK l \in Nat : l = Len(done) /\ l <= 1 /\ l # 0
          BY <2>1, <5>1
        <5>3. Len(done) = 1
          BY <5>2
        <5> QED
          BY <2>1, <5>3
      <4>2. PICK o : o = done \o f
        OBVIOUS
      <4>3. o \in Seq(Effects) /\ Len(o) = 1 + Len(f) /\ o[1] = done[1] /\ \A i \in 1 .. Len(f) : o[i + 1] = f[i]
        <5>1. /\ o \in Seq(Effects) /\ Len(o) = Len(done) + Len(f)
              /\ \A i \in 1 .. Len(done) + Len(f) : o[i] = IF i <= Len(done) THEN done[i] ELSE f[i - Len(done)]
          BY <2>1, <4>2, ConcatProperties
        <5>2. Len(f) \in Nat
          OBVIOUS
        <5> QED
          BY <4>1, <5>1, <5>2
      <4>4. o # <<>> /\ Head(o) = done[1]
        BY <4>3
      <4>5. <<done[1]>> = done
        BY <4>1
      <4>6. Tail(o) = f
        <5>1. Tail(o) \in Seq(Effects) /\ Len(Tail(o)) = Len(f) /\ \A i \in 1 .. Len(f) : Tail(o)[i] = f[i]
          BY <4>3
        <5> QED
          BY <5>1, SeqEqual
      <4> QED
        BY <3>1, <4>2, <4>4, <4>5, <4>6
    <3> QED
      BY <1>13, <2>1, <2>3, <3>2 DEF Settle
  <2> QED
    BY <2>2, <2>3
<1>17. Ahead(s, f, v + n)'
  <2>1. Leads(keyboardIn' \o wire', Now', f, v + n, s)
    BY <1>11, <1>14, <1>15
  <2>2. Switched' = Switched
    BY <1>2 DEF Switched
  <2> QED
    BY <1>1, <1>2, <1>12, <1>16, <2>1, <2>2 DEF Ahead
<1> QED
  BY <1>2, <1>14, <1>15, <1>17 DEF KeyInv, Typed

LEMMA NextKeyInv == KeyInv /\ [Next]_vars => KeyInv'
<1> SUFFICES ASSUME KeyInv, [Next]_vars PROVE KeyInv'
  OBVIOUS
<1>1. CASE Interrupt
  BY <1>1, InterruptStep
<1>2. CASE Read
  BY <1>2, ReadStep
<1>3. CASE \E k \in Keys : Press(k) \/ Release(k)
  BY <1>3, PressStep, ReleaseStep
<1>4. CASE UNCHANGED vars
  BY <1>4 DEF vars, KeyInv, Typed, Ahead, Now, Switched
<1> QED
  BY <1>1, <1>2, <1>3, <1>4 DEF Next

-----------------------------------------------------------------------------
(* keyboardRead() keeps up with the user: whatever it has read so far, and *)
(* wherever it is in a code, the bytes on their way lead to the modifiers  *)
(* that are held and do what is expected.                                  *)
THEOREM AlwaysKeyInv == Spec => []KeyInv
BY InitKeyInv, NextKeyInv, PTL DEF Spec

LEMMA AheadWhenQuiet ==
  ASSUME KeyInv, Quiet, NEW s, NEW e, NEW w, Ahead(s, e, w)
  PROVE  s = Now /\ e = <<>>
<1>1. PICK q : q = keyboardIn \o wire
  OBVIOUS
<1>2. q = <<>>
  BY <1>1 DEF Quiet
<1> QED
  BY <1>1, <1>2, LeadsNowhere DEF Ahead

(* When all bytes are read the shift keys are set just as they are held,   *)
(* whatever else the user has pressed: keyboardRead() loses no release of  *)
(* one and takes no part of another code for it.                           *)
THEOREM AlwaysShiftFollows == Spec => []ShiftFollows
<1>1. KeyInv => ShiftFollows
  <2> SUFFICES ASSUME KeyInv, Quiet PROVE modifiers = down \cap Shifts
    BY DEF ShiftFollows, Shifts
  <2>1. PICK s, e, w : Ahead(s, e, w)
    BY DEF KeyInv
  <2>2. s = Now /\ s.modifiers = down \cap Shifts
    BY <2>1, AheadWhenQuiet DEF Ahead
  <2> QED
    BY <2>2 DEF Now
<1> QED
  BY <1>1, AlwaysKeyInv, PTL

(* On a keyboard without a caps lock key every key does what it is meant   *)
(* to do by the modifiers held when it was pressed, in the order of the    *)
(* presses, and nothing else is done: the code of one key is never taken   *)
(* for that of another, nor an acknowledgement for a key.                  *)
THEOREM AlwaysInStep ==
  ASSUME "caps" \notin Keys
  PROVE  Spec => []InStep
<1>1. KeyInv => InStep
  <2> SUFFICES ASSUME KeyInv PROVE InStep
    OBVIOUS
  <2>1. PICK s, e, w : Ahead(s, e, w)
    BY DEF KeyInv
  <2>2. expected = e /\ e \in Seq(Effects)
    BY <2>1, AheadFact DEF Ahead, KeyInv
  <2>3. expected # <<"diverged">>
    <3>1. "diverged" \notin Effects
      BY DEF Effects
    <3>2. <<"diverged">> \notin Seq(Effects)
      <4>1. PICK o : o = <<"diverged">>
        OBVIOUS
      <4>2. Len(o) = 1 /\ o[1] = "diverged"
        BY <4>1
      <4>3. o \notin Seq(Effects)
        BY <3>1, <4>2
      <4> QED
        BY <4>1, <4>3
    <3> QED
      BY <2>2, <3>2
  <2>4. Quiet => expected = <<>>
    BY <2>1, <2>2, AheadWhenQuiet
  <2> QED
    BY <2>3, <2>4 DEF InStep
<1> QED
  BY <1>1, AlwaysKeyInv, PTL
=============================================================================
