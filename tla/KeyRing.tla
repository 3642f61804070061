------------------------------ MODULE KeyRing ------------------------------
(***************************************************************************)
(* keyboardIn, the ring of scan codes between keyboardHandler(), which     *)
(* runs in an interrupt, and getByteFromKeyboardIn(), which runs in        *)
(* taskTTY.  The handler is one step: taskTTY cannot run inside it.  The   *)
(* task is stepped by its accesses to the ring (count-- is a load and a    *)
(* store), and the interrupt comes between any two of them, unless they    *)
(* are disabled.                                                           *)
(***************************************************************************)
EXTENDS Integers, Sequences

CONSTANTS
  Size,   \* KB_IN_BYTES
  Bytes   \* scan codes

ASSUME RingAssumption == Size \in Nat \ {0} /\ Bytes # {}

VARIABLES
  buf, p_head, p_tail, count,  \* KB_INPUT, the pointers as indices of buf
  interrupts,                  \* whether interrupts are enabled
  pc, tmp,                     \* getByteFromKeyboardIn, and count as it loads it
  scanCode                     \* the byte it returns

ring == <<buf, p_head, p_tail, count>>
vars == <<ring, interrupts, pc, tmp, scanCode>>

TypeOK ==
  /\ buf \in [0 .. Size - 1 -> Bytes]
  /\ p_head \in 0 .. Size - 1
  /\ p_tail \in 0 .. Size
  /\ count \in 0 .. Size
  /\ interrupts \in BOOLEAN
  /\ pc \in {"wait", "disable", "fetch", "load", "store", "wrap", "enable"}
  /\ tmp \in 0 .. Size
  /\ scanCode \in Bytes

(* initKeyboard(); buf is all zeroes, and scanCode an automatic variable.  *)
Init ==
  /\ \E zero \in Bytes : buf = [i \in 0 .. Size - 1 |-> zero]
  /\ p_head = 0 /\ p_tail = 0 /\ count = 0
  /\ interrupts = TRUE
  /\ pc = "wait" /\ tmp = 0
  /\ scanCode \in Bytes

(* Mutant: the pointer is rolled one place late.                           *)
RolledLate(i) == IF i > Size THEN 0 ELSE i

Rolled(i) == IF i = Size THEN 0 ELSE i

(* Mutant: one byte more is accepted than fits.                            *)
HasRoomForOneMore == count <= Size

HasRoom == count < Size

keyboardHandler(b) ==
  /\ interrupts
  /\ HasRoom
  /\ buf' = [buf EXCEPT ![p_head] = b]
  /\ p_head' = Rolled(p_head + 1)
  /\ count' = count + 1
  /\ UNCHANGED <<p_tail, interrupts, pc, tmp, scanCode>>

(* A scan code that finds no room is read from the port and forgotten.     *)
Dropped == interrupts /\ ~HasRoom /\ UNCHANGED vars

-----------------------------------------------------------------------------
(* getByteFromKeyboardIn()                                                 *)

Wait ==
  /\ pc = "wait" /\ count > 0
  /\ pc' = "disable"
  /\ UNCHANGED <<ring, interrupts, tmp, scanCode>>

(* Mutant: interrupts stay enabled.                                        *)
NoDisableINT == pc = "disable" /\ pc' = "fetch" /\ UNCHANGED <<ring, interrupts, tmp, scanCode>>

disableINT ==
  /\ pc = "disable"
  /\ pc' = "fetch"
  /\ interrupts' = FALSE
  /\ UNCHANGED <<ring, tmp, scanCode>>

Fetch ==
  /\ pc = "fetch"
  /\ scanCode' = buf[p_tail]
  /\ p_tail' = p_tail + 1
  /\ pc' = "load"
  /\ UNCHANGED <<buf, p_head, count, interrupts, tmp>>

Load ==
  /\ pc = "load"
  /\ tmp' = count
  /\ pc' = "store"
  /\ UNCHANGED <<ring, interrupts, scanCode>>

Store ==
  /\ pc = "store"
  /\ count' = tmp - 1
  /\ tmp' = 0
  /\ pc' = "wrap"
  /\ UNCHANGED <<buf, p_head, p_tail, interrupts, scanCode>>

Wrap ==
  /\ pc = "wrap"
  /\ p_tail' = Rolled(p_tail)
  /\ pc' = "enable"
  /\ UNCHANGED <<buf, p_head, count, interrupts, tmp, scanCode>>

enableINT ==
  /\ pc = "enable"
  /\ pc' = "wait"
  /\ interrupts' = TRUE
  /\ UNCHANGED <<ring, tmp, scanCode>>

Reader == Wait \/ disableINT \/ Fetch \/ Load \/ Store \/ Wrap \/ enableINT

Next == Reader \/ Dropped \/ \E b \in Bytes : keyboardHandler(b)

Spec == Init /\ [][Next]_vars

-----------------------------------------------------------------------------
(* Properties                                                              *)

(* The number of bytes that wait: while the reader has advanced p_tail and *)
(* not yet stored count, count is one too many.                            *)
Waiting == IF pc \in {"load", "store"} THEN count - 1 ELSE count

(* The place of the byte that i others wait before.                        *)
Slot(i) == IF p_tail + i < Size THEN p_tail + i ELSE p_tail + i - Size

(* The two pointers and the count, which three places update separately    *)
(* and two threads share, always agree on which bytes wait.                *)
RingExact == p_head = Slot(Waiting)

(* What the places of getByteFromKeyboardIn() say beside RingExact: it has *)
(* seen a byte, holds interrupts off and has loaded count from that on,    *)
(* and leaves p_tail beyond the end for one step only.                     *)
ReaderInv ==
  /\ pc \in {"disable", "fetch", "load", "store"} => count > 0
  /\ interrupts <=> pc \in {"wait", "disable"}
  /\ pc = "store" => tmp = count
  /\ p_tail = Size => pc \in {"load", "store", "wrap"}
  /\ pc = "wrap" => count < Size

IInv == TypeOK /\ RingExact /\ ReaderInv

(* The ring is a ByteQueue: order, no byte twice, none lost while there is *)
(* room, whatever interrupts the reader.                                   *)
Queue == INSTANCE ByteQueue
  WITH queue <- [i \in 1 .. Waiting |-> buf[Slot(i - 1)]], taken <- scanCode

ImplementsQueue == Queue!Spec
=============================================================================
