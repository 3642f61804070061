----------------------------- MODULE Keyboard -----------------------------
(***************************************************************************)
(* What the bytes of the keyboard mean: keyboardRead() decodes multi-byte  *)
(* scan codes, keeps the state of the modifier and lock keys and hands     *)
(* keys to vga_processKey().  It takes its bytes one by one with           *)
(* getByteFromKeyboardIn(), which waits for the next when there is none,   *)
(* so a key may arrive byte by byte while it is being decoded.             *)
(*                                                                         *)
(* keyboardIn is the queue KeyRing implements.  The keys and the codes     *)
(* they send are those of the hardware; down, capital, digits and          *)
(* expected say what the user did and means to see.  The keys stand for    *)
(* the kinds keyboardRead() tells apart: a letter, the number pad, the     *)
(* modifiers, a key with E0, the locks, Print Screen and Pause.            *)
(***************************************************************************)
EXTENDS Integers, Sequences

CONSTANTS
  Keys,     \* the keys the user has
  Size,     \* KB_IN_BYTES
  Backlog   \* bytes that may still wait when the user presses or releases a key

VARIABLES
  wire,        \* bytes the keyboard has not sent yet
  keyboardIn,
  reader,      \* where keyboardRead() is in a scan code
  modifiers,   \* those of shift_l, shift_r that are set
  locks,       \* those of caps_lock, num_lock that are set
  down,        \* the keys that are held down
  capital, digits, \* whether the user has switched capitals and digits on
  expected     \* what the keys pressed so far have yet to do

vars == <<wire, keyboardIn, reader, modifiers, locks, down, capital, digits, expected>>

-----------------------------------------------------------------------------
(* The hardware and the user                                               *)

Code == [a       |-> <<\h1E>>,       seven   |-> <<\h47>>,
         shift_l |-> <<\h2A>>,       shift_r |-> <<\h36>>,
         up      |-> <<\hE0, \h48>>,
         caps    |-> <<\h3A>>,       num     |-> <<\h45>>,
         prtscr  |-> <<\hE0, \h2A, \hE0, \h37>>,
         pause   |-> <<\hE1, \h1D, \h45, \hE1, \h9D, \hC5>>]

(* A key that is released sends its code with the top bit set in each byte *)
(* that is no prefix, Print Screen in another order, and Pause nothing.    *)
BreakCode(k) ==
  CASE k = "prtscr" -> <<\hE0, \hB7, \hE0, \hAA>>
    [] k = "pause" -> <<>>
    [] OTHER -> [i \in DOMAIN Code[k] |-> IF Code[k][i] < \h80 THEN Code[k][i] + \h80 ELSE Code[k][i]]

(* The ring is so long that no byte is dropped: when a key is pressed at   *)
(* most Backlog bytes wait, each of which may be that of a lock key and    *)
(* cause six acknowledgements, and the key adds a code of six bytes or one *)
(* that causes as many.                                                    *)
ASSUME KeyboardAssumption ==
  /\ Keys \subseteq DOMAIN Code
  /\ Backlog \in Nat
  /\ Size \in Nat /\ Size >= 6 * (Backlog + 1)

Shifted == down \cap {"shift_l", "shift_r"} # {}

(* What a pressed key is meant to do: what vga_processKey() can do of it,  *)
(* or that keyboardRead() says that it cannot.                             *)
Meant(k) ==
  CASE k = "a"     -> <<IF Shifted \/ capital THEN "A" ELSE "a">>
    [] k = "seven" -> IF Shifted \/ digits THEN <<"7">> ELSE <<>>
    [] k = "up"    -> IF Shifted THEN <<"scroll up">> ELSE <<>>
    [] k \in {"prtscr", "pause"} -> <<"cannot hand">>
    [] OTHER       -> <<>>

(* And a released key: Print Screen is not handled then, either.           *)
MeantOnRelease(k) == IF k = "prtscr" THEN <<"cannot hand">> ELSE <<>>

Free == Len(keyboardIn) + Len(wire) <= Backlog

Press(k) ==
  /\ k \notin down
  /\ Free
  /\ down' = down \cup {k}
  /\ wire' = wire \o Code[k]
  /\ capital' = (capital # (k = "caps"))
  /\ digits' = (digits # (k = "num"))
  /\ expected' = expected \o Meant(k)
  /\ UNCHANGED <<keyboardIn, reader, modifiers, locks>>

Release(k) ==
  /\ k \in down
  /\ Free
  /\ down' = down \ {k}
  /\ wire' = wire \o BreakCode(k)
  /\ expected' = expected \o MeantOnRelease(k)
  /\ UNCHANGED <<keyboardIn, reader, modifiers, locks, capital, digits>>

(* A byte is sent, and keyboardHandler() runs.                             *)
Interrupt ==
  /\ wire # <<>>
  /\ wire' = Tail(wire)
  /\ keyboardIn' = IF Len(keyboardIn) < Size THEN Append(keyboardIn, Head(wire)) ELSE keyboardIn
  /\ UNCHANGED <<reader, modifiers, locks, down, capital, digits, expected>>

-----------------------------------------------------------------------------
(* keyboardRead(), once a code is complete                                 *)

None == "none"

(* The rows of keymap for these keys: without shift, with, after E0.       *)
keymap(row) ==
  CASE row = \h1E -> <<"a", "A", None>>
    [] row = \h47 -> <<"PAD_HOME", "7", "HOME">>
    [] row = \h2A -> <<"SHIFT_L", "SHIFT_L", None>>
    [] row = \h36 -> <<"SHIFT_R", "SHIFT_R", None>>
    [] row = \h48 -> <<"PAD_UP", "8", "UP">>
    [] row = \h3A -> <<"CAPS_LOCK", "CAPS_LOCK", None>>
    [] row = \h45 -> <<"NUM_LOCK", "NUM_LOCK", None>>
    [] OTHER -> <<None, None, None>>

(* In state s of the reader's variables; e0 is code_with_E0.               *)
Column(s, row, e0) ==
  IF e0 = 1 THEN 3
  ELSE IF s.modifiers # {} \/ ("caps_lock" \in s.locks /\ keymap(row)[1] = "a") THEN 2 ELSE 1

(* Mutant: SHIFT_R sets shift_l, as ALT_R does alt_l in the code.          *)
ModifierOneShift(key) ==
  CASE key \in {"SHIFT_L", "SHIFT_R"} -> {"shift_l"}
    [] OTHER -> {}

(* The modifier a key sets and clears.  The variables of the control and   *)
(* alternate keys are left out: vga_processKey() looks at none of them.    *)
Modifier(key) ==
  CASE key = "SHIFT_L" -> {"shift_l"}
    [] key = "SHIFT_R" -> {"shift_r"}
    [] OTHER -> {}

(* The locks a key toggles: the case of CAPS_LOCK has no break and goes on *)
(* into NUM_LOCK.  scroll_lock is left out, nobody reads it.               *)
Toggled(key) ==
  CASE key = "CAPS_LOCK" -> {"caps_lock", "num_lock"}
    [] key = "NUM_LOCK" -> {"num_lock"}
    [] OTHER -> {}

(* The translation of the number pad.                                      *)
Padded(key, lock) ==
  CASE key = "PAD_HOME" -> IF "num_lock" \in lock THEN "7" ELSE "HOME"
    [] key = "PAD_UP" -> IF "num_lock" \in lock THEN "8" ELSE "UP"
    [] OTHER -> key

(* What vga_processKey() does with a key, by the flags of the modifiers.   *)
Done(key, mods) ==
  CASE key \in {"a", "A", "7", "8"} -> <<key>>
    [] key = "UP" -> IF mods # {} THEN <<"scroll up">> ELSE <<>>
    [] OTHER -> <<>>

Idle == [pc |-> "first", i |-> 0]

(* setLED(), called by the case of each lock and by those it falls into,   *)
(* sends two bytes to the keyboard, each of which it acknowledges.         *)
(* keyboardACK() does not wait for that (its condition assigns 0): the     *)
(* acknowledgements come behind what the keyboard has yet to send, as if   *)
(* they were codes of keys.                                                *)
ACK == \hFA

LedCalls(key) ==
  CASE key = "CAPS_LOCK" -> 3
    [] key = "NUM_LOCK" -> 2
    [] OTHER -> 0

Replies(key) == [i \in 1 .. 2 * LedCalls(key) |-> ACK]

(* A code of one byte, or of one byte after E0, read in state s: the state *)
(* after it, what vga_processKey() has done, and the acknowledgements.     *)
Decode(s, code, e0) ==
  LET make == code < \h80
      row  == code % \h80
      key  == keymap(row)[Column(s, row, e0)]
      mods == IF make THEN s.modifiers \cup Modifier(key) ELSE s.modifiers \ Modifier(key)
      lock == IF make THEN (s.locks \ Toggled(key)) \cup (Toggled(key) \ s.locks) ELSE s.locks
  IN  [state   |-> [reader |-> Idle, modifiers |-> mods, locks |-> lock],
       done    |-> IF make THEN Done(Padded(key, lock), mods) ELSE <<>>,
       replies |-> IF make THEN Replies(key) ELSE <<>>]

WaitFor(s, pc, i) ==
  [state |-> [s EXCEPT !.reader = [pc |-> pc, i |-> i]], done |-> <<>>, replies |-> <<>>]

(* Mutant: one byte more is read, as in the comment at keyboard.c:368.     *)
CannotHandAndRead(s) == WaitFor(s, "break", 3)

(* PRINTSCREEN and PAUSEBREAK are recognised and not processed, but for    *)
(* DispStr("cannot hand"): what that does to the screen is Tty.            *)
CannotHand(s) ==
  [state |-> [s EXCEPT !.reader = Idle], done |-> <<"cannot hand">>, replies |-> <<>>]

-----------------------------------------------------------------------------
(* keyboardRead(), byte by byte                                            *)

(* Mutant: E0 is decoded like any other byte.                              *)
FirstWithoutE0(s, byte) ==
  IF byte = \hE1 THEN WaitFor(s, "pause", 2) ELSE Decode(s, byte, 0)

First(s, byte) ==
  CASE byte = \hE1 -> WaitFor(s, "pause", 2)
    [] byte = \hE0 -> WaitFor(s, "e0", 0)
    [] OTHER -> Decode(s, byte, 0)

(* pausebrks_code: at the first byte that differs the sequence is given up *)
(* and E1 itself is decoded.                                               *)
Pause(s, byte) ==
  CASE byte # Code["pause"][s.reader.i] -> Decode(s, \hE1, 0)
    [] s.reader.i < 6 -> WaitFor(s, "pause", s.reader.i + 1)
    [] OTHER -> CannotHand(s)

AfterE0(s, byte) ==
  CASE byte = \h2A -> WaitFor(s, "make", 3)
    [] byte = \hB7 -> WaitFor(s, "break", 3)
    [] OTHER -> Decode(s, byte, 1)

(* prtScr_make_code and prtScr_break_code, likewise.                       *)
PrtScr(s, byte) ==
  LET codes == IF s.reader.pc = "make" THEN Code["prtscr"] ELSE BreakCode("prtscr")
  IN  CASE byte # codes[s.reader.i] -> Decode(s, codes[2], 1)
        [] s.reader.i = 3 -> WaitFor(s, s.reader.pc, 4)
        [] OTHER -> CannotHand(s)

Turn(s, byte) ==
  CASE s.reader.pc = "first" -> First(s, byte)
    [] s.reader.pc = "pause" -> Pause(s, byte)
    [] s.reader.pc = "e0" -> AfterE0(s, byte)
    [] OTHER -> PrtScr(s, byte)

(* The first thing still expected is done, or something else is.           *)
Settle(done) ==
  expected' = IF done = <<>> THEN expected
              ELSE IF expected # <<>> /\ <<Head(expected)>> = done THEN Tail(expected)
              ELSE <<"diverged">>

Now == [reader |-> reader, modifiers |-> modifiers, locks |-> locks]

Read ==
  /\ keyboardIn # <<>>
  /\ keyboardIn' = Tail(keyboardIn)
  /\ \E turn \in {Turn(Now, Head(keyboardIn))} :
       /\ reader' = turn.state.reader
       /\ modifiers' = turn.state.modifiers
       /\ locks' = turn.state.locks
       /\ wire' = wire \o turn.replies
       /\ Settle(turn.done)
  /\ UNCHANGED <<down, capital, digits>>

-----------------------------------------------------------------------------
(* initKeyboard(), whose setLED() is acknowledged, too.                    *)
Init ==
  /\ wire = <<ACK, ACK>> /\ keyboardIn = <<>>
  /\ reader = Idle
  /\ modifiers = {} /\ locks = {"num_lock"}
  /\ down = {} /\ capital = FALSE /\ digits = TRUE
  /\ expected = <<>>

Next == Interrupt \/ Read \/ \E k \in Keys : Press(k) \/ Release(k)

Spec == Init /\ [][Next]_vars

(* The hardware sends what it has to send, and taskTTY, which never        *)
(* blocks, goes on reading.                                                *)
FairSpec == Spec /\ WF_vars(Interrupt) /\ WF_vars(Read)

-----------------------------------------------------------------------------
(* Properties                                                              *)

Quiet == wire = <<>> /\ keyboardIn = <<>> /\ reader = Idle

(* Every key that is pressed does what it is meant to do, by the modifiers *)
(* that were held when it was pressed and not those held when it is read;  *)
(* "cannot hand" is displayed once for every press of Print Screen and     *)
(* Pause and every release of Print Screen; all this in the order of the   *)
(* keys, and nothing else is handed on or displayed (keyboardRead).        *)
InStep == expected # <<"diverged">> /\ (Quiet => expected = <<>>)

(* Once all bytes are read the shift keys are set just as they are held.   *)
ShiftFollows ==
  Quiet => modifiers = down \cap {"shift_l", "shift_r"}

(* taskTTY never waits for ever inside a scan code.                        *)
ReaderBack == reader # Idle ~> reader = Idle
=============================================================================
