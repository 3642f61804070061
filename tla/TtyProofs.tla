----------------------------- MODULE TtyProofs -----------------------------
(***************************************************************************)
(* The consoles for any number of them, of any size, whatever is typed and *)
(* printed in whatever order.                                              *)
(***************************************************************************)
EXTENDS Tty, SequenceTheorems, TLAPS

-----------------------------------------------------------------------------
(* The operators the model is built from                                   *)

LEMMA ConstantFacts ==
  /\ NConsoles \in Nat \ {0} /\ Width \in Nat /\ Height \in Nat /\ MemLimit \in Nat /\ InBytes \in Nat
  /\ Width > 2 /\ ScreenSize \in Nat /\ ScreenSize >= 2 * Width /\ ScreenSize < MemLimit
  /\ 0 \in Consoles /\ Consoles \subseteq Nat
  /\ BootCursor \in Nat /\ BootCursor < ScreenSize
  /\ NoteLength \in Nat /\ NoteLength > 0 /\ GsWords \in Nat
<1>1. /\ NConsoles \in Nat \ {0} /\ Width \in Nat /\ Height \in Nat /\ MemLimit \in Nat /\ InBytes \in Nat
      /\ Width > 2 /\ Height > 1 /\ ScreenSize < MemLimit
  BY TtyAssumption
<1>2. Width * Height \in Nat /\ Width * Height >= Width * 2
  <2>1. PICK h \in Nat : Height = 2 + h
    <3>1. Height - 2 \in Nat /\ Height = 2 + (Height - 2)
      BY <1>1
    <3> QED
      BY <3>1
  <2>2. Width * (2 + h) = Width * 2 + Width * h /\ Width * h \in Nat
    BY <1>1, <2>1
  <2> QED
    BY <1>1, <2>1, <2>2
<1>3. Width * 2 = 2 * Width
  BY <1>1
<1>4. BootCursor \in 0 .. ScreenSize - 1
      /\ NoteLength \in Nat /\ NoteLength > 0 /\ GsWords \in Nat
  BY TtyAssumption
<1> QED
  BY <1>1, <1>2, <1>3, <1>4 DEF ScreenSize, Consoles

(* The memory of a console, and of another one.                            *)
LEMMA MemoryFacts ==
  ASSUME NEW c \in Consoles
  PROVE  /\ memoryAddr(c) \in Nat /\ Limit(c) \in Nat /\ Limit(c) = memoryAddr(c) + MemLimit
         /\ Limit(c) <= NConsoles * MemLimit /\ NConsoles * MemLimit \in Nat
<1>1. c \in Nat /\ MemLimit \in Nat /\ NConsoles \in Nat /\ c + 1 <= NConsoles
  BY ConstantFacts DEF Consoles
<1>2. c * MemLimit \in Nat /\ NConsoles * MemLimit \in Nat
  BY <1>1
<1>3. c * MemLimit + MemLimit <= NConsoles * MemLimit
  <2>1. PICK n \in Nat : NConsoles = (c + 1) + n
    <3>1. NConsoles - (c + 1) \in Nat /\ NConsoles = (c + 1) + (NConsoles - (c + 1))
      BY <1>1
    <3> QED
      BY <3>1
  <2>2. ((c + 1) + n) * MemLimit = (c * MemLimit + MemLimit) + n * MemLimit /\ n * MemLimit \in Nat
    BY <1>1, <2>1
  <2> QED
    BY <1>1, <1>2, <2>1, <2>2
<1> QED
  BY <1>1, <1>2, <1>3 DEF memoryAddr, Limit

LEMMA MemoryApart ==
  ASSUME NEW c \in Consoles, NEW d \in Consoles, c < d
  PROVE  Limit(c) <= memoryAddr(d)
<1>1. c \in Nat /\ d \in Nat /\ MemLimit \in Nat
  BY ConstantFacts
<1>2. PICK n \in Nat : d = (c + 1) + n
  <2>1. d - (c + 1) \in Nat /\ d = (c + 1) + (d - (c + 1))
    BY <1>1
  <2> QED
    BY <2>1
<1>3. ((c + 1) + n) * MemLimit = (c * MemLimit + MemLimit) + n * MemLimit
      /\ n * MemLimit \in Nat /\ c * MemLimit \in Nat
  BY <1>1, <1>2
<1> QED
  BY <1>1, <1>2, <1>3 DEF memoryAddr, Limit

LEMMA OwnerUnique ==
  ASSUME NEW c \in Consoles, NEW d \in Consoles, NEW a \in Int,
         memoryAddr(c) <= a, a < Limit(c), memoryAddr(d) <= a, a < Limit(d)
  PROVE  c = d
<1>1. c \in Nat /\ d \in Nat
  BY ConstantFacts
<1>2. memoryAddr(c) \in Nat /\ memoryAddr(d) \in Nat /\ Limit(c) \in Nat /\ Limit(d) \in Nat
  BY MemoryFacts
<1>3. ~(c < d)
  BY <1>2, MemoryApart
<1>4. ~(d < c)
  BY <1>2, MemoryApart
<1> QED
  BY <1>1, <1>3, <1>4

(* A new line is at most one line further.                                 *)
LEMMA NextLineFacts ==
  ASSUME NEW c \in Consoles, NEW cursor \in Int, cursor >= memoryAddr(c)
  PROVE  NextLine(c, cursor) \in Int /\ cursor < NextLine(c, cursor) /\ NextLine(c, cursor) <= cursor + Width
<1>1. memoryAddr(c) \in Nat /\ Width \in Nat \ {0}
  BY ConstantFacts, MemoryFacts
<1> DEFINE n == cursor - memoryAddr(c)
           q == n \div Width
<1>2. n \in Nat /\ cursor = memoryAddr(c) + n
  BY <1>1
<1> HIDE DEF n
<1>3. q \in Nat /\ Width * q <= n /\ n < Width * q + Width
  BY <1>1, <1>2
<1> HIDE DEF q
<1>4. Width * (q + 1) = Width * q + Width /\ Width * q \in Nat
  BY <1>1, <1>3
<1>5. NextLine(c, cursor) = memoryAddr(c) + Width * (q + 1)
  BY DEF NextLine, n, q
<1>6. PICK w \in Nat : w = Width * q
  BY <1>4
<1>7. NextLine(c, cursor) = memoryAddr(c) + (w + Width) /\ w <= n /\ n < w + Width
  BY <1>3, <1>4, <1>5, <1>6
<1> HIDE DEF NextLine
<1> QED
  BY <1>1, <1>2, <1>6, <1>7

LEMMA MovedInt ==
  ASSUME NEW c \in Consoles, NEW ch, NEW cursor \in Int
  PROVE  Moved(c, ch, cursor) \in Int
<1>1. memoryAddr(c) \in Nat /\ Width \in Nat /\ Width > 2
  BY MemoryFacts, ConstantFacts
<1>2. (cursor - memoryAddr(c)) \div Width \in Int
  BY <1>1
<1>3. \A q \in Int : memoryAddr(c) + Width * (q + 1) \in Int
  BY <1>1
<1>4. NextLine(c, cursor) \in Int
  BY <1>2, <1>3 DEF NextLine
<1> QED
  BY <1>4 DEF Moved

(* outChar moves the cursor forward, by one line at most, but for a        *)
(* backspace.                                                              *)
LEMMA MovedFacts ==
  ASSUME NEW c \in Consoles, NEW ch \in Chars, NEW cursor \in Int, cursor >= memoryAddr(c)
  PROVE  /\ Moved(c, ch, cursor) \in Int
         /\ ch = "backspace" => Moved(c, ch, cursor) = cursor - 1
         /\ ch # "backspace" => cursor < Moved(c, ch, cursor) /\ Moved(c, ch, cursor) <= cursor + Width
         /\ ch = "x" => Moved(c, ch, cursor) = cursor + 1
<1>1. NextLine(c, cursor) \in Int /\ cursor < NextLine(c, cursor) /\ NextLine(c, cursor) <= cursor + Width
  BY NextLineFacts
<1>2. Width \in Nat /\ Width > 2
  BY ConstantFacts
<1> QED
  BY <1>1, <1>2 DEF Moved, Chars

(* Scrolling by a line keeps the screen on the lines of its console.       *)
LEMMA ScrolledFacts ==
  ASSUME NEW c \in Consoles, NEW a \in Int, NEW dir \in {"up", "down"},
         OnLine(c, a), Scrollable(c, dir, a), a + ScreenSize < Limit(c) + 2 * Width
  PROVE  /\ a + ScrolledBy(dir) \in Int /\ OnLine(c, a + ScrolledBy(dir))
         /\ a + ScrolledBy(dir) >= memoryAddr(c)
         /\ a + ScrolledBy(dir) + ScreenSize < Limit(c) + 2 * Width
<1>1. PICK k \in 0 .. MemLimit : a = memoryAddr(c) + Width * k
  BY DEF OnLine
<1>2. /\ Width \in Nat /\ Width > 2 /\ MemLimit \in Nat /\ ScreenSize \in Nat /\ ScreenSize >= 2 * Width
      /\ memoryAddr(c) \in Nat /\ Limit(c) = memoryAddr(c) + MemLimit
  BY ConstantFacts, MemoryFacts
<1>3. Width * k \in Nat /\ Width * (k + 1) = Width * k + Width /\ Width * (k - 1) = Width * k - Width
  BY <1>2
<1>4. k <= Width * k /\ (k > 0 => Width * k >= Width)
  BY <1>2
<1>5. PICK w \in Nat : w = Width * k
  BY <1>3
<1>6. CASE dir = "up"
  <2>1. a > memoryAddr(c) /\ ScrolledBy(dir) = -Width
    BY <1>6 DEF Scrollable, ScrolledBy
  <2>2. k > 0
    <3>1. SUFFICES ASSUME k = 0 PROVE FALSE
      BY <1>1
    <3>2. Width * k = 0
      BY <1>2, <3>1
    <3> QED
      BY <1>1, <1>2, <2>1, <3>2
  <2>3. k - 1 \in 0 .. MemLimit /\ a + (-Width) = memoryAddr(c) + Width * (k - 1)
    <3>1. a + (-Width) = memoryAddr(c) + (w - Width) /\ Width * (k - 1) = w - Width
      BY <1>1, <1>2, <1>3, <1>5
    <3> QED
      BY <1>2, <2>2, <3>1
  <2>4. a + (-Width) >= memoryAddr(c)
    BY <1>1, <1>2, <1>4, <1>5, <2>2
  <2>5. OnLine(c, a + (-Width))
    BY <2>3 DEF OnLine
  <2>6. a + (-Width) + ScreenSize < Limit(c) + 2 * Width
    BY <1>2
  <2> QED
    BY <1>2, <2>1, <2>4, <2>5, <2>6
<1>7. CASE dir = "down"
  <2>1. a + ScreenSize < Limit(c) + Width /\ ScrolledBy(dir) = Width
    BY <1>7 DEF Scrollable, ScrolledBy
  <2>2. w + Width <= MemLimit
    <3>1. memoryAddr(c) + w + ScreenSize < memoryAddr(c) + MemLimit + Width
      BY <1>1, <1>2, <1>5, <2>1
    <3> QED
      BY <1>2, <1>5, <3>1
  <2>3. k + 1 <= MemLimit
    BY <1>2, <1>4, <1>5, <2>2
  <2>4. k + 1 \in 0 .. MemLimit /\ a + Width = memoryAddr(c) + Width * (k + 1)
    <3>1. a + Width = memoryAddr(c) + (w + Width) /\ Width * (k + 1) = w + Width
      BY <1>1, <1>2, <1>3, <1>5
    <3> QED
      BY <1>2, <2>3, <3>1
  <2>5. a + Width >= memoryAddr(c) /\ a + Width + ScreenSize < Limit(c) + 2 * Width
    BY <1>1, <1>2, <1>5, <2>1
  <2>6. OnLine(c, a + Width)
    BY <2>4 DEF OnLine
  <2> QED
    BY <1>2, <2>1, <2>5, <2>6
<1> QED
  BY <1>6, <1>7

(* The terminals take turns.                                               *)
LEMMA NextTtyFact ==
  ASSUME task.tty \in Consoles
  PROVE  NextTty \in Consoles
<1>1. NConsoles \in Nat \ {0} /\ task.tty + 1 \in Nat
  BY TtyAssumption DEF Consoles
<1>2. (task.tty + 1) % NConsoles \in 0 .. NConsoles - 1
  BY <1>1
<1> QED
  BY <1>2 DEF NextTty, Consoles

(* The locals taskTTY starts with.                                         *)
LEMMA IdleFacts ==
  /\ Idle.tty = 0 /\ Idle.cons = 0 /\ Idle.ch = "x" /\ Idle.vm = 0 /\ Idle.tmp = 0
  /\ Idle.dir = "down" /\ Idle.after = "read" /\ Idle.pc = "read" /\ 0 \in Consoles
  BY ConstantFacts DEF Idle

-----------------------------------------------------------------------------
(* The variables keep their types.                                         *)

(* What the locals of taskTTY become.                                      *)
LEMMA TaskTypes ==
  ASSUME task \in Tasks
  PROVE  /\ Idle \in Tasks
         /\ \A pc \in Pcs, vm \in Int : [task EXCEPT !.pc = pc, !.vm = vm] \in Tasks
         /\ \A vm \in Int : [task EXCEPT !.vm = vm] \in Tasks
         /\ [Idle EXCEPT !.tty = NextTty] \in Tasks
         /\ [Idle EXCEPT !.tty = task.tty, !.pc = "write"] \in Tasks
         /\ \A pc \in Pcs : [task EXCEPT !.pc = pc] \in Tasks
         /\ \A pc \in Pcs, tmp \in Int : [task EXCEPT !.pc = pc, !.tmp = tmp] \in Tasks
         /\ \A c \in Consoles : \A after \in {"read", "write", "full", "select"} :
              /\ Shows(c, after) \in Tasks
              /\ \A dir \in {"up", "down"} : Scrolls(c, dir, after) \in Tasks
<1>1. 0 \in Consoles /\ "x" \in Chars /\ NextTty \in Consoles /\ {"cursor", "scroll", "write", "read"} \subseteq Pcs
  BY NextTtyFact, ConstantFacts DEF Chars, Pcs, Scrolling, Flushing, Tasks
<1>2. Idle \in Tasks
  BY <1>1 DEF Tasks, Idle
<1>3. /\ [Idle EXCEPT !.tty = NextTty] \in Tasks
      /\ [Idle EXCEPT !.tty = task.tty, !.pc = "write"] \in Tasks
  BY <1>1, <1>2 DEF Tasks
<1>4. /\ \A pc \in Pcs : [task EXCEPT !.pc = pc] \in Tasks
      /\ \A pc \in Pcs, tmp \in Int : [task EXCEPT !.pc = pc, !.tmp = tmp] \in Tasks
      /\ \A pc \in Pcs, vm \in Int : [task EXCEPT !.pc = pc, !.vm = vm] \in Tasks
      /\ \A vm \in Int : [task EXCEPT !.vm = vm] \in Tasks
  BY DEF Tasks
<1>5. ASSUME NEW c \in Consoles, NEW after \in {"read", "write", "full", "select"}
      PROVE  /\ Shows(c, after) \in Tasks
             /\ \A dir \in {"up", "down"} : Scrolls(c, dir, after) \in Tasks
  BY <1>1, <1>2 DEF Tasks, Shows, Scrolls
<1> QED
  BY <1>2, <1>3, <1>4, <1>5

LEMMA InitType == Init => TypeOK
<1> SUFFICES ASSUME Init PROVE TypeOK
  OBVIOUS
<1>1. \A c \in Consoles : memoryAddr(c) \in Int /\ memoryAddr(c) + Width \in Int
  BY ConstantFacts, MemoryFacts
<1>2. startAddr \in [Consoles -> Int] /\ currentCursor \in [Consoles -> Int]
  BY <1>1, ConstantFacts DEF Init
<1>3. /\ indexCurrentConsole \in Consoles /\ crtc \in [cursor : Int, start : Int]
      /\ cells \in [Address -> {Blank, "boot", "print", "key", "note"}] /\ Cursor \in Nat
      /\ in_buf \in [Consoles -> Seq(Chars)]
  BY ConstantFacts DEF Init
<1>4. print = NotPrinting /\ task = Idle
  BY DEF Init
<1>5. "x" \in Chars /\ <<>> \in Seq(Chars \ {"backspace"}) /\ 0 \in Consoles
  BY ConstantFacts DEF Chars
<1>6. task \in Tasks
  BY <1>4, <1>5 DEF Idle, Tasks, Pcs, Scrolling
<1> QED
  BY <1>2, <1>3, <1>4, <1>5, <1>6 DEF TypeOK, NotPrinting

(* DispStr, with its cursor and the local in which it counts.              *)
NoteStep == CannotHand \/ DispChar \/ DispDone

LEMMA NoteSteps ==
  ASSUME TypeOK, NoteStep
  PROVE  /\ UNCHANGED <<startAddr, currentCursor, indexCurrentConsole, crtc, in_buf, print>>
         /\ task.pc \in {"read", "disp"} /\ task' \in Tasks
         /\ \/ task.pc = "read" /\ task'.pc = "disp" /\ task'.vm = Cursor
               /\ UNCHANGED <<Cursor, cells>>
            \/ /\ task.pc = "disp" /\ task.vm < Cursor + NoteLength
               /\ task'.pc = "disp" /\ task'.vm = task.vm + 1
               /\ cells' = [cells EXCEPT ![task.vm] = "note"] /\ UNCHANGED Cursor
            \/ task.pc = "disp" /\ task'.pc = "fault" /\ task'.vm = task.vm
               /\ UNCHANGED <<Cursor, cells>>
            \/ /\ task.pc = "disp" /\ task'.pc = "write"
               /\ Cursor' = task.vm /\ Cursor' \in Nat /\ UNCHANGED cells
<1> USE DEF At, Goto, screen
<1>1. /\ task \in Tasks /\ task.vm \in Int /\ task.vm + 1 \in Int /\ Cursor \in Nat /\ Cursor \in Int
      /\ Cursor + NoteLength \in Nat
  BY ConstantFacts DEF TypeOK, Tasks
<1>2. {"disp", "fault", "write"} \subseteq Pcs
  BY DEF Pcs
<1>3. CASE CannotHand
  <2>1. task' = [task EXCEPT !.pc = "disp", !.vm = Cursor] /\ task.pc = "read"
        /\ UNCHANGED <<screen, in_buf, print>>
    BY <1>3 DEF CannotHand
  <2>2. task' \in Tasks
    BY <1>1, <1>2, <2>1, TaskTypes
  <2>3. task'.pc = "disp" /\ task'.vm = Cursor
    BY <1>1, <2>1 DEF Tasks
  <2> QED
    BY <2>1, <2>2, <2>3
<1>4. CASE DispChar
  <2>1. /\ task.pc = "disp" /\ task.vm < Cursor + NoteLength
        /\ UNCHANGED <<startAddr, currentCursor, indexCurrentConsole, Cursor, crtc, in_buf, print>>
        /\ \/ /\ task' = [task EXCEPT !.vm = task.vm + 1]
              /\ cells' = [cells EXCEPT ![task.vm] = "note"]
           \/ task' = [task EXCEPT !.pc = "fault"] /\ UNCHANGED cells
    BY <1>4 DEF DispChar
  <2>2. task' \in Tasks
    BY <1>1, <1>2, <2>1, TaskTypes
  <2>3. CASE task' = [task EXCEPT !.vm = task.vm + 1] /\ cells' = [cells EXCEPT ![task.vm] = "note"]
    <3>1. task'.pc = "disp" /\ task'.vm = task.vm + 1
      BY <1>1, <2>1, <2>3 DEF Tasks
    <3> QED
      BY <2>1, <2>2, <2>3, <3>1
  <2>4. CASE task' = [task EXCEPT !.pc = "fault"] /\ UNCHANGED cells
    <3>1. task'.pc = "fault" /\ task'.vm = task.vm
      BY <1>1, <2>4 DEF Tasks
    <3> QED
      BY <2>1, <2>2, <2>4, <3>1
  <2> QED
    BY <2>1, <2>3, <2>4
<1>5. CASE DispDone
  <2>1. /\ task.pc = "disp" /\ task.vm = Cursor + NoteLength /\ Cursor' = task.vm
        /\ task' = [Idle EXCEPT !.tty = task.tty, !.pc = "write"]
        /\ UNCHANGED <<startAddr, currentCursor, indexCurrentConsole, cells, crtc, in_buf, print>>
    BY <1>5 DEF DispDone
  <2>2. task' \in Tasks
    BY <1>1, <2>1, TaskTypes
  <2>3. task'.pc = "write"
    BY <2>1 DEF Idle
  <2>4. Cursor' \in Nat
    BY <1>1, <2>1
  <2> QED
    BY <2>1, <2>2, <2>3, <2>4
<1> QED
  BY <1>3, <1>4, <1>5 DEF NoteStep

(* No other step begins or ends a note.                                    *)
LEMMA NoNoteSteps ==
  ASSUME TypeOK, TtyStep, ~NoteStep
  PROVE  /\ UNCHANGED Cursor
         /\ task.pc \notin {"disp", "fault"} /\ task'.pc \notin {"disp", "fault"}
<1> USE DEF At, Goto, screen, TypeOK, Tasks
<1>1. CASE NoKey \/ \E k \in Keys \cap Chars : TypeChar(k)
  BY <1>1 DEF NoKey, TypeChar
<1>2. CASE (\E k \in Keys \cap {"up", "down"} : TypeScroll(k)) \/ \E i \in Selected : TypeSelect(i)
  BY <1>2 DEF TypeScroll, TypeSelect, Scrolls, Shows, Idle
<1>3. CASE Write
  <2>1. \/ task' = [Idle EXCEPT !.tty = NextTty]
        \/ task' = [task EXCEPT !.pc = "guard", !.cons = task.tty,
                                !.ch = Head(in_buf[task.tty]), !.vm = currentCursor[task.tty]]
    BY <1>3 DEF Write
  <2> QED
    BY <1>3, <2>1 DEF Write, Idle
<1>4. CASE Guard \/ Put \/ Load \/ Store \/ Erase
  BY <1>4 DEF Guard, Put, Load, Store, Erase
<1>5. CASE Full
  <2>1. task' = Scrolls(task.cons, "down", "full") \/ task' = Shows(task.cons, "select")
    BY <1>5 DEF Full
  <2> QED
    BY <1>5, <2>1 DEF Full, Scrolls, Shows, Idle
<1>6. CASE Scroll
  <2>1. task' = [task EXCEPT !.pc = "line"] \/ task' = Shows(task.cons, task.after)
    BY <1>6 DEF Scroll
  <2> QED
    BY <1>6, <2>1 DEF Scroll, Shows, Idle
<1>7. CASE ScrollLoad \/ ReadCursor \/ setCursor \/ ReadStart
  BY <1>7 DEF ScrollLoad, ReadCursor, setCursor, ReadStart
<1>8. CASE ScrollStore \/ Reselect
  BY <1>8 DEF ScrollStore, Reselect, Shows, Idle
<1>9. CASE setVideoStartAddr
  <2>1. \/ task' = [Idle EXCEPT !.tty = NextTty]
        \/ task' = [Idle EXCEPT !.tty = task.tty, !.pc = "write"]
        \/ task.after \in {"full", "select"} /\ task' = [task EXCEPT !.pc = task.after]
    BY <1>9 DEF setVideoStartAddr
  <2> QED
    BY <1>9, <2>1 DEF setVideoStartAddr, Idle
<1> QED
  BY <1>1, <1>2, <1>3, <1>4, <1>5, <1>6, <1>7, <1>8, <1>9 DEF TtyStep, NoteStep

LEMMA TypeNote ==
  ASSUME TypeOK, NoteStep
  PROVE  TypeOK'
<1>1. UNCHANGED <<startAddr, currentCursor, indexCurrentConsole, crtc, in_buf, print>> /\ task' \in Tasks
  BY NoteSteps
<1>2. Cursor' \in Nat
  BY NoteSteps DEF TypeOK
<1>3. cells' \in [Address -> {Blank, "boot", "print", "key", "note"}]
  <2>1. cells' = cells \/ cells' = [cells EXCEPT ![task.vm] = "note"]
    BY NoteSteps
  <2> QED
    BY <2>1 DEF TypeOK
<1> QED
  BY <1>1, <1>2, <1>3 DEF TypeOK

LEMMA TypeTty ==
  ASSUME TypeOK, TtyStep
  PROVE  TypeOK'
<1> USE DEF At, Goto, screen
<1>1. /\ task \in Tasks /\ task.tty \in Consoles /\ task.cons \in Consoles /\ task.ch \in Chars
      /\ task.vm \in Int /\ task.tmp \in Int /\ task.dir \in {"up", "down"}
      /\ task.after \in {"read", "write", "full", "select"}
      /\ task.after \in {"full", "select"} => task.after \in Pcs
  BY DEF TypeOK, Tasks, Pcs
<1>2. {"read", "write", "guard", "put", "load", "store", "erase", "full", "select", "line", "move",
       "cursor", "set_cursor", "start", "set_start"} \subseteq Pcs
  BY DEF Pcs, Scrolling, Flushing
<1>3. \A c \in Consoles : startAddr[c] \in Int /\ currentCursor[c] \in Int
  BY DEF TypeOK
<1>4. CASE UNCHANGED <<screen, in_buf, print>> /\ task' \in Tasks
  BY <1>4 DEF TypeOK
<1>5. CASE NoKey
  BY <1>1, <1>2, <1>4, <1>5, TaskTypes DEF NoKey
<1>6. ASSUME NEW k \in Keys \cap Chars, TypeChar(k)
      PROVE  TypeOK'
  <2>1. in_buf' \in [Consoles -> Seq(Chars)]
    BY <1>1, <1>6 DEF TypeChar, TypeOK
  <2>2. task' \in Tasks
    BY <1>1, <1>2, <1>6, TaskTypes DEF TypeChar
  <2> QED
    BY <1>6, <2>1, <2>2 DEF TypeChar, TypeOK
<1>7. ASSUME NEW k \in Keys \cap {"up", "down"}, TypeScroll(k)
      PROVE  TypeOK'
  BY <1>1, <1>4, <1>7, TaskTypes DEF TypeScroll
<1>8. ASSUME NEW i \in Selected, TypeSelect(i)
      PROVE  TypeOK'
  <2>1. i \in Consoles
    BY TtyAssumption
  <2>2. task' \in Tasks
    BY <1>1, <1>8, <2>1, TaskTypes DEF TypeSelect
  <2> QED
    BY <1>8, <2>1, <2>2 DEF TypeSelect, TypeOK
<1>9. CASE Write
  <2>1. CASE in_buf[task.tty] = <<>>
    BY <1>1, <1>4, <1>9, <2>1, TaskTypes DEF Write
  <2>2. CASE in_buf[task.tty] # <<>>
    <3>1. in_buf[task.tty] \in Seq(Chars) /\ in_buf \in [Consoles -> Seq(Chars)]
      BY <1>1 DEF TypeOK
    <3>2. Head(in_buf[task.tty]) \in Chars /\ Tail(in_buf[task.tty]) \in Seq(Chars)
      BY <2>2, <3>1
    <3>3. in_buf' \in [Consoles -> Seq(Chars)]
      BY <1>9, <2>2, <3>1, <3>2 DEF Write
    <3>4. task' \in Tasks
      BY <1>1, <1>2, <1>3, <1>9, <2>2, <3>2 DEF Write, Tasks
    <3> QED
      BY <1>9, <3>3, <3>4 DEF Write, TypeOK
  <2> QED
    BY <2>1, <2>2
<1>10. CASE Guard
  BY <1>1, <1>2, <1>4, <1>10, TaskTypes DEF Guard
<1>11. CASE Put
  <2>1. task' \in Tasks
    BY <1>1, <1>2, <1>11, TaskTypes DEF Put
  <2> QED
    BY <1>11, <2>1 DEF Put, TypeOK
<1>12. CASE Load
  <2>1. task' \in Tasks
    BY <1>1, <1>2, <1>3, <1>12 DEF Load, Tasks
  <2> QED
    BY <1>4, <1>12, <2>1 DEF Load
<1>13. CASE Store
  <2>1. Moved(task.cons, task.ch, task.tmp) \in Int
    BY <1>1, MovedInt
  <2>2. task' \in Tasks
    BY <1>1, <1>2, <1>13, TaskTypes DEF Store
  <2>3. currentCursor' \in [Consoles -> Int]
    BY <1>1, <1>13, <2>1 DEF Store, TypeOK
  <2> QED
    BY <1>13, <2>2, <2>3 DEF Store, TypeOK
<1>14. CASE Erase
  <2>1. task' \in Tasks
    BY <1>1, <1>2, <1>14, TaskTypes DEF Erase
  <2> QED
    BY <1>14, <2>1 DEF Erase, TypeOK
<1>15. CASE Full
  BY <1>1, <1>4, <1>15, TaskTypes DEF Full
<1>16. CASE Scroll
  <2>1. task' = [task EXCEPT !.pc = "line"] \/ task' = Shows(task.cons, task.after)
    BY <1>16 DEF Scroll
  <2>2. task' \in Tasks
    BY <1>1, <1>2, <2>1, TaskTypes
  <2> QED
    BY <1>4, <1>16, <2>2 DEF Scroll
<1>17. CASE ScrollLoad
  <2>1. task' \in Tasks
    BY <1>1, <1>2, <1>3, <1>17 DEF ScrollLoad, Tasks
  <2> QED
    BY <1>4, <1>17, <2>1 DEF ScrollLoad
<1>18. CASE ScrollStore
  <2>1. task.tmp + ScrolledBy(task.dir) \in Int
    BY <1>1, ConstantFacts DEF ScrolledBy
  <2>2. task' \in Tasks
    <3>1. task' = Shows(task.cons, task.after)
      BY <1>18 DEF ScrollStore
    <3> QED
      BY <1>1, <3>1, TaskTypes
  <2>3. startAddr' \in [Consoles -> Int]
    BY <1>1, <1>18, <2>1 DEF ScrollStore, TypeOK
  <2> QED
    BY <1>18, <2>2, <2>3 DEF ScrollStore, TypeOK
<1>19. CASE Reselect
  <2>1. indexCurrentConsole \in Consoles
    BY DEF TypeOK
  <2> QED
    BY <1>1, <1>4, <1>19, <2>1, TaskTypes DEF Reselect
<1>20. CASE ReadCursor
  <2>1. task' \in Tasks
    <3>1. currentCursor[task.cons] \in Int
      BY <1>1, <1>3
    <3> QED
      BY <1>1, <1>2, <1>20, <3>1 DEF ReadCursor, Tasks
  <2> QED
    BY <1>4, <1>20, <2>1 DEF ReadCursor
<1>21. CASE setCursor
  <2>1. task' \in Tasks
    <3>1. PICK z \in Int : z = 0
      OBVIOUS
    <3>2. task' = [task EXCEPT !.pc = "start", !.tmp = z] /\ "start" \in Pcs
      BY <1>2, <1>21, <3>1 DEF setCursor
    <3> QED
      BY <1>1, <3>2, TaskTypes
  <2> QED
    BY <1>1, <1>21, <2>1 DEF setCursor, TypeOK
<1>22. CASE ReadStart
  <2>1. task' \in Tasks
    BY <1>1, <1>2, <1>3, <1>22 DEF ReadStart, Tasks
  <2> QED
    BY <1>4, <1>22, <2>1 DEF ReadStart
<1>23. CASE setVideoStartAddr
  <2>1. task' \in Tasks
    <3>1. \/ task' = [Idle EXCEPT !.tty = NextTty]
          \/ task' = [Idle EXCEPT !.tty = task.tty, !.pc = "write"]
          \/ task.after \in Pcs /\ task' = [task EXCEPT !.pc = task.after]
      BY <1>1, <1>23 DEF setVideoStartAddr
    <3> QED
      BY <3>1, TaskTypes, <1>1
  <2> QED
    BY <1>1, <1>23, <2>1 DEF setVideoStartAddr, TypeOK
<1> QED
  BY <1>5, <1>6, <1>7, <1>8, <1>9, <1>10, <1>11, <1>12, <1>13, <1>14, <1>15,
     <1>16, <1>17, <1>18, <1>19, <1>20, <1>21, <1>22, <1>23, TypeNote DEF TtyStep, NoteStep

LEMMA TypeKernel ==
  ASSUME TypeOK, KernelStep \/ \E c \in Printed, s \in Strings : sys_printx(c, s)
  PROVE  TypeOK'
<1> USE DEF TypeOK, screen
<1>1. Printed \subseteq Consoles /\ \A s \in Strings : s \in Seq(Chars \ {"backspace"}) /\ s # <<>>
  BY TtyAssumption
<1>2. CASE PrintChar
  <2>1. /\ currentCursor' \in [Consoles -> Int]
        /\ cells' \in [Address -> {Blank, "boot", "print", "key", "note"}]
    <3> DEFINE c == print.cons
               ch == Head(print.rest)
    <3>1. c \in Consoles /\ currentCursor[c] \in Int
      OBVIOUS
    <3> HIDE DEF c, ch
    <3>3. Moved(c, ch, currentCursor[c]) \in Int
      BY <3>1, MovedInt
    <3>4. /\ \/ currentCursor' = [currentCursor EXCEPT ![c] = Moved(c, ch, @)]
             \/ UNCHANGED currentCursor
          /\ cells' = [cells EXCEPT ![currentCursor[c]] = "print"] \/ UNCHANGED cells
      BY <1>2 DEF PrintChar, c, ch
    <3> QED
      BY <3>3, <3>4
  <2> QED
    BY <1>2, <2>1 DEF PrintChar
<1>3. CASE PrintScroll
  <2>1. startAddr' \in [Consoles -> Int]
    <3>1. \/ UNCHANGED startAddr
          \/ startAddr' = [startAddr EXCEPT ![print.cons] = @ + Width]
      BY <1>3 DEF PrintScroll
    <3> QED
      BY <3>1, ConstantFacts
  <2>2. crtc' \in [cursor : Int, start : Int]
    BY <1>3, <2>1 DEF PrintScroll
  <2> QED
    BY <1>3, <2>1, <2>2 DEF PrintScroll
<1>4. CASE PrintDone
  <2>1. Tail(print.rest) \in Seq(Chars \ {"backspace"})
    BY <1>4 DEF PrintDone
  <2>2. print' = NotPrinting \/ print' = [print EXCEPT !.pc = "char", !.rest = Tail(@)]
    BY <1>4 DEF PrintDone
  <2>3. <<>> \in Seq(Chars \ {"backspace"}) /\ 0 \in Consoles
    BY ConstantFacts
  <2>4. print'.pc # "idle" => print'.cons \in Printed /\ print'.rest # <<>>
    BY <1>4 DEF PrintDone, NotPrinting
  <2> QED
    BY <1>4, <2>1, <2>2, <2>3, <2>4 DEF PrintDone, NotPrinting
<1>5. ASSUME NEW c \in Printed, NEW s \in Strings, sys_printx(c, s)
      PROVE  TypeOK'
  BY <1>1, <1>5 DEF sys_printx
<1> QED
  BY <1>2, <1>3, <1>4, <1>5 DEF KernelStep

LEMMA TypeInductive == TypeOK /\ [Next]_vars => TypeOK'
<1>1. TypeOK /\ UNCHANGED vars => TypeOK'
  BY DEF TypeOK, vars
<1> QED
  BY <1>1, TypeTty, TypeKernel DEF Next

(* The variables of Tty have their types: no cursor or register is ever    *)
(* outside the numbers, and a string that is printed is not empty.         *)
THEOREM TtyTyped == Spec => []TypeOK
  BY InitType, TypeInductive, PTL DEF Spec

-----------------------------------------------------------------------------
(* The keys between ttyRead and ttyWrite.                                  *)

LEMMA KeysTypeChar ==
  ASSUME TypeOK, KeysInv, NEW k \in Keys \cap Chars, TypeChar(k)
  PROVE  KeysInv'
<1>1. /\ task.pc = "read" /\ task' = [task EXCEPT !.pc = "write"]
      /\ task.tty \in Consoles /\ task.tty \in Typed /\ k \in Chars
      /\ \A t \in Consoles : in_buf[t] = <<>>
      /\ in_buf \in [Consoles -> Seq(Chars)]
  BY DEF TypeChar, At, Goto, KeysInv, TypeOK, Tasks
<1>2. task'.pc = "write" /\ task'.tty = task.tty
  BY <1>1 DEF TypeOK, Tasks
<1>3. in_buf' = [in_buf EXCEPT ![task.tty] = Append(@, k)]
  BY <1>1, ConstantFacts, TtyAssumption DEF TypeChar
<1>4. in_buf'[task.tty] = Append(in_buf[task.tty], k) /\ in_buf[task.tty] = <<>>
  BY <1>1, <1>3
<1>5. Len(in_buf'[task.tty]) = 1
  BY <1>1, <1>4
<1> QED
  BY <1>1, <1>2, <1>3, <1>5 DEF KeysInv

(* ttyWrite takes the key it finds, before ttyRead is called again.        *)
LEMMA KeysWrite ==
  ASSUME TypeOK, KeysInv, Write
  PROVE  KeysInv'
<1>1. /\ task.tty \in Consoles
      /\ in_buf \in [Consoles -> Seq(Chars)]
      /\ \A t \in Consoles \ {task.tty} : in_buf[t] = <<>>
  BY DEF Write, At, KeysInv, TypeOK, Tasks
<1>2. CASE in_buf[task.tty] = <<>>
  BY <1>1, <1>2 DEF KeysInv, Write
<1>3. CASE in_buf[task.tty] # <<>>
  <2>1. in_buf' = [in_buf EXCEPT ![task.tty] = Tail(@)]
    BY <1>3 DEF Write
  <2>2. Tail(in_buf[task.tty]) = <<>>
    <3> DEFINE s == in_buf[task.tty]
    <3>1. s \in Seq(Chars) /\ s # <<>> /\ Len(s) = 1
      BY <1>1, <1>3 DEF KeysInv
    <3> HIDE DEF s
    <3>2. Tail(s) \in Seq(Chars) /\ Len(Tail(s)) = 0
      BY <3>1, HeadTailProperties
    <3>3. Tail(s) = <<>>
      BY <3>2, EmptySeq
    <3> QED
      BY <3>3 DEF s
  <2>3. \A t \in Consoles : in_buf'[t] = <<>>
    BY <1>1, <2>1, <2>2
  <2> QED
    BY <2>3 DEF KeysInv
<1> QED
  BY <1>2, <1>3

(* Every other step finds the buffers empty, or leaves taskTTY where it is.*)
LEMMA KeysInductive == TypeOK /\ KeysInv /\ [Next]_vars => KeysInv'
<1> SUFFICES ASSUME TypeOK, KeysInv, [Next]_vars PROVE KeysInv'
  OBVIOUS
<1>1. CASE TtyStep /\ task.pc # "write" /\ UNCHANGED in_buf
  <2>1. \A t \in Consoles : in_buf'[t] = <<>>
    BY <1>1 DEF KeysInv
  <2> QED
    BY <2>1 DEF KeysInv
<1>2. CASE UNCHANGED <<in_buf, task>>
  BY <1>2 DEF KeysInv
<1>3. KernelStep \/ (\E c \in Printed, s \in Strings : sys_printx(c, s)) \/ UNCHANGED vars
        => UNCHANGED <<in_buf, task>>
  BY DEF KernelStep, PrintChar, PrintScroll, PrintDone, sys_printx, vars
<1>4. ASSUME TtyStep, ~Write, \A k \in Keys \cap Chars : ~TypeChar(k)
      PROVE  task.pc # "write" /\ UNCHANGED in_buf
  BY <1>4, NoteSteps DEF NoteStep, TtyStep, NoKey, TypeScroll, TypeSelect, Guard, Put, Load, Store, Erase, Full, Scroll,
         ScrollLoad, ScrollStore, Reselect, ReadCursor, setCursor, ReadStart, setVideoStartAddr, At
<1> QED
  BY <1>1, <1>2, <1>3, <1>4, KeysTypeChar, KeysWrite DEF Next

(* Whenever taskTTY is about to read a key no buffer holds one: in_buf is  *)
(* never full (ttyRead, ttyWrite), however short it is, whatever console   *)
(* is selected and whatever is printed in between.                         *)
THEOREM KeysAlwaysDrained == Spec => []KeysDrained
<1>1. Init => KeysInv
  BY DEF Init, KeysInv
<1>2. TypeOK /\ KeysInv => KeysDrained
  BY DEF TypeOK, KeysInv, KeysDrained
<1> QED
  BY <1>1, <1>2, TtyTyped, KeysInductive, PTL DEF Spec

-----------------------------------------------------------------------------
(* The screens and cursors stay near the memory of their consoles.         *)

LEMMA ShowsFacts ==
  ASSUME NEW c, NEW after
  PROVE  /\ Shows(c, after).pc = "cursor" /\ Shows(c, after).cons = c
         /\ Shows(c, after).after = after
         /\ \A dir : /\ Scrolls(c, dir, after).pc = "scroll" /\ Scrolls(c, dir, after).cons = c
                     /\ Scrolls(c, dir, after).dir = dir /\ Scrolls(c, dir, after).after = after
  BY DEF Shows, Scrolls, Idle

LEMMA InitScreen == Init => ScreenInv
<1> SUFFICES ASSUME Init PROVE ScreenInv
  OBVIOUS
<1>1. task.pc = "read"
  BY IdleFacts DEF Init
<1>2. LoadsBounded
  BY <1>1 DEF LoadsBounded
<1>3. ASSUME NEW c \in Consoles
      PROVE  Bounded(c)
  <2>1. startAddr[c] = memoryAddr(c) /\ currentCursor[c] \in {BootCursor, memoryAddr(c) + Width}
        /\ (c = 0 => currentCursor[c] = BootCursor)
        /\ (c # 0 => currentCursor[c] = memoryAddr(c) + Width)
    BY DEF Init
  <2>2. memoryAddr(c) \in Nat /\ Limit(c) = memoryAddr(c) + MemLimit /\ (c = 0 => memoryAddr(c) = 0)
    BY MemoryFacts, ConstantFacts DEF memoryAddr
  <2>3. OnLine(c, startAddr[c])
    <3>1. 0 \in 0 .. MemLimit /\ memoryAddr(c) = memoryAddr(c) + Width * 0
      BY ConstantFacts, <2>2
    <3> QED
      BY <2>1, <3>1 DEF OnLine
  <2>4. /\ startAddr[c] + ScreenSize < Limit(c) + 2 * Width
        /\ currentCursor[c] >= memoryAddr(c) /\ currentCursor[c] <= Limit(c) + 2 * Width - 2
    BY <2>1, <2>2, ConstantFacts
  <2> QED
    BY <2>3, <2>4 DEF Bounded
<1> QED
  BY <1>2, <1>3 DEF ScreenInv

(* A step that moves no screen and no cursor.                              *)
LEMMA ScreenFrame ==
  ASSUME ScreenInv, UNCHANGED <<startAddr, currentCursor, print>>, LoadsBounded',
         \A c \in Consoles : \/ TaskInTail(c) => TaskInTail(c)'
                            \/ currentCursor[c] <= Limit(c) + 2 * Width - 2
  PROVE  ScreenInv'
  BY DEF ScreenInv, Bounded, KernelInTail

(* Outside outChar, and where the kernel does not print, a cursor is at    *)
(* most two lines too far.                                                 *)
LEMMA CursorAtRest ==
  ASSUME TypeOK, ScreenInv, NEW c \in Consoles, ~TaskInTail(c), ~KernelInTail(c)
  PROVE  /\ currentCursor[c] \in Int /\ startAddr[c] \in Int
         /\ memoryAddr(c) <= currentCursor[c] /\ currentCursor[c] <= Limit(c) + 2 * Width - 2
  BY DEF ScreenInv, Bounded, TypeOK

(* The steps of taskTTY that are not in outChar, or do not leave it.       *)
LEMMA ScreenOther ==
  ASSUME TypeOK, ScreenInv,
         \/ NoKey \/ \E k \in Keys \cap Chars : TypeChar(k)
         \/ \E k \in Keys \cap {"up", "down"} : TypeScroll(k)
         \/ \E i \in Selected : TypeSelect(i)
         \/ Write \/ Erase \/ Reselect \/ ReadCursor \/ setCursor \/ ReadStart \/ setVideoStartAddr
         \/ NoteStep
  PROVE  ScreenInv'
<1>1. UNCHANGED <<startAddr, currentCursor, print>>
  BY NoteSteps DEF NoKey, TypeChar, TypeScroll, TypeSelect, Write, Erase, Reselect, ReadCursor, setCursor,
         ReadStart, setVideoStartAddr, screen
<1>2. /\ task'.pc \notin {"line", "move", "put", "load", "store"}
      /\ \/ task.pc \in {"read", "disp", "write", "erase", "select"}
         \/ /\ task.pc \in Flushing /\ task'.cons = task.cons /\ task'.after = task.after
            /\ task'.pc \in Scrolling
         \/ task.pc = "set_start" /\ task.after # "full"
         \/ /\ task.pc = "set_start" /\ task'.cons = task.cons /\ task'.pc = "full"
  <2> USE ShowsFacts, IdleFacts DEF At, Goto, TypeOK, Tasks
  <2>1. ASSUME NoKey \/ \E k \in Keys \cap Chars : TypeChar(k)
        PROVE  task.pc = "read" /\ task'.pc = "write"
    BY <2>1 DEF NoKey, TypeChar
  <2>2. ASSUME NEW k \in Keys, TypeScroll(k)
        PROVE  task.pc = "read" /\ task'.pc = "scroll"
    BY <2>2 DEF TypeScroll, Scrolls, Idle
  <2>3. ASSUME NEW i \in Selected, TypeSelect(i)
        PROVE  task.pc = "read" /\ task'.pc = "cursor"
    BY <2>3 DEF TypeSelect
  <2>4. ASSUME Write
        PROVE  task.pc = "write" /\ task'.pc \in {"read", "guard"}
    <3>1. \/ task' = [Idle EXCEPT !.tty = NextTty]
          \/ task' = [task EXCEPT !.pc = "guard", !.cons = task.tty,
                                  !.ch = Head(in_buf[task.tty]), !.vm = currentCursor[task.tty]]
      BY <2>4 DEF Write
    <3> QED
      BY <2>4, <3>1 DEF Write, Idle
  <2>5. ASSUME Erase
        PROVE  task.pc = "erase" /\ task'.pc = "full"
    BY <2>5 DEF Erase
  <2>6. ASSUME Reselect
        PROVE  task.pc = "select" /\ task'.pc = "cursor"
    BY <2>6 DEF Reselect, Shows, Idle
  <2>7. ASSUME ReadCursor \/ setCursor \/ ReadStart
        PROVE  /\ task.pc \in Flushing /\ task'.cons = task.cons /\ task'.after = task.after
               /\ task'.pc \in {"set_cursor", "start", "set_start"}
    BY <2>7 DEF ReadCursor, setCursor, ReadStart, Flushing
  <2>8. ASSUME setVideoStartAddr
        PROVE  /\ task.pc = "set_start"
               /\ \/ task.after # "full" /\ task'.pc \in {"read", "write", "select"}
                  \/ task'.cons = task.cons /\ task'.pc = "full"
    BY <2>8 DEF setVideoStartAddr, Idle
  <2>9. ASSUME NoteStep
        PROVE  task.pc \in {"read", "disp"} /\ task'.pc \in {"disp", "fault", "write"}
    BY <2>9, NoteSteps
  <2> QED
    BY <2>1, <2>2, <2>3, <2>4, <2>5, <2>6, <2>7, <2>8, <2>9 DEF Scrolling, Flushing
<1>3. LoadsBounded'
  BY <1>2 DEF LoadsBounded
<1>4. ASSUME NEW c \in Consoles, TaskInTail(c)
      PROVE  TaskInTail(c)'
  BY <1>2, <1>4 DEF TaskInTail, Scrolling, Flushing
<1> QED
  BY <1>1, <1>3, <1>4, ScreenFrame

(* The switch of outChar: the condition and the steps up to the store.     *)
LEMMA ScreenGuard ==
  ASSUME TypeOK, ScreenInv, Guard
  PROVE  ScreenInv'
<1>1. /\ task.pc = "guard" /\ UNCHANGED <<startAddr, currentCursor, print>>
      /\ task'.cons = task.cons /\ task'.ch = task.ch /\ task.ch \in Chars
      /\ task'.pc \in {"full", "put", "load"}
      /\ task'.pc = "put" => task.ch = "x"
      /\ task'.pc = "load" => Admits(task.cons, task.ch, currentCursor[task.cons], startAddr[task.cons])
  BY DEF Guard, At, Goto, TypeOK, Tasks, screen
<1>2. LoadsBounded'
  BY <1>1 DEF LoadsBounded, Admits
<1>3. ASSUME NEW c \in Consoles
      PROVE  ~TaskInTail(c)
  BY <1>1 DEF TaskInTail, Scrolling, Flushing
<1> QED
  BY <1>1, <1>2, <1>3, ScreenFrame

LEMMA ScreenPut ==
  ASSUME TypeOK, ScreenInv, Put
  PROVE  ScreenInv'
<1>1. /\ task.pc = "put" /\ UNCHANGED <<startAddr, currentCursor, print>>
      /\ task'.cons = task.cons /\ task'.ch = task.ch /\ task'.pc = "load"
  BY DEF Put, At, Goto, TypeOK, Tasks
<1>2. LoadsBounded'
  BY <1>1 DEF ScreenInv, LoadsBounded
<1>3. ASSUME NEW c \in Consoles
      PROVE  ~TaskInTail(c)
  BY <1>1 DEF TaskInTail, Scrolling, Flushing
<1> QED
  BY <1>1, <1>2, <1>3, ScreenFrame

LEMMA ScreenLoad ==
  ASSUME TypeOK, ScreenInv, Load
  PROVE  ScreenInv'
<1>1. /\ task.pc = "load" /\ print.pc = "idle" /\ UNCHANGED <<startAddr, currentCursor, print>>
      /\ task'.cons = task.cons /\ task'.ch = task.ch /\ task'.pc = "store"
      /\ task'.tmp = currentCursor[task.cons] /\ task.cons \in Consoles
  BY DEF Load, At, TypeOK, Tasks, screen
<1>2. ASSUME NEW c \in Consoles
      PROVE  ~TaskInTail(c) /\ ~KernelInTail(c)
  BY <1>1 DEF TaskInTail, KernelInTail, Scrolling, Flushing
<1>3. LoadsBounded'
  <2>1. memoryAddr(task.cons) <= currentCursor[task.cons]
        /\ currentCursor[task.cons] <= Limit(task.cons) + 2 * Width - 2
    BY <1>1, <1>2, CursorAtRest
  <2>2. task.ch = "backspace" => currentCursor[task.cons] > memoryAddr(task.cons)
    BY <1>1 DEF ScreenInv, LoadsBounded
  <2>3. memoryAddr(task.cons) \in Nat /\ currentCursor[task.cons] \in Int
    BY <1>1, MemoryFacts DEF TypeOK
  <2>4. currentCursor[task.cons] >= memoryAddr(task.cons)
    BY <2>1, <2>3
  <2> QED
    BY <1>1, <2>1, <2>2, <2>4 DEF LoadsBounded
<1> QED
  BY <1>1, <1>2, <1>3, ScreenFrame

LEMMA ScreenStore ==
  ASSUME TypeOK, ScreenInv, Store
  PROVE  ScreenInv'
<1> DEFINE m == Moved(task.cons, task.ch, task.tmp)
<1>1. /\ task.pc = "store" /\ print.pc = "idle" /\ UNCHANGED <<startAddr, print>>
      /\ task'.cons = task.cons /\ task.cons \in Consoles /\ task.ch \in Chars /\ task.tmp \in Int
      /\ task'.pc = IF task.ch = "backspace" THEN "erase" ELSE "full"
      /\ currentCursor' = [currentCursor EXCEPT ![task.cons] = m]
      /\ currentCursor \in [Consoles -> Int]
  BY DEF Store, At, Goto, TypeOK, Tasks
<1>2. LoadsBounded'
  BY <1>1 DEF LoadsBounded
<1>3. ASSUME NEW c \in Consoles, c # task.cons
      PROVE  Bounded(c)'
  <2>1. ~TaskInTail(c) /\ currentCursor'[c] = currentCursor[c] /\ KernelInTail(c)' = KernelInTail(c)
    BY <1>1, <1>3 DEF TaskInTail, KernelInTail
  <2> QED
    BY <1>1, <1>3, <2>1 DEF ScreenInv, Bounded
<1>4. ASSUME NEW c \in Consoles, c = task.cons
      PROVE  Bounded(c)'
  <2>1. /\ task.tmp >= memoryAddr(c)
        /\ task.ch = "backspace" => task.tmp > memoryAddr(c)
        /\ task.tmp <= Limit(c) + 2 * Width - 2
        /\ OnLine(c, startAddr[c]) /\ startAddr[c] + ScreenSize < Limit(c) + 2 * Width
    BY <1>1, <1>4 DEF ScreenInv, LoadsBounded, Bounded
  <2>2. memoryAddr(c) \in Nat /\ Limit(c) \in Nat /\ Width \in Nat
    BY <1>1, MemoryFacts, ConstantFacts
  <2>3. /\ m \in Int
        /\ task.ch = "backspace" => m = task.tmp - 1
        /\ task.ch # "backspace" => task.tmp < m /\ m <= task.tmp + Width
    BY <1>1, <1>4, <2>1, MovedFacts
  <2>4. currentCursor'[c] = m
    BY <1>1, <1>4
  <2> HIDE DEF m
  <2>5. m >= memoryAddr(c) /\ m <= Limit(c) + 3 * Width - 2
    BY <1>1, <2>1, <2>2, <2>3
  <2>6. CASE task.ch = "backspace"
    <3>1. m <= Limit(c) + 2 * Width - 2
      BY <1>1, <2>1, <2>2, <2>3, <2>6
    <3> QED
      BY <1>1, <2>1, <2>4, <2>5, <3>1 DEF Bounded
  <2>7. CASE task.ch # "backspace"
    <3>1. TaskInTail(c)'
      BY <1>1, <1>4, <2>7 DEF TaskInTail
    <3> QED
      BY <1>1, <2>1, <2>4, <2>5, <3>1 DEF Bounded
  <2> QED
    BY <2>6, <2>7
<1>5. \A c \in Consoles : Bounded(c)'
  <2>1. TAKE c \in Consoles
  <2>2. CASE c = task.cons
    BY <1>4, <2>2
  <2>3. CASE c # task.cons
    BY <1>3, <2>3
  <2> QED
    BY <2>2, <2>3
<1> QED
  BY <1>2, <1>5 DEF ScreenInv

(* The loop of outChar ends only when the cursor is on the screen.         *)
LEMMA OnScreenBound ==
  ASSUME TypeOK, ScreenInv, NEW c \in Consoles, ~OffScreen(currentCursor[c], startAddr[c])
  PROVE  currentCursor[c] <= Limit(c) + 2 * Width - 2
<1>1. /\ startAddr[c] \in Int /\ currentCursor[c] \in Int /\ Limit(c) \in Nat
      /\ ScreenSize \in Nat /\ Width \in Nat
  BY MemoryFacts, ConstantFacts DEF TypeOK
<1>2. startAddr[c] + ScreenSize < Limit(c) + 2 * Width
  BY DEF ScreenInv, Bounded
<1>3. currentCursor[c] < startAddr[c] + ScreenSize
  BY <1>1 DEF OffScreen
<1> QED
  BY <1>1, <1>2, <1>3

LEMMA ScreenFull ==
  ASSUME TypeOK, ScreenInv, Full
  PROVE  ScreenInv'
<1>1. /\ task.pc = "full" /\ UNCHANGED <<startAddr, currentCursor, print>> /\ task.cons \in Consoles
      /\ \/ task' = Scrolls(task.cons, "down", "full")
         \/ /\ ~OffScreen(currentCursor[task.cons], startAddr[task.cons])
            /\ task' = Shows(task.cons, "select")
  BY DEF Full, At, TypeOK, Tasks, screen
<1>2. task'.pc \in {"scroll", "cursor"} /\ task'.cons = task.cons
  BY <1>1 DEF Shows, Scrolls, Idle
<1>3. LoadsBounded'
  BY <1>2 DEF LoadsBounded
<1>4. ASSUME NEW c \in Consoles
      PROVE  \/ TaskInTail(c) => TaskInTail(c)'
             \/ currentCursor[c] <= Limit(c) + 2 * Width - 2
  <2>1. CASE task' = Scrolls(task.cons, "down", "full")
    BY <2>1, <1>2 DEF TaskInTail, Scrolling, Scrolls, Idle
  <2>2. CASE ~OffScreen(currentCursor[task.cons], startAddr[task.cons])
    BY <1>1, <2>2, OnScreenBound DEF TaskInTail
  <2> QED
    BY <1>1, <2>1, <2>2
<1> QED
  BY <1>1, <1>3, <1>4, ScreenFrame

(* scrollScreen.                                                           *)
LEMMA ScreenScroll ==
  ASSUME TypeOK, ScreenInv, Scroll
  PROVE  ScreenInv'
<1>1. /\ task.pc = "scroll" /\ UNCHANGED <<startAddr, currentCursor, print>> /\ task.cons \in Consoles
      /\ task.dir \in {"up", "down"} /\ startAddr[task.cons] \in Int
      /\ \/ /\ CanScroll(task.cons, task.dir, startAddr[task.cons])
            /\ task' = [task EXCEPT !.pc = "line"]
         \/ task' = Shows(task.cons, task.after)
  BY DEF Scroll, At, TypeOK, Tasks, screen
<1>2. /\ task'.cons = task.cons /\ task'.after = task.after /\ task'.pc \in {"line", "cursor"}
      /\ task'.pc = "line" => /\ task'.dir = task.dir
                             /\ CanScroll(task.cons, task.dir, startAddr[task.cons])
  BY <1>1, ShowsFacts DEF TypeOK, Tasks
<1>3. CanScroll(task.cons, task.dir, startAddr[task.cons])
        => Scrollable(task.cons, task.dir, startAddr[task.cons])
  <2>1. memoryAddr(task.cons) \in Nat /\ Limit(task.cons) = memoryAddr(task.cons) + MemLimit
        /\ MemLimit \in Nat /\ Width \in Nat /\ Width > 2 /\ ScreenSize \in Nat
    BY <1>1, MemoryFacts, ConstantFacts
  <2> QED
    BY <1>1, <2>1 DEF CanScroll, Scrollable
<1>4. LoadsBounded'
  BY <1>1, <1>2, <1>3 DEF LoadsBounded
<1>5. ASSUME NEW c \in Consoles, TaskInTail(c)
      PROVE  TaskInTail(c)'
  BY <1>1, <1>2, <1>5 DEF TaskInTail, Scrolling, Flushing
<1> QED
  BY <1>1, <1>4, <1>5, ScreenFrame

LEMMA ScreenScrollLoad ==
  ASSUME TypeOK, ScreenInv, ScrollLoad
  PROVE  ScreenInv'
<1>1. /\ task.pc = "line" /\ UNCHANGED <<startAddr, currentCursor, print>> /\ task.cons \in Consoles
      /\ task'.cons = task.cons /\ task'.after = task.after /\ task'.dir = task.dir
      /\ task'.pc = "move" /\ task'.tmp = startAddr[task.cons]
  BY DEF ScrollLoad, At, TypeOK, Tasks, screen
<1>2. LoadsBounded'
  BY <1>1 DEF ScreenInv, LoadsBounded, Bounded
<1>3. ASSUME NEW c \in Consoles, TaskInTail(c)
      PROVE  TaskInTail(c)'
  BY <1>1, <1>3 DEF TaskInTail, Scrolling
<1> QED
  BY <1>1, <1>2, <1>3, ScreenFrame

LEMMA ScreenScrollStore ==
  ASSUME TypeOK, ScreenInv, ScrollStore
  PROVE  ScreenInv'
<1> DEFINE m == task.tmp + ScrolledBy(task.dir)
<1>1. /\ task.pc = "move" /\ UNCHANGED <<currentCursor, print>>
      /\ task.cons \in Consoles /\ task.dir \in {"up", "down"} /\ task.tmp \in Int
      /\ startAddr' = [startAddr EXCEPT ![task.cons] = m] /\ startAddr \in [Consoles -> Int]
      /\ task'.pc = "cursor" /\ task'.cons = task.cons /\ task'.after = task.after
  BY ShowsFacts DEF ScrollStore, At, TypeOK, Tasks
<1>2. LoadsBounded'
  BY <1>1 DEF LoadsBounded
<1>3. OnLine(task.cons, m) /\ m + ScreenSize < Limit(task.cons) + 2 * Width
  BY <1>1, ScrolledFacts DEF ScreenInv, LoadsBounded
<1> HIDE DEF m
<1>4. ASSUME NEW c \in Consoles
      PROVE  Bounded(c)'
  <2>1. (TaskInTail(c) => TaskInTail(c)') /\ KernelInTail(c)' = KernelInTail(c)
    BY <1>1 DEF TaskInTail, KernelInTail, Scrolling, Flushing
  <2>2. OnLine(c, startAddr'[c]) /\ startAddr'[c] + ScreenSize < Limit(c) + 2 * Width
    BY <1>1, <1>3 DEF ScreenInv, Bounded
  <2> QED
    BY <1>1, <2>1, <2>2 DEF ScreenInv, Bounded
<1> QED
  BY <1>2, <1>4 DEF ScreenInv

LEMMA ScreenTty ==
  ASSUME TypeOK, ScreenInv, TtyStep
  PROVE  ScreenInv'
  BY ScreenOther, ScreenGuard, ScreenPut, ScreenLoad, ScreenStore, ScreenFull, ScreenScroll,
     ScreenScrollLoad, ScreenScrollStore DEF TtyStep, NoteStep

(* What a character printed by the kernel moves.                           *)
LEMMA PrintCharFacts ==
  ASSUME TypeOK, PrintChar, currentCursor[print.cons] >= memoryAddr(print.cons)
  PROVE  /\ print.pc = "char" /\ print'.pc = "scroll" /\ print'.cons = print.cons
         /\ print.cons \in Printed /\ print.cons \in Consoles
         /\ UNCHANGED <<startAddr, indexCurrentConsole, Cursor, crtc, in_buf, task>>
         /\ \A c \in Consoles \ {print.cons} : currentCursor'[c] = currentCursor[c]
         /\ currentCursor'[print.cons] \in Int
         /\ currentCursor[print.cons] <= currentCursor'[print.cons]
         /\ \/ currentCursor'[print.cons] <= currentCursor[print.cons] + 1
            \/ currentCursor'[print.cons] < Limit(print.cons)
         /\ \/ UNCHANGED cells
            \/ /\ cells' = [cells EXCEPT ![currentCursor[print.cons]] = "print"]
               /\ currentCursor'[print.cons] = currentCursor[print.cons] + 1
<1> DEFINE c == print.cons
           ch == Head(print.rest)
<1>1. /\ print.pc = "char" /\ print' = [print EXCEPT !.pc = "scroll"] /\ print.cons \in Printed
      /\ UNCHANGED <<startAddr, indexCurrentConsole, Cursor, crtc, in_buf, task>>
      /\ currentCursor \in [Consoles -> Int] /\ c \in Consoles
  BY DEF PrintChar, TypeOK
<1>2. print'.pc = "scroll" /\ print'.cons = c
  BY <1>1 DEF TypeOK
<1>3. ch \in Chars \ {"backspace"}
  <2>1. print.rest \in Seq(Chars \ {"backspace"}) /\ print.rest # <<>>
    BY <1>1 DEF TypeOK
  <2> QED
    BY <2>1
<1>4. \/ UNCHANGED <<currentCursor, cells>>
      \/ /\ Admits(c, ch, currentCursor[c], startAddr[c])
         /\ currentCursor' = [currentCursor EXCEPT ![c] = Moved(c, ch, @)]
         /\ cells' = IF ch = "x" THEN [cells EXCEPT ![currentCursor[c]] = "print"] ELSE cells
  BY DEF PrintChar
<1>5. currentCursor[c] >= memoryAddr(c)
  OBVIOUS
<1> HIDE DEF c, ch
<1>6. /\ Moved(c, ch, currentCursor[c]) \in Int
      /\ currentCursor[c] < Moved(c, ch, currentCursor[c])
      /\ Moved(c, ch, currentCursor[c]) <= currentCursor[c] + Width
      /\ ch = "x" => Moved(c, ch, currentCursor[c]) = currentCursor[c] + 1
  BY <1>1, <1>3, <1>5, MovedFacts
<1>7. /\ Width \in Nat /\ Limit(c) = memoryAddr(c) + MemLimit /\ Limit(c) \in Nat
      /\ memoryAddr(c) \in Nat /\ MemLimit \in Nat /\ currentCursor[c] \in Int
  BY <1>1, MemoryFacts, ConstantFacts
<1>8. CASE UNCHANGED <<currentCursor, cells>>
  BY <1>1, <1>2, <1>7, <1>8 DEF c
<1>9. CASE /\ Admits(c, ch, currentCursor[c], startAddr[c])
           /\ currentCursor' = [currentCursor EXCEPT ![c] = Moved(c, ch, @)]
           /\ cells' = IF ch = "x" THEN [cells EXCEPT ![currentCursor[c]] = "print"] ELSE cells
  <2>1. /\ currentCursor'[c] = Moved(c, ch, currentCursor[c])
        /\ \A d \in Consoles \ {c} : currentCursor'[d] = currentCursor[d]
    BY <1>1, <1>9
  <2>2. ch = "x" \/ ch = "newline"
    BY <1>3 DEF Chars
  <2>3. ch = "newline" => currentCursor'[c] < Limit(c)
    BY <1>6, <1>7, <1>9, <2>1 DEF Admits
  <2>4. currentCursor[c] <= currentCursor'[c] /\ currentCursor'[c] \in Int
    BY <1>6, <1>7, <2>1
  <2>5. ch = "x" => currentCursor'[c] = currentCursor[c] + 1 /\ currentCursor'[c] <= currentCursor[c] + 1
    BY <1>6, <1>7, <2>1
  <2>6. \/ UNCHANGED cells
        \/ ch = "x" /\ cells' = [cells EXCEPT ![currentCursor[c]] = "print"]
    BY <1>9
  <2> QED
    BY <1>1, <1>2, <2>1, <2>2, <2>3, <2>4, <2>5, <2>6 DEF c
<1> QED
  BY <1>4, <1>8, <1>9

(* Printing only adds to the cursor taskTTY is about to load.              *)
LEMMA ScreenPrintChar ==
  ASSUME TypeOK, ScreenInv, PrintChar
  PROVE  ScreenInv'
<1>1. print.cons \in Consoles
  BY DEF TypeOK
<1>2. currentCursor[print.cons] >= memoryAddr(print.cons)
  BY <1>1 DEF ScreenInv, Bounded
<1> DEFINE p == print.cons
<1>3. /\ print.pc = "char" /\ print'.pc = "scroll" /\ print'.cons = p
      /\ p \in Consoles
      /\ UNCHANGED <<startAddr, indexCurrentConsole, crtc, in_buf, task>>
      /\ \A c \in Consoles \ {p} : currentCursor'[c] = currentCursor[c]
      /\ currentCursor'[p] \in Int
      /\ currentCursor[p] <= currentCursor'[p]
      /\ \/ currentCursor'[p] <= currentCursor[p] + 1
         \/ currentCursor'[p] < Limit(p)
      /\ currentCursor[p] >= memoryAddr(p) /\ memoryAddr(p) \in Nat
      /\ currentCursor[p] \in Int
  BY <1>1, <1>2, PrintCharFacts, MemoryFacts DEF TypeOK
<1> HIDE DEF p
<1>4. LoadsBounded'
  <2>1. ASSUME task.pc = "load", task.ch = "backspace"
        PROVE  currentCursor'[task.cons] > memoryAddr(task.cons)
    <3>1. task.cons \in Consoles /\ currentCursor[task.cons] > memoryAddr(task.cons)
          /\ currentCursor[task.cons] \in Int
      BY <2>1 DEF ScreenInv, LoadsBounded, TypeOK, Tasks
    <3>2. memoryAddr(task.cons) \in Nat
      BY <3>1, MemoryFacts
    <3>3. CASE task.cons = p
      BY <1>3, <3>1, <3>2, <3>3
    <3>4. CASE task.cons # p
      BY <1>3, <3>1, <3>4
    <3> QED
      BY <3>3, <3>4
  <2> QED
    BY <1>3, <2>1 DEF ScreenInv, LoadsBounded
<1>5. ASSUME NEW c \in Consoles, c # p
      PROVE  Bounded(c)'
  <2>1. ~KernelInTail(c) /\ TaskInTail(c)' = TaskInTail(c) /\ currentCursor'[c] = currentCursor[c]
    BY <1>3, <1>5 DEF KernelInTail, TaskInTail
  <2> QED
    BY <1>3, <2>1 DEF ScreenInv, Bounded
<1>6. ASSUME NEW c \in Consoles, c = p
      PROVE  Bounded(c)'
  <2>1. ~KernelInTail(c) /\ KernelInTail(c)'
    BY <1>3, <1>6 DEF KernelInTail
  <2>2. currentCursor[c] <= Limit(c) + 2 * Width - 2 \/ currentCursor[c] <= Limit(c) + 3 * Width - 2
    BY <2>1 DEF ScreenInv, Bounded
  <2>3. Limit(c) \in Nat /\ Width \in Nat /\ Width > 2
    BY MemoryFacts, ConstantFacts
  <2>4. currentCursor'[c] <= Limit(c) + 3 * Width - 1 /\ currentCursor'[c] >= memoryAddr(c)
    BY <1>3, <1>6, <2>2, <2>3
  <2> QED
    BY <1>3, <2>1, <2>4 DEF ScreenInv, Bounded
<1>7. \A c \in Consoles : Bounded(c)'
  <2>1. TAKE c \in Consoles
  <2>2. CASE c = p
    BY <1>6, <2>2
  <2>3. CASE c # p
    BY <1>5, <2>3
  <2> QED
    BY <2>2, <2>3
<1> QED
  BY <1>4, <1>7 DEF ScreenInv

(* The kernel scrolls no further than the limit, also when taskTTY has     *)
(* just tested it.                                                         *)
LEMMA ScreenPrintScroll ==
  ASSUME TypeOK, ScreenInv, PrintScroll
  PROVE  ScreenInv'
<1> DEFINE p == print.cons
<1>1. /\ p \in Consoles /\ UNCHANGED <<currentCursor, task, print>> /\ startAddr \in [Consoles -> Int]
      /\ \/ UNCHANGED startAddr
         \/ /\ CanScroll(p, "down", startAddr[p])
            /\ startAddr' = [startAddr EXCEPT ![p] = @ + Width]
  BY DEF PrintScroll, TypeOK
<1> HIDE DEF p
<1>2. CASE UNCHANGED startAddr
  BY <1>1, <1>2 DEF ScreenInv, LoadsBounded, Bounded, TaskInTail, KernelInTail
<1>3. CASE CanScroll(p, "down", startAddr[p]) /\ startAddr' = [startAddr EXCEPT ![p] = @ + Width]
  <2>1. /\ memoryAddr(p) \in Nat /\ Limit(p) = memoryAddr(p) + MemLimit /\ startAddr[p] \in Int
        /\ MemLimit \in Nat /\ Width \in Nat /\ Width > 2 /\ ScreenSize \in Nat
    BY <1>1, MemoryFacts, ConstantFacts
  <2>2. startAddr[p] + ScreenSize < Limit(p) /\ startAddr'[p] = startAddr[p] + Width
    BY <1>1, <1>3, <2>1 DEF CanScroll
  <2>3. startAddr'[p] + ScreenSize < Limit(p) + Width /\ startAddr'[p] > startAddr[p]
    BY <2>1, <2>2
  <2>4. OnLine(p, startAddr'[p]) /\ startAddr'[p] + ScreenSize < Limit(p) + 2 * Width
    <3>1. OnLine(p, startAddr[p]) /\ Scrollable(p, "down", startAddr[p])
          /\ startAddr[p] + ScreenSize < Limit(p) + 2 * Width
      BY <1>1, <2>1, <2>2 DEF ScreenInv, Bounded, Scrollable
    <3>2. OnLine(p, startAddr[p] + ScrolledBy("down"))
          /\ startAddr[p] + ScrolledBy("down") + ScreenSize < Limit(p) + 2 * Width
      BY <1>1, <2>1, <3>1, ScrolledFacts
    <3> QED
      BY <2>2, <3>2 DEF ScrolledBy
  <2>5. \A c \in Consoles : Bounded(c)'
    BY <1>1, <1>3, <2>4 DEF ScreenInv, Bounded, TaskInTail, KernelInTail
  <2>6. ASSUME task.pc = "line"
        PROVE  Scrollable(task.cons, task.dir, startAddr'[task.cons])
    <3>1. Scrollable(task.cons, task.dir, startAddr[task.cons])
      BY <2>6 DEF ScreenInv, LoadsBounded
    <3>2. CASE task.cons = p
      <4>1. startAddr[p] > memoryAddr(p) => startAddr'[p] > memoryAddr(p)
        BY <2>1, <2>2
      <4> QED
        BY <2>3, <3>1, <3>2, <4>1 DEF Scrollable
    <3>3. CASE task.cons # p
      BY <1>1, <1>3, <3>1, <3>3 DEF TypeOK, Tasks
    <3> QED
      BY <3>2, <3>3
  <2>7. LoadsBounded'
    BY <1>1, <2>6 DEF ScreenInv, LoadsBounded
  <2> QED
    BY <2>5, <2>7 DEF ScreenInv
<1> QED
  BY <1>1, <1>2, <1>3

LEMMA ScreenPrintDone ==
  ASSUME TypeOK, ScreenInv, PrintDone
  PROVE  ScreenInv'
<1>1. /\ print.cons \in Consoles /\ UNCHANGED <<startAddr, currentCursor, task>>
      /\ ~OffScreen(currentCursor[print.cons], startAddr[print.cons])
  BY DEF PrintDone, TypeOK
<1>2. ASSUME NEW c \in Consoles, KernelInTail(c)
      PROVE  currentCursor[c] <= Limit(c) + 2 * Width - 2
  BY <1>1, <1>2, OnScreenBound DEF KernelInTail
<1> QED
  BY <1>1, <1>2 DEF ScreenInv, LoadsBounded, Bounded, TaskInTail

LEMMA ScreenInductive == TypeOK /\ ScreenInv /\ [Next]_vars => ScreenInv'
<1> SUFFICES ASSUME TypeOK, ScreenInv, [Next]_vars PROVE ScreenInv'
  OBVIOUS
<1>1. ASSUME NEW c \in Printed, NEW s \in Strings, sys_printx(c, s)
      PROVE  ScreenInv'
  BY <1>1 DEF sys_printx, screen, ScreenInv, LoadsBounded, Bounded, TaskInTail, KernelInTail
<1>2. CASE UNCHANGED vars
  BY <1>2 DEF vars, ScreenInv, LoadsBounded, Bounded, TaskInTail, KernelInTail
<1> QED
  BY <1>1, <1>2, ScreenTty, ScreenPrintChar, ScreenPrintScroll, ScreenPrintDone DEF Next, KernelStep

(* Where every screen and cursor may be, with what taskTTY has tested and  *)
(* loaded but not yet stored (scrollScreen, outChar).                      *)
THEOREM ScreensInvariant == Spec => []ScreenInv
  BY InitScreen, ScreenInductive, TtyTyped, PTL DEF Spec

(* However scrolling keys race with printing, every screen starts on a     *)
(* line of its console and passes the end of its memory by less than two   *)
(* lines, a cursor by less than three (scrollScreen, outChar).             *)
THEOREM ScreensBounded == Spec => []StartBounded
<1>1. ASSUME TypeOK, ScreenInv
      PROVE  StartBounded
  <2>1. SUFFICES ASSUME NEW c \in Consoles
                 PROVE  /\ \E k \in 0 .. MemLimit : startAddr[c] = memoryAddr(c) + Width * k
                        /\ startAddr[c] + ScreenSize < Limit(c) + 2 * Width
                        /\ currentCursor[c] \in memoryAddr(c) .. Limit(c) + 3 * Width - 1
    BY DEF StartBounded
  <2>2. Bounded(c) /\ currentCursor[c] \in Int
    BY <1>1 DEF ScreenInv, TypeOK
  <2>3. memoryAddr(c) \in Nat /\ Limit(c) \in Nat /\ Width \in Nat
    BY MemoryFacts, ConstantFacts
  <2>4. currentCursor[c] <= Limit(c) + 3 * Width - 1
    BY <2>2, <2>3 DEF Bounded
  <2> QED
    BY <2>2, <2>3, <2>4 DEF Bounded, OnLine
<1> QED
  BY <1>1, TtyTyped, ScreensInvariant, PTL

-----------------------------------------------------------------------------
(* The display returns to the current console.                             *)

LEMMA OnLineFacts ==
  ASSUME NEW c \in Consoles, NEW a, OnLine(c, a)
  PROVE  a \in Int /\ a >= memoryAddr(c)
<1>1. PICK k \in 0 .. MemLimit : a = memoryAddr(c) + Width * k
  BY DEF OnLine
<1>2. Width * k \in Nat
  BY ConstantFacts
<1>3. memoryAddr(c) \in Nat
  BY MemoryFacts
<1> QED
  BY <1>1, <1>2, <1>3

(* What is read now is what is shown.                                      *)
LEMMA ShownExact ==
  ASSUME TypeOK, ScreenInv
  PROVE  /\ Shown(currentCursor[indexCurrentConsole], currentCursor)
         /\ Shown(startAddr[indexCurrentConsole], startAddr)
<1>1. indexCurrentConsole \in Consoles
  BY DEF TypeOK
<1>2. /\ currentCursor[indexCurrentConsole] \in Int /\ startAddr[indexCurrentConsole] \in Int
      /\ currentCursor[indexCurrentConsole] >= memoryAddr(indexCurrentConsole)
      /\ startAddr[indexCurrentConsole] >= memoryAddr(indexCurrentConsole)
      /\ memoryAddr(indexCurrentConsole) \in Nat
  BY <1>1, OnLineFacts, MemoryFacts DEF ScreenInv, Bounded, TypeOK
<1> QED
  BY <1>2 DEF Shown

(* Printing moves a position forward, and only where it is printed.        *)
LEMMA ShownLater ==
  ASSUME NEW r, NEW f, NEW g, Shown(r, f), indexCurrentConsole \in Consoles,
         f[indexCurrentConsole] \in Int, g[indexCurrentConsole] \in Int,
         f[indexCurrentConsole] <= g[indexCurrentConsole],
         indexCurrentConsole \notin Printed => g[indexCurrentConsole] = f[indexCurrentConsole]
  PROVE  Shown(r, g)
<1>1. memoryAddr(indexCurrentConsole) \in Nat
  BY MemoryFacts
<1> QED
  BY <1>1 DEF Shown

(* taskTTY in the middle of outChar: nothing is promised.                  *)
LEMMA DisplayQuiet ==
  ASSUME \/ task'.pc \in {"guard", "put", "load", "store", "erase", "full", "select"}
         \/ task'.pc \in Scrolling /\ task'.after \in {"full", "select"}
  PROVE  DisplayInv'
  BY DEF DisplayInv, Selecting, Scrolling, Flushing

(* taskTTY before the registers: only the console is known.                *)
LEMMA DisplayAhead ==
  ASSUME task'.pc \in {"scroll", "line", "move", "cursor"},
         Selecting' => task'.cons = indexCurrentConsole'
  PROVE  DisplayInv'
  BY DEF DisplayInv, Selecting, Scrolling, Flushing

LEMMA DisplayOutChar ==
  ASSUME TypeOK, Guard \/ Put \/ Load \/ Store \/ Erase \/ Full
  PROVE  DisplayInv'
<1>1. CASE Guard \/ Put \/ Load \/ Store \/ Erase
  BY <1>1, DisplayQuiet DEF Guard, Put, Load, Store, Erase, Goto, TypeOK, Tasks
<1>2. CASE Full
  <2>1. task' = Scrolls(task.cons, "down", "full") \/ task' = Shows(task.cons, "select")
    BY <1>2 DEF Full
  <2>2. task'.pc \in Scrolling /\ task'.after \in {"full", "select"}
    BY <2>1 DEF Scrolls, Shows, Idle, Scrolling, Flushing
  <2> QED
    BY <2>2, DisplayQuiet
<1> QED
  BY <1>1, <1>2

(* A key, or no key.                                                       *)
LEMMA DisplayKey ==
  ASSUME TypeOK, DisplayInv,
         \/ NoKey \/ \E k \in Keys \cap Chars : TypeChar(k)
         \/ \E k \in Keys \cap {"up", "down"} : TypeScroll(k)
         \/ \E i \in Selected : TypeSelect(i)
         \/ Write \/ NoteStep
  PROVE  DisplayInv'
<1>1. CASE NoKey \/ \E k \in Keys \cap Chars : TypeChar(k)
  <2>1. /\ task.pc = "read" /\ task'.pc = "write" /\ UNCHANGED <<screen, print>>
    BY <1>1 DEF NoKey, TypeChar, At, Goto, TypeOK, Tasks
  <2> QED
    BY <2>1 DEF DisplayInv, Selecting, Scrolling, Flushing, Shown, screen
<1>2. ASSUME NEW k \in Keys, TypeScroll(k)
      PROVE  DisplayInv'
  <2>1. task' = Scrolls(indexCurrentConsole, k, "write") /\ indexCurrentConsole' = indexCurrentConsole
    BY <1>2 DEF TypeScroll, screen
  <2>2. task'.pc = "scroll" /\ task'.cons = indexCurrentConsole'
    BY <2>1 DEF Scrolls, Idle
  <2> QED
    BY <2>2, DisplayAhead
<1>3. ASSUME NEW i \in Selected, TypeSelect(i)
      PROVE  DisplayInv'
  <2>1. task'.pc = "cursor" /\ task'.cons = indexCurrentConsole'
    BY <1>3 DEF TypeSelect, Shows, Idle
  <2> QED
    BY <2>1, DisplayAhead
<1>4. CASE Write
  <2>1. /\ task.pc = "write" /\ UNCHANGED <<screen, print>>
        /\ \/ task' = [Idle EXCEPT !.tty = NextTty]
           \/ task' = [task EXCEPT !.pc = "guard", !.cons = task.tty,
                                   !.ch = Head(in_buf[task.tty]), !.vm = currentCursor[task.tty]]
    BY <1>4 DEF Write, At
  <2>2. CASE task' = [Idle EXCEPT !.tty = NextTty]
    <3>1. task'.pc = "read"
      BY <2>2 DEF Idle
    <3> QED
      BY <2>1, <3>1 DEF DisplayInv, Selecting, Scrolling, Flushing, Shown, screen
  <2>3. CASE task' = [task EXCEPT !.pc = "guard", !.cons = task.tty,
                                  !.ch = Head(in_buf[task.tty]), !.vm = currentCursor[task.tty]]
    <3>1. task'.pc = "guard"
      BY <2>3 DEF TypeOK, Tasks
    <3> QED
      BY <3>1, DisplayQuiet
  <2> QED
    BY <2>1, <2>2, <2>3
<1>5. CASE NoteStep
  <2>1. /\ UNCHANGED <<startAddr, currentCursor, indexCurrentConsole, crtc, print>>
        /\ task.pc \in {"read", "disp"} /\ task'.pc \in {"disp", "fault", "write"}
    BY <1>5, NoteSteps
  <2> QED
    BY <2>1 DEF DisplayInv, Selecting, Scrolling, Flushing, Shown
<1> QED
  BY <1>1, <1>2, <1>3, <1>4, <1>5

LEMMA DisplayScroll ==
  ASSUME TypeOK, DisplayInv, Scroll \/ ScrollLoad \/ ScrollStore \/ Reselect
  PROVE  DisplayInv'
<1>1. /\ UNCHANGED indexCurrentConsole
      /\ \/ /\ task.pc \in {"scroll", "line"}
            /\ task' \in {[task EXCEPT !.pc = "line"],
                          [task EXCEPT !.pc = "move", !.tmp = startAddr[task.cons]]}
         \/ task.pc \in {"scroll", "move"} /\ task' = Shows(task.cons, task.after)
         \/ task' = Shows(indexCurrentConsole, "read")
  BY DEF Scroll, ScrollLoad, ScrollStore, Reselect, At, screen
<1>2. /\ task'.pc \in {"scroll", "line", "move", "cursor"}
      /\ \/ task.pc \in Scrolling /\ task'.cons = task.cons /\ task'.after = task.after
         \/ task'.cons = indexCurrentConsole
  <2>1. CASE /\ task.pc \in {"scroll", "line"}
             /\ task' \in {[task EXCEPT !.pc = "line"],
                           [task EXCEPT !.pc = "move", !.tmp = startAddr[task.cons]]}
    BY <2>1 DEF TypeOK, Tasks, Scrolling
  <2>2. CASE task.pc \in {"scroll", "move"} /\ task' = Shows(task.cons, task.after)
    BY <2>2 DEF Shows, Idle, Scrolling
  <2>3. CASE task' = Shows(indexCurrentConsole, "read")
    BY <2>3 DEF Shows, Idle
  <2> QED
    BY <1>1, <2>1, <2>2, <2>3
<1>3. Selecting' => task'.cons = indexCurrentConsole'
  BY <1>1, <1>2 DEF DisplayInv, Selecting
<1> QED
  BY <1>2, <1>3, DisplayAhead

(* flush and selectConsole: what was read is written.                      *)
LEMMA DisplayFlush ==
  ASSUME TypeOK, ScreenInv, DisplayInv, ReadCursor \/ setCursor \/ ReadStart \/ setVideoStartAddr
  PROVE  DisplayInv'
<1> USE DEF At, Goto, TypeOK, Tasks, Selecting, Scrolling, Flushing
<1>1. Selecting => task.cons = indexCurrentConsole
  BY DEF DisplayInv
<1>2. CASE ReadCursor
  <2>1. /\ task.pc = "cursor" /\ task'.pc = "set_cursor" /\ task'.tmp = currentCursor[task.cons]
        /\ task'.cons = task.cons /\ task'.after = task.after
        /\ UNCHANGED <<startAddr, currentCursor, indexCurrentConsole, crtc, print>>
    BY <1>2 DEF ReadCursor, screen
  <2>2. Selecting' => /\ task'.cons = indexCurrentConsole
                      /\ task'.tmp = currentCursor[indexCurrentConsole]
    BY <1>1, <2>1
  <2> QED
    BY <2>1, <2>2, ShownExact DEF DisplayInv, Shown
<1>3. CASE setCursor
  <2>1. /\ task.pc = "set_cursor" /\ task'.pc = "start" /\ crtc'.cursor = task.tmp
        /\ task'.cons = task.cons /\ task'.after = task.after
        /\ UNCHANGED <<startAddr, currentCursor, indexCurrentConsole, print>>
    BY <1>3 DEF setCursor
  <2>2. Selecting' => Selecting /\ Shown(crtc'.cursor, currentCursor)
    BY <2>1 DEF DisplayInv
  <2> QED
    BY <1>1, <2>1, <2>2 DEF DisplayInv, Shown
<1>4. CASE ReadStart
  <2>1. /\ task.pc = "start" /\ task'.pc = "set_start" /\ task'.tmp = startAddr[task.cons]
        /\ task'.cons = task.cons /\ task'.after = task.after /\ print.pc = "idle"
        /\ UNCHANGED <<startAddr, currentCursor, indexCurrentConsole, crtc, print>>
    BY <1>4 DEF ReadStart, screen
  <2>2. Selecting' => /\ task'.cons = indexCurrentConsole
                      /\ task'.tmp = startAddr[indexCurrentConsole]
                      /\ Shown(crtc.cursor, currentCursor)
    BY <1>1, <2>1 DEF DisplayInv
  <2> QED
    BY <2>1, <2>2, ShownExact DEF DisplayInv, Shown
<1>5. CASE setVideoStartAddr
  <2>1. /\ task.pc = "set_start" /\ crtc'.cursor = crtc.cursor /\ crtc'.start = task.tmp
        /\ print.pc = "idle" /\ UNCHANGED <<startAddr, currentCursor, indexCurrentConsole, print>>
        /\ \/ task.after \in {"read", "write"} /\ task'.pc \in {"read", "write"}
           \/ task.after \in {"full", "select"} /\ task'.pc \in {"full", "select"}
    BY <1>5 DEF setVideoStartAddr, Idle
  <2>2. CASE task.after \in {"full", "select"} /\ task'.pc \in {"full", "select"}
    BY <2>2, DisplayQuiet
  <2>3. CASE task.after \in {"read", "write"} /\ task'.pc \in {"read", "write"}
    <3>1. Shown(crtc'.cursor, currentCursor) /\ Shown(crtc'.start, startAddr)
      BY <2>1, <2>3 DEF DisplayInv
    <3> QED
      BY <2>1, <2>3, <3>1 DEF DisplayInv, Shown
  <2> QED
    BY <2>1, <2>2, <2>3
<1> QED
  BY <1>2, <1>3, <1>4, <1>5

(* Before the kernel scrolls it only moves its own cursor forward.         *)
LEMMA DisplayPrintChar ==
  ASSUME TypeOK, ScreenInv, DisplayInv, PrintChar
  PROVE  DisplayInv'
<1>1. print.cons \in Consoles /\ indexCurrentConsole \in Consoles
  BY DEF TypeOK
<1>2. currentCursor[print.cons] >= memoryAddr(print.cons)
  BY <1>1 DEF ScreenInv, Bounded
<1>3. /\ print'.pc = "scroll" /\ print.cons \in Printed
      /\ UNCHANGED <<startAddr, indexCurrentConsole, task>>
      /\ \A c \in Consoles \ {print.cons} : currentCursor'[c] = currentCursor[c]
      /\ currentCursor'[print.cons] \in Int
      /\ currentCursor[print.cons] <= currentCursor'[print.cons]
  BY <1>2, PrintCharFacts
<1>4. /\ currentCursor[indexCurrentConsole] \in Int /\ currentCursor'[indexCurrentConsole] \in Int
      /\ currentCursor[indexCurrentConsole] <= currentCursor'[indexCurrentConsole]
      /\ indexCurrentConsole \notin Printed =>
           currentCursor'[indexCurrentConsole] = currentCursor[indexCurrentConsole]
  <2>1. CASE indexCurrentConsole = print.cons
    BY <1>1, <1>3, <2>1 DEF TypeOK
  <2>2. CASE indexCurrentConsole # print.cons
    BY <1>1, <1>3, <2>2 DEF TypeOK
  <2> QED
    BY <2>1, <2>2
<1>5. ASSUME NEW r, Shown(r, currentCursor)
      PROVE  Shown(r, currentCursor')
  BY <1>1, <1>4, <1>5, ShownLater
<1>6. Selecting' = Selecting
  BY <1>3 DEF Selecting
<1>7. Selecting /\ task.pc = "set_cursor" => Shown(task.tmp, currentCursor')
  BY <1>5 DEF DisplayInv
<1> QED
  BY <1>3, <1>6, <1>7 DEF DisplayInv, Shown

LEMMA DisplayPrintScroll ==
  ASSUME TypeOK, ScreenInv, DisplayInv, PrintScroll
  PROVE  DisplayInv'
<1> DEFINE p == print.cons
<1>1. /\ print.pc = "scroll" /\ p \in Printed /\ p \in Consoles
      /\ UNCHANGED <<currentCursor, indexCurrentConsole, task, print>>
      /\ indexCurrentConsole \in Consoles /\ startAddr \in [Consoles -> Int]
      /\ UNCHANGED startAddr \/ startAddr' = [startAddr EXCEPT ![p] = @ + Width]
  BY DEF PrintScroll, TypeOK
<1> HIDE DEF p
<1>2. /\ startAddr[indexCurrentConsole] \in Int /\ startAddr'[indexCurrentConsole] \in Int
      /\ startAddr[indexCurrentConsole] <= startAddr'[indexCurrentConsole]
      /\ indexCurrentConsole \notin Printed =>
           startAddr'[indexCurrentConsole] = startAddr[indexCurrentConsole]
  BY <1>1, ConstantFacts
<1>3. Selecting' = Selecting
  BY <1>1 DEF Selecting
<1>4. Selecting /\ task.pc = "set_start" => Shown(task.tmp, startAddr')
  BY <1>1, <1>2, ShownLater DEF DisplayInv
<1> QED
  BY <1>1, <1>3, <1>4 DEF DisplayInv, Shown

(* The last selectConsole of outChar.                                      *)
LEMMA DisplayPrintDone ==
  ASSUME TypeOK, ScreenInv, DisplayInv, PrintDone
  PROVE  DisplayInv'
<1>1. /\ UNCHANGED <<startAddr, currentCursor, indexCurrentConsole, task>>
      /\ crtc'.cursor = currentCursor[indexCurrentConsole]
      /\ crtc'.start = startAddr[indexCurrentConsole]
  BY DEF PrintDone
<1>2. Selecting' = Selecting
  BY <1>1 DEF Selecting
<1> QED
  BY <1>1, <1>2, ShownExact DEF DisplayInv, Shown

LEMMA DisplayInductive == TypeOK /\ ScreenInv /\ DisplayInv /\ [Next]_vars => DisplayInv'
<1> SUFFICES ASSUME TypeOK, ScreenInv, DisplayInv, [Next]_vars PROVE DisplayInv'
  OBVIOUS
<1>1. CASE TtyStep
  BY <1>1, DisplayOutChar, DisplayKey, DisplayScroll, DisplayFlush DEF TtyStep, NoteStep
<1>2. ASSUME NEW c \in Printed, NEW s \in Strings, sys_printx(c, s)
      PROVE  DisplayInv'
  <2>1. print.pc = "idle" /\ UNCHANGED <<screen, task>>
    BY <1>2 DEF sys_printx
  <2> QED
    BY <2>1 DEF DisplayInv, Selecting, Shown, screen
<1>3. CASE UNCHANGED vars
  BY <1>3 DEF vars, DisplayInv, Selecting, Shown
<1> QED
  BY <1>1, <1>2, <1>3, DisplayPrintChar, DisplayPrintScroll, DisplayPrintDone DEF Next, KernelStep

LEMMA InitDisplay == Init => DisplayInv
<1> SUFFICES ASSUME Init PROVE DisplayInv
  OBVIOUS
<1>1. TypeOK /\ ScreenInv
  BY InitType, InitScreen
<1>2. /\ task.pc = "read" /\ indexCurrentConsole = 0 /\ 0 \in Consoles
      /\ crtc.cursor = BootCursor /\ crtc.start = 0
      /\ currentCursor[0] = BootCursor /\ startAddr[0] = memoryAddr(0)
  BY IdleFacts, ConstantFacts DEF Init
<1>3. memoryAddr(0) = 0
  BY ConstantFacts DEF memoryAddr
<1> QED
  BY <1>1, <1>2, <1>3, ShownExact DEF DisplayInv, Selecting, Scrolling, Flushing

(* Whenever taskTTY comes back for a key the display is on the current     *)
(* console: exactly where it stands if nobody prints to it, and else at    *)
(* most behind by what was printed in the middle of selectConsole.         *)
THEOREM DisplayFollows == Spec => []DisplayOnCurrent
<1>1. DisplayInv => DisplayOnCurrent
  BY DEF DisplayInv, DisplayOnCurrent
<1> QED
  BY <1>1, InitDisplay, DisplayInductive, TtyTyped, ScreensInvariant, PTL DEF Spec

-----------------------------------------------------------------------------
(* Echoing on consoles nothing is printed to.                              *)

(* taskTTY in outChar has the cursor it read.                              *)
LEMMA EchoTty ==
  ASSUME TypeOK, KeysInv, ScreenInv, EchoInv, TtyStep
  PROVE  EchoInv'
<1> USE DEF At, Goto, TypeOK, Tasks
<1>1. CASE Write
  <2>1. CASE in_buf[task.tty] = <<>>
    BY <1>1, <2>1 DEF Write, EchoInv, Idle
  <2>2. CASE in_buf[task.tty] # <<>>
    <3>1. /\ task' = [task EXCEPT !.pc = "guard", !.cons = task.tty,
                                  !.ch = Head(in_buf[task.tty]), !.vm = currentCursor[task.tty]]
          /\ UNCHANGED currentCursor
      BY <1>1, <2>2 DEF Write, screen
    <3>2. task.tty \in Typed
      BY <2>2 DEF KeysInv
    <3>3. task'.pc = "guard" /\ task'.cons = task.tty /\ task'.vm = currentCursor[task.tty]
      BY <3>1
    <3> QED
      BY <3>1, <3>2, <3>3 DEF EchoInv
  <2> QED
    BY <2>1, <2>2
<1>2. CASE Guard
  BY <1>2 DEF Guard, EchoInv, screen
<1>3. CASE Put
  BY <1>3 DEF Put, EchoInv
<1>4. CASE Load
  BY <1>4 DEF Load, EchoInv, screen
<1>5. CASE Store
  <2>1. /\ task.pc = "store" /\ task.cons \in Consoles /\ task.tmp \in Int /\ task.vm = task.tmp
        /\ task'.pc = IF task.ch = "backspace" THEN "erase" ELSE "full"
        /\ task'.cons = task.cons /\ task'.vm = task.vm /\ task.cons \in Typed
        /\ currentCursor'[task.cons] = Moved(task.cons, task.ch, task.tmp)
    BY <1>5 DEF Store, EchoInv
  <2>2. task.ch = "backspace" => task.vm = currentCursor'[task.cons] + 1
    BY <2>1 DEF Moved
  <2> QED
    BY <2>1, <2>2 DEF EchoInv
<1>6. CASE Erase \/ setCursor \/ setVideoStartAddr \/ ReadCursor \/ ReadStart \/ ScrollLoad
  <2>1. CASE setVideoStartAddr
    BY <2>1 DEF setVideoStartAddr, EchoInv, Idle
  <2>2. CASE ~setVideoStartAddr
    BY <1>6, <2>2 DEF Erase, setCursor, ReadCursor, ReadStart, ScrollLoad, EchoInv
  <2> QED
    BY <2>1, <2>2
<1>7. CASE \/ NoKey \/ \E k \in Keys \cap Chars : TypeChar(k)
           \/ \E k \in Keys \cap {"up", "down"} : TypeScroll(k)
           \/ \E i \in Selected : TypeSelect(i)
           \/ Full \/ Scroll \/ ScrollStore \/ Reselect
  <2>1. task'.pc \in {"write", "scroll", "cursor", "line"}
    <3>1. CASE NoKey \/ \E k \in Keys \cap Chars : TypeChar(k)
      BY <3>1 DEF NoKey, TypeChar
    <3>2. CASE \E k \in Keys \cap {"up", "down"} : TypeScroll(k)
      BY <3>2 DEF TypeScroll, Scrolls, Idle
    <3>3. CASE (\E i \in Selected : TypeSelect(i)) \/ ScrollStore \/ Reselect
      BY <3>3 DEF TypeSelect, ScrollStore, Reselect, Shows, Idle
    <3>4. CASE Full
      <4>1. task' = Scrolls(task.cons, "down", "full") \/ task' = Shows(task.cons, "select")
        BY <3>4 DEF Full
      <4> QED
        BY <4>1 DEF Scrolls, Shows, Idle
    <3>5. CASE Scroll
      <4>1. task' = [task EXCEPT !.pc = "line"] \/ task' = Shows(task.cons, task.after)
        BY <3>5 DEF Scroll
      <4> QED
        BY <4>1 DEF Shows, Idle
    <3> QED
      BY <1>7, <3>1, <3>2, <3>3, <3>4, <3>5
  <2> QED
    BY <2>1 DEF EchoInv
<1>8. CASE NoteStep
  <2>1. task'.pc \in {"disp", "fault", "write"}
    BY <1>8, NoteSteps
  <2> QED
    BY <2>1 DEF EchoInv
<1> QED
  BY <1>1, <1>2, <1>3, <1>4, <1>5, <1>6, <1>7, <1>8 DEF TtyStep, NoteStep

LEMMA EchoInductive ==
  ASSUME Typed \cap Printed = {}
  PROVE  TypeOK /\ KeysInv /\ ScreenInv /\ EchoInv /\ [Next]_vars => EchoInv'
<1> SUFFICES ASSUME TypeOK, KeysInv, ScreenInv, EchoInv, [Next]_vars PROVE EchoInv'
  OBVIOUS
<1>1. CASE PrintChar
  <2>1. print.cons \in Consoles
    BY DEF TypeOK
  <2>2. currentCursor[print.cons] >= memoryAddr(print.cons)
    BY <2>1 DEF ScreenInv, Bounded
  <2>3. /\ print.cons \in Printed /\ UNCHANGED task
        /\ \A c \in Consoles \ {print.cons} : currentCursor'[c] = currentCursor[c]
    BY <1>1, <2>2, PrintCharFacts
  <2>4. task.cons \in Typed => currentCursor'[task.cons] = currentCursor[task.cons]
    BY <2>3 DEF TypeOK, Tasks
  <2> QED
    BY <2>3, <2>4 DEF EchoInv
<1>2. CASE UNCHANGED <<currentCursor, task>>
  BY <1>2 DEF EchoInv
<1>3. PrintScroll \/ PrintDone \/ (\E c \in Printed, s \in Strings : sys_printx(c, s)) \/ UNCHANGED vars
        => UNCHANGED <<currentCursor, task>>
  BY DEF PrintScroll, PrintDone, sys_printx, vars, screen
<1> QED
  BY <1>1, <1>2, <1>3, EchoTty DEF Next, KernelStep

(* What is in the memory of a console has an address.                      *)
LEMMA AddressFacts ==
  ASSUME NEW c \in Consoles, NEW a \in Int, memoryAddr(c) <= a, a < Limit(c)
  PROVE  a \in Address
<1>1. /\ memoryAddr(c) \in Nat /\ Limit(c) \in Nat /\ Limit(c) <= NConsoles * MemLimit
      /\ NConsoles * MemLimit \in Nat /\ Width \in Nat /\ GsWords \in Nat
  BY MemoryFacts, ConstantFacts
<1> QED
  BY <1>1 DEF Address

-----------------------------------------------------------------------------
(* The notes of DispStr.                                                   *)

(* They never go back.                                                     *)
LEMMA NotedLater ==
  ASSUME TypeOK, [Next]_vars
  PROVE  NotedTo \in Int /\ NotedTo' \in Int /\ NotedTo <= NotedTo'
<1>1. Cursor \in Int /\ task.vm \in Int
  BY DEF TypeOK, Tasks
<1>2. CASE NoteStep
  <2>1. \/ task.pc = "read" /\ task'.pc = "disp" /\ task'.vm = Cursor
        \/ task.pc = "disp" /\ task'.pc = "disp" /\ task'.vm = task.vm + 1
        \/ task.pc = "disp" /\ task'.pc = "fault" /\ task'.vm = task.vm
        \/ task.pc = "disp" /\ task'.pc = "write" /\ Cursor' = task.vm
    BY <1>2, NoteSteps
  <2> QED
    BY <1>1, <2>1 DEF NotedTo
<1>3. CASE TtyStep /\ ~NoteStep
  BY <1>1, <1>3, NoNoteSteps DEF NotedTo
<1>4. CASE UNCHANGED <<Cursor, task>>
  BY <1>1, <1>4 DEF NotedTo
<1>5. KernelStep \/ (\E c \in Printed, s \in Strings : sys_printx(c, s)) \/ UNCHANGED vars
        => UNCHANGED <<Cursor, task>>
  BY DEF KernelStep, PrintChar, PrintScroll, PrintDone, sys_printx, vars, screen
<1> QED
  BY <1>2, <1>3, <1>4, <1>5 DEF Next

LEMMA NotedKeeps ==
  ASSUME TypeOK, [Next]_vars, NEW a \in Int, Noted(a), cells'[a] = cells[a]
  PROVE  Noted(a)'
<1>1. NotedTo \in Int /\ NotedTo' \in Int /\ NotedTo <= NotedTo'
  BY NotedLater
<1> QED
  BY <1>1 DEF Noted

LEMMA NoteInductive == TypeOK /\ NoteInv /\ [Next]_vars => NoteInv'
<1> SUFFICES ASSUME TypeOK, NoteInv, [Next]_vars PROVE NoteInv'
  OBVIOUS
<1>1. CASE NoteStep
  <2>1. Cursor \in Nat /\ task.vm \in Int /\ NoteLength \in Nat
    BY ConstantFacts DEF TypeOK, Tasks
  <2>2. \/ /\ task'.pc = "disp" /\ task'.vm = Cursor /\ Cursor' = Cursor
        \/ /\ task.pc = "disp" /\ task.vm < Cursor + NoteLength
           /\ task'.vm = task.vm + 1 /\ Cursor' = Cursor
        \/ task'.pc \in {"fault", "write"}
    BY <1>1, NoteSteps
  <2> QED
    BY <2>1, <2>2 DEF NoteInv
<1>2. CASE TtyStep /\ ~NoteStep
  BY <1>2, NoNoteSteps DEF NoteInv
<1>3. CASE UNCHANGED <<Cursor, task>>
  BY <1>3 DEF NoteInv
<1>4. KernelStep \/ (\E c \in Printed, s \in Strings : sys_printx(c, s)) \/ UNCHANGED vars
        => UNCHANGED <<Cursor, task>>
  BY DEF KernelStep, PrintChar, PrintScroll, PrintDone, sys_printx, vars, screen
<1> QED
  BY <1>1, <1>2, <1>3, <1>4 DEF Next

-----------------------------------------------------------------------------
(* What is ahead of the cursors.                                           *)

(* To prove BlankInv for the next state, cell by cell.                     *)
LEMMA BlankByCell ==
  ASSUME currentCursor' \in [Consoles -> Int],
         \A c \in Consoles : \A a \in Int : currentCursor'[c] <= a /\ a < Limit(c) => Ahead(c, a)'
  PROVE  BlankInv'
<1>1. SUFFICES ASSUME NEW c \in Consoles, NEW a \in currentCursor'[c] .. Limit(c) - 1
               PROVE  Ahead(c, a)'
  BY DEF BlankInv
<1>2. currentCursor'[c] \in Int /\ Limit(c) \in Nat
  BY MemoryFacts
<1>3. a \in Int /\ currentCursor'[c] <= a /\ a < Limit(c)
  BY <1>2
<1> QED
  BY <1>3

LEMMA BlankCell ==
  ASSUME TypeOK, BlankInv, NEW c \in Consoles, NEW a \in Int, currentCursor[c] <= a, a < Limit(c)
  PROVE  Ahead(c, a)
<1>1. currentCursor[c] \in Int /\ Limit(c) \in Nat
  BY MemoryFacts DEF TypeOK
<1>2. a \in currentCursor[c] .. Limit(c) - 1
  BY <1>1
<1> QED
  BY <1>2 DEF BlankInv

(* Steps that neither write nor move a cursor.                             *)
LEMMA BlankFrame ==
  ASSUME TypeOK, BlankInv, [Next]_vars, UNCHANGED <<cells, currentCursor>>,
         \/ task.pc \notin {"load", "store", "erase"}
         \/ UNCHANGED task
         \/ /\ task.pc = "load" /\ task'.pc = "store"
            /\ task'.ch = task.ch /\ task'.vm = task.vm
  PROVE  BlankInv'
<1>1. ASSUME NEW a, InHand(a)
      PROVE  InHand(a)'
  BY <1>1 DEF InHand
<1>2. currentCursor' \in [Consoles -> Int]
  BY DEF TypeOK
<1>3. ASSUME NEW c \in Consoles, NEW a \in Int, currentCursor'[c] <= a, a < Limit(c)
      PROVE  Ahead(c, a)'
  <2>1. Ahead(c, a)
    BY <1>3, BlankCell
  <2>2. Noted(a) => Noted(a)'
    BY NotedKeeps
  <2> QED
    BY <1>1, <2>1, <2>2 DEF Ahead, Outgrown
<1> QED
  BY <1>2, <1>3, BlankByCell

(* DispStr writes no further than it has come.                             *)
LEMMA BlankNote ==
  ASSUME TypeOK, BlankInv, NoteStep
  PROVE  BlankInv'
<1>1. [Next]_vars
  BY DEF NoteStep, Next, TtyStep
<1>2. task.pc \in {"read", "disp"} /\ UNCHANGED currentCursor /\ currentCursor' \in [Consoles -> Int]
  BY NoteSteps DEF TypeOK
<1>3. CASE UNCHANGED cells
  BY <1>1, <1>2, <1>3, BlankFrame
<1>4. CASE /\ task.pc = "disp" /\ task'.pc = "disp" /\ task'.vm = task.vm + 1
           /\ cells' = [cells EXCEPT ![task.vm] = "note"]
  <2>1. ASSUME NEW c \in Consoles, NEW a \in Int, currentCursor'[c] <= a, a < Limit(c)
        PROVE  Ahead(c, a)'
    <3>1. Ahead(c, a) /\ ~InHand(a)
      BY <1>2, <2>1, BlankCell DEF InHand
    <3>2. CASE cells'[a] = cells[a]
      <4>1. Noted(a) => Noted(a)'
        BY <1>1, <3>2, NotedKeeps
      <4> QED
        BY <1>2, <3>1, <3>2, <4>1 DEF Ahead, Outgrown
    <3>3. CASE cells'[a] # cells[a]
      <4>1. a = task.vm /\ cells'[a] = "note"
        BY <1>4, <3>3 DEF TypeOK
      <4>2. a < NotedTo'
        BY <1>4, <4>1 DEF NotedTo
      <4> QED
        BY <4>1, <4>2 DEF Ahead, Noted
    <3> QED
      BY <3>2, <3>3
  <2> QED
    BY <1>2, <2>1, BlankByCell
<1> QED
  BY <1>3, <1>4, NoteSteps

LEMMA BlankPut ==
  ASSUME TypeOK, ScreenInv, BlankInv, Put
  PROVE  BlankInv'
<1>1. /\ task.pc = "put" /\ task.ch = "x" /\ task'.pc = "load" /\ task'.ch = "x" /\ task'.vm = task.vm
      /\ cells' = [cells EXCEPT ![task.vm] = "key"] /\ UNCHANGED currentCursor
      /\ currentCursor' \in [Consoles -> Int]
  BY DEF Put, At, Goto, TypeOK, Tasks, ScreenInv, LoadsBounded
<1>2. ASSUME NEW c \in Consoles, NEW a \in Int, currentCursor'[c] <= a, a < Limit(c)
      PROVE  Ahead(c, a)'
  <2>1. Ahead(c, a) /\ ~InHand(a)
    BY <1>1, <1>2, BlankCell DEF InHand
  <2>2. CASE a = task.vm
    BY <1>1, <2>2 DEF Ahead, InHand
  <2>3. CASE a # task.vm
    <3>1. cells'[a] = cells[a]
      BY <1>1, <2>3 DEF TypeOK
    <3>2. Noted(a) => Noted(a)'
      BY <3>1, NotedKeeps DEF Next, TtyStep
    <3> QED
      BY <1>1, <2>1, <3>1, <3>2 DEF Ahead, Outgrown
  <2> QED
    BY <2>2, <2>3
<1> QED
  BY <1>1, <1>2, BlankByCell

LEMMA BlankErase ==
  ASSUME TypeOK, ScreenInv, BlankInv, Erase
  PROVE  BlankInv'
<1>1. /\ task.pc = "erase" /\ UNCHANGED currentCursor
      /\ cells' = [cells EXCEPT ![task.vm - 1] = Blank]
      /\ currentCursor' \in [Consoles -> Int] /\ task.vm - 1 \in Int
  BY DEF Erase, At, Goto, TypeOK, Tasks
<1>2. ASSUME NEW c \in Consoles, NEW a \in Int, currentCursor'[c] <= a, a < Limit(c)
      PROVE  Ahead(c, a)'
  <2>1. Ahead(c, a) /\ (InHand(a) => a = task.vm - 1)
    BY <1>1, <1>2, BlankCell DEF InHand
  <2>2. CASE a = task.vm - 1
    <3>1. memoryAddr(c) <= a
      <4>1. memoryAddr(c) \in Nat /\ currentCursor[c] >= memoryAddr(c) /\ currentCursor[c] \in Int
        BY MemoryFacts DEF ScreenInv, Bounded, TypeOK
      <4> QED
        BY <1>1, <1>2, <4>1
    <3>2. a \in Address
      BY <1>2, <3>1, AddressFacts
    <3> QED
      BY <1>1, <2>2, <3>2 DEF Ahead, TypeOK
  <2>3. CASE a # task.vm - 1
    <3>1. cells'[a] = cells[a]
      BY <1>1, <2>3 DEF TypeOK
    <3>2. Noted(a) => Noted(a)'
      BY <3>1, NotedKeeps DEF Next, TtyStep
    <3> QED
      BY <1>1, <2>1, <2>3, <3>1, <3>2 DEF Ahead, Outgrown
  <2> QED
    BY <2>2, <2>3
<1> QED
  BY <1>1, <1>2, BlankByCell

(* The cursor passes what was put, or leaves what is to be erased.         *)
LEMMA BlankStore ==
  ASSUME TypeOK, ScreenInv, EchoInv, BlankInv, Store
  PROVE  BlankInv'
<1>0. task.cons \in Consoles
  BY DEF TypeOK, Tasks
<1> SUFFICES ASSUME NEW p \in Consoles, p = task.cons, NEW m, m = Moved(task.cons, task.ch, task.tmp)
             PROVE  BlankInv'
  BY <1>0
<1>1. /\ task.pc = "store" /\ p \in Consoles /\ UNCHANGED cells
      /\ task'.pc = IF task.ch = "backspace" THEN "erase" ELSE "full"
      /\ task'.vm = task.vm /\ task.vm = currentCursor[p] /\ task.tmp = task.vm
      /\ currentCursor' = [currentCursor EXCEPT ![p] = m] /\ currentCursor \in [Consoles -> Int]
      /\ task.ch \in Chars
  BY DEF Store, At, Goto, TypeOK, Tasks, EchoInv
<1>2. /\ currentCursor[p] \in Int /\ currentCursor[p] >= memoryAddr(p)
      /\ memoryAddr(p) \in Nat /\ Limit(p) \in Nat
  BY <1>1, MemoryFacts DEF ScreenInv, Bounded
<1>3. /\ m \in Int
      /\ task.ch = "backspace" => m = currentCursor[p] - 1
      /\ task.ch # "backspace" => currentCursor[p] < m
  BY <1>1, <1>2, MovedFacts
<1>4. currentCursor'[p] = m /\ currentCursor' \in [Consoles -> Int]
      /\ \A d \in Consoles \ {p} : currentCursor'[d] = currentCursor[d]
  BY <1>1, <1>3
<1>5. \A a \in Int : Outgrown(p, a) => Outgrown(p, a)' \/ (task.ch = "backspace" /\ a = task.vm - 1)
  BY <1>1, <1>2, <1>3, <1>4 DEF Outgrown
<1>6. \A d \in Consoles \ {p} : \A a \in Int : Outgrown(d, a) => Outgrown(d, a)'
  BY <1>4 DEF Outgrown
<1>7. \A a : InHand(a) => task.ch = "x" /\ a = currentCursor[p]
  BY <1>1 DEF InHand
<1>8. /\ \A a \in Int : task.ch = "backspace" /\ a = task.vm - 1 => InHand(a)'
      /\ \A a \in Int : Noted(a) => Noted(a)'
  <2>1. \A a \in Int : task.ch = "backspace" /\ a = task.vm - 1 => InHand(a)'
    BY <1>1 DEF InHand
  <2>2. \A a \in Int : Noted(a) => Noted(a)'
    BY <1>1, NotedKeeps DEF Next, TtyStep
  <2> QED
    BY <2>1, <2>2
<1>9. ASSUME NEW c \in Consoles, c = p, NEW a \in Int, currentCursor'[c] <= a, a < Limit(c)
      PROVE  Ahead(c, a)'
  <2>1. CASE a < currentCursor[p]
    <3>1. task.ch = "backspace" /\ a = task.vm - 1
      BY <1>1, <1>2, <1>3, <1>4, <1>9, <2>1
    <3>2. InHand(a)'
      BY <1>8, <3>1
    <3> QED
      BY <3>2 DEF Ahead
  <2>2. CASE a >= currentCursor[p]
    <3>1. Ahead(c, a)
      BY <1>2, <1>9, <2>2, BlankCell
    <3>2. ~InHand(a)
      BY <1>2, <1>3, <1>4, <1>7, <1>9
    <3> QED
      BY <1>1, <1>6, <1>8, <1>9, <3>1, <3>2 DEF Ahead
  <2> QED
    BY <1>2, <2>1, <2>2
<1>10. ASSUME NEW c \in Consoles, c # p, NEW a \in Int, currentCursor'[c] <= a, a < Limit(c)
       PROVE  Ahead(c, a)'
  <2>1. Ahead(c, a)
    BY <1>4, <1>10, BlankCell
  <2>2. ASSUME InHand(a)
        PROVE  Outgrown(p, a)'
    <3>1. task.ch = "x" /\ a = currentCursor[p]
      BY <1>7, <2>2
    <3>2. a >= Limit(p)
      <4>1. memoryAddr(c) <= a
        <5>1. memoryAddr(c) \in Nat /\ currentCursor[c] >= memoryAddr(c) /\ currentCursor[c] \in Int
          BY MemoryFacts DEF ScreenInv, Bounded, TypeOK
        <5> QED
          BY <1>4, <1>10, <5>1
      <4>2. ~(a < Limit(p))
        BY <1>1, <1>2, <1>10, <3>1, <4>1, OwnerUnique
      <4> QED
        BY <1>2, <4>2
    <3> QED
      BY <1>2, <1>3, <1>4, <3>1, <3>2 DEF Outgrown
  <2>3. ASSUME Outgrown(p, a)
        PROVE  Outgrown(p, a)' \/ InHand(a)'
    BY <1>5, <1>8, <2>3
  <2>4. ASSUME NEW d \in Consoles \ {c}, Outgrown(d, a)
        PROVE  Ahead(c, a)'
    <3>1. CASE d = p
      BY <1>10, <2>3, <2>4, <3>1 DEF Ahead
    <3>2. CASE d # p
      BY <1>6, <2>4, <3>2 DEF Ahead
    <3> QED
      BY <3>1, <3>2
  <2>5. InHand(a) \/ Noted(a) \/ cells[a] = Blank => Ahead(c, a)'
    BY <1>1, <1>8, <1>10, <2>2 DEF Ahead
  <2> QED
    BY <2>1, <2>4, <2>5 DEF Ahead
<1> QED
  BY <1>4, <1>9, <1>10, BlankByCell

(* What is printed is behind the cursor at once.                           *)
LEMMA BlankPrintChar ==
  ASSUME TypeOK, ScreenInv, BlankInv, PrintChar
  PROVE  BlankInv'
<1>1. print.cons \in Consoles
  BY DEF TypeOK
<1> SUFFICES ASSUME NEW p \in Consoles, p = print.cons
             PROVE  BlankInv'
  BY <1>1
<1>2. /\ currentCursor[p] >= memoryAddr(p) /\ memoryAddr(p) \in Nat /\ currentCursor[p] \in Int
      /\ Limit(p) \in Nat
  BY <1>1, MemoryFacts DEF ScreenInv, Bounded, TypeOK
<1>3. /\ UNCHANGED task
      /\ \A c \in Consoles \ {p} : currentCursor'[c] = currentCursor[c]
      /\ currentCursor'[p] \in Int
      /\ currentCursor[p] <= currentCursor'[p]
      /\ \/ UNCHANGED cells
         \/ /\ cells' = [cells EXCEPT ![currentCursor[p]] = "print"]
            /\ currentCursor'[p] = currentCursor[p] + 1
  BY <1>2, PrintCharFacts
<1>4. currentCursor' \in [Consoles -> Int]
  BY TypeKernel DEF KernelStep, TypeOK
<1>5. ASSUME NEW a, NEW d \in Consoles, Outgrown(d, a)
      PROVE  Outgrown(d, a)'
  <2>1. CASE d = p
    BY <1>2, <1>3, <1>5, <2>1 DEF Outgrown
  <2>2. CASE d # p
    BY <1>3, <1>5, <2>2 DEF Outgrown
  <2> QED
    BY <2>1, <2>2
<1>6. \A a : InHand(a) => InHand(a)'
  BY <1>3 DEF InHand
<1>7. ASSUME NEW c \in Consoles, NEW a \in Int, currentCursor'[c] <= a, a < Limit(c)
      PROVE  Ahead(c, a)'
  <2>1. currentCursor[c] <= a /\ memoryAddr(c) <= a
    <3>1. /\ currentCursor[c] \in Int /\ currentCursor'[c] \in Int /\ memoryAddr(c) \in Nat
          /\ currentCursor[c] >= memoryAddr(c)
      BY <1>4, MemoryFacts DEF ScreenInv, Bounded, TypeOK
    <3>2. currentCursor[c] <= currentCursor'[c]
      BY <1>3, <3>1
    <3> QED
      BY <1>7, <3>1, <3>2
  <2>2. Ahead(c, a)
    BY <1>7, <2>1, BlankCell
  <2>3. CASE cells'[a] = cells[a]
    <3>1. Noted(a) => Noted(a)'
      BY <2>3, NotedKeeps DEF Next, KernelStep
    <3> QED
      BY <1>5, <1>6, <2>2, <2>3, <3>1 DEF Ahead
  <2>4. CASE cells'[a] # cells[a]
    <3>1. a = currentCursor[p] /\ currentCursor'[p] = currentCursor[p] + 1
      <4>1. a \in Address
        BY <1>7, <2>1, AddressFacts
      <4> QED
        BY <1>3, <2>4, <4>1 DEF TypeOK
    <3>2. c # p
      BY <1>2, <1>7, <3>1
    <3>3. ~(a < Limit(p))
      BY <1>1, <1>2, <1>7, <2>1, <3>1, <3>2, OwnerUnique
    <3>4. Outgrown(p, a)'
      BY <1>2, <3>1, <3>3 DEF Outgrown
    <3> QED
      BY <1>1, <3>2, <3>4 DEF Ahead
  <2> QED
    BY <2>3, <2>4
<1> QED
  BY <1>4, <1>7, BlankByCell

LEMMA BlankInductive == TypeOK /\ ScreenInv /\ EchoInv /\ BlankInv /\ [Next]_vars => BlankInv'
<1> SUFFICES ASSUME TypeOK, ScreenInv, EchoInv, BlankInv, [Next]_vars PROVE BlankInv'
  OBVIOUS
<1>1. ASSUME TtyStep, ~Put, ~Store, ~Erase, ~NoteStep
      PROVE  BlankInv'
  <2>1. UNCHANGED <<cells, currentCursor>>
    BY <1>1 DEF TtyStep, NoteStep, NoKey, TypeChar, TypeScroll, TypeSelect, Write, Guard, Load, Full, Scroll,
       ScrollLoad, ScrollStore, Reselect, ReadCursor, setCursor, ReadStart, setVideoStartAddr, screen
  <2>2. CASE Load
    <3>1. task.pc = "load" /\ task'.pc = "store" /\ task'.ch = task.ch /\ task'.vm = task.vm
      BY <2>2 DEF Load, At, TypeOK, Tasks
    <3> QED
      BY <2>1, <3>1, BlankFrame
  <2>3. CASE ~Load
    <3>1. task.pc \notin {"load", "store", "erase"}
      BY <1>1, <2>3 DEF TtyStep, NoteStep, NoKey, TypeChar, TypeScroll, TypeSelect, Write, Guard, Full, Scroll,
         ScrollLoad, ScrollStore, Reselect, ReadCursor, setCursor, ReadStart, setVideoStartAddr, At
    <3> QED
      BY <2>1, <3>1, BlankFrame
  <2> QED
    BY <2>2, <2>3
<1>2. PrintScroll \/ PrintDone \/ (\E c \in Printed, s \in Strings : sys_printx(c, s)) \/ UNCHANGED vars
        => UNCHANGED <<cells, currentCursor, task>>
  BY DEF PrintScroll, PrintDone, sys_printx, vars, screen
<1> QED
  BY <1>1, <1>2, BlankPut, BlankStore, BlankErase, BlankNote, BlankPrintChar, BlankFrame
     DEF Next, KernelStep

LEMMA InitBlank == Init => KeysInv /\ EchoInv /\ NoteInv /\ BlankInv
<1> SUFFICES ASSUME Init PROVE KeysInv /\ EchoInv /\ NoteInv /\ BlankInv
  OBVIOUS
<1>1. task.pc = "read"
  BY IdleFacts DEF Init
<1>2. EchoInv /\ KeysInv /\ NoteInv
  BY <1>1 DEF EchoInv, KeysInv, NoteInv, Init
<1>3. TypeOK /\ ScreenInv
  BY InitType, InitScreen
<1>4. ASSUME NEW c \in Consoles, NEW a \in currentCursor[c] .. Limit(c) - 1
      PROVE  Ahead(c, a)
  <2>1. /\ memoryAddr(c) \in Nat /\ Limit(c) \in Nat /\ currentCursor[c] \in Int
        /\ currentCursor[c] >= memoryAddr(c) /\ Width \in Nat /\ Width > 2
        /\ BootCursor \in Nat /\ BootCursor < ScreenSize /\ ScreenSize < MemLimit /\ MemLimit \in Nat
        /\ ScreenSize \in Nat /\ 0 \in Consoles
    BY <1>3, MemoryFacts, ConstantFacts DEF ScreenInv, Bounded, TypeOK
  <2>2. a \in Int /\ memoryAddr(c) <= a /\ a < Limit(c) /\ currentCursor[c] <= a
    BY <2>1
  <2>3. a \in Address
    BY <2>2, AddressFacts
  <2>4. memoryAddr(0) = 0 /\ Limit(0) = MemLimit
    BY <2>1, MemoryFacts DEF memoryAddr
  <2>5. a \notin 0 .. BootCursor - 1
    <3>1. SUFFICES ASSUME a \in 0 .. BootCursor - 1 PROVE FALSE
      OBVIOUS
    <3>2. c = 0
      BY <2>1, <2>2, <2>4, <3>1, OwnerUnique
    <3>3. currentCursor[c] = BootCursor
      BY <3>2, <2>1 DEF Init
    <3> QED
      BY <2>1, <2>2, <3>1, <3>3
  <2>6. ASSUME NEW d \in Consoles \ {0}
        PROVE  a \notin Greeting(d)
    <3>1. /\ memoryAddr(d) \in Nat /\ Limit(d) = memoryAddr(d) + MemLimit
          /\ ScreenSize >= 2 * Width
      BY MemoryFacts, ConstantFacts
    <3>2. SUFFICES ASSUME a \in {memoryAddr(d), memoryAddr(d) + 1} PROVE FALSE
      BY DEF Greeting
    <3>3. c = d
      BY <2>1, <2>2, <3>1, <3>2, OwnerUnique
    <3>4. currentCursor[c] = memoryAddr(c) + Width
      BY <3>3 DEF Init
    <3> QED
      BY <2>1, <2>2, <3>2, <3>3, <3>4
  <2>7. a \notin BootCells
    BY <2>5, <2>6 DEF BootCells
  <2>8. cells[a] = Blank
    BY <2>3, <2>7 DEF Init
  <2> QED
    BY <2>8 DEF Ahead
<1> QED
  BY <1>2, <1>4 DEF BlankInv

(* Where keys and printed text do not meet on a console, the cursor that   *)
(* taskTTY has read is still the one it stores back, and the text ahead of *)
(* a cursor is at most what DispStr has noted, or that of another console  *)
(* that has outgrown its memory (outChar, DispStr).                        *)
THEOREM EchoInvariant ==
  ASSUME Typed \cap Printed = {}
  PROVE  Spec => [](KeysInv /\ EchoInv /\ NoteInv /\ BlankInv)
<1>1. /\ TypeOK /\ ScreenInv /\ (KeysInv /\ EchoInv /\ NoteInv /\ BlankInv) /\ [Next]_vars
      => (KeysInv /\ EchoInv /\ NoteInv /\ BlankInv)'
  BY KeysInductive, EchoInductive, NoteInductive, BlankInductive
<1> QED
  BY <1>1, InitBlank, TtyTyped, ScreensInvariant, PTL DEF Spec

(* While no console outgrows its memory nothing lies ahead of a cursor but *)
(* the character taskTTY is writing or erasing, and what DispStr has noted *)
(* on its way from the top of the video memory to its own cursor, if keys  *)
(* are echoed on other consoles than processes print to.                   *)
THEOREM NothingAhead ==
  ASSUME Typed \cap Printed = {}
  PROVE  Spec => []BlankAhead
<1>1. ASSUME TypeOK, BlankInv
      PROVE  BlankAhead
  <2>1. SUFFICES ASSUME OwnMemory, NEW c \in Consoles, NEW a \in currentCursor[c] .. Limit(c) - 1
                 PROVE  cells[a] = Blank \/ InHand(a) \/ (cells[a] = "note" /\ a < NotedTo)
    BY DEF BlankAhead
  <2>2. Ahead(c, a)
    BY <1>1 DEF BlankInv
  <2>3. ASSUME NEW d \in Consoles
        PROVE  ~Outgrown(d, a)
    <3>1. currentCursor[d] \in Int /\ Limit(d) \in Nat /\ currentCursor[d] <= Limit(d)
      BY <1>1, <2>1, MemoryFacts DEF OwnMemory, TypeOK
    <3> QED
      BY <3>1 DEF Outgrown
  <2> QED
    BY <2>2, <2>3 DEF Ahead, Noted
<1> QED
  BY <1>1, TtyTyped, EchoInvariant, PTL

(* The next character of a console falls on no text.                       *)
LEMMA NextCellFree ==
  ASSUME TypeOK, ScreenInv, BlankInv, \A c \in Consoles : currentCursor[c] < Limit(c),
         NEW c \in Consoles
  PROVE  ~Text(currentCursor[c]) \/ InHand(currentCursor[c])
<1>1. currentCursor[c] \in Int /\ currentCursor[c] <= currentCursor[c]
  BY DEF TypeOK
<1>2. Ahead(c, currentCursor[c])
  BY <1>1, BlankCell
<1>3. ASSUME NEW d \in Consoles
      PROVE  ~Outgrown(d, currentCursor[c])
  <2>1. currentCursor[d] \in Int /\ Limit(d) \in Nat /\ currentCursor[d] < Limit(d)
    BY MemoryFacts DEF TypeOK
  <2> QED
    BY <1>1, <2>1 DEF Outgrown
<1> QED
  BY <1>2, <1>3 DEF Ahead, Noted, Text

(* No text on the screen is ever replaced by the next character of a       *)
(* console, as long as no console is full and keys are echoed on other     *)
(* consoles than processes print to: the last is what the race of taskTTY  *)
(* with printx takes away.  Only DispStr replaces text, by the next        *)
(* NoteLength characters from its cursor on, which moves over every place  *)
(* once (outChar, DispStr).                                                *)
THEOREM TextKept ==
  ASSUME Typed \cap Printed = {}
  PROVE  Spec => KeptText
<1> DEFINE Kept == (\A c \in Consoles : currentCursor[c] < Limit(c)) =>
                     \A a \in Address : Text(a) =>
                       \/ cells'[a] \in {cells[a], Blank}
                       \/ cells'[a] = "note" /\ Noting(a)
<1>1. ASSUME TypeOK, ScreenInv, EchoInv, NoteInv, BlankInv, [Next]_vars
      PROVE  Kept
  <2> SUFFICES ASSUME \A c \in Consoles : currentCursor[c] < Limit(c),
                      NEW a \in Address, Text(a)
               PROVE  \/ cells'[a] \in {cells[a], Blank}
                      \/ cells'[a] = "note" /\ Noting(a)
    OBVIOUS
  <2>1. CASE UNCHANGED cells
    BY <2>1
  <2>2. CASE Put
    <3>1. /\ task.pc = "put" /\ task.cons \in Consoles /\ task.vm = currentCursor[task.cons]
          /\ cells' = [cells EXCEPT ![task.vm] = "key"]
      BY <1>1, <2>2 DEF Put, At, EchoInv, TypeOK, Tasks
    <3>2. ~Text(task.vm)
      BY <1>1, <3>1, NextCellFree DEF InHand
    <3> QED
      BY <1>1, <3>1, <3>2 DEF TypeOK
  <2>3. CASE Erase
    BY <1>1, <2>3 DEF Erase, TypeOK
  <2>4. CASE PrintChar
    <3> DEFINE p == print.cons
    <3>1. p \in Consoles /\ currentCursor[p] >= memoryAddr(p)
      BY <1>1 DEF TypeOK, ScreenInv, Bounded
    <3>2. p \in Printed /\ (UNCHANGED cells \/ cells' = [cells EXCEPT ![currentCursor[p]] = "print"])
      BY <1>1, <2>4, <3>1, PrintCharFacts
    <3> HIDE DEF p
    <3>3. ~InHand(currentCursor[p])
      <4>1. SUFFICES ASSUME InHand(currentCursor[p]) PROVE FALSE
        OBVIOUS
      <4>2. task.cons \in Typed /\ task.cons \in Consoles /\ currentCursor[p] = currentCursor[task.cons]
        <5>1. task.cons \in Consoles /\ task.vm \in Int /\ currentCursor[task.cons] \in Int
          BY <1>1 DEF TypeOK, Tasks
        <5> QED
          BY <1>1, <4>1, <5>1 DEF InHand, EchoInv
      <4>3. /\ currentCursor[p] \in Int /\ currentCursor[task.cons] >= memoryAddr(task.cons)
            /\ memoryAddr(p) \in Nat /\ memoryAddr(task.cons) \in Nat
            /\ currentCursor[p] < Limit(p) /\ currentCursor[task.cons] < Limit(task.cons)
        BY <1>1, <3>1, <4>2, MemoryFacts DEF TypeOK, ScreenInv, Bounded
      <4>4. p = task.cons
        BY <3>1, <4>2, <4>3, OwnerUnique
      <4> QED
        BY <3>2, <4>2, <4>4
    <3>4. ~Text(currentCursor[p])
      BY <1>1, <3>1, <3>3, NextCellFree
    <3> QED
      BY <1>1, <3>2, <3>4 DEF TypeOK
  <2>6. CASE NoteStep
    <3>1. \/ UNCHANGED cells
          \/ /\ task.pc = "disp" /\ task.vm < Cursor + NoteLength
             /\ cells' = [cells EXCEPT ![task.vm] = "note"]
      BY <1>1, <2>6, NoteSteps
    <3>2. CASE task.pc = "disp" /\ task.vm < Cursor + NoteLength
               /\ cells' = [cells EXCEPT ![task.vm] = "note"]
      <4>1. /\ task.vm \in Cursor .. Cursor + NoteLength
            /\ Cursor \in Nat /\ task.vm \in Int /\ NoteLength \in Nat
        BY <1>1, <3>2, ConstantFacts DEF NoteInv, TypeOK, Tasks
      <4>2. Noting(task.vm)
        BY <3>2, <4>1 DEF Noting
      <4> QED
        BY <1>1, <3>2, <4>2 DEF TypeOK
    <3> QED
      BY <3>1, <3>2
  <2>5. Put \/ Erase \/ PrintChar \/ NoteStep \/ UNCHANGED cells
    BY <1>1 DEF NoteStep, Next, KernelStep, TtyStep, NoKey, TypeChar, TypeScroll, TypeSelect, Write, Guard, Load,
       Store, Full, Scroll, ScrollLoad, ScrollStore, Reselect, ReadCursor, setCursor, ReadStart,
       setVideoStartAddr, PrintScroll, PrintDone, sys_printx, vars, screen
  <2> QED
    BY <2>1, <2>2, <2>3, <2>4, <2>5, <2>6
<1>2. TypeOK /\ ScreenInv /\ (KeysInv /\ EchoInv /\ NoteInv /\ BlankInv) /\ [Next]_vars => [Kept]_vars
  BY <1>1
<1> QED
  BY <1>2, TtyTyped, ScreensInvariant, EchoInvariant, PTL DEF Spec, KeptText
=============================================================================
