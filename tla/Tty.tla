-------------------------------- MODULE Tty --------------------------------
(***************************************************************************)
(* The terminals: taskTTY() with the consoles and the video memory, and    *)
(* the processes that print to them with printx().                         *)
(*                                                                         *)
(* taskTTY runs in ring 1 and is preempted anywhere; its steps are its     *)
(* accesses to what it shares with sys_printx (the compiler is run without *)
(* optimisation, so x++ is a load and a store).  sys_printx runs in the    *)
(* kernel, where the clock does not schedule: taskTTY takes no step before *)
(* the whole string is printed.                                            *)
(*                                                                         *)
(* Addresses are WORD addresses of the video memory.  A cell holds blank,  *)
(* or who put its character there: the boot messages, a process that       *)
(* prints, a typed key that is echoed, or DispStr(), with which            *)
(* keyboardRead notes on the screen a key it cannot hand on.               *)
(***************************************************************************)
EXTENDS Integers, Sequences

CONSTANTS
  NConsoles,     \* NR_CONSOLES, also NR_TTY
  Width,         \* SCREEN_WIDTH
  Height,        \* SCREEN_HEIGHT
  MemLimit,      \* vRamPerConsole
  BootCursor,    \* the cursor the boot messages leave, in WORDs
  InBytes,       \* TTY_IN_BYTES
  Keys,          \* what is typed: characters, "up" and "down" with shift,
                 \* and "prtscr", which is not handed on
  Typed,         \* the consoles characters are typed on
  Selected,      \* the consoles selected with shift and F1, F2
  Strings,       \* what processes print
  Printed,       \* the consoles they print to
  NoteLength,    \* the length of "cannot hand"
  GsWords        \* the WORDs of the segment gs, which DispStr() writes to

Chars    == {"x", "newline", "backspace"}
Consoles == 0 .. NConsoles - 1
ScreenSize == Width * Height
memoryAddr(c) == c * MemLimit

ASSUME TtyAssumption ==
  /\ {NConsoles, Width, Height, MemLimit, InBytes} \subseteq Nat \ {0}
  /\ Width > 2 /\ Height > 1
  /\ ScreenSize < MemLimit
  /\ BootCursor \in 0 .. ScreenSize - 1
  /\ Keys \subseteq Chars \cup {"up", "down", "prtscr"}
  /\ Typed \subseteq Consoles
  /\ Selected \subseteq Consoles
  /\ Strings \subseteq Seq(Chars \ {"backspace"}) \ {<<>>}
  /\ Printed \subseteq Consoles
  /\ NoteLength \in Nat \ {0}
  /\ GsWords \in Nat

VARIABLES
  startAddr, currentCursor,  \* of each Console
  indexCurrentConsole,
  Cursor,                    \* where DispStr() goes on, in WORDs
  cells,                     \* the video memory, and what follows it
  crtc,                      \* the cursor and start registers of the CRTC
  in_buf,                    \* of each TTY, oldest key first
  task,                      \* where taskTTY is, and its local variables
  print                      \* where sys_printx is, for which console, and
                             \* what is left of its string

vars == <<startAddr, currentCursor, indexCurrentConsole, Cursor, cells, crtc, in_buf, task, print>>
screen == <<startAddr, currentCursor, indexCurrentConsole, Cursor, cells, crtc>>

Blank   == "blank"
Address == -1 .. NConsoles * MemLimit + 3 * Width + GsWords

-----------------------------------------------------------------------------
(* outChar and scrollScreen, their parts                                   *)

(* The guards of the three cases of the switch.                            *)
Admits(c, ch, cursor, start) ==
  \/ ch = "newline"   /\ cursor < memoryAddr(c) + MemLimit - Width
  \/ ch = "backspace" /\ cursor > memoryAddr(c)
  \/ ch = "x"         /\ cursor < start + MemLimit

(* The beginning of the line below the one of a cursor.                    *)
NextLine(c, cursor) == memoryAddr(c) + Width * ((cursor - memoryAddr(c)) \div Width + 1)

(* Mutant: a new line is counted from the start of the video memory.       *)
MovedFromZero(c, ch, cursor) ==
  IF ch = "newline" THEN NextLine(c, cursor) - memoryAddr(c)
  ELSE IF ch = "backspace" THEN cursor - 1 ELSE cursor + 1

(* Where each of them moves the cursor.                                    *)
Moved(c, ch, cursor) ==
  IF ch = "newline" THEN NextLine(c, cursor)
  ELSE IF ch = "backspace" THEN cursor - 1 ELSE cursor + 1

OffScreen(cursor, start) == cursor >= start + ScreenSize

(* Mutant: the screen's size is left out of the condition.                 *)
CanScrollBeyond(c, dir, start) ==
  IF dir = "up" THEN start > memoryAddr(c) ELSE start < memoryAddr(c) + MemLimit

(* scrollScreen's two conditions, and the line it moves by.                *)
CanScroll(c, dir, start) ==
  IF dir = "up" THEN start > memoryAddr(c)
                ELSE start + ScreenSize < memoryAddr(c) + MemLimit

ScrolledBy(dir) == IF dir = "up" THEN -Width ELSE Width

-----------------------------------------------------------------------------
(* taskTTY up to its loop: initTTY for every terminal (console 0 takes     *)
(* over the screen, and the cursor of DispStr is set back to its top; the  *)
(* others print # and their number on a first line), selectConsole(0).     *)
Greeting(c) == {memoryAddr(c), memoryAddr(c) + 1}
BootCells == 0 .. BootCursor - 1 \cup UNION {Greeting(c) : c \in Consoles \ {0}}

Idle == [pc |-> "read", tty |-> 0, cons |-> 0, ch |-> "x", vm |-> 0, tmp |-> 0,
         dir |-> "down", after |-> "read"]
NotPrinting == [pc |-> "idle", cons |-> 0, rest |-> <<>>]

Init ==
  /\ startAddr = [c \in Consoles |-> memoryAddr(c)]
  /\ currentCursor = [c \in Consoles |-> IF c = 0 THEN BootCursor ELSE memoryAddr(c) + Width]
  /\ indexCurrentConsole = 0
  /\ Cursor = 0
  /\ cells = [a \in Address |-> IF a \in BootCells THEN "boot" ELSE Blank]
  /\ crtc = [cursor |-> BootCursor, start |-> 0]
  /\ in_buf = [t \in Consoles |-> <<>>]
  /\ task = Idle
  /\ print = NotPrinting

-----------------------------------------------------------------------------
(* printx() by a process whose nr_tty is c.                                *)
sys_printx(c, s) ==
  /\ print.pc = "idle" /\ task.pc # "fault"
  /\ print' = [pc |-> "char", cons |-> c, rest |-> s]
  /\ UNCHANGED <<screen, in_buf, task>>

(* outChar(c, ch) for the next character: the switch.                      *)
PrintChar ==
  LET c == print.cons
      ch == Head(print.rest)
  IN  /\ print.pc = "char"
      /\ IF Admits(c, ch, currentCursor[c], startAddr[c])
         THEN /\ currentCursor' = [currentCursor EXCEPT ![c] = Moved(c, ch, @)]
              /\ cells' = IF ch = "x" THEN [cells EXCEPT ![currentCursor[c]] = "print"] ELSE cells
         ELSE UNCHANGED <<currentCursor, cells>>
      /\ print' = [print EXCEPT !.pc = "scroll"]
      /\ UNCHANGED <<startAddr, indexCurrentConsole, Cursor, crtc, in_buf, task>>

(* The loop of outChar; where scrollScreen does nothing it goes on for     *)
(* ever, and so does the kernel: nothing else runs any more.               *)
PrintScroll ==
  LET c == print.cons
  IN  /\ print.pc = "scroll" /\ OffScreen(currentCursor[c], startAddr[c])
      /\ startAddr' = IF CanScroll(c, "down", startAddr[c])
                      THEN [startAddr EXCEPT ![c] = @ + Width] ELSE startAddr
      /\ crtc' = [cursor |-> currentCursor[c], start |-> startAddr'[c]]
      /\ UNCHANGED <<currentCursor, indexCurrentConsole, Cursor, cells, in_buf, task, print>>

(* Mutant: outChar leaves its own console on the display.                  *)
PrintDoneShown ==
  /\ print.pc = "scroll" /\ ~OffScreen(currentCursor[print.cons], startAddr[print.cons])
  /\ crtc' = [cursor |-> currentCursor[print.cons], start |-> startAddr[print.cons]]
  /\ print' = IF Tail(print.rest) = <<>> THEN NotPrinting
              ELSE [print EXCEPT !.pc = "char", !.rest = Tail(@)]
  /\ UNCHANGED <<startAddr, currentCursor, indexCurrentConsole, Cursor, cells, in_buf, task>>

(* flush, and selectConsole(indexCurrentConsole), whose registers remain.  *)
PrintDone ==
  /\ print.pc = "scroll" /\ ~OffScreen(currentCursor[print.cons], startAddr[print.cons])
  /\ crtc' = [cursor |-> currentCursor[indexCurrentConsole],
              start  |-> startAddr[indexCurrentConsole]]
  /\ print' = IF Tail(print.rest) = <<>> THEN NotPrinting
              ELSE [print EXCEPT !.pc = "char", !.rest = Tail(@)]
  /\ UNCHANGED <<startAddr, currentCursor, indexCurrentConsole, Cursor, cells, in_buf, task>>

KernelStep == PrintChar \/ PrintScroll \/ PrintDone

-----------------------------------------------------------------------------
(* taskTTY                                                                 *)

At(pc) == print.pc = "idle" /\ task.pc = pc
NextTty == (task.tty + 1) % NConsoles
Goto(pc) == task' = [task EXCEPT !.pc = pc]

(* flush or selectConsole, and scrollScreen; outChar's locals are done with.*)
Shows(c, after) == [Idle EXCEPT !.tty = task.tty, !.pc = "cursor", !.cons = c, !.after = after]
Scrolls(c, dir, after) ==
  [Idle EXCEPT !.tty = task.tty, !.pc = "scroll", !.cons = c, !.dir = dir, !.after = after]

(* ttyRead: keyboardRead is called for the current console only, and hands *)
(* at most one key to vga_processKey.  Without a call, and when nothing is *)
(* typed or released that has an effect:                                   *)
NoKey == At("read") /\ Goto("write") /\ UNCHANGED <<screen, in_buf, print>>

TypeChar(k) ==
  /\ At("read") /\ task.tty = indexCurrentConsole
  /\ k \in Chars /\ task.tty \in Typed
  /\ in_buf' = IF Len(in_buf[task.tty]) < InBytes
               THEN [in_buf EXCEPT ![task.tty] = Append(@, k)] ELSE in_buf
  /\ Goto("write")
  /\ UNCHANGED <<screen, print>>

TypeScroll(k) ==
  /\ At("read") /\ task.tty = indexCurrentConsole
  /\ k \in {"up", "down"}
  /\ task' = Scrolls(task.tty, k, "write")
  /\ UNCHANGED <<screen, in_buf, print>>

(* F1 and F2 with the left shift key: selectConsole(i).                    *)
TypeSelect(i) ==
  /\ At("read") /\ task.tty = indexCurrentConsole
  /\ indexCurrentConsole' = i
  /\ task' = Shows(i, "write")
  /\ UNCHANGED <<startAddr, currentCursor, Cursor, cells, crtc, in_buf, print>>

(* Print Screen or Pause: DispStr("cannot hand"), at its own cursor, that  *)
(* is over what the consoles show.                                         *)
CannotHand ==
  /\ At("read") /\ task.tty = indexCurrentConsole
  /\ "prtscr" \in Keys
  /\ task' = [task EXCEPT !.pc = "disp", !.vm = Cursor]
  /\ UNCHANGED <<screen, in_buf, print>>

(* One character.  Beyond the segment this is exception 13, in which the   *)
(* machine halts (Failure): nothing runs any more.                         *)
DispChar ==
  /\ At("disp") /\ task.vm < Cursor + NoteLength
  /\ IF task.vm < GsWords
     THEN /\ cells' = [cells EXCEPT ![task.vm] = "note"]
          /\ task' = [task EXCEPT !.vm = @ + 1]
     ELSE Goto("fault") /\ UNCHANGED cells
  /\ UNCHANGED <<startAddr, currentCursor, indexCurrentConsole, Cursor, crtc, in_buf, print>>

DispDone ==
  /\ At("disp") /\ task.vm = Cursor + NoteLength
  /\ Cursor' = task.vm
  /\ task' = [Idle EXCEPT !.tty = task.tty, !.pc = "write"]
  /\ UNCHANGED <<startAddr, currentCursor, indexCurrentConsole, cells, crtc, in_buf, print>>

(* Mutant: ttyWrite forgets to count the key it has taken.                 *)
WriteUncounted ==
  /\ At("write")
  /\ task' = IF in_buf[task.tty] = <<>> THEN [Idle EXCEPT !.tty = NextTty]
             ELSE [task EXCEPT !.pc = "guard", !.cons = task.tty,
                               !.ch = Head(in_buf[task.tty]), !.vm = currentCursor[task.tty]]
  /\ UNCHANGED <<screen, in_buf, print>>

(* ttyWrite: the next key of in_buf goes to outChar, up to line 188.       *)
Write ==
  /\ At("write")
  /\ IF in_buf[task.tty] = <<>>
     THEN /\ task' = [Idle EXCEPT !.tty = NextTty]
          /\ UNCHANGED in_buf
     ELSE /\ in_buf' = [in_buf EXCEPT ![task.tty] = Tail(@)]
          /\ task' = [task EXCEPT !.pc = "guard", !.cons = task.tty,
                                  !.ch = Head(in_buf[task.tty]), !.vm = currentCursor[task.tty]]
  /\ UNCHANGED <<screen, print>>

Guard ==
  /\ At("guard")
  /\ Goto(IF ~Admits(task.cons, task.ch, currentCursor[task.cons], startAddr[task.cons])
          THEN "full" ELSE IF task.ch = "x" THEN "put" ELSE "load")
  /\ UNCHANGED <<screen, in_buf, print>>

Put ==
  /\ At("put")
  /\ cells' = [cells EXCEPT ![task.vm] = "key"]
  /\ Goto("load")
  /\ UNCHANGED <<startAddr, currentCursor, indexCurrentConsole, Cursor, crtc, in_buf, print>>

Load ==
  /\ At("load")
  /\ task' = [task EXCEPT !.pc = "store", !.tmp = currentCursor[task.cons]]
  /\ UNCHANGED <<screen, in_buf, print>>

Store ==
  /\ At("store")
  /\ currentCursor' = [currentCursor EXCEPT ![task.cons] = Moved(task.cons, task.ch, task.tmp)]
  /\ Goto(IF task.ch = "backspace" THEN "erase" ELSE "full")
  /\ UNCHANGED <<startAddr, indexCurrentConsole, Cursor, cells, crtc, in_buf, print>>

Erase ==
  /\ At("erase")
  /\ cells' = [cells EXCEPT ![task.vm - 1] = Blank]
  /\ Goto("full")
  /\ UNCHANGED <<startAddr, currentCursor, indexCurrentConsole, Cursor, crtc, in_buf, print>>

(* Mutant: a full screen is scrolled the wrong way.                        *)
FullUp ==
  /\ At("full")
  /\ task' = IF OffScreen(currentCursor[task.cons], startAddr[task.cons])
             THEN Scrolls(task.cons, "up", "full")
             ELSE Shows(task.cons, "select")
  /\ UNCHANGED <<screen, in_buf, print>>

(* The condition of the loop; after it flush and selectConsole.            *)
Full ==
  /\ At("full")
  /\ task' = IF OffScreen(currentCursor[task.cons], startAddr[task.cons])
             THEN Scrolls(task.cons, "down", "full")
             ELSE Shows(task.cons, "select")
  /\ UNCHANGED <<screen, in_buf, print>>

(* scrollScreen: the condition, then startAddr -= or += SCREEN_WIDTH, then *)
(* flush.                                                                  *)
Scroll ==
  /\ At("scroll")
  /\ task' = IF CanScroll(task.cons, task.dir, startAddr[task.cons])
             THEN [task EXCEPT !.pc = "line"] ELSE Shows(task.cons, task.after)
  /\ UNCHANGED <<screen, in_buf, print>>

ScrollLoad ==
  /\ At("line")
  /\ task' = [task EXCEPT !.pc = "move", !.tmp = startAddr[task.cons]]
  /\ UNCHANGED <<screen, in_buf, print>>

(* Mutant: the cursor is moved with the screen.                            *)
ScrollStoreCursor ==
  /\ At("move")
  /\ startAddr' = [startAddr EXCEPT ![task.cons] = task.tmp + ScrolledBy(task.dir)]
  /\ currentCursor' = [currentCursor EXCEPT ![task.cons] = @ + ScrolledBy(task.dir)]
  /\ task' = Shows(task.cons, task.after)
  /\ UNCHANGED <<indexCurrentConsole, Cursor, cells, crtc, in_buf, print>>

ScrollStore ==
  /\ At("move")
  /\ startAddr' = [startAddr EXCEPT ![task.cons] = task.tmp + ScrolledBy(task.dir)]
  /\ task' = Shows(task.cons, task.after)
  /\ UNCHANGED <<currentCursor, indexCurrentConsole, Cursor, cells, crtc, in_buf, print>>

(* selectConsole(indexCurrentConsole) at the end of outChar.               *)
Reselect ==
  /\ At("select")
  /\ task' = Shows(indexCurrentConsole, "read")
  /\ UNCHANGED <<screen, in_buf, print>>

(* flush, and the same two calls in selectConsole: each argument is read   *)
(* before setCursor or setVideoStartAddr disables interrupts.              *)
ReadCursor ==
  /\ At("cursor")
  /\ task' = [task EXCEPT !.pc = "set_cursor", !.tmp = currentCursor[task.cons]]
  /\ UNCHANGED <<screen, in_buf, print>>

setCursor ==
  /\ At("set_cursor")
  /\ crtc' = [crtc EXCEPT !.cursor = task.tmp]
  /\ task' = [task EXCEPT !.pc = "start", !.tmp = 0]
  /\ UNCHANGED <<startAddr, currentCursor, indexCurrentConsole, Cursor, cells, in_buf, print>>

ReadStart ==
  /\ At("start")
  /\ task' = [task EXCEPT !.pc = "set_start", !.tmp = startAddr[task.cons]]
  /\ UNCHANGED <<screen, in_buf, print>>

setVideoStartAddr ==
  /\ At("set_start")
  /\ crtc' = [crtc EXCEPT !.start = task.tmp]
  /\ task' = IF task.after = "read" THEN [Idle EXCEPT !.tty = NextTty]
             ELSE IF task.after = "write" THEN [Idle EXCEPT !.tty = task.tty, !.pc = "write"]
             ELSE [task EXCEPT !.pc = task.after]
  /\ UNCHANGED <<startAddr, currentCursor, indexCurrentConsole, Cursor, cells, in_buf, print>>

TtyStep ==
  \/ NoKey
  \/ \E k \in Keys \cap Chars : TypeChar(k)
  \/ \E k \in Keys \cap {"up", "down"} : TypeScroll(k)
  \/ \E i \in Selected : TypeSelect(i)
  \/ CannotHand \/ DispChar \/ DispDone
  \/ Write \/ Guard \/ Put \/ Load \/ Store \/ Erase \/ Full
  \/ Scroll \/ ScrollLoad \/ ScrollStore \/ Reselect
  \/ ReadCursor \/ setCursor \/ ReadStart \/ setVideoStartAddr

Next == TtyStep \/ KernelStep \/ \E c \in Printed, s \in Strings : sys_printx(c, s)

Spec == Init /\ [][Next]_vars

(* The kernel does not stop in a system call, and the scheduler gives      *)
(* taskTTY the processor again and again between them.                     *)
FairSpec == Spec /\ WF_vars(KernelStep) /\ SF_vars(TtyStep)

-----------------------------------------------------------------------------
(* Properties                                                              *)

Limit(c) == memoryAddr(c) + MemLimit
UsedUp(c) == OffScreen(currentCursor[c], startAddr[c]) /\ ~CanScroll(c, "down", startAddr[c])

(* The kernel is in the loop of outChar for ever.                          *)
Stuck == print.pc = "scroll" /\ UsedUp(print.cons)

(* Each console writes to its equal part of the video memory               *)
(* (tty.c:270-273): the cursor, where the next character goes, is never    *)
(* beyond its end.                                                         *)
OwnMemory == \A c \in Consoles : currentCursor[c] <= Limit(c)

(* What taskTTY has written but not yet passed with the cursor, or passed  *)
(* backwards but not yet erased.                                           *)
InHand(a) ==
  \/ task.pc \in {"load", "store"} /\ task.ch = "x" /\ task.vm = a
  \/ task.pc = "erase" /\ task.vm - 1 = a

(* How far DispStr has come: it notes from the top of the video memory on. *)
NotedTo == IF task.pc \in {"disp", "fault"} THEN task.vm ELSE Cursor

(* As long as no console outgrows its memory, what is ahead of a console's *)
(* cursor is blank, but for what DispStr has noted there, from the top of  *)
(* the video memory to its own cursor: however scrolling, switching, notes *)
(* and printing on other consoles interleave, the next character of a      *)
(* console destroys no text (outChar, DispStr).                            *)
BlankAhead ==
  OwnMemory =>
    \A c \in Consoles : \A a \in currentCursor[c] .. Limit(c) - 1 :
      \/ cells[a] = Blank
      \/ InHand(a)
      \/ cells[a] = "note" /\ a < NotedTo

Text(a) == cells[a] \notin {Blank, "note"}

(* The next NoteLength WORDs of DispStr, while it writes them.             *)
Noting(a) == task.pc = "disp" /\ a \in Cursor .. Cursor + NoteLength - 1

(* A character on the screen is removed by a backspace only, never         *)
(* replaced by another one of a console, as long as the next character of  *)
(* every console belongs to its memory.  DispStr alone writes over text,   *)
(* and only once over each place: what stands before its cursor is safe    *)
(* from it (outChar, DispStr).                                             *)
KeptText ==
  [][(\A c \in Consoles : currentCursor[c] < Limit(c)) =>
       \A a \in Address : Text(a) =>
         \/ cells'[a] \in {cells[a], Blank}
         \/ cells'[a] = "note" /\ Noting(a)]_vars

(* A register shows a position of the current console: where it is now,    *)
(* or, on a console that is printed to, where it was some characters ago.  *)
Shown(register, position) ==
  LET c == indexCurrentConsole
  IN  /\ register \in memoryAddr(c) .. position[c]
      /\ c \notin Printed => register = position[c]

(* Between two keys the display shows the current console, and not the one *)
(* something was last printed to, even when that was in the middle of      *)
(* selectConsole: only what was printed to the current console itself in   *)
(* that moment the registers may miss (outChar, selectConsole).            *)
DisplayOnCurrent ==
  task.pc = "read" /\ print.pc = "idle" =>
    Shown(crtc.cursor, currentCursor) /\ Shown(crtc.start, startAddr)

(* The screen starts at the beginning of a line of its console, and even a *)
(* scrolling key that races with printing moves it at most one line        *)
(* further than scrollScreen's condition allows.  So a console that is     *)
(* used up writes (tty.c:214) less than three lines of the next.           *)
StartBounded ==
  \A c \in Consoles :
    /\ \E k \in 0 .. MemLimit : startAddr[c] = memoryAddr(c) + Width * k
    /\ startAddr[c] + ScreenSize < Limit(c) + 2 * Width
    /\ currentCursor[c] \in memoryAddr(c) .. Limit(c) + 3 * Width - 1

(* taskTTY takes every key out of in_buf before it reads the next: none is *)
(* dropped, none stays behind when the console is switched.                *)
KeysDrained == task.pc = "read" => in_buf = [t \in Consoles |-> <<>>]

(* taskTTY comes back to every terminal for ever, unless a console is full *)
(* or the notes of DispStr have come to the end of its segment.            *)
Served ==
  \/ \A t \in Consoles : []<>(task.pc = "read" /\ task.tty = t)
  \/ <>(\E c \in Consoles : UsedUp(c))
  \/ <>(task.pc = "fault")

(* "if current console is full,scroll screen" (tty.c:225).                 *)
FullScrolls == ~Stuck

-----------------------------------------------------------------------------
(* Inductive invariants.                                                   *)

Flushing == {"cursor", "set_cursor", "start", "set_start"}
Scrolling == {"scroll", "line", "move"} \cup Flushing

Pcs == {"read", "disp", "fault", "write", "guard", "put", "load", "store", "erase", "full",
        "select"} \cup Scrolling
Tasks == [pc : Pcs, tty : Consoles, cons : Consoles, ch : Chars, vm : Int, tmp : Int,
          dir : {"up", "down"}, after : {"read", "write", "full", "select"}]

TypeOK ==
  /\ startAddr \in [Consoles -> Int]
  /\ currentCursor \in [Consoles -> Int]
  /\ indexCurrentConsole \in Consoles
  /\ Cursor \in Nat
  /\ cells \in [Address -> {Blank, "boot", "print", "key", "note"}]
  /\ crtc \in [cursor : Int, start : Int]
  /\ in_buf \in [Consoles -> Seq(Chars)]
  /\ task \in Tasks
  /\ print \in [pc : {"idle", "char", "scroll"}, cons : Consoles,
                rest : Seq(Chars \ {"backspace"})]
  /\ print.pc # "idle" => print.cons \in Printed /\ print.rest # <<>>

(* Only between ttyRead and ttyWrite does a key wait, in the buffer of     *)
(* their terminal, and only one.                                           *)
KeysInv ==
  \A t \in Consoles : in_buf[t] # <<>> =>
    task.pc = "write" /\ task.tty = t /\ t \in Typed /\ Len(in_buf[t]) = 1

(* A line of the console, and what may be added to or taken from a screen  *)
(* that starts there.                                                      *)
OnLine(c, a) == \E k \in 0 .. MemLimit : a = memoryAddr(c) + Width * k
Scrollable(c, dir, a) ==
  IF dir = "up" THEN a > memoryAddr(c) ELSE a + ScreenSize < Limit(c) + Width

(* taskTTY, or the kernel, has moved the cursor of c in outChar and has    *)
(* not left it.                                                            *)
TaskInTail(c) ==
  /\ task.cons = c
  /\ task.pc = "full" \/ (task.pc \in Scrolling /\ task.after = "full")
KernelInTail(c) == print.cons = c /\ print.pc = "scroll"

Bounded(c) ==
  /\ OnLine(c, startAddr[c])
  /\ startAddr[c] + ScreenSize < Limit(c) + 2 * Width
  /\ currentCursor[c] >= memoryAddr(c)
  /\ \/ currentCursor[c] <= Limit(c) + 2 * Width - 2
     \/ TaskInTail(c) /\ currentCursor[c] <= Limit(c) + 3 * Width - 2
     \/ KernelInTail(c) /\ currentCursor[c] <= Limit(c) + 3 * Width - 1

(* The same for the values taskTTY has tested or loaded.                   *)
LoadsBounded ==
  /\ task.pc = "line" => Scrollable(task.cons, task.dir, startAddr[task.cons])
  /\ task.pc = "move" =>
       /\ OnLine(task.cons, task.tmp)
       /\ Scrollable(task.cons, task.dir, task.tmp)
       /\ task.tmp + ScreenSize < Limit(task.cons) + 2 * Width
  /\ task.pc = "put" => task.ch = "x"
  /\ task.pc = "load" /\ task.ch = "backspace" =>
       currentCursor[task.cons] > memoryAddr(task.cons)
  /\ task.pc = "store" =>
       /\ task.tmp >= memoryAddr(task.cons)
       /\ task.ch = "backspace" => task.tmp > memoryAddr(task.cons)
       /\ task.tmp <= Limit(task.cons) + 2 * Width - 2

ScreenInv == LoadsBounded /\ \A c \in Consoles : Bounded(c)

(* selectConsole, or scrolling by a key: the console is the current one.   *)
Selecting == task.pc \in Scrolling /\ task.after \in {"read", "write"}

DisplayInv ==
  /\ Selecting => task.cons = indexCurrentConsole
  /\ Selecting /\ task.pc = "set_cursor" => Shown(task.tmp, currentCursor)
  /\ Selecting /\ task.pc = "set_start"  => Shown(task.tmp, startAddr)
  /\ print.pc # "scroll" =>
       /\ task.pc \in {"read", "disp", "write"} \/ (Selecting /\ task.pc \in {"start", "set_start"})
          => Shown(crtc.cursor, currentCursor)
       /\ task.pc \in {"read", "disp", "write"} => Shown(crtc.start, startAddr)

(* Nobody else moves the cursor taskTTY echoes at.                         *)
EchoInv ==
  /\ task.pc \in {"guard", "put", "load", "store"} =>
       task.cons \in Typed /\ task.vm = currentCursor[task.cons]
  /\ task.pc = "store" => task.tmp = task.vm
  /\ task.pc = "erase" => task.cons \in Typed /\ task.vm = currentCursor[task.cons] + 1

(* DispStr is between its cursor and the end of its note.                  *)
NoteInv == task.pc = "disp" => task.vm \in Cursor .. Cursor + NoteLength

(* Text of a console that has outgrown its memory.                         *)
Outgrown(c, a) == a \in Limit(c) .. currentCursor[c] - 1

Noted(a) == cells[a] = "note" /\ a < NotedTo
Ahead(c, a) ==
  cells[a] = Blank \/ InHand(a) \/ Noted(a) \/ \E d \in Consoles \ {c} : Outgrown(d, a)
BlankInv == \A c \in Consoles : \A a \in currentCursor[c] .. Limit(c) - 1 : Ahead(c, a)
=============================================================================
