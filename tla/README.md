# A TLA+ model of miniOS_vic

miniOS_vic is a small 32-bit x86 teaching kernel: five processes in a fixed
table, preemptive scheduling by the timer, message passing with rendezvous, two
terminals on one keyboard and one screen. This directory holds TLA+ modules that
model it from the boot sector to the terminals, TLC configurations that check
them on small instances, and proofs checked by TLAPS. Paths below are relative to `src/`.

## 1. The system

Two tasks in ring 1 (0: TTY, 1: SYS, 15 ticks each) and three user processes in
ring 3 (2: TestA, 3: TestB, 4: TestC, 5 ticks each), all known at build time.
They share one address space layout, enter the kernel with `int 90h` (`sendrec`,
`printx`) and are interrupted by the clock (IRQ 0) and the keyboard (IRQ 1).

A fact that shapes every module: a system call runs with interrupts *enabled* but
with `k_reenter = 0`, and every interrupt that nests into it sees `k_reenter > 0`,
for which `clockHandler` returns before `schedule()`. So a system call is never
*preempted*, though it is *interrupted*; ring 1 and ring 3 code is preempted
anywhere. `Sched` models and checks this itself; the other modules rely on it.

| Part | State | Operations | What is hard | What makes it correct |
| --- | --- | --- | --- | --- |
| Message passing, `kernel/ipc.c` | per PCB: `p_flags`, `p_msg`, `p_sendto`, `p_recvfrom`, `q_sending`, `next_sending` | `sys_sendrec`, `msg_send`, `msg_receive`, `deadlock`, `block`, `unblock`, `send_recv` | linked queues, two parties that may come first, pointers into blocked processes, circles of waiting | queue = the blocked senders in order; no lost wakeup; no circle; delivery to the right buffer |
| Scheduling, clock, kernel entry, `kernel/proc.c`, `kernel/i8259.c`, `kernel/kernel.asm`, `kernel/syscall.asm` | `ticks` per PCB, `p_proc_ready`, `no_schedule`, `k_reenter`, the 8259A mask, the kernel stack | `save`, `restart`, `restart_reenter`, `hwint_master`, `sys_Call`, `clockHandler`, `schedule` | nested interrupts, `schedule()` scanning counters that change, an endless loop if all are blocked | one `schedule()` at a time, the caller's PCB kept, bounded stack, nobody starves |
| System task, `kernel/systask.c` | `msg`, `src` of `taskSYS`; `ticks` | `m_getTicks`, one receive–switch–send loop | `SEND_RECV` is two system calls | every client gets its own, fresh answer |
| Terminals, `kernel/tty.c` with `sys_printx` of `lib/io.c` | two consoles (`startAddr`, `currentCursor`), `indexCurrentConsole`, video memory, the CRTC, `in_buf` | `taskTTY`, `outChar`, `scrollScreen`, `selectConsole`, `outKey`, `printx` | the same code runs preemptibly in the task and in system calls | characters are kept, the display follows the current console, a console stays in its memory |
| Keyboard, `kernel/keyboard.c` | ring of scan codes, shift/lock state | `keyboardHandler`, `keyboardRead`, `getByteFromKeyboardIn`, `setLED` | producer in an interrupt, multi-byte codes, full ring, acknowledgements between the codes | bytes in order, modifiers as pressed |
| Output and failure, `lib/io.c`, `lib/assert.c`, exceptions of `kernel/protect.c` and `kernel/kernel.asm` | the text being printed, whether the machine is halted | `printf`, `vsprintf`, `i2a`, `sys_printx`, `panic`, `assertion_failure`, `spin`, `exception_handler` | a panic between whose call and trap others run, magic characters in texts, failures inside the kernel, two shapes of exception stack | texts on their own terminal as formatted, a panic stops the machine, an assertion costs one process |
| Boot, `boot/boot.asm`, `boot/setup.asm` | memory, the BIOS's memory map, `MemSize`, the page tables | reads of the floppy, `GetMemSize`, `DispMemInfo`, `SetupPaging`, `initKernel` | 64K boundaries, 32-bit sums, overlapping areas, failing BIOS calls | the kernel where it is linked, RAM mapped |
| Start and protection, `kernel/start.c`, `kernel/protect.c`, `kernel/main.c`, `kernel/global.c`, `init8259A`, `init8253` | GDT, IDT, the process table, the masks, `k_reenter`, `no_schedule` | `cstart`, `initProtect`, `kernel_main` | selectors, descriptors and stacks made in different files | segments and stacks of one's own, the initial states of the other parts |
| Library, headers | – | `MemCopy`, `itoa`, port access | – | – |

Interactions: every part calls into the process table through `p_proc_ready`;
`block()` (IPC) calls `schedule()`; the clock calls `schedule()`; `taskSYS` and its
clients use IPC only; `printx` calls `outChar` on the console of the caller, which
the TTY task uses too; the keyboard interrupt feeds the ring the TTY task empties;
`panic`, failed assertions and every `printf` end in `printx`; `setup.asm` hands
its memory to `cstart`, and `kernel_main` its process table to the scheduler.

## 2. Modules

| Module | Models | Form |
| --- | --- | --- |
| `Ipc` | `kernel/ipc.c` on the process table | one action per path of a system call |
| `Rendezvous` | what message passing promises: arrival order, atomic hand-over | abstract specification |
| `IpcRefinement` | `Ipc` implements `Rendezvous` | refinement mapping |
| `IpcProofs` | theorems about `Ipc`, its refinement of `Rendezvous` among them | TLAPS |
| `SysTask` | `kernel/systask.c` and its clients over `Ipc` | extends `Ipc` |
| `SysTaskProofs` | theorems about `SysTask`, over those of `IpcProofs` | TLAPS |
| `Sched` | kernel entry and exit, clock, `schedule()` | a stack of interrupted frames |
| `SchedProofs` | theorems about `Sched` | TLAPS |
| `Tty` | `kernel/tty.c` and `sys_printx` | the task access by access, `sys_printx` character by character |
| `TtyProofs` | theorems about `Tty` | TLAPS |
| `KeyRing` | the ring of scan codes, `keyboardHandler` and `getByteFromKeyboardIn` | the reader access by access, the interrupt atomic |
| `ByteQueue` | what the ring promises: a bounded first-in first-out queue | abstract specification |
| `KeyRingProofs` | theorems about `KeyRing`, its refinement of `ByteQueue` among them | TLAPS |
| `Keyboard` | `keyboardRead` and `setLED` on that queue, and what the user means by the keys | one action per byte |
| `KeyboardProofs` | theorems about `Keyboard` | TLAPS |
| `Format` | `vsprintf` and `i2a`, and a reference for both | functions |
| `Failure` | `printf`, `panic`, `assert`, `spin`, `sys_printx`, exceptions | processes and a kernel stack; extends `Format` |
| `FailureProofs` | theorems about `Format` and `Failure` | TLAPS |
| `Boot` | the boot sector and the loader | one action per BIOS call or loop |
| `Start` | the kernel up to the first process | extends `Boot`; compared with `Sched` and `Ipc` |
| `StartProofs` | theorems about `Boot` and `Start` | TLAPS |
| `MCIpc`, `MCSysTask`, `MCSched`, `MCTty`, `MCKeyRing`, `MCKeyboard`, `MCFailure`, `MCStart` | instances for TLC | |

In each module an operator that begins with the comment `Mutant:` is a faulty
variant of the definition that follows it. None of them is used by the
specification; substituting one for its original makes a property fail, which
shows that the property depends on that piece of code.

### Ipc

Variables carry the names of the code. A system call is one action for each way it
can end (`SendPanic`, `SendDirect`, `SendBlock`, `ReceiveTake`, `ReceiveBlock`),
because of the fact of section 1. `p_flags[p]` is the set of flag bits. `p_msg` holds
the process whose message it points to: every message in the code is a variable of
the process that made the call, so that a pointer and its owner determine each
other. `buf[p]` is that variable; the program of `p` may write it whenever `p` runs
(`UserReset`, `UserWrite`), which is what makes the stability of the buffer of a
*blocked* process a property. `schedule()` is any choice of an unblocked process, with its
`no_schedule` start; this over-approximates `Sched`.

A walk over `next_sending` or `p_sendto` is given as a least closed set (`Visited`)
rather than recursively, so that the prover can use the module.
`SendPanic` stops the machine like `panic()` does: this is why the runs of `Ipc` do not
check for deadlock.

Left out: the branch of `msg_receive` for messages from interrupts
(`ipc.c:316-336`), as no code sets `p_hasint`; the assertions, which are `PcbConsistent`.

### Rendezvous and the refinement

`Rendezvous` has, per destination, the sequence of senders that wait in their order
of arrival, per receiver what it waits for, and atomic deliveries. It stops exactly
when a send would close a circle of senders. `IpcRefinement` maps the linked list of each
destination to that sequence: `InOrder` is *the* sequence of its senders that
begins at `q_sending` and goes on along `next_sending`. The whole abstract
specification is a property of the run `ipc` and, for every process table, a theorem.

### SysTask

`send_recv(SEND_RECV, …)` is two system calls, `AskSend` and `AskReceive`, between which
the clock may run anybody. `Clock` counts up to `MaxTicks` and may or may not change the
process. `asked` is a history variable: the value of the counter when the call began.
`SInv` at its end is the inductive invariant of the proofs.

### Sched

`frames` is the kernel stack. A frame is created by `Trap` (`int 90h`) or `Interrupt` (a
line that is not masked), both up to their `sti`, and removed by `Return`, which is
`restart` or `restart_reenter` from their `cli` on; between the two every step may be
interrupted by any unmasked line. `schedule()` is stepped through its comparisons
(`Compare`, `Take`, `Refill`), because a nested clock interrupt decrements
`p_proc_ready->ticks` while it runs. `hwint_master` masks its own line before `sti`, by
`Masking`. Counters below 1 are represented by 0, as the code only compares them with 0
or with positive values. `Serve` and `Block` stand for what the system calls do to `p_flags`: one that
returns may have unblocked others, one that blocks goes on to `schedule()`.

### Tty

`taskTTY` is a process with a program counter; its steps are its accesses to
variables that `sys_printx` shares. The makefile compiles without optimisation, so `x++` is a
load and a store. `sys_printx` runs in the kernel, where the clock does not schedule: from
the action `sys_printx` on until its last `PrintDone` the task takes no step, and the string is printed character by
character, each by the switch of `outChar` (`PrintChar`), the turns of its loop (`PrintScroll`) and what follows the
loop (`PrintDone`). `print` is its place, its console and the rest of its string. `keyboardRead` is a choice among what it can hand to `vga_processKey`: nothing,
a character, a scrolling key with shift, a console key with left shift – and Print Screen and Pause, which it does
not hand on.

For these it calls `DispStr("cannot hand")` (`keyboard.c:367`, `CannotHand`), which writes to the segment `gs`, the
video memory, at a cursor of its own (`Cursor`). `initConsole` has set that back to 0 (`tty.c:284`), so that the note overwrites the text
of console 0 from its top, the next note what follows, and in time the other consoles. `DispChar` is one character, `DispDone`
the new `Cursor`. Beyond the limit of `gs` (`boot/setup.asm`, 64K: with 11 characters a note, the 2979th) the write is
an exception, in which the machine halts: `task.pc = "fault"`, after which nothing runs. What `exception_handler` then displays
is left out here; `Failure` has it. Other live code calls `DispStr` only before the
consoles exist, in that handler and for a spurious interrupt (the calls at `tty.c:38` and
`systask.c:12` stand under `if (0)`).

`cells` says who wrote a cell, not which character; that is what the properties tell
apart. The initial state is the one `taskTTY` reaches before its loop: console 0 keeps
the screen of the boot messages, console 1 has printed its number. Processes are
taken to print after that: `taskTTY` is started first, with 15 ticks. None of
them prints a backspace, and none does here.

Where scrolling changes nothing `PrintScroll` repeats for ever, as the kernel does: `UsedUp(c)` says of a console that this
is so, `Stuck` that the kernel is in that loop.

The constants `Typed`, `Selected` and `Printed` say on which consoles keys are typed, which
are selected and on which processes print, so that one module serves the runs
where the two sides meet on one console and where they do not.

### KeyRing and its refinement

`buf`, `p_head`, `p_tail` and `count` are the fields of `KB_INPUT`, the pointers as
indices. `keyboardHandler` is one step: the task that reads cannot run inside it, and a
second keyboard interrupt is masked until it ends. `getByteFromKeyboardIn` is stepped by its accesses
to the ring, with `count--` as a load and a store; between any two of them the handler may
run if `interrupts` is true, as it is except between `disableINT` and `enableINT`. `Dropped` is the handler that
finds the ring full.

`ByteQueue` is a bounded sequence with a byte taken last. `KeyRing` maps to it the `Waiting`
bytes from `p_tail` on: the byte is taken at `Fetch`, while `count` follows two steps later, so
`Waiting` corrects it in between.

### Keyboard

The byte queue that `KeyRing` implements is here a sequence, and `Interrupt` and `Read` are its two ends.
`keyboardRead` waits for every byte anew, so that it is an action per byte, with `reader` for
the place inside a sequence: after E0, in the sequence of Pause, in those of Print Screen. A complete code is
decoded by `Decode`, which like `Turn` is a function of the reader's variables that returns what they become, the
effects and the acknowledgements: the row and column of `keymap`, the modifier and lock variables, the number pad,
and what `vga_processKey` makes of the result. `Toggled` keeps the missing `break` of the lock
keys (section 5).

The keys and the codes they send are hardware, hence external. The user's side is
history: `down`, `capital`, `digits`, and `expected`, the effects of the presses that
have not been seen yet; `Settle` compares each effect of `keyboardRead` with the first of them. The keys
are one of each kind the code tells apart. A user presses a key only if at most `Backlog`
bytes are on their way (`Free`), and `KeyboardAssumption` makes the ring long enough for what these, the code of the key and
all their acknowledgements can come to, so that no byte is dropped. This is the
hypothesis of every property here: the code has no way to recover from a dropped byte.

`setLED` sends the keyboard two bytes, each acknowledged with FA. Since
`keyboardACK` assigns where it means to compare (`keyboard.c:413`), it never waits, and
the acknowledgements come through the ring as if they were codes: `Replies` puts them behind
what the keyboard has queued; two of them, from `initKeyboard`, are there initially; a lock key
causes them once for each case it falls through.
FA is decoded as the release of a key without effect, which is why `InStep` holds
in spite of it. A reply that overtakes the later bytes of one code is not modelled:
the keyboard is taken to send a code as a whole, and `InStep` is claimed for acknowledgements between complete codes only.

A key that is not handed on is an effect, too, `"cannot hand"`, and `Meant` and `MeantOnRelease` say when it is
expected: at a press of Print Screen or Pause, and at the release of Print Screen, whose codes are recognised as well. What `DispStr`
does to the screen then is in `Tty`.

Left out: the function keys, whose effect is in `Tty`; the control and alternate keys,
whose variables `vga_processKey` never looks at (`ALT_R` sets `alt_l`, `keyboard.c:242`);
and `scroll_lock`, which nobody reads but `setLED`.

### Format and Failure

`Format` writes `vsprintf` as a recursive function over the parts of a format (the turns of its loop) and `i2a`
as one over the numbers it is called with, with the division of C, which truncates, and the negation of an `int`, which
may not exist. `Reference` says what should come out without either: the `k`-th
digit by its weight, a field filled up to its width, the argument of a part by how many parts before it take one.
A format is a sequence of `Parts`, already parsed; `"?"` is any letter the switch does not know, `"cut"` the 0 of a format that ends
within a directive, as one that ends in `%`. `Fits` is what the
compiler does not check: that the arguments are those the format takes.

The code writes `buf[256]` (`io.c:15`) and `inner_buf[1024]` (`io.c:65`, `io.c:131`) without a look at their sizes, and behind a format
that is cut it reads on (`io.c:82`, then `io.c:71`). `InBounds` says when neither happens; only then does the operator `vsprintf` describe
what the code leaves in its buffers. `Failure` prints a text that is `Prepared`, that is within the bounds of `printf` with its 0, and takes
`ProcessOverruns` or `KernelOverruns` for any other: `machine = "overrun"`, behind which the model says nothing, as
the frames that are overwritten leave the behaviour undefined. `panic` formats into a buffer of 256 bytes itself; its messages are
short constants in the code, and are here, but with what follows its buffer (`Tails`) they may be too long for the `printf` it calls.

In `Failure` a process is in its own code, in a `printf` (with what follows it), in
`spin` or at the `ud2` behind `panic`; `frames` is the kernel stack, with a system call
that may fail itself (`sendrec`) and a `printx` made by a process or by that call.
`sys_printx` is stepped character by character. Between any two steps outside the kernel
`Tick` may give the processor to any other process. An exception may happen
anywhere; `Exception` builds the stack the CPU and the stub in `kernel.asm` leave and reads the
arguments of `exception_handler` off it. The wording of messages is left out, but not
their magic characters or the newline before them, nor the bytes that may follow the buffer of `panic`,
which writes no 0 behind it (`Tails`). That the `ud2` is never reached is `PanicFinal`; that the machine stops is `PanicStops`.

### Boot and Start

Memory below 1M is a function from blocks of 512 bytes to the sector each came from. A
read is one `int 13h` with its head, cylinder, sector and place; the BIOS refuses one
that leaves its track or crosses a boundary of 64K, and may fail; the code never looks. `Over` writes one
part of memory over the rest. The
memory map is any sequence of the regions given, at most 12, which is what `MemInfoBuff` holds and the code does not check, summed and compared one region a step, in units of 64K and modulo 2^32 bytes.
`pc = "lost"` stands for loops that do not end in order when there is no memory to map.

`Start` goes on from `cstart` to `restart`: the descriptors, gates, masks and
handlers by what they describe, the process table entry by entry, with the stacks one below the
other (`StacksBefore` sums their sizes). At its end the
variables of `Sched` and `Ipc` are read off its state and have to satisfy *their* `Init`
(`HandsOver`): the initial states of those modules are the ones this code makes.

## 3. Runs

| Run | Instance | Shows |
| --- | --- | --- |
| `ipc` | 5 processes, 4 of them calling, 2 message bodies, symmetric | the invariants of message passing, delivery to the right buffer, and with `Implements` order of arrival and atomic delivery as in `Rendezvous` |
| `ipc_safe` | as `ipc` | **violated**, finding 1 |
| `systask` | server and 3 clients, `MaxTicks = 2` | no panic, fresh answers, every call returns |
| `sched` | 3 processes, clock and keyboard, up to 2 nested clock interrupts | safety of kernel entry and `schedule()`, and that nobody starves |
| `tty` | screen of 3 × 2 in memories of 8 cells; typing, erasing, scrolling and Print Screen on console 0, printing on console 1, switching; notes of 3 cells in a segment of 5 | characters kept but under the notes of `DispStr`, display on the current console, bounds of screens and cursors, keys drained, every terminal served until a console is full or the notes have come to the end of their segment |
| `tty_full` | screen of 3 × 2 in memories of 10 cells, printing on both consoles | **violated**, finding 2 |
| `tty_race` | as `tty_full`, with typing on the consoles printed on | **violated**, finding 3 |
| `keyring` | a ring of 3 and 3 byte values | the ring's fields agree, and it is a `ByteQueue` |
| `keyboard` | ring of 32, backlog of 2; a letter, both Shift keys, the number pad with Num Lock, an E0 key, Print Screen, Pause | keys do what they mean, in order, with acknowledgements between their codes; Shift follows; the reader always comes back |
| `failure` | a task and 2 processes on 2 terminals, an `int` of 8 bits, a buffer of 5; numbers at its edges, every directive, texts that just fit and that do not | texts exact, exceptions named, nothing follows a panic and the machine stops, an assertion stops only its process |
| `failure_assert` | as `failure` | **violated**, finding 4 |
| `start` | the sections of the kernel (`krnl.map`) in a file of full length, maps of up to 4 regions, one failing read, 2 tasks and 3 processes | kernel intact, RAM mapped, segments and stacks apart, the initial states of `Sched` and `Ipc` |

Why the bounds suffice. `ipc` has the kernel's own number of processes; with
four callers a queue reaches three members, so its head, middle and end can each be taken,
and circles of two to four are possible. Two bodies suffice to tell one message from another. In `systask` one client is answered while
two queue; a counter of three values distinguishes a stale answer from a fresh one. In
`sched` three processes with two different priorities include the best, an
equal and a lower one; the stack holds at most one frame per kind whatever the
bound, and `MaxNested` is the number of clock interrupts that fall into one stay in
the kernel: two cover one that hits the system call and one that hits `schedule()` inside it.
The screens in `tty` and its variants keep the shape of the real one: a memory that is not a whole number of lines, with more
lines than the screen, so that it scrolls, ends and is overrun as 15 lines of 80
in 8192 cells do. Their state spaces are finite without further bounds. In `tty` the segment `gs` ends inside the second note, where in the
code it holds 2978 of them: the notes overwrite the text of console 0 and blank cells ahead of its cursor, and reach their end. `tty`
runs without the check for deadlock because the machine really halts there; that the notes go on over other consoles is
left to the theorems, which hold for a segment of any size. In `keyring` both pointers
roll over and the ring fills and empties; the theorems hold for every size. In `keyboard` a key may be
pressed while two bytes wait, so that up to three keys are decoded after the modifiers have changed;
the 18 bytes they and their acknowledgements come to at most fit the ring of the code's own size. In `failure` 8 bits make the edges
of an `int` reachable without changing anything `vsprintf` does: the smallest
value, whose negation is itself, values of one to three digits in both bases, fields wider and
narrower than the number. One process prints numbers, one a text with an unknown directive, the task a
text that begins with a magic character. In `start` the regions end off a multiple of 4M, just
below 4G and above it (a `LengthLow` of 0), leave a hole, and include one that is not RAM; they come
in any order; the kernel's sections are where `krnl.map` has them, the last so long that the
file has all the 252 sectors that are read, across the boundary of 64K in their middle.

The buffer of `printf` is 5 bytes in `failure`: the numbers of four characters just fit,
a field of five and a panic followed by three characters do not.

Fairness. `sched` assumes that every step inside the kernel is executed when it
can be again and again, and that the clock interrupts user mode again and again;
the latter excludes a process that by
luck is inside a system call at *every* tick, for which the code has no remedy. `systask`
assumes that each process gets the processor again and again and then executes its
program, which is what `sched` shows of an unblocked one. `tty` assumes
that the kernel goes on inside `sys_printx` (weak) and that `taskTTY`, which never blocks, goes on when it can again and
again (strong, as each `printx` disables its steps for a while); nothing is assumed of the
processes that print or of the keyboard. `keyboard` assumes that the hardware sends
the bytes it has begun to send (`Interrupt`) and that the task goes on reading (`Read`), not that the
user ever presses a key. `failure` assumes that the kernel goes on (weak), that the clock gives every
process the processor again and again, which is what `sched` shows, and that a process that is in
`printf` or `spin` goes on when it has it (strong, as each is preempted); nothing obliges
anyone to print, to fail or to except.

## 4. Proofs

`IpcProofs` proves for any number of processes and any messages, from
`ConstantsAssumption` alone (the first process of the table is a process that never calls
`sendrec`, as `taskTTY`; the special values are no processes):

* `TypeCorrect`, `PcbAlwaysConsistent`, `QueueAlwaysExact`, `NeverSendCycle`,
  `NeverMissedRendezvous`, `NeverRunsBlocked` – the invariants of the run `ipc`;
* `AlwaysHandoff`, `AlwaysBufferStable` – its action properties.

The inductive invariant is `IInv` of `Ipc`. `QueueExact` says that a queue's members are
those that are sending to its owner, which alone is not inductive: taking a process out of
the middle must not cut off or duplicate the rest. It needs that links stay inside
one queue (`HeadIsSender`, `NextIsSender`), that nobody has two predecessors
(`LinkedOnce`, `FirstIsFirst`) and that lists end (`ListsEnd`, from which the walk to
the last element has a result). `NoMissedRendezvous` needs `PcbConsistent`, which
gives a blocked process exactly one flag and one partner. `RunningNotBlocked` needs
`FirstProcFirst`: the first call of `schedule()` returns without choosing, which is
harmless only because the processor then still belongs to a process that never blocks. `NoSendCycle` follows from
the test in `msg_send`: `NoNewEdge` and `SafeEdge` show that adding an edge
from a process that the walk from its destination does not meet closes no
circle.

The proof has one lemma per action (`ClockScheduleStep`, `UserStep`, `SendDirectStep`,
`SendBlockStep`, `ReceiveTakeStep`, `ReceiveBlockStep`), which share lemmas on the list operations
(`EnqueueStep`, `DequeueStep`, `QueueUntouched`, `LastInQueueFact`, `PredecessorFact`).

`KeyRingProofs` proves for a ring of any size and any bytes, from `RingAssumption`
(the size is positive and there is a byte):

* `TypeCorrect`, `RingAlwaysExact` – the invariants of the run `keyring`, among them that neither pointer and no
  load or store of `count` ever leaves its range;
* `AlwaysQueue` – `Spec => ImplementsQueue`, the whole refinement: the initial state maps to the empty
  queue, `keyboardHandler` to an arrival (`ArriveStep`), `Fetch` to a take (`TakeStep`) and every other step to a stutter
  (`OtherStep`).

Its inductive invariant `IInv` adds `ReaderInv` to `RingExact`: that there is a byte once `Wait` has seen one,
that interrupts are off from `disableINT` to `enableINT`, that the value loaded is still `count` when it is
stored, and that `p_tail` is beyond the end only until `Wrap`. Without the second the third is not preserved by `keyboardHandler`, and
without the third `RingExact` is not preserved by `Store`. `ContentFact` says that the contents
depend on nothing but the slots between the pointers, which lets a write at `p_head` be seen as an append.

`IpcProofs` also proves `AlwaysRendezvous`, `Spec => Implements`, from `ConstantsAssumption`
alone. The mapping chooses a sequence, so the proof first shows that there is something to choose
and only one: `Lists(s, S, first, next)` says that `s` holds the members of `S`, each once, in the order the
pointers link them, and `InOrderUnique` that the mapping then returns `s`, because the set of processes
at which two such sequences agree contains the first and is closed under `next_sending`,
hence contains all that the walk visits. `LineInv`, the invariant besides `IInv`, is that `lineBar`
lists every queue. `ListAppended` and `ListRemoved` show that linking behind the last
element and unlinking anywhere are `Append` and `RemoveAt` on the sequence, `CircleFact` that what
`deadlock()` finds is a circle of senders. Then each system call is a step of `Rendezvous`
(`PanicHalts`, `DirectDelivers`, `BlockJoins`, `TakeTakes`, `BlockWaits`, `UserWrites`) and the scheduler a stutter.

`SysTaskProofs` proves, for any number of clients, any other processes and any bound of the counter,
`NeverEverHalts`, `AlwaysFresh` and `AnswerAlwaysExpected`. Its invariant `SInv` puts on top of `IInv`
where each client and the server are (`ClientInv`, `ServerInv`): a client that waits does so for
SYS; the server holds a request it has not answered, and its client is then between its two system
calls or receiving from SYS. `NoCircle` needs this: a circle would have to pass through the server, whose
send is to a client that sends to nobody. The effects of the calls of `Ipc` on
flags, partners and buffers are stated once (`SendDirectFact`, `SendBlockFact`, `ReceiveTakeFact`, `ReceiveBlockFact`).

`SchedProofs` proves, for any number of processes, any priorities and any bound on nested
interrupts, from `SchedAssumption`, `StackAlwaysBounded`, `AlwaysOneScheduler`, `CallerAlwaysKept`,
`AlwaysReadyToRun` and `AlwaysGreatestChosen`. `IInv` of `Sched` consists of `FramesInv` (only the outermost
frame is ever in `schedule()`, and a line is masked exactly while its frame is on the stack), `FirstRun` (the call that does not
choose leaves process 0 running), `Resumable` (`p_proc_ready` may name a blocked process only from `block()`
to the first choice) and `Scanning` (what the clock's `schedule()` has found is the best so far; a `schedule()` called
from `block()` does not have this, since the clock may interrupt it and decrement what it compares).

`TtyProofs` proves, for any number of consoles, any shape of screen and memory, and whatever is typed, selected and
printed, from `TtyAssumption`:

* `TtyTyped`, and `KeysAlwaysDrained`: with the invariant `KeysInv` a buffer never holds more than the one key `ttyRead`
  has put there, so that the test that drops keys when the buffer is full is never true;
* `ScreensBounded` (`StartBounded`), from `ScreenInv`. The bounds of the property are not inductive: a screen may
  pass the end of its memory because the condition of `scrollScreen` was true when the task tested it
  and a process has scrolled since. `Bounded` therefore gives the cursor a line more while the task or the kernel
  is behind the switch of `outChar` (`TaskInTail`, `KernelInTail`), and `LoadsBounded` says what the values tested and
  loaded before are still good for (`OnLine`, `Scrollable`);
* `DisplayFollows` (`DisplayOnCurrent`), from `DisplayInv`: which register is right at which step of
  `flush` and `selectConsole`, and what each value read but not yet written may be;
* `NothingAhead` (`BlankAhead`) and `TextKept` (`KeptText`), where keys are echoed on other
  consoles than processes print to (`Typed \cap Printed = {}`). Both speak of what consoles and `DispStr` do to one another: no character of a console
  replaces text, and `DispStr` writes over the cells from its `Cursor` on, each once, text or not. They do not say that text survives a note: it does not. Run `tty_race` shows that this hypothesis is
  needed. `EchoInv` says that the cursor the task has read is still there when it stores it, `BlankInv`
  that ahead of a cursor only notes of `DispStr` (`Noted`, with `NoteInv`, the place of a note that is being written) and the text of a console that has outgrown *its* memory can lie (`Outgrown`). `BlankAhead`
  alone, which is silent once that has happened, would not be inductive: a backspace can bring the cursor back.

`KeyboardProofs` proves, for any of the keys, any backlog and any ring that satisfies `KeyboardAssumption`,
`AlwaysShiftFollows` and, for keyboards without Caps Lock (section 5), `AlwaysInStep`. The invariant `KeyInv` reads
ahead: `Leads(q, s, e, w, t)` says that the bytes `q`, read from state `s` of `keyboardRead` on, do `e` and lead to
state `t`, and `KeyInv` that all bytes on their way lead to a reader between two codes, to the modifiers that are held
and to the effects expected. Reading ahead is induction over data; it is done with a witness that lists
all the states on the way (`Plan`), of which `LeadsFrom` takes the first byte and to which `LeadsOn` appends. `w` weighs each byte with the
acknowledgements it may cause, which keeps the ring from being full (`w <= 6 * (Backlog + 1)`). What remains is one lemma
for each direction of a key (`Pressed`, `Released`), which goes through its code byte by byte, and that acknowledgements
change nothing wherever they fall between two codes (`PassesAcks`).

`StartProofs` proves, for any sections of the kernel, any memory map, any number of failing reads and any process table
that satisfy `BootAssumption` and `StartAssumption`, `KernelAlwaysIntact`, `MemoryAlwaysMapped`, `AlwaysOwnSegments`
and `AlwaysHandsOver`. The invariant `StartInv` (theorem `AlwaysStartInv`) says of each part what the steps so far have made:
of the disk (`DiskInv`), whose central lemma is that the 15 reads follow one another in memory as on the floppy, for
all that `es` and `bx` do (`Consecutive`); of the memory map (`MapInv`), where a sum modulo 2^32 may be too small but
the greatest end is not; of the tables and of the processes. That the stacks lie apart needs the sums of their sizes, a
recursive function: `SumsExist` shows that there is one, by induction up to the number of
processes over the least counterexample (`LeastNumber`, `InductionUpTo`).

`FailureProofs` proves, for an `int` and buffers of any size (`FormatAssumption`) and any processes, terminals, texts and vectors that
satisfy `FailureAssumption`:

* `VsprintfExact`: `vsprintf` returns `Reference`, and that is no longer than its buffer, for every format and all arguments that fit it
  *and whose text is `InBounds`* of the buffers – the code has no check, and of other texts nothing is claimed – except for the two kinds of number
  that `i2a` cannot write, which `Representable` excludes: `%x` of a negative one and `%d` of the smallest. `I2aFact`
  says what `i2a` does with any `int` in base 10 and 16, these two included: it writes the digits of the absolute value, each
  negated if the number is negative. The digits it finds by dividing, from the last to the first, are those `Numeral` finds
  from the weights (`DigitsStep`, over `DivDiv`); `TurnFact` says that a turn of the loop adds the `Meaning` of its part;
* `AlwaysTextExact`, `AlwaysPanicFinal`, `AlwaysFaultReported`: the invariants of the run `failure`. They speak of the time before the first text
  that does not fit: with it `Failure` ends (`OverrunKeeps`). `InPrintx` keeps that every text on its way was `Prepared`.

The definitions compared are recursive functions, that is, choices of a function that satisfies an equation. For each the
proof shows that there is one (`Recursion`, `RecursionUpTo`, by extending it step by step) or gives it (`WritesDigits`), and by
induction over a set of numbers that it has the values claimed (`InductionBelow`, `InductionUpTo`, both from the least
counterexample).
The inductive invariant `FInv` ties the kernel stack to `k_reenter` (`Stack`), which is why nobody else becomes `p_proc_ready`
while a text is shown; says what the loop of `sys_printx` has shown so far (`ShownUpTo`); and lets `ud2` follow only the text of a
`panic()` that is still before the test of `sys_printx` (`Doomed`, `InPrintx`), which by `PanicText` begins with the magic character
whatever the tail. Without `Doomed` the invariant `PanicFinal`, which is silent inside the kernel, is not inductive.

Only model-checked: liveness and fairness (`Answered`, `NoStarvation`, `Served`, `ReaderBack`, `PanicStops`,
`AssertContained`), which the prover does not do. Every invariant and every action property that a run checks is also a
theorem.

## 5. Findings

1. `deadlock()` follows only senders (`kernel/ipc.c:180`). SYS blocked sending to TestA, TestA blocked
   receiving from TestB: TestB's send to SYS is found "safe" (`ipc.c:164-168`), and the three
   wait for each other for ever. Run `ipc_safe`.
2. A full console stops the machine (`kernel/tty.c:226`): when the screen ends at the console's limit,
   scrolling changes nothing and the loop does not end, although "if current console is full,scroll screen"
   (`tty.c:225`). In `printx` this happens in the kernel. Run `tty_full`.
3. `taskTTY` echoes keys outside the kernel and unprotected (`kernel/tty.c:188-220`); a character printed in
   between is overwritten, although `lib/io.c:7-8` says "in this way we protect the
   iostream". Run `tty_race`.
4. A failed assertion in a task does not halt the system, as the comment at `lib/io.c:224` says it
   does: `assertion_failure` prints a newline before the magic character, and `sys_printx` looks at the first
   character only. The task spins and the others go on. Run `failure_assert`.

Observed while modelling, without a run of their own:

* The guard of `outChar` uses `startAddr + memLimit` (`kernel/tty.c:214`) rather than the start of the
  console's memory, so that a scrolled console may write beyond its part, by less than three lines (`StartBounded`).
* The cases of the lock keys have no `break` (`kernel/keyboard.c:250`): Caps Lock switches `num_lock` too,
  and Num Lock `scroll_lock`. `Toggled` keeps this; with Caps Lock among the `Keys`, `InStep` does not hold, while `ShiftFollows`
  does (section 4).
* `DispStr("cannot hand")` destroys the text on the screen (`kernel/keyboard.c:367`), from the top of console 0 on, and in the end halts the machine
  (`KeptText` and `Served` name both).
* `printf`, `panic` and `vsprintf` do not check the size of their buffers (`lib/io.c:15`, `lib/assert.c:9`, `lib/io.c:131`), and a format that ends in `%`
  is read beyond its end.
* The reads of the floppy ignore the carry flag (`boot/setup.asm:192`): a read that fails
  leaves a hole in the kernel. `KernelIntact` speaks of the runs in which none fails.
* The comment at `kernel/i8259.c:35` says that the clock is left unmasked; `0xFF` masks every line,
  and `init8253` unmasks it.

## 6. Not modelled

* `milliDelay`: a busy loop on the counter; every module allows any delay between two steps of a process.
* `itoa` and `DispInt`, which only display numbers during start-up and in exceptions, and what
  the loader displays.
* The rate of the 8253, register protocols, and the bits of descriptors and page-table entries: modules speak
  of what these describe. The switch to protected mode falls between two steps.
* The branch of `msg_receive` for messages from interrupts (`ipc.c:316-336`): nothing sets `p_hasint`.
* Control, alternate and function keys inside `Keyboard`, and an acknowledgement between two bytes of one code.
* What happens after a text has run over a buffer: undefined, and the end of `Failure`.
* A memory map of more than 12 regions, which overruns `MemInfoBuff` (`boot/setup.asm:764`).
* The screen after an exception has halted the machine in `Tty`.
* Bytes dropped by a full ring, as far as what `keyboardRead` makes of the rest: nothing resynchronises.
* Headers and the makefile, except the constants and the missing optimisation the modules rely on.

## 7. Plan

Done: every part that is modelled has its module and run, and every safety property its proof.

Left, in this order:

1. `itoa` of `lib/lib.c` against a reference, as `i2a` has.
2. The acknowledgements of the keyboard between two bytes of one code.
3. A full ring: which of the properties of `Keyboard` come back, and when, after a byte is dropped.
