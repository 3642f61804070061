-------------------------------- MODULE Boot --------------------------------
(***************************************************************************)
(* From the BIOS to the kernel: boot.asm reads setup from the floppy,      *)
(* setup.asm reads the kernel file, asks the BIOS for the memory map,      *)
(* switches to protected mode with paging, and moves the segments of the   *)
(* kernel to where they are linked.                                        *)
(*                                                                         *)
(* Memory below 1M is counted in blocks of 512 bytes, the size of a        *)
(* sector, and holds for each block the number of the sector it came from. *)
(* Sizes in the memory map are in units of 64K: a 32-bit value is a number *)
(* modulo WORD.                                                            *)
(***************************************************************************)
EXTENDS Integers, Sequences, SequencesExt

CONSTANTS
  Segments,    \* the program headers of the kernel file, in blocks
  Regions,     \* the memory regions a BIOS may report: [base, length, type]
  MaxRegions,  \* how many of them it reports at most; MemInfoBuff holds 12
  MaxFailures  \* how many reads of the floppy fail at most

WORD     == 65536     \* 2^32 bytes
PageUnit == 64        \* 4M, what one page table maps

BaseOfSetup      == 1152   \* 9000:0
BaseOfKernelFile == 896    \* 7000:0
BlocksOf64K      == 128
SetupSectors     == 17
KernelSectors    == 252
FirstOfKernel    == 18     \* the sector the kernel file begins in

(* f before g, which is f @@ g of module TLC.                              *)
Over(f, g) ==
  [x \in DOMAIN f \cup DOMAIN g |-> IF x \in DOMAIN f THEN f[x] ELSE g[x]]

SectionTo(s) == s.vaddr .. s.vaddr + s.filesz - 1

(* The linker puts the sections of the kernel apart from one another and   *)
(* below the buffer (krnl.map), and the file has at most 126K              *)
(* (setup.asm:167).  No region of a memory map is empty.                   *)
ASSUME BootAssumption ==
  /\ Segments \in Seq([type : Nat, offset : Nat, filesz : Nat, vaddr : Nat]) \ {<<>>}
  /\ \A i \in DOMAIN Segments : Segments[i].type # 0 =>
       /\ Segments[i].vaddr + Segments[i].filesz <= BaseOfKernelFile
       /\ Segments[i].offset + Segments[i].filesz <= KernelSectors
       /\ \A j \in DOMAIN Segments \ {i} : Segments[j].type # 0 =>
            SectionTo(Segments[i]) \cap SectionTo(Segments[j]) = {}
  /\ Regions \subseteq [base : Nat, length : Nat \ {0}, type : Nat]
  /\ MaxRegions \in 1 .. 12
  /\ MaxFailures \in Nat

VARIABLES
  pc,          \* what comes next
  n,           \* how many turns of the loop at pc are done
  es, bx,      \* where the next read goes (blocks)
  mem,         \* mem[b]: the sector whose contents block b holds
  failed,      \* how many reads have failed
  memInfo,     \* MemInfoBuff: the regions the BIOS has reported
  segNumber,   \* MemSegNumber
  memSize,     \* MemSize
  tables       \* the number of page tables

bootVars == <<pc, n, es, bx, mem, failed, memInfo, segNumber, memSize, tables>>

BootInit ==
  /\ pc = "boot"
  /\ n = 0
  /\ es = BaseOfSetup /\ bx = 0
  /\ mem = <<>>
  /\ failed = 0
  /\ memInfo = <<>> /\ segNumber = 0 /\ memSize = 0
  /\ tables = 0

(* One of count turns of a loop (or of reads written one after another),   *)
(* with next behind it.                                                    *)
Turn(count, next) ==
  IF n + 1 = count THEN pc' = next /\ n' = 0
                   ELSE n' = n + 1 /\ UNCHANGED pc

-----------------------------------------------------------------------------
(* Reading the floppy                                                      *)

Reading(head, cyl, first, count) ==
  [head |-> head, cyl |-> cyl, first |-> first, count |-> count]

LoaderRead == Reading(0, 0, 2, SetupSectors)

(* Mutant: the eighth track is read in one piece.                          *)
ReadsInOne ==
  <<Reading(1, 0, 1, 18), Reading(0, 1, 1, 18), Reading(1, 1, 1, 18), Reading(0, 2, 1, 18),
    Reading(1, 2, 1, 18), Reading(0, 3, 1, 18), Reading(1, 3, 1, 18), Reading(0, 4, 1, 18),
    Reading(1, 4, 1, 18), Reading(0, 5, 1, 18), Reading(1, 5, 1, 18), Reading(0, 6, 1, 18),
    Reading(1, 6, 1, 18), Reading(0, 7, 1, 18)>>

(* The reads of ReadKernel in their order.                                 *)
KernelReads ==
  <<Reading(1, 0, 1, 18), Reading(0, 1, 1, 18), Reading(1, 1, 1, 18), Reading(0, 2, 1, 18),
    Reading(1, 2, 1, 18), Reading(0, 3, 1, 18), Reading(1, 3, 1, 18),
    Reading(0, 4, 1, 2), Reading(0, 4, 3, 16),
    Reading(1, 4, 1, 18), Reading(0, 5, 1, 18), Reading(1, 5, 1, 18), Reading(0, 6, 1, 18),
    Reading(1, 6, 1, 18), Reading(0, 7, 1, 18)>>

(* After the eighth int 13h es moves on; bx, of 16 bits, has wrapped.      *)
EsChangesAfter == 8

Sector(r) == (2 * r.cyl + r.head) * 18 + r.first - 1

(* int 13h: the BIOS reads within one track and not across a boundary of   *)
(* 64K, where the DMA address would wrap.                                  *)
BiosReads(r, at) ==
  /\ r.first + r.count - 1 <= 18
  /\ at \div BlocksOf64K = (at + r.count - 1) \div BlocksOf64K

(* A read of r to block at.  It may be refused, or fail: the code does not *)
(* look at the carry flag and goes on.                                     *)
Read(r, at) ==
  \/ /\ BiosReads(r, at)
     /\ mem' = Over([b \in at .. at + r.count - 1 |-> Sector(r) + b - at], mem)
     /\ UNCHANGED failed
  \/ /\ ~BiosReads(r, at)
     /\ UNCHANGED <<mem, failed>>
  \/ /\ failed < MaxFailures
     /\ failed' = failed + 1
     /\ UNCHANGED mem

ReadLoader ==
  /\ pc = "boot"
  /\ Read(LoaderRead, es + bx)
  /\ pc' = "setup"
  /\ es' = BaseOfKernelFile
  /\ UNCHANGED <<n, bx, memInfo, segNumber, memSize, tables>>

(* One int 13h of ReadKernel and the additions behind it.                  *)
ReadKernel ==
  /\ pc = "setup"
  /\ LET r == KernelReads[n + 1] IN
       /\ Read(r, es + bx)
       /\ bx' = (bx + r.count) % BlocksOf64K
       /\ es' = IF n + 1 = EsChangesAfter THEN es + BlocksOf64K ELSE es
  /\ Turn(Len(KernelReads), "e820")
  /\ UNCHANGED <<memInfo, segNumber, memSize, tables>>

-----------------------------------------------------------------------------
(* The memory map                                                          *)

(* int 15h, function E820h, reports one more region; ebx = 0 says that it  *)
(* is the last.                                                            *)
NextRegion ==
  /\ pc = "e820"
  /\ Len(memInfo) < MaxRegions
  /\ \E r \in Regions \ ToSet(memInfo) :
       /\ memInfo' = Append(memInfo, r)
       /\ segNumber' = segNumber + 1
  /\ pc' \in {"e820", "sum"}
  /\ UNCHANGED <<n, es, bx, mem, failed, memSize, tables>>

(* The carry flag: also what was reported before is forgotten.             *)
MemoryFail ==
  /\ pc = "e820"
  /\ segNumber' = 0
  /\ pc' = "sum"
  /\ UNCHANGED <<n, es, bx, mem, failed, memInfo, memSize, tables>>

IsRam(r) == r.type = 1

(* A turn of GetMemSize, which adds LengthLow of the regions of RAM.  With *)
(* no region its counter wraps: that loop, and the one of DispMemInfo,     *)
(* which writes past the video segment, do not end in order.               *)
GetMemSize ==
  /\ pc = "sum"
  /\ IF segNumber = 0
     THEN pc' = "lost" /\ UNCHANGED <<n, memSize>>
     ELSE LET r == memInfo[n + 1] IN
            /\ memSize' = IF IsRam(r) THEN (memSize + r.length) % WORD ELSE memSize
            /\ Turn(segNumber, "max")
  /\ UNCHANGED <<es, bx, mem, failed, memInfo, segNumber, tables>>

(* Mutant: DispMemInfo only displays.                                      *)
GreatestIgnored(size, r) == size

(* The greatest end of a region of RAM, in 32 bits.                        *)
Greatest(size, r) ==
  LET end == (r.base + r.length) % WORD IN
    IF IsRam(r) /\ end >= size THEN end ELSE size

(* A turn of DispMemInfo, which also displays the region.                  *)
DispMemInfo ==
  /\ pc = "max"
  /\ memSize' = Greatest(memSize, memInfo[n + 1])
  /\ Turn(segNumber, "paging")
  /\ UNCHANGED <<es, bx, mem, failed, memInfo, segNumber, tables>>

-----------------------------------------------------------------------------
(* Paging, and the segments of the kernel                                  *)

(* Mutant: the memory beyond the last multiple of 4M gets no table.        *)
TablesRoundedDown(size) == size \div PageUnit

TablesFor(size) ==
  size \div PageUnit + (IF size % PageUnit = 0 THEN 0 ELSE 1)

(* SetupPaging: as many directory entries and tables, mapping addresses to *)
(* themselves; with none, the loops would run through all of memory.       *)
SetupPaging ==
  /\ pc = "paging"
  /\ tables' = TablesFor(memSize)
  /\ pc' = IF tables' = 0 THEN "lost" ELSE "move"
  /\ UNCHANGED <<n, es, bx, mem, failed, memInfo, segNumber, memSize>>

(* MemCopy of a segment: what was never read stays unknown.                *)
Copied(s) ==
  Over([b \in {b \in SectionTo(s) :
                 BaseOfKernelFile + s.offset + b - s.vaddr \in DOMAIN mem}
          |-> mem[BaseOfKernelFile + s.offset + b - s.vaddr]], mem)

(* One turn of initKernel.                                                 *)
InitKernel ==
  /\ pc = "move"
  /\ LET s == Segments[n + 1] IN
       mem' = IF s.type = 0 THEN mem ELSE Copied(s)
  /\ Turn(Len(Segments), "kernel")
  /\ UNCHANGED <<es, bx, failed, memInfo, segNumber, memSize, tables>>

BootNext ==
  \/ ReadLoader \/ ReadKernel
  \/ NextRegion \/ MemoryFail \/ GetMemSize \/ DispMemInfo
  \/ SetupPaging \/ InitKernel

-----------------------------------------------------------------------------
(* Properties                                                              *)

SetupRead ==
  \A k \in 0 .. SetupSectors - 1 :
    BaseOfSetup + k \in DOMAIN mem /\ mem[BaseOfSetup + k] = 1 + k

SegmentMoved(s) ==
  s.type # 0 =>
    \A k \in 0 .. s.filesz - 1 :
      s.vaddr + k \in DOMAIN mem /\ mem[s.vaddr + k] = FirstOfKernel + s.offset + k

(* When the drive has not failed, setup is whole all the time it runs (the *)
(* 252 sectors read below it do not reach it), and when it jumps to the    *)
(* kernel every block of every segment is where it is linked.              *)
KernelIntact ==
  failed = 0 =>
    /\ pc # "boot" => SetupRead
    /\ pc \in {"kernel", "protect", "main", "running"} =>
         \A i \in DOMAIN Segments : SegmentMoved(Segments[i])

(* When paging is on, all RAM that ends below 4G is mapped, whatever the   *)
(* order and the holes of the memory map; setup only loses its way when    *)
(* the BIOS has failed or has reported no such RAM.                        *)
RamBelow4G == {r \in ToSet(memInfo) : IsRam(r) /\ r.base + r.length < WORD}

AllMapped ==
  /\ tables > 0 => \A r \in RamBelow4G : r.base + r.length <= tables * PageUnit
  /\ pc = "lost" => segNumber = 0 \/ RamBelow4G = {}

-----------------------------------------------------------------------------
(* The inductive invariant: the reads follow one another in memory as on   *)
(* the floppy, in spite of es and bx; the segments moved so far are in     *)
(* place and the file is still whole; and MemSize covers the regions that  *)
(* DispMemInfo has looked at.                                              *)
FileRead(count) ==
  \A k \in 0 .. count - 1 :
    BaseOfKernelFile + k \in DOMAIN mem /\ mem[BaseOfKernelFile + k] = FirstOfKernel + k

DiskInv ==
  /\ n \in Nat
  /\ failed \in Nat
  /\ pc = "boot" => n = 0 /\ es = BaseOfSetup /\ bx = 0
  /\ pc = "setup" =>
       /\ n < Len(KernelReads)
       /\ es = BaseOfKernelFile + (IF n < EsChangesAfter THEN 0 ELSE BlocksOf64K)
       /\ bx = (Sector(KernelReads[n + 1]) - FirstOfKernel) % BlocksOf64K
       /\ failed = 0 => FileRead(Sector(KernelReads[n + 1]) - FirstOfKernel)
  /\ pc \in {"e820", "paging"} => n = 0
  /\ failed = 0 /\ pc # "boot" => SetupRead
  /\ failed = 0 /\ pc \in {"e820", "sum", "max", "paging", "move"} => FileRead(KernelSectors)
  /\ pc = "move" =>
       /\ n < Len(Segments)
       /\ failed = 0 => \A i \in 1 .. n : SegmentMoved(Segments[i])
  /\ failed = 0 /\ pc \in {"kernel", "protect", "main", "running"} =>
       \A i \in DOMAIN Segments : SegmentMoved(Segments[i])

Covers(r) == IsRam(r) /\ r.base + r.length < WORD => r.base + r.length <= memSize

MapInv ==
  /\ memInfo \in Seq(Regions)
  /\ memSize \in Nat /\ memSize < WORD
  /\ segNumber \in {0, Len(memInfo)}
  /\ pc \in {"boot", "setup", "e820"} => segNumber = Len(memInfo)
  /\ pc = "sum" /\ segNumber > 0 => n < segNumber
  /\ pc = "max" => n < segNumber /\ \A i \in 1 .. n : Covers(memInfo[i])
  /\ pc \in {"paging", "move", "kernel", "protect", "main", "running"} =>
       \A i \in DOMAIN memInfo : Covers(memInfo[i])
  /\ IF pc \in {"move", "kernel", "protect", "main", "running"}
     THEN tables \in Nat /\ memSize <= tables * PageUnit
     ELSE tables = 0
  /\ pc = "lost" /\ segNumber # 0 => memSize = 0 /\ \A i \in DOMAIN memInfo : Covers(memInfo[i])

BootInv == DiskInv /\ MapInv
=============================================================================
