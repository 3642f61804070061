------------------------------ MODULE MCStart ------------------------------
(***************************************************************************)
(* Start with the process table, the stacks (in units of 32K) and, rounded *)
(* to blocks, the sections of the kernel where krnl.map has them, the last *)
(* of them so long that the kernel file has the 252 sectors which are read *)
(* (setup.asm:167); and with RAM below and above the hole at 1M, ending    *)
(* off a multiple of 4M, just below 4G and above 4G (so that LengthLow is  *)
(* 0), and a region of ROM.                                                *)
(***************************************************************************)
EXTENDS Start

Segment(type, offset, filesz, vaddr) ==
  [type |-> type, offset |-> offset, filesz |-> filesz, vaddr |-> vaddr]

MCSegments == <<Segment(1, 0, 47, 128), Segment(0, 7, 1, 0), Segment(1, 46, 206, 181)>>

Region(base, length, type) == [base |-> base, length |-> length, type |-> type]

MCRegions ==
  {Region(0, 9, 1), Region(16, 500, 1), Region(1024, 100, 1), Region(49152, 16100, 1),
   Region(65280, 256, 2), Region(65536, 65536, 1)}

MCStackSize == [p \in 0 .. 4 |-> 1]
=============================================================================
