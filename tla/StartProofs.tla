---------------------------- MODULE StartProofs ----------------------------
(***************************************************************************)
(* Theorems about Boot and Start, for any sections of the kernel, any      *)
(* memory map, any number of failing reads and any process table that      *)
(* satisfy BootAssumption and StartAssumption.                             *)
(***************************************************************************)
EXTENDS Start, WellFoundedInduction, TLAPS

AfterPaging == {"move", "kernel", "protect", "main", "running"}

-----------------------------------------------------------------------------
(* One function over another                                               *)

LEMMA OverFact ==
  ASSUME NEW f, NEW g
  PROVE  /\ DOMAIN Over(f, g) = DOMAIN f \cup DOMAIN g
         /\ \A x \in DOMAIN f \cup DOMAIN g :
              Over(f, g)[x] = IF x \in DOMAIN f THEN f[x] ELSE g[x]
BY DEF Over

-----------------------------------------------------------------------------
(* Reading the floppy                                                      *)

LEMMA ReadsFact ==
  /\ Len(KernelReads) = 15
  /\ KernelReads[1] = Reading(1, 0, 1, 18)
  /\ KernelReads[2] = Reading(0, 1, 1, 18)
  /\ KernelReads[3] = Reading(1, 1, 1, 18)
  /\ KernelReads[4] = Reading(0, 2, 1, 18)
  /\ KernelReads[5] = Reading(1, 2, 1, 18)
  /\ KernelReads[6] = Reading(0, 3, 1, 18)
  /\ KernelReads[7] = Reading(1, 3, 1, 18)
  /\ KernelReads[8] = Reading(0, 4, 1, 2)
  /\ KernelReads[9] = Reading(0, 4, 3, 16)
  /\ KernelReads[10] = Reading(1, 4, 1, 18)
  /\ KernelReads[11] = Reading(0, 5, 1, 18)
  /\ KernelReads[12] = Reading(1, 5, 1, 18)
  /\ KernelReads[13] = Reading(0, 6, 1, 18)
  /\ KernelReads[14] = Reading(1, 6, 1, 18)
  /\ KernelReads[15] = Reading(0, 7, 1, 18)
BY DEF KernelReads

(* The sectors, counted from the beginning of the file, that the reads     *)
(* begin with.                                                             *)
First(i) == Sector(KernelReads[i]) - FirstOfKernel

LEMMA FirstFact ==
  /\ First(1) = 0 /\ First(2) = 18 /\ First(3) = 36 /\ First(4) = 54 /\ First(5) = 72
  /\ First(6) = 90 /\ First(7) = 108 /\ First(8) = 126 /\ First(9) = 128 /\ First(10) = 144
  /\ First(11) = 162 /\ First(12) = 180 /\ First(13) = 198 /\ First(14) = 216 /\ First(15) = 234
BY ReadsFact DEF First, Sector, Reading, FirstOfKernel

(* Each read begins where the one before it ends, in the file and, with es *)
(* and bx as they then are, in memory, and the BIOS does not refuse it.    *)
ReadPlace(k) ==
  BaseOfKernelFile + (IF k < EsChangesAfter THEN 0 ELSE BlocksOf64K) + (First(k + 1) % BlocksOf64K)

LEMMA Consecutive ==
  ASSUME NEW k \in 0 .. 14
  PROVE  /\ KernelReads[k + 1].count \in 1 .. 18
         /\ Sector(KernelReads[k + 1]) = FirstOfKernel + First(k + 1)
         /\ First(k + 1) \in 0 .. 234
         /\ ReadPlace(k) = BaseOfKernelFile + First(k + 1)
         /\ BiosReads(KernelReads[k + 1], BaseOfKernelFile + First(k + 1))
         /\ First(k + 1) + KernelReads[k + 1].count <= KernelSectors
         /\ k < 14 => First(k + 2) = First(k + 1) + KernelReads[k + 1].count
         /\ k = 14 => First(k + 1) + KernelReads[k + 1].count = KernelSectors
<1>1. \/ k = 0 \/ k = 1 \/ k = 2 \/ k = 3 \/ k = 4 \/ k = 5 \/ k = 6 \/ k = 7
      \/ k = 8 \/ k = 9 \/ k = 10 \/ k = 11 \/ k = 12 \/ k = 13 \/ k = 14
  OBVIOUS
<1>2. ASSUME NEW f \in 0 .. 234, NEW c \in 1 .. 18, NEW s \in 1 .. 18,
             First(k + 1) = f, s + c <= 19,
             KernelReads[k + 1].count = c, KernelReads[k + 1].first = s,
             Sector(KernelReads[k + 1]) = 18 + f, f + c <= 252,
             f % 128 = IF k < 8 THEN f ELSE f - 128,
             (896 + f) \div 128 = (896 + f + c - 1) \div 128,
             k < 14 => First(k + 2) = f + c,
             k = 14 => f + c = 252
      PROVE  /\ KernelReads[k + 1].count \in 1 .. 18
             /\ Sector(KernelReads[k + 1]) = FirstOfKernel + First(k + 1)
             /\ First(k + 1) \in 0 .. 234
             /\ ReadPlace(k) = BaseOfKernelFile + First(k + 1)
             /\ BiosReads(KernelReads[k + 1], BaseOfKernelFile + First(k + 1))
             /\ First(k + 1) + KernelReads[k + 1].count <= KernelSectors
             /\ k < 14 => First(k + 2) = First(k + 1) + KernelReads[k + 1].count
             /\ k = 14 => First(k + 1) + KernelReads[k + 1].count = KernelSectors
  <2>1. ReadPlace(k) = BaseOfKernelFile + First(k + 1)
    <3>1. CASE k < 8
      BY <1>2, <3>1 DEF ReadPlace, BaseOfKernelFile, EsChangesAfter, BlocksOf64K
    <3>2. CASE ~(k < 8)
      BY <1>2, <3>2 DEF ReadPlace, BaseOfKernelFile, EsChangesAfter, BlocksOf64K
    <3> QED
      BY <3>1, <3>2
  <2>2. BiosReads(KernelReads[k + 1], BaseOfKernelFile + First(k + 1))
    BY <1>2 DEF BiosReads, BaseOfKernelFile, BlocksOf64K
  <2> QED
    BY <1>2, <2>1, <2>2 DEF KernelSectors, FirstOfKernel
<1>3. CASE k = 0
  <2>1. First(k + 1) = 0 /\ First(k + 2) = 18
    BY <1>3, FirstFact
  <2>2. /\ KernelReads[k + 1].count = 18 /\ KernelReads[k + 1].first = 1
        /\ Sector(KernelReads[k + 1]) = 18
    BY <1>3, ReadsFact DEF Reading, Sector
  <2> QED
    BY <1>2, <1>3, <2>1, <2>2
<1>4. CASE k = 1
  <2>1. First(k + 1) = 18 /\ First(k + 2) = 36
    BY <1>4, FirstFact
  <2>2. /\ KernelReads[k + 1].count = 18 /\ KernelReads[k + 1].first = 1
        /\ Sector(KernelReads[k + 1]) = 36
    BY <1>4, ReadsFact DEF Reading, Sector
  <2> QED
    BY <1>2, <1>4, <2>1, <2>2
<1>5. CASE k = 2
  <2>1. First(k + 1) = 36 /\ First(k + 2) = 54
    BY <1>5, FirstFact
  <2>2. /\ KernelReads[k + 1].count = 18 /\ KernelReads[k + 1].first = 1
        /\ Sector(KernelReads[k + 1]) = 54
    BY <1>5, ReadsFact DEF Reading, Sector
  <2> QED
    BY <1>2, <1>5, <2>1, <2>2
<1>6. CASE k = 3
  <2>1. First(k + 1) = 54 /\ First(k + 2) = 72
    BY <1>6, FirstFact
  <2>2. /\ KernelReads[k + 1].count = 18 /\ KernelReads[k + 1].first = 1
        /\ Sector(KernelReads[k + 1]) = 72
    BY <1>6, ReadsFact DEF Reading, Sector
  <2> QED
    BY <1>2, <1>6, <2>1, <2>2
<1>7. CASE k = 4
  <2>1. First(k + 1) = 72 /\ First(k + 2) = 90
    BY <1>7, FirstFact
  <2>2. /\ KernelReads[k + 1].count = 18 /\ KernelReads[k + 1].first = 1
        /\ Sector(KernelReads[k + 1]) = 90
    BY <1>7, ReadsFact DEF Reading, Sector
  <2> QED
    BY <1>2, <1>7, <2>1, <2>2
<1>8. CASE k = 5
  <2>1. First(k + 1) = 90 /\ First(k + 2) = 108
    BY <1>8, FirstFact
  <2>2. /\ KernelReads[k + 1].count = 18 /\ KernelReads[k + 1].first = 1
        /\ Sector(KernelReads[k + 1]) = 108
    BY <1>8, ReadsFact DEF Reading, Sector
  <2> QED
    BY <1>2, <1>8, <2>1, <2>2
<1>9. CASE k = 6
  <2>1. First(k + 1) = 108 /\ First(k + 2) = 126
    BY <1>9, FirstFact
  <2>2. /\ KernelReads[k + 1].count = 18 /\ KernelReads[k + 1].first = 1
        /\ Sector(KernelReads[k + 1]) = 126
    BY <1>9, ReadsFact DEF Reading, Sector
  <2> QED
    BY <1>2, <1>9, <2>1, <2>2
<1>10. CASE k = 7
  <2>1. First(k + 1) = 126 /\ First(k + 2) = 128
    BY <1>10, FirstFact
  <2>2. /\ KernelReads[k + 1].count = 2 /\ KernelReads[k + 1].first = 1
        /\ Sector(KernelReads[k + 1]) = 144
    BY <1>10, ReadsFact DEF Reading, Sector
  <2> QED
    BY <1>2, <1>10, <2>1, <2>2
<1>11. CASE k = 8
  <2>1. First(k + 1) = 128 /\ First(k + 2) = 144
    BY <1>11, FirstFact
  <2>2. /\ KernelReads[k + 1].count = 16 /\ KernelReads[k + 1].first = 3
        /\ Sector(KernelReads[k + 1]) = 146
    BY <1>11, ReadsFact DEF Reading, Sector
  <2> QED
    BY <1>2, <1>11, <2>1, <2>2
<1>12. CASE k = 9
  <2>1. First(k + 1) = 144 /\ First(k + 2) = 162
    BY <1>12, FirstFact
  <2>2. /\ KernelReads[k + 1].count = 18 /\ KernelReads[k + 1].first = 1
        /\ Sector(KernelReads[k + 1]) = 162
    BY <1>12, ReadsFact DEF Reading, Sector
  <2> QED
    BY <1>2, <1>12, <2>1, <2>2
<1>13. CASE k = 10
  <2>1. First(k + 1) = 162 /\ First(k + 2) = 180
    BY <1>13, FirstFact
  <2>2. /\ KernelReads[k + 1].count = 18 /\ KernelReads[k + 1].first = 1
        /\ Sector(KernelReads[k + 1]) = 180
    BY <1>13, ReadsFact DEF Reading, Sector
  <2> QED
    BY <1>2, <1>13, <2>1, <2>2
<1>14. CASE k = 11
  <2>1. First(k + 1) = 180 /\ First(k + 2) = 198
    BY <1>14, FirstFact
  <2>2. /\ KernelReads[k + 1].count = 18 /\ KernelReads[k + 1].first = 1
        /\ Sector(KernelReads[k + 1]) = 198
    BY <1>14, ReadsFact DEF Reading, Sector
  <2> QED
    BY <1>2, <1>14, <2>1, <2>2
<1>15. CASE k = 12
  <2>1. First(k + 1) = 198 /\ First(k + 2) = 216
    BY <1>15, FirstFact
  <2>2. /\ KernelReads[k + 1].count = 18 /\ KernelReads[k + 1].first = 1
        /\ Sector(KernelReads[k + 1]) = 216
    BY <1>15, ReadsFact DEF Reading, Sector
  <2> QED
    BY <1>2, <1>15, <2>1, <2>2
<1>16. CASE k = 13
  <2>1. First(k + 1) = 216 /\ First(k + 2) = 234
    BY <1>16, FirstFact
  <2>2. /\ KernelReads[k + 1].count = 18 /\ KernelReads[k + 1].first = 1
        /\ Sector(KernelReads[k + 1]) = 234
    BY <1>16, ReadsFact DEF Reading, Sector
  <2> QED
    BY <1>2, <1>16, <2>1, <2>2
<1>17. CASE k = 14
  <2>1. First(k + 1) = 234
    BY <1>17, FirstFact
  <2>2. /\ KernelReads[k + 1].count = 18 /\ KernelReads[k + 1].first = 1
        /\ Sector(KernelReads[k + 1]) = 252
    BY <1>17, ReadsFact DEF Reading, Sector
  <2> QED
    BY <1>2, <1>17, <2>1, <2>2
<1> QED
  BY <1>1, <1>3, <1>4, <1>5, <1>6, <1>7, <1>8, <1>9, <1>10, <1>11, <1>12, <1>13, <1>14, <1>15, <1>16, <1>17

(* What a read that is not refused and does not fail leaves in memory.     *)
LEMMA ReadFact ==
  ASSUME NEW r, NEW at \in Nat, r.count \in Nat, Sector(r) \in Nat, failed \in Nat,
         Read(r, at), BiosReads(r, at), failed' = 0
  PROVE  /\ failed = 0
         /\ \A k \in 0 .. r.count - 1 : at + k \in DOMAIN mem' /\ mem'[at + k] = Sector(r) + k
         /\ \A b \in DOMAIN mem : b \notin at .. at + r.count - 1 => b \in DOMAIN mem' /\ mem'[b] = mem[b]
<1> DEFINE new == [b \in at .. at + r.count - 1 |-> Sector(r) + b - at]
<1>1. failed = 0 /\ mem' = Over(new, mem)
  BY DEF Read
<1>2. DOMAIN new = at .. at + r.count - 1
  OBVIOUS
<1>3. \A b \in at .. at + r.count - 1 : new[b] = Sector(r) + b - at
  OBVIOUS
<1> HIDE DEF new
<1>4. DOMAIN mem' = (at .. at + r.count - 1) \cup DOMAIN mem
  BY <1>1, <1>2, OverFact
<1>5. \A b \in DOMAIN mem' : mem'[b] = IF b \in at .. at + r.count - 1 THEN new[b] ELSE mem[b]
  BY <1>1, <1>2, <1>4, OverFact
<1>6. ASSUME NEW k \in 0 .. r.count - 1
      PROVE  at + k \in DOMAIN mem' /\ mem'[at + k] = Sector(r) + k
  <2>1. at + k \in at .. at + r.count - 1
    OBVIOUS
  <2>2. mem'[at + k] = Sector(r) + (at + k) - at
    BY <2>1, <1>3, <1>4, <1>5
  <2> QED
    BY <2>1, <2>2, <1>4
<1> QED
  BY <1>1, <1>4, <1>5, <1>6

LEMMA ReadLoaderStep ==
  ASSUME BootInv, ReadLoader
  PROVE  BootInv'
<1> USE DEF ReadLoader, BootInv
<1>1. pc = "boot" /\ pc' = "setup" /\ n' = n /\ n = 0 /\ es' = BaseOfKernelFile /\ bx' = bx /\ bx = 0
      /\ es + bx = 1152
  BY DEF DiskInv, BaseOfSetup
<1>2. UNCHANGED <<memInfo, segNumber, memSize, tables>>
  OBVIOUS
<1>3. failed' \in Nat
  BY DEF Read, DiskInv
<1>4. failed' = 0 => SetupRead'
  <2> SUFFICES ASSUME failed' = 0 PROVE SetupRead'
    OBVIOUS
  <2>1. LoaderRead.count = 17 /\ LoaderRead.first = 2 /\ Sector(LoaderRead) = 1
    BY DEF LoaderRead, Reading, SetupSectors, Sector
  <2>2. BiosReads(LoaderRead, 1152)
    BY <2>1 DEF BiosReads, BlocksOf64K
  <2>3. Read(LoaderRead, 1152) /\ failed \in Nat
    BY <1>1 DEF DiskInv
  <2>4. \A k \in 0 .. 16 : 1152 + k \in DOMAIN mem' /\ mem'[1152 + k] = 1 + k
    BY <2>1, <2>2, <2>3, ReadFact
  <2> QED
    BY <2>4 DEF SetupRead, BaseOfSetup, SetupSectors
<1>5. First(1) = 0 /\ Len(KernelReads) = 15
  BY FirstFact, ReadsFact
<1>6. DiskInv'
  <2>1. bx' = First(1) % BlocksOf64K /\ es' = BaseOfKernelFile + 0
    BY <1>1, <1>5 DEF BlocksOf64K, BaseOfKernelFile
  <2>2. FileRead(First(1))'
    BY <1>5 DEF FileRead
  <2> QED
    BY <1>1, <1>3, <1>4, <1>5, <2>1, <2>2 DEF DiskInv, First, EsChangesAfter
<1>7. MapInv'
  BY <1>1, <1>2 DEF MapInv, Covers
<1> QED
  BY <1>6, <1>7

LEMMA ReadKernelStep ==
  ASSUME BootInv, ReadKernel
  PROVE  BootInv'
<1> DEFINE r == KernelReads[n + 1]
<1>1. pc = "setup" /\ n \in 0 .. 14 /\ failed \in Nat
  BY ReadsFact DEF ReadKernel, BootInv, DiskInv
<1>2. /\ r.count \in 1 .. 18
      /\ Sector(r) = FirstOfKernel + First(n + 1)
      /\ First(n + 1) \in 0 .. 234
      /\ ReadPlace(n) = BaseOfKernelFile + First(n + 1)
      /\ BiosReads(r, BaseOfKernelFile + First(n + 1))
      /\ First(n + 1) + r.count <= KernelSectors
      /\ n < 14 => First(n + 2) = First(n + 1) + r.count
      /\ n = 14 => First(n + 1) + r.count = KernelSectors
  BY <1>1, Consecutive
<1>3. PICK f \in 0 .. 234 : f = First(n + 1)
  BY <1>2
<1>4. PICK c \in 1 .. 18 : c = r.count
  BY <1>2
<1>5. /\ es = BaseOfKernelFile + (IF n < EsChangesAfter THEN 0 ELSE BlocksOf64K)
      /\ bx = f % BlocksOf64K
      /\ failed = 0 => SetupRead /\ FileRead(f)
  BY <1>1, <1>3 DEF BootInv, DiskInv, First
<1>6. es + bx = 896 + f
  BY <1>2, <1>3, <1>5 DEF ReadPlace, BaseOfKernelFile
<1>7. /\ Read(r, 896 + f)
      /\ bx' = (bx + c) % BlocksOf64K
      /\ es' = IF n + 1 = EsChangesAfter THEN es + BlocksOf64K ELSE es
      /\ Turn(15, "e820")
      /\ UNCHANGED <<memInfo, segNumber, memSize, tables>>
  BY <1>4, <1>6, ReadsFact DEF ReadKernel
<1>8. IF n = 14 THEN pc' = "e820" /\ n' = 0 ELSE n' = n + 1 /\ pc' = "setup"
  BY <1>1, <1>7 DEF Turn
<1>9. failed' \in Nat
  BY <1>1, <1>7 DEF Read
<1>10. f + c <= 252 /\ Sector(r) = 18 + f
  BY <1>2, <1>3, <1>4 DEF KernelSectors, FirstOfKernel
<1>11. ASSUME failed' = 0
       PROVE  SetupRead' /\ FileRead(f + c)'
  <2>1. BiosReads(r, 896 + f)
    BY <1>2, <1>3 DEF BaseOfKernelFile
  <2>2. /\ failed = 0
        /\ \A k \in 0 .. r.count - 1 :
             (896 + f) + k \in DOMAIN mem' /\ mem'[(896 + f) + k] = Sector(r) + k
        /\ \A b \in DOMAIN mem : b \notin 896 + f .. (896 + f) + r.count - 1 =>
             b \in DOMAIN mem' /\ mem'[b] = mem[b]
    <3>1. 896 + f \in Nat /\ r.count \in Nat /\ Sector(r) \in Nat
      BY <1>4, <1>10
    <3> HIDE DEF r
    <3> QED
      BY <3>1, <1>1, <1>7, <1>11, <2>1, ReadFact
  <2>3. \A k \in 0 .. c - 1 : (896 + f) + k \in DOMAIN mem' /\ mem'[(896 + f) + k] = (18 + f) + k
    BY <1>4, <1>10, <2>2
  <2>4. \A b \in DOMAIN mem : b \notin 896 + f .. (896 + f) + c - 1 => b \in DOMAIN mem' /\ mem'[b] = mem[b]
    BY <1>4, <2>2
  <2>5. SetupRead /\ FileRead(f)
    BY <1>5, <2>2
  <2>6. SetupRead'
    <3> SUFFICES ASSUME NEW k \in 0 .. 16 PROVE 1152 + k \in DOMAIN mem' /\ mem'[1152 + k] = 1 + k
      BY DEF SetupRead, BaseOfSetup, SetupSectors
    <3>1. 1152 + k \notin 896 + f .. (896 + f) + c - 1
      BY <1>10
    <3>2. 1152 + k \in DOMAIN mem /\ mem[1152 + k] = 1 + k
      BY <2>5 DEF SetupRead, BaseOfSetup, SetupSectors
    <3> QED
      BY <3>1, <3>2, <2>4
  <2>7. ASSUME NEW k \in 0 .. f + c - 1
        PROVE  896 + k \in DOMAIN mem' /\ mem'[896 + k] = 18 + k
    <3>1. CASE k < f
      <4>1. 896 + k \notin 896 + f .. (896 + f) + c - 1
        BY <3>1
      <4>2. 896 + k \in DOMAIN mem /\ mem[896 + k] = 18 + k
        BY <3>1, <2>5 DEF FileRead, BaseOfKernelFile, FirstOfKernel
      <4> QED
        BY <4>1, <4>2, <2>4
    <3>2. CASE ~(k < f)
      <4>1. PICK j \in 0 .. c - 1 : k = f + j
        <5>1. k - f \in 0 .. c - 1 /\ k = f + (k - f)
          BY <3>2
        <5> QED
          BY <5>1
      <4>2. (896 + f) + j = 896 + k /\ (18 + f) + j = 18 + k
        BY <4>1
      <4> QED
        BY <4>2, <2>3
    <3> QED
      BY <3>1, <3>2
  <2> QED
    BY <2>6, <2>7 DEF FileRead, BaseOfKernelFile, FirstOfKernel
<1>12. MapInv'
  BY <1>1, <1>7, <1>8 DEF BootInv, MapInv, Covers
<1>13. DiskInv'
  <2>1. CASE n = 14
    <3>1. f + c = KernelSectors
      BY <2>1, <1>2, <1>3, <1>4
    <3> QED
      BY <2>1, <3>1, <1>8, <1>9, <1>11 DEF DiskInv
  <2>2. CASE n # 14
    <3>1. n' = n + 1 /\ pc' = "setup" /\ n' \in 1 .. 14 /\ n' + 1 = n + 2
      BY <1>1, <1>8, <2>2
    <3>2. First(n' + 1) = f + c
      BY <1>1, <1>2, <1>3, <1>4, <2>2, <3>1
    <3>3. es' = BaseOfKernelFile + (IF n' < EsChangesAfter THEN 0 ELSE BlocksOf64K)
      BY <1>1, <1>5, <1>7, <3>1 DEF EsChangesAfter, BlocksOf64K, BaseOfKernelFile
    <3>4. bx' = (f + c) % BlocksOf64K
      BY <1>5, <1>7 DEF BlocksOf64K
    <3>5. failed' = 0 => SetupRead' /\ FileRead(Sector(KernelReads[n + 1]) - FirstOfKernel)'
      BY <1>11, <3>2 DEF FileRead, First
    <3>6. bx' = First(n' + 1) % BlocksOf64K
      BY <3>2, <3>4
    <3> QED
      BY <3>1, <3>3, <3>5, <3>6, <1>9, ReadsFact DEF DiskInv, First
  <2> QED
    BY <2>1, <2>2
<1> QED
  BY <1>12, <1>13 DEF BootInv

-----------------------------------------------------------------------------
(* The memory map and paging                                               *)

(* Steps that leave memory and the drive alone keep what was read.         *)
LEMMA DiskKept ==
  ASSUME DiskInv, UNCHANGED <<mem, failed, es, bx>>, n' \in Nat,
         pc \in {"e820", "sum", "max", "paging"},
         pc' \in {"e820", "sum", "max", "paging", "lost"},
         pc' \in {"e820", "paging"} => n' = 0
  PROVE  DiskInv'
BY DEF DiskInv, SetupRead, FileRead

LEMMA NextRegionStep ==
  ASSUME BootInv, NextRegion
  PROVE  BootInv'
<1>1. /\ pc = "e820" /\ pc' \in {"e820", "sum"}
      /\ n' = n /\ n = 0
      /\ UNCHANGED <<es, bx, mem, failed, memSize, tables>>
  BY DEF NextRegion, BootInv, DiskInv
<1>2. DiskInv'
  BY <1>1, DiskKept DEF BootInv
<1>3. PICK r \in Regions : memInfo' = Append(memInfo, r) /\ segNumber' = segNumber + 1
  BY DEF NextRegion
<1>4. memInfo \in Seq(Regions) /\ segNumber = Len(memInfo) /\ tables = 0
  BY <1>1 DEF BootInv, MapInv
<1>5. memInfo' \in Seq(Regions) /\ segNumber' = Len(memInfo') /\ segNumber' \in Nat
  BY <1>3, <1>4
<1>6. MapInv'
  BY <1>1, <1>4, <1>5 DEF BootInv, MapInv
<1> QED
  BY <1>2, <1>6 DEF BootInv

LEMMA MemoryFailStep ==
  ASSUME BootInv, MemoryFail
  PROVE  BootInv'
<1>1. /\ pc = "e820" /\ pc' = "sum" /\ segNumber' = 0
      /\ n' = n /\ n = 0
      /\ UNCHANGED <<es, bx, mem, failed, memInfo, memSize, tables>>
  BY DEF MemoryFail, BootInv, DiskInv
<1>2. DiskInv'
  BY <1>1, DiskKept DEF BootInv
<1>3. MapInv'
  BY <1>1 DEF BootInv, MapInv
<1> QED
  BY <1>2, <1>3 DEF BootInv

(* How a loop over the regions goes on.                                    *)
LEMMA TurnFact ==
  ASSUME NEW count \in Nat, NEW next, n \in Nat, n < count, Turn(count, next)
  PROVE  \/ n + 1 = count /\ pc' = next /\ n' = 0
         \/ n + 1 < count /\ pc' = pc /\ n' = n + 1
BY DEF Turn

LEMMA RegionFact ==
  ASSUME MapInv, NEW i \in 1 .. Len(memInfo)
  PROVE  memInfo[i].base \in Nat /\ memInfo[i].length \in Nat \ {0}
<1>1. memInfo[i] \in Regions
  BY DEF MapInv
<1> QED
  BY <1>1, BootAssumption DEF BootAssumption

LEMMA WordFact ==
  ASSUME NEW x \in Nat
  PROVE  /\ x % WORD \in Nat /\ x % WORD < WORD
         /\ x < WORD => x % WORD = x
BY DEF WORD

LEMMA GetMemSizeStep ==
  ASSUME BootInv, GetMemSize
  PROVE  BootInv'
<1>1. /\ pc = "sum" /\ n \in Nat
      /\ UNCHANGED <<es, bx, mem, failed, memInfo, segNumber, tables>>
  BY DEF GetMemSize, BootInv, DiskInv
<1>2. CASE segNumber = 0
  <2>1. pc' = "lost" /\ UNCHANGED <<n, memSize>>
    BY <1>2 DEF GetMemSize
  <2>2. DiskInv'
    BY <1>1, <2>1, DiskKept DEF BootInv
  <2>3. MapInv'
    BY <1>1, <1>2, <2>1 DEF BootInv, MapInv
  <2> QED
    BY <2>2, <2>3 DEF BootInv
<1>3. CASE segNumber # 0
  <2> DEFINE r == memInfo[n + 1]
  <2>1. segNumber = Len(memInfo) /\ segNumber \in Nat /\ n < segNumber
    BY <1>1, <1>3 DEF BootInv, MapInv
  <2>2. /\ memSize' = IF IsRam(r) THEN (memSize + r.length) % WORD ELSE memSize
        /\ Turn(segNumber, "max")
    BY <1>3 DEF GetMemSize
  <2>3. memSize' \in Nat /\ memSize' < WORD
    <3>1. r.length \in Nat /\ memSize \in Nat /\ memSize < WORD
      BY <1>1, <2>1, RegionFact DEF BootInv, MapInv
    <3> HIDE DEF r
    <3>2. CASE IsRam(r)
      <4>1. memSize + r.length \in Nat
        BY <3>1
      <4> QED
        BY <2>2, <3>2, <4>1, WordFact
    <3>3. CASE ~IsRam(r)
      BY <2>2, <3>1, <3>3
    <3> QED
      BY <3>2, <3>3
  <2>4. pc' \in {"sum", "max"} /\ n' \in Nat /\ n' < segNumber /\ (pc' = "max" => n' = 0)
    BY <1>1, <1>3, <2>1, <2>2, TurnFact
  <2>5. DiskInv'
    BY <1>1, <2>4, DiskKept DEF BootInv
  <2>6. MapInv'
    BY <1>1, <1>3, <2>3, <2>4 DEF BootInv, MapInv
  <2> QED
    BY <2>5, <2>6 DEF BootInv
<1> QED
  BY <1>2, <1>3

(* MemSize never shrinks there, and covers the region looked at.           *)
LEMMA GreatestFact ==
  ASSUME NEW size \in Nat, size < WORD, NEW r, r.base \in Nat, r.length \in Nat
  PROVE  /\ Greatest(size, r) \in Nat /\ Greatest(size, r) < WORD
         /\ Greatest(size, r) >= size
         /\ IsRam(r) /\ r.base + r.length < WORD => r.base + r.length <= Greatest(size, r)
<1>1. PICK e \in Nat :
        e < WORD /\ e = (r.base + r.length) % WORD /\ (r.base + r.length < WORD => e = r.base + r.length)
  <2>1. r.base + r.length \in Nat
    OBVIOUS
  <2> QED
    BY <2>1, WordFact
<1>2. Greatest(size, r) = IF IsRam(r) /\ e >= size THEN e ELSE size
  BY <1>1 DEF Greatest
<1>3. CASE IsRam(r) /\ e >= size
  BY <1>1, <1>2, <1>3
<1>4. CASE ~(IsRam(r) /\ e >= size)
  BY <1>1, <1>2, <1>4
<1> QED
  BY <1>3, <1>4

LEMMA DispMemInfoStep ==
  ASSUME BootInv, DispMemInfo
  PROVE  BootInv'
<1>1. /\ pc = "max" /\ n \in Nat /\ n < segNumber
      /\ \A i \in 1 .. n : Covers(memInfo[i])
      /\ memSize \in Nat /\ memSize < WORD /\ memInfo \in Seq(Regions)
      /\ UNCHANGED <<es, bx, mem, failed, memInfo, segNumber, tables>>
  BY DEF DispMemInfo, BootInv, DiskInv, MapInv
<1>2. segNumber = Len(memInfo) /\ segNumber \in Nat
  BY <1>1 DEF BootInv, MapInv
<1>3. memSize' = Greatest(memSize, memInfo[n + 1]) /\ Turn(segNumber, "paging")
  BY DEF DispMemInfo
<1>4. \A i \in 1 .. segNumber : memInfo[i].base \in Nat /\ memInfo[i].length \in Nat
  BY <1>2, RegionFact DEF BootInv
<1>5. /\ memSize' \in Nat /\ memSize' < WORD /\ memSize' >= memSize
      /\ LET r == memInfo[n + 1] IN
           IsRam(r) /\ r.base + r.length < WORD => r.base + r.length <= memSize'
  <2>1. n + 1 \in 1 .. segNumber
    BY <1>1, <1>2
  <2>2. memInfo[n + 1].base \in Nat /\ memInfo[n + 1].length \in Nat
    BY <1>4, <2>1
  <2> QED
    BY <1>1, <1>3, <2>2, GreatestFact
<1>6. \A i \in 1 .. n + 1 : Covers(memInfo[i])'
  <2> SUFFICES ASSUME NEW i \in 1 .. n + 1 PROVE Covers(memInfo[i])'
    OBVIOUS
  <2>1. CASE i = n + 1
    BY <2>1, <1>1, <1>5 DEF Covers
  <2>2. CASE i # n + 1
    <3>1. Covers(memInfo[i]) /\ i \in 1 .. segNumber
      BY <1>1, <1>2, <2>2
    <3>2. PICK e \in Nat : e = memInfo[i].base + memInfo[i].length
      BY <3>1, <1>4
    <3> QED
      BY <3>1, <3>2, <1>1, <1>5 DEF Covers
  <2> QED
    BY <2>1, <2>2
<1>7. \/ n + 1 = segNumber /\ pc' = "paging" /\ n' = 0
      \/ n + 1 < segNumber /\ pc' = "max" /\ n' = n + 1
  BY <1>1, <1>2, <1>3, TurnFact
<1>8. DiskInv'
  BY <1>1, <1>7, DiskKept DEF BootInv
<1>9. MapInv'
  BY <1>1, <1>2, <1>5, <1>6, <1>7 DEF BootInv, MapInv
<1> QED
  BY <1>8, <1>9 DEF BootInv

(* The tables map all of MemSize.                                          *)
LEMMA TablesFact ==
  ASSUME NEW size \in Nat
  PROVE  TablesFor(size) \in Nat /\ size <= TablesFor(size) * PageUnit
<1>1. PICK q \in Nat : q = size \div 64
  OBVIOUS
<1>2. PICK m \in 0 .. 63 : m = size % 64
  OBVIOUS
<1>3. size = 64 * q + m
  BY <1>1, <1>2
<1>4. TablesFor(size) = q + (IF m = 0 THEN 0 ELSE 1)
  BY <1>1, <1>2 DEF TablesFor, PageUnit
<1> QED
  BY <1>3, <1>4 DEF PageUnit

LEMMA SetupPagingStep ==
  ASSUME BootInv, SetupPaging
  PROVE  BootInv'
<1>1. /\ pc = "paging" /\ n = 0 /\ memSize \in Nat
      /\ \A i \in DOMAIN memInfo : Covers(memInfo[i])
      /\ UNCHANGED <<n, es, bx, mem, failed, memInfo, segNumber, memSize>>
      /\ tables' = TablesFor(memSize)
      /\ pc' = IF tables' = 0 THEN "lost" ELSE "move"
  <2>1. memSize \in Nat
    BY DEF BootInv, MapInv
  <2>2. pc = "paging"
    BY DEF SetupPaging
  <2> QED
    BY <2>1, <2>2 DEF SetupPaging, BootInv, DiskInv, MapInv
<1>2. tables' \in Nat /\ memSize <= tables' * PageUnit
  BY <1>1, TablesFact
<1>3. tables' = 0 => memSize = 0
  BY <1>1, <1>2 DEF PageUnit
<1>4. MapInv'
  <2>1. (\A i \in DOMAIN memInfo : Covers(memInfo[i]))'
    BY <1>1 DEF Covers
  <2>2. CASE tables' = 0
    BY <1>1, <1>2, <1>3, <2>1, <2>2 DEF BootInv, MapInv
  <2>3. CASE tables' # 0
    BY <1>1, <1>2, <2>1, <2>3 DEF BootInv, MapInv
  <2> QED
    BY <2>2, <2>3
<1>5. DiskInv'
  <2>1. 0 < Len(Segments)
    BY BootAssumption DEF BootAssumption
  <2> QED
    BY <1>1, <2>1 DEF BootInv, DiskInv, SetupRead, FileRead
<1> QED
  BY <1>4, <1>5 DEF BootInv

-----------------------------------------------------------------------------
(* The segments of the kernel                                              *)

LEMMA SegmentFact ==
  ASSUME NEW i \in DOMAIN Segments
  PROVE  Segments[i].offset \in Nat /\ Segments[i].filesz \in Nat /\ Segments[i].vaddr \in Nat
<1> DEFINE Header == [type : Nat, offset : Nat, filesz : Nat, vaddr : Nat]
<1>1. Segments \in Seq(Header)
  BY BootAssumption DEF BootAssumption
<1> HIDE DEF Header
<1>2. Segments[i] \in Header
  BY <1>1
<1> QED
  BY <1>2 DEF Header

(* Copying from the file, as long as it is whole, to below it moves the    *)
(* segment and leaves everything else alone.                               *)
LEMMA CopiedFact ==
  ASSUME NEW s, s.offset \in Nat, s.filesz \in Nat, s.vaddr \in Nat,
         s.offset + s.filesz <= KernelSectors, FileRead(KernelSectors), mem' = Copied(s)
  PROVE  /\ \A k \in 0 .. s.filesz - 1 :
              s.vaddr + k \in DOMAIN mem' /\ mem'[s.vaddr + k] = FirstOfKernel + s.offset + k
         /\ \A b \in DOMAIN mem : b \notin SectionTo(s) => b \in DOMAIN mem' /\ mem'[b] = mem[b]
<1> DEFINE from(b) == BaseOfKernelFile + s.offset + b - s.vaddr
<1> DEFINE new == [b \in {b \in SectionTo(s) : from(b) \in DOMAIN mem} |-> mem[from(b)]]
<1>1. mem' = Over(new, mem)
  BY DEF Copied
<1>2. DOMAIN new \subseteq SectionTo(s)
  OBVIOUS
<1>3. ASSUME NEW k \in 0 .. s.filesz - 1
      PROVE  /\ s.vaddr + k \in DOMAIN new
             /\ new[s.vaddr + k] = FirstOfKernel + s.offset + k
  <2>1. s.vaddr + k \in SectionTo(s)
    BY DEF SectionTo
  <2>2. from(s.vaddr + k) = 896 + (s.offset + k) /\ s.offset + k \in 0 .. 251
    <3>1. PICK v \in Nat, o \in Nat, z \in Nat : v = s.vaddr /\ o = s.offset /\ z = s.filesz
      OBVIOUS
    <3>2. o + z <= 252 /\ k \in 0 .. z - 1
      BY <3>1 DEF KernelSectors
    <3>3. k \in Nat /\ k < z
      BY <3>1, <3>2
    <3>4. o + k \in 0 .. 251
      BY <3>2, <3>3
    <3>5. 896 + o + (v + k) - v = 896 + (o + k)
      BY <3>3
    <3> QED
      BY <3>1, <3>4, <3>5 DEF BaseOfKernelFile
  <2>3. from(s.vaddr + k) \in DOMAIN mem /\ mem[from(s.vaddr + k)] = 18 + (s.offset + k)
    BY <2>2 DEF FileRead, BaseOfKernelFile, KernelSectors, FirstOfKernel
  <2>4. FirstOfKernel + s.offset + k = 18 + (s.offset + k)
    BY DEF FirstOfKernel
  <2> QED
    BY <2>1, <2>3, <2>4
<1> HIDE DEF new
<1>4. DOMAIN mem' = DOMAIN new \cup DOMAIN mem
  BY <1>1, OverFact
<1>5. \A b \in DOMAIN new \cup DOMAIN mem : mem'[b] = IF b \in DOMAIN new THEN new[b] ELSE mem[b]
  BY <1>1 DEF Over
<1>6. ASSUME NEW k \in 0 .. s.filesz - 1
      PROVE  s.vaddr + k \in DOMAIN mem' /\ mem'[s.vaddr + k] = FirstOfKernel + s.offset + k
  BY <1>3, <1>4, <1>5
<1> QED
  BY <1>2, <1>4, <1>5, <1>6

LEMMA InitKernelStep ==
  ASSUME BootInv, InitKernel
  PROVE  BootInv'
<1> DEFINE s == Segments[n + 1]
<1>1. /\ pc = "move" /\ n \in Nat /\ n < Len(Segments) /\ failed' = failed
      /\ Turn(Len(Segments), "kernel")
      /\ mem' = IF s.type = 0 THEN mem ELSE Copied(s)
      /\ UNCHANGED <<es, bx, memInfo, segNumber, memSize, tables>>
  BY DEF InitKernel, BootInv, DiskInv
<1>2. Len(Segments) \in Nat /\ DOMAIN Segments = 1 .. Len(Segments)
  BY BootAssumption DEF BootAssumption
<1>3. n + 1 \in DOMAIN Segments
  BY <1>1, <1>2
<1>4. \/ n + 1 = Len(Segments) /\ pc' = "kernel" /\ n' = 0
      \/ n + 1 < Len(Segments) /\ pc' = "move" /\ n' = n + 1
  BY <1>1, <1>2, TurnFact
<1>5. ASSUME failed = 0
      PROVE  SetupRead' /\ FileRead(KernelSectors)' /\ \A i \in 1 .. n + 1 : SegmentMoved(Segments[i])'
  <2>1. SetupRead /\ FileRead(KernelSectors) /\ \A i \in 1 .. n : SegmentMoved(Segments[i])
    BY <1>1, <1>5 DEF BootInv, DiskInv
  <2>2. CASE s.type = 0
    <3>1. mem' = mem
      BY <1>1, <2>2
    <3>2. \A i \in 1 .. n + 1 : i # n + 1 => i \in 1 .. n
      BY <1>1
    <3> QED
      BY <2>1, <2>2, <3>1, <3>2 DEF SetupRead, FileRead, SegmentMoved
  <2>3. CASE s.type # 0
    <3>1. /\ s.offset \in Nat /\ s.filesz \in Nat /\ s.vaddr \in Nat
          /\ s.offset + s.filesz <= KernelSectors
          /\ s.vaddr + s.filesz <= 896
      BY <1>3, <2>3, SegmentFact, BootAssumption DEF BootAssumption, BaseOfKernelFile
    <3>2. /\ \A k \in 0 .. s.filesz - 1 :
               s.vaddr + k \in DOMAIN mem' /\ mem'[s.vaddr + k] = FirstOfKernel + s.offset + k
          /\ \A b \in DOMAIN mem : b \notin SectionTo(s) => b \in DOMAIN mem' /\ mem'[b] = mem[b]
      <4>1. mem' = Copied(s)
        BY <1>1, <2>3
      <4> HIDE DEF s
      <4> QED
        BY <3>1, <2>1, <4>1, CopiedFact
    <3>3. \A b \in Nat : b >= 896 => b \notin SectionTo(s)
      <4>1. PICK v \in Nat, z \in Nat : v = s.vaddr /\ z = s.filesz
        BY <3>1
      <4> QED
        BY <3>1, <4>1 DEF SectionTo
    <3>4. SetupRead'
      <4> SUFFICES ASSUME NEW k \in 0 .. 16 PROVE 1152 + k \in DOMAIN mem' /\ mem'[1152 + k] = 1 + k
        BY DEF SetupRead, BaseOfSetup, SetupSectors
      <4>1. 1152 + k \in DOMAIN mem /\ mem[1152 + k] = 1 + k
        BY <2>1 DEF SetupRead, BaseOfSetup, SetupSectors
      <4>2. 1152 + k \notin SectionTo(s)
        BY <3>3
      <4> QED
        BY <4>1, <4>2, <3>2
    <3>5. FileRead(KernelSectors)'
      <4> SUFFICES ASSUME NEW k \in 0 .. 251 PROVE 896 + k \in DOMAIN mem' /\ mem'[896 + k] = 18 + k
        BY DEF FileRead, BaseOfKernelFile, KernelSectors, FirstOfKernel
      <4>1. 896 + k \in DOMAIN mem /\ mem[896 + k] = 18 + k
        BY <2>1 DEF FileRead, BaseOfKernelFile, KernelSectors, FirstOfKernel
      <4>2. 896 + k \notin SectionTo(s)
        BY <3>3
      <4> QED
        BY <4>1, <4>2, <3>2
    <3>6. ASSUME NEW i \in 1 .. n + 1 PROVE SegmentMoved(Segments[i])'
      <4>1. CASE i = n + 1
        BY <4>1, <3>2 DEF SegmentMoved
      <4>2. CASE i # n + 1
        <5>1. i \in 1 .. n /\ i \in DOMAIN Segments
          BY <4>2, <1>1, <1>2
        <5>2. SegmentMoved(Segments[i])
          BY <5>1, <2>1
        <5> SUFFICES ASSUME Segments[i].type # 0, NEW k \in 0 .. Segments[i].filesz - 1
                     PROVE  /\ Segments[i].vaddr + k \in DOMAIN mem'
                            /\ mem'[Segments[i].vaddr + k] = FirstOfKernel + Segments[i].offset + k
          BY DEF SegmentMoved
        <5>3. /\ Segments[i].vaddr + k \in DOMAIN mem
              /\ mem[Segments[i].vaddr + k] = FirstOfKernel + Segments[i].offset + k
          BY <5>2 DEF SegmentMoved
        <5>4. SectionTo(Segments[i]) \cap SectionTo(s) = {}
          BY <5>1, <1>3, <2>3, <4>2, BootAssumption DEF BootAssumption
        <5>5. Segments[i].vaddr + k \in SectionTo(Segments[i])
          <6>1. PICK v \in Nat, z \in Nat : v = Segments[i].vaddr /\ z = Segments[i].filesz
            BY <5>1, SegmentFact
          <6> QED
            BY <6>1 DEF SectionTo
        <5> QED
          BY <5>3, <5>4, <5>5, <3>2
      <4> QED
        BY <4>1, <4>2
    <3> QED
      BY <3>4, <3>5, <3>6
  <2> QED
    BY <2>2, <2>3
<1>6. DiskInv'
  <2>1. failed' \in Nat
    BY <1>1 DEF BootInv, DiskInv
  <2>2. CASE n + 1 = Len(Segments) /\ pc' = "kernel" /\ n' = 0
    <3>1. failed' = 0 => SetupRead' /\ (\A i \in DOMAIN Segments : SegmentMoved(Segments[i]))'
      BY <1>1, <1>2, <1>5, <2>2
    <3> QED
      BY <2>1, <2>2, <3>1 DEF DiskInv
  <2>3. CASE n + 1 < Len(Segments) /\ pc' = "move" /\ n' = n + 1
    <3>1. /\ n' \in Nat /\ n' < Len(Segments)
          /\ failed' = 0 => SetupRead' /\ FileRead(KernelSectors)' /\ (\A i \in 1 .. n : SegmentMoved(Segments[i]))'
      BY <1>1, <1>2, <1>5, <2>3
    <3> QED
      BY <2>1, <2>3, <3>1 DEF DiskInv
  <2> QED
    BY <1>4, <2>2, <2>3
<1>7. MapInv'
  BY <1>1, <1>4 DEF BootInv, MapInv, Covers
<1> QED
  BY <1>6, <1>7 DEF BootInv

LEMMA BootStep ==
  ASSUME BootInv, BootNext
  PROVE  BootInv'
<1>1. CASE ReadLoader
  BY <1>1, ReadLoaderStep
<1>2. CASE ReadKernel
  BY <1>2, ReadKernelStep
<1>3. CASE NextRegion
  BY <1>3, NextRegionStep
<1>4. CASE MemoryFail
  BY <1>4, MemoryFailStep
<1>5. CASE GetMemSize
  BY <1>5, GetMemSizeStep
<1>6. CASE DispMemInfo
  BY <1>6, DispMemInfoStep
<1>7. CASE SetupPaging
  BY <1>7, SetupPagingStep
<1>8. CASE InitKernel
  BY <1>8, InitKernelStep
<1> QED
  BY <1>1, <1>2, <1>3, <1>4, <1>5, <1>6, <1>7, <1>8 DEF BootNext

(* From the kernel's entry on nothing of this changes.                     *)
LEMMA BootOver ==
  ASSUME BootInv, pc \in {"kernel", "protect", "main", "running"},
         pc' \in {"protect", "main", "running"}, n' \in Nat,
         UNCHANGED <<es, bx, mem, failed, memInfo, segNumber, memSize, tables>>
  PROVE  BootInv'
<1>1. DiskInv'
  BY DEF BootInv, DiskInv, SetupRead, SegmentMoved
<1>2. MapInv'
  BY DEF BootInv, MapInv, Covers
<1> QED
  BY <1>1, <1>2 DEF BootInv

-----------------------------------------------------------------------------
(* The stacks                                                              *)

NProc == NR_TASK + NR_PROCESS

(* A non-empty set of numbers has a least element.                         *)
LEMMA LeastNumber ==
  ASSUME NEW T \in SUBSET Nat, T # {}
  PROVE  \E x \in T : \A y \in T : x <= y
<1>1. PICK x \in T : \A y \in T : ~(<<y, x>> \in OpToRel(<, Nat))
  BY NatLessThanWellFounded, WFMin
<1>2. \A y \in T : ~(y < x)
  BY <1>1 DEF OpToRel
<1> QED
  BY <1>2

(* The induction that needs: a set that contains 0, and k + 1 with each k  *)
(* below m, contains 0 .. m.                                               *)
LEMMA InductionUpTo ==
  ASSUME NEW m \in Nat, NEW G, 0 \in G, \A k \in 0 .. m - 1 : k \in G => k + 1 \in G
  PROVE  0 .. m \subseteq G
<1> SUFFICES ASSUME (0 .. m) \ G # {} PROVE FALSE
  OBVIOUS
<1>1. (0 .. m) \ G \in SUBSET Nat
  OBVIOUS
<1>2. PICK x \in (0 .. m) \ G : \A y \in (0 .. m) \ G : x <= y
  BY <1>1, LeastNumber
<1>3. x # 0 /\ x - 1 \in 0 .. m - 1
  BY <1>2
<1>4. x - 1 \in G
  BY <1>2, <1>3
<1> QED
  BY <1>2, <1>3, <1>4

SumsUpTo(m, f) == f = [p \in 0 .. m |-> IF p = 0 THEN 0 ELSE f[p - 1] + StackSize[p - 1]]

(* The recursion has a solution, so that StacksBefore is one.              *)
LEMMA SumsExist == \E f : SumsUpTo(NProc, f)
<1> DEFINE G == {m \in Nat : \E f : SumsUpTo(m, f)}
<1>1. NProc \in Nat
  BY StartAssumption DEF StartAssumption, NProc
<1>2. 0 \in G
  <2>1. SumsUpTo(0, [p \in 0 .. 0 |-> 0])
    BY DEF SumsUpTo
  <2> QED
    BY <2>1
<1>3. ASSUME NEW k \in 0 .. NProc - 1, k \in G
      PROVE  k + 1 \in G
  <2>1. PICK f : SumsUpTo(k, f)
    BY <1>3
  <2> DEFINE g == [p \in 0 .. k + 1 |-> IF p = k + 1 THEN f[k] + StackSize[k] ELSE f[p]]
  <2>2. \A p \in 0 .. k : f[p] = IF p = 0 THEN 0 ELSE f[p - 1] + StackSize[p - 1]
    BY <2>1 DEF SumsUpTo
  <2>3. \A p \in 0 .. k : g[p] = f[p]
    OBVIOUS
  <2>4. ASSUME NEW p \in 0 .. k + 1
        PROVE  g[p] = IF p = 0 THEN 0 ELSE g[p - 1] + StackSize[p - 1]
    <3>1. CASE p = k + 1
      <4>1. g[p] = f[k] + StackSize[k] /\ p # 0 /\ p - 1 = k /\ k \in 0 .. k
        BY <3>1
      <4> QED
        BY <4>1, <2>3
    <3>2. CASE p = 0
      BY <3>2, <2>2, <2>3
    <3>3. CASE p # k + 1 /\ p # 0
      <4>1. p \in 0 .. k /\ p - 1 \in 0 .. k
        BY <3>3
      <4> QED
        BY <4>1, <3>3, <2>2, <2>3
    <3> QED
      BY <3>1, <3>2, <3>3
  <2>5. SumsUpTo(k + 1, g)
    <3>1. g = [p \in 0 .. k + 1 |-> g[p]]
      OBVIOUS
    <3> HIDE DEF g
    <3> QED
      BY <3>1, <2>4 DEF SumsUpTo
  <2> QED
    BY <2>5
<1>4. 0 .. NProc \subseteq G
  BY <1>1, <1>2, <1>3, InductionUpTo
<1> QED
  BY <1>1, <1>4

LEMMA StacksFact ==
  /\ StacksBefore[0] = 0
  /\ \A p \in Procs : StacksBefore[p + 1] = StacksBefore[p] + StackSize[p]
<1>1. SumsUpTo(NProc, StacksBefore)
  BY SumsExist DEF SumsUpTo, StacksBefore, NProc
<1>2. \A p \in 0 .. NProc : StacksBefore[p] = IF p = 0 THEN 0 ELSE StacksBefore[p - 1] + StackSize[p - 1]
  BY <1>1 DEF SumsUpTo
<1>3. NProc \in Nat
  BY StartAssumption DEF StartAssumption, NProc
<1>4. ASSUME NEW p \in Procs
      PROVE  StacksBefore[p + 1] = StacksBefore[p] + StackSize[p]
  <2>1. p + 1 \in 0 .. NProc /\ p + 1 # 0 /\ (p + 1) - 1 = p
    BY <1>3, StartAssumption DEF StartAssumption, Procs, NProc
  <2> QED
    BY <2>1, <1>2
<1> QED
  BY <1>2, <1>3, <1>4

(* The stacks of processes follow one another below StackTotal.            *)
LEMMA StacksOrdered ==
  /\ \A p \in 0 .. NProc : StacksBefore[p] \in Nat
  /\ \A p, q \in 0 .. NProc : p <= q => StacksBefore[p] <= StacksBefore[q]
<1>1. NProc \in Nat /\ Procs = 0 .. NProc - 1 /\ \A p \in Procs : StackSize[p] \in Nat
  BY StartAssumption DEF StartAssumption, NProc, Procs
<1>2. 0 .. NProc \subseteq {p \in Nat : StacksBefore[p] \in Nat}
  <2> DEFINE G == {p \in Nat : StacksBefore[p] \in Nat}
  <2>1. 0 \in G
    BY StacksFact
  <2>2. \A k \in 0 .. NProc - 1 : k \in G => k + 1 \in G
    BY <1>1, StacksFact
  <2> HIDE DEF G
  <2> QED
    BY <1>1, <2>1, <2>2, InductionUpTo DEF G
<1>3. ASSUME NEW p \in 0 .. NProc
      PROVE  0 .. NProc \subseteq {q \in Nat : p <= q => StacksBefore[p] <= StacksBefore[q]}
  <2> DEFINE G == {q \in Nat : p <= q => StacksBefore[p] <= StacksBefore[q]}
  <2>1. 0 \in G
    BY <1>1, <1>2
  <2>2. ASSUME NEW q \in 0 .. NProc - 1, q \in G
        PROVE  q + 1 \in G
    <3>1. q \in 0 .. NProc /\ q + 1 \in 0 .. NProc
      BY <1>1
    <3>2. PICK a \in Nat, b \in Nat, c \in Nat, d \in Nat :
            a = StacksBefore[p] /\ b = StacksBefore[q] /\ c = StackSize[q] /\ d = StacksBefore[q + 1]
      BY <1>1, <1>2, <3>1
    <3>3. d = b + c
      BY <1>1, <3>2, StacksFact
    <3>4. p <= q => a <= b
      BY <2>2, <3>2
    <3>5. p = q + 1 => a = d
      BY <3>2
    <3>6. p <= q + 1 => a <= d
      BY <3>1, <3>3, <3>4, <3>5
    <3> QED
      BY <3>1, <3>2, <3>6
  <2> HIDE DEF G
  <2>3. 0 .. NProc \subseteq G
    BY <1>1, <2>1, <2>2, InductionUpTo
  <2> QED
    BY <2>3 DEF G
<1> QED
  BY <1>2, <1>3

-----------------------------------------------------------------------------
(* From the kernel's entry to the first process                            *)

LEMMA InitInv ==
  ASSUME Init
  PROVE  StartInv
<1>1. DiskInv
  BY DEF Init, BootInit, DiskInv
<1>2. MapInv
  BY DEF Init, BootInit, MapInv, WORD
<1> QED
  BY <1>1, <1>2 DEF Init, BootInit, StartInv, BootInv, TablesInv, ProcessesInv

LEMMA LoaderStep ==
  ASSUME StartInv, BootNext, UNCHANGED kernelVars
  PROVE  StartInv'
<1>1. BootInv'
  BY BootStep DEF StartInv
<1>2. /\ pc \in {"boot", "setup", "e820", "sum", "max", "paging", "move"}
      /\ pc' \notin {"protect", "main", "running"}
  BY DEF BootNext, ReadLoader, ReadKernel, NextRegion, MemoryFail, GetMemSize, DispMemInfo,
         SetupPaging, InitKernel, Turn
<1>3. pc' = "kernel" => n' = 0
  BY DEF BootNext, ReadLoader, ReadKernel, NextRegion, MemoryFail, GetMemSize, DispMemInfo,
         SetupPaging, InitKernel, Turn
<1> QED
  BY <1>1, <1>2, <1>3 DEF StartInv, TablesInv, ProcessesInv, kernelVars

LEMMA CStartStep ==
  ASSUME StartInv, CStart
  PROVE  StartInv'
<1>1. n = 0 /\ n' = 0 /\ pc = "kernel" /\ pc' = "protect" /\ gdt' = LoaderGdt
  BY DEF CStart, StartInv, TablesInv
<1>2. BootInv'
  BY <1>1, BootOver DEF CStart, StartInv
<1> QED
  BY <1>1, <1>2 DEF CStart, StartInv, TablesInv, ProcessesInv

LEMMA InitProtectStep ==
  ASSUME StartInv, InitProtect
  PROVE  StartInv'
<1>1. n = 0 /\ n' = 0 /\ pc = "protect" /\ pc' = "main" /\ gdt = LoaderGdt
  BY DEF InitProtect, StartInv, TablesInv
<1>2. BootInv'
  BY <1>1, BootOver DEF InitProtect, StartInv
<1>3. TablesInv'
  BY <1>1 DEF InitProtect, TablesInv
<1>4. ProcessesInv'
  <2>1. stack' = StackBase(0)
    <3>1. StackTotal \in Nat /\ StacksBefore[0] = 0
      <4>1. NProc \in 0 .. NProc
        BY StartAssumption DEF StartAssumption, NProc
      <4> QED
        BY <4>1, StacksOrdered, StacksFact DEF StackTotal, NProc
    <3> QED
      BY <3>1 DEF InitProtect, StackBase
  <2>2. DOMAIN procTable' = 0 .. 0 - 1
    <3>1. procTable' = <<>>
      BY <1>1 DEF InitProtect, StartInv, ProcessesInv
    <3> QED
      BY <3>1
  <2> QED
    BY <1>1, <2>1, <2>2, StartAssumption
    DEF InitProtect, ProcessesInv, StartAssumption, MaskedAtFirst
<1> QED
  BY <1>2, <1>3, <1>4 DEF StartInv

LEMMA MakeProcessStep ==
  ASSUME StartInv, MakeProcess
  PROVE  StartInv'
<1>1. /\ pc = "main" /\ pc' = "main" /\ n \in Nat /\ n < NProc /\ n' = n + 1
      /\ NProc \in Nat /\ Procs = 0 .. NProc - 1
  BY StartAssumption
  DEF StartAssumption, MakeProcess, StartInv, BootInv, DiskInv, Procs, NProc
<1>2. BootInv'
  BY <1>1, BootOver DEF MakeProcess, StartInv
<1>3. TablesInv'
  BY <1>1 DEF MakeProcess, StartInv, TablesInv, chips
<1>4. /\ masked = Irqs /\ irqTable = [irq \in Irqs |-> "spuriousIrq"]
      /\ stack = StackBase(n) /\ DOMAIN procTable = 0 .. n - 1
      /\ \A p \in 0 .. n - 1 : procTable[p] = Pcb(p, StackBase(p))
  BY <1>1 DEF StartInv, ProcessesInv
<1>5. stack' = StackBase(n + 1)
  <2>1. n \in Procs /\ n \in 0 .. NProc /\ n + 1 \in 0 .. NProc
    BY <1>1
  <2>2. PICK t \in Nat, a \in Nat, b \in Nat, z \in Nat :
          /\ t = StackTotal /\ a = StacksBefore[n] /\ b = StacksBefore[n + 1] /\ z = StackSize[n]
    <3>1. StackTotal \in Nat
      BY <1>1, StacksOrdered DEF StackTotal, NProc
    <3> QED
      BY <2>1, <3>1, StacksOrdered, StartAssumption DEF StartAssumption
  <2>3. b = a + z
    BY <2>1, <2>2, StacksFact
  <2>4. stack = t - a /\ stack' = stack - z
    BY <1>4, <2>2 DEF MakeProcess, StackBase
  <2> QED
    BY <2>2, <2>3, <2>4 DEF StackBase
<1>6. /\ DOMAIN procTable' = 0 .. n
      /\ \A p \in 0 .. n : procTable'[p] = Pcb(p, StackBase(p))
  <2> DEFINE new == [p \in {n} |-> Pcb(n, stack)]
  <2>1. procTable' = Over(new, procTable)
    BY DEF MakeProcess
  <2>2. DOMAIN new = {n} /\ new[n] = Pcb(n, StackBase(n))
    BY <1>4
  <2> HIDE DEF new
  <2>3. DOMAIN procTable' = {n} \cup (0 .. n - 1)
    BY <2>1, <2>2, <1>4, OverFact
  <2>4. \A p \in {n} \cup (0 .. n - 1) : procTable'[p] = IF p \in {n} THEN new[p] ELSE procTable[p]
    BY <2>1, <2>2, <1>4 DEF Over
  <2>5. {n} \cup (0 .. n - 1) = 0 .. n
    BY <1>1
  <2> QED
    BY <2>2, <2>3, <2>4, <2>5, <1>4
<1>7. \A p \in 0 .. n : Pcb(p, StackBase(p))' = Pcb(p, StackBase(p))
  BY DEF MakeProcess, Pcb, StackBase, StackTotal
<1>8. ProcessesInv'
  <2>1. 0 .. n' - 1 = 0 .. n /\ n' <= NR_TASK + NR_PROCESS
    BY <1>1 DEF NProc
  <2>2. masked' = Irqs /\ irqTable' = [irq \in Irqs |-> "spuriousIrq"]
    BY <1>4 DEF MakeProcess, chips
  <2>3. (stack = StackBase(n))'
    BY <1>1, <1>5 DEF StackBase, StackTotal
  <2>4. (DOMAIN procTable = 0 .. n - 1)'
    BY <2>1, <1>6
  <2>5. (\A p \in 0 .. n - 1 : procTable[p] = Pcb(p, StackBase(p)))'
    BY <2>1, <1>6, <1>7
  <2> QED
    BY <1>1, <2>1, <2>2, <2>3, <2>4, <2>5 DEF ProcessesInv
<1> QED
  BY <1>2, <1>3, <1>8 DEF StartInv

LEMMA RestartStep ==
  ASSUME StartInv, Restart
  PROVE  StartInv'
<1>1. /\ pc = "main" /\ pc' = "running" /\ n \in Nat /\ n' = n /\ n = NProc
      /\ Procs = 0 .. NProc - 1
  <2>1. n \in Nat
    BY DEF StartInv, BootInv, DiskInv
  <2>2. Procs = 0 .. NProc - 1
    BY StartAssumption DEF StartAssumption, Procs, NProc
  <2> QED
    BY <2>1, <2>2 DEF Restart, NProc
<1>2. BootInv'
  BY <1>1, BootOver DEF Restart, StartInv
<1>3. TablesInv'
  BY <1>1 DEF Restart, init8253, StartInv, TablesInv
<1>4. /\ masked = Irqs /\ irqTable = [irq \in Irqs |-> "spuriousIrq"]
      /\ \A p \in Procs : procTable[p] = Pcb(p, StackBase(p))
  BY <1>1 DEF StartInv, ProcessesInv
<1>5. masked' = Irqs \ {CLOCK_IRQ}
  BY <1>4 DEF Restart, init8253, enableIRQ, disableIRQ
<1>6. irqTable' = [irq \in Irqs |-> IF irq = CLOCK_IRQ THEN "clockHandler" ELSE "spuriousIrq"]
  BY <1>4 DEF Restart, init8253, Irqs, CLOCK_IRQ
<1>7. \A p \in Procs : procTable'[p] = [Pcb(p, StackBase(p))' EXCEPT !.nr_tty = Terminal(p)]
  <2>1. \A p \in Procs : Pcb(p, StackBase(p))' = Pcb(p, StackBase(p))
    BY DEF Restart, Pcb, StackBase, StackTotal
  <2>2. \A p \in Procs : procTable'[p] = [procTable[p] EXCEPT !.nr_tty = Terminal(p)]
    BY DEF Restart
  <2> QED
    BY <2>1, <2>2, <1>4
<1>8. ProcessesInv'
  BY <1>1, <1>5, <1>6, <1>7 DEF Restart, ProcessesInv
<1> QED
  BY <1>2, <1>3, <1>8 DEF StartInv

(* What each step from the boot sector to the first process finds done by  *)
(* those before it (StartInv) is always so.                                *)
THEOREM AlwaysStartInv == Spec => []StartInv
<1>1. StartInv /\ UNCHANGED vars => StartInv'
  <2> SUFFICES ASSUME StartInv, UNCHANGED vars PROVE StartInv'
    OBVIOUS
  <2> USE DEF vars, bootVars, kernelVars, chips
  <2>1. DiskInv'
    BY DEF StartInv, BootInv, DiskInv, SetupRead, FileRead, SegmentMoved
  <2>2. MapInv'
    BY DEF StartInv, BootInv, MapInv, Covers
  <2>3. TablesInv'
    BY DEF StartInv, TablesInv
  <2>4. ProcessesInv'
    <3>1. \A p \in Nat : Pcb(p, StackBase(p))' = Pcb(p, StackBase(p))
      BY DEF Pcb, StackBase, StackTotal
    <3>2. StackBase(n)' = StackBase(n)
      BY DEF StackBase, StackTotal
    <3>3. Procs \subseteq Nat
      BY StartAssumption DEF StartAssumption, Procs
    <3>4. \A p \in 0 .. n - 1 : p \in Nat
      BY DEF StartInv, BootInv, DiskInv
    <3> QED
      BY <3>1, <3>2, <3>3, <3>4 DEF StartInv, ProcessesInv
  <2> QED
    BY <2>1, <2>2, <2>3, <2>4 DEF StartInv, BootInv
<1>2. StartInv /\ [Next]_vars => StartInv'
  BY <1>1, LoaderStep, CStartStep, InitProtectStep, MakeProcessStep, RestartStep DEF Next
<1> QED
  BY InitInv, <1>2, PTL DEF Spec

-----------------------------------------------------------------------------
(* What it is for                                                          *)

(* Unless the drive fails, setup is whole while it runs and every block of *)
(* every segment is where the kernel is linked when setup jumps to it,     *)
(* whatever the sections of the kernel.                                    *)
THEOREM KernelAlwaysIntact == Spec => []KernelIntact
<1>1. StartInv => KernelIntact
  BY DEF StartInv, BootInv, DiskInv, KernelIntact
<1> QED
  BY <1>1, AlwaysStartInv, PTL

(* Whatever the BIOS reports, in whatever order, all RAM that ends below   *)
(* 4G is mapped when paging is on, and setup only loses its way when the   *)
(* BIOS has failed or has reported no such RAM.                            *)
THEOREM MemoryAlwaysMapped == Spec => []AllMapped
<1>1. StartInv => AllMapped
  <2> SUFFICES ASSUME StartInv PROVE AllMapped
    OBVIOUS
  <2>1. MapInv
    BY DEF StartInv, BootInv
  <2>2. \A r \in RamBelow4G : \E i \in 1 .. Len(memInfo) : r = memInfo[i] /\ IsRam(memInfo[i])
                                 /\ memInfo[i].base + memInfo[i].length < WORD
    BY <2>1 DEF MapInv, RamBelow4G, ToSet
  <2>3. ASSUME tables > 0, NEW r \in RamBelow4G
        PROVE  r.base + r.length <= tables * PageUnit
    <3>1. pc \in AfterPaging
      BY <2>1, <2>3 DEF MapInv, AfterPaging
    <3>2. tables \in Nat /\ memSize <= tables * PageUnit /\ memSize \in Nat
          /\ \A i \in DOMAIN memInfo : Covers(memInfo[i])
      BY <2>1, <3>1 DEF MapInv, AfterPaging
    <3>3. PICK i \in 1 .. Len(memInfo) : r = memInfo[i] /\ IsRam(r) /\ r.base + r.length < WORD
      BY <2>2, <2>3
    <3>4. r.base + r.length <= memSize
      BY <2>1, <3>2, <3>3 DEF Covers, MapInv
    <3>5. PICK e \in Nat : e = r.base + r.length
      BY <2>1, <3>3, RegionFact
    <3>6. PICK t \in Nat : t = tables * PageUnit
      BY <3>2 DEF PageUnit
    <3> QED
      BY <3>2, <3>4, <3>5, <3>6
  <2>4. ASSUME pc = "lost", segNumber # 0
        PROVE  RamBelow4G = {}
    <3>1. memSize = 0 /\ \A i \in DOMAIN memInfo : Covers(memInfo[i])
      BY <2>1, <2>4 DEF MapInv
    <3> SUFFICES ASSUME NEW r \in RamBelow4G PROVE FALSE
      OBVIOUS
    <3>2. PICK i \in 1 .. Len(memInfo) : r = memInfo[i] /\ IsRam(r) /\ r.base + r.length < WORD
      BY <2>2
    <3>3. r.base + r.length <= 0
      BY <2>1, <3>1, <3>2 DEF Covers, MapInv
    <3>4. r.base \in Nat /\ r.length \in Nat \ {0}
      BY <2>1, <3>2, RegionFact
    <3> QED
      BY <3>3, <3>4
  <2> QED
    BY <2>3, <2>4 DEF AllMapped
<1> QED
  BY <1>1, AlwaysStartInv, PTL

LEMMA ProtectGdtFact ==
  /\ \A p \in Procs : Over(ProtectGdt, LoaderGdt)[INDEX_LDT_FIRST + p] = Ldt(p)
  /\ \A i \in {INDEX_FLAT_C, INDEX_FLAT_RW} : Over(ProtectGdt, LoaderGdt)[i] = LoaderGdt[i]
<1>1. /\ Procs = 0 .. NProc - 1 /\ NProc \in Nat
      /\ DOMAIN ProtectGdt = {4} \cup (5 .. 5 + NProc - 1)
      /\ DOMAIN LoaderGdt = 0 .. 3
  BY StartAssumption
  DEF StartAssumption, Procs, NProc, ProtectGdt, LoaderGdt, INDEX_TSS, INDEX_LDT_FIRST
<1>2. ASSUME NEW p \in Procs
      PROVE  Over(ProtectGdt, LoaderGdt)[INDEX_LDT_FIRST + p] = Ldt(p)
  <2>1. 5 + p \in DOMAIN ProtectGdt
    BY <1>1
  <2>2. ProtectGdt[5 + p] = Ldt(p)
    <3>1. 5 + p # 4 /\ (5 + p) - 5 = p
      BY <1>1
    <3> QED
      BY <2>1, <3>1 DEF ProtectGdt, INDEX_TSS, INDEX_LDT_FIRST
  <2>3. Over(ProtectGdt, LoaderGdt)[5 + p] = ProtectGdt[5 + p]
    BY <2>1 DEF Over
  <2> QED
    BY <2>2, <2>3 DEF INDEX_LDT_FIRST
<1>3. ASSUME NEW i \in {1, 2}
      PROVE  Over(ProtectGdt, LoaderGdt)[i] = LoaderGdt[i]
  <2>1. i \notin DOMAIN ProtectGdt /\ i \in DOMAIN LoaderGdt
    BY <1>1
  <2> QED
    BY <2>1 DEF Over
<1> QED
  BY <1>2, <1>3 DEF INDEX_FLAT_C, INDEX_FLAT_RW

(* What the entry of a process holds when the first process starts.        *)
LEMMA EntryFact ==
  ASSUME StartInv, pc = "running", NEW p \in Procs
  PROVE  /\ procTable[p].ldtSel = LdtSel(p)
         /\ procTable[p].ldt = <<LoaderGdt[INDEX_FLAT_C], LoaderGdt[INDEX_FLAT_RW]>>
         /\ procTable[p].dpl = Privilege(p) /\ procTable[p].rpl = Privilege(p)
         /\ procTable[p].esp = StackBase(p)
         /\ procTable[p].p_flags = {} /\ procTable[p].p_msg = NULL
         /\ procTable[p].p_recvfrom = NO_TASK /\ procTable[p].p_sendto = NO_TASK
         /\ procTable[p].q_sending = NULL /\ procTable[p].next_sending = NULL
         /\ procTable[p].ticks = Prio(p)
<1>1. procTable[p] = [Pcb(p, StackBase(p)) EXCEPT !.nr_tty = Terminal(p)]
  BY DEF StartInv, ProcessesInv
<1>2. gdt = Over(ProtectGdt, LoaderGdt)
  BY DEF StartInv, TablesInv
<1>3. gdt[INDEX_FLAT_C] = LoaderGdt[INDEX_FLAT_C] /\ gdt[INDEX_FLAT_RW] = LoaderGdt[INDEX_FLAT_RW]
  BY <1>2, ProtectGdtFact
<1>4. procTable[p] =
        [ldtSel |-> LdtSel(p), ldt |-> <<LoaderGdt[INDEX_FLAT_C], LoaderGdt[INDEX_FLAT_RW]>>,
         dpl |-> Privilege(p), rpl |-> Privilege(p), esp |-> StackBase(p),
         p_flags |-> {}, p_msg |-> NULL, p_recvfrom |-> NO_TASK, p_sendto |-> NO_TASK,
         q_sending |-> NULL, next_sending |-> NULL,
         ticks |-> Prio(p), priority |-> Prio(p), nr_tty |-> Terminal(p)]
  BY <1>1, <1>3 DEF Pcb
<1> QED
  BY <1>4

(* With any number of processes and any sizes of their stacks, a process   *)
(* gets the LDT that is its own, privileges that agree, and a stack that   *)
(* lies in taskStack and overlaps no other.                                *)
THEOREM AlwaysOwnSegments == Spec => []OwnSegments
<1>1. StartInv => OwnSegments
  <2> SUFFICES ASSUME StartInv, pc = "running" PROVE OwnSegments
    BY DEF OwnSegments
  <2>1. gdt = Over(ProtectGdt, LoaderGdt)
    BY DEF StartInv, TablesInv
  <2>2. NProc \in Nat /\ Procs = 0 .. NProc - 1 /\ \A p \in Procs : StackSize[p] \in Nat
    BY StartAssumption DEF StartAssumption, NProc, Procs
  <2>3. ASSUME NEW p \in Procs
        PROVE  LdtSel(p) % 8 = 0 /\ LdtSel(p) \div 8 = INDEX_LDT_FIRST + p
    <3>1. PICK k \in Nat : k = p
      BY <2>2
    <3>2. (40 + 8 * k) % 8 = 0 /\ (40 + 8 * k) \div 8 = 5 + k
      OBVIOUS
    <3> QED
      BY <3>1, <3>2 DEF LdtSel, SELECTOR_LDT_FIRST, INDEX_LDT_FIRST
  <2>4. \A p \in Procs : StackOf(p) = StackTotal - StacksBefore[p + 1] .. StackBase(p) - 1
    <3> SUFFICES ASSUME NEW p \in Procs
                 PROVE  StackOf(p) = StackTotal - StacksBefore[p + 1] .. StackBase(p) - 1
      OBVIOUS
    <3>1. PICK t \in Nat, a \in Nat, b \in Nat, z \in Nat :
            t = StackTotal /\ a = StacksBefore[p] /\ b = StacksBefore[p + 1] /\ z = StackSize[p]
      <4>1. p \in 0 .. NProc /\ p + 1 \in 0 .. NProc /\ NProc \in 0 .. NProc
        BY <2>2
      <4> QED
        BY <2>2, <4>1, StacksOrdered DEF StackTotal, NProc
    <3>2. b = a + z
      BY <3>1, StacksFact
    <3>3. (t - a) - z = t - b
      BY <3>1, <3>2
    <3>4. procTable[p].esp = StackBase(p)
      BY EntryFact
    <3> QED
      BY <3>1, <3>3, <3>4 DEF StackOf, StackBase
  <2>5. ASSUME NEW p \in Procs
        PROVE  StackOf(p) \subseteq 0 .. StackTotal - 1
    <3>1. p \in 0 .. NProc /\ p + 1 \in 0 .. NProc /\ NProc \in 0 .. NProc /\ p + 1 <= NProc
      BY <2>2
    <3>2. PICK t \in Nat, a \in Nat, b \in Nat :
            t = StackTotal /\ a = StacksBefore[p] /\ b = StacksBefore[p + 1] /\ b <= t
      BY <3>1, StacksOrdered DEF StackTotal, NProc
    <3>3. StackOf(p) = t - b .. (t - a) - 1
      BY <2>4, <3>2 DEF StackBase
    <3> QED
      BY <3>2, <3>3
  <2>6. ASSUME NEW p \in Procs, NEW q \in Procs, p < q
        PROVE  StackOf(p) \cap StackOf(q) = {}
    <3>1. p + 1 \in 0 .. NProc /\ q \in 0 .. NProc /\ p + 1 <= q /\ NProc \in 0 .. NProc
          /\ p \in 0 .. NProc /\ q + 1 \in 0 .. NProc
      BY <2>2, <2>6
    <3>2. PICK t \in Nat, a \in Nat, b \in Nat, c \in Nat, d \in Nat :
            /\ t = StackTotal /\ a = StacksBefore[p] /\ b = StacksBefore[p + 1]
            /\ c = StacksBefore[q] /\ d = StacksBefore[q + 1] /\ b <= c
      BY <3>1, StacksOrdered DEF StackTotal, NProc
    <3>3. StackOf(p) = t - b .. (t - a) - 1 /\ StackOf(q) = t - d .. (t - c) - 1
      BY <2>4, <3>2 DEF StackBase
    <3> QED
      BY <3>2, <3>3
  <2>7. \A p \in Procs : \A q \in Procs \ {p} : StackOf(p) \cap StackOf(q) = {}
    <3> SUFFICES ASSUME NEW p \in Procs, NEW q \in Procs \ {p}
                 PROVE  StackOf(p) \cap StackOf(q) = {}
      OBVIOUS
    <3>1. p < q \/ q < p
      BY <2>2
    <3> QED
      BY <3>1, <2>6
  <2>8. ASSUME NEW p \in Procs
        PROVE  gdt[procTable[p].ldtSel \div 8] = Ldt(p)
    BY <2>1, <2>3, EntryFact, ProtectGdtFact
  <2> QED
    BY <2>3, <2>5, <2>7, <2>8, EntryFact DEF OwnSegments
<1> QED
  BY <1>1, AlwaysStartInv, PTL

(* The gates, through the vectors the controllers were given.              *)
LEMMA GatesFact ==
  /\ \A irq \in Irqs :
       LET vec == <<INT_VECTOR_IRQ0, INT_VECTOR_IRQ8>>[irq \div 8 + 1] + (irq % 8) IN
         vec \in DOMAIN Gates /\ Gates[vec] = Gate(<<"hwint", irq>>, 0)
  /\ \A vec \in DOMAIN Gates :
       Gates[vec].dpl = 3 => Gates[vec].to \in {<<"sys_Call">>, <<"exception", 3>>, <<"exception", 4>>}
<1> USE DEF INT_VECTOR_IRQ0, INT_VECTOR_IRQ8, INT_VECTOR_SYSCALL
<1>1. DOMAIN Gates = (0 .. 14) \cup {16} \cup (32 .. 39) \cup (40 .. 47) \cup {144}
  BY DEF Gates
<1>2. \A vec \in 32 .. 39 : Gates[vec] = Gate(<<"hwint", vec - 32>>, 0)
  BY DEF Gates
<1>3. \A vec \in 40 .. 47 : Gates[vec] = Gate(<<"hwint", 8 + vec - 40>>, 0)
  BY DEF Gates
<1>4. ASSUME NEW irq \in Irqs
      PROVE  LET vec == <<32, 40>>[irq \div 8 + 1] + (irq % 8) IN
               vec \in DOMAIN Gates /\ Gates[vec] = Gate(<<"hwint", irq>>, 0)
  <2>1. CASE irq < 8
    <3>1. irq \div 8 = 0 /\ irq % 8 = irq
      BY <2>1 DEF Irqs
    <3>2. 32 + irq \in 32 .. 39 /\ (32 + irq) - 32 = irq
      BY <2>1 DEF Irqs
    <3>3. <<32, 40>>[irq \div 8 + 1] + (irq % 8) = 32 + irq
      BY <3>1
    <3> QED
      BY <1>1, <1>2, <3>2, <3>3
  <2>2. CASE ~(irq < 8)
    <3>1. irq \div 8 = 1 /\ irq % 8 = irq - 8
      BY <2>2 DEF Irqs
    <3>2. 40 + (irq - 8) \in 40 .. 47 /\ 8 + (40 + (irq - 8)) - 40 = irq
      BY <2>2 DEF Irqs
    <3>3. <<32, 40>>[irq \div 8 + 1] + (irq % 8) = 40 + (irq - 8)
      BY <3>1
    <3> QED
      BY <1>1, <1>3, <3>2, <3>3
  <2> QED
    BY <2>1, <2>2
<1>5. ASSUME NEW vec \in DOMAIN Gates, Gates[vec].dpl = 3
      PROVE  Gates[vec].to \in {<<"sys_Call">>, <<"exception", 3>>, <<"exception", 4>>}
  <2>1. CASE vec \in (0 .. 14) \cup {16}
    <3>1. Gates[vec] = Gate(<<"exception", vec>>, IF vec \in {3, 4} THEN 3 ELSE 0)
      BY <1>1, <2>1 DEF Gates
    <3>2. vec \in {3, 4}
      BY <3>1, <1>5 DEF Gate
    <3> QED
      BY <3>1, <3>2 DEF Gate
  <2>2. CASE vec \in (32 .. 39) \cup (40 .. 47)
    BY <1>2, <1>3, <1>5, <2>2 DEF Gate
  <2>3. CASE vec = 144
    BY <1>1, <2>3 DEF Gates, Gate
  <2> QED
    BY <1>1, <2>1, <2>2, <2>3
<1> QED
  BY <1>4, <1>5

(* Whatever the number of processes, the process table, the masks, the     *)
(* gates and the scheduling variables that kernel_main() leaves are where  *)
(* Sched and Ipc begin, and each line that is open arrives at its handler. *)
THEOREM AlwaysHandsOver == Spec => []HandsOver
<1>1. StartInv => HandsOver
  <2> SUFFICES ASSUME StartInv, pc = "running" PROVE HandsOver
    BY DEF HandsOver
  <2>1. /\ masked = Irqs \ {CLOCK_IRQ}
        /\ irqTable = [irq \in Irqs |-> IF irq = CLOCK_IRQ THEN "clockHandler" ELSE "spuriousIrq"]
        /\ no_schedule = TRUE /\ p_proc_ready = 0 /\ k_reenter = 0 - 1
        /\ idt = Gates /\ firstVector = <<INT_VECTOR_IRQ0, INT_VECTOR_IRQ8>>
    BY DEF StartInv, TablesInv, ProcessesInv
  <2>2. /\ \A p \in Procs : procTable[p].p_flags = {} /\ procTable[p].p_msg = NULL
        /\ \A p \in Procs : procTable[p].p_recvfrom = NO_TASK /\ procTable[p].p_sendto = NO_TASK
        /\ \A p \in Procs : procTable[p].q_sending = NULL /\ procTable[p].next_sending = NULL
        /\ \A p \in Procs : procTable[p].ticks = Prio(p)
    BY EntryFact
  <2>3. S!Init
    <3>1. S!Procs = Procs
      BY StartAssumption DEF StartAssumption, S!Procs, Procs
    <3>2. masked \cap {CLOCK_IRQ} = {}
      BY <2>1
    <3>3. k_reenter = -1
      BY <2>1
    <3> QED
      BY <2>1, <2>2, <3>1, <3>2, <3>3 DEF S!Init
  <2>4. I!Init
    BY <2>1, <2>2 DEF I!Init, I!ZeroMessage
  <2>5. \A irq \in Irqs \ masked : irqTable[irq] # "spuriousIrq"
    BY <2>1
  <2> QED
    BY <2>1, <2>3, <2>4, <2>5, GatesFact DEF HandsOver
<1> QED
  BY <1>1, AlwaysStartInv, PTL

=============================================================================
