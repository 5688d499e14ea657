------------------------------ MODULE Volume ------------------------------
(***************************************************************************)
(* The kernel's view of the image once it has booted.  fat.c looks for a    *)
(* volume on a drive, reads its table through ata.c and counts free         *)
(* clusters: once on the boot drive when the drivers start, and again at    *)
(* every sysmngr -free c/ or d/, the latter on a second drive with a volume *)
(* of other origin.  The buffer for the table is kept from scan to scan.    *)
(* A volume is a record of its first sector, its boot sector fields, its    *)
(* table, the entry width and the number of clusters it really has and uses.*)
(***************************************************************************)
EXTENDS Disk

VARIABLES
  drive,   \* the drive looked at, or looked at last
  at,      \* which of the three starting points
  idx,     \* sectors past it
  done,    \* sectors of the table read
  room,    \* pages the allocator can give in one piece
  buf,     \* pages of fatbuf, 0 before it is allocated
  high,    \* history: the most sectors ever stored in fatbuf, by drive
  rep      \* what fat_for reports of this drive

scanVars == <<drive, at, idx, done, room, buf, high, rep>>
vars == <<diskVars, scanVars>>

FAT_SCAN_LBAS == 96
ChunkMax == 16          \* the most one ATA read takes
Absent == [present |-> FALSE]

(* req.other is the volume on drive 1; req.bad an unreadable sector of      *)
(* drive 0; req.rooms what the allocator may have left at a scan.           *)
Vol(d) ==
  IF d = 1 THEN req.other
  ELSE [start |-> PartLba, bpb |-> bpb, fat |-> fat, bits |-> layout.bits,
        clusters |-> layout.clusters, used |-> nxt - 2, size |-> total]

First == <<PART_LBA + (STAGE2_SECTORS + req.blob), 63, 2048>>[at]

(* ata_identify: the upper half of the sector count is shifted by 32, so a  *)
(* drive of 65536 sectors or more takes the cap.                            *)
DriveSectors(size) == IF size < 65536 THEN size ELSE 268435455

\* qizo_ata_read_drive: the driver's own tests, then those of the drive.
ReadOk(d, lba, count) ==
  /\ count \in 1..ChunkMax /\ lba + count <= DriveSectors(Vol(d).size)
  /\ lba + count <= Vol(d).size
  /\ d = 0 => req.bad \notin lba..(lba + count - 1)

Sane(b) ==
  /\ b.spc \in {1, 2, 4, 8, 16, 32, 64, 128} /\ b.fats \in 1..4
  /\ b.spf # 0 /\ b.rootent # 0 /\ (b.mbrSects # 0 \/ b.bigSects # 0)

Sects(b) == Min({IF b.mbrSects # 0 THEN b.mbrSects ELSE b.bigSects, 268435455})
DataStart(b) == b.reserved + b.fats * b.spf + ((b.rootent * 32 + 511) \div 512)
Clusters(b) == (Sects(b) - DataStart(b)) \div b.spc

\* Where scan_drive stops looking: a sane boot sector of a volume with room.
Hit ==
  LET v == Vol(drive) IN
  /\ ReadOk(drive, First + idx, 1) /\ First + idx = v.start
  /\ Sane(v.bpb) /\ DataStart(v.bpb) < Sects(v.bpb) /\ Clusters(v.bpb) >= 2

TableOf(d) == Min({Vol(d).bpb.spf, 512})
TableSectors == TableOf(drive)

\* Mutant: the last, partly filled page is forgotten.
MutPagesFor(sectors) == (sectors * SECTOR) \div 4096

PagesFor(sectors) == (sectors * SECTOR + 4095) \div 4096
---------------------------------------------------------------------------
ScanInit ==
  /\ drive = 0 /\ at = 1 /\ idx = 0 /\ done = 0 /\ room \in req.rooms
  /\ buf = 0 /\ high = [d \in 0..1 |-> 0] /\ rep = Absent

\* The drivers start, and the fat driver's probe looks at drive 0.
Boot ==
  /\ pc = "checked" /\ pc' = "scan"
  /\ UNCHANGED <<plan, table, check>> /\ UNCHANGED scanVars

(* sysmngr -free c/ or d/, as often as the user asks: fat_for begins afresh, *)
(* but for fatbuf.  Other commands have taken and given back pages meanwhile.*)
FreeDrive(d) ==
  /\ pc = "idle" /\ pc' = "scan"
  /\ drive' = d /\ room' \in req.rooms /\ rep' = Absent
  /\ UNCHANGED <<plan, table, check, at, idx, done, buf, high>>

\* fat_for returns.
Return == pc' = "idle" /\ at' = 1 /\ idx' = 0 /\ done' = 0

\* Mutant: the last starting point is tried again and again.
MutNextStart ==
  at' = Min({at + 1, 3}) /\ idx' = 0 /\ done' = 0 /\ pc' = "scan"

\* scan_drive returned 0 and the next starting point is tried.
NextStart ==
  IF at = 3 THEN Return
  ELSE at' = at + 1 /\ idx' = 0 /\ done' = 0 /\ pc' = "scan"

ScanMiss ==
  /\ pc = "scan" /\ ~Hit
  /\ IF idx + 1 < FAT_SCAN_LBAS THEN idx' = idx + 1 /\ UNCHANGED <<pc, at, done>>
                                ELSE NextStart
  /\ UNCHANGED <<plan, table, check, drive, room, buf, high, rep>>

\* fatbuf is allocated for the first volume found and kept from then on.
ScanHit ==
  /\ pc = "scan" /\ Hit
  /\ IF buf = 0 /\ PagesFor(TableSectors) > room
     THEN NextStart /\ UNCHANGED buf
     ELSE /\ buf' = IF buf = 0 THEN PagesFor(TableSectors) ELSE buf
          /\ pc' = "table" /\ UNCHANGED <<at, idx, done>>
  /\ UNCHANGED <<plan, table, check, drive, room, high, rep>>

\* Mutant: the table is looked for one sector late.
MutTableLba == First + Vol(drive).bpb.reserved + 1

\* The table is taken relative to the starting point, not to the sector hit.
TableLba == First + Vol(drive).bpb.reserved
Part == Min({ChunkMax, TableSectors - done})

(* A read of more than ChunkMax sectors is refused as a whole, so the table *)
(* comes in parts; a smaller one is a single part that is tried twice.      *)
ReadPart ==
  /\ pc = "table" /\ done < TableSectors /\ ReadOk(drive, TableLba + done, Part)
  /\ done' = done + Part
  /\ high' = [high EXCEPT ![drive] = Max({@, done'})]
  /\ UNCHANGED <<diskVars, drive, at, idx, room, buf, rep>>

\* fat_entry_12, fat_entry_16, with the table's first byte at offset o.
FatEntry(f, o, is12, i) ==
  LET at16(k) == Byte(f, o + k) + 256 * Byte(f, o + k + 1)
      w == at16(i + (i \div 2))
  IN  IF ~is12 THEN at16(2 * i) ELSE IF i % 2 = 1 THEN w \div 16 ELSE w % 4096

\* What is counted lies at TableLba; nothing is claimed of a count over other
\* sectors than the table's, which are zero here.
Entry(is12, i) ==
  LET v == Vol(drive)
  IN  FatEntry(v.fat, (TableLba - v.start - v.bpb.reserved) * SECTOR, is12, i)

\* Mutant: clusters whose entries were not read count as used.
MutCountFree(is12, sectors, clusters) ==
  LET bytes == sectors * SECTOR
      limit == Min({IF is12 THEN (bytes * 2) \div 3 ELSE bytes \div 2, clusters + 2})
  IN  Cardinality({i \in 2..(limit - 1) : Entry(is12, i) = 0})

\* Clusters without an entry among those read count as free.
CountFree(is12, sectors, clusters) ==
  LET bytes == sectors * SECTOR
      limit == Min({IF is12 THEN (bytes * 2) \div 3 ELSE bytes \div 2, clusters + 2})
  IN  Cardinality({i \in 2..(limit - 1) : Entry(is12, i) = 0}) + (clusters - (limit - 2))

\* The table is complete, or a part could not be read after another was.
Report ==
  /\ pc = "table"
  /\ \/ done = TableSectors
     \/ done > 0 /\ done < TableSectors /\ ~ReadOk(drive, TableLba + done, Part)
  /\ LET b == Vol(drive).bpb
         c == Clusters(b)
     IN  rep' = [present |-> TRUE, start |-> First + idx, first |-> First,
                 clusters |-> c, free |-> CountFree(c < 4085, done, c),
                 is12 |-> c < 4085, whole |-> done = TableSectors]
  /\ Return
  /\ UNCHANGED <<plan, table, check, drive, room, buf, high>>

\* Nothing of the table could be read.
TableFails ==
  /\ pc = "table" /\ done = 0 /\ ~ReadOk(drive, TableLba, Part)
  /\ NextStart
  /\ UNCHANGED <<plan, table, check, drive, room, buf, high, rep>>

ScanStep == Boot \/ ScanMiss \/ ScanHit \/ ReadPart \/ Report \/ TableFails
Command == \E d \in 0..1 : FreeDrive(d)
ScanNext == ScanStep \/ Command
---------------------------------------------------------------------------
(* A FAT12 or FAT16 volume as other tools make them: the entry width goes   *)
(* by the number of clusters, every cluster has its entry in the table, and *)
(* the clusters in use are those with an entry that is not zero.            *)
SoundVolume(v) ==
  LET b == v.bpb
  IN  /\ b.reserved \in Nat /\ b.spf \in Nat /\ b.rootent \in Nat
      /\ b.mbrSects \in Nat /\ b.bigSects \in Nat /\ IsTable(v.fat)
      /\ Sane(b) /\ DataStart(b) < Sects(b) =>
           /\ v.clusters = Clusters(b) /\ v.clusters < 65525
           /\ v.bits = IF v.clusters < 4085 THEN 12 ELSE 16
           /\ v.bits * (v.clusters + 2) <= 8 * SECTOR * b.spf
           /\ v.used = Cardinality({i \in 2..(v.clusters + 1) :
                                     FatEntry(v.fat, 0, v.bits = 12, i) # 0})

\* The sectors of the first part of the table, looked for from lba on.
FirstPart(lba) ==
  (lba + RESERVED)..(lba + RESERVED + Min({ChunkMax, layout.fatSize}) - 1)

\* The first part of the boot volume's table is unreadable, and the volume
\* begins where the scan from sector 63 finds it a second time: its table is
\* then looked for relative to sector 63.
FoundAgain ==
  /\ PartLba \in 63..(63 + FAT_SCAN_LBAS - 1)
  /\ req.bad \in FirstPart(PartLba) \ FirstPart(63)

(* What sysmngr prints as used is what the volume uses, if the whole table  *)
(* was read and the boot sector is the first sector looked at, which on the *)
(* boot drive it is unless the volume is found again; of a table read in    *)
(* part it counts no more than the volume uses.  The size is right for a    *)
(* foreign volume; on the image of mkqizoimg, whose size field is damaged,  *)
(* size and free count are too large by the same amount, which also passes  *)
(* a FAT12 image off as FAT16.                                              *)
UsedIsTrue ==
  rep.present =>
    LET v == Vol(drive)
    IN  /\ rep.clusters = v.clusters + (IF drive = 0 THEN 384 * 65536 ELSE 0)
        /\ rep.is12 <=> (drive = 1 /\ v.bits = 12)
        /\ rep.free <= rep.clusters /\ (drive = 0 => (rep.start = rep.first <=> ~FoundAgain))
        /\ rep.start = rep.first /\ v.bits = 16 => rep.clusters - rep.free <= v.used
        /\ rep.whole /\ rep.start = rep.first /\ rep.is12 = (v.bits = 12) =>
             rep.clusters - rep.free = v.used

NoRoom == buf = 0 /\ PagesFor(TableOf(0)) > room
Reachable ==
  /\ req.bad # PartLba /\ ~NoRoom
  /\ req.bad \in FirstPart(PartLba) => FoundAgain

(* The volume booted from is found at the sector stage 2 hands over, unless *)
(* that sector or the first part of the table cannot be read or there is no *)
(* memory for the table, nor a buffer kept from an earlier scan; neither a  *)
(* later bad sector nor what was scanned before, on either drive, hides it. *)
(* A volume found again counts as found although what is read is not its    *)
(* table.                                                                   *)
BootVolumeFound == pc = "idle" /\ drive = 0 => (rep.present <=> Reachable)

(* However often the drives are scanned, the table fits the buffer it is    *)
(* read into, unless the buffer was sized for the other drive's table and   *)
(* that one is smaller.  The exception is real on either drive: the boot    *)
(* volume's own table is written past a buffer that was sized for drive 1,  *)
(* when there was no room for a larger one while the system booted.         *)
BufferHolds ==
  \A d \in 0..1 :
    high[d] * SECTOR > buf * 4096 =>
      buf = PagesFor(TableOf(1 - d)) /\ TableOf(1 - d) < TableOf(d)

(* sysmngr -free c/ "counts free clusters in the file allocation table" of  *)
(* the volume booted from: never more than that volume has.  The damaged    *)
(* size field refutes it.                                                   *)
FreeIsTrue == rep.present /\ drive = 0 => rep.free <= Vol(0).clusters
===========================================================================
