------------------------------- MODULE Disk -------------------------------
(***************************************************************************)
(* The disk image mkqizoimg lays out: boot record, boot area, and a FAT     *)
(* volume with two files, built step by step with the sizes of the code.    *)
(* qizocheck.check_fs then reads the volume back.  A FAT is a function from *)
(* the byte offsets that were written to bytes; every other byte is zero.   *)
(* Sizes and positions are sectors unless said otherwise.                   *)
(***************************************************************************)
EXTENDS Integers, Sequences, SequencesExt, FiniteSets, FiniteSetsExt

CONSTANTS
  Requests,   \* what is asked of mkqizoimg, see req
  FileWords   \* 16 bit words that files and directory entries may hold

VARIABLES
  req,       \* blob: sectors of the blob; sectors: --image-sectors, 0 if absent;
             \* kernel: sectors of KERNEL.BIN
  pc,        \* where the build is; "refused" and "crashed" end it
  total,     \* sectors of the image
  layout,    \* what plan_layout returned
  fat,       \* the table in memory, then on the disk, twice
  clusterOf, \* first cluster and number of clusters, by file
  nxt,       \* the next free cluster
  left,      \* clusters the last file still needs
  bpb,       \* the fields of the boot sector that readers use
  walk,      \* check_fs: the file being read, its next cluster, what was read
  found,     \* check_fs: the files read
  passed     \* what check_fs returned

plan == <<req, total, layout, bpb>>
table == <<fat, clusterOf, nxt, left>>
check == <<walk, found, passed>>
diskVars == <<pc, plan, table, check>>

SECTOR == 512
PART_LBA == 16
STAGE2_SECTORS == 8
BLOB_LBA == PART_LBA + STAGE2_SECTORS
RESERVED == 32
ROOT_SECTORS == 14
Files == <<"README.TXT", "KERNEL.BIN">>
SectorsOf(name) == IF name = "README.TXT" THEN 1 ELSE req.kernel
PartLba == BLOB_LBA + req.blob
None == [bits |-> 0]

\* A table entry takes bits bits; for FAT12 the code counts three.
FatSizeFor(clusters, bits) ==
  Max({1, (clusters * (IF bits = 12 THEN 3 ELSE bits) + SECTOR * 8 - 1) \div (SECTOR * 8)})

DataSectors(size, fatSize) == size - PartLba - RESERVED - 2 * fatSize - ROOT_SECTORS

\* Mutant: the two reserved entries are forgotten and the size rounded down.
MutFatSize(size, bits) == FatSizeFor(DataSectors(size, 1), bits) - 1

(* What plan_layout's loop settles at: the first round sizes the table for  *)
(* a volume with tables of one sector, and the second always breaks, since  *)
(* a larger table leaves fewer clusters.                                    *)
FatSize(size, bits) == FatSizeFor(DataSectors(size, 1) + 2, bits)

\* Mutant: the smallest FAT16 volume is taken to have 4096 clusters.
MutPlanLayout(size, bits) ==
  LET fs == FatSize(size, bits)
      c  == DataSectors(size, fs)
  IN  IF c < 4096 THEN None ELSE [bits |-> bits, fatSize |-> fs, clusters |-> c]

PlanLayout(size, bits) ==
  LET fs == FatSize(size, bits)
      c  == DataSectors(size, fs)
  IN  IF c < 4085 THEN None ELSE [bits |-> bits, fatSize |-> fs, clusters |-> c]
---------------------------------------------------------------------------
Init ==
  /\ req \in Requests
  /\ pc = IF req.sectors = 0 THEN "pick" ELSE "plan"
  /\ total = IF req.sectors = 0 THEN PartLba + RESERVED + 2 + 14 + 4096 ELSE req.sectors
  /\ layout = None /\ bpb = << >>
  /\ fat = << >> /\ clusterOf = << >> /\ nxt = 2 /\ left = 0
  /\ walk = << >> /\ found = << >> /\ passed = FALSE

\* With --image-sectors: FAT16 if the volume is large enough, else FAT12.
Plan ==
  /\ pc = "plan"
  /\ layout' = IF PlanLayout(total, 16) # None THEN PlanLayout(total, 16)
                                               ELSE PlanLayout(total, 12)
  /\ pc' = IF layout' = None THEN "refused" ELSE "sector"
  /\ UNCHANGED <<req, total, bpb, table, check>>

\* pick_layout: the image grows by 256 sectors until a layout is found.
Pick ==
  /\ pc = "pick" /\ total < 4194304
  /\ layout' = PlanLayout(total, 16)
  /\ IF layout' # None THEN pc' = "sector" /\ UNCHANGED total
                       ELSE total' = total + 256 /\ UNCHANGED pc
  /\ UNCHANGED <<req, bpb, table, check>>

(* build_image, the boot sector.  Two byte stores after the 32 bit sector   *)
(* count replace its upper half by 0x0180, and a 16 bit field takes the     *)
(* image's size, which must fit.                                            *)
Bpb == [spc |-> 1, reserved |-> RESERVED, fats |-> 2, rootent |-> 224,
        mbrSects |-> 0, spf |-> layout.fatSize,
        bigSects |-> ((total - PartLba) % 65536) + 384 * 65536]

BootSector ==
  /\ pc = "sector"
  /\ pc' = IF total - PART_LBA > 65535 THEN "crashed" ELSE "files"
  /\ bpb' = Bpb
  /\ UNCHANGED <<req, total, layout, table, check>>

Byte(f, off) == IF off \in DOMAIN f THEN f[off] ELSE 0
Put(f, off, v) == [o \in DOMAIN f \cup {off} |-> IF o = off THEN v ELSE f[o]]

\* Mutant: a 16 bit entry is stored high byte first.
MutFatSet(f, bits, index, value) ==
  Put(Put(f, 2 * index, value \div 256), 2 * index + 1, value % 256)

\* Mutant: an even 12 bit entry is stored without a mask.
MutFatSetWide(f, bits, index, value) ==
  IF bits = 16 THEN Put(Put(f, 2 * index, value % 256), 2 * index + 1, value \div 256)
  ELSE Put(f, (index * 3) \div 2, IF index % 2 = 1 THEN value \div 16 ELSE value)

FatSet(f, bits, index, value) ==
  LET off == (index * 3) \div 2 IN
  IF bits = 16 THEN Put(Put(f, 2 * index, value % 256), 2 * index + 1, value \div 256)
  ELSE IF index % 2 = 1
  THEN Put(Put(f, off, (Byte(f, off) % 16) + ((value % 16) * 16)),
           off + 1, (value \div 16) % 256)
  ELSE Put(Put(f, off, value % 256),
           off + 1, (Byte(f, off + 1) - (Byte(f, off + 1) % 16)) + ((value \div 256) % 16))

Eof(bits) == IF bits = 12 THEN 4095 ELSE 65535

\* A store past the end of the table raises.
InTable(f) == \A o \in DOMAIN f : o < layout.fatSize * SECTOR

AddFile ==
  /\ pc = "files" /\ left = 0 /\ Len(clusterOf) < Len(Files)
  /\ LET count == SectorsOf(Files[Len(clusterOf) + 1])
     IN  /\ clusterOf' = Append(clusterOf, <<IF count = 0 THEN 0 ELSE nxt, count>>)
         /\ left' = count
  /\ UNCHANGED <<pc, plan, fat, nxt, check>>

\* One more cluster of the file, leading to the next or ending the chain.
Chain ==
  /\ pc = "files" /\ left > 0
  /\ fat' = FatSet(fat, layout.bits, nxt, IF left = 1 THEN Eof(layout.bits) ELSE nxt + 1)
  /\ pc' = IF InTable(fat') THEN pc ELSE "crashed"
  /\ nxt' = nxt + 1 /\ left' = left - 1
  /\ UNCHANGED <<plan, clusterOf, check>>

\* The two reserved entries, the root directory and both copies on the disk.
CloseFat ==
  /\ pc = "files" /\ left = 0 /\ Len(clusterOf) = Len(Files)
  /\ fat' = FatSet(FatSet(fat, layout.bits, 0, IF layout.bits = 16 THEN 65535 ELSE 248),
                   layout.bits, 1, Eof(layout.bits))
  /\ pc' = "built"
  /\ UNCHANGED <<plan, clusterOf, nxt, left, check>>
---------------------------------------------------------------------------
(* check_fs.  All positions come from the boot sector and the partition     *)
(* entry; the table is read as 16 bit words whatever the volume is.         *)
RootLba == PartLba + bpb.reserved + bpb.fats * bpb.spf
DataLba == RootLba + ((bpb.rootent * 32 + SECTOR - 1) \div SECTOR)
Span == bpb.spf * SECTOR       \* bytes of one table
DirBytes == 32 * (1 + Len(Files))

\* The sector's content: the k-th sector of a file, or zeros.
Content(lba) ==
  LET c == lba - DataLba + 2
      own == {f \in DOMAIN Files : c \in clusterOf[f][1]..(clusterOf[f][1] + clusterOf[f][2] - 1)}
  IN  IF own = {} THEN <<"zero">>
      ELSE LET f == CHOOSE f \in own : TRUE IN <<Files[f], c - clusterOf[f][1] + 1>>

(* The 16 bit word at offset 2 * index from the first table: an entry of    *)
(* either copy, or a word behind them, which is zero except in the directory*)
(* entries and in the files.                                                *)
Strays(index) ==
  LET off == 2 * index
      lba == PartLba + bpb.reserved + (off \div SECTOR)
  IN  off >= 2 * Span /\ (off < 2 * Span + DirBytes \/ Content(lba) # <<"zero">>)
Fat16(index) ==
  LET off == 2 * index
      word(o) == Byte(fat, o) + 256 * Byte(fat, o + 1)
  IN  IF off < Span THEN {word(off)}
      ELSE IF off < 2 * Span THEN {word(off - Span)}
      ELSE IF Strays(index) THEN FileWords ELSE {0}

WalkBound == 100000    \* the clusters after which the code gives up

Open(f) == [file |-> f, cur |-> clusterOf[f][1], got |-> << >>, spins |-> 0]
InChain == walk.cur >= 2 /\ walk.cur < 65528 /\ walk.spins < WalkBound

StartCheck ==
  /\ pc = "built" /\ pc' = "walk" /\ walk' = Open(1)
  /\ UNCHANGED <<plan, table, found, passed>>

\* A sector behind the end of the image adds nothing.
Follow ==
  /\ pc = "walk" /\ InChain
  /\ LET lba == DataLba + (walk.cur - 2) * bpb.spc
     IN  \E word \in Fat16(walk.cur) :
           walk' = [walk EXCEPT !.cur = word, !.spins = @ + 1,
                     !.got = IF lba < total THEN Append(@, Content(lba)) ELSE @]
  /\ UNCHANGED <<pc, plan, table, found, passed>>

Whole(f) == [k \in 1..SectorsOf(Files[f]) |-> <<Files[f], k>>]

EndOfFile ==
  /\ pc = "walk" /\ ~InChain
  /\ found' = Append(found, SubSeq(walk.got, 1, Min({Len(walk.got), SectorsOf(Files[walk.file])})))
  /\ IF walk.file < Len(Files)
     THEN walk' = Open(walk.file + 1) /\ UNCHANGED <<pc, passed>>
     ELSE /\ pc' = "checked" /\ UNCHANGED walk
          /\ passed' = \A f \in DOMAIN Files : found'[f] = Whole(f)
  /\ UNCHANGED <<plan, table>>

BuildNext ==
  \/ Plan \/ Pick \/ BootSector \/ AddFile \/ Chain \/ CloseFat
  \/ StartCheck \/ Follow \/ EndOfFile
---------------------------------------------------------------------------
\* Where the files lie: one behind the other from cluster 2 on.
Readme == <<2, 1>>
Kernel == <<IF req.kernel = 0 THEN 0 ELSE 3, req.kernel>>
FilesPlaced ==
  \/ clusterOf = << >> /\ nxt = 2 /\ left = 0
  \/ clusterOf = <<Readme>> /\ nxt + left = 3
  \/ clusterOf = <<Readme, Kernel>> /\ nxt + left = 3 + req.kernel

IsTable(f) == \A o \in DOMAIN f : o \in Nat /\ f[o] \in 0..255

\* The table holds bytes, inside its sectors unless the build failed, and
\* the files are placed.
TypeOK ==
  /\ req \in Requests /\ total \in Int /\ passed \in BOOLEAN
  /\ nxt \in Nat /\ left \in Nat /\ FilesPlaced
  /\ IsTable(fat) /\ (pc # "crashed" => InTable(fat))

Built == pc \notin {"pick", "plan", "sector", "files", "refused", "crashed"}

(* The parts of a finished image follow each other without overlap: boot    *)
(* record, stage 2, blob, reserved sectors, two tables, root directory,     *)
(* files, end.  The boot sector leads a reader to the places build_image    *)
(* wrote, every cluster of a file exists and has its entry inside the table.*)
LayoutSound ==
  Built =>
    /\ PartLba + RESERVED + 2 * layout.fatSize = RootLba
    /\ RootLba + ROOT_SECTORS = DataLba /\ DataLba + layout.clusters = total
    /\ nxt <= layout.clusters + 2 /\ InTable(fat)
    /\ layout.bits = 16 => 2 * (layout.clusters + 2) <= layout.fatSize * SECTOR

(* check_fs passes every FAT16 image, and a FAT12 image only when no file   *)
(* has a second cluster: it has no 12 bit reader.  Its walks end by         *)
(* themselves and take no file or directory bytes for a table entry, except *)
(* on a FAT12 image with a kernel of 74 sectors or more, where what they    *)
(* meet does not matter any more.                                           *)
CheckFsExact ==
  /\ Built /\ pc \notin {"built", "walk"} => (passed <=> layout.bits = 16 \/ req.kernel <= 1)
  /\ pc = "walk" /\ (layout.bits = 16 \/ req.kernel < 74) =>
       walk.spins < WalkBound /\ (InChain => ~Strays(walk.cur))

(* mkqizoimg refuses only the sizes that leave fewer than 4085 clusters     *)
(* beside a FAT12 table, and fails without a message only on an image       *)
(* whose size does not fit 16 bits, or on a FAT12 volume with a kernel of    *)
(* more than 1021 sectors, whose table is too small for the chain.          *)
RefusesOnly ==
  /\ pc = "refused" => DataSectors(total, FatSize(total, 12)) < 4085
  /\ pc = "crashed" => \/ total - PART_LBA > 65535
                       \/ layout.bits = 12 /\ req.kernel > 1021
===========================================================================
