-------------------------------- MODULE Iso --------------------------------
(***************************************************************************)
(* mkqizoiso wraps an image in an ISO 9660 volume with an El Torito boot    *)
(* catalog; qizocheck.check_iso finds its way through the volume from the   *)
(* descriptors.  The iso is the sequence of the parts build_iso joins, each *)
(* with its length in bytes and its first byte; where a part begins follows *)
(* from the parts before it and not from the constants the records name.    *)
(***************************************************************************)
EXTENDS Disk

CONSTANT OtherFiles   \* lengths of files given to --image besides the image built
ASSUME OtherFilesAssumption == OtherFiles \subseteq Nat

VARIABLES
  image,    \* bytes of the file that is wrapped
  iso,      \* the parts written, << >> before
  isoOk     \* what check_iso returned

isoVars == <<image, iso, isoOk>>

Block == 2048
PVD_LBA == 16
CATALOG_LBA == 19
ROOT_LBA == 20
FILE_LBA == 21

UpTo(n, unit) == ((n + unit - 1) \div unit) * unit
Both16(v) == <<v % 256, v \div 256, v \div 256, v % 256>>
Le16(b) == b[1] + 256 * b[2]
Be16(b) == 256 * b[3] + b[4]

\* The sum of the first n numbers of a sequence.
SumFirst(s, n) ==
  LET sum[k \in 0..n] == IF k = 0 THEN 0 ELSE sum[k - 1] + s[k]
  IN  sum[n]
Sum16(words) == SumFirst(words, Len(words)) % 65536

\* A directory record, padded to an even length; ids "." and ".." are one byte,
\* and the image is named with its version, QIZO.IMG;1.
IdLen(id) == IF id = "QIZO.IMG" THEN 10 ELSE 1
DirRecord(lba, size, id) ==
  [len |-> UpTo(33 + IdLen(id), 2), lba |-> lba, size |-> size, id |-> id]

\* The validation entry: header, the text QIZO MKQIZOISO, checksum, key.
Header == <<1, 0, 18769, 20314, 19744, 20811, 23113, 18767, 20307, 0, 0, 0, 0, 0>>
Key == 43605

\* Mutant: the words behind the checksum's place are left out of the sum.
MutCatalogWords == Header \o <<(65536 - Sum16(Header)) % 65536, Key>>

CatalogWords == Header \o <<(65536 - Sum16(Append(Header, Key))) % 65536, Key>>

FileBlocks == UpTo(image, Block) \div Block
LoadSize == IF FileBlocks < 65535 THEN FileBlocks ELSE 0

RootRecords == <<DirRecord(ROOT_LBA, 0, "."), DirRecord(ROOT_LBA, 0, ".."),
                 DirRecord(FILE_LBA, image, "QIZO.IMG")>>
Offset(recs, k) == SumFirst([j \in DOMAIN recs |-> recs[j].len], k - 1)
RecordBytes == Offset(RootRecords, 4)
RootBytes == RecordBytes + (Block - (RecordBytes % Block))

Parts ==
  << [bytes |-> PVD_LBA * Block, first |-> 0],
     [bytes |-> Block, first |-> 1, blocks |-> FILE_LBA + FileBlocks,
      block |-> Both16(Block), root |-> DirRecord(ROOT_LBA, RootBytes, ".")],
     [bytes |-> Block, first |-> 0, catalog |-> CATALOG_LBA],
     [bytes |-> Block, first |-> 255],
     [bytes |-> Block, first |-> 1, words |-> CatalogWords,
      entry |-> [size |-> LoadSize, lba |-> FILE_LBA]],
     [bytes |-> RootBytes, first |-> 34, records |-> RootRecords],
     [bytes |-> UpTo(image, Block), first |-> 250, payload |-> image] >>

StartOf(parts, k) == SumFirst([j \in DOMAIN parts |-> parts[j].bytes], k - 1)
IsoBytes(parts) == StartOf(parts, Len(parts) + 1)
---------------------------------------------------------------------------
IsoInit == image = 0 /\ iso = << >> /\ isoOk = FALSE

\* The file wrapped is the image just built, or some other one.
GiveFile ==
  /\ pc = "checked" /\ pc' = "wrap"
  /\ image' \in {total * SECTOR} \cup OtherFiles
  /\ UNCHANGED <<plan, table, check, iso, isoOk>>

\* build_iso: nothing is written unless the lengths are what was promised.
BuildIso ==
  /\ pc = "wrap"
  /\ IF /\ \A k \in DOMAIN Parts : Parts[k].bytes % Block = 0
        /\ IsoBytes(Parts) = (FILE_LBA + FileBlocks) * Block
     THEN iso' = Parts /\ pc' = "wrapped"
     ELSE UNCHANGED iso /\ pc' = "isoRefused"
  /\ UNCHANGED <<plan, table, check, image, isoOk>>
---------------------------------------------------------------------------
\* The part that begins at a block; no other place is looked at below.
PartAt(lba) == CHOOSE k \in DOMAIN iso : StartOf(iso, k) = lba * Block
Begins(lba) == \E k \in DOMAIN iso : StartOf(iso, k) = lba * Block

\* The descriptors from block 16 to the first whose type is 255.
Terminators == {k \in DOMAIN iso : StartOf(iso, k) >= 16 * Block /\ iso[k].first = 255}
Descriptors == {k \in 1..(Min(Terminators) - 1) : StartOf(iso, k) >= 16 * Block}
Primary == iso[Max({k \in Descriptors : iso[k].first = 1})]
BootRecord == iso[Max({k \in Descriptors : iso[k].first = 0})]

DescriptorsGood ==
  /\ Terminators # {}
  /\ \E k \in Descriptors : iso[k].first = 1
  /\ \E k \in Descriptors : iso[k].first = 0
  /\ Primary.root.len = 34
  /\ Le16(Primary.block) = Block /\ Be16(Primary.block) = Le16(Primary.block)

CatalogGood(cat) ==
  /\ cat.first = 1 /\ cat.words[2] = 0 /\ cat.words[16] = Key /\ Sum16(cat.words) = 0
  /\ cat.entry.size \in {4, 0} \/ cat.entry.size >= 66

\* The image lies where the boot entry says.
ImageGood(entry) ==
  /\ entry.lba * Block + image <= IsoBytes(iso)
  /\ Begins(entry.lba) /\ iso[PartAt(entry.lba)].first = 250
  /\ iso[PartAt(entry.lba)].payload = image

(* The records are read one behind the other, a record at offset o only if  *)
(* 34 bytes are left there; the last whose name starts with QIZO counts.    *)
DirectoryGood(root, entry) ==
  /\ Begins(root.lba) /\ iso[PartAt(root.lba)].first = 34
  /\ LET recs == iso[PartAt(root.lba)].records
         named == {k \in DOMAIN recs : /\ Offset(recs, k) + 34 <= root.size
                                       /\ recs[k].id = "QIZO.IMG"}
     IN  named # {} /\ recs[Max(named)].lba = entry.lba /\ recs[Max(named)].size = image

CheckIso ==
  /\ pc = "wrapped" /\ pc' = "isoChecked"
  /\ isoOk' = /\ DescriptorsGood /\ Begins(BootRecord.catalog)
              /\ LET cat == iso[PartAt(BootRecord.catalog)]
                 IN  CatalogGood(cat) /\ ImageGood(cat.entry)
                                      /\ DirectoryGood(Primary.root, cat.entry)
  /\ UNCHANGED <<plan, table, check, image, iso>>

IsoNext == GiveFile \/ BuildIso \/ CheckIso
---------------------------------------------------------------------------
(* build_iso refuses nothing, and check_iso passes the iso of every image   *)
(* that mkqizoimg builds: the constants in the records lead to where the    *)
(* parts came to lie.  Of other files it refuses exactly those of 1 to 3    *)
(* and 5 to 65 blocks, for the load size in the boot entry.                 *)
IsoAccepted ==
  /\ pc # "isoRefused"
  /\ pc = "isoChecked" =>
       (isoOk <=> FileBlocks \in {0, 4} \/ FileBlocks >= 66)
  /\ pc = "isoChecked" /\ image = total * SECTOR => isoOk
===========================================================================
