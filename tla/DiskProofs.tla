---------------------------- MODULE DiskProofs ----------------------------
(***************************************************************************)
(* Proofs about the image and the kernel's view of it, for every request    *)
(* mkqizoimg accepts: the layout is sound, the build fails only where it    *)
(* should, and the scan finds the boot volume and keeps to its buffer       *)
(* exactly as stated in Volume.                                             *)
(***************************************************************************)
EXTENDS ImageLife, KernelLemmas

---------------------------------------------------------------------------
(* The strengthening that makes the invariants of Disk and Volume inductive *)
(* for every set of requests.                                               *)
Unplanned == {"pick", "plan", "refused"}
Later == {"built", "walk", "checked", "scan", "table", "idle",
          "wrap", "wrapped", "isoRefused", "isoChecked"}
Scans == {"scan", "table", "idle"}

\* The layout is what plan_layout returned.
Planned ==
  /\ layout.bits \in {12, 16} /\ layout.clusters >= 4085
  /\ layout.fatSize = FatSize(total, layout.bits)
  /\ layout.clusters = DataSectors(total, layout.fatSize)

\* The boot sector says the same.
BpbSound == bpb = Bpb /\ total - PART_LBA <= 65535

LayoutInv ==
  /\ pc \in Unplanned \cup {"sector", "files", "crashed"} \cup Later
  /\ pc = "refused" => PlanLayout(total, 12) = None
  /\ pc \notin Unplanned => Planned
  /\ pc \in Unplanned \cup {"sector"} => fat = << >> /\ clusterOf = << >>
  /\ pc \in {"files"} \cup Later => BpbSound
  /\ pc = "crashed" => total - PART_LBA > 65535 \/ (layout.bits = 12 /\ req.kernel > 1021)

\* Where the scan is, and that fatbuf is there before anything is read into it.
ScanInv ==
  /\ at \in 1..3 /\ idx \in 0..(FAT_SCAN_LBAS - 1) /\ done \in Nat /\ buf \in Nat
  /\ drive \in 0..1 /\ high \in [0..1 -> Nat] /\ rep.present \in BOOLEAN
  /\ pc \notin Scans => drive = 0 /\ buf = 0
  /\ pc \notin {"scan", "table"} => at = 1 /\ idx = 0
  /\ pc # "idle" => ~rep.present
  /\ pc # "table" => done = 0
  /\ pc = "table" => buf # 0 /\ Hit /\ done <= TableSectors

\* The sectors of a table that are read, by drive.
Spf(d) == Min({IF d = 1 THEN req.other.bpb.spf ELSE layout.fatSize, 512})

\* fatbuf was sized for the table of one of the drives, and never is more of a
\* table read than there is.
BufInv ==
  /\ buf = 0 => high[0] = 0 /\ high[1] = 0
  /\ buf # 0 => /\ buf = PagesFor(Spf(0)) \/ buf = PagesFor(Spf(1))
                /\ high[0] <= Spf(0) /\ high[1] <= Spf(1)

\* The first starting point did not lead to the table.
Lost == req.bad = PartLba \/ NoRoom \/ req.bad \in FirstPart(PartLba)

\* What a scan of the boot drive has found, and, while it goes on, what each
\* starting point that was passed without success says about the drive.
FoundInv ==
  /\ drive = 0 /\ pc = "idle" => (rep.present <=> Reachable)
  /\ drive = 0 /\ pc \in {"scan", "table"} =>
       /\ at = 1 /\ idx > 0 => req.bad = PartLba
       /\ at = 2 => Lost
       /\ at = 2 /\ idx > PartLba - 63 => ~Reachable
       /\ at = 3 => ~Reachable
       /\ done > 0 => req.bad \notin FirstPart(First)

LifeInv == TypeOK /\ LayoutInv /\ ScanInv /\ BufInv /\ FoundInv
---------------------------------------------------------------------------
(* The larger and the smaller of two numbers. *)
LEMMA MaxOfTwo ==
  ASSUME NEW a \in Int, NEW b \in Int
  PROVE  Max({a, b}) = IF a >= b THEN a ELSE b
  BY DEF Max

LEMMA MinOfTwo ==
  ASSUME NEW a \in Int, NEW b \in Int
  PROVE  Min({a, b}) = IF a <= b THEN a ELSE b
  BY DEF Min

LEMMA SoundSpf ==
  ASSUME NEW v, SoundVolume(v)
  PROVE  v.bpb.spf \in Nat
  BY DEF SoundVolume

\* What a request is made of (the limits of mkqizoimg.main).
LEMMA RequestType ==
  ASSUME req \in Requests
  PROVE  /\ req.blob \in Nat /\ req.blob <= 248 /\ PartLba \in Nat /\ PartLba = 24 + req.blob
         /\ req.kernel \in Nat /\ req.kernel <= 1024 /\ req.sectors \in Int
         /\ req.bad \in Nat /\ req.other.bpb.spf \in Nat
<1>1. /\ req.blob \in Nat /\ req.blob <= 248 /\ req.kernel \in Nat /\ req.kernel <= 1024
      /\ req.sectors \in Int /\ req.bad \in Nat
      /\ SoundVolume(req.other)
  BY RequestsAssumption
<1>2. PartLba = 24 + req.blob /\ PartLba \in Nat
  BY <1>1 DEF PartLba, BLOB_LBA, PART_LBA, STAGE2_SECTORS
<1>3. req.other.bpb.spf \in Nat
  BY <1>1, SoundSpf, Zenon
<1> QED
  BY <1>1, <1>2, <1>3, Zenon

---------------------------------------------------------------------------
(* The size of the table. *)

\* The bits fat_size_for counts for an entry.
Width(bits) == IF bits = 12 THEN 3 ELSE bits

\* The table is never empty and has room for the entries it was sized for,
\* but not a sector to spare.
LEMMA TableSize ==
  ASSUME NEW c \in Int, NEW bits, bits \in {12, 16}
  PROVE  /\ FatSizeFor(c, bits) \in Nat /\ FatSizeFor(c, bits) >= 1
         /\ Width(bits) * c <= 4096 * FatSizeFor(c, bits)
         /\ FatSizeFor(c, bits) > 1 => Width(bits) * c > 4096 * (FatSizeFor(c, bits) - 1)
<1> DEFINE w == Width(bits)
           p == c * w
           q == (p + 4095) \div 4096
<1>1. w \in {3, 16}
  BY DEF Width
<1>2. p \in Int /\ p = w * c
  BY <1>1
<1>3. FatSizeFor(c, bits) = Max({1, q})
  BY DEF FatSizeFor, SECTOR, Width
<1> HIDE DEF p, w
<1>4. q \in Int /\ 4096 * q <= p + 4095 /\ p + 4095 < 4096 * q + 4096
  BY <1>2
<1> HIDE DEF q
<1>5. FatSizeFor(c, bits) = IF 1 >= q THEN 1 ELSE q
  BY <1>3, <1>4, MaxOfTwo
<1>6. /\ FatSizeFor(c, bits) \in Nat /\ FatSizeFor(c, bits) >= 1
      /\ p <= 4096 * FatSizeFor(c, bits)
      /\ FatSizeFor(c, bits) > 1 => p > 4096 * (FatSizeFor(c, bits) - 1)
  BY ONLY <1>2, <1>4, <1>5
<1> QED
  BY <1>2, <1>6 DEF w

\* plan_layout's loop: the table of the first round is not too small for the
\* clusters that it leaves, so the second round ends it (plan_layout).
LEMMA LoopSettles ==
  ASSUME req \in Requests, NEW size \in Int, NEW bits, bits \in {12, 16}
  PROVE  FatSizeFor(DataSectors(size, FatSize(size, bits)) + 2, bits) <= FatSize(size, bits)
<1> DEFINE d == DataSectors(size, 1) + 2
           fs == FatSize(size, bits)
           e == DataSectors(size, fs) + 2
<1>1. d \in Int
  BY RequestType DEF DataSectors, RESERVED, ROOT_SECTORS
<1>2. fs = FatSizeFor(d, bits)
  BY DEF FatSize
<1>3. fs \in Nat /\ fs >= 1
  BY <1>1, <1>2, TableSize
<1>4. e \in Int /\ e <= d
  BY <1>3, RequestType DEF DataSectors, RESERVED, ROOT_SECTORS
<1> HIDE DEF d, e, fs
<1>5. FatSizeFor(e, bits) <= FatSizeFor(d, bits)
  <2> DEFINE w == Width(bits)
             x == FatSizeFor(e, bits)
             y == FatSizeFor(d, bits)
  <2>1. w * d <= 4096 * y /\ y \in Nat /\ y >= 1
    BY <1>1, TableSize
  <2>2. (x > 1 => w * e > 4096 * (x - 1)) /\ x \in Nat
    BY <1>4, TableSize
  <2>3. w = 3 \/ w = 16
    BY DEF Width
  <2> HIDE DEF w, x, y
  <2>4. x <= y
    BY ONLY <1>1, <1>4, <2>1, <2>2, <2>3
  <2> QED
    BY <2>4 DEF x, y
<1> QED
  BY <1>2, <1>5 DEF d, e, fs

\* What a planned layout gives: a table of at least three sectors, and on
\* FAT16 an entry for every cluster.
LEMMA PlannedFacts ==
  ASSUME req \in Requests, total \in Int, Planned
  PROVE  /\ layout.fatSize \in Nat /\ layout.fatSize >= 3 /\ layout.clusters \in Int
         /\ layout.clusters = total - PartLba - 46 - 2 * layout.fatSize
         /\ layout.bits = 16 => 2 * (layout.clusters + 2) <= layout.fatSize * 512
<1> DEFINE d == DataSectors(total, 1) + 2
<1>1. d \in Int /\ d = total - PartLba - 46
  BY RequestType DEF DataSectors, RESERVED, ROOT_SECTORS
<1>2. layout.fatSize = FatSizeFor(d, layout.bits)
  BY DEF Planned, FatSize
<1>3. layout.fatSize \in Nat /\ layout.fatSize >= 1
  BY <1>1, <1>2, TableSize DEF Planned
<1>4. layout.clusters = total - PartLba - 46 - 2 * layout.fatSize /\ layout.clusters \in Int
  BY <1>3, RequestType DEF DataSectors, RESERVED, ROOT_SECTORS, Planned
<1>5. layout.clusters >= 4085
  BY DEF Planned
<1> HIDE DEF d
<1>6. CASE layout.bits = 12
  <2>1. 3 * d <= 4096 * layout.fatSize
    BY <1>1, <1>2, <1>6, TableSize DEF Width
  <2> QED
    BY ONLY <2>1, <1>1, <1>3, <1>4, <1>5, <1>6, RequestType, req \in Requests
<1>7. CASE layout.bits = 16
  <2>1. 16 * d <= 4096 * layout.fatSize
    BY <1>1, <1>2, <1>7, TableSize DEF Width
  <2> QED
    BY ONLY <2>1, <1>1, <1>3, <1>4, <1>5, <1>7, RequestType, req \in Requests
<1> QED
  BY <1>6, <1>7 DEF Planned

---------------------------------------------------------------------------
(* Stores into the table. *)
LEMMA ByteRange ==
  ASSUME NEW b
  PROVE  b \in 0..255 <=> b \in Nat /\ b <= 255
  OBVIOUS

LEMMA ByteType ==
  ASSUME NEW f, IsTable(f), NEW o
  PROVE  Byte(f, o) \in Nat /\ Byte(f, o) <= 255
<1>1. CASE o \in DOMAIN f
  <2>1. f[o] \in 0..255 /\ Byte(f, o) = f[o]
    BY <1>1, Zenon DEF IsTable, Byte
  <2> QED
    BY ONLY <2>1, ByteRange
<1>2. CASE o \notin DOMAIN f
  <2>1. Byte(f, o) = 0
    BY <1>2, Zenon DEF Byte
  <2> QED
    BY ONLY <2>1
<1> QED
  BY <1>1, <1>2, Zenon

LEMMA PutTable ==
  ASSUME NEW f, IsTable(f), NEW o \in Nat, NEW v \in Nat, v <= 255
  PROVE  IsTable(Put(f, o, v)) /\ DOMAIN Put(f, o, v) = DOMAIN f \cup {o}
<1>1. DOMAIN Put(f, o, v) = DOMAIN f \cup {o}
  BY DEF Put
<1>2. v \in 0..255
  BY ONLY v \in Nat, v <= 255
<1>3. \A x \in DOMAIN f \cup {o} : Put(f, o, v)[x] = IF x = o THEN v ELSE f[x]
  BY DEF Put
<1>4. \A x \in DOMAIN Put(f, o, v) : x \in Nat /\ Put(f, o, v)[x] \in 0..255
  BY <1>1, <1>2, <1>3, Zenon DEF IsTable
<1> QED
  BY <1>1, <1>4 DEF IsTable

\* Where an entry begins.
EntryAt(bits, index) == IF bits = 16 THEN 2 * index ELSE (index * 3) \div 2

IsWord(v) == v \in Nat /\ v <= 65535
Store(f, bits, index, value) ==
  IsTable(f) /\ bits \in {12, 16} /\ index \in Nat /\ IsWord(value)

Stored(f, g, p) == DOMAIN g = DOMAIN f \cup {p, p + 1}

\* fat_set writes two bytes, at the entry's place, and they are bytes.
LEMMA FatSetTable ==
  ASSUME NEW f, NEW bits, NEW index, NEW value, Store(f, bits, index, value)
  PROVE  /\ EntryAt(bits, index) \in Nat /\ IsTable(FatSet(f, bits, index, value))
         /\ Stored(f, FatSet(f, bits, index, value), EntryAt(bits, index))
<1>0. value \in Nat /\ value <= 65535 /\ index \in Nat /\ bits \in {12, 16}
  BY DEF IsWord, Store
<1>a. IsTable(f)
  BY DEF Store
<1> DEFINE p == EntryAt(bits, index)
           lo == value % 256
           hi == value \div 256
           x  == Byte(f, p)
           y  == Byte(f, p + 1)
           ox == (x % 16) + ((value % 16) * 16)
           oy == (value \div 16) % 256
           ey == (y - (y % 16)) + ((value \div 256) % 16)
<1>1. p \in Nat
  BY <1>0 DEF EntryAt
<1>2. lo \in Nat /\ lo <= 255 /\ hi \in Nat /\ hi <= 255
  BY ONLY <1>0
<1>3. x \in Nat /\ x <= 255 /\ y \in Nat /\ y <= 255
  BY <1>a, ByteType
<1> HIDE DEF x, y, p
<1>4. ox \in Nat /\ ox <= 255
  BY ONLY <1>0, <1>3
<1>5. oy \in Nat /\ oy <= 255
  BY ONLY <1>0
<1>6. ey \in Nat /\ ey <= 255
  BY ONLY <1>0, <1>3
<1>7. \A a, b \in Nat : a <= 255 /\ b <= 255 =>
        /\ IsTable(Put(Put(f, p, a), p + 1, b))
        /\ DOMAIN Put(Put(f, p, a), p + 1, b) = DOMAIN f \cup {p, p + 1}
  <2> SUFFICES ASSUME NEW a \in Nat, NEW b \in Nat, a <= 255, b <= 255
               PROVE  /\ IsTable(Put(Put(f, p, a), p + 1, b))
                      /\ DOMAIN Put(Put(f, p, a), p + 1, b) = DOMAIN f \cup {p, p + 1}
    OBVIOUS
  <2>1. IsTable(Put(f, p, a)) /\ DOMAIN Put(f, p, a) = DOMAIN f \cup {p}
    BY ONLY <1>a, a \in Nat, a <= 255, <1>1, PutTable, Zenon
  <2>2. p + 1 \in Nat
    BY <1>1
  <2>3. /\ IsTable(Put(Put(f, p, a), p + 1, b))
        /\ DOMAIN Put(Put(f, p, a), p + 1, b) = DOMAIN Put(f, p, a) \cup {p + 1}
    BY ONLY b \in Nat, b <= 255, <2>1, <2>2, PutTable, Zenon
  <2>4. (DOMAIN f \cup {p}) \cup {p + 1} = DOMAIN f \cup {p, p + 1}
    BY ONLY TRUE
  <2> QED
    BY ONLY <2>1, <2>3, <2>4, Zenon
<1>8. FatSet(f, bits, index, value) =
        IF bits = 16 THEN Put(Put(f, p, lo), p + 1, hi)
        ELSE IF index % 2 = 1 THEN Put(Put(f, p, ox), p + 1, oy)
        ELSE Put(Put(f, p, lo), p + 1, ey)
  BY <1>0 DEF FatSet, EntryAt, p, x, y
<1> HIDE DEF lo, hi, ox, oy, ey
<1>9. /\ IsTable(FatSet(f, bits, index, value))
      /\ DOMAIN FatSet(f, bits, index, value) = DOMAIN f \cup {p, p + 1}
  <2>1. CASE bits = 16
    BY ONLY <2>1, <1>2, <1>7, <1>8, Zenon
  <2>2. CASE bits # 16 /\ index % 2 = 1
    BY ONLY <2>2, <1>4, <1>5, <1>7, <1>8, Zenon
  <2>3. CASE bits # 16 /\ index % 2 # 1
    BY ONLY <2>3, <1>2, <1>6, <1>7, <1>8, Zenon
  <2> QED
    BY ONLY <2>1, <2>2, <2>3
<1> QED
  BY <1>1, <1>9 DEF p, Stored

\* What a byte is after a store.
LEMMA PutByte ==
  ASSUME NEW f, NEW p, NEW v, NEW o
  PROVE  Byte(Put(f, p, v), o) = IF o = p THEN v ELSE Byte(f, o)
<1>1. /\ DOMAIN Put(f, p, v) = DOMAIN f \cup {p}
      /\ \A x \in DOMAIN f \cup {p} : Put(f, p, v)[x] = IF x = p THEN v ELSE f[x]
  BY DEF Put
<1> HIDE DEF Put
<1> QED
  BY <1>1, Zenon DEF Byte

\* The two bytes fat_set stores.
LEMMA FatSetBytes ==
  ASSUME NEW f, NEW bits \in {12, 16}, NEW index \in Nat, NEW value, NEW o
  PROVE  LET p == EntryAt(bits, index) IN
         Byte(FatSet(f, bits, index, value), o) =
           IF o = p + 1
           THEN IF bits = 16 THEN value \div 256
                ELSE IF index % 2 = 1 THEN (value \div 16) % 256
                ELSE (Byte(f, p + 1) - (Byte(f, p + 1) % 16)) + ((value \div 256) % 16)
           ELSE IF o = p
           THEN IF bits = 12 /\ index % 2 = 1 THEN (Byte(f, p) % 16) + ((value % 16) * 16)
                ELSE value % 256
           ELSE Byte(f, o)
<1>1. CASE bits = 16
  BY <1>1, PutByte DEF FatSet, EntryAt
<1>2. CASE bits = 12
  BY <1>2, PutByte DEF FatSet, EntryAt
<1> QED
  BY <1>1, <1>2

\* A 16 bit entry is two bytes; a pair of 12 bit entries shares three.
Wide(f, i) == Byte(f, 2 * i) + 256 * Byte(f, 2 * i + 1)
Even(f, l) == Byte(f, 3 * l) + 256 * (Byte(f, 3 * l + 1) % 16)
Odd(f, l) == (Byte(f, 3 * l + 1) \div 16) + 16 * Byte(f, 3 * l + 2)

LEMMA LowPart ==
  ASSUME NEW a \in Nat, NEW b \in Nat, a <= 255, b <= 255
  PROVE  (a + 256 * b) % 4096 = a + 256 * (b % 16) /\ (a + 256 * b) \div 16 = (a \div 16) + 16 * b
<1>1. PICK q \in Nat, m \in 0..15 : b = 16 * q + m /\ b % 16 = m
  <2>1. b = 16 * (b \div 16) + (b % 16) /\ b \div 16 \in Nat /\ b % 16 \in 0..15
    OBVIOUS
  <2> QED
    BY <2>1
<1>2. a + 256 * b = 4096 * q + (a + 256 * m) /\ a + 256 * m \in 0..4095
  BY <1>1
<1>3. (a + 256 * b) % 4096 = a + 256 * m
  BY ONLY <1>1, <1>2, a \in Nat, b \in Nat
<1> QED
  BY <1>1, <1>3

LEMMA EntryForms ==
  ASSUME NEW f, IsTable(f), NEW l \in Nat
  PROVE  /\ FatEntry(f, 0, FALSE, l) = Wide(f, l)
         /\ FatEntry(f, 0, TRUE, 2 * l) = Even(f, l)
         /\ FatEntry(f, 0, TRUE, 2 * l + 1) = Odd(f, l)
<1>1. FatEntry(f, 0, FALSE, l) = Wide(f, l)
  <2>1. 0 + 2 * l = 2 * l /\ 0 + 2 * l + 1 = 2 * l + 1
    OBVIOUS
  <2> QED
    BY <2>1 DEF FatEntry, Wide
<1> DEFINE a == Byte(f, 3 * l)
           b == Byte(f, 3 * l + 1)
           c == Byte(f, 3 * l + 2)
<1>2. /\ a \in Nat /\ a <= 255 /\ b \in Nat /\ b <= 255 /\ c \in Nat /\ c <= 255
  BY ByteType
<1>3. /\ (2 * l) \div 2 = l /\ (2 * l) % 2 = 0 /\ (2 * l + 1) \div 2 = l /\ (2 * l + 1) % 2 = 1
  OBVIOUS
<1> DEFINE e == FatEntry(f, 0, TRUE, 2 * l)
           d == FatEntry(f, 0, TRUE, 2 * l + 1)
<1>4. e = (a + 256 * b) % 4096
  <2>1. 0 + (2 * l + ((2 * l) \div 2)) = 3 * l /\ 0 + (2 * l + ((2 * l) \div 2)) + 1 = 3 * l + 1
    BY <1>3
  <2> QED
    BY <1>3, <2>1 DEF FatEntry
<1>5. d = (b + 256 * c) \div 16
  <2>1. /\ 0 + ((2 * l + 1) + ((2 * l + 1) \div 2)) = 3 * l + 1
        /\ 0 + ((2 * l + 1) + ((2 * l + 1) \div 2)) + 1 = 3 * l + 2
    BY <1>3
  <2> QED
    BY <1>3, <2>1 DEF FatEntry
<1>6. Even(f, l) = a + 256 * (b % 16) /\ Odd(f, l) = (b \div 16) + 16 * c
  BY DEF Even, Odd
<1> HIDE DEF a, b, c, d, e
<1>7. e = Even(f, l) /\ d = Odd(f, l)
  BY <1>2, <1>4, <1>5, <1>6, LowPart
<1> QED
  BY <1>1, <1>7 DEF d, e

\* fat_set changes the entry it is given and no other.
LEMMA FatSetWide ==
  ASSUME NEW f, NEW index, NEW value, Store(f, 16, index, value), NEW i \in Nat
  PROVE  Wide(FatSet(f, 16, index, value), i) = IF i = index THEN value ELSE Wide(f, i)
<1>0. value \in Nat /\ value <= 65535 /\ index \in Nat
  BY DEF Store, IsWord
<1> DEFINE g == FatSet(f, 16, index, value)
<1>1. \A o : Byte(g, o) = IF o = 2 * index + 1 THEN value \div 256
                          ELSE IF o = 2 * index THEN value % 256 ELSE Byte(f, o)
  BY <1>0, FatSetBytes DEF EntryAt
<1> HIDE DEF g
<1>2. CASE i = index
  <2>1. Byte(g, 2 * i) = value % 256 /\ Byte(g, 2 * i + 1) = value \div 256
    BY <1>0, <1>1, <1>2
  <2>2. (value % 256) + 256 * (value \div 256) = value
    BY ONLY <1>0
  <2> QED
    BY <1>2, <2>1, <2>2 DEF Wide, g
<1>3. CASE i # index
  <2>1. Byte(g, 2 * i) = Byte(f, 2 * i) /\ Byte(g, 2 * i + 1) = Byte(f, 2 * i + 1)
    BY <1>0, <1>1, <1>3
  <2> QED
    BY <1>3, <2>1 DEF Wide, g
<1> QED
  BY <1>2, <1>3

LEMMA NibbleParts ==
  ASSUME NEW v \in Nat, v <= 4095, NEW b \in Nat, b <= 255
  PROVE  /\ (v \div 16) % 256 = v \div 16 /\ (v \div 256) % 16 = v \div 256
         /\ (v % 256) + 256 * (v \div 256) = v /\ (v % 16) + 16 * (v \div 16) = v
         /\ ((b % 16) + ((v % 16) * 16)) % 16 = b % 16
         /\ ((b % 16) + ((v % 16) * 16)) \div 16 = v % 16
         /\ ((b - (b % 16)) + (v \div 256)) % 16 = v \div 256
         /\ ((b - (b % 16)) + (v \div 256)) \div 16 = b \div 16
<1>1. PICK q \in 0..255, m \in 0..15 : v = 16 * q + m /\ v \div 16 = q /\ v % 16 = m
  <2>1. v = 16 * (v \div 16) + (v % 16) /\ v \div 16 \in 0..255 /\ v % 16 \in 0..15
    OBVIOUS
  <2> QED
    BY <2>1
<1>2. PICK r \in 0..15, n \in 0..255 : v = 256 * r + n /\ v \div 256 = r /\ v % 256 = n
  <2>1. v = 256 * (v \div 256) + (v % 256) /\ v \div 256 \in 0..15 /\ v % 256 \in 0..255
    OBVIOUS
  <2> QED
    BY <2>1
<1>3. PICK s \in 0..15, t \in 0..15 : b = 16 * s + t /\ b \div 16 = s /\ b % 16 = t
  <2>1. b = 16 * (b \div 16) + (b % 16) /\ b \div 16 \in 0..15 /\ b % 16 \in 0..15
    OBVIOUS
  <2> QED
    BY <2>1
<1>4. q % 256 = q /\ r % 16 = r
  BY ONLY q \in 0..255, r \in 0..15
<1>5. (t + (m * 16)) % 16 = t /\ (t + (m * 16)) \div 16 = m
  BY ONLY t \in 0..15, m \in 0..15
<1>6. (16 * s + r) % 16 = r /\ (16 * s + r) \div 16 = s
  BY ONLY s \in 0..15, r \in 0..15
<1>7. b - t = 16 * s
  BY ONLY <1>3, s \in 0..15, t \in 0..15
<1>8. n + 256 * r = v /\ m + 16 * q = v
  BY ONLY <1>1, <1>2, q \in 0..255, r \in 0..15, m \in 0..15, n \in 0..255
<1> QED
  BY ONLY <1>1, <1>2, <1>3, <1>4, <1>5, <1>6, <1>7, <1>8

\* What fat_set does to the pairs of a 12 bit table.
LEMMA FatSetPair ==
  ASSUME NEW f, NEW index, NEW value, Store(f, 12, index, value), value <= 4095, NEW l \in Nat
  PROVE  LET g == FatSet(f, 12, index, value) IN
         /\ Even(g, l) = IF index = 2 * l THEN value ELSE Even(f, l)
         /\ Odd(g, l) = IF index = 2 * l + 1 THEN value ELSE Odd(f, l)
<1>0. value \in Nat /\ index \in Nat /\ IsTable(f)
  BY DEF Store, IsWord
<1> DEFINE g == FatSet(f, 12, index, value)
           p == EntryAt(12, index)
<1>1. PICK j \in Nat : index = 2 * j \/ index = 2 * j + 1
  <2>1. index \div 2 \in Nat /\ (index = 2 * (index \div 2) \/ index = 2 * (index \div 2) + 1)
    BY <1>0
  <2> QED
    BY <2>1
<1>2. CASE index = 2 * j
  <2>1. index % 2 = 0 /\ p = 3 * j
    BY <1>2 DEF EntryAt
  <2> DEFINE b == Byte(f, 3 * j + 1)
             B == (b - (b % 16)) + ((value \div 256) % 16)
  <2>2. \A o : Byte(g, o) = IF o = 3 * j + 1 THEN B
                            ELSE IF o = 3 * j THEN value % 256 ELSE Byte(f, o)
    BY <1>0, <2>1, FatSetBytes
  <2>3. b \in Nat /\ b <= 255
    BY <1>0, ByteType
  <2> HIDE DEF g, b
  <2>4. B % 16 = value \div 256 /\ B \div 16 = b \div 16
        /\ (value % 256) + 256 * (value \div 256) = value
    BY <1>0, <2>3, NibbleParts
  <2> HIDE DEF B
  <2>5. CASE l = j
    <3>1. Byte(g, 3 * l) = value % 256 /\ Byte(g, 3 * l + 1) = B
          /\ Byte(g, 3 * l + 2) = Byte(f, 3 * l + 2)
      BY <2>2, <2>5
    <3>2. Even(g, l) = value
      BY <3>1, <2>4 DEF Even
    <3>3. Odd(g, l) = Odd(f, l)
      BY <3>1, <2>4, <2>5 DEF Odd, b
    <3>4. index = 2 * l /\ index # 2 * l + 1
      BY <1>2, <2>5
    <3> QED
      BY <3>2, <3>3, <3>4 DEF g
  <2>6. CASE l # j
    <3>1. Byte(g, 3 * l) = Byte(f, 3 * l) /\ Byte(g, 3 * l + 1) = Byte(f, 3 * l + 1)
          /\ Byte(g, 3 * l + 2) = Byte(f, 3 * l + 2)
      BY <2>2, <2>6
    <3>2. Even(g, l) = Even(f, l) /\ Odd(g, l) = Odd(f, l)
      BY <3>1 DEF Even, Odd
    <3>3. index # 2 * l /\ index # 2 * l + 1
      BY <1>2, <2>6
    <3> QED
      BY <3>2, <3>3 DEF g
  <2> QED
    BY <2>5, <2>6
<1>3. CASE index = 2 * j + 1
  <2>1. index % 2 = 1 /\ p = 3 * j + 1
    BY <1>3 DEF EntryAt
  <2> DEFINE b == Byte(f, 3 * j + 1)
             A == (b % 16) + ((value % 16) * 16)
  <2>2. \A o : Byte(g, o) = IF o = 3 * j + 2 THEN (value \div 16) % 256
                            ELSE IF o = 3 * j + 1 THEN A ELSE Byte(f, o)
    <3>1. (3 * j + 1) + 1 = 3 * j + 2
      OBVIOUS
    <3> QED
      BY <1>0, <2>1, <3>1, FatSetBytes
  <2>3. b \in Nat /\ b <= 255
    BY <1>0, ByteType
  <2> HIDE DEF g, b
  <2>4. A % 16 = b % 16 /\ A \div 16 = value % 16 /\ (value \div 16) % 256 = value \div 16
        /\ (value % 16) + 16 * (value \div 16) = value
    BY <1>0, <2>3, NibbleParts
  <2> HIDE DEF A
  <2>5. CASE l = j
    <3>1. Byte(g, 3 * l) = Byte(f, 3 * l) /\ Byte(g, 3 * l + 1) = A
          /\ Byte(g, 3 * l + 2) = value \div 16
      BY <2>2, <2>4, <2>5
    <3>2. Odd(g, l) = value
      BY <3>1, <2>4 DEF Odd
    <3>3. Even(g, l) = Even(f, l)
      BY <3>1, <2>4, <2>5 DEF Even, b
    <3>4. index # 2 * l /\ index = 2 * l + 1
      BY <1>3, <2>5
    <3> QED
      BY <3>2, <3>3, <3>4 DEF g
  <2>6. CASE l # j
    <3>1. Byte(g, 3 * l) = Byte(f, 3 * l) /\ Byte(g, 3 * l + 1) = Byte(f, 3 * l + 1)
          /\ Byte(g, 3 * l + 2) = Byte(f, 3 * l + 2)
      BY <2>2, <2>6
    <3>2. Even(g, l) = Even(f, l) /\ Odd(g, l) = Odd(f, l)
      BY <3>1 DEF Even, Odd
    <3>3. index # 2 * l /\ index # 2 * l + 1
      BY <1>3, <2>6
    <3> QED
      BY <3>2, <3>3 DEF g
  <2> QED
    BY <2>5, <2>6
<1> QED
  BY <1>1, <1>2, <1>3

---------------------------------------------------------------------------
(* Steps that leave the image alone. *)
LEMMA PlanKept ==
  ASSUME UNCHANGED plan
  PROVE  /\ PartLba' = PartLba /\ (Planned' <=> Planned) /\ (BpbSound' <=> BpbSound)
         /\ PlanLayout(total, 12)' = PlanLayout(total, 12)
<1>1. req' = req /\ total' = total /\ layout' = layout /\ bpb' = bpb
  BY DEF plan
<1>2. PartLba' = PartLba
  BY <1>1 DEF PartLba
<1>3. \A s, f : DataSectors(s, f)' = DataSectors(s, f)
  BY <1>2 DEF DataSectors
<1>4. PlanLayout(total, 12)' = PlanLayout(total, 12)
  BY <1>1, <1>2 DEF PlanLayout, FatSize, DataSectors
<1>5. Planned' <=> Planned
  BY <1>1, <1>2 DEF Planned, FatSize, DataSectors
<1>6. BpbSound' <=> BpbSound
  BY <1>1, <1>2 DEF BpbSound, Bpb
<1> QED
  BY <1>2, <1>4, <1>5, <1>6

LEMMA TableKept ==
  ASSUME UNCHANGED plan, UNCHANGED table
  PROVE  /\ (FilesPlaced' <=> FilesPlaced) /\ (IsTable(fat)' <=> IsTable(fat))
         /\ (InTable(fat)' <=> InTable(fat))
  BY DEF plan, table, FilesPlaced, Kernel, IsTable, InTable

LEMMA LaterPc ==
  ASSUME pc \in Later
  PROVE  /\ pc \notin Unplanned /\ pc \notin Unplanned \cup {"sector"}
         /\ pc # "refused" /\ pc # "crashed"
  BY DEF Later, Unplanned

\* Once the image is built it stays as it is.
LEMMA Settled ==
  ASSUME TypeOK, LayoutInv, pc \in Later, pc' \in Later,
         UNCHANGED plan, UNCHANGED table, passed' \in BOOLEAN
  PROVE  TypeOK' /\ LayoutInv'
<1>1. Planned' /\ BpbSound'
  <2>1. Planned /\ BpbSound
    BY LaterPc DEF LayoutInv
  <2> QED
    BY <2>1, PlanKept
<1>2. pc' \notin Unplanned \cup {"sector"} /\ pc' # "refused" /\ pc' # "crashed"
  BY DEF Later, Unplanned
<1>3. LayoutInv'
  BY <1>1, <1>2 DEF LayoutInv
<1>4. FilesPlaced' /\ IsTable(fat)' /\ InTable(fat)'
  BY TableKept, LaterPc DEF TypeOK
<1>5. req' \in Requests /\ total' \in Int /\ nxt' \in Nat /\ left' \in Nat
  BY DEF TypeOK, plan, table
<1> QED
  BY <1>3, <1>4, <1>5 DEF TypeOK

\* Before the kernel runs nothing is scanned.
LEMMA Quiet ==
  ASSUME ScanInv, BufInv, FoundInv, pc \notin Scans, pc' \notin Scans, UNCHANGED scanVars
  PROVE  ScanInv' /\ BufInv' /\ FoundInv'
<1>1. /\ drive' = drive /\ at' = at /\ idx' = idx /\ done' = done /\ buf' = buf
      /\ high' = high /\ rep' = rep
  BY DEF scanVars
<1>2. /\ pc' # "scan" /\ pc' # "table" /\ pc' # "idle"
      /\ pc # "scan" /\ pc # "table" /\ pc # "idle"
  BY DEF Scans
<1>3. drive = 0 /\ at = 1 /\ idx = 0 /\ buf = 0 /\ done = 0 /\ ~rep.present
  BY <1>2 DEF ScanInv
<1>4. ScanInv'
  BY <1>1, <1>2, <1>3 DEF ScanInv
<1>5. BufInv'
  BY <1>1, <1>3 DEF BufInv
<1>6. FoundInv'
  BY <1>2 DEF FoundInv
<1> QED
  BY <1>4, <1>5, <1>6
---------------------------------------------------------------------------
(* The initial states. *)
LEMMA LifeStarts ==
  ASSUME LifeInit
  PROVE  LifeInv
<1> USE DEF LifeInit, Init, ScanInit
<1>1. pc \in {"pick", "plan"}
  BY DEF Init
<1>2. TypeOK
  <2>1. req \in Requests /\ req.sectors \in Int /\ PartLba \in Nat
    BY RequestType
  <2>2. total \in Int
    BY <2>1 DEF RESERVED
  <2>3. IsTable(fat) /\ InTable(fat)
    BY DEF IsTable, InTable
  <2>4. clusterOf = << >> /\ nxt = 2 /\ left = 0 /\ passed = FALSE
    OBVIOUS
  <2> QED
    BY ONLY <2>1, <2>2, <2>3, <2>4 DEF TypeOK, FilesPlaced
<1>3. LayoutInv
  BY <1>1 DEF LayoutInv, Unplanned, Later
<1>4. ScanInv
  <2>1. /\ pc \notin Scans /\ pc \notin {"scan", "table"} /\ pc # "idle" /\ pc # "table"
    BY <1>1 DEF Scans
  <2>2. /\ at \in 1..3 /\ idx \in 0..(FAT_SCAN_LBAS - 1) /\ done \in Nat /\ buf \in Nat
        /\ drive \in 0..1 /\ high \in [0..1 -> Nat]
    BY DEF FAT_SCAN_LBAS
  <2>3. rep.present = FALSE
    BY DEF Absent
  <2> QED
    BY <2>1, <2>2, <2>3, Zenon DEF ScanInv
<1>5. BufInv
  BY DEF BufInv
<1>6. FoundInv
  BY <1>1 DEF FoundInv
<1> QED
  BY <1>2, <1>3, <1>4, <1>5, <1>6 DEF LifeInv

---------------------------------------------------------------------------
(* The build. *)
LEMMA PlanResult ==
  ASSUME NEW size, NEW bits, PlanLayout(size, bits) # None
  PROVE  /\ PlanLayout(size, bits).bits = bits
         /\ PlanLayout(size, bits).fatSize = FatSize(size, bits)
         /\ PlanLayout(size, bits).clusters = DataSectors(size, FatSize(size, bits))
         /\ ~(PlanLayout(size, bits).clusters < 4085)
  BY DEF PlanLayout

LEMMA SectorsKept ==
  ASSUME req' = req
  PROVE  \A s, f : DataSectors(s, f)' = DataSectors(s, f)
  BY DEF DataSectors, PartLba

\* A layout that was just chosen is one that plan_layout returned.
LEMMA JustPlanned ==
  ASSUME req \in Requests, total \in Int, req' = req, total' = total,
         NEW bits, bits \in {12, 16},
         PlanLayout(total, bits) # None, layout' = PlanLayout(total, bits)
  PROVE  Planned'
<1>1. /\ layout'.bits = bits /\ layout'.fatSize = FatSize(total, bits)
      /\ layout'.clusters = DataSectors(total, FatSize(total, bits))
      /\ ~(layout'.clusters < 4085)
  BY PlanResult
<1>2. DataSectors(total, 1) + 2 \in Int
  BY RequestType DEF DataSectors, RESERVED, ROOT_SECTORS
<1>3. FatSize(total, bits) \in Nat
  BY <1>2, TableSize DEF FatSize
<1>4. DataSectors(total, FatSize(total, bits)) \in Int
  BY <1>3, RequestType DEF DataSectors, RESERVED, ROOT_SECTORS
<1>5. layout'.clusters >= 4085
  BY ONLY <1>1, <1>4
<1>6. FatSize(total, layout.bits)' = FatSize(total, bits)
  BY <1>1 DEF FatSize, DataSectors, PartLba
<1>7. DataSectors(total, layout.fatSize)' = DataSectors(total, FatSize(total, bits))
  BY <1>1 DEF DataSectors, PartLba
<1> QED
  BY <1>1, <1>5, <1>6, <1>7 DEF Planned

\* An empty table and no files.
LEMMA NothingYet ==
  ASSUME TypeOK, fat = << >>, clusterOf = << >>, UNCHANGED table, req' = req,
         total' \in Int, passed' = passed
  PROVE  TypeOK' /\ fat' = << >> /\ clusterOf' = << >>
<1>1. fat' = << >> /\ clusterOf' = << >> /\ nxt' = nxt /\ left' = left
  BY DEF table
<1>2. IsTable(fat)' /\ InTable(fat)'
  BY <1>1 DEF IsTable, InTable
<1>3. FilesPlaced'
  BY <1>1 DEF FilesPlaced, TypeOK
<1> QED
  BY <1>1, <1>2, <1>3 DEF TypeOK

LEMMA StepPlan ==
  ASSUME TypeOK, LayoutInv, Plan
  PROVE  TypeOK' /\ LayoutInv' /\ pc \notin Scans /\ pc' \notin Scans
<1> USE DEF Plan
<1>1. pc = "plan" /\ pc' \in {"refused", "sector"} /\ UNCHANGED table /\ req' = req
      /\ total' = total /\ UNCHANGED check
  BY DEF table, check
<1>2. fat = << >> /\ clusterOf = << >> /\ passed' = passed
  BY <1>1 DEF LayoutInv, Unplanned, check
<1>3. TypeOK' /\ fat' = << >> /\ clusterOf' = << >>
  BY <1>1, <1>2, NothingYet DEF TypeOK
<1>4. pc \notin Scans /\ pc' \notin Scans
  BY <1>1 DEF Scans
<1>5. CASE PlanLayout(total, 16) # None
  <2>1. pc' = "sector"
    BY <1>5
  <2>2. Planned'
    BY <1>1, <1>5, JustPlanned DEF TypeOK
  <2> QED
    BY <1>3, <1>4, <2>1, <2>2 DEF LayoutInv, Unplanned, Later
<1>6. CASE PlanLayout(total, 16) = None /\ PlanLayout(total, 12) # None
  <2>1. pc' = "sector"
    BY <1>6
  <2>2. Planned'
    BY <1>1, <1>6, JustPlanned DEF TypeOK
  <2> QED
    BY <1>3, <1>4, <2>1, <2>2 DEF LayoutInv, Unplanned, Later
<1>7. CASE PlanLayout(total, 16) = None /\ PlanLayout(total, 12) = None
  <2>1. pc' = "refused"
    BY <1>7
  <2>2. PlanLayout(total, 12)' = None
    BY <1>1, <1>7 DEF PlanLayout, FatSize, DataSectors, PartLba
  <2> QED
    BY <1>3, <1>4, <2>1, <2>2 DEF LayoutInv, Unplanned, Later, None
<1> QED
  BY <1>5, <1>6, <1>7

LEMMA StepPick ==
  ASSUME TypeOK, LayoutInv, Pick
  PROVE  TypeOK' /\ LayoutInv' /\ pc \notin Scans /\ pc' \notin Scans
<1> USE DEF Pick
<1>1. pc = "pick" /\ UNCHANGED table /\ req' = req /\ passed' = passed
  BY DEF table, check
<1>2. fat = << >> /\ clusterOf = << >>
  BY <1>1 DEF LayoutInv, Unplanned
<1>3. CASE PlanLayout(total, 16) # None
  <2>1. pc' = "sector" /\ total' = total
    BY <1>3
  <2>2. TypeOK' /\ fat' = << >> /\ clusterOf' = << >>
    BY <1>1, <1>2, <2>1, NothingYet DEF TypeOK
  <2>3. Planned'
    BY <1>1, <1>3, <2>1, JustPlanned DEF TypeOK
  <2> QED
    BY <1>1, <2>1, <2>2, <2>3 DEF LayoutInv, Unplanned, Later, Scans
<1>4. CASE PlanLayout(total, 16) = None
  <2>1. pc' = "pick" /\ total' = total + 256
    BY <1>1, <1>4
  <2>2. total' \in Int
    BY <2>1 DEF TypeOK
  <2>3. TypeOK' /\ fat' = << >> /\ clusterOf' = << >>
    BY <1>1, <1>2, <2>2, NothingYet
  <2> QED
    BY <1>1, <2>1, <2>3 DEF LayoutInv, Unplanned, Later, Scans
<1> QED
  BY <1>3, <1>4

LEMMA StepBootSector ==
  ASSUME TypeOK, LayoutInv, BootSector
  PROVE  TypeOK' /\ LayoutInv' /\ pc \notin Scans /\ pc' \notin Scans
<1> USE DEF BootSector
<1>1. pc = "sector" /\ pc' \in {"crashed", "files"} /\ UNCHANGED table /\ req' = req
      /\ total' = total /\ layout' = layout /\ passed' = passed /\ bpb' = Bpb
  BY DEF table, check
<1>2. fat = << >> /\ clusterOf = << >> /\ Planned
  BY <1>1 DEF LayoutInv, Unplanned
<1>3. TypeOK' /\ fat' = << >> /\ clusterOf' = << >>
  BY <1>1, <1>2, NothingYet DEF TypeOK
<1>4. Planned'
  BY <1>1, <1>2 DEF Planned, FatSize, DataSectors, PartLba
<1>5. bpb' = Bpb'
  BY <1>1 DEF Bpb, PartLba
<1>6. total \in Int /\ total - PART_LBA \in Int
  BY DEF TypeOK, PART_LBA
<1>7. IF pc' = "crashed" THEN total - PART_LBA > 65535 ELSE total - PART_LBA <= 65535
  BY <1>1, <1>6
<1>8. (total - PART_LBA)' = total - PART_LBA
  BY <1>1 DEF PART_LBA
<1> HIDE DEF BootSector
<1>9. LayoutInv'
  BY <1>1, <1>3, <1>4, <1>5, <1>7, <1>8 DEF LayoutInv, Unplanned, Later, BpbSound
<1> QED
  BY <1>1, <1>3, <1>9 DEF Scans

LEMMA FilesPc ==
  ASSUME LayoutInv, pc = "files", UNCHANGED plan, pc' \in {"files", "crashed", "built"},
         pc' = "crashed" => layout.bits = 12 /\ req.kernel > 1021
  PROVE  LayoutInv' /\ Planned /\ pc \notin Scans /\ pc' \notin Scans
<1>1. Planned /\ BpbSound
  BY DEF LayoutInv, Unplanned
<1>2. Planned' /\ BpbSound'
  BY <1>1, PlanKept
<1>3. pc' = "crashed" => layout'.bits = 12 /\ req'.kernel > 1021
  BY DEF plan
<1>4. LayoutInv'
  BY <1>2, <1>3 DEF LayoutInv, Unplanned, Later
<1> QED
  BY <1>1, <1>4 DEF Scans

LEMMA AppendToOne ==
  ASSUME NEW S, NEW a \in S, NEW b \in S
  PROVE  Append(<<a>>, b) = <<a, b>>
<1>1. <<a>> \in Seq(S) /\ Len(<<a>>) = 1 /\ <<a>>[1] = a
  OBVIOUS
<1>2. /\ Append(<<a>>, b) \in Seq(S) /\ Len(Append(<<a>>, b)) = 2
      /\ Append(<<a>>, b)[1] = a /\ Append(<<a>>, b)[2] = b
  BY <1>1
<1>3. <<a, b>> \in Seq(S) /\ Len(<<a, b>>) = 2 /\ <<a, b>>[1] = a /\ <<a, b>>[2] = b
  OBVIOUS
<1>4. \A s, t \in Seq(S) : Len(s) = 2 /\ Len(t) = 2 /\ s[1] = t[1] /\ s[2] = t[2] => s = t
  OBVIOUS
<1> QED
  BY ONLY <1>2, <1>3, <1>4

LEMMA StepAddFile ==
  ASSUME TypeOK, LayoutInv, AddFile
  PROVE  TypeOK' /\ LayoutInv' /\ pc \notin Scans /\ pc' \notin Scans
<1> DEFINE count == SectorsOf(Files[Len(clusterOf) + 1])
<1>1. /\ pc = "files" /\ pc' = "files" /\ left = 0 /\ Len(clusterOf) < 2
      /\ clusterOf' = Append(clusterOf, <<IF count = 0 THEN 0 ELSE nxt, count>>)
      /\ left' = count /\ nxt' = nxt /\ fat' = fat /\ UNCHANGED plan /\ passed' = passed
  BY DEF AddFile, check, Files
<1>2. LayoutInv' /\ pc \notin Scans /\ pc' \notin Scans
  BY <1>1, FilesPc
<1>3. req.kernel \in Nat /\ req' = req /\ total' = total /\ layout' = layout
  BY <1>1, RequestType DEF TypeOK, plan
<1>4. FilesPlaced' /\ left' \in Nat
  <2>1. CASE clusterOf = << >> /\ nxt = 2
    <3>1. count = 1
      BY <2>1 DEF SectorsOf, Files
    <3>2. clusterOf' = << <<2, 1>> >>
      BY <1>1, <2>1, <3>1
    <3> QED
      BY <1>1, <2>1, <3>1, <3>2 DEF FilesPlaced, Readme
  <2>2. CASE clusterOf = <<Readme>> /\ nxt + left = 3
    <3>1. count = req.kernel
      BY <2>2 DEF SectorsOf, Files
    <3>2. nxt = 3
      BY <1>1, <2>2 DEF TypeOK
    <3>3. clusterOf' = <<Readme, Kernel>>
      <4>1. <<IF count = 0 THEN 0 ELSE nxt, count>> = Kernel
        BY <3>1, <3>2 DEF Kernel
      <4>2. clusterOf' = Append(<<Readme>>, Kernel)
        BY <1>1, <2>2, <4>1
      <4>3. Readme \in Nat \X Nat /\ Kernel \in Nat \X Nat
        BY <1>3 DEF Readme, Kernel
      <4> HIDE DEF Readme, Kernel
      <4> QED
        BY ONLY <4>2, <4>3, AppendToOne
    <3>4. Kernel' = Kernel /\ Readme' = Readme
      BY <1>3 DEF Kernel, Readme
    <3>5. nxt' + left' = 3 + req'.kernel
      BY <1>1, <1>3, <3>1, <3>2
    <3> QED
      BY <1>1, <1>3, <3>1, <3>3, <3>4, <3>5 DEF FilesPlaced
  <2>3. CASE clusterOf = <<Readme, Kernel>>
    BY <1>1, <2>3
  <2> QED
    BY <2>1, <2>2, <2>3 DEF TypeOK, FilesPlaced
<1>5. IsTable(fat)' /\ InTable(fat)'
  BY <1>1, <1>3 DEF TypeOK, IsTable, InTable
<1> QED
  BY <1>1, <1>2, <1>3, <1>4, <1>5 DEF TypeOK

\* The entry of a cluster that is in use lies inside the table, except on
\* FAT12 with a large kernel.
LEMMA EntryInTable ==
  ASSUME req \in Requests, total \in Int, Planned, NEW k \in Nat, k <= 2 + req.kernel,
         layout.bits = 12 => req.kernel <= 1021
  PROVE  /\ EntryAt(layout.bits, k) < layout.fatSize * SECTOR
         /\ EntryAt(layout.bits, k) + 1 < layout.fatSize * SECTOR
<1>1. /\ layout.fatSize \in Nat /\ layout.fatSize >= 3 /\ layout.clusters \in Int
      /\ layout.clusters >= 4085
      /\ layout.bits = 16 => 2 * (layout.clusters + 2) <= layout.fatSize * 512
  BY PlannedFacts DEF Planned
<1>2. req.kernel \in Nat /\ req.kernel <= 1024
  BY RequestType
<1>3. CASE layout.bits = 16
  <2>1. EntryAt(layout.bits, k) = 2 * k
    BY <1>3 DEF EntryAt
  <2>2. 2 * k + 1 < layout.fatSize * 512
    BY ONLY <1>1, <1>2, <1>3, k \in Nat, k <= 2 + req.kernel
  <2> QED
    BY <1>1, <2>1, <2>2 DEF SECTOR
<1>4. CASE layout.bits = 12
  <2>1. EntryAt(layout.bits, k) = (k * 3) \div 2
    BY <1>4 DEF EntryAt
  <2>2. k <= 1023
    BY ONLY <1>2, <1>4, k \in Nat, k <= 2 + req.kernel, layout.bits = 12 => req.kernel <= 1021
  <2>3. (k * 3) \div 2 \in Nat /\ (k * 3) \div 2 <= 1534
    BY ONLY <2>2, k \in Nat
  <2>4. layout.fatSize * 512 >= 1536
    BY ONLY <1>1
  <2>5. layout.fatSize * 512 \in Nat
    BY ONLY <1>1
  <2> HIDE DEF EntryAt
  <2> QED
    BY <2>1, <2>3, <2>4, <2>5 DEF SECTOR
<1> QED
  BY <1>3, <1>4 DEF Planned

LEMMA StepChain ==
  ASSUME TypeOK, LayoutInv, Chain
  PROVE  TypeOK' /\ LayoutInv' /\ pc \notin Scans /\ pc' \notin Scans
<1> DEFINE value == IF left = 1 THEN Eof(layout.bits) ELSE nxt + 1
           p == EntryAt(layout.bits, nxt)
<1>1. /\ pc = "files" /\ left > 0
      /\ fat' = FatSet(fat, layout.bits, nxt, value)
      /\ pc' = IF InTable(fat') THEN "files" ELSE "crashed"
      /\ nxt' = nxt + 1 /\ left' = left - 1 /\ clusterOf' = clusterOf
      /\ UNCHANGED plan /\ passed' = passed
  BY DEF Chain, check
<1>2. /\ req \in Requests /\ total \in Int /\ nxt \in Nat /\ left \in Nat
      /\ IsTable(fat) /\ InTable(fat) /\ FilesPlaced
  BY <1>1 DEF TypeOK
<1>3. Planned
  BY <1>1 DEF LayoutInv, Unplanned
<1>4. nxt + left <= 3 + req.kernel /\ clusterOf # << >>
  <2>1. req.kernel \in Nat
    BY <1>2, RequestType
  <2>2. clusterOf = << >> => left = 0
    BY <1>2 DEF FilesPlaced, Readme
  <2>3. nxt + left = 3 \/ nxt + left = 3 + req.kernel
    BY <1>1, <1>2, <2>2 DEF FilesPlaced
  <2> QED
    BY ONLY <1>1, <1>2, <2>1, <2>2, <2>3
<1>5. IsWord(value)
  BY <1>1, <1>2, <1>4, RequestType, SMTT(30) DEF Eof, IsWord
<1> HIDE DEF value
<1>6. p \in Nat /\ IsTable(fat') /\ DOMAIN fat' = DOMAIN fat \cup {p, p + 1}
  <2>1. Store(fat, layout.bits, nxt, value)
    BY <1>2, <1>3, <1>5 DEF Planned, Store
  <2>2. p \in Nat /\ IsTable(fat') /\ Stored(fat, fat', p)
    BY ONLY <1>1, <2>1, FatSetTable, Zenon DEF p
  <2> QED
    BY <2>2 DEF Stored
<1>7. ~InTable(fat') => layout.bits = 12 /\ req.kernel > 1021
  <2> SUFFICES ASSUME ~(layout.bits = 12 /\ req.kernel > 1021)
               PROVE  InTable(fat')
    OBVIOUS
  <2>1. nxt <= 2 + req.kernel /\ (layout.bits = 12 => req.kernel <= 1021)
    <3>1. /\ left > 0 /\ left \in Nat /\ nxt \in Nat /\ req.kernel \in Nat
          /\ nxt + left <= 3 + req.kernel
      BY <1>1, <1>2, <1>4, RequestType
    <3>2. nxt <= 2 + req.kernel
      BY ONLY <3>1
    <3>3. layout.bits = 12 => req.kernel <= 1021
      BY ONLY <3>1, ~(layout.bits = 12 /\ req.kernel > 1021)
    <3> QED
      BY ONLY <3>2, <3>3
  <2>2. p < layout.fatSize * SECTOR /\ p + 1 < layout.fatSize * SECTOR
    BY <1>2, <1>3, <2>1, EntryInTable
  <2> HIDE DEF p
  <2> QED
    BY <1>2, <1>6, <2>2 DEF InTable
<1>8. LayoutInv' /\ pc \notin Scans /\ pc' \notin Scans
  BY <1>1, <1>7, FilesPc
<1>9. req' = req /\ total' = total /\ layout' = layout
  BY <1>1 DEF plan
<1>10. nxt' \in Nat /\ left' \in Nat /\ nxt' + left' = nxt + left
  BY <1>1, <1>2
<1>11. FilesPlaced'
  BY <1>1, <1>2, <1>4, <1>9, <1>10 DEF FilesPlaced, Readme, Kernel
<1>12. IsTable(fat)' /\ (pc' # "crashed" => InTable(fat)')
  BY <1>1, <1>6, <1>9 DEF IsTable, InTable
<1> QED
  BY <1>1, <1>2, <1>8, <1>9, <1>10, <1>11, <1>12 DEF TypeOK

LEMMA StepCloseFat ==
  ASSUME TypeOK, LayoutInv, CloseFat
  PROVE  TypeOK' /\ LayoutInv' /\ pc \notin Scans /\ pc' \notin Scans
<1> DEFINE v == IF layout.bits = 16 THEN 65535 ELSE 248
           w == Eof(layout.bits)
           f == FatSet(fat, layout.bits, 0, v)
<1>1. /\ pc = "files" /\ left = 0 /\ fat' = FatSet(f, layout.bits, 1, w)
      /\ pc' = "built" /\ nxt' = nxt /\ left' = left /\ clusterOf' = clusterOf
      /\ UNCHANGED plan /\ passed' = passed
  BY DEF CloseFat, check
<1>2. /\ req \in Requests /\ total \in Int /\ nxt \in Nat /\ left \in Nat
      /\ IsTable(fat) /\ InTable(fat) /\ FilesPlaced
  BY <1>1 DEF TypeOK
<1>3. Planned
  BY <1>1 DEF LayoutInv, Unplanned
<1>4. IsWord(v) /\ IsWord(w)
  BY DEF Eof, IsWord
<1> HIDE DEF v, w
<1>5. EntryAt(layout.bits, 0) = 0 /\ EntryAt(layout.bits, 1) \in {1, 2}
  BY DEF EntryAt
<1>6. IsTable(f) /\ DOMAIN f = DOMAIN fat \cup {0, 1}
  <2>1. Store(fat, layout.bits, 0, v)
    BY <1>2, <1>3, <1>4 DEF Planned, Store
  <2>2. IsTable(f) /\ Stored(fat, f, EntryAt(layout.bits, 0))
    BY ONLY <2>1, FatSetTable, Zenon DEF f
  <2> QED
    BY <2>2, <1>5 DEF Stored
<1> HIDE DEF f
<1>7. /\ IsTable(fat')
      /\ DOMAIN fat' = DOMAIN f \cup {EntryAt(layout.bits, 1), EntryAt(layout.bits, 1) + 1}
  <2>1. Store(f, layout.bits, 1, w)
    BY <1>3, <1>4, <1>6 DEF Planned, Store
  <2>2. IsTable(fat') /\ Stored(f, fat', EntryAt(layout.bits, 1))
    BY ONLY <2>1, <1>1, FatSetTable, Zenon
  <2> QED
    BY <2>2 DEF Stored
<1>8. InTable(fat')
  <2>1. layout.fatSize \in Nat /\ layout.fatSize >= 3
    BY <1>2, <1>3, PlannedFacts
  <2>2. DOMAIN fat' \subseteq DOMAIN fat \cup {0, 1, 2, 3}
    BY <1>5, <1>6, <1>7
  <2>3. \A o \in {0, 1, 2, 3} : o < layout.fatSize * SECTOR
    BY <2>1 DEF SECTOR
  <2> QED
    BY <1>2, <2>2, <2>3 DEF InTable
<1>9. LayoutInv' /\ pc \notin Scans /\ pc' \notin Scans
  BY <1>1, FilesPc
<1>10. req' = req /\ total' = total /\ layout' = layout
  BY <1>1 DEF plan
<1>11. FilesPlaced' /\ IsTable(fat)' /\ InTable(fat)'
  BY <1>1, <1>2, <1>7, <1>8, <1>10 DEF FilesPlaced, Readme, Kernel, IsTable, InTable
<1> QED
  BY <1>1, <1>2, <1>9, <1>10, <1>11 DEF TypeOK

---------------------------------------------------------------------------
(* The check and the iso. *)
LEMMA CheckSteps ==
  ASSUME StartCheck \/ Follow \/ EndOfFile
  PROVE  /\ UNCHANGED plan /\ UNCHANGED table
         /\ pc \in {"built", "walk"} /\ pc' \in {"walk", "checked"}
         /\ passed' = passed \/ passed' \in BOOLEAN
<1>1. CASE StartCheck
  BY <1>1 DEF StartCheck
<1>2. CASE Follow
  BY <1>2, Zenon DEF Follow
<1>3. CASE EndOfFile
  <2>1. UNCHANGED plan /\ UNCHANGED table /\ pc = "walk"
    BY <1>3 DEF EndOfFile
  <2>2. CASE walk.file < Len(Files)
    BY <1>3, <2>1, <2>2 DEF EndOfFile
  <2>3. CASE ~(walk.file < Len(Files))
    BY <1>3, <2>1, <2>3 DEF EndOfFile
  <2> QED
    BY <2>2, <2>3
<1> QED
  BY <1>1, <1>2, <1>3

LEMMA StepCheck ==
  ASSUME TypeOK, LayoutInv, StartCheck \/ Follow \/ EndOfFile
  PROVE  TypeOK' /\ LayoutInv' /\ pc \notin Scans /\ pc' \notin Scans
<1>1. UNCHANGED plan /\ UNCHANGED table /\ passed \in BOOLEAN
  BY CheckSteps DEF TypeOK
<1>2. pc \in {"built", "walk"} /\ pc' \in {"walk", "checked"} /\ passed' \in BOOLEAN
  BY <1>1, CheckSteps
<1>3. pc \in Later /\ pc' \in Later /\ pc \notin Scans /\ pc' \notin Scans
  BY <1>2 DEF Later, Scans
<1> QED
  BY <1>1, <1>2, <1>3, Settled

LEMMA StepIso ==
  ASSUME TypeOK, LayoutInv, IsoNext
  PROVE  TypeOK' /\ LayoutInv' /\ pc \notin Scans /\ pc' \notin Scans
<1>1. UNCHANGED plan /\ UNCHANGED table /\ passed' = passed
  BY DEF IsoNext, GiveFile, BuildIso, CheckIso, check
<1>2. /\ pc \in {"checked", "wrap", "wrapped"}
      /\ pc' \in {"wrap", "wrapped", "isoRefused", "isoChecked"}
  BY DEF IsoNext, GiveFile, BuildIso, CheckIso
<1>3. pc \in Later /\ pc' \in Later /\ pc \notin Scans /\ pc' \notin Scans
  BY <1>2 DEF Later, Scans
<1> QED
  BY <1>1, <1>3, Settled DEF TypeOK
---------------------------------------------------------------------------
(* The scan.  What it looks at does not change while it looks. *)
LEMMA ViewKept ==
  ASSUME UNCHANGED plan, UNCHANGED table
  PROVE  /\ \A d : Vol(d)' = Vol(d) /\ Spf(d)' = Spf(d)
         /\ PagesFor(Spf(0))' = PagesFor(Spf(0)) /\ PagesFor(Spf(1))' = PagesFor(Spf(1))
         /\ (FoundAgain' <=> FoundAgain) /\ \A x : FirstPart(x)' = FirstPart(x)
         /\ req' = req /\ PartLba' = PartLba
<1>1. /\ req' = req /\ total' = total /\ layout' = layout /\ bpb' = bpb /\ fat' = fat
      /\ nxt' = nxt
  BY DEF plan, table
<1>2. PartLba' = PartLba
  BY PlanKept
<1>3. \A d : Vol(d)' = Vol(d) /\ Spf(d)' = Spf(d)
  BY <1>1, <1>2 DEF Vol, Spf
<1>4. PagesFor(Spf(0))' = PagesFor(Spf(0)) /\ PagesFor(Spf(1))' = PagesFor(Spf(1))
  BY <1>3 DEF PagesFor
<1>5. \A x : FirstPart(x)' = FirstPart(x)
  BY <1>1 DEF FirstPart
<1>6. FoundAgain' <=> FoundAgain
  BY <1>1, <1>2, <1>5 DEF FoundAgain
<1> QED
  BY <1>1, <1>2, <1>3, <1>4, <1>5, <1>6

\* What stands in the way of finding the boot volume changes with nothing but
\* the memory there is for its table.
LEMMA WayKept ==
  ASSUME UNCHANGED plan, UNCHANGED table, NoRoom' <=> NoRoom
  PROVE  (Reachable' <=> Reachable) /\ (Lost' <=> Lost)
<1>1. /\ req' = req /\ PartLba' = PartLba /\ (FoundAgain' <=> FoundAgain)
      /\ \A x : FirstPart(x)' = FirstPart(x)
  BY ViewKept
<1>2. Lost' <=> Lost
  BY <1>1 DEF Lost
<1>3. Reachable' <=> Reachable
  BY <1>1 DEF Reachable
<1> QED
  BY <1>2, <1>3

LEMMA RoomKept ==
  ASSUME UNCHANGED plan, UNCHANGED table, room' = room, buf' = buf
  PROVE  (NoRoom' <=> NoRoom) /\ (Reachable' <=> Reachable) /\ (Lost' <=> Lost)
<1>1. TableOf(0)' = TableOf(0)
  BY ViewKept DEF TableOf
<1>2. NoRoom' <=> NoRoom
  BY <1>1 DEF NoRoom, PagesFor
<1> QED
  BY <1>2, WayKept

LEMMA HitKept ==
  ASSUME UNCHANGED plan, UNCHANGED table, drive' = drive, at' = at, idx' = idx
  PROVE  (Hit' <=> Hit) /\ First' = First /\ TableSectors' = TableSectors
<1>1. req' = req /\ Vol(drive)' = Vol(drive) /\ total' = total
  BY ViewKept DEF plan
<1>2. First' = First
  BY <1>1 DEF First
<1>3. TableSectors' = TableSectors
  BY <1>1 DEF TableSectors, TableOf
<1>4. ReadOk(drive, First + idx, 1)' <=> ReadOk(drive, First + idx, 1)
  BY <1>1, <1>2 DEF ReadOk
<1>5. Hit' <=> Hit
  BY <1>1, <1>2, <1>4 DEF Hit
<1> QED
  BY <1>2, <1>3, <1>5

\* The three starting points.
LEMMA Starts ==
  ASSUME req \in Requests, at \in 1..3
  PROVE  /\ First \in Nat
         /\ (at = 1 => First = PartLba) /\ (at = 2 => First = 63) /\ (at = 3 => First = 2048)
<1>1. req.blob \in Nat /\ PartLba = 24 + req.blob
  BY RequestType
<1> QED
  BY <1>1 DEF First, PART_LBA, STAGE2_SECTORS

\* The sizes on the boot drive.
LEMMA BootSizes ==
  ASSUME req \in Requests, total \in Int, Planned, BpbSound
  PROVE  /\ layout.fatSize \in Nat /\ layout.fatSize >= 3 /\ layout.fatSize <= 32768
         /\ total \in Nat /\ total <= 65551 /\ PartLba \in Nat /\ PartLba <= 272
         /\ PartLba + 4000 <= total
<1>1. /\ layout.fatSize \in Nat /\ layout.fatSize >= 3 /\ layout.clusters \in Int
      /\ layout.clusters = total - PartLba - 46 - 2 * layout.fatSize
  BY PlannedFacts
<1>2. layout.clusters >= 4085
  BY DEF Planned
<1>3. total <= 65551
  BY DEF BpbSound, PART_LBA
<1>4. PartLba \in Nat /\ PartLba <= 272
  BY RequestType
<1> QED
  BY ONLY <1>1, <1>2, <1>3, <1>4, total \in Int

\* On the boot drive the scan stops at the boot sector and nowhere else.
LEMMA BootHit ==
  ASSUME req \in Requests, total \in Int, Planned, BpbSound, drive = 0,
         at \in 1..3, idx \in Nat
  PROVE  Hit <=> First + idx = PartLba /\ req.bad # PartLba
<1>1. /\ layout.fatSize \in Nat /\ layout.fatSize >= 3 /\ layout.fatSize <= 32768
      /\ total \in Nat /\ PartLba \in Nat /\ PartLba + 4000 <= total
  BY BootSizes
<1> DEFINE v == Vol(0)
<1>2. /\ v.start = PartLba /\ v.size = total /\ v.bpb = Bpb
  BY DEF Vol, BpbSound
<1>3. /\ Bpb.spc = 1 /\ Bpb.reserved = 32 /\ Bpb.fats = 2 /\ Bpb.rootent = 224
      /\ Bpb.mbrSects = 0 /\ Bpb.spf = layout.fatSize
      /\ Bpb.bigSects = ((total - PartLba) % 65536) + 384 * 65536
  BY DEF Bpb, RESERVED
<1>4. Bpb.bigSects \in Nat /\ Bpb.bigSects >= 25165824 /\ Bpb.bigSects <= 25231360
  BY ONLY <1>1, <1>3
<1> HIDE DEF v
<1>5. Sane(Bpb)
  BY <1>1, <1>3, <1>4 DEF Sane
<1>6. Sects(Bpb) = Bpb.bigSects
  BY <1>3, <1>4, MinOfTwo DEF Sects
<1>7. DataStart(Bpb) = 46 + 2 * layout.fatSize
  BY <1>1, <1>3 DEF DataStart
<1>8. DataStart(Bpb) < Sects(Bpb)
  BY ONLY <1>1, <1>4, <1>6, <1>7
<1>9. Clusters(Bpb) >= 2
  <2>1. Sects(Bpb) - DataStart(Bpb) \in Nat /\ Sects(Bpb) - DataStart(Bpb) >= 2
    BY ONLY <1>1, <1>4, <1>6, <1>7
  <2>2. \A x \in Nat : x \div 1 = x
    BY ONLY TRUE
  <2> QED
    BY <1>3, <2>1, <2>2 DEF Clusters
<1>10. ReadOk(0, PartLba, 1) <=> req.bad # PartLba
  <2>1. PartLba + 1 <= DriveSectors(total) /\ PartLba + 1 <= total
    BY BootSizes DEF DriveSectors
  <2>2. 1 \in 1..ChunkMax
    BY DEF ChunkMax
  <2>3. req.bad \notin PartLba..(PartLba + 1 - 1) <=> req.bad # PartLba
    BY <1>1, RequestType
  <2> QED
    BY <1>2, <2>1, <2>2, <2>3 DEF ReadOk, v
<1>11. Hit <=> /\ ReadOk(0, First + idx, 1) /\ First + idx = PartLba
               /\ Sane(Bpb) /\ DataStart(Bpb) < Sects(Bpb) /\ Clusters(Bpb) >= 2
  BY <1>2 DEF Hit, v
<1> QED
  BY <1>5, <1>8, <1>9, <1>10, <1>11

\* Whether the first part of the table can be read from a starting point.
LEMMA BootPart ==
  ASSUME req \in Requests, total \in Int, Planned, BpbSound, drive = 0, done = 0,
         NEW x \in Nat, First = x, x = PartLba \/ x = 63
  PROVE  ReadOk(drive, TableLba, Part) <=> req.bad \notin FirstPart(x)
<1>1. /\ layout.fatSize \in Nat /\ layout.fatSize >= 3 /\ layout.fatSize <= 32768
      /\ total \in Nat /\ total <= 65551 /\ PartLba \in Nat /\ PartLba <= 272
      /\ PartLba + 4000 <= total
  BY BootSizes
<1> DEFINE c == Min({16, layout.fatSize})
<1>2. /\ Vol(0).size = total /\ Vol(0).bpb.reserved = 32 /\ Vol(0).bpb.spf = layout.fatSize
  BY DEF Vol, BpbSound, Bpb, RESERVED
<1>3. c = IF 16 <= layout.fatSize THEN 16 ELSE layout.fatSize
  BY <1>1, MinOfTwo
<1>4. TableSectors = IF layout.fatSize <= 512 THEN layout.fatSize ELSE 512
  BY <1>1, <1>2, MinOfTwo DEF TableSectors, TableOf
<1>5. TableSectors \in Nat /\ TableSectors - done = TableSectors
  BY ONLY <1>1, <1>4, done = 0
<1>6. Part = IF 16 <= TableSectors THEN 16 ELSE TableSectors
  BY <1>5, MinOfTwo DEF Part, ChunkMax
<1>7. Part = c
  BY ONLY <1>1, <1>3, <1>4, <1>6
<1>8. TableLba = x + 32
  BY <1>2 DEF TableLba
<1>9. c \in Nat /\ c >= 1 /\ c <= 16
  BY ONLY <1>1, <1>3
<1>10. FirstPart(x) = (x + 32)..(x + 32 + c - 1)
  BY DEF FirstPart, ChunkMax, RESERVED
<1> HIDE DEF c
<1>11. x + 32 + c <= total /\ x + 32 + c <= DriveSectors(total)
  BY <1>1, <1>9 DEF DriveSectors
<1>12. c \in 1..ChunkMax
  BY <1>9 DEF ChunkMax
<1> QED
  BY <1>2, <1>7, <1>8, <1>10, <1>11, <1>12 DEF ReadOk

\* A starting point is given up: the next one is tried, or the scan ends.
LEMMA LeaveStart ==
  ASSUME TypeOK, LayoutInv, ScanInv, BufInv, FoundInv, pc \in {"scan", "table"},
         NextStart, UNCHANGED plan, UNCHANGED table,
         UNCHANGED <<drive, room, buf, high, rep>>,
         drive = 0 /\ at = 1 => Lost, drive = 0 /\ at = 2 => ~Reachable
  PROVE  ScanInv' /\ BufInv' /\ FoundInv' /\ pc' \in {"scan", "idle"}
<1>1. /\ at \in 1..3 /\ drive \in 0..1 /\ high \in [0..1 -> Nat] /\ ~rep.present
      /\ rep.present \in BOOLEAN /\ buf \in Nat
  BY DEF ScanInv
<1>2. BufInv'
  BY ViewKept DEF BufInv
<1>3. CASE at = 3
  <2>1. at' = 1 /\ idx' = 0 /\ done' = 0 /\ pc' = "idle"
    BY <1>3 DEF NextStart, Return
  <2>2. ScanInv'
    BY <1>1, <2>1 DEF ScanInv, Scans, FAT_SCAN_LBAS
  <2>3. drive = 0 => ~Reachable
    BY <1>3 DEF FoundInv
  <2>4. FoundInv'
    BY <1>1, <2>1, <2>3, RoomKept DEF FoundInv
  <2> QED
    BY <1>2, <2>1, <2>2, <2>4
<1>4. CASE at # 3
  <2>1. at' = at + 1 /\ idx' = 0 /\ done' = 0 /\ pc' = "scan"
    BY <1>4 DEF NextStart
  <2>2. ScanInv'
    BY <1>1, <1>4, <2>1 DEF ScanInv, Scans, FAT_SCAN_LBAS
  <2>3. PartLba < 63 /\ Lost => ~Reachable
    <3>1. PartLba < 63 => ~FoundAgain
      BY DEF FoundAgain
    <3> QED
      BY <3>1 DEF Lost, Reachable
  <2>4. at' = 2 /\ drive = 0 => Lost /\ (idx' > PartLba - 63 => ~Reachable)
    <3>1. PartLba \in Nat
      BY RequestType DEF TypeOK
    <3>2. idx' > PartLba - 63 => PartLba < 63
      BY <2>1, <3>1
    <3> QED
      BY <1>1, <2>1, <2>3, <3>2
  <2>5. at' = 3 /\ drive = 0 => ~Reachable
    BY <1>1, <2>1
  <2>6. at' # 1 /\ ~(done' > 0)
    BY <1>1, <2>1
  <2>7. FoundInv'
    BY <2>1, <2>4, <2>5, <2>6, ViewKept, RoomKept DEF FoundInv
  <2> QED
    BY <1>2, <2>1, <2>2, <2>7
<1> QED
  BY <1>3, <1>4

\* What holds on every step of the scan.
LEMMA ScanFacts ==
  ASSUME TypeOK, LayoutInv, pc \in Later
  PROVE  req \in Requests /\ total \in Int /\ Planned /\ BpbSound /\ PartLba \in Nat
<1>1. Planned /\ BpbSound
  BY LaterPc DEF LayoutInv
<1> QED
  BY <1>1, RequestType DEF TypeOK

LEMMA TableIsSpf ==
  ASSUME TypeOK, Planned, BpbSound, drive \in 0..1
  PROVE  /\ TableOf(0) = Spf(0) /\ TableOf(1) = Spf(1) /\ TableSectors = Spf(drive)
         /\ Spf(0) \in Nat /\ Spf(1) \in Nat /\ (Hit => TableSectors >= 1)
<1>1. layout.fatSize \in Nat /\ layout.fatSize >= 3 /\ req.other.bpb.spf \in Nat
  BY BootSizes, RequestType DEF TypeOK
<1>2. Vol(0).bpb.spf = layout.fatSize /\ Vol(1).bpb.spf = req.other.bpb.spf
  BY DEF Vol, BpbSound, Bpb
<1>3. TableOf(0) = Spf(0) /\ TableOf(1) = Spf(1)
  BY <1>2 DEF TableOf, Spf
<1>4. TableSectors = Spf(drive)
  BY <1>3 DEF TableSectors
<1>5. /\ Spf(0) = IF layout.fatSize <= 512 THEN layout.fatSize ELSE 512
      /\ Spf(1) = IF req.other.bpb.spf <= 512 THEN req.other.bpb.spf ELSE 512
  BY <1>1, MinOfTwo DEF Spf
<1>6. Hit => Vol(drive).bpb.spf # 0
  BY DEF Hit, Sane
<1>7. Spf(0) \in Nat /\ Spf(1) \in Nat
  BY ONLY <1>1, <1>5
<1>8. Hit => TableSectors >= 1
  BY ONLY <1>1, <1>2, <1>4, <1>5, <1>6, drive \in 0..1
<1> QED
  BY <1>3, <1>4, <1>7, <1>8

LEMMA PagesType ==
  ASSUME NEW s \in Nat
  PROVE  /\ PagesFor(s) \in Nat /\ (s >= 1 => PagesFor(s) >= 1)
         /\ s * 512 <= PagesFor(s) * 4096
  BY DEF PagesFor, SECTOR

LEMMA StepBoot ==
  ASSUME LifeInv, Boot
  PROVE  ScanInv' /\ BufInv' /\ FoundInv' /\ pc \in Later /\ pc' \in Later
<1>1. /\ pc = "checked" /\ pc' = "scan" /\ UNCHANGED plan /\ UNCHANGED table
      /\ drive' = drive /\ at' = at /\ idx' = idx /\ done' = done /\ buf' = buf
      /\ high' = high /\ rep' = rep
  BY DEF Boot, scanVars
<1>2. drive = 0 /\ at = 1 /\ idx = 0 /\ buf = 0 /\ done = 0
  BY <1>1 DEF LifeInv, ScanInv, Scans
<1>3. ScanInv'
  BY <1>1, <1>2 DEF LifeInv, ScanInv, Scans
<1>4. BufInv'
  BY <1>1, <1>2 DEF LifeInv, BufInv
<1>5. FoundInv'
  BY <1>1, <1>2 DEF FoundInv
<1> QED
  BY <1>1, <1>3, <1>4, <1>5 DEF Later

\* A command begins a scan afresh, with the buffer of the last one.
LEMMA StepFreeDrive ==
  ASSUME LifeInv, NEW d \in 0..1, FreeDrive(d)
  PROVE  ScanInv' /\ BufInv' /\ FoundInv' /\ pc \in Later /\ pc' \in Later
<1>1. /\ pc = "idle" /\ pc' = "scan" /\ UNCHANGED plan /\ UNCHANGED table
      /\ drive' = d /\ at' = at /\ idx' = idx /\ done' = done /\ buf' = buf
      /\ high' = high /\ rep' = Absent
  BY DEF FreeDrive
<1>2. at = 1 /\ idx = 0 /\ done = 0 /\ rep'.present = FALSE
  BY <1>1 DEF LifeInv, ScanInv, Absent
<1>3. ScanInv'
  BY <1>1, <1>2 DEF LifeInv, ScanInv, Scans
<1>4. BufInv'
  BY <1>1, ViewKept DEF LifeInv, BufInv
<1>5. FoundInv'
  BY <1>1, <1>2 DEF FoundInv
<1> QED
  BY <1>1, <1>3, <1>4, <1>5 DEF Later

LEMMA StepScanMiss ==
  ASSUME LifeInv, ScanMiss
  PROVE  ScanInv' /\ BufInv' /\ FoundInv' /\ pc \in Later /\ pc' \in Later
<1> USE DEF LifeInv
<1>1. /\ pc = "scan" /\ ~Hit /\ UNCHANGED plan /\ UNCHANGED table
      /\ drive' = drive /\ room' = room /\ buf' = buf /\ high' = high /\ rep' = rep
  BY DEF ScanMiss
<1>2. pc \in Later
  BY <1>1 DEF Later
<1>3. req \in Requests /\ total \in Int /\ Planned /\ BpbSound /\ PartLba \in Nat
  BY <1>2, ScanFacts
<1>4. /\ at \in 1..3 /\ idx \in 0..95 /\ drive \in 0..1 /\ idx \in Nat /\ buf \in Nat
      /\ high \in [0..1 -> Nat] /\ ~rep.present /\ rep.present \in BOOLEAN /\ done = 0
  BY <1>1 DEF ScanInv, FAT_SCAN_LBAS
<1>5. /\ First \in Nat /\ (at = 1 => First = PartLba) /\ (at = 2 => First = 63)
  BY <1>3, <1>4, Starts
<1>6. drive = 0 /\ First + idx = PartLba => req.bad = PartLba
  BY <1>1, <1>3, <1>4, BootHit
<1>7. drive = 0 => /\ (at = 1 /\ idx > 0 => req.bad = PartLba)
                   /\ (at = 2 => Lost)
                   /\ (at = 2 /\ idx > PartLba - 63 => ~Reachable)
                   /\ (at = 3 => ~Reachable)
  BY <1>1 DEF FoundInv
<1>8. req.bad = PartLba => Lost /\ ~Reachable
  BY DEF Lost, Reachable
<1>9. CASE idx + 1 < FAT_SCAN_LBAS
  <2>1. idx' = idx + 1 /\ pc' = "scan" /\ at' = at /\ done' = done
    BY <1>1, <1>9 DEF ScanMiss
  <2>2. idx' \in 0..(FAT_SCAN_LBAS - 1) /\ idx + 1 < 96
    BY <1>4, <1>9, <2>1 DEF FAT_SCAN_LBAS
  <2>3. ScanInv'
    BY <1>1, <1>4, <2>1, <2>2 DEF ScanInv, Scans
  <2>4. BufInv'
    BY <1>1, <2>1, ViewKept DEF BufInv
  <2>5. drive = 0 /\ at = 1 => req.bad = PartLba
    BY <1>3, <1>4, <1>5, <1>6, <1>7
  <2>6. drive = 0 /\ at = 2 /\ idx + 1 > PartLba - 63 => ~Reachable
    BY <1>3, <1>4, <1>5, <1>6, <1>7, <1>8
  <2>7. ~(done' > 0)
    BY <1>4, <2>1
  <2>8. FoundInv'
    BY <1>1, <1>7, <2>1, <2>5, <2>6, <2>7, ViewKept, RoomKept DEF FoundInv
  <2> QED
    BY <1>2, <2>1, <2>3, <2>4, <2>8 DEF Later
<1>10. CASE ~(idx + 1 < FAT_SCAN_LBAS)
  <2>1. NextStart /\ idx = 95
    BY <1>1, <1>4, <1>10 DEF ScanMiss, FAT_SCAN_LBAS
  <2>2. drive = 0 /\ at = 1 => Lost
    BY <1>7, <1>8, <2>1
  <2>3. drive = 0 /\ at = 2 => ~Reachable
    <3> SUFFICES ASSUME drive = 0, at = 2, Reachable
                 PROVE  FALSE
      OBVIOUS
    <3>1. FoundAgain
      BY <1>7 DEF Lost, Reachable
    <3>2. PartLba >= 63 /\ PartLba <= 158
      BY <1>3, <3>1 DEF FoundAgain, FAT_SCAN_LBAS
    <3>3. ~(95 > PartLba - 63)
      BY <1>7, <2>1
    <3>4. First + idx = PartLba
      BY <1>3, <1>5, <2>1, <3>2, <3>3
    <3> QED
      BY <1>6, <1>8, <3>4
  <2>4. ScanInv' /\ BufInv' /\ FoundInv' /\ pc' \in {"scan", "idle"}
    BY <1>1, <2>1, <2>2, <2>3, LeaveStart
  <2> QED
    BY <1>2, <2>4 DEF Later
<1> QED
  BY <1>9, <1>10

LEMMA StepScanHit ==
  ASSUME LifeInv, ScanHit
  PROVE  ScanInv' /\ BufInv' /\ FoundInv' /\ pc \in Later /\ pc' \in Later
<1> USE DEF LifeInv
<1>1. /\ pc = "scan" /\ Hit /\ UNCHANGED plan /\ UNCHANGED table
      /\ drive' = drive /\ room' = room /\ high' = high /\ rep' = rep
  BY DEF ScanHit
<1>2. pc \in Later
  BY <1>1 DEF Later
<1>3. req \in Requests /\ total \in Int /\ Planned /\ BpbSound /\ PartLba \in Nat
  BY <1>2, ScanFacts
<1>4. /\ at \in 1..3 /\ idx \in 0..(FAT_SCAN_LBAS - 1) /\ drive \in 0..1 /\ buf \in Nat
      /\ high \in [0..1 -> Nat] /\ ~rep.present /\ rep.present \in BOOLEAN /\ done = 0
  BY <1>1 DEF ScanInv
<1>5. /\ TableSectors = Spf(drive) /\ Spf(0) \in Nat /\ Spf(1) \in Nat
      /\ TableSectors >= 1 /\ TableOf(0) = Spf(0)
  BY <1>1, <1>3, <1>4, TableIsSpf
<1>6. TableSectors \in Nat
  BY <1>4, <1>5
<1>7. PagesFor(TableSectors) \in Nat /\ PagesFor(TableSectors) >= 1
  BY <1>5, <1>6, PagesType
<1>8. drive = 0 => (NoRoom <=> buf = 0 /\ PagesFor(TableSectors) > room)
  BY <1>5 DEF NoRoom
<1>9. CASE buf = 0 /\ PagesFor(TableSectors) > room
  <2>1. NextStart /\ buf' = buf
    BY <1>9 DEF ScanHit
  <2>2. drive = 0 => Lost /\ ~Reachable
    BY <1>8, <1>9 DEF Lost, Reachable
  <2>3. ScanInv' /\ BufInv' /\ FoundInv' /\ pc' \in {"scan", "idle"}
    BY <1>1, <2>1, <2>2, LeaveStart
  <2> QED
    BY <1>2, <2>3 DEF Later
<1>10. CASE ~(buf = 0 /\ PagesFor(TableSectors) > room)
  <2>1. /\ buf' = IF buf = 0 THEN PagesFor(TableSectors) ELSE buf
        /\ pc' = "table" /\ at' = at /\ idx' = idx /\ done' = done
    BY <1>10 DEF ScanHit
  <2>2. buf' \in Nat /\ buf' # 0
    BY <1>4, <1>7, <2>1
  <2>3. Hit' /\ TableSectors' = TableSectors
    BY <1>1, <2>1, HitKept
  <2>4. ScanInv'
    BY <1>1, <1>4, <1>6, <2>1, <2>2, <2>3 DEF ScanInv, Scans
  <2>5. BufInv'
    <3>1. CASE buf = 0
      <4>1. high'[0] = 0 /\ high'[1] = 0 /\ buf' = PagesFor(Spf(drive))
        BY <1>1, <1>5, <2>1, <3>1 DEF BufInv
      <4>2. 0 <= Spf(0) /\ 0 <= Spf(1)
        BY <1>5
      <4>3. buf' = PagesFor(Spf(0)) \/ buf' = PagesFor(Spf(1))
        BY <1>4, <4>1
      <4> QED
        BY <1>1, <2>2, <4>1, <4>2, <4>3, ViewKept DEF BufInv
    <3>2. CASE buf # 0
      BY <1>1, <2>1, <3>2, ViewKept DEF BufInv
    <3> QED
      BY <3>1, <3>2
  <2>6. drive = 0 => ~NoRoom /\ ~NoRoom'
    BY <1>8, <1>10, <2>2 DEF NoRoom
  <2>7. drive = 0 => (Reachable' <=> Reachable) /\ (Lost' <=> Lost)
    BY <1>1, <2>6, WayKept
  <2>8. FoundInv'
    <3>1. drive = 0 => /\ (at = 1 /\ idx > 0 => req.bad = PartLba)
                       /\ (at = 2 => Lost)
                       /\ (at = 2 /\ idx > PartLba - 63 => ~Reachable)
                       /\ (at = 3 => ~Reachable)
      BY <1>1 DEF FoundInv
    <3>2. ~(done' > 0)
      BY <1>4, <2>1
    <3> QED
      BY <1>1, <2>1, <2>7, <3>1, <3>2, ViewKept DEF FoundInv
  <2> QED
    BY <1>2, <2>1, <2>4, <2>5, <2>8 DEF Later
<1> QED
  BY <1>9, <1>10

\* What holds while the table is read.
LEMMA TableFacts ==
  ASSUME LifeInv, pc = "table"
  PROVE  /\ req \in Requests /\ total \in Int /\ Planned /\ BpbSound /\ PartLba \in Nat
         /\ at \in 1..3 /\ idx \in 0..95 /\ drive \in 0..1 /\ done \in Nat /\ buf \in Nat
         /\ high \in [0..1 -> Nat] /\ ~rep.present /\ rep.present \in BOOLEAN
         /\ buf # 0 /\ Hit /\ done <= TableSectors
         /\ TableSectors = Spf(drive) /\ Spf(0) \in Nat /\ Spf(1) \in Nat
         /\ TableSectors \in Nat /\ TableSectors >= 1
         /\ drive = 0 => /\ First \in Nat /\ First + idx = PartLba /\ req.bad # PartLba
                         /\ ~NoRoom
                         /\ (at = 1 /\ First = PartLba) \/ (at = 2 /\ First = 63 /\ Lost)
<1> USE DEF LifeInv
<1>1. pc \in Later
  BY DEF Later
<1>2. req \in Requests /\ total \in Int /\ Planned /\ BpbSound /\ PartLba \in Nat
  BY <1>1, ScanFacts
<1>3. /\ at \in 1..3 /\ idx \in 0..95 /\ drive \in 0..1 /\ done \in Nat /\ buf \in Nat
      /\ high \in [0..1 -> Nat] /\ ~rep.present /\ rep.present \in BOOLEAN
      /\ buf # 0 /\ Hit /\ done <= TableSectors
  BY DEF ScanInv, FAT_SCAN_LBAS
<1>4. /\ TableSectors = Spf(drive) /\ Spf(0) \in Nat /\ Spf(1) \in Nat /\ TableSectors >= 1
  BY <1>2, <1>3, TableIsSpf
<1>5. TableSectors \in Nat
  BY <1>3, <1>4
<1>6. ASSUME drive = 0
      PROVE  /\ First \in Nat /\ First + idx = PartLba /\ req.bad # PartLba /\ ~NoRoom
             /\ (at = 1 /\ First = PartLba) \/ (at = 2 /\ First = 63 /\ Lost)
  <2>1. idx \in Nat
    BY <1>3
  <2>2. First + idx = PartLba /\ req.bad # PartLba
    BY <1>2, <1>3, <1>6, <2>1, BootHit
  <2>3. /\ First \in Nat /\ (at = 1 => First = PartLba) /\ (at = 2 => First = 63)
        /\ (at = 3 => First = 2048)
    BY <1>2, <1>3, Starts
  <2>4. PartLba <= 272
    BY <1>2, RequestType
  <2>5. at # 3
    BY ONLY <1>2, <2>1, <2>2, <2>3, <2>4
  <2>6. ~NoRoom /\ (at = 2 => Lost)
    BY <1>3, <1>6 DEF FoundInv, NoRoom
  <2> QED
    BY <1>3, <2>2, <2>3, <2>5, <2>6
<1> QED
  BY <1>2, <1>3, <1>4, <1>5, <1>6

LEMMA StepReadPart ==
  ASSUME LifeInv, ReadPart
  PROVE  ScanInv' /\ BufInv' /\ FoundInv' /\ UNCHANGED plan /\ UNCHANGED table
         /\ pc \in Later /\ pc' = pc /\ passed' = passed
<1>1. /\ pc = "table" /\ done < TableSectors /\ ReadOk(drive, TableLba + done, Part)
      /\ done' = done + Part /\ high' = [high EXCEPT ![drive] = Max({@, done'})] /\ pc' = pc
      /\ UNCHANGED plan /\ UNCHANGED table /\ passed' = passed
      /\ drive' = drive /\ at' = at /\ idx' = idx /\ room' = room /\ buf' = buf /\ rep' = rep
  BY DEF ReadPart, diskVars, check
<1>2. /\ at \in 1..3 /\ idx \in 0..95 /\ drive \in 0..1 /\ done \in Nat /\ buf \in Nat
      /\ high \in [0..1 -> Nat] /\ ~rep.present /\ rep.present \in BOOLEAN
      /\ buf # 0 /\ Hit /\ TableSectors = Spf(drive) /\ Spf(0) \in Nat /\ Spf(1) \in Nat
      /\ TableSectors \in Nat
  BY <1>1, TableFacts
<1>3. Part = IF 16 <= TableSectors - done THEN 16 ELSE TableSectors - done
  BY <1>2, MinOfTwo DEF Part, ChunkMax
<1>4. done' \in Nat /\ done' > 0 /\ done' <= TableSectors
  BY ONLY <1>1, <1>2, <1>3
<1>5. /\ high' \in [0..1 -> Nat]
      /\ high'[drive] = IF high[drive] >= done' THEN high[drive] ELSE done'
      /\ \A d \in (0..1) \ {drive} : high'[d] = high[d]
  <2>1. high[drive] \in Nat
    BY <1>2
  <2>2. Max({high[drive], done'}) = IF high[drive] >= done' THEN high[drive] ELSE done'
    BY <1>4, <2>1, MaxOfTwo
  <2>3. Max({high[drive], done'}) \in Nat
    BY <1>4, <2>1, <2>2
  <2> QED
    BY <1>1, <1>2, <2>2, <2>3
<1>6. Hit' /\ TableSectors' = TableSectors /\ First' = First
  BY <1>1, <1>2, HitKept
<1>7. ScanInv'
  BY <1>1, <1>2, <1>4, <1>5, <1>6 DEF ScanInv, Scans, FAT_SCAN_LBAS
<1>8. BufInv'
  <2>1. /\ buf = PagesFor(Spf(0)) \/ buf = PagesFor(Spf(1))
        /\ high[0] <= Spf(0) /\ high[1] <= Spf(1)
    BY <1>2 DEF LifeInv, BufInv
  <2>2. high'[0] <= Spf(0) /\ high'[1] <= Spf(1)
    <3>1. CASE drive = 0
      BY <1>2, <1>4, <1>5, <2>1, <3>1
    <3>2. CASE drive = 1
      BY <1>2, <1>4, <1>5, <2>1, <3>2
    <3> QED
      BY <1>2, <3>1, <3>2
  <2> QED
    BY <1>1, <1>2, <2>1, <2>2, ViewKept DEF BufInv
<1>9. drive = 0 => req.bad \notin FirstPart(First)
  <2> SUFFICES ASSUME drive = 0
               PROVE  req.bad \notin FirstPart(First)
    OBVIOUS
  <2>1. CASE done > 0
    BY <1>1, <2>1 DEF LifeInv, FoundInv
  <2>2. CASE done = 0
    <3>1. /\ req \in Requests /\ total \in Int /\ Planned /\ BpbSound
          /\ First \in Nat /\ (First = PartLba \/ First = 63)
      BY <1>1, TableFacts
    <3>2. Vol(drive).bpb.reserved = 32
      BY <3>1 DEF Vol, BpbSound, Bpb, RESERVED
    <3>3. TableLba + done = TableLba
      BY <2>2, <3>1, <3>2 DEF TableLba
    <3> QED
      BY <1>1, <2>2, <3>1, <3>3, BootPart
  <2> QED
    BY <1>2, <2>1, <2>2
<1>10. FoundInv'
  <2>1. /\ req' = req /\ PartLba' = PartLba /\ (Reachable' <=> Reachable) /\ (Lost' <=> Lost)
    BY <1>1, ViewKept, RoomKept
  <2>2. FirstPart(First)' = FirstPart(First)
    BY <1>1, <1>6 DEF FirstPart, plan
  <2> QED
    BY <1>1, <1>9, <2>1, <2>2 DEF LifeInv, FoundInv
<1> QED
  BY <1>1, <1>7, <1>8, <1>10 DEF Later

LEMMA StepReport ==
  ASSUME LifeInv, Report
  PROVE  ScanInv' /\ BufInv' /\ FoundInv' /\ pc \in Later /\ pc' \in Later
<1>1. /\ pc = "table" /\ UNCHANGED plan /\ UNCHANGED table
      /\ drive' = drive /\ room' = room /\ buf' = buf /\ high' = high
      /\ (done = TableSectors \/ done > 0)
      /\ at' = 1 /\ idx' = 0 /\ done' = 0 /\ pc' = "idle"
  BY DEF Report, Return
<1>2. /\ at \in 1..3 /\ idx \in 0..95 /\ drive \in 0..1 /\ done \in Nat /\ buf \in Nat
      /\ high \in [0..1 -> Nat] /\ TableSectors >= 1 /\ PartLba \in Nat
  BY <1>1, TableFacts
<1>3. rep'.present = TRUE
  BY DEF Report
<1>4. rep'.present \in BOOLEAN
  BY <1>3, Zenon
<1>5. ScanInv'
  BY <1>1, <1>2, <1>4 DEF ScanInv, Scans, FAT_SCAN_LBAS
<1>6. BufInv'
  BY <1>1, ViewKept DEF LifeInv, BufInv
<1>7. drive = 0 => Reachable
  <2> SUFFICES ASSUME drive = 0
               PROVE  Reachable
    OBVIOUS
  <2>1. req.bad \notin FirstPart(First)
    BY <1>1, <1>2 DEF LifeInv, FoundInv
  <2>2. /\ First + idx = PartLba /\ req.bad # PartLba /\ ~NoRoom
        /\ (at = 1 /\ First = PartLba) \/ (at = 2 /\ First = 63 /\ Lost)
    BY <1>1, TableFacts
  <2>3. CASE at = 1
    BY <2>1, <2>2, <2>3 DEF Reachable
  <2>4. CASE at = 2
    <3>1. PartLba \in 63..158 /\ First = 63
      BY <1>2, <2>2, <2>4
    <3>2. req.bad \in FirstPart(PartLba)
      BY <2>2, <2>4 DEF Lost
    <3>3. FoundAgain
      BY <2>1, <3>1, <3>2 DEF FoundAgain, FAT_SCAN_LBAS
    <3> QED
      BY <2>2, <3>3 DEF Reachable
  <2> QED
    BY <2>2, <2>3, <2>4
<1>8. FoundInv'
  BY <1>1, <1>3, <1>7, RoomKept DEF FoundInv
<1> QED
  BY <1>1, <1>5, <1>6, <1>8 DEF Later

LEMMA StepTableFails ==
  ASSUME LifeInv, TableFails
  PROVE  ScanInv' /\ BufInv' /\ FoundInv' /\ pc \in Later /\ pc' \in Later
<1>1. /\ pc = "table" /\ done = 0 /\ ~ReadOk(drive, TableLba, Part) /\ NextStart
      /\ UNCHANGED plan /\ UNCHANGED table /\ UNCHANGED <<drive, room, buf, high, rep>>
  BY DEF TableFails
<1>2. drive = 0 => Lost /\ (at = 2 => ~Reachable)
  <2> SUFFICES ASSUME drive = 0
               PROVE  Lost /\ (at = 2 => ~Reachable)
    OBVIOUS
  <2>1. /\ req \in Requests /\ total \in Int /\ Planned /\ BpbSound /\ First \in Nat
        /\ req.bad # PartLba /\ ~NoRoom
        /\ (at = 1 /\ First = PartLba) \/ (at = 2 /\ First = 63 /\ Lost)
    BY <1>1, TableFacts
  <2>2. req.bad \in FirstPart(First)
    BY <1>1, <2>1, BootPart
  <2>3. CASE at = 1
    BY <2>1, <2>2, <2>3 DEF Lost
  <2>4. CASE at = 2
    <3>1. req.bad \in FirstPart(PartLba) /\ req.bad \in FirstPart(63) /\ Lost
      BY <2>1, <2>2, <2>4 DEF Lost
    <3> QED
      BY <3>1 DEF Reachable, FoundAgain
  <2> QED
    BY <2>1, <2>3, <2>4
<1>3. ScanInv' /\ BufInv' /\ FoundInv' /\ pc' \in {"scan", "idle"}
  BY <1>1, <1>2, LeaveStart DEF LifeInv
<1> QED
  BY <1>1, <1>3 DEF Later
---------------------------------------------------------------------------
LEMMA StepScan ==
  ASSUME LifeInv, ScanNext
  PROVE  LifeInv'
<1>1. UNCHANGED plan /\ UNCHANGED table /\ passed' = passed
  BY DEF ScanNext, ScanStep, Command, Boot, FreeDrive, ScanMiss, ScanHit, ReadPart, Report,
         TableFails, diskVars, check
<1>2. ScanInv' /\ BufInv' /\ FoundInv' /\ pc \in Later /\ pc' \in Later
  BY StepBoot, StepFreeDrive, StepScanMiss, StepScanHit, StepReadPart, StepReport,
     StepTableFails DEF ScanNext, ScanStep, Command
<1>3. TypeOK' /\ LayoutInv'
  BY <1>1, <1>2, Settled DEF LifeInv, TypeOK
<1> QED
  BY <1>2, <1>3 DEF LifeInv

LEMMA StepBuild ==
  ASSUME LifeInv, BuildNext, UNCHANGED scanVars
  PROVE  LifeInv'
<1>1. TypeOK' /\ LayoutInv' /\ pc \notin Scans /\ pc' \notin Scans
  BY StepPlan, StepPick, StepBootSector, StepAddFile, StepChain, StepCloseFat, StepCheck
     DEF LifeInv, BuildNext
<1> QED
  BY <1>1, Quiet DEF LifeInv

(* For every request: the layout, the table and the place of the files are  *)
(* what build_image wants, and the scan of fat.c has found out about the    *)
(* drives exactly what the starting points it has passed say.               *)
THEOREM LifeInvariant == LifeSpec => []LifeInv
<1>1. LifeInit => LifeInv
  BY LifeStarts
<1>2. LifeInv /\ [LifeNext]_allVars => LifeInv'
  <2> SUFFICES ASSUME LifeInv, [LifeNext]_allVars
               PROVE  LifeInv'
    OBVIOUS
  <2>1. CASE BuildNext /\ UNCHANGED <<scanVars, isoVars>>
    BY <2>1, StepBuild
  <2>2. CASE ScanNext
    BY <2>2, StepScan
  <2>3. CASE IsoNext /\ UNCHANGED scanVars
    <3>1. TypeOK' /\ LayoutInv' /\ pc \notin Scans /\ pc' \notin Scans
      BY <2>3, StepIso DEF LifeInv
    <3> QED
      BY <2>3, <3>1, Quiet DEF LifeInv
  <2>4. CASE UNCHANGED allVars
    <3>1. UNCHANGED plan /\ UNCHANGED table /\ UNCHANGED scanVars /\ pc' = pc /\ passed' = passed
      BY <2>4 DEF allVars, vars, diskVars, check
    <3>2. CASE pc \in Scans
      <4>1. pc \in Later
        BY <3>2 DEF Scans, Later
      <4>2. TypeOK' /\ LayoutInv'
        BY <3>1, <4>1, Settled DEF LifeInv, TypeOK
      <4>3. /\ drive' = drive /\ at' = at /\ idx' = idx /\ done' = done /\ buf' = buf
            /\ room' = room /\ high' = high /\ rep' = rep
        BY <3>1 DEF scanVars
      <4>4. (Hit' <=> Hit) /\ First' = First /\ TableSectors' = TableSectors
        BY <3>1, <4>3, HitKept
      <4>5. ScanInv'
        BY <3>1, <4>3, <4>4 DEF LifeInv, ScanInv
      <4>6. BufInv'
        BY <3>1, <4>3, ViewKept DEF LifeInv, BufInv
      <4>7. FoundInv'
        BY <3>1, <4>3, <4>4, ViewKept, RoomKept DEF LifeInv, FoundInv, FirstPart, plan
      <4> QED
        BY <4>2, <4>5, <4>6, <4>7 DEF LifeInv
    <3>3. CASE pc \notin Scans
      <4>1. ScanInv' /\ BufInv' /\ FoundInv'
        BY <3>1, <3>3, Quiet DEF LifeInv
      <4>2. TypeOK'
        BY <3>1, TableKept DEF LifeInv, TypeOK, plan, table
      <4>3. LayoutInv'
        BY <3>1, PlanKept DEF LifeInv, LayoutInv, plan, table, None, PART_LBA
      <4> QED
        BY <4>1, <4>2, <4>3 DEF LifeInv
    <3> QED
      BY <3>2, <3>3
  <2> QED
    BY <2>1, <2>2, <2>3, <2>4 DEF LifeNext
<1> QED
  BY <1>1, <1>2, PTL DEF LifeSpec

\* The table holds bytes inside its sectors, and the files lie one behind the
\* other (mkqizoimg.build_image), for every request.
THEOREM DiskTypeCorrect == LifeSpec => []TypeOK
  BY LifeInvariant, PTL DEF LifeInv

LEMMA LayoutFollows ==
  ASSUME LifeInv
  PROVE  LayoutSound /\ RefusesOnly
<1> USE DEF LifeInv
<1>1. LayoutSound
  <2> SUFFICES ASSUME Built
               PROVE  /\ PartLba + RESERVED + 2 * layout.fatSize = RootLba
                      /\ RootLba + ROOT_SECTORS = DataLba /\ DataLba + layout.clusters = total
                      /\ nxt <= layout.clusters + 2 /\ InTable(fat)
                      /\ layout.bits = 16 => 2 * (layout.clusters + 2) <= layout.fatSize * SECTOR
    BY DEF LayoutSound
  <2>1. pc \in Later
    BY DEF Built, LayoutInv, Unplanned
  <2>2. req \in Requests /\ total \in Int /\ Planned /\ BpbSound /\ PartLba \in Nat
    BY <2>1, ScanFacts
  <2>3. /\ layout.fatSize \in Nat /\ layout.clusters \in Int
        /\ layout.clusters = total - PartLba - 46 - 2 * layout.fatSize
        /\ layout.bits = 16 => 2 * (layout.clusters + 2) <= layout.fatSize * 512
    BY <2>2, PlannedFacts
  <2>4. layout.clusters >= 4085
    BY <2>2 DEF Planned
  <2>5. RootLba = PartLba + 32 + 2 * layout.fatSize
    BY <2>2, <2>3 DEF RootLba, BpbSound, Bpb, RESERVED
  <2>6. DataLba = RootLba + 14
    BY <2>2, <2>3, <2>5 DEF DataLba, BpbSound, Bpb, SECTOR
  <2>7. nxt <= layout.clusters + 2
    <3>1. req.kernel \in Nat /\ req.kernel <= 1024 /\ nxt \in Nat /\ left \in Nat
      BY <2>2, RequestType DEF TypeOK
    <3>2. nxt + left = 2 + left \/ nxt + left = 3 \/ nxt + left = 3 + req.kernel
      BY DEF TypeOK, FilesPlaced
    <3> QED
      BY ONLY <2>3, <2>4, <3>1, <3>2
  <2>8. InTable(fat)
    BY <2>1, LaterPc DEF TypeOK
  <2> QED
    BY <2>2, <2>3, <2>5, <2>6, <2>7, <2>8 DEF RESERVED, ROOT_SECTORS, SECTOR
<1>2. RefusesOnly
  <2>1. ASSUME pc = "refused"
        PROVE  DataSectors(total, FatSize(total, 12)) < 4085
    <3>1. PlanLayout(total, 12) = None
      BY <2>1 DEF LayoutInv
    <3>2. ~(DataSectors(total, FatSize(total, 12)) < 4085) => PlanLayout(total, 12).bits = 12
      BY DEF PlanLayout
    <3>3. None.bits = 0
      BY DEF None
    <3> QED
      BY <3>1, <3>2, <3>3
  <2> QED
    BY <2>1 DEF RefusesOnly, LayoutInv
<1> QED
  BY <1>1, <1>2

\* Every image that is built has its parts one behind the other, leads a reader
\* to them, and has an entry inside the table for every cluster.
THEOREM LayoutIsSound == LifeSpec => []LayoutSound
<1>1. LifeInv => LayoutSound
  BY LayoutFollows
<1> QED
  BY <1>1, LifeInvariant, PTL

\* mkqizoimg refuses, or fails without a message, only the stated sizes.
THEOREM RefusalsAreExact == LifeSpec => []RefusesOnly
<1>1. LifeInv => RefusesOnly
  BY LayoutFollows
<1> QED
  BY <1>1, LifeInvariant, PTL

\* A scan of the boot drive, while the system boots or at sysmngr -free c/,
\* finds the boot volume exactly when its boot sector and the first part of its
\* table can be read, or it is found again, and there is room or a buffer.
THEOREM BootVolumeIsFound == LifeSpec => []BootVolumeFound
<1>1. LifeInv => BootVolumeFound
  BY DEF LifeInv, FoundInv, BootVolumeFound
<1> QED
  BY <1>1, LifeInvariant, PTL

\* However often the drives are scanned, what is read into fatbuf fits, unless
\* it was sized for the other drive's table and that one is smaller.
THEOREM BufferIsLargeEnough == LifeSpec => []BufferHolds
<1>1. LifeInv => BufferHolds
  <2> SUFFICES ASSUME LifeInv, NEW d \in 0..1, high[d] * SECTOR > buf * 4096
               PROVE  buf = PagesFor(TableOf(1 - d)) /\ TableOf(1 - d) < TableOf(d)
    BY DEF BufferHolds
  <2>1. high[d] \in Nat /\ buf \in Nat /\ drive \in 0..1
    BY DEF LifeInv, ScanInv
  <2>2. high[d] * 512 > buf * 4096
    BY DEF SECTOR
  <2>3. buf # 0
    <3>1. buf = 0 => high[d] = 0
      BY DEF LifeInv, BufInv
    <3> QED
      BY <2>1, <2>2, <3>1
  <2>4. pc \in Scans
    BY <2>3 DEF LifeInv, ScanInv
  <2>5. TypeOK /\ Planned /\ BpbSound
    <3>1. pc \in Later
      BY <2>4 DEF Scans, Later
    <3> QED
      BY <3>1, ScanFacts DEF LifeInv
  <2>6. TableOf(0) = Spf(0) /\ TableOf(1) = Spf(1) /\ Spf(0) \in Nat /\ Spf(1) \in Nat
    BY <2>1, <2>5, TableIsSpf
  <2>7. /\ buf = PagesFor(TableOf(0)) \/ buf = PagesFor(TableOf(1))
        /\ high[0] <= TableOf(0) /\ high[1] <= TableOf(1)
    BY <2>3, <2>6 DEF LifeInv, BufInv
  <2>8. PICK e \in 0..1 : e = 1 - d
    OBVIOUS
  <2>9. /\ TableOf(d) \in Nat /\ TableOf(e) \in Nat /\ high[d] <= TableOf(d)
        /\ buf = PagesFor(TableOf(d)) \/ buf = PagesFor(TableOf(e))
    BY <2>6, <2>7, <2>8
  <2>10. /\ PagesFor(TableOf(d)) \in Nat /\ TableOf(d) * 512 <= PagesFor(TableOf(d)) * 4096
         /\ PagesFor(TableOf(e)) \in Nat /\ TableOf(e) * 512 <= PagesFor(TableOf(e)) * 4096
    BY <2>9, PagesType
  <2>11. buf = PagesFor(TableOf(e))
    BY ONLY <2>1, <2>2, <2>9, <2>10
  <2>12. TableOf(e) < TableOf(d)
    BY ONLY <2>1, <2>2, <2>9, <2>10, <2>11
  <2> QED
    BY <2>8, <2>11, <2>12
<1> QED
  BY <1>1, LifeInvariant, PTL

---------------------------------------------------------------------------
(* The iso.  Sums of lengths, unfolded one by one. *)
\* The function SumFirst is defined by exists, for every sequence and length.
LEMMA SumExists ==
  ASSUME NEW s, NEW n \in Nat
  PROVE  \E f : f = [k \in 0..n |-> IF k = 0 THEN 0 ELSE f[k - 1] + s[k]]
<1> DEFINE Is(f, m) == f = [k \in 0..m |-> IF k = 0 THEN 0 ELSE f[k - 1] + s[k]]
           T == {m \in Nat : ~ \E f : Is(f, m)}
<1> SUFFICES ASSUME T # {} PROVE FALSE
  OBVIOUS
<1>1. PICK m \in T : \A l \in T : m <= l
  BY NatMin
<1>2. m # 0
  <2>1. Is([k \in 0..0 |-> 0], 0)
    OBVIOUS
  <2> QED
    BY <2>1
<1>3. m - 1 \in Nat /\ m - 1 \notin T
  BY <1>1, <1>2
<1>4. PICK f : Is(f, m - 1)
  BY <1>3
<1> DEFINE g == [k \in 0..m |-> IF k < m THEN f[k] ELSE f[m - 1] + s[m]]
<1>5. Is(g, m)
  <2>1. ASSUME NEW k \in 0..m
        PROVE  g[k] = IF k = 0 THEN 0 ELSE g[k - 1] + s[k]
    BY <1>4, <1>2
  <2> QED
    BY <2>1
<1> QED
  BY <1>5, <1>1

\* Two functions that satisfy the equation agree.
LEMMA SumUnique ==
  ASSUME NEW s, NEW f, NEW g, NEW m \in Nat,
         \A k \in 0..m : f[k] = IF k = 0 THEN 0 ELSE f[k - 1] + s[k],
         \A k \in 0..m : g[k] = IF k = 0 THEN 0 ELSE g[k - 1] + s[k]
  PROVE  f[m] = g[m]
<1> DEFINE T == {k \in 0..m : f[k] # g[k]}
<1> SUFFICES ASSUME T # {} PROVE FALSE
  OBVIOUS
<1>1. PICK k \in T : \A l \in T : k <= l
  <2>1. T \subseteq Nat
    OBVIOUS
  <2> QED
    BY <2>1, NatMin
<1>2. k # 0
  OBVIOUS
<1>3. k - 1 \in 0..m /\ k - 1 \notin T
  BY <1>1, <1>2
<1> QED
  BY <1>2, <1>3

\* What SumFirst computes.
LEMMA SumSteps ==
  ASSUME NEW s, NEW n \in Nat
  PROVE  SumFirst(s, 0) = 0 /\ SumFirst(s, n + 1) = SumFirst(s, n) + s[n + 1]
<1> DEFINE F(m) == CHOOSE f : f = [k \in 0..m |-> IF k = 0 THEN 0 ELSE f[k - 1] + s[k]]
<1>1. ASSUME NEW m \in Nat
      PROVE  F(m) = [k \in 0..m |-> IF k = 0 THEN 0 ELSE F(m)[k - 1] + s[k]]
  <2>1. \E f : f = [k \in 0..m |-> IF k = 0 THEN 0 ELSE f[k - 1] + s[k]]
    BY SumExists
  <2> QED
    BY <2>1
<1>2. \A m \in Nat : SumFirst(s, m) = F(m)[m]
  BY DEF SumFirst
<1> HIDE DEF F
<1>3. F(n)[n] = F(n + 1)[n]
  <2>1. \A k \in 0..n : F(n)[k] = IF k = 0 THEN 0 ELSE F(n)[k - 1] + s[k]
    BY <1>1
  <2>2. \A k \in 0..n : F(n + 1)[k] = IF k = 0 THEN 0 ELSE F(n + 1)[k - 1] + s[k]
    BY <1>1
  <2> QED
    BY <2>1, <2>2, SumUnique
<1>4. F(n + 1)[n + 1] = F(n + 1)[n] + s[n + 1]
  BY <1>1
<1>5. F(0)[0] = 0
  BY <1>1
<1> QED
  BY <1>2, <1>3, <1>4, <1>5

\* Seven numbers are added one after the other.
LEMMA SevenSums ==
  ASSUME NEW s
  PROVE  /\ SumFirst(s, 0) = 0
         /\ SumFirst(s, 1) = SumFirst(s, 0) + s[1] /\ SumFirst(s, 2) = SumFirst(s, 1) + s[2]
         /\ SumFirst(s, 3) = SumFirst(s, 2) + s[3] /\ SumFirst(s, 4) = SumFirst(s, 3) + s[4]
         /\ SumFirst(s, 5) = SumFirst(s, 4) + s[5] /\ SumFirst(s, 6) = SumFirst(s, 5) + s[6]
         /\ SumFirst(s, 7) = SumFirst(s, 6) + s[7]
<1> DEFINE F(k) == SumFirst(s, k)
<1>1. F(0) = 0 /\ \A n \in Nat : F(n + 1) = F(n) + s[n + 1]
  BY SumSteps
<1> HIDE DEF F
<1>2. /\ F(0 + 1) = F(0) + s[0 + 1] /\ F(1 + 1) = F(1) + s[1 + 1] /\ F(2 + 1) = F(2) + s[2 + 1]
      /\ F(3 + 1) = F(3) + s[3 + 1] /\ F(4 + 1) = F(4) + s[4 + 1] /\ F(5 + 1) = F(5) + s[5 + 1]
      /\ F(6 + 1) = F(6) + s[6 + 1]
  BY <1>1
<1>3. /\ F(1) = F(0) + s[1] /\ F(2) = F(1) + s[2] /\ F(3) = F(2) + s[3]
      /\ F(4) = F(3) + s[4] /\ F(5) = F(4) + s[5] /\ F(6) = F(5) + s[6]
      /\ F(7) = F(6) + s[7]
  BY <1>2
<1> QED
  BY <1>1, <1>3 DEF F

\* The three directory records take 112 bytes, so the directory one block.
LEMMA RecordFacts ==
  ASSUME image \in Nat
  PROVE  /\ DOMAIN RootRecords = 1..3 /\ RootBytes = 2048
         /\ RootRecords[1].id = "." /\ RootRecords[2].id = ".."
         /\ RootRecords[3] = [len |-> 44, lba |-> 21, size |-> image, id |-> "QIZO.IMG"]
         /\ Offset(RootRecords, 3) = 68
<1>1. /\ DirRecord(20, 0, ".") = [len |-> 34, lba |-> 20, size |-> 0, id |-> "."]
      /\ DirRecord(20, 0, "..") = [len |-> 34, lba |-> 20, size |-> 0, id |-> ".."]
      /\ DirRecord(21, image, "QIZO.IMG")
           = [len |-> 44, lba |-> 21, size |-> image, id |-> "QIZO.IMG"]
  BY DEF DirRecord, IdLen, UpTo
<1>2. /\ DOMAIN RootRecords = 1..3
      /\ RootRecords[1] = [len |-> 34, lba |-> 20, size |-> 0, id |-> "."]
      /\ RootRecords[2] = [len |-> 34, lba |-> 20, size |-> 0, id |-> ".."]
      /\ RootRecords[3] = [len |-> 44, lba |-> 21, size |-> image, id |-> "QIZO.IMG"]
  BY <1>1 DEF RootRecords, ROOT_LBA, FILE_LBA
<1> DEFINE L == [j \in DOMAIN RootRecords |-> RootRecords[j].len]
<1>3. L[1] = 34 /\ L[2] = 34 /\ L[3] = 44
  BY <1>2
<1> HIDE DEF L
<1>4. SumFirst(L, 2) = 68 /\ SumFirst(L, 3) = 112
  BY <1>3, SevenSums
<1>5. Offset(RootRecords, 3) = 68 /\ RecordBytes = 112
  BY <1>4 DEF Offset, RecordBytes, L
<1> QED
  BY <1>2, <1>5 DEF RootBytes, Block

\* The blocks of the file.
LEMMA BlockFacts ==
  ASSUME image \in Nat
  PROVE  /\ FileBlocks \in Nat /\ UpTo(image, Block) = FileBlocks * 2048
         /\ image <= FileBlocks * 2048 /\ FileBlocks * 2048 < image + 2048
         /\ UpTo(image, Block) % Block = 0
<1>1. PICK q \in Nat : (image + 2047) \div 2048 = q
  OBVIOUS
<1>2. image <= q * 2048 /\ q * 2048 < image + 2048
  BY <1>1
<1>3. UpTo(image, Block) = q * 2048
  BY <1>1 DEF UpTo, Block
<1>4. FileBlocks = q
  BY <1>3 DEF FileBlocks, Block
<1>5. (q * 2048) % 2048 = 0
  OBVIOUS
<1> QED
  BY <1>2, <1>3, <1>4, <1>5 DEF Block

\* The parts, in the order build_iso joins them.
LEMMA PartFacts ==
  ASSUME image \in Nat
  PROVE  /\ DOMAIN Parts = 1..7 /\ Len(Parts) = 7
         /\ Parts[1].bytes = 32768 /\ Parts[2].bytes = 2048 /\ Parts[3].bytes = 2048
         /\ Parts[4].bytes = 2048 /\ Parts[5].bytes = 2048 /\ Parts[6].bytes = 2048
         /\ Parts[7].bytes = FileBlocks * 2048
         /\ Parts[1].first = 0 /\ Parts[2].first = 1 /\ Parts[3].first = 0
         /\ Parts[4].first = 255 /\ Parts[5].first = 1 /\ Parts[6].first = 34
         /\ Parts[7].first = 250
         /\ Parts[2].block = Both16(2048) /\ Parts[2].root = DirRecord(20, 2048, ".")
         /\ Parts[3].catalog = 19 /\ Parts[5].words = CatalogWords
         /\ Parts[5].entry = [size |-> LoadSize, lba |-> 21]
         /\ Parts[6].records = RootRecords /\ Parts[7].payload = image
<1>1. RootBytes = 2048 /\ UpTo(image, Block) = FileBlocks * 2048
  BY RecordFacts, BlockFacts
<1> QED
  BY <1>1 DEF Parts, PVD_LBA, CATALOG_LBA, ROOT_LBA, FILE_LBA, Block

\* Where each part begins.
LEMMA StartFacts ==
  ASSUME image \in Nat
  PROVE  /\ StartOf(Parts, 1) = 0 /\ StartOf(Parts, 2) = 32768 /\ StartOf(Parts, 3) = 34816
         /\ StartOf(Parts, 4) = 36864 /\ StartOf(Parts, 5) = 38912
         /\ StartOf(Parts, 6) = 40960 /\ StartOf(Parts, 7) = 43008
         /\ IsoBytes(Parts) = 43008 + FileBlocks * 2048
<1> DEFINE L == [j \in DOMAIN Parts |-> Parts[j].bytes]
<1>1. /\ L[1] = 32768 /\ L[2] = 2048 /\ L[3] = 2048 /\ L[4] = 2048 /\ L[5] = 2048
      /\ L[6] = 2048 /\ L[7] = FileBlocks * 2048
  BY PartFacts
<1> HIDE DEF L
<1>2. /\ SumFirst(L, 0) = 0 /\ SumFirst(L, 1) = 32768 /\ SumFirst(L, 2) = 34816
      /\ SumFirst(L, 3) = 36864 /\ SumFirst(L, 4) = 38912 /\ SumFirst(L, 5) = 40960
      /\ SumFirst(L, 6) = 43008 /\ SumFirst(L, 7) = 43008 + FileBlocks * 2048
  BY <1>1, SevenSums, BlockFacts
<1>3. \A k \in Int : StartOf(Parts, k) = SumFirst(L, k - 1)
  BY DEF StartOf, L
<1>4. IsoBytes(Parts) = SumFirst(L, 7)
  <2>1. Len(Parts) = 7
    BY PartFacts
  <2>2. IsoBytes(Parts) = StartOf(Parts, 8)
    BY <2>1 DEF IsoBytes
  <2> QED
    BY <2>2, <1>3
<1> QED
  BY <1>2, <1>3, <1>4

\* The sum of the validation entry without its checksum.
LEMMA HeaderSum ==
  Sum16(Append(Header, Key)) = 54359
<1> DEFINE W == Append(Header, Key)
           F(k) == SumFirst(W, k)
<1>1. /\ Len(W) = 15
      /\ W[1] = 1 /\ W[2] = 0 /\ W[3] = 18769 /\ W[4] = 20314 /\ W[5] = 19744 /\ W[6] = 20811
      /\ W[7] = 23113 /\ W[8] = 18767 /\ W[9] = 20307 /\ W[10] = 0 /\ W[11] = 0 /\ W[12] = 0
      /\ W[13] = 0 /\ W[14] = 0 /\ W[15] = 43605
  BY DEF Header, Key
<1> HIDE DEF W
<1>2. F(0) = 0 /\ \A n \in Nat : F(n + 1) = F(n) + W[n + 1]
  BY SumSteps
<1> HIDE DEF F
<1>3. F(0 + 1) = 1 /\ F(1 + 1) = 1 /\ F(2 + 1) = 18770 /\ F(3 + 1) = 39084 /\ F(4 + 1) = 58828
  BY <1>1, <1>2
<1>4. F(5 + 1) = 79639 /\ F(6 + 1) = 102752 /\ F(7 + 1) = 121519 /\ F(8 + 1) = 141826
  BY <1>1, <1>2, <1>3
<1>5. F(9 + 1) = 141826 /\ F(10 + 1) = 141826 /\ F(11 + 1) = 141826 /\ F(12 + 1) = 141826
  BY <1>1, <1>2, <1>4
<1>6. F(13 + 1) = 141826 /\ F(14 + 1) = 185431
  BY <1>1, <1>2, <1>5
<1>7. Sum16(W) = F(15) % 65536
  BY <1>1 DEF Sum16, F
<1> QED
  BY <1>6, <1>7 DEF W

\* The checksum makes the sixteen words cancel.
LEMMA WordsCancel ==
  /\ CatalogWords[2] = 0 /\ CatalogWords[16] = Key /\ Sum16(CatalogWords) = 0
<1> DEFINE W == CatalogWords
           F(k) == SumFirst(W, k)
<1>1. (65536 - Sum16(Append(Header, Key))) % 65536 = 11177
  BY HeaderSum
<1>2. W = Header \o <<11177, 43605>>
  BY <1>1 DEF CatalogWords, Key
<1>3. /\ Len(W) = 16
      /\ W[1] = 1 /\ W[2] = 0 /\ W[3] = 18769 /\ W[4] = 20314 /\ W[5] = 19744 /\ W[6] = 20811
      /\ W[7] = 23113 /\ W[8] = 18767 /\ W[9] = 20307 /\ W[10] = 0 /\ W[11] = 0 /\ W[12] = 0
      /\ W[13] = 0 /\ W[14] = 0 /\ W[15] = 11177 /\ W[16] = 43605
  BY <1>2 DEF Header
<1> HIDE DEF W
<1>4. F(0) = 0 /\ \A n \in Nat : F(n + 1) = F(n) + W[n + 1]
  BY SumSteps
<1> HIDE DEF F
<1>5. F(0 + 1) = 1 /\ F(1 + 1) = 1 /\ F(2 + 1) = 18770 /\ F(3 + 1) = 39084 /\ F(4 + 1) = 58828
  BY <1>3, <1>4
<1>6. F(5 + 1) = 79639 /\ F(6 + 1) = 102752 /\ F(7 + 1) = 121519 /\ F(8 + 1) = 141826
  BY <1>3, <1>4, <1>5
<1>7. F(9 + 1) = 141826 /\ F(10 + 1) = 141826 /\ F(11 + 1) = 141826 /\ F(12 + 1) = 141826
  BY <1>3, <1>4, <1>6
<1>8. F(13 + 1) = 141826 /\ F(14 + 1) = 153003 /\ F(15 + 1) = 196608
  BY <1>3, <1>4, <1>7
<1>9. Sum16(W) = F(16) % 65536
  BY <1>3 DEF Sum16, F
<1>10. Sum16(W) = 0
  BY <1>8, <1>9
<1> QED
  BY <1>3, <1>10 DEF W, Key

\* The sets of parts that check_iso looks at, once they lie where they should.
LEMMA PartsFound ==
  ASSUME image \in Nat, iso = Parts
  PROVE  /\ Min(Terminators) = 4 /\ Terminators # {} /\ Descriptors = {2, 3}
         /\ Primary = Parts[2] /\ BootRecord = Parts[3]
         /\ Begins(19) /\ PartAt(19) = 5 /\ Begins(20) /\ PartAt(20) = 6
         /\ Begins(21) /\ PartAt(21) = 7
<1> DEFINE s(k) == StartOf(iso, k)
           f(k) == iso[k].first
<1>1. /\ DOMAIN iso = 1..7
      /\ s(1) = 0 /\ s(2) = 32768 /\ s(3) = 34816 /\ s(4) = 36864 /\ s(5) = 38912
      /\ s(6) = 40960 /\ s(7) = 43008
  BY PartFacts, StartFacts
<1>2. f(1) = 0 /\ f(2) = 1 /\ f(3) = 0 /\ f(4) = 255 /\ f(5) = 1 /\ f(6) = 34 /\ f(7) = 250
  BY PartFacts
<1> HIDE DEF s, f
<1>3. \A k \in DOMAIN iso : k = 1 \/ k = 2 \/ k = 3 \/ k = 4 \/ k = 5 \/ k = 6 \/ k = 7
  BY <1>1
<1>4. Terminators = {4}
  <2>1. Terminators = {k \in DOMAIN iso : s(k) >= 32768 /\ f(k) = 255}
    BY DEF Terminators, Block, s, f
  <2> QED
    BY <2>1, <1>1, <1>2, <1>3
<1>5. Min(Terminators) = 4
  BY <1>4 DEF Min
<1>6. Descriptors = {2, 3}
  <2>1. Descriptors = {k \in 1..3 : s(k) >= 32768}
    BY <1>5 DEF Descriptors, Block, s
  <2> QED
    BY <2>1, <1>1
<1>7. Max({k \in Descriptors : f(k) = 1}) = 2 /\ Max({k \in Descriptors : f(k) = 0}) = 3
  <2>1. {k \in Descriptors : f(k) = 1} = {2} /\ {k \in Descriptors : f(k) = 0} = {3}
    BY <1>6, <1>2
  <2> QED
    BY <2>1 DEF Max
<1>8. Primary = Parts[2] /\ BootRecord = Parts[3]
  BY <1>7 DEF Primary, BootRecord, f
<1>9. ASSUME NEW n \in {5, 6, 7}
      PROVE  Begins(n + 14) /\ PartAt(n + 14) = n
  <2>1. \A k \in DOMAIN iso : s(k) = (n + 14) * 2048 <=> k = n
    BY <1>1, <1>3
  <2>2. \A k \in DOMAIN iso : StartOf(iso, k) = (n + 14) * Block <=> k = n
    BY <2>1 DEF s, Block
  <2>3. n \in DOMAIN iso
    BY <1>1
  <2> QED
    BY <2>2, <2>3 DEF Begins, PartAt
<1>10. Begins(5 + 14) /\ PartAt(5 + 14) = 5 /\ Begins(6 + 14) /\ PartAt(6 + 14) = 6
       /\ Begins(7 + 14) /\ PartAt(7 + 14) = 7
  BY <1>9
<1> QED
  BY <1>4, <1>5, <1>6, <1>8, <1>10

\* What check_iso returns for an iso of build_iso: all that can fail is the
\* load size in the boot entry.
LEMMA CheckIsoResult ==
  ASSUME image \in Nat, iso = Parts
  PROVE  ( /\ DescriptorsGood /\ Begins(BootRecord.catalog)
           /\ LET cat == iso[PartAt(BootRecord.catalog)]
              IN  CatalogGood(cat) /\ ImageGood(cat.entry)
                                   /\ DirectoryGood(Primary.root, cat.entry) )
         <=> FileBlocks \in {0, 4} \/ FileBlocks >= 66
<1>1. DescriptorsGood
  <2>1. Terminators # {} /\ 2 \in Descriptors /\ 3 \in Descriptors /\ Primary = Parts[2]
    BY PartsFound
  <2>2. /\ iso[2].first = 1 /\ iso[3].first = 0
        /\ Primary.block = Both16(2048) /\ Primary.root = DirRecord(20, 2048, ".")
    BY <2>1, PartFacts
  <2>3. DirRecord(20, 2048, ".").len = 34
    BY DEF DirRecord, IdLen, UpTo
  <2>4. Both16(2048) = <<0, 8, 8, 0>>
    BY DEF Both16
  <2>5. Le16(Primary.block) = 2048 /\ Be16(Primary.block) = 2048
    BY <2>2, <2>4 DEF Le16, Be16
  <2> QED
    BY <2>1, <2>2, <2>3, <2>5 DEF DescriptorsGood, Block
<1>2. /\ BootRecord.catalog = 19 /\ Begins(19) /\ PartAt(19) = 5
      /\ iso[5].first = 1 /\ iso[5].words = CatalogWords
      /\ iso[5].entry = [size |-> LoadSize, lba |-> 21]
  BY PartsFound, PartFacts
<1>3. CatalogGood(iso[5]) <=> LoadSize \in {4, 0} \/ LoadSize >= 66
  BY <1>2, WordsCancel DEF CatalogGood
<1>4. LoadSize \in {4, 0} \/ LoadSize >= 66 <=> FileBlocks \in {0, 4} \/ FileBlocks >= 66
  BY BlockFacts DEF LoadSize
<1>5. ImageGood(iso[5].entry)
  <2>1. /\ iso[5].entry.lba = 21 /\ Begins(21) /\ PartAt(21) = 7 /\ iso[7].first = 250
        /\ iso[7].payload = image
    BY <1>2, PartsFound, PartFacts
  <2>2. 21 * Block + image <= IsoBytes(iso)
    BY StartFacts, BlockFacts DEF Block
  <2> QED
    BY <2>1, <2>2 DEF ImageGood
<1>6. DirectoryGood(Primary.root, iso[5].entry)
  <2>1. Primary = Parts[2] /\ Primary.root = DirRecord(20, 2048, ".")
    BY PartsFound, PartFacts
  <2>2. DirRecord(20, 2048, ".").lba = 20 /\ DirRecord(20, 2048, ".").size = 2048
    BY DEF DirRecord
  <2>3. Begins(20) /\ PartAt(20) = 6 /\ iso[6].first = 34 /\ iso[6].records = RootRecords
    BY PartsFound, PartFacts
  <2> DEFINE root == Primary.root
             recs == iso[PartAt(root.lba)].records
             named == {k \in DOMAIN recs : /\ Offset(recs, k) + 34 <= root.size
                                           /\ recs[k].id = "QIZO.IMG"}
  <2>4. root.lba = 20 /\ root.size = 2048 /\ recs = RootRecords
    BY <2>1, <2>2, <2>3
  <2>5. Max(named) = 3 /\ named # {}
    <3>1. named = {3}
      BY <2>4, RecordFacts
    <3> QED
      BY <3>1 DEF Max
  <2>6. recs[3].lba = 21 /\ recs[3].size = image
    BY <2>4, RecordFacts
  <2>7. iso[5].entry.lba = 21
    BY <1>2
  <2>8. Begins(root.lba) /\ iso[PartAt(root.lba)].first = 34
    BY <2>3, <2>4
  <2> HIDE DEF named, recs, root
  <2>9. recs[Max(named)].lba = iso[5].entry.lba /\ recs[Max(named)].size = image
    BY ONLY <2>5, <2>6, <2>7, Zenon
  <2> QED
    BY <2>5, <2>8, <2>9, Zenon DEF DirectoryGood, named, recs, root
<1> QED
  BY <1>1, <1>2, <1>3, <1>4, <1>5, <1>6

\* Nothing is wrapped but a file of known length, and the parts written are
\* those build_iso describes.
IsoInv ==
  /\ image \in Nat /\ pc # "isoRefused"
  /\ pc = "wrapped" => iso = Parts
  /\ pc = "isoChecked" => (isoOk <=> FileBlocks \in {0, 4} \/ FileBlocks >= 66)

LEMMA StepIsoInv ==
  ASSUME LifeInv, IsoInv, [LifeNext]_allVars
  PROVE  IsoInv'
<1>1. CASE GiveFile
  <2>1. pc \in Later /\ pc' = "wrap"
    BY <1>1 DEF GiveFile, Later
  <2>2. total \in Nat
    <3>1. req \in Requests /\ total \in Int /\ Planned
      BY <2>1, ScanFacts DEF LifeInv
    <3> QED
      BY <3>1, RequestType, PlannedFacts DEF Planned
  <2>3. image' \in Nat
    BY <1>1, <2>2, OtherFilesAssumption DEF GiveFile, SECTOR
  <2> QED
    BY <2>1, <2>3 DEF IsoInv
<1>2. CASE BuildIso
  <2>1. image' = image /\ image \in Nat
    BY <1>2 DEF BuildIso, IsoInv
  <2>2. Parts' = Parts
    BY <2>1 DEF Parts, FileBlocks, RootBytes, RecordBytes, RootRecords, LoadSize
  <2>3. \A k \in DOMAIN Parts : Parts[k].bytes % Block = 0
    <3>1. FileBlocks * 2048 % 2048 = 0 /\ FileBlocks \in Nat
      BY <2>1, BlockFacts DEF Block
    <3>2. \A k \in 1..7 : k = 1 \/ k = 2 \/ k = 3 \/ k = 4 \/ k = 5 \/ k = 6 \/ k = 7
      OBVIOUS
    <3> QED
      BY <2>1, <3>1, <3>2, PartFacts DEF Block
  <2>4. IsoBytes(Parts) = (FILE_LBA + FileBlocks) * Block
    BY <2>1, StartFacts, BlockFacts DEF FILE_LBA, Block
  <2>5. iso' = Parts /\ pc' = "wrapped"
    BY <1>2, <2>3, <2>4 DEF BuildIso
  <2> QED
    BY <2>1, <2>2, <2>5 DEF IsoInv
<1>3. CASE CheckIso
  <2>1. image' = image /\ image \in Nat /\ pc' = "isoChecked" /\ iso = Parts
    BY <1>3 DEF CheckIso, IsoInv
  <2>2. FileBlocks' = FileBlocks
    BY <2>1 DEF FileBlocks
  <2>3. isoOk' <=> FileBlocks \in {0, 4} \/ FileBlocks >= 66
    BY <1>3, <2>1, CheckIsoResult DEF CheckIso
  <2> QED
    BY <2>1, <2>2, <2>3 DEF IsoInv
<1>4. CASE UNCHANGED isoVars /\ (BuildNext \/ ScanNext \/ pc' = pc)
  <2>1. image' = image /\ iso' = iso /\ isoOk' = isoOk
    BY <1>4 DEF isoVars
  <2>2. FileBlocks' = FileBlocks /\ Parts' = Parts
    BY <2>1 DEF Parts, FileBlocks, RootBytes, RecordBytes, RootRecords, LoadSize
  <2>3. pc' = pc \/ pc' \notin {"wrapped", "isoChecked", "isoRefused"}
    <3>1. CASE BuildNext
      <4>1. CASE Plan \/ Pick
        BY <4>1 DEF Plan, Pick
      <4>2. CASE BootSector \/ AddFile
        BY <4>2 DEF BootSector, AddFile
      <4>3. CASE Chain
        BY <4>3 DEF Chain
      <4>4. CASE CloseFat
        BY <4>4 DEF CloseFat
      <4>5. CASE StartCheck \/ Follow \/ EndOfFile
        BY <4>5, CheckSteps
      <4> QED
        BY <3>1, <4>1, <4>2, <4>3, <4>4, <4>5 DEF BuildNext
    <3>2. CASE ScanNext
      BY <3>2 DEF ScanNext, ScanStep, Command, Boot, FreeDrive, ScanMiss, ScanHit, ReadPart,
                  Report, TableFails, NextStart, Return, diskVars
    <3> QED
      BY <1>4, <3>1, <3>2
  <2> QED
    BY <2>1, <2>2, <2>3 DEF IsoInv
<1> QED
  BY <1>1, <1>2, <1>3, <1>4 DEF LifeNext, IsoNext, allVars, vars, diskVars

(* build_iso never refuses, and check_iso passes the iso of every image that *)
(* mkqizoimg builds; of other files it refuses exactly those whose block    *)
(* count it takes for a wrong load size.  For every image and every file.   *)
THEOREM IsoIsAccepted == LifeSpec => []IsoAccepted
<1>1. LifeInit => IsoInv
  BY DEF LifeInit, IsoInit, Init, IsoInv
<1>2. LifeInv /\ IsoInv /\ [LifeNext]_allVars => IsoInv'
  BY StepIsoInv
<1>3. LifeInv /\ IsoInv => IsoAccepted
  <2> SUFFICES ASSUME LifeInv, IsoInv PROVE IsoAccepted
    OBVIOUS
  <2>1. ASSUME pc = "isoChecked", image = total * SECTOR
        PROVE  isoOk
    <3>1. pc \in Later
      BY <2>1 DEF Later
    <3>2. req \in Requests /\ total \in Int /\ Planned
      BY <3>1, ScanFacts DEF LifeInv
    <3>3. total >= 4085
      BY <3>2, RequestType, PlannedFacts DEF Planned
    <3>4. image \in Nat /\ image >= 2091520
      BY <2>1, <3>2, <3>3 DEF IsoInv, SECTOR
    <3>5. FileBlocks \in Nat /\ image <= FileBlocks * 2048
      BY <3>4, BlockFacts
    <3>6. FileBlocks >= 66
      BY <3>4, <3>5
    <3> QED
      BY <2>1, <3>6 DEF IsoInv
  <2> QED
    BY <2>1 DEF IsoAccepted, IsoInv
<1> QED
  BY <1>1, <1>2, <1>3, LifeInvariant, PTL DEF LifeSpec

---------------------------------------------------------------------------
(* What the table holds.  A cluster of a file leads to the next, the last    *)
(* ends the chain; the readme has one cluster, the kernel req.kernel.       *)
Link(i) == IF i = 2 \/ i = 2 + req.kernel THEN Eof(layout.bits) ELSE i + 1

\* Entries from 2 on, up to the next free cluster; the others are zero.
Linked(f, n) ==
  /\ layout.bits = 16 => \A i \in Nat : i >= 2 => Wide(f, i) = IF i < n THEN Link(i) ELSE 0
  /\ layout.bits = 12 =>
       \A l \in Nat : l >= 1 =>
         /\ Even(f, l) = IF 2 * l < n THEN Link(2 * l) ELSE 0
         /\ Odd(f, l) = IF 2 * l + 1 < n THEN Link(2 * l + 1) ELSE 0

FatInv ==
  /\ nxt >= 2 /\ (clusterOf = <<Readme, Kernel>> => nxt >= 3)
  /\ pc \in Later => clusterOf = <<Readme, Kernel>> /\ left = 0
  /\ pc \in {"files"} \cup Later => Linked(fat, nxt)

\* Entries 0 and 1 do not count.
LEMMA LinkedReserved ==
  ASSUME NEW f, NEW n \in Nat, Linked(f, n), NEW k \in {0, 1}, NEW v,
         Store(f, layout.bits, k, v), layout.bits = 12 => v <= 4095
  PROVE  Linked(FatSet(f, layout.bits, k, v), n)
<1> DEFINE g == FatSet(f, layout.bits, k, v)
<1>1. CASE layout.bits = 16
  <2>1. \A i \in Nat : Wide(g, i) = IF i = k THEN v ELSE Wide(f, i)
    BY <1>1, FatSetWide
  <2> HIDE DEF g
  <2> QED
    BY <1>1, <2>1 DEF Linked, g
<1>2. CASE layout.bits = 12
  <2>1. \A l \in Nat : /\ Even(g, l) = IF k = 2 * l THEN v ELSE Even(f, l)
                       /\ Odd(g, l) = IF k = 2 * l + 1 THEN v ELSE Odd(f, l)
    BY <1>2, FatSetPair
  <2> HIDE DEF g
  <2>2. \A l \in Nat : l >= 1 => k # 2 * l /\ k # 2 * l + 1
    OBVIOUS
  <2>3. \A l \in Nat : l >= 1 => Even(g, l) = Even(f, l) /\ Odd(g, l) = Odd(f, l)
    BY <2>1, <2>2
  <2> QED
    BY <1>2, <2>3 DEF Linked, g
<1> QED
  BY <1>1, <1>2 DEF Store

\* The entry of the next free cluster.
LEMMA LinkedNext ==
  ASSUME NEW f, NEW n \in Nat, n >= 2, Linked(f, n), NEW v, v = Link(n),
         Store(f, layout.bits, n, v), layout.bits = 12 => v <= 4095
  PROVE  Linked(FatSet(f, layout.bits, n, v), n + 1)
<1> DEFINE g == FatSet(f, layout.bits, n, v)
<1>1. CASE layout.bits = 16
  <2>1. \A i \in Nat : Wide(g, i) = IF i = n THEN v ELSE Wide(f, i)
    BY <1>1, FatSetWide
  <2>2. \A i \in Nat : i >= 2 => Wide(f, i) = IF i < n THEN Link(i) ELSE 0
    BY <1>1 DEF Linked
  <2> HIDE DEF g
  <2>3. \A i \in Nat : i >= 2 => Wide(g, i) = IF i < n + 1 THEN Link(i) ELSE 0
    BY <2>1, <2>2
  <2> QED
    BY <1>1, <2>3 DEF Linked, g
<1>2. CASE layout.bits = 12
  <2>1. \A l \in Nat : /\ Even(g, l) = IF n = 2 * l THEN v ELSE Even(f, l)
                       /\ Odd(g, l) = IF n = 2 * l + 1 THEN v ELSE Odd(f, l)
    <3>1. Store(f, 12, n, v) /\ v <= 4095
      BY <1>2
    <3> HIDE DEF Store
    <3> TAKE l \in Nat
    <3> QED
      BY ONLY <3>1, l \in Nat, <1>2, FatSetPair DEF g
  <2>2. \A l \in Nat : l >= 1 =>
          /\ Even(f, l) = IF 2 * l < n THEN Link(2 * l) ELSE 0
          /\ Odd(f, l) = IF 2 * l + 1 < n THEN Link(2 * l + 1) ELSE 0
    BY <1>2 DEF Linked
  <2> HIDE DEF g
  <2>3. ASSUME NEW l \in Nat, l >= 1
        PROVE  /\ Even(g, l) = IF 2 * l < n + 1 THEN Link(2 * l) ELSE 0
               /\ Odd(g, l) = IF 2 * l + 1 < n + 1 THEN Link(2 * l + 1) ELSE 0
    <3>1. CASE n = 2 * l
      BY <2>1, <2>2, <2>3, <3>1
    <3>2. CASE n = 2 * l + 1
      BY <2>1, <2>2, <2>3, <3>2
    <3>3. CASE n # 2 * l /\ n # 2 * l + 1
      BY <2>1, <2>2, <2>3, <3>3
    <3> QED
      BY <3>1, <3>2, <3>3
  <2> QED
    BY <1>2, <2>3 DEF Linked, g
<1> QED
  BY <1>1, <1>2 DEF Store

\* Nothing is stored yet.
LEMMA LinkedEmpty ==
  Linked(<< >>, 2)
<1>1. \A o : Byte(<< >>, o) = 0
  BY DEF Byte
<1>2. \A i \in Nat : Wide(<< >>, i) = 0
  BY <1>1 DEF Wide
<1>3. \A l \in Nat : Even(<< >>, l) = 0 /\ Odd(<< >>, l) = 0
  <2>1. 0 % 16 = 0 /\ 0 \div 16 = 0
    OBVIOUS
  <2> QED
    BY <1>1, <2>1 DEF Even, Odd
<1>4. \A i \in Nat : i >= 2 => ~(i < 2)
  OBVIOUS
<1>5. \A l \in Nat : l >= 1 => ~(2 * l < 2) /\ ~(2 * l + 1 < 2)
  OBVIOUS
<1> QED
  BY <1>2, <1>3, <1>4, <1>5 DEF Linked

LEMMA ChainLinks ==
  ASSUME TypeOK, LayoutInv, FatInv, Chain
  PROVE  FatInv'
<1> DEFINE value == IF left = 1 THEN Eof(layout.bits) ELSE nxt + 1
<1>1. /\ pc = "files" /\ left > 0
      /\ fat' = FatSet(fat, layout.bits, nxt, value)
      /\ pc' \in {"files", "crashed"}
      /\ nxt' = nxt + 1 /\ left' = left - 1 /\ clusterOf' = clusterOf
      /\ UNCHANGED plan
  BY DEF Chain
<1>2. /\ req \in Requests /\ total \in Int /\ nxt \in Nat /\ left \in Nat
      /\ IsTable(fat) /\ FilesPlaced
  BY <1>1 DEF TypeOK
<1>3. layout.bits \in {12, 16}
  BY <1>1 DEF LayoutInv, Unplanned, Planned
<1>4. req.kernel \in Nat /\ req.kernel <= 1024
  BY <1>2, RequestType
<1>5. /\ nxt >= 2 /\ nxt + left <= 3 + req.kernel
      /\ left = 1 <=> nxt = 2 \/ nxt = 2 + req.kernel
  <2>1. CASE clusterOf = <<Readme>> /\ nxt + left = 3
    BY <1>1, <1>2, <1>4, <2>1 DEF FatInv
  <2>2. CASE clusterOf = <<Readme, Kernel>> /\ nxt + left = 3 + req.kernel
    <3>1. nxt >= 3
      BY <2>2 DEF FatInv
    <3> QED
      BY <1>1, <1>2, <1>4, <2>2, <3>1
  <2> QED
    BY <1>1, <1>2, <2>1, <2>2 DEF FilesPlaced
<1>6. value = Link(nxt)
  BY <1>5 DEF Link
<1>7. IsWord(value) /\ (layout.bits = 12 => value <= 4095)
  BY <1>1, <1>2, <1>3, <1>4, <1>5 DEF IsWord, Eof
<1> HIDE DEF value
<1>8. Linked(fat, nxt)
  BY <1>1 DEF FatInv
<1>9. Linked(fat', nxt + 1)
  <2>1. Store(fat, layout.bits, nxt, value)
    BY <1>2, <1>3, <1>7 DEF Store
  <2> QED
    BY <1>1, <1>2, <1>5, <1>6, <1>7, <1>8, <2>1, LinkedNext
<1>10. req' = req /\ layout' = layout
  BY <1>1 DEF plan
<1>11. Linked(fat, nxt)'
  BY <1>1, <1>9, <1>10 DEF Linked, Link, Eof
<1>12. pc' \notin Later
  BY <1>1 DEF Later
<1>13. Readme' = Readme /\ Kernel' = Kernel
  BY <1>10 DEF Readme, Kernel
<1> QED
  BY <1>1, <1>2, <1>11, <1>12, <1>13, <1>5 DEF FatInv

LEMMA CloseLinks ==
  ASSUME TypeOK, LayoutInv, FatInv, CloseFat
  PROVE  FatInv'
<1> DEFINE v == IF layout.bits = 16 THEN 65535 ELSE 248
           w == Eof(layout.bits)
           f == FatSet(fat, layout.bits, 0, v)
<1>1. /\ pc = "files" /\ left = 0 /\ fat' = FatSet(f, layout.bits, 1, w)
      /\ pc' = "built" /\ nxt' = nxt /\ left' = left /\ clusterOf' = clusterOf
      /\ UNCHANGED plan /\ Len(clusterOf) = 2
  BY DEF CloseFat, Files
<1>2. nxt \in Nat /\ IsTable(fat) /\ FilesPlaced
  BY <1>1 DEF TypeOK
<1>3. layout.bits \in {12, 16}
  BY <1>1 DEF LayoutInv, Unplanned, Planned
<1>4. IsWord(v) /\ IsWord(w) /\ (layout.bits = 12 => v <= 4095 /\ w <= 4095)
  BY <1>3 DEF Eof, IsWord
<1> HIDE DEF v, w
<1>5. Linked(f, nxt) /\ IsTable(f)
  <2>1. Store(fat, layout.bits, 0, v) /\ Linked(fat, nxt)
    BY <1>1, <1>2, <1>3, <1>4 DEF Store, FatInv
  <2>2. IsTable(f)
    BY ONLY <2>1, FatSetTable, Zenon DEF f
  <2> QED
    BY <1>2, <1>4, <2>1, <2>2, LinkedReserved
<1> HIDE DEF f
<1>6. Linked(fat', nxt)
  <2>1. Store(f, layout.bits, 1, w)
    BY <1>3, <1>4, <1>5 DEF Store
  <2> QED
    BY <1>1, <1>2, <1>4, <1>5, <2>1, LinkedReserved
<1>7. req' = req /\ layout' = layout
  BY <1>1 DEF plan
<1>8. Linked(fat, nxt)'
  BY <1>1, <1>6, <1>7 DEF Linked, Link, Eof
<1>9. clusterOf = <<Readme, Kernel>> /\ Readme' = Readme /\ Kernel' = Kernel
  BY <1>1, <1>2, <1>7 DEF Readme, Kernel, FilesPlaced
<1> QED
  BY <1>1, <1>8, <1>9 DEF FatInv

LEMMA AddLinks ==
  ASSUME TypeOK, FatInv, AddFile
  PROVE  FatInv'
<1>1. /\ pc = "files" /\ pc' = "files" /\ left = 0 /\ Len(clusterOf) < 2
      /\ nxt' = nxt /\ fat' = fat /\ UNCHANGED plan
  BY DEF AddFile, Files
<1>2. \E x : clusterOf' = Append(clusterOf, x)
  BY DEF AddFile
<1>3. req' = req /\ layout' = layout /\ Readme' = Readme /\ Kernel' = Kernel
  BY <1>1 DEF plan, Readme, Kernel
<1>4. Linked(fat, nxt)'
  BY <1>1, <1>3 DEF FatInv, Linked, Link, Eof
<1>5. clusterOf' = <<Readme, Kernel>> => nxt >= 3
  <2>1. CASE clusterOf = << >>
    <3>1. Len(clusterOf') = 1
      BY <1>2, <2>1
    <3>2. Len(<<Readme, Kernel>>) = 2
      OBVIOUS
    <3> QED
      BY <3>1, <3>2
  <2>2. CASE clusterOf = <<Readme>> /\ nxt + left = 3
    BY <1>1, <2>2 DEF TypeOK
  <2> QED
    BY <1>1, <2>1, <2>2 DEF TypeOK, FilesPlaced
<1>6. pc' \notin Later
  BY <1>1 DEF Later
<1> QED
  BY <1>1, <1>3, <1>4, <1>5, <1>6 DEF FatInv

\* Every other step leaves the table, or has not begun it.
LEMMA RestLinks ==
  ASSUME TypeOK, FatInv, UNCHANGED table,
         \/ UNCHANGED plan /\ (pc' = pc \/ (pc \in Later /\ pc' \in Later))
         \/ pc' \notin Later \cup {"files"} /\ clusterOf = << >>
  PROVE  FatInv'
<1>1. fat' = fat /\ nxt' = nxt /\ clusterOf' = clusterOf /\ left' = left
  BY DEF table
<1>2. CASE UNCHANGED plan /\ (pc' = pc \/ (pc \in Later /\ pc' \in Later))
  <2>1. req' = req /\ layout' = layout /\ Readme' = Readme /\ Kernel' = Kernel
    BY <1>2 DEF plan, Readme, Kernel
  <2>2. Linked(fat, nxt)' <=> Linked(fat, nxt)
    BY <1>1, <2>1 DEF Linked, Link, Eof
  <2> QED
    BY <1>1, <1>2, <2>1, <2>2 DEF FatInv
<1>3. CASE pc' \notin Later \cup {"files"} /\ clusterOf = << >>
  <2>1. clusterOf' # <<Readme', Kernel'>>
    BY <1>1, <1>3
  <2> QED
    BY <1>1, <1>3, <2>1 DEF FatInv
<1> QED
  BY <1>2, <1>3

LEMMA StepFatInv ==
  ASSUME LifeInv, FatInv, [LifeNext]_allVars
  PROVE  FatInv'
<1> USE DEF LifeInv
<1>1. CASE Plan \/ Pick
  <2>1. UNCHANGED table /\ pc \in Unplanned /\ pc' \in Unplanned \cup {"sector"}
    <3>1. CASE Plan
      BY <3>1 DEF Plan, Unplanned
    <3>2. CASE Pick
      BY <3>2 DEF Pick, Unplanned
    <3> QED
      BY <1>1, <3>1, <3>2
  <2>2. clusterOf = << >>
    BY <2>1 DEF LayoutInv
  <2>3. pc' \notin Later \cup {"files"}
    BY <2>1 DEF Later, Unplanned
  <2> QED
    BY <2>1, <2>2, <2>3, RestLinks
<1>2. CASE BootSector
  <2>1. UNCHANGED table /\ pc = "sector" /\ pc' \in {"files", "crashed"}
    BY <1>2 DEF BootSector
  <2>2. fat = << >> /\ clusterOf = << >>
    BY <2>1 DEF LayoutInv
  <2>3. nxt = 2
    BY <2>2 DEF TypeOK, FilesPlaced
  <2>4. fat' = << >> /\ clusterOf' = << >> /\ nxt' = 2
    BY <2>1, <2>2, <2>3 DEF table
  <2>5. req' = req /\ layout' = layout
    BY <1>2 DEF BootSector
  <2>6. Linked(fat, nxt)'
    BY <2>4, <2>5, LinkedEmpty DEF Linked, Link, Eof
  <2>7. pc' \notin Later
    BY <2>1 DEF Later
  <2> QED
    BY <2>4, <2>6, <2>7 DEF FatInv
<1>3. CASE AddFile
  BY <1>3, AddLinks
<1>4. CASE Chain
  BY <1>4, ChainLinks
<1>5. CASE CloseFat
  BY <1>5, CloseLinks
<1>6. CASE StartCheck \/ Follow \/ EndOfFile \/ IsoNext
  <2>1. UNCHANGED plan /\ UNCHANGED table
    BY <1>6, CheckSteps DEF IsoNext, GiveFile, BuildIso, CheckIso
  <2>2. /\ pc \in {"built", "walk", "checked", "wrap", "wrapped"}
        /\ pc' \in {"walk", "checked", "wrap", "wrapped", "isoRefused", "isoChecked"}
    BY <1>6, CheckSteps DEF IsoNext, GiveFile, BuildIso, CheckIso
  <2>3. pc \in Later /\ pc' \in Later
    BY <2>2 DEF Later
  <2> QED
    BY <2>1, <2>3, RestLinks
<1>7. CASE ScanNext
  <2>1. UNCHANGED plan /\ UNCHANGED table
    BY <1>7 DEF ScanNext, ScanStep, Command, Boot, FreeDrive, ScanMiss, ScanHit, ReadPart,
                Report, TableFails, diskVars
  <2>2. pc \in Later /\ pc' \in Later
    BY <1>7, StepBoot, StepFreeDrive, StepScanMiss, StepScanHit, StepReadPart, StepReport,
       StepTableFails DEF ScanNext, ScanStep, Command
  <2> QED
    BY <2>1, <2>2, RestLinks
<1>8. CASE UNCHANGED allVars
  BY <1>8, RestLinks DEF allVars, vars, diskVars
<1> QED
  BY <1>1, <1>2, <1>3, <1>4, <1>5, <1>6, <1>7, <1>8 DEF LifeNext, BuildNext

\* For every request the table holds the chains of the two files and nothing
\* else (mkqizoimg.fat_set, build_image), at either width.
THEOREM TableIsLinked == LifeSpec => []FatInv
<1>1. LifeInit => FatInv
  BY DEF LifeInit, Init, FatInv, Later
<1>2. LifeInv /\ FatInv /\ [LifeNext]_allVars => FatInv'
  BY StepFatInv
<1> QED
  BY <1>1, <1>2, LifeInvariant, PTL DEF LifeSpec

---------------------------------------------------------------------------
(* What is reported.  Entries up to the limit of count_free are counted. *)
Limit(is12, sectors, c) ==
  Min({IF is12 THEN (sectors * SECTOR * 2) \div 3 ELSE (sectors * SECTOR) \div 2, c + 2})

\* The clusters counted as used.
Taken(is12, n) == {i \in 2..(n - 1) : Entry(is12, i) # 0}

LEMMA CountSplit ==
  ASSUME NEW n \in Nat, n >= 2, NEW Z, NEW N, Z = (2..(n - 1)) \ N, N \subseteq 2..(n - 1)
  PROVE  /\ Cardinality(Z) \in Nat /\ Cardinality(N) \in Nat /\ IsFiniteSet(N)
         /\ Cardinality(Z) = (n - 2) - Cardinality(N)
<1> DEFINE S == 2..(n - 1)
<1>1. IsFiniteSet(S) /\ Cardinality(S) = n - 2
  <2>1. Cardinality(S) = (IF 2 > n - 1 THEN 0 ELSE ((n - 1) - 2) + 1) /\ IsFiniteSet(S)
    BY FS_Interval
  <2> QED
    BY <2>1
<1> HIDE DEF S
<1>2. N \subseteq S /\ S \ N = Z
  BY DEF S
<1>3. /\ IsFiniteSet(N) /\ Cardinality(S \ N) = Cardinality(S) - Cardinality(N)
      /\ Cardinality(S) \in Nat /\ Cardinality(N) \in Nat /\ Cardinality(N) <= Cardinality(S)
  BY <1>1, <1>2, CardDiff
<1>4. Cardinality(Z) = Cardinality(S \ N)
  BY <1>2, Zenon
<1> QED
  BY ONLY <1>1, <1>3, <1>4, n \in Nat, n >= 2

\* The difference between the clusters and the free ones is the number of
\* entries counted that are not zero.
LEMMA FreeCount ==
  ASSUME NEW is12 \in BOOLEAN, NEW s \in Nat, s >= 1, NEW c \in Nat
  PROVE  LET n == Limit(is12, s, c)
             N == Taken(is12, n)
         IN  /\ n \in Nat /\ n >= 2 /\ IsFiniteSet(N) /\ Cardinality(N) \in Nat
             /\ CountFree(is12, s, c) = c - Cardinality(N)
             /\ n <= c + 2 /\ n <= IF is12 THEN (s * 1024) \div 3 ELSE s * 256
             /\ n = c + 2 \/ n = IF is12 THEN (s * 1024) \div 3 ELSE s * 256
<1> DEFINE n == Limit(is12, s, c)
           a == IF is12 THEN (s * SECTOR * 2) \div 3 ELSE (s * SECTOR) \div 2
           Z == {i \in 2..(n - 1) : Entry(is12, i) = 0}
           N == {i \in 2..(n - 1) : Entry(is12, i) # 0}
<1>1. a \in Nat /\ a >= 2 /\ a = IF is12 THEN (s * 1024) \div 3 ELSE s * 256
  <2>1. (s * 512) \div 2 = s * 256 /\ s * 256 \in Nat /\ s * 256 >= 2
    OBVIOUS
  <2>2. s * 512 * 2 = s * 1024 /\ (s * 1024) \div 3 \in Nat /\ (s * 1024) \div 3 >= 2
    OBVIOUS
  <2> QED
    BY <2>1, <2>2 DEF SECTOR
<1>2. n = IF a <= c + 2 THEN a ELSE c + 2
  <2> HIDE DEF a
  <2>1. Min({a, c + 2}) = IF a <= c + 2 THEN a ELSE c + 2
    BY <1>1, MinOfTwo
  <2> QED
    BY <2>1 DEF Limit, a
<1>3. CountFree(is12, s, c) = Cardinality(Z) + (c - (n - 2))
  BY DEF CountFree, Limit
<1> HIDE DEF a, n
<1>4. n \in Nat /\ n >= 2 /\ n <= c + 2 /\ n <= a /\ (n = c + 2 \/ n = a)
  BY <1>1, <1>2
<1>5. /\ Cardinality(Z) \in Nat /\ Cardinality(N) \in Nat /\ IsFiniteSet(N)
      /\ Cardinality(Z) = (n - 2) - Cardinality(N)
  <2>1. Z = (2..(n - 1)) \ N /\ N \subseteq 2..(n - 1)
    OBVIOUS
  <2> HIDE DEF Z, N
  <2> QED
    BY <1>4, <2>1, CountSplit
<1> HIDE DEF Z, N
<1>6. CountFree(is12, s, c) = c - Cardinality(N)
  BY <1>3, <1>4, <1>5
<1> QED
  BY <1>1, <1>4, <1>5, <1>6 DEF n, N, Taken

\* A hit on the second drive is a sound volume, read by the width it has.
LEMMA OtherHit ==
  ASSUME req \in Requests, drive = 1, Hit
  PROVE  LET v == Vol(drive)
             c == Clusters(v.bpb)
         IN  /\ v = req.other /\ c \in Nat /\ c = v.clusters /\ c < 65525
             /\ v.bits = (IF c < 4085 THEN 12 ELSE 16) /\ v.bits * (c + 2) <= 4096 * v.bpb.spf
             /\ v.bpb.spf \in Nat /\ v.bpb.reserved \in Nat
             /\ v.used = Cardinality({i \in 2..(c + 1) : FatEntry(v.fat, 0, v.bits = 12, i) # 0})
             /\ IsTable(v.fat) /\ First + idx = v.start
<1> DEFINE v == Vol(drive)
           b == v.bpb
           c == Clusters(b)
<1>1. v = req.other /\ SoundVolume(v)
  BY RequestsAssumption DEF Vol
<1>2. Sane(b) /\ DataStart(b) < Sects(b) /\ c >= 2 /\ First + idx = v.start
  BY DEF Hit
<1>3. /\ b.reserved \in Nat /\ b.spf \in Nat /\ b.rootent \in Nat
      /\ b.mbrSects \in Nat /\ b.bigSects \in Nat /\ IsTable(v.fat)
      /\ v.clusters = c /\ v.clusters < 65525
      /\ v.bits = IF v.clusters < 4085 THEN 12 ELSE 16
      /\ v.bits * (v.clusters + 2) <= 8 * SECTOR * b.spf
      /\ v.used = Cardinality({i \in 2..(v.clusters + 1) :
                                FatEntry(v.fat, 0, v.bits = 12, i) # 0})
  BY <1>1, <1>2 DEF SoundVolume
<1>4. c \in Nat
  <2>1. Sects(b) \in Int
    <3> DEFINE m == IF b.mbrSects # 0 THEN b.mbrSects ELSE b.bigSects
    <3>1. m \in Int
      BY <1>3
    <3> HIDE DEF m
    <3>2. Min({m, 268435455}) \in Int
      BY <3>1, MinOfTwo
    <3> QED
      BY <3>2 DEF Sects, m
  <2>2. DataStart(b) \in Int
    <3>1. b.fats \in Int
      BY <1>2 DEF Sane
    <3>2. b.fats * b.spf \in Int
      BY <3>1, <1>3
    <3>3. (b.rootent * 32 + 511) \div 512 \in Int
      BY <1>3
    <3> QED
      BY <1>3, <3>2, <3>3 DEF DataStart
  <2>3. \A x \in Int, y \in {1, 2, 4, 8, 16, 32, 64, 128} : x \div y \in Int
    OBVIOUS
  <2>4. b.spc \in {1, 2, 4, 8, 16, 32, 64, 128}
    BY <1>2 DEF Sane
  <2> HIDE DEF b
  <2>5. Clusters(b) \in Int
    <3>1. Sects(b) - DataStart(b) \in Int
      BY <2>1, <2>2
    <3> QED
      BY <3>1, <2>3, <2>4 DEF Clusters
  <2> QED
    BY <1>2, <2>5 DEF b
<1>5. 8 * SECTOR * b.spf = 4096 * b.spf
  BY <1>3 DEF SECTOR
<1> HIDE DEF v
<1>6. /\ c = v.clusters /\ c < 65525 /\ v.bits = (IF c < 4085 THEN 12 ELSE 16)
      /\ v.bits * (c + 2) <= 4096 * b.spf
      /\ v.used = Cardinality({i \in 2..(c + 1) : FatEntry(v.fat, 0, v.bits = 12, i) # 0})
  BY <1>3, <1>5
<1> QED
  BY <1>1, <1>2, <1>3, <1>4, <1>6 DEF v

\* With the boot sector at the starting point, the table's own sectors are read.
LEMMA EntryAtTable ==
  ASSUME LifeInv, pc = "table", idx = 0, NEW is12, NEW i
  PROVE  Entry(is12, i) = FatEntry(Vol(drive).fat, 0, is12, i)
<1> DEFINE v == Vol(drive)
<1>1. /\ req \in Requests /\ at \in 1..3 /\ drive \in 0..1 /\ Hit /\ PartLba \in Nat
      /\ req.blob \in Nat /\ BpbSound
  BY TableFacts, RequestType
<1>2. First \in Int /\ First + idx = v.start
  BY <1>1 DEF First, PART_LBA, STAGE2_SECTORS, Hit
<1>3. v.bpb.reserved \in Int
  <2>1. CASE drive = 1
    BY <1>1, <2>1, OtherHit
  <2>2. CASE drive = 0
    BY <1>1, <2>2 DEF Vol, BpbSound, Bpb, RESERVED
  <2> QED
    BY <1>1, <2>1, <2>2
<1> HIDE DEF v
<1>4. (TableLba - v.start - v.bpb.reserved) * SECTOR = 0
  <2>1. TableLba = First + v.bpb.reserved
    BY DEF TableLba, v
  <2>2. v.start = First
    BY <1>2
  <2>3. (First + v.bpb.reserved) - First - v.bpb.reserved = 0
    BY <1>2, <1>3
  <2> QED
    BY <2>1, <2>2, <2>3 DEF SECTOR
<1> QED
  BY <1>4 DEF Entry, v

\* What is reported of the second drive.
LEMMA OtherReport ==
  ASSUME LifeInv, pc = "table", drive = 1, done >= 1
  PROVE  LET v == Vol(drive)
             c == Clusters(v.bpb)
             free == CountFree(c < 4085, done, c)
         IN  /\ c = v.clusters /\ (c < 4085 <=> v.bits = 12) /\ free <= c
             /\ idx = 0 /\ v.bits = 16 => c - free <= v.used
             /\ idx = 0 /\ done = TableSectors => c - free = v.used
<1> DEFINE v == Vol(drive)
           c == Clusters(v.bpb)
           is12 == c < 4085
           n == Limit(is12, done, c)
           N == Taken(is12, n)
           M == {i \in 2..(c + 1) : FatEntry(v.fat, 0, v.bits = 12, i) # 0}
           free == CountFree(is12, done, c)
<1>1. req \in Requests /\ Hit /\ done \in Nat /\ done <= TableSectors
  BY TableFacts
<1>2. /\ c \in Nat /\ c = v.clusters /\ c < 65525 /\ v.bits = (IF c < 4085 THEN 12 ELSE 16)
      /\ v.bits * (c + 2) <= 4096 * v.bpb.spf /\ v.bpb.spf \in Nat /\ v.used = Cardinality(M)
  BY <1>1, OtherHit
<1>3. /\ n \in Nat /\ n >= 2 /\ IsFiniteSet(N) /\ Cardinality(N) \in Nat
      /\ free = c - Cardinality(N)
      /\ n <= c + 2 /\ n <= IF is12 THEN (done * 1024) \div 3 ELSE done * 256
      /\ n = c + 2 \/ n = IF is12 THEN (done * 1024) \div 3 ELSE done * 256
  <2> HIDE DEF c
  <2>1. is12 \in BOOLEAN
    OBVIOUS
  <2> HIDE DEF is12
  <2>2. c \in Nat /\ done \in Nat /\ done >= 1
    BY <1>1, <1>2
  <2> QED
    BY ONLY <2>1, <2>2, FreeCount DEF n, N, free
<1>4. TableSectors = IF v.bpb.spf <= 512 THEN v.bpb.spf ELSE 512
  BY <1>2, MinOfTwo DEF TableSectors, TableOf
<1> HIDE DEF v, c
<1>5. is12 <=> v.bits = 12
  BY <1>2
<1>6. ASSUME idx = 0
      PROVE  N = {i \in 2..(n - 1) : FatEntry(v.fat, 0, v.bits = 12, i) # 0}
  <2>1. \A i : Entry(is12, i) = FatEntry(v.fat, 0, is12, i)
    BY <1>6, EntryAtTable DEF v
  <2>2. \A i : FatEntry(v.fat, 0, is12, i) = FatEntry(v.fat, 0, v.bits = 12, i)
    <3>1. CASE is12
      BY <1>5, <3>1 DEF FatEntry
    <3>2. CASE ~is12
      BY <1>5, <3>2 DEF FatEntry
    <3> QED
      BY <3>1, <3>2
  <2> QED
    BY <2>1, <2>2 DEF Taken
<1>7. IsFiniteSet(M) /\ Cardinality(M) \in Nat
  <2>1. IsFiniteSet(2..(c + 1))
    <3>1. c + 1 \in Int /\ 2 \in Int
      BY <1>2
    <3> QED
      BY ONLY <3>1, FS_Interval
  <2>2. M \subseteq 2..(c + 1)
    OBVIOUS
  <2> HIDE DEF M
  <2> QED
    BY ONLY <2>1, <2>2, FS_Subset, FS_CardinalityType
<1>8. idx = 0 => Cardinality(N) <= Cardinality(M)
  <2> SUFFICES ASSUME idx = 0 PROVE Cardinality(N) <= Cardinality(M)
    OBVIOUS
  <2>1. n - 1 <= c + 1
    BY <1>2, <1>3
  <2>2. N \subseteq M
    BY <1>2, <1>3, <1>6, <2>1
  <2> HIDE DEF N, M
  <2> QED
    BY <1>7, <2>2, FS_Subset
<1>9. done = TableSectors => n = c + 2
  <2> SUFFICES ASSUME done = TableSectors, n # c + 2 PROVE FALSE
    OBVIOUS
  <2>1. CASE c < 4085
    <3>1. n = (done * 1024) \div 3 /\ n <= c + 2 /\ 12 * (c + 2) <= 4096 * v.bpb.spf
      BY <1>2, <1>3, <2>1
    <3>2. 3 * (c + 2) <= 1024 * done
      BY <1>1, <1>2, <1>4, <2>1, <3>1
    <3>3. c + 2 <= (done * 1024) \div 3
      BY <1>1, <1>2, <3>2
    <3> QED
      BY <1>2, <1>3, <3>1, <3>3
  <2>2. CASE ~(c < 4085)
    <3>1. n = done * 256 /\ n <= c + 2 /\ 16 * (c + 2) <= 4096 * v.bpb.spf
      BY <1>2, <1>3, <2>2
    <3>2. c + 2 <= done * 256
      BY <1>1, <1>2, <1>4, <3>1
    <3> QED
      BY <1>1, <1>2, <1>3, <3>1, <3>2
  <2> QED
    BY <2>1, <2>2
<1>10. idx = 0 /\ done = TableSectors => N = M
  <2> SUFFICES ASSUME idx = 0, done = TableSectors PROVE N = M
    OBVIOUS
  <2>1. n - 1 = c + 1
    BY <1>2, <1>9
  <2> QED
    BY <1>6, <2>1
<1> HIDE DEF N, M, n
<1>11. free <= c /\ c - free = Cardinality(N)
  BY <1>2, <1>3
<1> QED
  BY <1>2, <1>5, <1>8, <1>10, <1>11 DEF v, c

\* The size the damaged field of the image gives.
LEMMA BootClusters ==
  ASSUME req \in Requests, total \in Int, Planned, BpbSound
  PROVE  /\ Clusters(bpb) = layout.clusters + 25165824
         /\ layout.clusters \in Int /\ layout.clusters >= 4085
<1>1. /\ layout.fatSize \in Nat /\ layout.clusters \in Int /\ layout.clusters >= 4085
      /\ layout.clusters = total - PartLba - 46 - 2 * layout.fatSize
  BY PlannedFacts DEF Planned
<1>2. total - PART_LBA <= 65535 /\ PartLba \in Nat /\ PartLba >= 24
  BY RequestType DEF BpbSound
<1> DEFINE x == total - PartLba
<1>3. x \in Nat /\ x < 65536
  BY <1>1, <1>2 DEF PART_LBA
<1>4. x % 65536 = x
  <2> HIDE DEF x
  <2> QED
    BY <1>3
<1>5. /\ bpb.spc = 1 /\ bpb.reserved = 32 /\ bpb.fats = 2 /\ bpb.rootent = 224
      /\ bpb.mbrSects = 0 /\ bpb.spf = layout.fatSize /\ bpb.bigSects = x + 25165824
  BY <1>4 DEF BpbSound, Bpb, RESERVED
<1>6. Sects(bpb) = x + 25165824
  <2>1. x + 25165824 \in Int /\ x + 25165824 <= 268435455
    BY <1>3
  <2> HIDE DEF x
  <2> QED
    BY <1>5, <2>1, MinOfTwo DEF Sects
<1>7. DataStart(bpb) = 46 + 2 * layout.fatSize
  BY <1>1, <1>5 DEF DataStart
<1>8. \A y \in Int : y \div 1 = y
  OBVIOUS
<1>9. Clusters(bpb) = (x + 25165824) - (46 + 2 * layout.fatSize)
  <2>1. (x + 25165824) - (46 + 2 * layout.fatSize) \in Int
    BY <1>1, <1>3
  <2> HIDE DEF x
  <2> QED
    BY <1>5, <1>6, <1>7, <1>8, <2>1 DEF Clusters
<1> QED
  BY <1>1, <1>2, <1>9

\* What is reported of the boot volume.
LEMMA BootReport ==
  ASSUME LifeInv, FatInv, pc = "table", drive = 0, done >= 1
  PROVE  LET v == Vol(drive)
             c == Clusters(v.bpb)
             free == CountFree(c < 4085, done, c)
         IN  /\ c = v.clusters + 25165824 /\ ~(c < 4085) /\ free <= c
             /\ idx = 0 /\ v.bits = 16 => c - free <= v.used
             /\ idx = 0 /\ v.bits = 16 /\ done = TableSectors => c - free = v.used
<1> DEFINE v == Vol(drive)
           c == Clusters(v.bpb)
           is12 == c < 4085
           n == Limit(is12, done, c)
           N == Taken(is12, n)
           free == CountFree(is12, done, c)
<1>1. /\ req \in Requests /\ total \in Int /\ Planned /\ BpbSound /\ done \in Nat
      /\ done <= TableSectors /\ pc \in Later
  BY TableFacts DEF Later
<1>2. v.bpb = bpb /\ v.bits = layout.bits /\ v.clusters = layout.clusters /\ v.used = nxt - 2
      /\ v.fat = fat
  BY DEF Vol
<1>3. c = layout.clusters + 25165824 /\ c \in Nat /\ c >= 25169909
  BY <1>1, <1>2, BootClusters
<1>4. /\ layout.fatSize \in Nat /\ layout.fatSize >= 3
      /\ layout.bits = 16 => 2 * (layout.clusters + 2) <= layout.fatSize * 512
      /\ layout.clusters \in Int /\ layout.clusters >= 4085
  BY <1>1, PlannedFacts DEF Planned
<1>5. TableSectors = IF layout.fatSize <= 512 THEN layout.fatSize ELSE 512
  <2>1. v.bpb.spf = layout.fatSize
    BY <1>1, <1>2 DEF BpbSound, Bpb
  <2> QED
    BY <1>4, <2>1, MinOfTwo DEF TableSectors, TableOf
<1> HIDE DEF v, c
<1>6. is12 = FALSE
  BY <1>3
<1>7. /\ n \in Nat /\ n >= 2 /\ IsFiniteSet(N) /\ Cardinality(N) \in Nat
      /\ free = c - Cardinality(N)
      /\ n <= c + 2 /\ n <= IF is12 THEN (done * 1024) \div 3 ELSE done * 256
      /\ n = c + 2 \/ n = IF is12 THEN (done * 1024) \div 3 ELSE done * 256
  <2>1. is12 \in BOOLEAN
    OBVIOUS
  <2>2. c \in Nat /\ done \in Nat /\ done >= 1
    BY <1>1, <1>3
  <2> HIDE DEF is12
  <2> QED
    BY ONLY <2>1, <2>2, FreeCount DEF n, N, free
<1>8. n = done * 256
  <2>1. done <= 512
    BY <1>1, <1>4, <1>5
  <2>2. done * 256 <= 131072
    BY <1>1, <2>1
  <2> HIDE DEF n, is12
  <2>3. c > 131072 /\ c \in Nat
    BY <1>3
  <2>4. n = c + 2 \/ n = done * 256
    BY ONLY <1>6, <1>7
  <2>5. CASE n = c + 2
    <3>1. n <= done * 256
      BY <1>6, <1>7
    <3> QED
      BY <1>1, <2>2, <2>3, <2>5, <3>1
  <2> QED
    BY <2>4, <2>5
<1>9. ASSUME idx = 0, layout.bits = 16
      PROVE  /\ Cardinality(N) <= nxt - 2
             /\ done = TableSectors => Cardinality(N) = nxt - 2
  <2>1. /\ nxt \in Nat /\ nxt >= 2 /\ nxt = 3 + req.kernel /\ req.kernel \in Nat
        /\ req.kernel <= 1024
    <3>1. clusterOf = <<Readme, Kernel>> /\ left = 0 /\ nxt >= 2
      BY <1>1 DEF FatInv
    <3>2. nxt \in Nat /\ FilesPlaced
      BY DEF LifeInv, TypeOK
    <3>3. req.kernel \in Nat /\ req.kernel <= 1024
      BY <1>1, RequestType
    <3> QED
      BY <3>1, <3>2, <3>3 DEF FilesPlaced
  <2>2. \A i \in 2..(n - 1) : Entry(is12, i) = Wide(fat, i)
    <3>1. IsTable(fat)
      BY DEF LifeInv, TypeOK
    <3>2. \A i \in Nat : FatEntry(fat, 0, FALSE, i) = Wide(fat, i)
      BY <3>1, EntryForms
    <3>3. \A i : Entry(FALSE, i) = FatEntry(fat, 0, FALSE, i)
      BY <1>2, <1>9, EntryAtTable DEF v
    <3> HIDE DEF is12
    <3>4. \A i \in Nat : Entry(is12, i) = Wide(fat, i)
      BY ONLY <1>6, <3>2, <3>3, Zenon
    <3>5. \A i \in 2..(n - 1) : i \in Nat
      BY <1>7
    <3> QED
      BY ONLY <3>4, <3>5, Zenon
  <2>3. \A i \in Nat : i >= 2 => Wide(fat, i) = IF i < nxt THEN Link(i) ELSE 0
    BY <1>1, <1>9 DEF FatInv, Linked
  <2>4. \A i \in Nat : i >= 2 => Link(i) # 0
    BY <1>9 DEF Link, Eof
  <2>5. N = {i \in 2..(n - 1) : i < nxt}
    <3>1. \A i \in 2..(n - 1) : i \in Nat /\ i >= 2
      BY <1>7
    <3> HIDE DEF n, is12
    <3>2. \A i \in 2..(n - 1) : Entry(is12, i) # 0 <=> i < nxt
      BY <2>1, <2>2, <2>3, <2>4, <3>1
    <3> QED
      BY <3>2 DEF Taken
  <2> DEFINE m == IF n <= nxt THEN n ELSE nxt
  <2>6. N = 2..(m - 1) /\ m \in Nat /\ m >= 2 /\ m <= nxt
    <3> HIDE DEF n, N
    <3>1. m \in Nat /\ m >= 2 /\ m <= nxt
      BY <1>7, <2>1
    <3>2. {i \in 2..(n - 1) : i < nxt} = 2..(m - 1)
      BY <1>7, <2>1
    <3> QED
      BY <2>5, <3>1, <3>2
  <2>7. Cardinality(2..(m - 1)) = m - 2
    <3> HIDE DEF m
    <3>1. m - 1 \in Int /\ 2 \in Int
      BY <2>6
    <3>2. Cardinality(2..(m - 1)) = IF 2 > m - 1 THEN 0 ELSE ((m - 1) - 2) + 1
      BY ONLY <3>1, FS_Interval
    <3> QED
      BY <2>6, <3>2
  <2>8. done = TableSectors => m = nxt
    <3> SUFFICES ASSUME done = TableSectors PROVE nxt <= n
      BY <1>7, <2>1
    <3>1. layout.fatSize >= 16
      BY <1>4, <1>9
    <3>2. done >= 16
      BY <1>4, <1>5, <3>1
    <3> HIDE DEF n
    <3> QED
      BY <1>1, <1>8, <2>1, <3>2
  <2> HIDE DEF m, N
  <2>9. Cardinality(N) = m - 2
    BY <2>6, <2>7
  <2> QED
    BY <2>1, <2>6, <2>8, <2>9
<1> HIDE DEF N, n
<1>10. free <= c /\ c - free = Cardinality(N)
  BY <1>3, <1>7
<1> QED
  BY <1>2, <1>3, <1>9, <1>10 DEF v, c

\* The boot volume is found at the starting point unless it is found again.
LEMMA BootStart ==
  ASSUME LifeInv, pc = "table", drive = 0, done >= 1
  PROVE  /\ First \in Nat /\ idx \in Nat
         /\ First + idx = First <=> ~FoundAgain
<1>1. /\ First \in Nat /\ First + idx = PartLba /\ req.bad # PartLba /\ ~NoRoom
      /\ (at = 1 /\ First = PartLba) \/ (at = 2 /\ First = 63 /\ Lost)
      /\ idx \in 0..95 /\ PartLba \in Nat /\ done \in Nat
  BY TableFacts
<1>2. req.bad \notin FirstPart(First)
  BY <1>1 DEF LifeInv, FoundInv
<1>3. CASE at = 1 /\ First = PartLba
  <2>1. ~FoundAgain
    BY <1>2, <1>3 DEF FoundAgain
  <2> QED
    BY <1>1, <1>3, <2>1
<1>4. CASE at = 2 /\ First = 63 /\ Lost
  <2>1. req.bad \in FirstPart(PartLba)
    BY <1>1, <1>4 DEF Lost
  <2>2. PartLba \in 63..158
    BY <1>1, <1>4
  <2>3. FoundAgain
    BY <1>2, <1>4, <2>1, <2>2 DEF FoundAgain, FAT_SCAN_LBAS
  <2>4. PartLba # 63
    BY <1>2, <1>4, <2>1
  <2> QED
    BY <1>1, <1>4, <2>3, <2>4
<1> QED
  BY <1>1, <1>3, <1>4

LEMMA ReportTrue ==
  ASSUME LifeInv, FatInv, Report
  PROVE  UsedIsTrue'
<1>1. /\ pc = "table" /\ UNCHANGED plan /\ UNCHANGED table /\ drive' = drive
      /\ (done = TableSectors \/ done > 0)
  BY DEF Report
<1>2. /\ idx \in 0..95 /\ drive \in 0..1 /\ done \in Nat /\ done >= 1 /\ req \in Requests
  BY <1>1, TableFacts
<1> DEFINE v == Vol(drive)
           c == Clusters(v.bpb)
           free == CountFree(c < 4085, done, c)
           small == c < 4085
           r == [present |-> TRUE, start |-> First + idx, first |-> First,
                 clusters |-> c, free |-> free,
                 is12 |-> small, whole |-> done = TableSectors]
<1>3. rep' = r
  BY DEF Report
<1>4. /\ r.start = First + idx /\ r.first = First /\ r.clusters = c /\ r.free = free
      /\ r.is12 = small /\ r.whole = (done = TableSectors)
  OBVIOUS
<1> HIDE DEF r
<1>5. \A d : Vol(d)' = Vol(d)
  BY <1>1, ViewKept
<1>6. FoundAgain' <=> FoundAgain
  BY <1>1, ViewKept
<1>7. /\ c = v.clusters + (IF drive = 0 THEN 384 * 65536 ELSE 0)
      /\ (c < 4085 <=> (drive = 1 /\ v.bits = 12)) /\ free <= c
      /\ drive = 0 => (First + idx = First <=> ~FoundAgain)
      /\ First + idx = First <=> idx = 0
      /\ idx = 0 /\ v.bits = 16 => c - free <= v.used
      /\ done = TableSectors /\ idx = 0 /\ (c < 4085 <=> v.bits = 12) => c - free = v.used
  <2>1. CASE drive = 0
    <3>1. /\ c = v.clusters + 25165824 /\ ~(c < 4085) /\ free <= c
          /\ idx = 0 /\ v.bits = 16 => c - free <= v.used
          /\ idx = 0 /\ v.bits = 16 /\ done = TableSectors => c - free = v.used
      BY <1>1, <1>2, <2>1, BootReport
    <3>2. First \in Nat /\ idx \in Nat /\ (First + idx = First <=> ~FoundAgain)
      BY <1>1, <1>2, <2>1, BootStart
    <3>3. v.bits \in {12, 16}
      <4>1. Planned
        BY <1>1, TableFacts
      <4> QED
        BY <2>1, <4>1 DEF Vol, Planned
    <3> HIDE DEF v, c, free
    <3> QED
      BY <2>1, <3>1, <3>2, <3>3, SMT
  <2>2. CASE drive = 1
    <3>1. /\ c = v.clusters /\ (c < 4085 <=> v.bits = 12) /\ free <= c
          /\ idx = 0 /\ v.bits = 16 => c - free <= v.used
          /\ idx = 0 /\ done = TableSectors => c - free = v.used
      BY <1>1, <1>2, <2>2, OtherReport
    <3>2. First \in Nat
      BY <1>1, <1>2, TableFacts, RequestType DEF First, PART_LBA, STAGE2_SECTORS
    <3>3. c \in Nat
      BY <1>1, <1>2, <2>2, TableFacts, OtherHit
    <3> HIDE DEF v, c, free
    <3> QED
      BY <1>2, <2>2, <3>1, <3>2, <3>3, SMT
  <2> QED
    BY <1>2, <2>1, <2>2
<1> HIDE DEF v, c, free
<1>8. Vol(drive)' = v
  BY <1>1, <1>5 DEF v
<1>9. /\ small <=> (drive = 1 /\ v.bits = 12)
      /\ free <= c /\ (drive = 0 => (First + idx = First <=> ~FoundAgain))
      /\ First + idx = First <=> idx = 0
      /\ idx = 0 /\ v.bits = 16 => c - free <= v.used
      /\ done = TableSectors /\ idx = 0 /\ (small <=> v.bits = 12) => c - free = v.used
      /\ small \in BOOLEAN
  BY <1>7 DEF small
<1>10. r.clusters = v.clusters + (IF drive = 0 THEN 384 * 65536 ELSE 0)
  BY <1>4, <1>7, SMT
<1> HIDE DEF small
<1>11. /\ r.is12 <=> (drive = 1 /\ v.bits = 12)
       /\ r.free <= r.clusters /\ (drive = 0 => (r.start = r.first <=> ~FoundAgain))
  BY ONLY <1>4, <1>9, Zenon
<1>12. r.start = r.first /\ v.bits = 16 => r.clusters - r.free <= v.used
  BY ONLY <1>4, <1>9, Zenon
<1>13. r.whole /\ r.start = r.first /\ r.is12 = (v.bits = 12) => r.clusters - r.free = v.used
  BY ONLY <1>4, <1>9, Zenon
<1> QED
  BY <1>1, <1>3, <1>6, <1>8, <1>10, <1>11, <1>12, <1>13, SMT DEF UsedIsTrue

\* Nothing is reported while a scan is under way, so a report stays true until
\* the next command.
LEMMA StepUsed ==
  ASSUME LifeInv, FatInv, UsedIsTrue, [LifeNext]_allVars
  PROVE  UsedIsTrue'
<1>1. CASE Report
  BY <1>1, ReportTrue
<1>2. CASE rep' = rep /\ pc # "idle"
  BY <1>2 DEF LifeInv, ScanInv, UsedIsTrue
<1>3. CASE Command
  <2>1. rep' = Absent
    BY <1>3 DEF Command, FreeDrive
  <2>2. rep'.present = FALSE
    BY <2>1 DEF Absent
  <2> QED
    BY <2>2 DEF UsedIsTrue
<1>4. CASE ScanStep /\ ~Report
  BY <1>2, <1>4 DEF ScanStep, Boot, ScanMiss, ScanHit, ReadPart, TableFails, scanVars
<1>5. CASE BuildNext /\ UNCHANGED <<scanVars, isoVars>>
  <2>1. pc \notin Scans
    BY <1>5, StepPlan, StepPick, StepBootSector, StepAddFile, StepChain, StepCloseFat, StepCheck
       DEF LifeInv, BuildNext
  <2> QED
    BY <1>2, <1>5, <2>1 DEF scanVars, Scans
<1>6. CASE IsoNext /\ UNCHANGED scanVars
  <2>1. pc \notin Scans
    BY <1>6, StepIso DEF LifeInv
  <2> QED
    BY <1>2, <1>6, <2>1 DEF scanVars, Scans
<1>7. CASE UNCHANGED allVars
  <2>1. UNCHANGED plan /\ UNCHANGED table /\ rep' = rep /\ drive' = drive
    BY <1>7 DEF allVars, vars, diskVars, scanVars
  <2>2. Vol(drive)' = Vol(drive) /\ (FoundAgain' <=> FoundAgain)
    BY <2>1, ViewKept
  <2> QED
    BY <2>1, <2>2, SMT DEF UsedIsTrue
<1> QED
  BY <1>1, <1>3, <1>4, <1>5, <1>6, <1>7 DEF LifeNext, ScanNext

(* What sysmngr prints as used is what the volume uses, whatever was asked   *)
(* of mkqizoimg, whatever sound volume is on the second drive, and wherever *)
(* a sector cannot be read: fat.c's count is exact over a whole table and   *)
(* never too large over a part of one.                                      *)
THEOREM UsedCountIsTrue == LifeSpec => []UsedIsTrue
<1>1. LifeInit => UsedIsTrue
  BY DEF LifeInit, ScanInit, Absent, UsedIsTrue
<1>2. LifeInv /\ FatInv /\ UsedIsTrue /\ [LifeNext]_allVars => UsedIsTrue'
  BY StepUsed
<1> QED
  BY <1>1, <1>2, LifeInvariant, TableIsLinked, PTL DEF LifeSpec

---------------------------------------------------------------------------
(* check_fs.  A FAT12 volume is a small one. *)
TwelveInv == pc \notin Unplanned /\ layout.bits = 12 => layout.fatSize <= 4

LEMMA TwelveIsSmall ==
  ASSUME req \in Requests, total \in Int, PlanLayout(total, 16) = None,
         PlanLayout(total, 12) # None
  PROVE  FatSize(total, 12) <= 4
<1> DEFINE d == DataSectors(total, 1) + 2
           wide == FatSizeFor(d, 16)
           slim == FatSizeFor(d, 12)
<1>1. d \in Int /\ d = total - PartLba - 46
  BY RequestType DEF DataSectors, RESERVED, ROOT_SECTORS
<1>2. DataSectors(total, wide) < 4085
  BY DEF PlanLayout, FatSize, None
<1> HIDE DEF d
<1>3. wide \in Nat /\ (wide > 1 => 16 * d > 4096 * (wide - 1))
  BY <1>1, TableSize DEF Width
<1>4. slim \in Nat /\ (slim > 1 => 3 * d > 4096 * (slim - 1))
  BY <1>1, TableSize DEF Width
<1>5. DataSectors(total, wide) = d - 2 * wide
  BY <1>1, <1>3, RequestType DEF DataSectors, RESERVED, ROOT_SECTORS
<1>6. slim <= 4
  <2> HIDE DEF wide, slim
  <2> QED
    BY ONLY <1>1, <1>2, <1>3, <1>4, <1>5
<1> QED
  BY <1>6 DEF FatSize, d, slim

\* Layouts are chosen by Plan and Pick only.
LEMMA StepTwelve ==
  ASSUME LifeInv, TwelveInv, [LifeNext]_allVars
  PROVE  TwelveInv'
<1> USE DEF LifeInv
<1>1. CASE Plan
  <2>1. CASE PlanLayout(total, 16) # None
    <3>1. layout'.bits = 16
      BY <1>1, <2>1, PlanResult DEF Plan
    <3> QED
      BY <3>1 DEF TwelveInv
  <2>2. CASE PlanLayout(total, 16) = None /\ PlanLayout(total, 12) # None
    <3>1. layout'.fatSize = FatSize(total, 12)
      BY <1>1, <2>2, PlanResult DEF Plan
    <3>2. FatSize(total, 12) <= 4
      BY <2>2, TwelveIsSmall DEF TypeOK
    <3> QED
      BY <3>1, <3>2 DEF TwelveInv
  <2>3. CASE PlanLayout(total, 16) = None /\ PlanLayout(total, 12) = None
    <3>1. pc' = "refused"
      BY <1>1, <2>3 DEF Plan
    <3> QED
      BY <3>1 DEF TwelveInv, Unplanned
  <2> QED
    BY <2>1, <2>2, <2>3
<1>2. CASE Pick
  <2>1. CASE PlanLayout(total, 16) # None
    <3>1. layout'.bits = 16
      BY <1>2, <2>1, PlanResult DEF Pick
    <3> QED
      BY <3>1 DEF TwelveInv
  <2>2. CASE PlanLayout(total, 16) = None
    BY <1>2, <2>2 DEF Pick, TwelveInv, Unplanned
  <2> QED
    BY <2>1, <2>2
<1>3. CASE layout' = layout /\ pc \notin Unplanned
  BY <1>3 DEF TwelveInv
<1>4. CASE BootSector \/ AddFile \/ Chain \/ CloseFat \/ StartCheck \/ Follow \/ EndOfFile
  <2>1. layout' = layout /\ pc \in {"sector", "files", "built", "walk"}
    <3>1. CASE BootSector
      BY <3>1 DEF BootSector
    <3>2. CASE AddFile \/ Chain \/ CloseFat
      BY <3>2 DEF AddFile, Chain, CloseFat, plan
    <3>3. CASE StartCheck
      BY <3>3 DEF StartCheck, plan
    <3>4. CASE Follow
      BY <3>4 DEF Follow, plan
    <3>5. CASE EndOfFile
      BY <3>5 DEF EndOfFile, plan
    <3> QED
      BY <1>4, <3>1, <3>2, <3>3, <3>4, <3>5
  <2> QED
    BY <1>3, <2>1 DEF Unplanned
<1>5. CASE IsoNext
  <2>1. layout' = layout
    BY <1>5 DEF IsoNext, GiveFile, BuildIso, CheckIso, plan
  <2>2. pc \in {"checked", "wrap", "wrapped"}
    BY <1>5 DEF IsoNext, GiveFile, BuildIso, CheckIso
  <2> QED
    BY <1>3, <2>1, <2>2 DEF Unplanned
<1>6. CASE ScanNext
  <2>1. layout' = layout
    BY <1>6 DEF ScanNext, ScanStep, Command, Boot, FreeDrive, ScanMiss, ScanHit, ReadPart,
                Report, TableFails, diskVars, plan
  <2>2. pc \in Later
    BY <1>6, StepBoot, StepFreeDrive, StepScanMiss, StepScanHit, StepReadPart, StepReport,
       StepTableFails DEF ScanNext, ScanStep, Command
  <2> QED
    BY <1>3, <2>1, <2>2, LaterPc
<1>7. CASE UNCHANGED allVars
  BY <1>7 DEF allVars, vars, diskVars, plan, TwelveInv
<1> QED
  BY <1>1, <1>2, <1>4, <1>5, <1>6, <1>7 DEF LifeNext, BuildNext

\* What cluster c of a finished image holds.
Sector(c) ==
  IF c = 2 THEN <<"README.TXT", 1>>
  ELSE IF 3 <= c /\ c <= 2 + req.kernel THEN <<"KERNEL.BIN", c - 2>> ELSE <<"zero">>

\* The sizes check_fs starts from.
LEMMA CheckSizes ==
  ASSUME LifeInv, FatInv, TwelveInv, pc \in Later
  PROVE  /\ bpb.spc = 1 /\ bpb.reserved = 32 /\ bpb.spf = layout.fatSize
         /\ PartLba \in Nat /\ layout.fatSize \in Nat /\ layout.fatSize >= 3
         /\ DataLba = PartLba + 46 + 2 * layout.fatSize
         /\ DataLba + layout.clusters = total
         /\ layout.clusters \in Int /\ layout.clusters >= 4085
         /\ Span = 512 * layout.fatSize /\ DirBytes = 96
         /\ req.kernel \in Nat /\ req.kernel <= 1024 /\ nxt = 3 + req.kernel
         /\ layout.bits \in {12, 16}
         /\ layout.bits = 16 => layout.fatSize >= 16
         /\ layout.bits = 12 => layout.fatSize <= 4 /\ layout.clusters <= 5461
<1>1. req \in Requests /\ total \in Int /\ Planned /\ BpbSound /\ FilesPlaced
  BY LaterPc DEF LifeInv, TypeOK, LayoutInv
<1>2. /\ layout.fatSize \in Nat /\ layout.fatSize >= 3 /\ layout.clusters \in Int
      /\ layout.clusters = total - PartLba - 46 - 2 * layout.fatSize
      /\ layout.bits = 16 => 2 * (layout.clusters + 2) <= layout.fatSize * 512
  BY <1>1, PlannedFacts
<1>3. layout.clusters >= 4085 /\ layout.bits \in {12, 16}
  BY <1>1 DEF Planned
<1>4. PartLba \in Nat /\ req.kernel \in Nat /\ req.kernel <= 1024
  BY <1>1, RequestType
<1>5. /\ bpb.spc = 1 /\ bpb.reserved = 32 /\ bpb.fats = 2 /\ bpb.rootent = 224
      /\ bpb.spf = layout.fatSize
  BY <1>1 DEF BpbSound, Bpb, RESERVED
<1>6. DataLba = PartLba + 46 + 2 * layout.fatSize
  BY <1>2, <1>4, <1>5 DEF DataLba, RootLba, SECTOR
<1>7. Span = 512 * layout.fatSize /\ DirBytes = 96
  BY <1>2, <1>5 DEF Span, DirBytes, SECTOR, Files
<1>8. nxt = 3 + req.kernel
  <2>1. clusterOf = <<Readme, Kernel>> /\ left = 0 /\ nxt \in Nat
    BY DEF FatInv, LifeInv, TypeOK
  <2> HIDE DEF Readme, Kernel
  <2> QED
    BY <1>1, <1>4, <2>1 DEF FilesPlaced
<1>9. layout.bits = 12 => layout.fatSize <= 4
  BY LaterPc DEF TwelveInv
<1>10. layout.bits = 12 => layout.clusters <= 5461
  <2> DEFINE d == DataSectors(total, 1) + 2
  <2>1. d \in Int /\ d = total - PartLba - 46
    BY <1>1, RequestType DEF DataSectors, RESERVED, ROOT_SECTORS
  <2>2. layout.fatSize = FatSizeFor(d, layout.bits)
    BY <1>1 DEF Planned, FatSize
  <2> HIDE DEF d
  <2>3. layout.bits = 12 => 3 * d <= 4096 * layout.fatSize
    BY <2>1, <2>2, <1>3, TableSize DEF Width
  <2> QED
    BY ONLY <2>1, <2>3, <1>2, <1>4, <1>9
<1>12. layout.bits = 16 => layout.fatSize >= 16
  BY ONLY <1>2, <1>3
<1>13. DataLba + layout.clusters = total
  BY ONLY <1>1, <1>2, <1>4, <1>6
<1> QED
  BY <1>2, <1>3, <1>4, <1>5, <1>6, <1>7, <1>8, <1>9, <1>10, <1>12, <1>13

LEMMA ContentOf ==
  ASSUME LifeInv, FatInv, TwelveInv, pc \in Later, NEW lba \in Int
  PROVE  Content(lba) = Sector(lba - DataLba + 2)
<1> DEFINE c == lba - DataLba + 2
           k == req.kernel
           own == {f \in DOMAIN Files :
                     c \in clusterOf[f][1]..(clusterOf[f][1] + clusterOf[f][2] - 1)}
<1>1. PartLba \in Nat /\ layout.fatSize \in Nat /\ DataLba = PartLba + 46 + 2 * layout.fatSize /\ k \in Nat
  BY CheckSizes
<1>2. c \in Int
  BY <1>1
<1>3. DOMAIN Files = {1, 2} /\ Files[1] = "README.TXT" /\ Files[2] = "KERNEL.BIN"
  BY DEF Files
<1>4. /\ clusterOf[1][1] = 2 /\ clusterOf[1][2] = 1
      /\ clusterOf[2][1] = (IF k = 0 THEN 0 ELSE 3) /\ clusterOf[2][2] = k
  BY DEF FatInv, Readme, Kernel
<1>5. Content(lba) = IF own = {} THEN <<"zero">>
                     ELSE LET f == CHOOSE f \in own : TRUE IN <<Files[f], c - clusterOf[f][1] + 1>>
  BY DEF Content
<1> HIDE DEF c, k
<1>6. CASE c = 2
  <2>1. own = {1}
    BY <1>1, <1>3, <1>4, <1>6
  <2>2. (CHOOSE f \in own : TRUE) = 1
    BY <2>1
  <2> QED
    BY <1>3, <1>4, <1>5, <1>6, <2>1, <2>2 DEF Sector, c
<1>7. CASE c # 2 /\ 3 <= c /\ c <= 2 + k
  <2>1. own = {2} /\ k # 0
    BY <1>1, <1>2, <1>3, <1>4, <1>7
  <2>2. (CHOOSE f \in own : TRUE) = 2
    BY <2>1
  <2>3. c - 3 + 1 = c - 2
    BY <1>2
  <2>4. Content(lba) = <<"KERNEL.BIN", c - 2>>
    BY <1>3, <1>4, <1>5, <1>7, <2>1, <2>2, <2>3
  <2> QED
    BY <1>7, <2>4 DEF Sector, c, k
<1>8. CASE c # 2 /\ ~(3 <= c /\ c <= 2 + k)
  <2>1. own = {}
    BY <1>1, <1>2, <1>3, <1>4, <1>8
  <2> QED
    BY <1>5, <1>8, <2>1 DEF Sector, c, k
<1> QED
  BY <1>6, <1>7, <1>8

LEMMA SectorDiffers ==
  ASSUME req.kernel \in Nat, NEW c \in Int, NEW d \in Int, 3 <= d, d <= 2 + req.kernel, c # d
  PROVE  Sector(c) # Sector(d)
<1>1. Sector(d) = <<"KERNEL.BIN", d - 2>>
  BY DEF Sector
<1>2. CASE c = 2
  BY <1>1, <1>2 DEF Sector
<1>3. CASE 3 <= c /\ c <= 2 + req.kernel
  BY <1>1, <1>3 DEF Sector
<1>4. CASE c # 2 /\ ~(3 <= c /\ c <= 2 + req.kernel)
  <2>1. Sector(c) = <<"zero">>
    BY <1>4 DEF Sector
  <2> QED
    BY <1>1, <2>1
<1> QED
  BY <1>2, <1>3, <1>4

\* The words check_fs reads: of a FAT16 table the entries, and zero where
\* neither a table nor a file lies.
LEMMA WordBehind ==
  ASSUME LifeInv, FatInv, TwelveInv, pc \in Later, NEW i \in Nat, NEW s \in Nat,
         2 * i >= 1024 * layout.fatSize + 96, s = (2 * i) \div 512,
         \/ s - 2 * layout.fatSize - 12 > 2 + req.kernel
         \/ s - 2 * layout.fatSize - 12 < 2
  PROVE  Fat16(i) = {0} /\ ~Strays(i)
<1>1. /\ bpb.reserved = 32 /\ bpb.spf = layout.fatSize /\ layout.fatSize \in Nat /\ PartLba \in Nat
      /\ DataLba = PartLba + 46 + 2 * layout.fatSize /\ Span = 512 * layout.fatSize
      /\ DirBytes = 96 /\ req.kernel \in Nat
  BY CheckSizes
<1> DEFINE lba == PartLba + bpb.reserved + ((2 * i) \div SECTOR)
<1>2. lba \in Int /\ lba - DataLba + 2 = s - 2 * layout.fatSize - 12
  BY <1>1 DEF SECTOR
<1>3. Content(lba) = <<"zero">>
  <2>1. Content(lba) = Sector(s - 2 * layout.fatSize - 12)
    BY <1>2, ContentOf
  <2> QED
    BY <1>1, <2>1 DEF Sector
<1>4. ~(2 * i < Span) /\ ~(2 * i < 2 * Span) /\ ~(2 * i < 2 * Span + DirBytes)
  BY <1>1
<1>5. ~Strays(i)
  BY <1>3, <1>4 DEF Strays
<1> QED
  BY <1>4, <1>5 DEF Fat16

LEMMA WordInside ==
  ASSUME LifeInv, FatInv, TwelveInv, pc \in Later, NEW i \in Nat, 2 * i < 512 * layout.fatSize
  PROVE  Fat16(i) = {Wide(fat, i)} /\ ~Strays(i)
<1>1. layout.fatSize \in Nat /\ Span = 512 * layout.fatSize
  BY CheckSizes
<1>2. 2 * i < Span /\ ~(2 * i >= 2 * Span)
  BY <1>1
<1> QED
  BY <1>2 DEF Strays, Fat16, Wide

LEMMA WideWords ==
  ASSUME LifeInv, FatInv, TwelveInv, pc \in Later, layout.bits = 16,
         NEW i \in Nat, 2 <= i, i <= 2 + req.kernel
  PROVE  /\ Fat16(i) = {IF i = 2 \/ i = 2 + req.kernel THEN 65535 ELSE i + 1}
         /\ ~Strays(i)
<1>1. /\ layout.fatSize \in Nat /\ layout.fatSize >= 16 /\ req.kernel \in Nat
      /\ req.kernel <= 1024 /\ nxt = 3 + req.kernel
  BY CheckSizes
<1>2. Fat16(i) = {Wide(fat, i)} /\ ~Strays(i)
  BY <1>1, WordInside
<1>3. Linked(fat, nxt)
  BY DEF FatInv
<1>4. Wide(fat, i) = Link(i)
  BY <1>1, <1>3 DEF Linked
<1> QED
  BY <1>2, <1>4 DEF Link, Eof

\* A pair of 12 bit entries is three bytes.
LEMMA PairBytes ==
  ASSUME IsTable(fat), NEW l \in Nat, NEW e, NEW o, Even(fat, l) = e, Odd(fat, l) = o
  PROVE  /\ Byte(fat, 3 * l) = e % 256
         /\ Byte(fat, 3 * l + 1) = (e \div 256) + 16 * (o % 16)
         /\ Byte(fat, 3 * l + 2) = o \div 16
<1>1. \A n \in Nat : Byte(fat, n) \in Nat /\ Byte(fat, n) <= 255
  BY ByteType, ByteRange
<1> DEFINE x == Byte(fat, 3 * l)
           y == Byte(fat, 3 * l + 1)
           z == Byte(fat, 3 * l + 2)
<1>2. /\ x \in Nat /\ x <= 255 /\ y \in Nat /\ y <= 255 /\ z \in Nat /\ z <= 255
  BY <1>1
<1>3. e = x + 256 * (y % 16) /\ o = (y \div 16) + 16 * z
  BY DEF Even, Odd
<1> HIDE DEF x, y, z
<1>4. PICK h \in 0..15, t \in 0..15 : y = 16 * h + t /\ y \div 16 = h /\ y % 16 = t
  <2>1. y \div 16 \in 0..15 /\ y % 16 \in 0..15 /\ y = 16 * (y \div 16) + (y % 16)
    BY <1>2
  <2> QED
    BY <2>1
<1>5. e = x + 256 * t /\ o = h + 16 * z
  BY <1>3, <1>4
<1>6. e % 256 = x /\ e \div 256 = t /\ o % 16 = h /\ o \div 16 = z
  BY ONLY <1>2, <1>4, <1>5
<1>7. y = t + 16 * h
  BY <1>4
<1> QED
  BY <1>6, <1>7 DEF x, y, z

\* Entry i of a FAT12 table, from 2 on.
Slim(i) ==
  IF i > 2 + req.kernel THEN 0
  ELSE IF i = 2 \/ i = 2 + req.kernel THEN 4095 ELSE i + 1

\* The bytes of entries 2 * l and 2 * l + 1.
SlimPair(l) ==
  /\ Byte(fat, 3 * l) = Slim(2 * l) % 256
  /\ Byte(fat, 3 * l + 1) = (Slim(2 * l) \div 256) + 16 * (Slim(2 * l + 1) % 16)
  /\ Byte(fat, 3 * l + 2) = Slim(2 * l + 1) \div 16

LEMMA SlimBytes ==
  ASSUME LifeInv, FatInv, TwelveInv, pc \in Later, layout.bits = 12,
         NEW l \in Nat, l >= 1
  PROVE  SlimPair(l)
<1>1. req.kernel \in Nat /\ nxt = 3 + req.kernel
  BY CheckSizes
<1>2. Linked(fat, nxt) /\ IsTable(fat)
  BY DEF FatInv, LifeInv, TypeOK
<1>3. Even(fat, l) = (IF 2 * l < nxt THEN Link(2 * l) ELSE 0)
  BY <1>2 DEF Linked
<1>4. Odd(fat, l) = (IF 2 * l + 1 < nxt THEN Link(2 * l + 1) ELSE 0)
  BY <1>2 DEF Linked
<1>5. \A i \in Nat : (IF i < nxt THEN Link(i) ELSE 0) = Slim(i)
  BY <1>1 DEF Slim, Link, Eof
<1>6. Even(fat, l) = Slim(2 * l) /\ Odd(fat, l) = Slim(2 * l + 1)
  <2>1. 2 * l \in Nat /\ 2 * l + 1 \in Nat
    OBVIOUS
  <2> QED
    BY <1>3, <1>4, <1>5, <2>1, Zenon
<1> QED
  BY <1>2, <1>6, PairBytes DEF SlimPair

\* On a FAT12 volume they join entries.  The first words of both files.
LEMMA SlimReadme ==
  ASSUME LifeInv, FatInv, TwelveInv, pc \in Later, layout.bits = 12
  PROVE  /\ Fat16(2) = {IF req.kernel = 0 THEN 15 ELSE IF req.kernel = 1 THEN 65535 ELSE 79}
         /\ ~Strays(2)
<1>1. req.kernel \in Nat /\ layout.fatSize \in Nat /\ layout.fatSize >= 3
  BY CheckSizes
<1>2. Fat16(2) = {Wide(fat, 2)} /\ ~Strays(2)
  BY <1>1, WordInside
<1>3. /\ Byte(fat, 4) = (Slim(2) \div 256) + 16 * (Slim(3) % 16)
      /\ Byte(fat, 5) = Slim(3) \div 16
  <2>1. SlimPair(1)
    BY SlimBytes
  <2> QED
    BY <2>1 DEF SlimPair
<1>4. Wide(fat, 2) = Byte(fat, 4) + 256 * Byte(fat, 5)
  BY DEF Wide
<1>5. Slim(2) = 4095
  BY <1>1 DEF Slim
<1>6. Slim(3) = IF req.kernel = 0 THEN 0 ELSE IF req.kernel = 1 THEN 4095 ELSE 4
  BY <1>1 DEF Slim
<1>7. Wide(fat, 2) = IF req.kernel = 0 THEN 15 ELSE IF req.kernel = 1 THEN 65535 ELSE 79
  BY ONLY <1>1, <1>3, <1>4, <1>5, <1>6
<1> QED
  BY <1>2, <1>7

LEMMA SlimKernel ==
  ASSUME LifeInv, FatInv, TwelveInv, pc \in Later, layout.bits = 12, req.kernel >= 1
  PROVE  /\ Fat16(3) = {IF req.kernel = 1 THEN 0 ELSE IF req.kernel = 2 THEN 4095
                        ELSE IF req.kernel = 3 THEN 61445 ELSE 24581}
         /\ ~Strays(3)
         /\ req.kernel >= 5 => Fat16(4) = {1792}
<1>1. req.kernel \in Nat /\ layout.fatSize \in Nat /\ layout.fatSize >= 3
  BY CheckSizes
<1>2. Fat16(3) = {Wide(fat, 3)} /\ ~Strays(3) /\ Fat16(4) = {Wide(fat, 4)}
  BY <1>1, WordInside
<1>3. /\ Byte(fat, 6) = Slim(4) % 256
      /\ Byte(fat, 7) = (Slim(4) \div 256) + 16 * (Slim(5) % 16)
      /\ Byte(fat, 8) = Slim(5) \div 16
      /\ Byte(fat, 9) = Slim(6) % 256
  <2>1. SlimPair(2)
    BY SlimBytes
  <2>2. SlimPair(3)
    BY SlimBytes
  <2> QED
    BY <2>1, <2>2 DEF SlimPair
<1>4. /\ Wide(fat, 3) = Byte(fat, 6) + 256 * Byte(fat, 7)
      /\ Wide(fat, 4) = Byte(fat, 8) + 256 * Byte(fat, 9)
  BY DEF Wide
<1>5. /\ Slim(4) = IF req.kernel = 1 THEN 0 ELSE IF req.kernel = 2 THEN 4095 ELSE 5
      /\ Slim(5) = IF req.kernel <= 2 THEN 0 ELSE IF req.kernel = 3 THEN 4095 ELSE 6
      /\ req.kernel >= 5 => Slim(6) = 7
  BY <1>1 DEF Slim
<1>6. Wide(fat, 3) = IF req.kernel = 1 THEN 0 ELSE IF req.kernel = 2 THEN 4095
                     ELSE IF req.kernel = 3 THEN 61445 ELSE 24581
  BY ONLY <1>1, <1>3, <1>4, <1>5, req.kernel >= 1
<1>7. req.kernel >= 5 => Wide(fat, 4) = 1792
  BY ONLY <1>1, <1>3, <1>4, <1>5
<1> QED
  BY <1>2, <1>6, <1>7

\* Where these words lead, as long as the kernel is short.
LEMMA SlimEnds ==
  ASSUME LifeInv, FatInv, TwelveInv, pc \in Later, layout.bits = 12, req.kernel < 74
  PROVE  /\ req.kernel = 0 => Fat16(15) = {0} /\ ~Strays(15)
         /\ req.kernel >= 2 => Fat16(79) = {0} /\ ~Strays(79)
         /\ \A i \in {4095, 24581, 61445} : Fat16(i) = {0} /\ ~Strays(i)
<1>1. /\ req.kernel \in Nat /\ layout.fatSize \in Nat /\ layout.fatSize >= 3 /\ layout.fatSize <= 4
  BY CheckSizes
<1>2. ASSUME req.kernel = 0
      PROVE  Fat16(15) = {0} /\ ~Strays(15)
  <2>1. Fat16(15) = {Wide(fat, 15)} /\ ~Strays(15)
    BY <1>1, WordInside
  <2>2. SlimPair(10)
    BY SlimBytes
  <2>3. Slim(2 * 10) = 0 /\ Slim(2 * 10 + 1) = 0
    BY <1>2 DEF Slim
  <2>4. Byte(fat, 30) = 0 /\ Byte(fat, 31) = 0
    BY <2>2, <2>3 DEF SlimPair
  <2>5. Wide(fat, 15) = 0
    BY <2>4 DEF Wide
  <2> QED
    BY <2>1, <2>5
<1>3. ASSUME req.kernel >= 2
      PROVE  Fat16(79) = {0} /\ ~Strays(79)
  <2>1. Fat16(79) = {Wide(fat, 79)} /\ ~Strays(79)
    BY <1>1, WordInside
  <2>2. SlimPair(52) /\ SlimPair(53)
    BY SlimBytes
  <2>3. Slim(2 * 52 + 1) = 0 /\ Slim(2 * 53) = 0
    BY <1>1 DEF Slim
  <2>4. Byte(fat, 158) = 0 /\ Byte(fat, 159) = 0
    BY <2>2, <2>3 DEF SlimPair
  <2>5. Wide(fat, 79) = 0
    BY <2>4 DEF Wide
  <2> QED
    BY <2>1, <2>5
<1>4. Fat16(4095) = {0} /\ ~Strays(4095)
  <2>1. 15 = (2 * 4095) \div 512
    OBVIOUS
  <2> QED
    BY <1>1, <2>1, WordBehind
<1>5. Fat16(24581) = {0} /\ ~Strays(24581)
  <2>1. 96 = (2 * 24581) \div 512
    OBVIOUS
  <2> QED
    BY <1>1, <2>1, WordBehind
<1>6. Fat16(61445) = {0} /\ ~Strays(61445)
  <2>1. 240 = (2 * 61445) \div 512
    OBVIOUS
  <2> QED
    BY <1>1, <2>1, WordBehind
<1> QED
  BY <1>2, <1>3, <1>4, <1>5, <1>6

\* What a walk of check_fs may look like.
Sectors == {Sector(c) : c \in Int}
Walks == [file : {1, 2}, cur : Nat, got : Seq(Sectors), spins : Nat]

\* The readme: its one sector is read first; where the walk goes then, and
\* that it ends soon, is known for FAT16 and for a short kernel.
ReadmeWalk(w) ==
  \/ w.spins = 0 /\ w.cur = 2 /\ w.got = << >>
  \/ /\ w.spins >= 1 /\ Len(w.got) >= 1 /\ w.got[1] = Sector(2)
     /\ layout.bits = 16 => w.spins = 1 /\ w.cur = 65535
     /\ layout.bits = 12 /\ req.kernel < 74 =>
          \/ /\ w.spins = 1
             /\ w.cur = IF req.kernel = 0 THEN 15 ELSE IF req.kernel = 1 THEN 65535 ELSE 79
          \/ w.spins = 2 /\ w.cur = 0

\* The kernel on FAT16, on FAT12 with a short kernel, and with a long one.
WideWalk(w) ==
  /\ w.spins <= req.kernel
  /\ w.cur = IF req.kernel = 0 THEN 0 ELSE IF w.spins = req.kernel THEN 65535 ELSE 3 + w.spins
  /\ Len(w.got) = w.spins /\ \A j \in 1..w.spins : w.got[j] = Sector(2 + j)

ShortWalk(w) ==
  \/ w.spins = 0 /\ w.cur = (IF req.kernel = 0 THEN 0 ELSE 3) /\ w.got = << >>
  \/ /\ w.spins = 1 /\ req.kernel >= 1 /\ Len(w.got) = 1 /\ w.got[1] = Sector(3)
     /\ w.cur = IF req.kernel = 1 THEN 0 ELSE IF req.kernel = 2 THEN 4095
                ELSE IF req.kernel = 3 THEN 61445 ELSE 24581
  \/ /\ w.spins = 2 /\ req.kernel >= 2 /\ w.cur = 0 /\ Len(w.got) >= 1
     /\ Len(w.got) >= 2 => w.got[2] # Sector(4)

LongWalk(w) ==
  \/ w.spins = 0 /\ w.cur = 3 /\ w.got = << >>
  \/ Len(w.got) = 1
  \/ Len(w.got) = 2 /\ w.got[2] = Sector(4) /\ w.cur = 1792
  \/ Len(w.got) >= 2 /\ w.got[2] # Sector(4)
  \/ Len(w.got) >= 3 /\ w.got[3] # Sector(5)

KernelWalk(w) ==
  /\ layout.bits = 16 => WideWalk(w)
  /\ layout.bits = 12 /\ req.kernel < 74 => ShortWalk(w)
  /\ layout.bits = 12 /\ req.kernel >= 74 => LongWalk(w)

\* One more cluster, whose word is given.
Onward(w, word) ==
  [file |-> w.file, cur |-> word, spins |-> w.spins + 1,
   got |-> IF w.cur - 2 < layout.clusters THEN Append(w.got, Sector(w.cur)) ELSE w.got]

LEMMA WordIsNat ==
  ASSUME LifeInv, NEW i, NEW word \in Fat16(i)
  PROVE  word \in Nat
<1>1. \A o : Byte(fat, o) \in Nat
  BY ByteType DEF LifeInv, TypeOK
<1>2. \A o : Byte(fat, o) + 256 * Byte(fat, o + 1) \in Nat
  BY <1>1
<1>3. \A w \in FileWords : w \in Nat
  BY ONLY FileWordsAssumption, SMT
<1> QED
  BY <1>2, <1>3 DEF Fat16

LEMMA FollowIsOnward ==
  ASSUME LifeInv, FatInv, TwelveInv, pc = "walk", walk \in Walks, Follow
  PROVE  \E word \in Fat16(walk.cur) : walk' = Onward(walk, word)
<1>1. /\ bpb.spc = 1 /\ DataLba \in Int /\ layout.clusters \in Int
      /\ DataLba + layout.clusters = total
  <2>1. pc \in Later
    BY DEF Later
  <2> QED
    BY <2>1, CheckSizes
<1> DEFINE lba == DataLba + (walk.cur - 2) * bpb.spc
<1>2. PICK word \in Fat16(walk.cur) :
        walk' = [walk EXCEPT !.cur = word, !.spins = @ + 1,
                  !.got = IF lba < total THEN Append(@, Content(lba)) ELSE @]
  BY Zenon DEF Follow
<1>3. walk.cur \in Nat
  BY DEF Walks
<1>4. lba \in Int /\ lba - DataLba + 2 = walk.cur /\ (lba < total <=> walk.cur - 2 < layout.clusters)
  BY <1>1, <1>3
<1>5. Content(lba) = Sector(walk.cur)
  BY <1>4, ContentOf DEF Later
<1> HIDE DEF lba
<1>6. walk' = Onward(walk, word)
  BY <1>2, <1>4, <1>5 DEF Walks, Onward
<1> QED
  BY <1>6

LEMMA OnwardType ==
  ASSUME NEW w \in Walks, NEW word \in Nat
  PROVE  /\ Onward(w, word) \in Walks
         /\ Onward(w, word).file = w.file /\ Onward(w, word).cur = word
         /\ Onward(w, word).spins = w.spins + 1
         /\ Onward(w, word).got = IF w.cur - 2 < layout.clusters
                                  THEN Append(w.got, Sector(w.cur)) ELSE w.got
<1>1. Sector(w.cur) \in Sectors
  BY DEF Walks, Sectors
<1>2. Append(w.got, Sector(w.cur)) \in Seq(Sectors)
  BY <1>1 DEF Walks
<1> QED
  BY <1>2 DEF Walks, Onward

\* What is appended leaves the rest alone.
LEMMA GotGrows ==
  ASSUME NEW w \in Walks, NEW word \in Nat
  PROVE  LET g == Onward(w, word).got
         IN  /\ g = w.got \/ (Len(g) = Len(w.got) + 1 /\ g[Len(g)] = Sector(w.cur))
             /\ w.cur - 2 < layout.clusters => Len(g) = Len(w.got) + 1 /\ g[Len(g)] = Sector(w.cur)
             /\ ~(w.cur - 2 < layout.clusters) => g = w.got
             /\ \A j \in 1..Len(w.got) : g[j] = w.got[j]
<1> DEFINE g == Onward(w, word).got
<1>1. g = IF w.cur - 2 < layout.clusters THEN Append(w.got, Sector(w.cur)) ELSE w.got
  BY OnwardType
<1>2. w.got \in Seq(Sectors)
  BY DEF Walks
<1>3. Sector(w.cur) \in Sectors
  BY DEF Walks, Sectors
<1> HIDE DEF g
<1>4. ASSUME g = Append(w.got, Sector(w.cur))
      PROVE  /\ Len(g) = Len(w.got) + 1 /\ g[Len(g)] = Sector(w.cur)
             /\ \A j \in 1..Len(w.got) : g[j] = w.got[j]
  BY <1>2, <1>3, <1>4
<1>5. CASE w.cur - 2 < layout.clusters
  BY <1>1, <1>4, <1>5 DEF g
<1>6. CASE ~(w.cur - 2 < layout.clusters)
  BY <1>1, <1>6 DEF g
<1> QED
  BY <1>5, <1>6

LEMMA FollowReadme ==
  ASSUME LifeInv, FatInv, TwelveInv, pc \in Later, NEW w \in Walks, ReadmeWalk(w),
         2 <= w.cur, w.cur < 65528, NEW word \in Fat16(w.cur)
  PROVE  ReadmeWalk(Onward(w, word)) /\ (w.spins = 0 \/ w.spins >= 1)
<1> DEFINE u == Onward(w, word)
           k == req.kernel
<1>1. word \in Nat
  BY WordIsNat
<1>2. u \in Walks /\ u.cur = word /\ u.spins = w.spins + 1
  BY <1>1, OnwardType
<1>3. /\ w.cur - 2 < layout.clusters => Len(u.got) = Len(w.got) + 1 /\ u.got[Len(u.got)] = Sector(w.cur)
      /\ ~(w.cur - 2 < layout.clusters) => u.got = w.got
      /\ \A j \in 1..Len(w.got) : u.got[j] = w.got[j]
  BY <1>1, GotGrows
<1>4. layout.clusters \in Int /\ layout.clusters >= 4085 /\ k \in Nat /\ layout.bits \in {12, 16}
  BY CheckSizes
<1>5. w.spins \in Nat /\ w.cur \in Nat /\ Len(w.got) \in Nat
  BY DEF Walks
<1> HIDE DEF u
<1>6. CASE w.spins = 0 /\ w.cur = 2 /\ w.got = << >>
  <2>1. Len(u.got) = 1 /\ u.got[1] = Sector(2)
    BY <1>3, <1>4, <1>6
  <2>2. layout.bits = 16 => word = 65535
    BY <1>4, <1>6, WideWords
  <2>3. layout.bits = 12 => word = IF k = 0 THEN 15 ELSE IF k = 1 THEN 65535 ELSE 79
    BY <1>6, SlimReadme
  <2> HIDE DEF k
  <2> QED
    BY <1>2, <1>6, <2>1, <2>2, <2>3 DEF ReadmeWalk, k, u
<1>7. CASE w.spins >= 1 /\ Len(w.got) >= 1 /\ w.got[1] = Sector(2)
  <2>1. Len(u.got) >= 1 /\ u.got[1] = Sector(2)
    BY <1>3, <1>5, <1>7
  <2>2. layout.bits # 16
    BY <1>7 DEF ReadmeWalk
  <2>3. layout.bits = 12
    BY <1>4, <2>2
  <2>4. ASSUME k < 74 PROVE word = 0 /\ w.spins = 1
    <3>1. w.spins = 1 /\ w.cur = IF k = 0 THEN 15 ELSE IF k = 1 THEN 65535 ELSE 79
      BY <1>7, <2>3, <2>4 DEF ReadmeWalk
    <3>2. k # 1
      BY <3>1
    <3>3. CASE k = 0
      BY <2>3, <2>4, <3>1, <3>3, SlimEnds
    <3>4. CASE k >= 2
      BY <2>3, <2>4, <3>1, <3>4, SlimEnds
    <3> QED
      BY <1>4, <3>1, <3>2, <3>3, <3>4
  <2> QED
    BY <1>2, <1>5, <1>7, <2>1, <2>2, <2>4 DEF ReadmeWalk, u
<1> QED
  BY <1>5, <1>6, <1>7 DEF ReadmeWalk, u

LEMMA FollowWide ==
  ASSUME LifeInv, FatInv, TwelveInv, pc \in Later, NEW w \in Walks, layout.bits = 16,
         WideWalk(w), 2 <= w.cur, w.cur < 65528, NEW word \in Fat16(w.cur)
  PROVE  WideWalk(Onward(w, word))
<1> DEFINE u == Onward(w, word)
           k == req.kernel
<1>1. word \in Nat
  BY WordIsNat
<1>2. u \in Walks /\ u.cur = word /\ u.spins = w.spins + 1
  BY <1>1, OnwardType
<1>3. /\ w.cur - 2 < layout.clusters => Len(u.got) = Len(w.got) + 1 /\ u.got[Len(u.got)] = Sector(w.cur)
      /\ \A j \in 1..Len(w.got) : u.got[j] = w.got[j]
  BY <1>1, GotGrows
<1>4. layout.clusters \in Int /\ layout.clusters >= 4085 /\ k \in Nat /\ k <= 1024
  BY CheckSizes
<1>5. w.spins \in Nat /\ w.cur \in Nat
  BY DEF Walks
<1>6. /\ w.spins < k /\ w.cur = 3 + w.spins /\ Len(w.got) = w.spins
      /\ \A j \in 1..w.spins : w.got[j] = Sector(2 + j)
  BY <1>4, <1>5 DEF WideWalk
<1> HIDE DEF u
<1>7. word = IF w.cur = 2 + k THEN 65535 ELSE w.cur + 1
  <2>1. w.cur <= 2 + k /\ w.cur # 2
    BY ONLY <1>4, <1>5, <1>6, SMT
  <2>2. Fat16(w.cur) = {IF w.cur = 2 \/ w.cur = 2 + k THEN 65535 ELSE w.cur + 1}
    BY <1>5, <2>1, WideWords, SMT
  <2> QED
    BY ONLY <2>1, <2>2, word \in Fat16(w.cur), SMT
<1>8. Len(u.got) = w.spins + 1 /\ u.got[w.spins + 1] = Sector(3 + w.spins)
  <2> HIDE DEF k
  <2>1. w.spins < k /\ w.cur = 3 + w.spins
    BY ONLY <1>6, Zenon
  <2>2. w.cur - 2 < layout.clusters
    BY ONLY <1>4, <1>5, <2>1, SMT
  <2> QED
    BY ONLY <1>3, <1>6, <2>2
<1>9. \A j \in 1..(w.spins + 1) : u.got[j] = Sector(2 + j)
  <2> TAKE j \in 1..(w.spins + 1)
  <2>1. CASE j <= w.spins
    BY <1>3, <1>5, <1>6, <2>1
  <2>2. CASE j = w.spins + 1
    BY <1>5, <1>8, <2>2
  <2> QED
    BY <1>5, <2>1, <2>2
<1>10. u.cur = IF k = 0 THEN 0 ELSE IF w.spins + 1 = k THEN 65535 ELSE 3 + (w.spins + 1)
  <2> HIDE DEF k
  <2>1. w.cur = 2 + k <=> w.spins + 1 = k
    BY ONLY <1>4, <1>5, <1>6, SMT
  <2>2. k # 0 /\ w.cur + 1 = 3 + (w.spins + 1)
    BY ONLY <1>4, <1>5, <1>6, SMT
  <2> QED
    BY ONLY <1>2, <1>7, <2>1, <2>2, SMT
<1> QED
  BY <1>2, <1>4, <1>5, <1>6, <1>8, <1>9, <1>10 DEF WideWalk, u

LEMMA FollowShort ==
  ASSUME LifeInv, FatInv, TwelveInv, pc \in Later, NEW w \in Walks, layout.bits = 12,
         req.kernel < 74, ShortWalk(w), 2 <= w.cur, w.cur < 65528, NEW word \in Fat16(w.cur)
  PROVE  ShortWalk(Onward(w, word))
<1> DEFINE u == Onward(w, word)
           k == req.kernel
           step == IF k = 1 THEN 0 ELSE IF k = 2 THEN 4095 ELSE IF k = 3 THEN 61445 ELSE 24581
<1>1. word \in Nat
  BY WordIsNat
<1>2. u \in Walks /\ u.cur = word /\ u.spins = w.spins + 1
  BY <1>1, OnwardType
<1>3. /\ u.got = w.got \/ (Len(u.got) = Len(w.got) + 1 /\ u.got[Len(u.got)] = Sector(w.cur))
      /\ w.cur - 2 < layout.clusters => Len(u.got) = Len(w.got) + 1 /\ u.got[Len(u.got)] = Sector(w.cur)
  BY <1>1, GotGrows
<1>4. layout.clusters \in Int /\ layout.clusters >= 4085 /\ k \in Nat
  BY CheckSizes
<1>5. w.spins \in Nat /\ w.cur \in Nat
  BY DEF Walks
<1> HIDE DEF u
<1>6. CASE w.spins = 0 /\ w.cur = (IF k = 0 THEN 0 ELSE 3) /\ w.got = << >>
  <2>1. k # 0 /\ w.cur = 3
    BY <1>6
  <2>2. Len(u.got) = 1 /\ u.got[1] = Sector(3)
    BY <1>3, <1>4, <1>6, <2>1
  <2>3. k >= 1
    BY <1>4, <2>1
  <2>4. Fat16(3) = {step}
    BY <2>3, SlimKernel
  <2>5. word = step
    <3> HIDE DEF step
    <3> QED
      BY ONLY <2>1, <2>4, word \in Fat16(w.cur)
  <2> QED
    BY <1>2, <1>6, <2>2, <2>3, <2>5 DEF ShortWalk, u
<1>7. CASE w.spins = 1 /\ k >= 1 /\ Len(w.got) = 1 /\ w.got[1] = Sector(3) /\ w.cur = step
  <2>1. k >= 2 /\ w.cur \in {4095, 24581, 61445}
    BY <1>4, <1>7, SMT
  <2>2. word = 0
    <3>1. Fat16(w.cur) = {0}
      BY <2>1, SlimEnds
    <3> QED
      BY <3>1
  <2>3. Len(u.got) >= 1 /\ (Len(u.got) >= 2 => u.got[2] # Sector(4))
    <3>1. Sector(w.cur) # Sector(4)
      BY <1>4, <1>5, <2>1, SectorDiffers, SMT
    <3>2. Len(w.got) = 1
      BY <1>7, SMT
    <3>3. CASE u.got = w.got
      <4>1. Len(u.got) = 1
        BY ONLY <3>2, <3>3, Zenon
      <4> QED
        BY ONLY <4>1
    <3>4. CASE Len(u.got) = Len(w.got) + 1 /\ u.got[Len(u.got)] = Sector(w.cur)
      BY ONLY <3>1, <3>2, <3>4
    <3> QED
      BY ONLY <1>3, <3>3, <3>4, Zenon
  <2> QED
    BY <1>2, <1>7, <2>1, <2>2, <2>3 DEF ShortWalk, u
<1> QED
  BY <1>6, <1>7 DEF ShortWalk, u

\* With a long kernel the walk never reads the sectors of the kernel in order:
\* it comes back to cluster 4, if at all, only to go on to cluster 1792.
LEMMA FollowLong ==
  ASSUME LifeInv, FatInv, TwelveInv, pc \in Later, NEW w \in Walks, layout.bits = 12,
         req.kernel >= 74, LongWalk(w), 2 <= w.cur, w.cur < 65528, NEW word \in Fat16(w.cur)
  PROVE  LongWalk(Onward(w, word))
<1> DEFINE u == Onward(w, word)
           k == req.kernel
<1>1. word \in Nat
  BY WordIsNat
<1>2. u \in Walks /\ u.cur = word /\ u.spins = w.spins + 1
  BY <1>1, OnwardType
<1>3. /\ u.got = w.got \/ (Len(u.got) = Len(w.got) + 1 /\ u.got[Len(u.got)] = Sector(w.cur))
      /\ w.cur - 2 < layout.clusters => Len(u.got) = Len(w.got) + 1 /\ u.got[Len(u.got)] = Sector(w.cur)
      /\ \A j \in 1..Len(w.got) : u.got[j] = w.got[j]
  BY <1>1, GotGrows
<1>4. layout.clusters \in Int /\ layout.clusters >= 4085 /\ k \in Nat /\ k <= 1024
  BY CheckSizes
<1>5. w.cur \in Nat /\ Len(w.got) \in Nat
  BY DEF Walks
<1> HIDE DEF u
<1>6. CASE w.spins = 0 /\ w.cur = 3 /\ w.got = << >>
  <2>1. Len(u.got) = 1
    BY <1>3, <1>4, <1>6
  <2> QED
    BY <2>1 DEF LongWalk, u
<1>7. CASE Len(w.got) = 1
  <2>1. CASE u.got = w.got
    BY <1>7, <2>1 DEF LongWalk, u
  <2>2. CASE Len(u.got) = 2 /\ u.got[2] = Sector(w.cur)
    <3>1. CASE w.cur = 4
      <4>1. Fat16(4) = {1792}
        BY <1>4, SlimKernel
      <4>2. word = 1792
        BY <3>1, <4>1
      <4> QED
        BY <1>2, <2>2, <3>1, <4>2 DEF LongWalk, u
    <3>2. CASE w.cur # 4
      <4>1. Sector(w.cur) # Sector(4)
        BY <1>4, <1>5, <3>2, SectorDiffers
      <4> QED
        BY <2>2, <4>1 DEF LongWalk, u
    <3> QED
      BY <3>1, <3>2
  <2> QED
    BY <1>3, <1>7, <2>1, <2>2
<1>8. CASE Len(w.got) = 2 /\ w.got[2] = Sector(4) /\ w.cur = 1792
  <2>1. Len(u.got) = 3 /\ u.got[3] = Sector(1792)
    <3>1. w.cur - 2 < layout.clusters
      BY ONLY <1>4, <1>8, SMT
    <3>2. Len(u.got) = Len(w.got) + 1 /\ u.got[Len(u.got)] = Sector(w.cur)
      BY ONLY <1>3, <3>1
    <3> QED
      BY ONLY <1>8, <3>2
  <2>2. Sector(1792) # Sector(5)
    BY <1>4, SectorDiffers
  <2> QED
    BY <2>1, <2>2 DEF LongWalk, u
<1>9. CASE Len(w.got) >= 2 /\ w.got[2] # Sector(4)
  <2>1. Len(u.got) >= 2 /\ u.got[2] # Sector(4)
    BY <1>3, <1>5, <1>9
  <2> QED
    BY <2>1 DEF LongWalk, u
<1>10. CASE Len(w.got) >= 3 /\ w.got[3] # Sector(5)
  <2>1. Len(u.got) >= 3 /\ u.got[3] # Sector(5)
    BY <1>3, <1>5, <1>10
  <2> QED
    BY <2>1 DEF LongWalk, u
<1> QED
  BY <1>6, <1>7, <1>8, <1>9, <1>10 DEF LongWalk, u

LEMMA FollowKernel ==
  ASSUME LifeInv, FatInv, TwelveInv, pc \in Later, NEW w \in Walks, KernelWalk(w),
         2 <= w.cur, w.cur < 65528, NEW word \in Fat16(w.cur)
  PROVE  KernelWalk(Onward(w, word))
<1>1. ASSUME layout.bits = 16 PROVE WideWalk(Onward(w, word))
  BY <1>1, FollowWide DEF KernelWalk
<1>2. ASSUME layout.bits = 12, req.kernel < 74 PROVE ShortWalk(Onward(w, word))
  BY <1>2, FollowShort DEF KernelWalk
<1>3. ASSUME layout.bits = 12, req.kernel >= 74 PROVE LongWalk(Onward(w, word))
  BY <1>3, FollowLong DEF KernelWalk
<1> QED
  BY <1>1, <1>2, <1>3 DEF KernelWalk

LEMMA IntervalEnds ==
  ASSUME NEW m \in Nat, NEW n \in Nat, 1..m = 1..n
  PROVE  m = n
<1>1. m \in 1..m <=> m \in 1..n
  OBVIOUS
<1>2. n \in 1..m <=> n \in 1..n
  OBVIOUS
<1> QED
  BY ONLY <1>1, <1>2, m \in Nat, n \in Nat

\* A file was read whole when its sectors come first.
CutFits(g, n, h) ==
  SubSeq(g, 1, Min({Len(g), n})) = h <=> Len(g) >= n /\ \A j \in 1..n : g[j] = h[j]
OfLength(h, n) == h = [j \in 1..n |-> h[j]]

LEMMA CutIsWhole ==
  ASSUME NEW g \in Seq(Sectors), NEW n \in Nat, NEW h, OfLength(h, n)
  PROVE  CutFits(g, n, h)
<1> DEFINE m == Min({Len(g), n})
           s == SubSeq(g, 1, m)
<1>1. Len(g) \in Nat /\ m \in Nat /\ m = (IF Len(g) <= n THEN Len(g) ELSE n)
  <2>1. Len(g) \in Nat
    OBVIOUS
  <2>2. \A a, b \in Int : Min({a, b}) = IF a <= b THEN a ELSE b
    BY MinOfTwo
  <2>3. m = (IF Len(g) <= n THEN Len(g) ELSE n)
    BY ONLY <2>1, <2>2, n \in Nat
  <2> HIDE DEF m
  <2> QED
    BY <2>1, <2>3
<1> HIDE DEF m
<1>2. s = [j \in 1..m |-> g[j]]
  BY <1>1
<1> HIDE DEF s
<1>3. h = [j \in 1..n |-> h[j]]
  BY DEF OfLength
<1>4. ASSUME s = h PROVE Len(g) >= n /\ \A j \in 1..n : g[j] = h[j]
  <2>1. 1..m = 1..n
    BY <1>2, <1>4, <1>3
  <2>2. m = n
    BY <1>1, <2>1, IntervalEnds
  <2>3. \A j \in 1..m : s[j] = g[j]
    BY <1>2
  <2> QED
    BY <1>1, <1>4, <2>2, <2>3
<1>5. ASSUME Len(g) >= n, \A j \in 1..n : g[j] = h[j] PROVE s = h
  <2>1. m = n
    BY <1>1, <1>5
  <2> QED
    BY <1>2, <1>5, <1>3, <2>1
<1> QED
  BY <1>4, <1>5 DEF CutFits, s, m

(* The invariant of check_fs: a walk is one of those above, and the verdict  *)
(* depends on the width of the table and the kernel's length alone.         *)
Verdict == layout.bits = 16 \/ req.kernel <= 1
WalkInv ==
  /\ pc \notin Later \/ pc = "built" => found = << >>
  /\ pc = "walk" =>
       /\ walk \in Walks
       /\ walk.file = 1 => found = << >> /\ ReadmeWalk(walk)
       /\ walk.file = 2 => found = <<Whole(1)>> /\ KernelWalk(walk)
  /\ pc \in Later \ {"built", "walk"} => (passed <=> Verdict)

LEMMA WholeFiles ==
  ASSUME req.kernel \in Nat
  PROVE  /\ SectorsOf(Files[1]) = 1 /\ SectorsOf(Files[2]) = req.kernel
         /\ Whole(1) = [j \in 1..1 |-> Sector(2)]
         /\ Whole(2) = [j \in 1..req.kernel |-> Sector(2 + j)]
         /\ Len(Files) = 2 /\ DOMAIN Files = {1, 2}
<1>1. Files[1] = "README.TXT" /\ Files[2] = "KERNEL.BIN" /\ Len(Files) = 2 /\ DOMAIN Files = {1, 2}
  BY DEF Files
<1>2. SectorsOf(Files[1]) = 1 /\ SectorsOf(Files[2]) = req.kernel
  BY <1>1 DEF SectorsOf
<1>3. \A j \in 1..1 : <<Files[1], j>> = Sector(2)
  BY <1>1 DEF Sector
<1>4. \A j \in 1..req.kernel : <<Files[2], j>> = Sector(2 + j)
  <2> TAKE j \in 1..req.kernel
  <2>1. j \in Nat /\ 1 <= j /\ j <= req.kernel
    OBVIOUS
  <2>2. 2 + j # 2 /\ 3 <= 2 + j /\ 2 + j <= 2 + req.kernel /\ (2 + j) - 2 = j
    BY <2>1
  <2> QED
    BY <1>1, <2>2 DEF Sector
<1>5. Whole(1) = [j \in 1..1 |-> Sector(2)]
  BY <1>2, <1>3 DEF Whole
<1>6. Whole(2) = [j \in 1..req.kernel |-> Sector(2 + j)]
  BY <1>2, <1>4 DEF Whole
<1> QED
  BY <1>1, <1>2, <1>5, <1>6

\* Which walks end with the kernel read whole.
LEMMA KernelOutcome ==
  ASSUME LifeInv, FatInv, TwelveInv, pc \in Later, NEW w \in Walks, KernelWalk(w),
         ~(2 <= w.cur /\ w.cur < 65528 /\ w.spins < WalkBound)
  PROVE  (Len(w.got) >= req.kernel /\ \A j \in 1..req.kernel : w.got[j] = Sector(2 + j)) <=> Verdict
<1> DEFINE k == req.kernel
           all == Len(w.got) >= k /\ \A j \in 1..k : w.got[j] = Sector(2 + j)
<1>1. k \in Nat /\ k <= 1024 /\ layout.bits \in {12, 16}
  BY CheckSizes
<1>2. w.spins \in Nat /\ w.cur \in Nat /\ Len(w.got) \in Nat
  BY DEF Walks
<1>3. CASE layout.bits = 16
  <2>1. /\ w.spins <= k
        /\ w.cur = IF k = 0 THEN 0 ELSE IF w.spins = k THEN 65535 ELSE 3 + w.spins
        /\ Len(w.got) = w.spins /\ \A j \in 1..w.spins : w.got[j] = Sector(2 + j)
    BY <1>3 DEF KernelWalk, WideWalk
  <2>2. w.spins = k
    BY ONLY <1>1, <1>2, <2>1, ~(2 <= w.cur /\ w.cur < 65528 /\ w.spins < WalkBound), SMT
       DEF WalkBound
  <2>3. all
    BY ONLY <1>1, <1>2, <2>1, <2>2, SMT
  <2> QED
    BY ONLY <1>3, <2>3, SMT DEF Verdict
<1>4. CASE layout.bits = 12 /\ k < 74
  <2>1. CASE w.spins = 0 /\ w.cur = (IF k = 0 THEN 0 ELSE 3) /\ w.got = << >>
    <3>1. k = 0
      BY ONLY <1>1, <2>1, ~(2 <= w.cur /\ w.cur < 65528 /\ w.spins < WalkBound), SMT
         DEF WalkBound
    <3>2. all
      BY <1>2, <3>1
    <3> QED
      BY ONLY <3>1, <3>2, SMT DEF Verdict
  <2>2. CASE /\ w.spins = 1 /\ k >= 1 /\ Len(w.got) = 1 /\ w.got[1] = Sector(3)
             /\ w.cur = IF k = 1 THEN 0 ELSE IF k = 2 THEN 4095
                        ELSE IF k = 3 THEN 61445 ELSE 24581
    <3>1. k = 1
      BY ONLY <1>1, <2>2, ~(2 <= w.cur /\ w.cur < 65528 /\ w.spins < WalkBound), SMT
         DEF WalkBound
    <3>2. Sector(2 + 1) = Sector(3) /\ w.got[1] = Sector(3) /\ Len(w.got) = 1
      BY <2>2, SMT
    <3>3. all
      BY ONLY <3>1, <3>2, SMT
    <3> QED
      BY ONLY <3>1, <3>3, SMT DEF Verdict
  <2>3. CASE /\ w.spins = 2 /\ k >= 2 /\ w.cur = 0 /\ Len(w.got) >= 1
             /\ Len(w.got) >= 2 => w.got[2] # Sector(4)
    <3>1. ASSUME all PROVE FALSE
      <4>1. Len(w.got) >= 2 /\ w.got[2] = Sector(2 + 2)
        BY ONLY <1>1, <1>2, <2>3, <3>1, SMT
      <4>2. 2 + 2 = 4
        OBVIOUS
      <4> QED
        BY ONLY <2>3, <4>1, <4>2, SMT
    <3>2. ~Verdict
      BY <1>1, <1>4, <2>3, SMT DEF Verdict
    <3> QED
      BY <3>1, <3>2
  <2> QED
    BY <1>4, <2>1, <2>2, <2>3, SMT DEF KernelWalk, ShortWalk
<1>5. CASE layout.bits = 12 /\ k >= 74
  <2>1. LongWalk(w)
    BY <1>5 DEF KernelWalk
  <2>2. ASSUME all PROVE FALSE
    <3>1. Len(w.got) >= 74
      BY ONLY <1>1, <1>2, <1>5, <2>2, SMT
    <3>2. w.got[2] = Sector(2 + 2) /\ w.got[3] = Sector(2 + 3)
      <4>1. 2 \in 1..k /\ 3 \in 1..k
        BY ONLY <1>1, <1>5, SMT
      <4> HIDE DEF k
      <4> QED
        BY ONLY <2>2, <4>1, Zenon
    <3>3. 2 + 2 = 4 /\ 2 + 3 = 5
      OBVIOUS
    <3>4. w.got[2] = Sector(4) /\ w.got[3] = Sector(5)
      BY ONLY <3>2, <3>3, Zenon
    <3>5. w.got # << >>
      BY ONLY <3>1, SMT
    <3> QED
      BY ONLY <1>2, <2>1, <3>1, <3>4, <3>5, SMT DEF LongWalk
  <2>3. ~Verdict
    BY <1>1, <1>5, SMT DEF Verdict
  <2> QED
    BY <2>2, <2>3
<1> QED
  BY <1>1, <1>3, <1>4, <1>5, SMT

\* What stays as long as the image does.
LEMMA WalksKept ==
  ASSUME UNCHANGED plan
  PROVE  /\ Walks' = Walks /\ Whole(1)' = Whole(1) /\ (Verdict' <=> Verdict)
         /\ \A w : (ReadmeWalk(w)' <=> ReadmeWalk(w)) /\ (KernelWalk(w)' <=> KernelWalk(w))
<1>1. req' = req /\ layout' = layout
  BY DEF plan
<1>2. \A c : Sector(c)' = Sector(c)
  BY <1>1 DEF Sector
<1>3. Sectors' = Sectors
  BY <1>2 DEF Sectors
<1>4. Walks' = Walks
  BY <1>3 DEF Walks
<1>5. Whole(1)' = Whole(1)
  BY <1>1 DEF Whole, SectorsOf
<1>6. Verdict' <=> Verdict
  BY <1>1 DEF Verdict
<1> HIDE DEF Sector
<1>7. ASSUME NEW w PROVE ReadmeWalk(w)' <=> ReadmeWalk(w)
  BY ONLY <1>1, <1>2, SMT DEF ReadmeWalk
<1>8. ASSUME NEW w PROVE KernelWalk(w)' <=> KernelWalk(w)
  <2>1. WideWalk(w)' <=> WideWalk(w)
    BY ONLY <1>1, <1>2, SMT DEF WideWalk
  <2>2. ShortWalk(w)' <=> ShortWalk(w)
    BY ONLY <1>1, <1>2, SMT DEF ShortWalk
  <2>3. LongWalk(w)' <=> LongWalk(w)
    BY ONLY <1>1, <1>2, SMT DEF LongWalk
  <2> QED
    BY ONLY <1>1, <2>1, <2>2, <2>3, SMT DEF KernelWalk
<1> QED
  BY ONLY <1>4, <1>5, <1>6, <1>7, <1>8, Zenon

LEMMA StepFollow ==
  ASSUME LifeInv, FatInv, TwelveInv, WalkInv, Follow
  PROVE  WalkInv'
<1>1. pc = "walk" /\ InChain /\ pc' = pc /\ UNCHANGED plan /\ found' = found /\ pc \in Later
  BY DEF Follow, Later
<1>2. /\ walk \in Walks
      /\ walk.file = 1 => found = << >> /\ ReadmeWalk(walk)
      /\ walk.file = 2 => found = <<Whole(1)>> /\ KernelWalk(walk)
  BY <1>1 DEF WalkInv
<1>3. 2 <= walk.cur /\ walk.cur < 65528
  BY <1>1, <1>2, SMT DEF InChain, Walks
<1>4. PICK word \in Fat16(walk.cur) : walk' = Onward(walk, word)
  BY <1>1, <1>2, FollowIsOnward
<1>5. word \in Nat
  BY WordIsNat
<1>6. walk' \in Walks /\ walk'.file = walk.file
  BY <1>2, <1>4, <1>5, OnwardType, SMT
<1>7. walk.file = 1 => ReadmeWalk(walk')
  BY <1>1, <1>2, <1>3, <1>4, FollowReadme, SMT
<1>8. walk.file = 2 => KernelWalk(walk')
  BY <1>1, <1>2, <1>3, <1>4, FollowKernel, SMT
<1>9. /\ Walks' = Walks /\ Whole(1)' = Whole(1)
      /\ \A w : (ReadmeWalk(w)' <=> ReadmeWalk(w)) /\ (KernelWalk(w)' <=> KernelWalk(w))
  BY <1>1, WalksKept
<1>10. (walk \in Walks)' /\ (ReadmeWalk(walk)' <=> ReadmeWalk(walk')) /\ (KernelWalk(walk)' <=> KernelWalk(walk'))
  BY ONLY <1>6, <1>9, Zenon
<1>11. (walk.file = 1)' => (found = << >>)' /\ ReadmeWalk(walk)'
  BY ONLY <1>1, <1>2, <1>6, <1>7, <1>10, Zenon
<1>12. (walk.file = 2)' => (found = <<Whole(1)>>)' /\ KernelWalk(walk)'
  BY ONLY <1>1, <1>2, <1>6, <1>8, <1>9, <1>10, Zenon
<1>13. pc' = "walk" /\ (pc \in Later)' /\ ~(pc \in Later \ {"built", "walk"})' /\ pc' # "built"
  BY <1>1 DEF Later
<1> QED
  BY ONLY <1>10, <1>11, <1>12, <1>13, Zenon DEF WalkInv

\* The first of the two files is read whole, whatever the table.
LEMMA ReadmeEnds ==
  ASSUME LifeInv, FatInv, TwelveInv, WalkInv, EndOfFile, walk.file = 1
  PROVE  WalkInv'
<1>1. pc = "walk" /\ ~InChain /\ UNCHANGED plan /\ UNCHANGED table /\ pc \in Later
  BY DEF EndOfFile, Later
<1>2. walk \in Walks /\ found = << >> /\ ReadmeWalk(walk)
  BY <1>1 DEF WalkInv
<1>3. req.kernel \in Nat
  BY <1>1, CheckSizes
<1>4. Len(walk.got) >= 1 /\ walk.got[1] = Sector(2)
  <2>1. ~(walk.spins = 0 /\ walk.cur = 2 /\ walk.got = << >>)
    BY <1>1, SMT DEF InChain, WalkBound
  <2> QED
    BY <1>2, <2>1, SMT DEF ReadmeWalk
<1>5. SectorsOf(Files[1]) = 1 /\ Whole(1) = [j \in 1..1 |-> Sector(2)] /\ Len(Files) = 2
  BY <1>3, WholeFiles
<1>6. SubSeq(walk.got, 1, Min({Len(walk.got), 1})) = Whole(1)
  <2>1. walk.got \in Seq(Sectors)
    BY <1>2 DEF Walks
  <2>2. Whole(1) = [j \in 1..1 |-> Whole(1)[j]] /\ Whole(1)[1] = Sector(2)
    BY ONLY <1>5, SMT
  <2>3. \A j \in 1..1 : walk.got[j] = Whole(1)[j]
    BY ONLY <1>4, <2>2, SMT
  <2>4. OfLength(Whole(1), 1)
    BY ONLY <2>2, Zenon DEF OfLength
  <2>5. CutFits(walk.got, 1, Whole(1))
    BY <2>1, <2>4, CutIsWhole
  <2> QED
    BY ONLY <1>4, <2>3, <2>5, Zenon DEF CutFits
<1>7. found' = <<Whole(1)>>
  <2>1. found' = Append(found, SubSeq(walk.got, 1, Min({Len(walk.got), SectorsOf(Files[walk.file])})))
    BY DEF EndOfFile
  <2>2. found' = Append(<< >>, Whole(1))
    BY ONLY <1>2, <1>5, <1>6, <2>1, walk.file = 1, Zenon
  <2> QED
    BY ONLY <2>2, SMT
<1>8. pc' = pc /\ walk' = Open(2)
  BY <1>5 DEF EndOfFile
<1>9. walk' = [file |-> 2, cur |-> IF req.kernel = 0 THEN 0 ELSE 3, got |-> << >>, spins |-> 0]
  <2>1. clusterOf[2][1] = IF req.kernel = 0 THEN 0 ELSE 3
    BY <1>1 DEF FatInv, Readme, Kernel
  <2> QED
    BY <1>8, <2>1 DEF Open
<1>10. walk' \in Walks
  <2>1. << >> \in Seq(Sectors)
    OBVIOUS
  <2> QED
    BY <1>9, <2>1 DEF Walks
<1>11. KernelWalk(walk')
  <2> DEFINE w == [file |-> 2, cur |-> IF req.kernel = 0 THEN 0 ELSE 3, got |-> << >>, spins |-> 0]
  <2>1. w.cur = (IF req.kernel = 0 THEN 0 ELSE 3) /\ w.got = << >> /\ w.spins = 0
    BY ONLY SMT
  <2> HIDE DEF w
  <2>2. WideWalk(w)
    BY ONLY <1>3, <2>1, SMT DEF WideWalk
  <2>3. ShortWalk(w)
    BY ONLY <2>1, SMT DEF ShortWalk
  <2>4. req.kernel >= 74 => LongWalk(w)
    BY ONLY <1>3, <2>1, SMT DEF LongWalk
  <2>5. KernelWalk(w)
    BY ONLY <2>2, <2>3, <2>4, SMT DEF KernelWalk
  <2> QED
    BY <1>9, <2>5 DEF w
<1>12. /\ Walks' = Walks /\ Whole(1)' = Whole(1)
       /\ \A w : KernelWalk(w)' <=> KernelWalk(w)
  BY <1>1, WalksKept
<1>13. (walk \in Walks)' /\ KernelWalk(walk)' /\ (found = <<Whole(1)>>)'
  BY ONLY <1>7, <1>10, <1>11, <1>12, Zenon
<1>14. walk'.file = 2 /\ walk'.file # 1
  BY <1>9
<1>15. pc' = "walk" /\ (pc \in Later)' /\ ~(pc \in Later \ {"built", "walk"})' /\ pc' # "built"
  BY <1>1, <1>8 DEF Later
<1> QED
  BY ONLY <1>13, <1>14, <1>15, Zenon DEF WalkInv

LEMMA KernelEnds ==
  ASSUME LifeInv, FatInv, TwelveInv, WalkInv, EndOfFile, walk.file = 2
  PROVE  WalkInv'
<1>1. pc = "walk" /\ ~InChain /\ UNCHANGED plan /\ UNCHANGED table /\ pc \in Later
  BY DEF EndOfFile, Later
<1>2. walk \in Walks /\ found = <<Whole(1)>> /\ KernelWalk(walk)
  BY <1>1 DEF WalkInv
<1>3. req.kernel \in Nat
  BY <1>1, CheckSizes
<1> DEFINE h == Whole(2)
           cut == SubSeq(walk.got, 1, Min({Len(walk.got), req.kernel}))
<1>4. /\ SectorsOf(Files[2]) = req.kernel /\ h = [j \in 1..req.kernel |-> Sector(2 + j)]
      /\ Len(Files) = 2 /\ DOMAIN Files = {1, 2}
  BY <1>3, WholeFiles
<1>5. cut = h <=> Verdict
  <2>1. walk.got \in Seq(Sectors)
    BY <1>2 DEF Walks
  <2>2. h = [j \in 1..req.kernel |-> h[j]] /\ \A j \in 1..req.kernel : h[j] = Sector(2 + j)
    <3> HIDE DEF h
    <3> QED
      BY ONLY <1>4, SMT
  <2> HIDE DEF h
  <2>3. cut = h <=> Len(walk.got) >= req.kernel /\ \A j \in 1..req.kernel : walk.got[j] = h[j]
    <3>1. OfLength(h, req.kernel)
      BY ONLY <2>2, Zenon DEF OfLength
    <3>2. CutFits(walk.got, req.kernel, h)
      BY <1>3, <2>1, <3>1, CutIsWhole
    <3> QED
      BY ONLY <3>2, Zenon DEF CutFits
  <2>4. ~(2 <= walk.cur /\ walk.cur < 65528 /\ walk.spins < WalkBound)
    BY <1>1, <1>2, SMT DEF InChain, Walks
  <2>5. (Len(walk.got) >= req.kernel /\ \A j \in 1..req.kernel : walk.got[j] = Sector(2 + j)) <=> Verdict
    BY <1>1, <1>2, <2>4, KernelOutcome
  <2>6. (\A j \in 1..req.kernel : walk.got[j] = h[j]) <=>
          (\A j \in 1..req.kernel : walk.got[j] = Sector(2 + j))
    BY ONLY <2>2, Zenon
  <2> QED
    BY ONLY <2>3, <2>5, <2>6, Zenon
<1>6. found' = Append(found, SubSeq(walk.got, 1, Min({Len(walk.got), SectorsOf(Files[walk.file])})))
  BY DEF EndOfFile
<1>7. found' = Append(<<Whole(1)>>, cut)
  BY ONLY <1>2, <1>4, <1>6, walk.file = 2, Zenon
<1>8. found'[1] = Whole(1) /\ found'[2] = cut
  <2> HIDE DEF cut, h
  <2> QED
    BY ONLY <1>7, SMT
<1>9. pc' = "checked" /\ (passed' = \A f \in DOMAIN Files : found'[f] = Whole(f))
  <2>1. ~(2 < 2)
    OBVIOUS
  <2>2. ~(walk.file < Len(Files))
    BY ONLY <1>4, <2>1, walk.file = 2, Zenon
  <2> QED
    BY <2>2, Zenon DEF EndOfFile
<1>10. passed' <=> Verdict
  <2>1. passed' <=> found'[1] = Whole(1) /\ found'[2] = Whole(2)
    BY ONLY <1>4, <1>9, Zenon
  <2> QED
    BY ONLY <1>5, <1>8, <2>1, Zenon
<1>11. Verdict' <=> Verdict
  BY <1>1, WalksKept
<1>12. (pc \in Later)' /\ pc' # "built" /\ pc' # "walk"
  BY <1>9 DEF Later
<1> QED
  BY ONLY <1>10, <1>11, <1>12, Zenon DEF WalkInv

\* Steps before and after the check.
LEMMA WalkRests ==
  ASSUME WalkInv, UNCHANGED check,
         \/ pc \notin Later /\ (pc' \notin Later \/ pc' = "built")
         \/ /\ UNCHANGED plan
            /\ pc' = pc \/ (pc \in Later \ {"built", "walk"} /\ pc' \in Later \ {"built", "walk"})
  PROVE  WalkInv'
<1>1. walk' = walk /\ found' = found /\ passed' = passed
  BY DEF check
<1>2. CASE pc \notin Later /\ (pc' \notin Later \/ pc' = "built")
  <2>1. found' = << >>
    BY <1>1, <1>2 DEF WalkInv
  <2>2. pc' # "walk" /\ pc' \notin Later \ {"built", "walk"}
    BY <1>2 DEF Later
  <2> QED
    BY <2>1, <2>2 DEF WalkInv
<1>3. CASE /\ UNCHANGED plan
           /\ pc' = pc \/ (pc \in Later \ {"built", "walk"} /\ pc' \in Later \ {"built", "walk"})
  <2>1. /\ Walks' = Walks /\ Whole(1)' = Whole(1) /\ (Verdict' <=> Verdict)
        /\ \A w : (ReadmeWalk(w)' <=> ReadmeWalk(w)) /\ (KernelWalk(w)' <=> KernelWalk(w))
    BY <1>3, WalksKept
  <2>2. /\ (ReadmeWalk(walk)' <=> ReadmeWalk(walk)) /\ (KernelWalk(walk)' <=> KernelWalk(walk))
    BY ONLY <1>1, <2>1, Zenon
  <2>3. CASE pc' = pc
    BY ONLY <1>1, <2>1, <2>2, <2>3, WalkInv, Later' = Later, Zenon DEF WalkInv
  <2>4. CASE pc \in Later \ {"built", "walk"} /\ pc' \in Later \ {"built", "walk"}
    BY ONLY <1>1, <2>1, <2>4, WalkInv, Zenon DEF WalkInv, Later
  <2> QED
    BY <1>3, <2>3, <2>4
<1> QED
  BY <1>2, <1>3

LEMMA StepWalkInv ==
  ASSUME LifeInv, FatInv, TwelveInv, WalkInv, [LifeNext]_allVars
  PROVE  WalkInv'
<1>1. CASE Plan \/ Pick \/ BootSector \/ AddFile \/ Chain \/ CloseFat
  <2>1. UNCHANGED check
    BY <1>1 DEF Plan, Pick, BootSector, AddFile, Chain, CloseFat
  <2>2. pc \in {"pick", "plan", "sector", "files"}
    BY <1>1 DEF Plan, Pick, BootSector, AddFile, Chain, CloseFat
  <2>3. pc' \in {"pick", "plan", "sector", "files", "refused", "crashed", "built"}
    BY <1>1 DEF Plan, Pick, BootSector, AddFile, Chain, CloseFat
  <2>4. pc \notin Later /\ (pc' \notin Later \/ pc' = "built")
    BY <2>2, <2>3 DEF Later
  <2> QED
    BY <2>1, <2>4, WalkRests
<1>2. CASE StartCheck
  <2>1. pc = "built" /\ pc' = "walk" /\ UNCHANGED plan /\ UNCHANGED table /\ found' = found
        /\ walk' = Open(1) /\ pc \in Later
    BY <1>2 DEF StartCheck, Later
  <2>2. clusterOf[1][1] = 2
    BY <2>1 DEF FatInv, Readme
  <2>3. walk' = [file |-> 1, cur |-> 2, got |-> << >>, spins |-> 0]
    BY <2>1, <2>2 DEF Open
  <2>4. << >> \in Seq(Sectors)
    OBVIOUS
  <2>5. walk' \in Walks
    BY <2>3, <2>4 DEF Walks
  <2>6. walk'.file = 1 /\ walk'.file # 2 /\ ReadmeWalk(walk')
    BY <2>3 DEF ReadmeWalk
  <2>7. Walks' = Walks /\ \A w : ReadmeWalk(w)' <=> ReadmeWalk(w)
    BY <2>1, WalksKept
  <2>8. (walk \in Walks)' /\ ReadmeWalk(walk)'
    BY ONLY <2>5, <2>6, <2>7, Zenon
  <2>9. found' = << >>
    BY <2>1 DEF WalkInv
  <2>10. (pc \in Later)' /\ ~(pc \in Later \ {"built", "walk"})' /\ pc' # "built"
    BY <2>1 DEF Later
  <2> QED
    BY ONLY <2>1, <2>6, <2>8, <2>9, <2>10, Zenon DEF WalkInv
<1>3. CASE Follow
  BY <1>3, StepFollow
<1>4. CASE EndOfFile
  <2>1. walk.file \in {1, 2}
    BY <1>4 DEF EndOfFile, WalkInv, Walks
  <2> QED
    BY <1>4, <2>1, ReadmeEnds, KernelEnds
<1>5. CASE IsoNext
  <2>1. UNCHANGED plan /\ UNCHANGED check
    BY <1>5 DEF IsoNext, GiveFile, BuildIso, CheckIso
  <2>2. /\ pc \in {"checked", "wrap", "wrapped"}
        /\ pc' \in {"wrap", "wrapped", "isoRefused", "isoChecked"}
    BY <1>5 DEF IsoNext, GiveFile, BuildIso, CheckIso
  <2>3. pc \in Later \ {"built", "walk"} /\ pc' \in Later \ {"built", "walk"}
    BY <2>2 DEF Later
  <2> QED
    BY <2>1, <2>3, WalkRests
<1>6. CASE ScanNext
  <2>1. UNCHANGED plan /\ UNCHANGED check
    BY <1>6 DEF ScanNext, ScanStep, Command, Boot, FreeDrive, ScanMiss, ScanHit, ReadPart,
                Report, TableFails, diskVars
  <2>2. pc \in {"checked", "idle", "scan", "table"}
    BY <1>6 DEF ScanNext, ScanStep, Command, Boot, FreeDrive, ScanMiss, ScanHit, ReadPart,
                Report, TableFails
  <2>3. pc' \in {"scan", "table", "idle"}
    BY <1>6 DEF ScanNext, ScanStep, Command, Boot, FreeDrive, ScanMiss, ScanHit, ReadPart,
                Report, TableFails, NextStart, Return, diskVars
  <2>4. pc \in Later \ {"built", "walk"} /\ pc' \in Later \ {"built", "walk"}
    BY <2>2, <2>3 DEF Later
  <2> QED
    BY <2>1, <2>4, WalkRests
<1>7. CASE UNCHANGED allVars
  BY <1>7, WalkRests DEF allVars, vars, diskVars
<1> QED
  BY <1>1, <1>2, <1>3, <1>4, <1>5, <1>6, <1>7 DEF LifeNext, BuildNext

\* On the way the walks keep to the tables.
LEMMA WalkIsSafe ==
  ASSUME LifeInv, FatInv, TwelveInv, WalkInv, pc = "walk", layout.bits = 16 \/ req.kernel < 74
  PROVE  walk.spins < WalkBound /\ (InChain => ~Strays(walk.cur))
<1> DEFINE k == req.kernel
<1>1. pc \in Later
  BY DEF Later
<1>2. k \in Nat /\ k <= 1024 /\ layout.bits \in {12, 16}
  BY <1>1, CheckSizes
<1>3. walk \in Walks /\ walk.spins \in Nat /\ walk.cur \in Nat /\ walk.file \in {1, 2}
  BY DEF WalkInv, Walks
<1>4. InChain => 2 <= walk.cur /\ walk.cur < 65528
  BY <1>3, SMT DEF InChain
<1>5. CASE walk.file = 1
  <2>1. ReadmeWalk(walk)
    BY <1>5 DEF WalkInv
  <2>2. walk.spins <= 2
    BY ONLY <1>2, <1>3, <2>1, layout.bits = 16 \/ k < 74, SMT DEF ReadmeWalk
  <2>3. ASSUME InChain PROVE ~Strays(walk.cur)
    <3>1. CASE layout.bits = 16
      <4>1. walk.cur = 2
        BY ONLY <1>2, <1>3, <1>4, <2>1, <2>3, <3>1, SMT DEF ReadmeWalk
      <4> QED
        BY <1>1, <1>2, <3>1, <4>1, WideWords, SMT
    <3>2. CASE layout.bits = 12 /\ k < 74
      <4>1. walk.cur = 2 \/ (walk.cur = 15 /\ k = 0) \/ (walk.cur = 79 /\ k >= 2)
        BY ONLY <1>2, <1>3, <1>4, <2>1, <2>3, <3>2, SMT DEF ReadmeWalk
      <4> QED
        BY <1>1, <3>2, <4>1, SlimReadme, SlimEnds, SMT
    <3> QED
      BY <1>2, <3>1, <3>2
  <2> QED
    BY ONLY <1>3, <2>2, <2>3, SMT DEF WalkBound
<1>6. CASE walk.file = 2
  <2>1. KernelWalk(walk)
    BY <1>6 DEF WalkInv
  <2>2. CASE layout.bits = 16
    <3>1. WideWalk(walk)
      BY <2>1, <2>2 DEF KernelWalk
    <3>2. walk.spins <= 1024
      BY ONLY <1>2, <1>3, <3>1, SMT DEF WideWalk
    <3>3. ASSUME InChain PROVE ~Strays(walk.cur)
      <4>1. walk.cur <= 2 + k /\ 2 <= walk.cur
        BY ONLY <1>2, <1>3, <1>4, <3>1, <3>3, SMT DEF WideWalk
      <4> QED
        BY <1>1, <1>3, <2>2, <4>1, WideWords, SMT
    <3> QED
      BY ONLY <1>3, <3>2, <3>3, SMT DEF WalkBound
  <2>3. CASE layout.bits = 12 /\ k < 74
    <3>1. ShortWalk(walk)
      BY <2>1, <2>3, SMT DEF KernelWalk
    <3>2. walk.spins <= 2
      BY ONLY <3>1, SMT DEF ShortWalk
    <3>3. ASSUME InChain PROVE ~Strays(walk.cur)
      <4>1. (walk.cur = 3 /\ k >= 1) \/ walk.cur \in {4095, 24581, 61445}
        BY ONLY <1>2, <1>3, <1>4, <3>1, <3>3, SMT DEF ShortWalk
      <4> QED
        BY <1>1, <2>3, <4>1, SlimKernel, SlimEnds, SMT
    <3> QED
      BY ONLY <1>3, <3>2, <3>3, SMT DEF WalkBound
  <2> QED
    BY <1>2, <2>2, <2>3
<1> QED
  BY <1>3, <1>5, <1>6

(* check_fs accepts what mkqizoimg built exactly when the table is a FAT16   *)
(* one or no file has a second cluster; apart from FAT12 images with a      *)
(* kernel of 74 sectors or more its walks are short and take nothing but    *)
(* table entries and zeros for entries.  For every request and whatever the *)
(* bytes of the files are.                                                  *)
THEOREM CheckFsIsExact == LifeSpec => []CheckFsExact
<1>1. LifeInit => TwelveInv /\ WalkInv
  <2> SUFFICES ASSUME LifeInit PROVE TwelveInv /\ WalkInv
    OBVIOUS
  <2>1. pc \in {"pick", "plan"} /\ found = << >>
    BY DEF LifeInit, Init
  <2> QED
    BY <2>1 DEF TwelveInv, WalkInv, Unplanned, Later
<1>2. LifeInv /\ FatInv /\ TwelveInv /\ WalkInv /\ [LifeNext]_allVars => TwelveInv' /\ WalkInv'
  BY StepTwelve, StepWalkInv
<1>3. LifeInv /\ FatInv /\ TwelveInv /\ WalkInv => CheckFsExact
  <2> SUFFICES ASSUME LifeInv, FatInv, TwelveInv, WalkInv PROVE CheckFsExact
    OBVIOUS
  <2>1. ASSUME Built, pc \notin {"built", "walk"}
        PROVE  passed <=> layout.bits = 16 \/ req.kernel <= 1
    <3>1. pc \in Later \ {"built", "walk"}
      BY <2>1 DEF Built, LifeInv, LayoutInv, Unplanned
    <3> QED
      BY <3>1 DEF WalkInv, Verdict
  <2>2. ASSUME pc = "walk", layout.bits = 16 \/ req.kernel < 74
        PROVE  walk.spins < WalkBound /\ (InChain => ~Strays(walk.cur))
    BY <2>2, WalkIsSafe
  <2> QED
    BY ONLY <2>1, <2>2, Zenon DEF CheckFsExact
<1> QED
  BY <1>1, <1>2, <1>3, LifeInvariant, TableIsLinked, PTL DEF LifeSpec
===========================================================================
