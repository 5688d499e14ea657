---------------------------- MODULE BootChain ----------------------------
(***************************************************************************)
(* From the boot sector to the kernel: stage 1 (stage1.S) finds a drive and *)
(* reads the boot area, stage 2 (stage2.S) checks the machine, verifies and *)
(* unpacks the blob, lays out memory and jumps to the kernel.  The firmware *)
(* and the image are inputs fixed in the initial state; each answers as its *)
(* record says.  Memory is a function on cell addresses, and an address at  *)
(* or above one mebibyte loses bit 20 while the A20 gate is closed.         *)
(***************************************************************************)
EXTENDS BootImage, FiniteSets

CONSTANTS
  Inputs,      \* pairs of a machine (firmware answers, cpu, memory map) and a kernel
  ChunkMax,    \* sectors one INT 13h call reads at most
  E820Max,     \* QIZO_E820_MAX
  PartLba,     \* QIZO_PART_LBA
  Stage2,      \* QIZO_STAGE2, where the boot area is loaded
  E820Buf,     \* QIZO_E820_BUF
  Scratch,     \* QIZO_SCRATCH
  Pages,       \* QIZO_PAGE_PML4
  PageCells,   \* page tables and the fault IDT
  MiB,         \* the first address whose bit 20 is set
  RamMax,      \* 0xFFFFFFFF
  MemTop       \* the bound on addresses

VARIABLES
  machine,     \* the machine, constant
  image,       \* the image on the drive the firmware booted, constant
  pc,          \* where the boot is
  drive,       \* QIZO_ARG_DRIVE
  try,         \* QIZO_ARG_TRY
  di,          \* sectors read so far, the low half of EDI
  gate,        \* TRUE when A20 is open
  mem,         \* memory, by cell
  bi,          \* the boot information block
  esi, edi     \* what qizo_decompress has read and written, in items and in cells

decoder == <<esi, edi>>
vars == <<machine, image, pc, drive, try, di, gate, mem, bi, decoder>>

Blob == Stage2 + Span(Stage2Sectors)     \* QIZO_BLOB_PHYS
Candidates == <<128, 232, 240, 248>>             \* qizo_cand

(* The regions in address order, as <<start, length>>: each ends before the *)
(* next one starts.                                                         *)
Fits(regions) ==
  \A i \in 1..(Len(regions) - 1) : regions[i][1] + regions[i][2] <= regions[i + 1][1]

ASSUME LayoutAssumption ==
  /\ Fits(<< <<Stage2, Blob - Stage2>>, <<Blob, BlobMax>>, <<E820Buf, E820Max>>,
             <<KText, KernelMax>>, <<Scratch, HDR + KernelMax>>,
             <<Pages, PageCells>>, <<MemTop, 0>> >>)
  /\ MiB \in (E820Buf + E820Max)..KText
  /\ BlobMax <= HDR + KernelMax

(* The sizes and addresses are numbers, and the blob region is a number of  *)
(* whole sectors that a sector count of 16 bits can hold.                   *)
ASSUME SizesAssumption ==
  /\ {SectorCells, Stage2Sectors, ChunkMax, E820Max, PartLba, MiB} \subseteq Nat \ {0}
  /\ {BlobMax, KernelMax, Stage2, E820Buf, KText, Scratch, Pages, PageCells, MemTop}
       \subseteq Nat
  /\ BlobMax % SectorCells = 0
  /\ Stage2Sectors + BlobMax \div SectorCells <= 65536

(* What the firmware and a kernel may be.  The decoder bounds its output by *)
(* the announced length only, so an image must not announce more than the   *)
(* scratch area holds; mkqizoimg refuses to write such an image.            *)
ASSUME InputsAssumption ==
  \A in \in Inputs :
    /\ in[1].booted \in 0..255 /\ {in[1].upper, in[1].sectors, in[1].badLba} \subseteq Nat
    /\ Len(in[1].map) \in Nat /\ DOMAIN in[1].map = 1..Len(in[1].map)
    /\ {in[2].size, in[2].total, in[2].entry, in[2].cells, in[2].base} \subseteq Nat
    /\ in[2].cells <= KernelMax

(* The same of the addresses in qizoboot.inc, in bytes, with the boot       *)
(* information below stage 2 and the protected mode stack above the map.    *)
RealRegions ==
  << <<65536, 1792>>, <<131072, 4096>>, <<135168, 248 * 512>>, <<266240, 32 * 24>>,
     <<267008, 4>>, <<278528 - 4096, 4096>>, <<1048576, 524288>>,
     <<1572864, 64 + 524288>>, <<3145728, 24576>>, <<3174400, 512>> >>

ASSUME RealLayout == Fits(RealRegions)
---------------------------------------------------------------------------
(* Memory. *)
Phys(a) == IF ~gate /\ (a \div MiB) % 2 = 1 THEN a - MiB ELSE a

Read(a, n) == [i \in 1..n |-> mem[Phys(a + i - 1)]]

Write(a, cells) ==
  mem' = [b \in DOMAIN mem |->
            IF \E i \in DOMAIN cells : Phys(a + i - 1) = b
            THEN cells[CHOOSE i \in DOMAIN cells : Phys(a + i - 1) = b]
            ELSE mem[b]]

(* The disk: the boot area on the booted drive from PartLba on, other bytes *)
(* on every other sector and drive.                                         *)
Sector(d, lba) ==
  LET area == BootArea(image.kernel, image.raw)
      s    == lba - PartLba
  IN  [i \in 1..SectorCells |->
         IF d = machine.booted /\ lba \in PartLba..(PartLba + image.args.total - 1)
         THEN IF lba = image.damaged THEN <<"damage">> ELSE area[Span(s) + i]
         ELSE <<"other">>]

\* One transfer: n sectors from lba on, cell after cell.
Transfer(d, lba, n) ==
  [c \in 1..(Span(n)) |->
     Sector(d, lba + (c - 1) \div SectorCells)[((c - 1) % SectorCells) + 1]]

Answers(d) == d \in DOMAIN machine.drives
Reads(d, lba) ==
  Answers(d) /\ machine.drives[d].packet /\ lba < machine.sectors /\ lba # machine.badLba

Init ==
  /\ \E in \in Inputs, raw \in BOOLEAN :
       LET k == in[2] IN
       /\ machine = in[1]
       /\ Buildable(k, raw)
       /\ \E s \in {0} \cup (Stage2Sectors..(Args(k, raw).total - 1)), ahead \in BOOLEAN :
            /\ ahead => Last(Pad(Container(k, raw))) # Zero
            /\ image = [kernel |-> k, raw |-> raw, args |-> Args(k, raw), ahead |-> ahead,
                        damaged |-> IF s = 0 THEN 0 ELSE PartLba + s]
  /\ pc = "start" /\ drive = 0 /\ try = 0 /\ di = 0
  /\ gate = machine.gate
  /\ mem = [a \in 0..MemTop |-> <<"junk">>]
  /\ bi = [err |-> 0]
  /\ esi = 0 /\ edi = 0

Go(label) == pc' = label
Keep == UNCHANGED <<machine, image>>
---------------------------------------------------------------------------
(* Stage 1. *)
Start ==
  /\ pc = "start" /\ Go("probe")
  /\ drive' = IF machine.booted >= 128 THEN machine.booted ELSE 128
  /\ try' = 0 /\ di' = 0
  /\ Keep /\ UNCHANGED <<gate, mem, bi, decoder>>

\* What AH=41h must answer: no carry, version 0x30, and bit 1 of the bitmap.
Suits(d) == Answers(d) /\ machine.drives[d].ah = 48 /\ machine.drives[d].bit1

ProbeHit ==
  /\ pc = "probe" /\ Suits(drive) /\ Go("read")
  /\ Keep /\ UNCHANGED <<drive, try, di, gate, mem, bi, decoder>>

ProbeMiss ==
  /\ pc = "probe" /\ ~Suits(drive)
  /\ try' = try + 1
  /\ IF try' >= 4 THEN Go("read") /\ drive' = machine.booted
                  ELSE Go("probe") /\ drive' = Candidates[try']
  /\ Keep /\ UNCHANGED <<di, gate, mem, bi, decoder>>

\* Mutant: the last chunk is not cut to what is left.
MutChunk == ChunkMax

Chunk == LET left == image.args.total - di IN IF left > ChunkMax THEN ChunkMax ELSE left

(* The sector number is computed from all of EDI, of which stage 1 clears   *)
(* only the low half; the buffer address does not keep the upper half.      *)
Lba(s) == PartLba + machine.upper * 65536 + s
ChunkLba == Lba(di)

\* Mutant: the count of sectors read is not advanced.
MutReadChunk ==
  /\ pc = "read" /\ di < image.args.total
  /\ \A s \in 0..(Chunk - 1) : Reads(drive, ChunkLba + s)
  /\ Write(Stage2 + Span(di), Transfer(drive, ChunkLba, Chunk))
  /\ Keep /\ UNCHANGED <<pc, drive, try, di, gate, bi, decoder>>

ReadChunk ==
  /\ pc = "read" /\ di < image.args.total
  /\ \A s \in 0..(Chunk - 1) : Reads(drive, ChunkLba + s)
  /\ Write(Stage2 + Span(di), Transfer(drive, ChunkLba, Chunk))
  /\ di' = di + Chunk
  /\ Keep /\ UNCHANGED <<pc, drive, try, gate, bi, decoder>>

ReadFails ==
  /\ pc = "read" /\ di < image.args.total
  /\ \E s \in 0..(Chunk - 1) : ~Reads(drive, ChunkLba + s)
  /\ Go("diskError")
  /\ Keep /\ UNCHANGED <<drive, try, di, gate, mem, bi, decoder>>

\* The jump runs whatever was loaded at stage 2's address.
GoStage2 ==
  /\ pc = "read" /\ di >= image.args.total
  /\ Go(IF \A i \in 1..(Blob - Stage2) : Read(Stage2, Blob - Stage2)[i] = Code
        THEN "stage2" ELSE "lost")
  /\ Keep /\ UNCHANGED <<drive, try, di, gate, mem, bi, decoder>>
---------------------------------------------------------------------------
(* Stage 2, real mode. *)
Fail(code) == Go("halted") /\ bi' = [bi EXCEPT !.err = code]

Fresh ==
  [drive |-> drive, size |-> Span(image.args.total) - (Blob - Stage2),
   crc |-> image.args.crc, err |-> 0, a20 |-> 0, long |-> 0, n |-> 0, e820 |-> << >>, ram |-> 0,
   ksize |-> 0, kentry |-> 0, ktotal |-> 0]

(* The test compares 0:0x1FF0 with 0x1000:0x1FF0, which is 0x11FF0.  They   *)
(* differ by 64 KiB, not by 1 MiB.                                          *)
SameByte(open) ==
  LET wrap(a) == IF ~open /\ (a \div 1048576) % 2 = 1 THEN a - 1048576 ELSE a
  IN  wrap(8176) = wrap(65536 + 8176)

A20 ==
  /\ pc = "stage2" /\ Go("cpu")
  /\ gate' = IF SameByte(gate) THEN machine.port92 ELSE gate
  /\ bi' = [Fresh EXCEPT !.a20 = IF SameByte(gate') THEN 0 ELSE 1]
  /\ Keep /\ UNCHANGED <<drive, try, di, mem, decoder>>

CpuOk ==
  /\ pc = "cpu" /\ machine.flips /\ machine.long
  /\ Go("e820") /\ bi' = [bi EXCEPT !.long = 1]
  /\ Keep /\ UNCHANGED <<drive, try, di, gate, mem, decoder>>

CpuFails ==
  /\ pc = "cpu" /\ ~(machine.flips /\ machine.long)
  /\ Fail(IF machine.flips THEN 18 ELSE 19)
  /\ Keep /\ UNCHANGED <<drive, try, di, gate, mem, decoder>>

(* The firmware answers calls 1..Len(map); it ends the list with the last   *)
(* entry or, when the machine says so, with a refused call after it.        *)
E820Next ==
  /\ pc = "e820" /\ bi.n < E820Max /\ bi.n < Len(machine.map)
  /\ Write(E820Buf + bi.n, << <<"e820", machine.map[bi.n + 1]>> >>)
  /\ bi' = [bi EXCEPT !.n = @ + 1]
  /\ Go(IF bi'.n = Len(machine.map) /\ ~machine.refuses THEN "protected" ELSE "e820")
  /\ Keep /\ UNCHANGED <<drive, try, di, gate, decoder>>

\* Mutant: a refused call is an error even after entries were collected.
MutE820Check ==
  /\ pc = "e820" /\ (bi.n = E820Max \/ bi.n = Len(machine.map))
  /\ IF bi.n = 0 \/ machine.refuses THEN Fail(20) ELSE Go("protected") /\ UNCHANGED bi
  /\ Keep /\ UNCHANGED <<drive, try, di, gate, mem, decoder>>

E820Check ==
  /\ pc = "e820" /\ (bi.n = E820Max \/ bi.n = Len(machine.map))
  /\ IF bi.n = 0 THEN Fail(20) ELSE Go("protected") /\ UNCHANGED bi
  /\ Keep /\ UNCHANGED <<drive, try, di, gate, mem, decoder>>
---------------------------------------------------------------------------
(* Stage 2, protected mode. *)
\* One non-empty usable entry is enough to saturate the sum.
RamTotal(map) ==
  IF \E i \in DOMAIN map : map[i].type = 1 /\ map[i].len > 0 THEN RamMax ELSE 0

Protected ==
  /\ pc = "protected" /\ Go("adler")
  /\ LET map == [i \in 1..bi.n |-> mem[Phys(E820Buf + i - 1)][2]]
     IN  bi' = [bi EXCEPT !.e820 = map, !.ram = RamTotal(map)]
  /\ Keep /\ UNCHANGED <<drive, try, di, gate, mem, decoder>>

\* A protected mode failure reports on the serial port only.
FailPm(code) == Go("halted") /\ bi' = [bi EXCEPT !.err = code]

Adler ==
  /\ pc = "adler"
  /\ IF LoaderSum(Read(Blob, bi.size), image.ahead) = bi.crc
     THEN Go("unpack") /\ UNCHANGED bi ELSE FailPm(23)
  /\ Keep /\ UNCHANGED <<drive, try, di, gate, mem, decoder>>

(* Anything but the LZSS magic is copied whole, header included. *)
UnpackRaw ==
  /\ pc = "unpack" /\ mem[Phys(Blob)][2] # "QIZL" /\ Go("header")
  /\ Write(Scratch, Read(Blob, bi.size))
  /\ Keep /\ UNCHANGED <<drive, try, di, gate, bi, decoder>>

UnpackBegin ==
  /\ pc = "unpack" /\ mem[Phys(Blob)][2] = "QIZL" /\ Go("item")
  /\ esi' = 0 /\ edi' = 0
  /\ Keep /\ UNCHANGED <<drive, try, di, gate, mem, bi>>

(* The stream ends with the item that brings the output to the announced    *)
(* length.                                                                  *)
Announced == mem[Phys(Blob)][3]

UnpackItem ==
  /\ pc = "item" /\ edi < Announced
  /\ LET run == mem[Phys(Blob + 1 + esi)][2]
     IN  Write(Scratch + edi, run) /\ edi' = edi + Len(run)
  /\ esi' = esi + 1
  /\ Keep /\ UNCHANGED <<pc, drive, try, di, gate, bi>>

UnpackEnd ==
  /\ pc = "item" /\ edi >= Announced /\ Go("header")
  /\ Keep /\ UNCHANGED <<drive, try, di, gate, mem, bi, decoder>>

\* Mutant: an image that fills the budget to the last byte is refused.
MutHeaderError(cell) ==
  IF cell[1] # "IZOK" \/ cell[2].magic # "IZOK" THEN 25
  ELSE IF cell[2].size > KernelMax THEN 26
  ELSE IF cell[2].total >= KernelMax THEN 27 ELSE 0

\* The first test of the module header that fails, 0 when it passes them all.
HeaderError(cell) ==
  IF cell[1] # "IZOK" \/ cell[2].magic # "IZOK" THEN 25
  ELSE LET h      == cell[2]
           tests  == << <<h.size > KernelMax, 26>>, <<h.total > KernelMax, 27>>,
                        <<h.total < h.size, 28>>, <<h.ktext # KText, 29>>,
                        <<h.entry >= h.size, 22>> >>
           failed == {i \in DOMAIN tests : tests[i][1]}
       IN  IF failed = {} THEN 0 ELSE tests[Min(failed)][2]

Header ==
  /\ pc = "header"
  /\ LET cell == Read(Scratch, 1)[1] IN
     IF HeaderError(cell) # 0 THEN FailPm(HeaderError(cell))
     ELSE /\ Go("copy")
          /\ bi' = [bi EXCEPT !.ksize = cell[2].size, !.kentry = cell[2].entry,
                              !.ktotal = cell[2].total]
  /\ Keep /\ UNCHANGED <<drive, try, di, gate, mem, decoder>>

\* Mutant: the module header is copied along with the image.
MutCopy ==
  /\ pc = "copy" /\ Go("bss")
  /\ Write(KText, Read(Scratch, bi.ksize))
  /\ Keep /\ UNCHANGED <<drive, try, di, gate, bi, decoder>>

Copy ==
  /\ pc = "copy" /\ Go("bss")
  /\ Write(KText, Read(Scratch + HDR, bi.ksize))
  /\ Keep /\ UNCHANGED <<drive, try, di, gate, bi, decoder>>

ZeroBss ==
  /\ pc = "bss" /\ Go("pages")
  /\ Write(KText + bi.ksize, [i \in 1..(bi.ktotal - bi.ksize) |-> Zero])
  /\ Keep /\ UNCHANGED <<drive, try, di, gate, bi, decoder>>

\* PML4, PDPT and page directories of the identity map, and the fault IDT.
Tables == [i \in 1..PageCells |-> <<"table", i>>]

BuildPages ==
  /\ pc = "pages" /\ Go("long")
  /\ Write(Pages, Tables)
  /\ Keep /\ UNCHANGED <<drive, try, di, gate, bi, decoder>>

Long64 ==
  /\ pc = "long" /\ Go("kernel")
  /\ Keep /\ UNCHANGED <<drive, try, di, gate, mem, bi, decoder>>

Ended == {"kernel", "halted", "diskError", "lost"}
Done == pc \in Ended /\ UNCHANGED vars

Next ==
  \/ Start \/ ProbeHit \/ ProbeMiss \/ ReadChunk \/ ReadFails \/ GoStage2
  \/ A20 \/ CpuOk \/ CpuFails \/ E820Next \/ E820Check
  \/ Protected \/ Adler \/ UnpackRaw \/ UnpackBegin \/ UnpackItem \/ UnpackEnd \/ Header \/ Copy \/ ZeroBss \/ BuildPages
  \/ Long64
  \/ Done

Spec == Init /\ [][Next]_vars
FairSpec == Spec /\ WF_vars(Next)
---------------------------------------------------------------------------
(* Properties. *)
\* Type invariant: the registers and the memory of the boot stay in range.
TypeOK ==
  /\ pc \in Ended \cup {"start", "probe", "read", "stage2", "cpu", "e820", "protected",
                        "adler", "unpack", "item", "header", "copy", "bss", "pages", "long"}
  /\ drive \in 0..255 /\ try \in 0..4 /\ di \in 0..image.args.total
  /\ gate \in BOOLEAN /\ DOMAIN mem = 0..MemTop
  /\ bi.err \in 0..31 /\ esi \in Nat /\ edi \in Nat

(* The kernel starts only from an undamaged image read from the booted      *)
(* drive, with its bytes at KText, its .bss zero, its entry inside it, the  *)
(* page tables in place, and a memory map that is a prefix of the           *)
(* firmware's.  An image with a false size announces cells it does not have *)
(* and only those are unspecified.                                          *)
EntryIsSound ==
  pc = "kernel" =>
    LET k == image.kernel IN
    /\ drive = machine.booted /\ bi.drive = drive /\ machine.drives[drive].packet
    /\ image.damaged = 0 /\ k.magic = "IZOK" /\ k.base = KText /\ k.entry < k.size
    /\ \A i \in 1..k.size : i <= k.cells => Read(KText, k.size)[i] = <<"kernel", i>>
    /\ \A i \in (k.size + 1)..k.total : Read(KText, k.total)[i] = Zero
    /\ Read(Pages, PageCells) = Tables
    /\ bi.e820 # << >> /\ IsPrefix(bi.e820, machine.map)

\* The error codes this machine and this image call for.
Warranted ==
  (IF machine.long THEN {} ELSE {18}) \cup (IF machine.flips THEN {} ELSE {19})
  \cup (IF machine.map = << >> THEN {20} ELSE {})
  \cup (IF image.damaged # 0 \/ image.ahead THEN {23} ELSE {})
  \cup (IF image.raw THEN {25} ELSE {HeaderError(ModuleHeader(image.kernel))})

(* A boot that stops has a reason: a halted stage 2 reports a defect the    *)
(* machine or the image has, a disk error means a sector of the boot area   *)
(* could not be read, and stage 2 is missed only when another drive         *)
(* answered first or the firmware left a dirty upper half of EDI.           *)
StopIsExplained ==
  /\ pc = "halted" => bi.err # 0 /\ bi.err \in Warranted
  /\ pc = "diskError" =>
       \/ machine.upper # 0
       \/ \E s \in 0..(image.args.total - 1) : ~Reads(drive, PartLba + s)
  /\ pc = "lost" => drive # machine.booted \/ machine.upper # 0

(* Each step writes memory only where that step's data belongs, so no step  *)
(* destroys what a later one reads: the loader its own area, the map its    *)
(* buffer, the decoder the scratch area, the copy and the zeroing the       *)
(* kernel's budget.                                                         *)
Own(label) ==
  CASE label = "read"   -> Stage2..(Blob + BlobMax - 1)
    [] label = "e820"   -> E820Buf..(E820Buf + E820Max - 1)
    [] label \in {"unpack", "item"} -> Scratch..(Pages - 1)
    [] label \in {"copy", "bss"} -> KText..(KText + KernelMax - 1)
    [] label = "pages"  -> Pages..(MemTop - 1)
    [] OTHER -> {}
WritesStayHome == [][\A a \in DOMAIN mem : mem'[a] # mem[a] => a \in Own(pc)]_vars

---------------------------------------------------------------------------
(* What is known of the machine, the image and the memory at each point,    *)
(* when the firmware leaves A20 open: the steps write only below what they   *)
(* still need, so what each of them reads is what an earlier one stored.    *)
A20Open == \A in \in Inputs : in[1].gate = TRUE

AfterStage2 ==
  {"cpu", "e820", "protected", "adler", "unpack", "item", "header", "copy", "bss", "pages",
   "long", "kernel"}
Verified == {"unpack", "item", "header", "copy", "bss", "pages", "long", "kernel"}
Accepted == {"copy", "bss", "pages", "long", "kernel"}

BiFields ==
  {"drive", "size", "crc", "err", "a20", "long", "n", "e820", "ram", "ksize", "kentry", "ktotal"}

TheContainer == Container(image.kernel, image.raw)
TheModule == Payload(image.kernel)

ImageInv ==
  /\ \E in \in Inputs : machine = in[1] /\ image.kernel = in[2]
  /\ image.raw \in BOOLEAN /\ Buildable(image.kernel, image.raw)
  /\ image.args = Args(image.kernel, image.raw)
  /\ image.ahead => Last(Pad(TheContainer)) # Zero
  /\ image.damaged \in Nat
  /\ image.damaged = 0
     \/ image.damaged - PartLba \in Stage2Sectors..(image.args.total - 1)
  /\ gate = TRUE

\* What lies in memory: the sectors loaded so far, the memory map, the blob, the output
\* of the decoder, the kernel with its .bss, the tables.
Loaded ==
  \A s \in 0..(di - 1), j \in 1..SectorCells :
    mem[Stage2 + Span(s) + j - 1] = Sector(drive, Lba(s))[j]
MapStored == \A i \in 1..bi.n : mem[E820Buf + i - 1] = <<"e820", machine.map[i]>>
BlobStored == \A i \in 1..bi.size : mem[Blob + i - 1] = Pad(TheContainer)[i]
Decoded(n) == \A i \in 1..n : mem[Scratch + i - 1] = TheModule[i]
KernelStored ==
  \A i \in 1..image.kernel.size :
    i <= image.kernel.cells => mem[KText + i - 1] = <<"kernel", i>>
BssStored ==
  \A i \in (image.kernel.size + 1)..image.kernel.total : mem[KText + i - 1] = Zero
TablesStored == \A i \in 1..PageCells : mem[Pages + i - 1] = <<"table", i>>

\* Stage 1 loads the boot area, or says why it could not.
LoadInv ==
  /\ pc = "start" => di = 0
  /\ pc = "probe" => di = 0 /\ try < 4
  /\ pc \in {"read", "stage2"} /\ di > 0 => machine.drives[drive].packet
  /\ pc \in {"read", "stage2", "cpu", "e820", "protected", "adler"} => Loaded
  /\ pc = "diskError" =>
       machine.upper # 0 \/ \E s \in 0..(image.args.total - 1) : ~Reads(drive, PartLba + s)
  /\ pc = "lost" => drive # machine.booted \/ machine.upper # 0

\* Stage 2 runs from the booted drive, with the block stage 1 handed over.
InfoInv ==
  /\ pc \in AfterStage2 \cup {"stage2"} =>
       /\ drive = machine.booted /\ machine.upper = 0 /\ di = image.args.total
       /\ machine.drives[drive].packet
  /\ pc \in AfterStage2 =>
       /\ DOMAIN bi = BiFields /\ bi.drive = drive /\ bi.crc = image.args.crc
       /\ bi.size = Span(Sectors(TheContainer))
  /\ pc = "cpu" => bi.n = 0
  /\ pc \in {"e820", "protected"} =>
       bi.n \in 0..E820Max /\ bi.n <= Len(machine.map) /\ MapStored
  /\ pc = "protected" => bi.n > 0
  /\ pc \in Verified \cup {"adler"} => bi.e820 # << >> /\ IsPrefix(bi.e820, machine.map)
  /\ pc = "halted" => bi.err # 0 /\ bi.err \in Warranted

\* The blob is the builder's, and what the decoder has written is the module's beginning.
UnpackInv ==
  /\ pc \in Verified => image.damaged = 0
  /\ pc \in {"unpack", "item"} => BlobStored
  /\ pc = "item" =>
       /\ ~image.raw /\ esi <= Len(Items(TheModule))
       /\ edi = IF 2 * esi <= Len(TheModule) THEN 2 * esi ELSE Len(TheModule)
       /\ Decoded(edi)
  /\ pc = "header" /\ image.raw => mem[Scratch][1] = "box"
  /\ pc \in {"header", "copy"} /\ ~image.raw => Decoded(Len(TheModule))

\* The kernel, its .bss and the tables, as far as they are written.
KernelInv ==
  /\ pc \in Accepted =>
       /\ ~image.raw /\ HeaderError(ModuleHeader(image.kernel)) = 0
       /\ bi.ksize = image.kernel.size /\ bi.ktotal = image.kernel.total
  /\ pc \in {"bss", "pages", "long", "kernel"} => KernelStored
  /\ pc \in {"pages", "long", "kernel"} => BssStored
  /\ pc \in {"long", "kernel"} => TablesStored

BootInv == TypeOK /\ ImageInv /\ LoadInv /\ InfoInv /\ UnpackInv /\ KernelInv
---------------------------------------------------------------------------
(* Every boot ends, in the kernel or with a message.  Read loops advance    *)
(* and the firmware's calls return, which is the fairness assumed.          *)
BootEnds == <>(pc \in Ended)

\* docs/BOOTING.md, marker A1: the gate was tested for aliasing and is open.
A1MeansOpen == pc \notin {"start", "probe", "read", "diskError", "lost", "stage2"} =>
                 (bi.a20 = 1 => gate)

(* docs/BOOTING.md: a raw container is copied verbatim and its stream is    *)
(* the module, so an image written with --raw starts as a compressed one.   *)
RawBoots == pc = "halted" /\ bi.err = 25 => image.damaged # 0 \/ image.kernel.magic # "IZOK"
===========================================================================
