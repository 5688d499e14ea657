---------------------------- MODULE BootImage ----------------------------
(***************************************************************************)
(* The boot area mkqizoimg writes: stage 2, then the module blob, then the *)
(* argument block patched into the master boot record.  The unit is a cell: *)
(* a sector holds SectorCells of them, and the two headers, every piece of *)
(* the kernel and every item of the compressed stream take one each.  A     *)
(* cell is a tuple whose first component says what it is.                   *)
(***************************************************************************)
EXTENDS Integers, Sequences, SequencesExt

CONSTANTS
  SectorCells,     \* SECTOR
  Stage2Sectors,   \* QIZO_STAGE2_SECTORS
  BlobMax,         \* QIZO_BLOB_MAX, in cells
  KernelMax,       \* QIZO_KERNEL_MAX, in cells
  KText            \* QIZO_KTEXT

HDR == 1           \* QIZO_QIZOK_HDR, in cells
Span(n) == n * SectorCells   \* n sectors, in cells
Zero == <<"zero">>
Code == <<"stage2">>

(* A kernel is what main() learns from the flat binary and the symbols: its *)
(* length, the length with .bss, the entry offset and the load base.  tool  *)
(* tells a header mkqizoimg packed from one written by other means, which   *)
(* stage 2 must judge too.                                                  *)
ModuleHeader(k) ==
  <<"IZOK", [magic |-> k.magic, size |-> k.size, entry |-> k.entry,
             total |-> k.total, ktext |-> k.base]>>

KernelCells(k) == [i \in 1..k.cells |-> <<"kernel", i>>]

Payload(k) == <<ModuleHeader(k)>> \o KernelCells(k)

(* An item stands for a run of output: a literal for one cell, a match for  *)
(* two.  The encoder takes what it finds, so items differ in length.        *)
Items(p) ==
  LET n == (Len(p) + 1) \div 2
  IN  [i \in 1..n |-> <<"item", SubSeq(p, 2 * i - 1, IF 2 * i <= Len(p) THEN 2 * i ELSE Len(p))>>]

Compress(p) == << <<"box", "QIZL", Len(p)>> >> \o Items(p)

Raw(p) == << <<"box", "none", Len(p)>> >> \o p

Sectors(cells) == (Len(cells) + SectorCells - 1) \div SectorCells

Pad(cells) ==
  cells \o [i \in 1..(Span(Sectors(cells)) - Len(cells)) |-> Zero]

Container(k, raw) == IF raw THEN Raw(Payload(k)) ELSE Compress(Payload(k))

\* Mutant: the blob may be of any length.
MutFitsBlob(k, raw) == TRUE

\* The checks of main() that refuse to write an image.
FitsKernel(k) == k.size + HDR <= KernelMax /\ k.total <= KernelMax
FitsBlob(k, raw) == Len(Container(k, raw)) <= BlobMax
Buildable(k, raw) ==
  /\ k.tool => k.magic = "IZOK" /\ k.size = k.cells /\ k.total >= k.size /\ FitsKernel(k)
  /\ FitsBlob(k, raw)

(* zlib's adler32 over the padded blob.  Collisions are left out: the sum of *)
(* a sequence of cells is that sequence.                                    *)
Checksum(cells) == cells

(* Stage 2 sums in its own way, and module Adler says how far the two part:  *)
(* its high sum may end one modulus ahead of zlib's, after a last byte that  *)
(* is not zero.  The bytes decide, so ahead is a fact about the image.       *)
Ahead(cells) == Append(Checksum(cells), <<"modulus">>)
LoaderSum(cells, ahead) ==
  IF ahead /\ Last(cells) # Zero THEN Ahead(cells) ELSE Checksum(cells)

\* The sectors from PART_LBA on, and the words patched into the argument block.
BootArea(k, raw) ==
  [i \in 1..(Span(Stage2Sectors)) |-> Code] \o Pad(Container(k, raw))

Args(k, raw) ==
  [total |-> Stage2Sectors + Sectors(Container(k, raw)),
   crc   |-> Checksum(Pad(Container(k, raw)))]
===========================================================================
