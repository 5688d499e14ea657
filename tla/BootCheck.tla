----------------------------- MODULE BootCheck -----------------------------
(***************************************************************************)
(* The two tools that judge a boot area before it is published, next to the *)
(* loader that has to start it: qizocheck.main reads the image file and     *)
(* qizobootmodel replays both stages on it.  They agree with stage 2 only   *)
(* as far as the properties below say.  The file system, the ISO and the    *)
(* code of the stages are judged elsewhere.                                 *)
(***************************************************************************)
EXTENDS BootChain

\* The image file from PART_LBA on, as long as stage 1's argument block says.
FileCells == Transfer(machine.booted, PartLba, image.args.total)

BlobCells == SubSeq(FileCells, Blob - Stage2 + 1, Len(FileCells))

(* qizolzss.decompress, which both tools use: items until the announced     *)
(* length is reached.  It raises on another magic.                          *)
PyOutput(box) ==
  LET out[n \in 0..(Len(box) - 1)] ==
        IF n = 0 THEN << >>
        ELSE IF Len(out[n - 1]) >= box[1][3] THEN out[n - 1]
        ELSE out[n - 1] \o box[n + 1][2]
  IN  out[Len(box) - 1]

\* The container is sound and its checksum is the one stage 1 was given.
BlobSound ==
  /\ image.args.total > Stage2Sectors
  /\ Checksum(BlobCells) = image.args.crc

\* What qizocheck takes for the module: a raw one with the padding behind it.
CheckOutput ==
  IF BlobCells[1][2] = "QIZL" THEN PyOutput(BlobCells) ELSE Tail(BlobCells)

\* Mutant: the room for .bss is not tested.
MutCheckModule(out) ==
  LET h == out[1][2] IN
  /\ h.magic = "IZOK" /\ h.total <= KernelMax
  /\ h.size + HDR = Len(out) /\ h.entry < h.size /\ h.size <= KernelMax

(* The tests on the module header.  total is compared with the image and    *)
(* its header, although the header is not copied; the load base is not      *)
(* looked at.                                                               *)
CheckModule(out) ==
  LET h == out[1][2] IN
  /\ h.magic = "IZOK" /\ h.total >= h.size + HDR /\ h.total <= KernelMax
  /\ h.size + HDR = Len(out) /\ h.entry < h.size /\ h.size <= KernelMax

\* The regions in memory, with this image's sizes.
CheckRegions(out) ==
  LET h == out[1][2] IN
  /\ Blob + Len(BlobCells) <= E820Buf
  /\ KText + h.total <= Scratch /\ Scratch + h.total <= Pages

QizoCheckPasses ==
  /\ BlobSound
  /\ Len(CheckOutput) = BlobCells[1][3]
  /\ CheckModule(CheckOutput) /\ CheckRegions(CheckOutput)
---------------------------------------------------------------------------
\* qizobootmodel.stage1: no chunk is written past the blob region.
ModelReads == Stage2 + Span(image.args.total) <= Blob + BlobMax

ModelHeader(out) ==
  LET h == out[1][2] IN
  /\ h.magic = "IZOK" /\ h.size <= KernelMax /\ h.total <= KernelMax /\ h.entry < h.size
  /\ h.size + HDR = Len(out)

\* The bytes the model leaves at KTEXT are those of the kernel file.
ModelCopies(out) ==
  SubSeq(out, HDR + 1, HDR + out[1][2].size) = KernelCells(image.kernel)

\* regions(), in address order: none reaches into the next.
ModelRegions(out) ==
  LET h == out[1][2] IN
  Fits(<< <<Stage2, Blob + BlobMax - Stage2>>, <<E820Buf, E820Max>>,
          <<KText, Max({h.size, h.total})>>, <<Scratch, KernelMax + HDR>>,
          <<Pages, PageCells>> >>)

BootModelPasses ==
  /\ ModelReads /\ BlobSound /\ BlobCells[1][2] = "QIZL"
  /\ LET out == PyOutput(BlobCells)
     IN  ModelHeader(out) /\ ModelCopies(out) /\ ModelRegions(out)
---------------------------------------------------------------------------
\* The errors of stage 2 that are about the image and not about the machine.
ImageErrors == 21..31

(* An image both tools pass is never refused by stage 2, with two           *)
(* exceptions.  Neither tool compares the load base with KTEXT, so an image *)
(* linked elsewhere passes both and stops with 0x1D (stage2.S fail_c7); and *)
(* both tools sum with zlib, so a blob without padding on which stage 2's   *)
(* high sum ends one modulus ahead passes both and stops with 0x17.         *)
PassedMeansBoots ==
  pc = "halted" /\ bi.err \in ImageErrors /\ QizoCheckPasses /\ BootModelPasses =>
    \/ bi.err = 29 /\ image.kernel.base # KText
    \/ bi.err = 23 /\ image.ahead /\ Last(BlobCells) # Zero

(* An image mkqizoimg wrote and stage 2 starts passes the model, and passes *)
(* qizocheck exactly when its .bss is at least as long as the module header *)
(* (qizocheck.py:327); a smaller .bss is refused although it boots.         *)
BootsMeansPassed ==
  pc = "kernel" /\ image.kernel.tool =>
    /\ BootModelPasses
    /\ QizoCheckPasses <=> image.kernel.total - image.kernel.size >= HDR
===========================================================================
