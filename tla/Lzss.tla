------------------------------- MODULE Lzss -------------------------------
(***************************************************************************)
(* The compressed container: qizolzss.compress writes the stream, stage 2's *)
(* qizo_decompress reads it, one loop iteration a step.  The 8 byte header  *)
(* is kept as total, and stream holds the bytes after it.  Positions count  *)
(* from 0 as in the code; the byte at position p of a sequence s is s[p+1]. *)
(***************************************************************************)
EXTENDS Integers, Sequences, SequencesExt, FiniteSetsExt

CONSTANTS
  Inputs,       \* the payloads to compress
  WINDOW, MIN_MATCH, MAX_MATCH,
  SectorBytes,  \* SECTOR: the blob is padded to whole ones
  BlobMax,      \* QIZO_BLOB_MAX, the bytes of the longest blob with its header
  Volume        \* the FAT volume mkqizoimg writes right behind the blob

Byte == 0..255

\* Stage 2 has the least length 3 and the two fields of a token built in.
ASSUME FormatAssumption ==
  /\ Inputs \subseteq Seq(Byte)
  /\ WINDOW \in 1..4096 /\ MIN_MATCH = 3 /\ MAX_MATCH \in 3..18
  /\ SectorBytes \in Nat \ {0}
  /\ BlobMax \in Nat /\ BlobMax % SectorBytes = 0

(* The volume begins with its boot sector, and that ends in 55 AA.          *)
ASSUME VolumeAssumption ==
  Volume \in Seq(Byte) /\ Len(Volume) >= SectorBytes /\ Volume[SectorBytes] # 0

VARIABLES
  src,      \* the payload
  pc,       \* "pack", "unpack" or "done"
  i,        \* bytes of src packed
  stream,   \* what has been written after the header
  fpos,     \* position of the current flag byte
  flags,    \* its bits so far
  bit,      \* items in the current group
  esi, edi, \* bytes read and written by stage 2
  ebx, ebp, \* the mask and the flag byte of stage 2
  off, left, \* the two words on the stack while a match is copied
  dst,      \* the scratch area: what stage 2 has written
  items,    \* history: the items the encoder has written, in order
  taken     \* history: how many of them stage 2 has read

packVars == <<i, stream, fpos, flags, bit, items>>
readVars == <<esi, edi, ebx, ebp, off, left, dst, taken>>
vars == <<src, pc, packVars, readVars>>

n == Len(src)
Total == n        \* the length in the header
---------------------------------------------------------------------------
(* The encoder. *)
\* 1 << k, for the eight bits of a flag byte.
Bit(k) == <<1, 2, 4, 8, 16, 32, 64, 128>>[k + 1]

\* The bit of f that the mask m selects.
Test(f, m) == (f \div m) % 2

\* How many bytes at p repeat the ones o before it, at most limit.
Common(p, o, limit) ==
  Max({l \in 0..limit : \A k \in 0..(l - 1) : src[p - o + k + 1] = src[p + k + 1]})

(* The search goes from the nearest candidate to the farthest and keeps the *)
(* first of the longest matches.                                            *)
FindMatch(p) ==
  LET limit == Min({MAX_MATCH, n - p})
      offs  == 1..Min({p, WINDOW})
      best  == IF limit < MIN_MATCH \/ offs = {} THEN 0
               ELSE Max({Common(p, o, limit) : o \in offs})
  IN  IF best < MIN_MATCH THEN <<0, 0>>
      ELSE <<Min({o \in offs : Common(p, o, limit) = best}), best>>

\* Mutant: the distance is stored as it is, not less one.
MutToken(o, ln) == o * 16 + (ln - MIN_MATCH)

Token(o, ln) == (o - 1) * 16 + (ln - MIN_MATCH)

\* History: what an item stands for and where it and its flag bit are.
Written(o, ln) ==
  Append(items, [at |-> Len(stream), pos |-> i, off |-> o, len |-> ln,
                 flag |-> fpos, bit |-> bit])

Init ==
  /\ src \in Inputs /\ pc = "pack"
  /\ i = 0 /\ stream = << >> /\ fpos = -1 /\ flags = 0 /\ bit = 8
  /\ items = << >> /\ taken = 0 /\ off = 0 /\ left = 0
  /\ esi = 0 /\ edi = 0 /\ ebx = 128 /\ ebp = 0 /\ dst = << >>

\* Mutant: a flag byte is spent on seven items only.
MutPackGroup ==
  /\ pc = "pack" /\ i < n /\ fpos = -1
  /\ fpos' = Len(stream) /\ stream' = Append(stream, 0)
  /\ flags' = 0 /\ bit' = 1
  /\ UNCHANGED <<src, pc, i, items>> /\ UNCHANGED readVars

PackGroup ==
  /\ pc = "pack" /\ i < n /\ fpos = -1
  /\ fpos' = Len(stream) /\ stream' = Append(stream, 0)
  /\ flags' = 0 /\ bit' = 0
  /\ UNCHANGED <<src, pc, i, items>> /\ UNCHANGED readVars

PackMatch ==
  /\ pc = "pack" /\ fpos >= 0 /\ bit < 8 /\ i < n
  /\ LET m == FindMatch(i) IN
     /\ m[2] # 0
     /\ flags' = flags + Bit(bit)
     /\ stream' = stream \o <<Token(m[1], m[2]) % 256, Token(m[1], m[2]) \div 256>>
     /\ i' = i + m[2]
     /\ items' = Written(m[1], m[2])
  /\ bit' = bit + 1
  /\ UNCHANGED <<src, pc, fpos>> /\ UNCHANGED readVars

PackLiteral ==
  /\ pc = "pack" /\ fpos >= 0 /\ bit < 8 /\ i < n
  /\ FindMatch(i)[2] = 0
  /\ stream' = Append(stream, src[i + 1])
  /\ i' = i + 1 /\ bit' = bit + 1
  /\ items' = Written(0, 1)
  /\ UNCHANGED <<src, pc, fpos, flags>> /\ UNCHANGED readVars

\* Mutant: the group is not closed.
MutPackFlags ==
  /\ pc = "pack" /\ fpos >= 0 /\ (bit = 8 \/ i >= n)
  /\ stream' = [stream EXCEPT ![fpos + 1] = flags]
  /\ UNCHANGED <<src, pc, i, fpos, flags, bit, items>> /\ UNCHANGED readVars

PackFlags ==
  /\ pc = "pack" /\ fpos >= 0 /\ (bit = 8 \/ i >= n)
  /\ stream' = [stream EXCEPT ![fpos + 1] = flags]
  /\ fpos' = -1
  /\ UNCHANGED <<src, pc, i, flags, bit, items>> /\ UNCHANGED readVars

PackEnd ==
  /\ pc = "pack" /\ i >= n /\ fpos = -1 /\ pc' = "unpack"
  /\ UNCHANGED src /\ UNCHANGED packVars /\ UNCHANGED readVars

\* The blob as it is loaded: padded with zeros to whole sectors.
Pad(bytes) ==
  bytes \o [k \in 1..((-(Len(bytes) + 8)) % SectorBytes) |-> 0]
Blob == Pad(stream)

\* The image file from the byte behind the blob's header on.
Image == Blob \o Volume
---------------------------------------------------------------------------
(* Stage 2's decoder.  A read beyond the blob or before the output finds    *)
(* whatever memory holds there: the value is not a byte of the payload.     *)
Stray == 256
At(s, p) == IF p \in 0..(Len(s) - 1) THEN s[p + 1] ELSE Stray

\* Mutant: the mask is refilled one item late.
MutMask == IF ebx = 256 THEN 1 ELSE ebx * 2

\* The mask for the next item: shifted, or 1 with a fresh flag byte.
Mask == IF ebx * 2 = 256 THEN 1 ELSE ebx * 2
Refill == Mask = 1
Flags == IF Refill THEN At(Blob, esi) ELSE ebp
Item == esi + (IF Refill THEN 1 ELSE 0)
IsMatch == Test(Flags, Mask) = 1

ReadLiteral ==
  /\ pc = "unpack" /\ left = 0 /\ edi < Total /\ ~IsMatch
  /\ dst' = Append(dst, At(Blob, Item))
  /\ edi' = edi + 1 /\ esi' = Item + 1
  /\ ebx' = Mask /\ ebp' = Flags /\ taken' = taken + 1
  /\ UNCHANGED <<src, pc, off, left>> /\ UNCHANGED packVars

\* Mutant: the distance is used as it is stored, less one.
MutReadMatch ==
  /\ pc = "unpack" /\ left = 0 /\ edi < Total /\ IsMatch
  /\ LET tok == At(Blob, Item) + 256 * At(Blob, Item + 1)
     IN  off' = tok \div 16 /\ left' = (tok % 16) + 3
  /\ esi' = Item + 2 /\ ebx' = Mask /\ ebp' = Flags /\ taken' = taken + 1
  /\ UNCHANGED <<src, pc, edi, dst>> /\ UNCHANGED packVars

ReadMatch ==
  /\ pc = "unpack" /\ left = 0 /\ edi < Total /\ IsMatch
  /\ LET tok == At(Blob, Item) + 256 * At(Blob, Item + 1)
     IN  off' = (tok \div 16) + 1 /\ left' = (tok % 16) + 3
  /\ esi' = Item + 2 /\ ebx' = Mask /\ ebp' = Flags /\ taken' = taken + 1
  /\ UNCHANGED <<src, pc, edi, dst>> /\ UNCHANGED packVars

(* decomp_copy: byte by byte, so a match may overlap what it is writing.    *)
CopyByte ==
  /\ pc = "unpack" /\ left > 0
  /\ dst' = Append(dst, At(dst, edi - off))
  /\ edi' = edi + 1 /\ left' = left - 1
  /\ UNCHANGED <<src, pc, esi, ebx, ebp, off, taken>> /\ UNCHANGED packVars

ReadEnd ==
  /\ pc = "unpack" /\ left = 0 /\ edi >= Total /\ pc' = "done"
  /\ UNCHANGED src /\ UNCHANGED packVars /\ UNCHANGED readVars

Pack == PackGroup \/ PackMatch \/ PackLiteral \/ PackFlags \/ PackEnd
Unpack == ReadLiteral \/ ReadMatch \/ CopyByte \/ ReadEnd
LzNext == Pack \/ Unpack
LzSpec == Init /\ [][LzNext]_vars
---------------------------------------------------------------------------
(* qizolzss.decompress, over any bytes: the output, or Refused when it      *)
(* raises.  An index before the output counts from its end, as in Python.   *)
Refused == <<-1>>

PyByte(o, p) ==
  LET q == IF p < 0 THEN p + Len(o) ELSE p
  IN  IF o = Refused \/ q < 0 THEN Refused ELSE Append(o, o[q + 1])

PyCopy(s, o1, ln) ==
  LET f[k \in 0..ln] == IF k = 0 THEN s ELSE PyByte(f[k - 1], Len(s) - o1 + k - 1)
  IN  f[ln]

\* One item of the loop; a state is <<out, i, flags, bit>>.
PyItem(bytes, total, st) ==
  LET out == st[1]  p == st[2]
      fresh == st[4] = 8
      fl == IF fresh THEN At(bytes, p) ELSE st[3]
      b  == IF fresh THEN 0 ELSE st[4]
      q  == IF fresh THEN p + 1 ELSE p
  IN  IF out = Refused \/ Len(out) >= total THEN st
      ELSE IF p >= Len(bytes) THEN <<Refused, p, 0, 0>>
      ELSE IF Test(fl, Bit(b)) = 1
           THEN IF q + 2 > Len(bytes) THEN <<Refused, q, 0, 0>>
                ELSE LET tok == bytes[q + 1] + 256 * bytes[q + 2]
                     IN  <<PyCopy(out, (tok \div 16) + 1, (tok % 16) + MIN_MATCH), q + 2, fl, b + 1>>
           ELSE IF q >= Len(bytes) THEN <<Refused, q, 0, 0>>
                ELSE <<Append(out, bytes[q + 1]), q + 1, fl, b + 1>>

Decompress(bytes, total) ==
  LET run[k \in 0..total] ==
        IF k = 0 THEN << << >>, 0, 0, 8>> ELSE PyItem(bytes, total, run[k - 1])
  IN  run[total][1]

\* Mutant: the last byte that is not zero goes too.
MutBlobOf(img) ==
  LET used == {k \in 1..Min({BlobMax - 8, Len(img)}) : img[k] # 0}
  IN  IF used = {} THEN << >> ELSE SubSeq(img, 1, Max(used) - 1)

(* qizoasmrun.blob_of: as many bytes as the longest blob has, whatever the  *)
(* length of this one, without the zeros at their end.                      *)
BlobOf(img) ==
  LET used == {k \in 1..Min({BlobMax - 8, Len(img)}) : img[k] # 0}
  IN  IF used = {} THEN << >> ELSE SubSeq(img, 1, Max(used))

(* qizoasmrun.main up to the comparison: what the reference decoder makes   *)
(* of the bytes blob_of cuts, and what the assembled decoder wrote of the   *)
(* announced length.                                                        *)
HarnessAgrees ==
  LET real == Decompress(BlobOf(Image), Total)
  IN  real # Refused /\ real = SubSeq(dst, 1, Total)
---------------------------------------------------------------------------
(* Properties. *)
\* Type invariant: bytes are bytes and the registers stay in range.
TypeOK ==
  /\ pc \in {"pack", "unpack", "done"} /\ i \in 0..n /\ bit \in 0..8 /\ flags \in Byte
  /\ stream \in Seq(Byte) /\ fpos \in -1..(Len(stream) - 1)
  /\ ebx \in {Bit(k) : k \in 0..7} /\ ebp \in Byte /\ edi = Len(dst)
  /\ esi \in 0..Len(stream) /\ off \in 0..WINDOW /\ left \in 0..MAX_MATCH

(* What stage 2 has written is always the beginning of the payload: it      *)
(* never writes past the announced length, never copies from outside its    *)
(* output and never takes a flag byte for an item (stage2.S decomp_top).    *)
OutputIsPrefix == IsPrefix(dst, src)

(* At the end stage 2 has the payload and has read the stream to its last   *)
(* byte, and no further.                                                    *)
RoundTrip == pc = "done" => dst = src /\ esi = Len(stream)

(* A stream is never longer than its literals with a flag byte for every    *)
(* eight, which is what makes the size test of mkqizoimg meaningful for     *)
(* data that does not compress.                                             *)
NeverExplodes == pc # "pack" => Len(stream) <= n + (n + 7) \div 8

\* mkqizoimg writes no blob that is longer than its region.
BlobFits == 8 + Len(stream) <= BlobMax

\* The blob leaves no room for the volume's boot sector in what blob_of cuts.
FillsWindow == Len(Blob) = BlobMax - 8

(* The reference decoder, on the padded blob qizocheck gives it, returns    *)
(* the payload.  The host test accepts a sound blob although blob_of cuts   *)
(* it with the beginning of the volume behind it, with exactly one          *)
(* exception: when the blob fills its region and the stream ends in a zero  *)
(* byte, that byte is taken for padding and the reference decoder refuses   *)
(* what is left.                                                            *)
HarnessAccepts ==
  pc = "done" /\ BlobFits =>
    /\ Decompress(Blob, Total) = src
    /\ n > 0 => (HarnessAgrees <=> ~(FillsWindow /\ Last(stream) = 0))

\* Packing and unpacking both come to an end.
Finishes == <>(pc = "done")
===========================================================================
