---------------------------- MODULE LzssProofs ----------------------------
(***************************************************************************)
(* Compression is inverted by stage 2's decoder, for every payload of bytes *)
(* and every window and longest match the token format has room for; and    *)
(* its checksum is the reference's but for one case.                        *)
(***************************************************************************)
EXTENDS Lzss, Adler, KernelLemmas

---------------------------------------------------------------------------
(* The strengthening that makes the invariants of Lzss inductive.           *)

\* How many bytes an item takes, and the byte of flags at position p, which
\* the encoder still keeps in a variable while its group is open.
Size(it) == IF it.off = 0 THEN 1 ELSE 2
FlagByte(p) == IF p = fpos THEN flags ELSE stream[p + 1]

ItemType == [at : Nat, pos : Nat, off : 0..WINDOW, len : 1..MAX_MATCH, flag : Nat, bit : 0..7]

\* An item says the truth: its bytes in the stream str stand for its bytes of
\* the payload x, and its bit of the flag byte fb tells which kind it is.
ItemTrue(it, x, str, fb) ==
  /\ it.at + Size(it) <= Len(str) /\ it.flag < it.at /\ it.pos + it.len <= Len(x)
  /\ Test(fb, Bit(it.bit)) = (IF it.off = 0 THEN 0 ELSE 1)
  /\ it.off = 0 => it.len = 1 /\ str[it.at + 1] = x[it.pos + 1]
  /\ it.off # 0 =>
       /\ it.off <= it.pos /\ it.len >= MIN_MATCH
       /\ str[it.at + 1] = Token(it.off, it.len) % 256
       /\ str[it.at + 2] = Token(it.off, it.len) \div 256
       /\ \A k \in 0..(it.len - 1) : x[it.pos - it.off + k + 1] = x[it.pos + k + 1]

\* The items follow each other without a gap in the payload and in the
\* stream, where a flag byte comes before every item of bit 0.
Follows(it, nxt) ==
  /\ nxt.pos = it.pos + it.len
  /\ nxt.bit = (IF it.bit = 7 THEN 0 ELSE it.bit + 1)
  /\ IF nxt.bit = 0 THEN nxt.flag = it.at + Size(it) /\ nxt.at = nxt.flag + 1
                    ELSE nxt.flag = it.flag /\ nxt.at = it.at + Size(it)

\* The last item written, or what stands before the first.
LastItem ==
  IF items = << >> THEN [at |-> -1, pos |-> 0, off |-> 0, len |-> 0, flag |-> -1, bit |-> 7]
                   ELSE items[Len(items)]

ItemsInv ==
  /\ items \in Seq(ItemType)
  /\ items # << >> => items[1].pos = 0 /\ items[1].bit = 0 /\ items[1].flag = 0 /\ items[1].at = 1
  /\ \A k \in 1..Len(items) : ItemTrue(items[k], src, stream, FlagByte(items[k].flag))
  /\ \A k \in 1..(Len(items) - 1) : Follows(items[k], items[k + 1])
  /\ i = LastItem.pos + LastItem.len

\* Where the encoder is: between two groups, or inside one.
GroupInv ==
  IF fpos = -1
  THEN /\ LastItem.at + Size(LastItem) = Len(stream)
       /\ i < n => LastItem.bit = 7
       /\ i < n => 8 * Len(stream) <= 9 * i
       /\ 8 * Len(stream) <= 9 * i + 7
  ELSE /\ bit > 0 => LastItem.bit = bit - 1 /\ LastItem.flag = fpos
       /\ bit > 0 => LastItem.at + Size(LastItem) = Len(stream)
       /\ bit = 0 => LastItem.bit = 7 /\ i < n /\ Len(stream) = fpos + 1
       /\ bit = 0 => LastItem.at + Size(LastItem) = fpos
       /\ 8 * Len(stream) <= 9 * i + 8 - bit
       /\ bit < 8 => flags < Bit(bit)
       /\ \A k \in 1..Len(items) :
            IF items[k].flag = fpos THEN items[k].bit < bit
                                    ELSE items[k].at + Size(items[k]) <= fpos

\* Where stage 2 is: it has read the items up to taken, and is copying the
\* last of these while left is not zero.
ReadInv ==
  /\ taken \in 0..Len(items)
  /\ pc = "pack" => taken = 0
  /\ pc # "pack" => i = n /\ fpos = -1
  /\ IF taken = 0 THEN esi = 0 /\ ebx = 128
     ELSE LET it == items[taken] IN
          /\ esi = it.at + Size(it) /\ ebx = Bit(it.bit)
          /\ ebp = FlagByte(it.flag)
          /\ edi + left = it.pos + it.len
          /\ left > 0 => off = it.off /\ off > 0 /\ it.pos <= edi
  /\ taken = 0 => edi = 0 /\ left = 0
  /\ edi <= n
  /\ \A k \in 1..edi : dst[k] = src[k]
  /\ pc = "done" => edi = n /\ left = 0

LzInv ==
  /\ src \in Inputs /\ dst \in Seq(Byte)
  /\ TypeOK /\ ItemsInv /\ GroupInv /\ ReadInv
---------------------------------------------------------------------------
(* Bits and bytes.                                                          *)

\* The format, without its payloads.
LEMMA Format ==
  /\ WINDOW \in Nat /\ WINDOW >= 1 /\ WINDOW <= 4096
  /\ MIN_MATCH = 3 /\ MAX_MATCH \in Nat /\ MAX_MATCH >= 3 /\ MAX_MATCH <= 18
  BY FormatAssumption

LEMMA BitValues ==
  /\ Bit(0) = 1 /\ Bit(1) = 2 /\ Bit(2) = 4 /\ Bit(3) = 8
  /\ Bit(4) = 16 /\ Bit(5) = 32 /\ Bit(6) = 64 /\ Bit(7) = 128
  BY DEF Bit

\* Doubling the mask moves it to the next bit, and leaves the byte after the
\* last one.
LEMMA BitDouble ==
  ASSUME NEW k \in 0..7
  PROVE  /\ Bit(k) \in 1..128 /\ (Bit(k) * 2 = 256 <=> k = 7)
         /\ k < 7 => Bit(k) * 2 = Bit(k + 1)
         /\ Bit(k) = 1 <=> k = 0
<1>1. k = 0 \/ k = 1 \/ k = 2 \/ k = 3 \/ k = 4 \/ k = 5 \/ k = 6 \/ k = 7
  OBVIOUS
<1> QED
  BY <1>1, BitValues

LEMMA Bytes ==
  /\ \A x \in Byte : x \in Nat /\ x <= 255
  /\ \A x \in Nat : x <= 255 => x \in Byte
  BY DEF Byte

\* The bits of a byte that has none from bit p on.
LEMMA BitsAbove ==
  ASSUME NEW p \in 0..7, NEW f \in Nat, f < Bit(p)
  PROVE  Test(f, Bit(p)) = 0
<1>1. Bit(p) \in 1..128
  BY BitDouble
<1> HIDE DEF Bit
<1>2. f \div Bit(p) = 0
  BY <1>1
<1> QED
  BY <1>2 DEF Test

\* Setting bit p of such a byte sets that bit and changes none below it.
LEMMA SetBit ==
  ASSUME NEW p \in 0..7, NEW f \in Nat, f < Bit(p)
  PROVE  /\ Test(f + Bit(p), Bit(p)) = 1
         /\ f + Bit(p) \in Byte /\ (p < 7 => f + Bit(p) < Bit(p + 1))
         /\ \A j \in 0..(p - 1) : Test(f + Bit(p), Bit(j)) = Test(f, Bit(j))
<1> USE BitValues, Bytes DEF Test
<1>1. CASE p = 0
  BY <1>1
<1>2. CASE p = 1
  <2>1. f = 0 \/ f = 1
    BY <1>2
  <2> QED
    BY <1>2, <2>1
<1>3. CASE p = 2
  BY <1>3
<1>4. CASE p = 3
  BY <1>4, SMTT(30)
<1>5. CASE p = 4
  BY <1>5
<1>6. CASE p = 5
  BY <1>6
<1>7. CASE p = 6
  BY <1>7, SMTT(30)
<1>8. CASE p = 7
  <2>1. Test(f + 128, 128) = 1 /\ f + 128 \in Byte
    BY <1>8, Bytes
  <2> DEFINE Same(d) == Test(f + 128, d) = Test(f, d)
  <2>2. Same(1) /\ Same(2) /\ Same(4) /\ Same(8)
    OBVIOUS
  <2>3. Same(16) /\ Same(32) /\ Same(64)
    OBVIOUS
  <2>4. ASSUME NEW j \in 0..6
        PROVE  Same(Bit(j))
    <3> HIDE DEF Same
    <3>1. j = 0 \/ j = 1 \/ j = 2 \/ j = 3 \/ j = 4 \/ j = 5 \/ j = 6
      OBVIOUS
    <3> QED
      BY <2>2, <2>3, <3>1
  <2> QED
    BY <1>8, <2>1, <2>4
<1> QED
  BY <1>1, <1>2, <1>3, <1>4, <1>5, <1>6, <1>7, <1>8

\* A token gives back its distance and its length.
LEMMA TokenFields ==
  ASSUME NEW o \in 1..WINDOW, NEW ln \in MIN_MATCH..MAX_MATCH
  PROVE  LET t == Token(o, ln)
         IN  /\ t \in Nat /\ t % 256 \in Byte /\ t \div 256 \in Byte
             /\ (t % 256) + 256 * (t \div 256) = t
             /\ (t \div 16) + 1 = o /\ (t % 16) + 3 = ln
  BY FormatAssumption, Bytes DEF Token

---------------------------------------------------------------------------
(* The search for a match.                                                  *)

\* The greatest and the least element of a bounded set of numbers.
LEMMA MaxIn ==
  ASSUME NEW S \in SUBSET Nat, S # {}, NEW k \in Nat, \A x \in S : x <= k
  PROVE  Max(S) \in S
<1>1. PICK m \in S : \A x \in S : x <= m
  BY NatMax
<1> QED
  BY <1>1 DEF Max

LEMMA MinIn ==
  ASSUME NEW S \in SUBSET Nat, S # {}
  PROVE  Min(S) \in S /\ \A x \in S : Min(S) <= x
<1>1. PICK m \in S : \A x \in S : m <= x
  BY NatMin
<1> QED
  BY <1>1 DEF Min

\* The length the inner loop of _find_match counts.
LEMMA CommonRepeats ==
  ASSUME NEW p, NEW o, NEW limit \in Nat
  PROVE  /\ Common(p, o, limit) \in 0..limit
         /\ \A k \in 0..(Common(p, o, limit) - 1) : src[p - o + k + 1] = src[p + k + 1]
<1> DEFINE S == {l \in 0..limit : \A k \in 0..(l - 1) : src[p - o + k + 1] = src[p + k + 1]}
<1>1. 0 \in S
  OBVIOUS
<1>2. S \in SUBSET Nat /\ \A x \in S : x <= limit
  OBVIOUS
<1>3. Max(S) \in S
  BY <1>1, <1>2, MaxIn
<1> QED
  BY <1>3 DEF Common

\* A match that is found lies inside the window and the payload, has a length
\* the format can hold, and repeats what comes at p.
LEMMA MatchFound ==
  ASSUME NEW p \in Nat, n \in Nat, p < n, FindMatch(p)[2] # 0
  PROVE  LET m == FindMatch(p)
         IN  /\ m[1] \in 1..WINDOW /\ m[1] <= p
             /\ m[2] \in MIN_MATCH..MAX_MATCH /\ p + m[2] <= n
             /\ \A k \in 0..(m[2] - 1) : src[p - m[1] + k + 1] = src[p + k + 1]
<1> USE FormatAssumption
<1> DEFINE limit == Min({MAX_MATCH, n - p})
           offs == 1..Min({p, WINDOW})
           best == IF limit < MIN_MATCH \/ offs = {} THEN 0
                   ELSE Max({Common(p, o, limit) : o \in offs})
           found == {o \in offs : Common(p, o, limit) = best}
<1>1. limit \in Nat /\ limit <= MAX_MATCH /\ limit <= n - p
  <2>1. {MAX_MATCH, n - p} \in SUBSET Nat /\ {MAX_MATCH, n - p} # {}
    OBVIOUS
  <2>2. limit \in {MAX_MATCH, n - p} /\ \A x \in {MAX_MATCH, n - p} : limit <= x
    BY ONLY <2>1, MinIn, Zenon
  <2> HIDE DEF limit
  <2> QED
    BY <2>1, <2>2
<1>2. Min({p, WINDOW}) \in Nat /\ Min({p, WINDOW}) <= p /\ Min({p, WINDOW}) <= WINDOW
  <2>1. {p, WINDOW} \in SUBSET Nat /\ {p, WINDOW} # {}
    OBVIOUS
  <2>2. Min({p, WINDOW}) \in {p, WINDOW} /\ \A x \in {p, WINDOW} : Min({p, WINDOW}) <= x
    BY ONLY <2>1, MinIn, Zenon
  <2> QED
    BY <2>1, <2>2
<1>3. FindMatch(p) = IF best < MIN_MATCH THEN <<0, 0>> ELSE <<Min(found), best>>
  BY DEF FindMatch
<1> HIDE DEF limit, offs
<1>4. best # 0 => offs # {} /\ best = Max({Common(p, o, limit) : o \in offs})
  OBVIOUS
<1>5. found = {o \in offs : Common(p, o, limit) = best}
  OBVIOUS
<1> HIDE DEF best, found
<1>6. ~(best < MIN_MATCH) /\ FindMatch(p) = <<Min(found), best>> /\ best # 0
  BY <1>3
<1>6A. best \in {Common(p, o, limit) : o \in offs}
  <2> DEFINE C == {Common(p, o, limit) : o \in offs}
  <2>1. \A o \in offs : Common(p, o, limit) \in 0..limit
    BY <1>1, CommonRepeats
  <2>2. C \in SUBSET Nat /\ \A x \in C : x <= limit
    BY <1>1, <2>1
  <2>3. C # {} /\ best = Max(C)
    BY <1>4, <1>6
  <2> HIDE DEF C
  <2>4. Max(C) \in C
    BY ONLY <1>1, <2>2, <2>3, MaxIn, Zenon
  <2>5. best \in C
    BY <2>3, <2>4
  <2> QED
    BY <2>5 DEF C
<1>7. found # {} /\ found \in SUBSET Nat
  <2>1. found \in SUBSET Nat
    BY <1>2, <1>5 DEF offs
  <2>2. found # {}
    BY <1>5, <1>6A
  <2> QED
    BY <2>1, <2>2
<1>8. Min(found) \in found
  BY ONLY <1>7, MinIn, Zenon
<1> DEFINE o == Min(found)
<1>9. o \in offs /\ Common(p, o, limit) = best
  BY <1>5, <1>8
<1> HIDE DEF o
<1>10. /\ best \in 0..limit
       /\ \A k \in 0..(best - 1) : src[p - o + k + 1] = src[p + k + 1]
  BY <1>1, <1>9, CommonRepeats
<1>11. o \in 1..WINDOW /\ o <= p
  BY <1>2, <1>9 DEF offs
<1>12. best \in MIN_MATCH..MAX_MATCH /\ p + best <= n
  BY <1>1, <1>6, <1>10
<1> QED
  BY <1>6, <1>10, <1>11, <1>12 DEF o

---------------------------------------------------------------------------
(* The steps of the encoder.                                                *)

\* An item stays true when the stream grows or another byte of it is set, and
\* its own flag bit keeps its value.
LEMMA ItemKept ==
  ASSUME NEW it \in ItemType, NEW x, NEW s \in Seq(Byte), NEW t \in Seq(Byte),
         NEW fb \in Nat, NEW fc \in Nat,
         ItemTrue(it, x, s, fb), Len(s) <= Len(t),
         t[it.at + 1] = s[it.at + 1], it.off # 0 => t[it.at + 2] = s[it.at + 2],
         Test(fb, Bit(it.bit)) = Test(fc, Bit(it.bit))
  PROVE  ItemTrue(it, x, t, fc)
<1>1. it.at + Size(it) <= Len(t)
  BY SMTT(30) DEF ItemTrue, Size, ItemType
<1> QED
  BY <1>1 DEF ItemTrue

\* What the invariant says of the types, in the form the steps use.
LEMMA Types ==
  ASSUME LzInv
  PROVE  /\ src \in Seq(Byte) /\ n \in Nat /\ Len(src) \in Nat
         /\ stream \in Seq(Byte) /\ Len(stream) \in Nat
         /\ items \in Seq(ItemType) /\ Len(items) \in Nat
         /\ dst \in Seq(Byte) /\ edi = Len(dst) /\ edi \in Nat
         /\ i \in 0..n /\ bit \in 0..8 /\ flags \in Byte
         /\ fpos \in -1..(Len(stream) - 1)
         /\ \A k \in 1..Len(items) : items[k] \in ItemType
         /\ \A k \in 1..Len(stream) : stream[k] \in Byte
<1>1. src \in Seq(Byte)
  BY FormatAssumption DEF LzInv
<1>2. n \in Nat /\ Len(src) \in Nat
  BY <1>1 DEF n
<1>3. stream \in Seq(Byte) /\ dst \in Seq(Byte) /\ edi = Len(dst)
  BY DEF LzInv, TypeOK
<1>4. items \in Seq(ItemType)
  BY DEF LzInv, ItemsInv
<1>5. Len(items) \in Nat /\ \A k \in 1..Len(items) : items[k] \in ItemType
  BY <1>4
<1>6. /\ Len(stream) \in Nat /\ \A k \in 1..Len(stream) : stream[k] \in Byte
      /\ edi \in Nat
  BY <1>3
<1>7. /\ i \in 0..n /\ bit \in 0..8 /\ flags \in Byte
      /\ fpos \in -1..(Len(stream) - 1)
  BY DEF LzInv, TypeOK
<1> QED
  BY <1>1, <1>2, <1>3, <1>4, <1>5, <1>6, <1>7

\* The byte that holds the flag of an item.
LEMMA FlagByteType ==
  ASSUME LzInv, NEW k \in 1..Len(items)
  PROVE  /\ FlagByte(items[k].flag) \in Byte
         /\ items[k].flag \in 0..(Len(stream) - 1)
         /\ items[k].at \in 1..(Len(stream) - 1)
         /\ items[k].at + Size(items[k]) <= Len(stream)
         /\ Size(items[k]) \in 1..2
<1>1. ItemTrue(items[k], src, stream, FlagByte(items[k].flag)) /\ items[k] \in ItemType
  BY Types DEF LzInv, ItemsInv
<1>2. Len(stream) \in Nat /\ flags \in Byte /\ \A j \in 1..Len(stream) : stream[j] \in Byte
  BY Types
<1>3. Size(items[k]) \in 1..2
  BY DEF Size
<1>4. /\ items[k].flag \in 0..(Len(stream) - 1)
      /\ items[k].at \in 1..(Len(stream) - 1)
      /\ items[k].at + Size(items[k]) <= Len(stream)
  <2>1. items[k].flag \in Nat /\ items[k].at \in Nat
    BY <1>1 DEF ItemType
  <2>2. items[k].at + Size(items[k]) <= Len(stream) /\ items[k].flag < items[k].at
    BY <1>1 DEF ItemTrue
  <2> QED
    BY <1>2, <1>3, <2>1, <2>2
<1>5. FlagByte(items[k].flag) \in Byte
  BY <1>2, <1>4 DEF FlagByte
<1> QED
  BY <1>3, <1>4, <1>5

LEMMA LzInit == Init => LzInv
<1> SUFFICES ASSUME Init PROVE LzInv
  OBVIOUS
<1> USE DEF Init
<1>1. src \in Seq(Byte) /\ n \in Nat
  BY FormatAssumption DEF n
<1>2. 128 \in {Bit(k) : k \in 0..7}
  BY BitValues
<1>3. TypeOK
  BY <1>1, <1>2, Bytes, Format DEF TypeOK
<1>4. ItemsInv
  BY DEF ItemsInv, LastItem
<1>5. GroupInv
  BY DEF GroupInv, LastItem, Size
<1>6. ReadInv
  BY <1>1 DEF ReadInv
<1> QED
  BY <1>3, <1>4, <1>5, <1>6 DEF LzInv

LEMMA PackGroupInv == LzInv /\ PackGroup => LzInv'
<1> SUFFICES ASSUME LzInv, PackGroup PROVE LzInv'
  OBVIOUS
<1> USE DEF PackGroup, readVars
<1>0. 0 \in Byte
  BY Bytes
<1>1. /\ stream \in Seq(Byte) /\ Len(stream) \in Nat /\ n \in Nat
      /\ \A k \in 1..Len(stream) : stream[k] \in Byte
      /\ Len(items) \in Nat /\ i \in 0..n
  BY Types
<1>2. /\ stream' \in Seq(Byte) /\ Len(stream') = Len(stream) + 1
      /\ \A k \in 1..Len(stream) : stream'[k] = stream[k]
  BY <1>0, <1>1
<1>3. TypeOK'
  BY <1>0, <1>1, <1>2 DEF LzInv, TypeOK, n
<1>4. ItemsInv'
  <2>1. ASSUME NEW k \in 1..Len(items)
        PROVE  ItemTrue(items[k], src, stream', FlagByte(items[k].flag)')
    <3>1. ItemTrue(items[k], src, stream, FlagByte(items[k].flag)) /\ items[k] \in ItemType
      BY Types DEF LzInv, ItemsInv
    <3>2. /\ FlagByte(items[k].flag) \in Byte
          /\ items[k].flag \in 0..(Len(stream) - 1) /\ items[k].at \in 1..(Len(stream) - 1)
          /\ items[k].at + Size(items[k]) <= Len(stream)
      BY FlagByteType
    <3>3. FlagByte(items[k].flag)' = FlagByte(items[k].flag)
      BY <1>1, <1>2, <3>2 DEF FlagByte
    <3>4. stream'[items[k].at + 1] = stream[items[k].at + 1]
      BY <1>1, <1>2, <3>2
    <3>5. items[k].off # 0 => stream'[items[k].at + 2] = stream[items[k].at + 2]
      BY <1>1, <1>2, <3>2 DEF Size
    <3>6. FlagByte(items[k].flag) \in Nat
      BY <3>2, Bytes
    <3>7. Len(stream) <= Len(stream')
      BY <1>1, <1>2
    <3>8. ItemTrue(items[k], src, stream', FlagByte(items[k].flag))
      BY <1>1, <1>2, <3>1, <3>4, <3>5, <3>6, <3>7, ItemKept, Zenon
    <3> QED
      BY <3>3, <3>8
  <2> QED
    BY <2>1 DEF LzInv, ItemsInv, LastItem
<1>5. GroupInv'
  <2>1. LastItem' = LastItem /\ Size(LastItem)' = Size(LastItem)
    BY DEF LastItem, Size
  <2>2. /\ LastItem.at + Size(LastItem) = Len(stream) /\ LastItem.bit = 7
        /\ 8 * Len(stream) <= 9 * i
    BY DEF LzInv, GroupInv
  <2>3. ASSUME NEW k \in 1..Len(items')
        PROVE  IF items'[k].flag = fpos' THEN items'[k].bit < bit'
               ELSE items'[k].at + Size(items'[k]) <= fpos'
    <3>1. /\ items[k].flag \in 0..(Len(stream) - 1)
          /\ items[k].at + Size(items[k]) <= Len(stream)
      BY FlagByteType
    <3> QED
      BY <1>1, <3>1
  <2>4. 8 * Len(stream') <= 9 * i' + 8 - bit' /\ Bit(bit') = 1
    <3>1. Bit(bit') = 1
      BY <1>1, BitValues
    <3>2. Len(stream) \in Nat /\ i \in Nat /\ Len(stream') = Len(stream) + 1 /\ i' = i /\ bit' = 0
      BY <1>1, <1>2
    <3>3. 8 * Len(stream') <= 9 * i' + 8 - bit'
      BY <2>2, <3>2
    <3> QED
      BY <3>1, <3>3
  <2> QED
    BY <1>1, <1>2, <2>1, <2>2, <2>3, <2>4 DEF GroupInv, n
<1>6. ReadInv'
  BY DEF LzInv, ReadInv, n
<1> QED
  BY <1>3, <1>4, <1>5, <1>6 DEF LzInv

\* The flag byte of a group after one more item.
LEMMA FlagAdded ==
  ASSUME NEW p \in 0..7, NEW f \in Byte, f < Bit(p), NEW o \in Nat, NEW g,
         g = f + (IF o = 0 THEN 0 ELSE Bit(p))
  PROVE  /\ g \in Byte /\ g \in Nat
         /\ Test(g, Bit(p)) = (IF o = 0 THEN 0 ELSE 1)
         /\ \A j \in 0..(p - 1) : Test(g, Bit(j)) = Test(f, Bit(j))
         /\ p < 7 => g < Bit(p + 1)
<1>1. f \in Nat /\ Bit(p) \in 1..128
  BY Bytes, BitDouble
<1>2. CASE o = 0
  <2>1. g = f
    BY <1>1, <1>2
  <2>2. Test(f, Bit(p)) = 0
    BY <1>1, BitsAbove
  <2>3. p < 7 => Bit(p) * 2 = Bit(p + 1)
    BY BitDouble
  <2>4. p < 7 => f < Bit(p + 1)
    BY <1>1, <2>3
  <2> QED
    BY <1>1, <1>2, <2>1, <2>2, <2>4
<1>3. CASE o # 0
  <2>1. g = f + Bit(p)
    BY <1>3
  <2> QED
    BY <1>1, <1>3, <2>1, SetBit, Bytes
<1> QED
  BY <1>2, <1>3

\* A sequence followed by another, by positions.
LEMMA ConcatFacts ==
  ASSUME NEW S, NEW s \in Seq(S), NEW w \in Seq(S)
  PROVE  /\ s \o w \in Seq(S) /\ Len(s \o w) = Len(s) + Len(w)
         /\ \A k \in 1..Len(s) : (s \o w)[k] = s[k]
         /\ \A k \in 1..Len(w) : (s \o w)[Len(s) + k] = w[k]
<1>1. Len(s) \in Nat /\ Len(w) \in Nat
  OBVIOUS
<1> QED
  BY <1>1, ConcatProperties

\* Writing an item, of either kind, in an open group.
LEMMA ItemWritten ==
  ASSUME LzInv, pc = "pack", fpos >= 0, bit < 8, i < n,
         NEW o \in 0..WINDOW, NEW ln \in 1..MAX_MATCH, NEW w, w \in Seq(Byte),
         i + ln <= n,
         Len(w) = (IF o = 0 THEN 1 ELSE 2),
         o = 0 => ln = 1 /\ w[1] = src[i + 1],
         o # 0 => /\ o <= i /\ ln >= MIN_MATCH
                  /\ w[1] = Token(o, ln) % 256 /\ w[2] = Token(o, ln) \div 256
                  /\ \A k \in 0..(ln - 1) : src[i - o + k + 1] = src[i + k + 1],
         items' = Written(o, ln), stream' = stream \o w, i' = i + ln, bit' = bit + 1,
         flags' = flags + (IF o = 0 THEN 0 ELSE Bit(bit)),
         UNCHANGED <<src, pc, fpos, readVars>>
  PROVE  LzInv'
<1> DEFINE it == [at |-> Len(stream), pos |-> i, off |-> o, len |-> ln,
                  flag |-> fpos, bit |-> bit]
           N == Len(items)
<1> USE DEF readVars
<1>0. /\ stream \in Seq(Byte) /\ items \in Seq(ItemType) /\ src \in Seq(Byte)
      /\ \A k \in 1..Len(stream) : stream[k] \in Byte
  BY Types
<1>1. /\ Len(stream) \in Nat /\ n \in Nat /\ Len(items) \in Nat /\ i \in 0..n
      /\ fpos \in 0..(Len(stream) - 1) /\ bit \in 0..7 /\ flags \in Byte
      /\ N = Len(items)
  BY Types
<1>2. /\ Len(stream') = Len(stream) + Len(w)
      /\ \A k \in 1..Len(stream) : stream'[k] = stream[k]
      /\ \A k \in 1..Len(w) : stream'[Len(stream) + k] = w[k]
      /\ Len(w) \in 1..2
  <2>1. stream' = stream \o w /\ w \in Seq(Byte) /\ Len(w) \in 1..2
    OBVIOUS
  <2>0. stream \in Seq(Byte) /\ w \in Seq(Byte)
    BY <1>0
  <2>2. /\ Len(stream \o w) = Len(stream) + Len(w)
        /\ \A k \in 1..Len(stream) : (stream \o w)[k] = stream[k]
        /\ \A k \in 1..Len(w) : (stream \o w)[Len(stream) + k] = w[k]
    BY ONLY <2>0, ConcatFacts
  <2> QED
    BY ONLY <2>1, <2>2, Zenon
<1>2A. stream' \in Seq(Byte)
  BY <1>0, ConcatFacts, Zenon
<1>3. flags \in Nat /\ flags < Bit(bit)
  BY <1>1, Bytes DEF LzInv, GroupInv
<1>4. /\ flags' \in Byte /\ flags' \in Nat
      /\ Test(flags', Bit(bit)) = (IF o = 0 THEN 0 ELSE 1)
      /\ \A j \in 0..(bit - 1) : Test(flags', Bit(j)) = Test(flags, Bit(j))
      /\ bit < 7 => flags' < Bit(bit + 1)
  <2>1. o \in Nat /\ flags' = flags + (IF o = 0 THEN 0 ELSE Bit(bit))
    BY FormatAssumption
  <2>2. bit \in 0..7 /\ flags \in Byte
    BY ONLY <1>1
  <2> QED
    BY ONLY <1>3, <2>1, <2>2, FlagAdded
<1>5. /\ it \in ItemType /\ it.at = Len(stream) /\ it.pos = i /\ it.off = o /\ it.len = ln
      /\ it.flag = fpos /\ it.bit = bit /\ Size(it) = Len(w) /\ items' = Append(items, it)
  <2>1. it \in ItemType
    BY <1>1 DEF ItemType
  <2> QED
    BY <2>1 DEF Size, Written
<1> HIDE DEF it
<1>6. /\ Len(items') = N + 1 /\ items'[N + 1] = it
      /\ \A k \in 1..N : items'[k] = items[k]
  BY <1>0, <1>5, AppendProperties
<1>6A. items' \in Seq(ItemType)
  BY <1>0, <1>5, AppendProperties
<1>7. LastItem' = it
  BY <1>1, <1>6 DEF LastItem
<1>8. FlagByte(fpos)' = flags'
  BY DEF FlagByte
<1>9. ItemTrue(it, src, stream', flags')
  <2>1. /\ it.at + Size(it) <= Len(stream') /\ it.flag < it.at /\ it.pos + it.len <= Len(src)
    BY <1>1, <1>2, <1>5 DEF n
  <2>2. Test(flags', Bit(it.bit)) = (IF it.off = 0 THEN 0 ELSE 1)
    BY <1>4, <1>5
  <2>3. it.off = 0 => it.len = 1 /\ stream'[it.at + 1] = src[it.pos + 1]
    BY <1>2, <1>5
  <2>4. it.off # 0 =>
         /\ it.off <= it.pos /\ it.len >= MIN_MATCH
         /\ stream'[it.at + 1] = Token(it.off, it.len) % 256
         /\ stream'[it.at + 2] = Token(it.off, it.len) \div 256
    BY <1>2, <1>5
  <2>5. it.off # 0 =>
          \A k \in 0..(it.len - 1) : src[it.pos - it.off + k + 1] = src[it.pos + k + 1]
    BY <1>5
  <2> QED
    BY <2>1, <2>2, <2>3, <2>4, <2>5 DEF ItemTrue
<1>10. ASSUME NEW k \in 1..N
       PROVE  ItemTrue(items[k], src, stream', FlagByte(items[k].flag)')
  <2>1. ItemTrue(items[k], src, stream, FlagByte(items[k].flag)) /\ items[k] \in ItemType
    BY Types DEF LzInv, ItemsInv
  <2>2. /\ FlagByte(items[k].flag) \in Byte
        /\ items[k].flag \in 0..(Len(stream) - 1) /\ items[k].at \in 1..(Len(stream) - 1)
        /\ items[k].at + Size(items[k]) <= Len(stream)
    BY FlagByteType
  <2>3. /\ stream'[items[k].at + 1] = stream[items[k].at + 1]
        /\ items[k].off # 0 => stream'[items[k].at + 2] = stream[items[k].at + 2]
    <3>1. items[k].at + 1 \in 1..Len(stream)
      BY ONLY <1>1, <2>2
    <3>2. items[k].off # 0 => items[k].at + 2 \in 1..Len(stream)
      <4>1. items[k].off # 0 => Size(items[k]) = 2
        BY ONLY DEF Size
      <4>2. items[k].at \in Nat /\ Len(stream) \in Nat
        BY ONLY <1>1, <2>2
      <4> QED
        BY ONLY <2>2, <4>1, <4>2
    <3> QED
      BY ONLY <1>2, <3>1, <3>2
  <2>4. /\ FlagByte(items[k].flag)' \in Nat /\ FlagByte(items[k].flag) \in Nat
        /\ Test(FlagByte(items[k].flag)', Bit(items[k].bit))
             = Test(FlagByte(items[k].flag), Bit(items[k].bit))
    <3>1. CASE items[k].flag = fpos
      <4>1. items[k].bit < bit
        BY <1>1, <3>1 DEF LzInv, GroupInv
      <4>2. items[k].bit \in 0..7
        BY <2>1 DEF ItemType
      <4>3. items[k].bit \in 0..(bit - 1)
        BY ONLY <1>1, <4>1, <4>2, SMTT(30)
      <4>4. FlagByte(items[k].flag)' = flags' /\ FlagByte(items[k].flag) = flags
        BY <1>6, <3>1 DEF FlagByte
      <4> QED
        BY ONLY <1>3, <1>4, <4>3, <4>4
    <3>2. CASE items[k].flag # fpos
      <4>1. FlagByte(items[k].flag)' = stream'[items[k].flag + 1]
        BY <1>6, <3>2 DEF FlagByte
      <4>2. FlagByte(items[k].flag) = stream[items[k].flag + 1]
        BY <3>2 DEF FlagByte
      <4>3. stream'[items[k].flag + 1] = stream[items[k].flag + 1]
        <5>1. items[k].flag + 1 \in 1..Len(stream)
          BY ONLY <1>1, <2>2
        <5> QED
          BY ONLY <1>2, <5>1
      <4> QED
        BY ONLY <2>2, <4>1, <4>2, <4>3, Bytes
    <3> QED
      BY <3>1, <3>2
  <2>5. Len(stream) <= Len(stream')
    BY <1>1, <1>2
  <2> QED
    BY ONLY <1>0, <1>2A, <2>1, <2>3, <2>4, <2>5, ItemKept, Zenon
<1>11. ItemsInv'
  <2>1. ASSUME NEW k \in 1..Len(items')
        PROVE  ItemTrue(items'[k], src', stream', FlagByte(items[k].flag)')
    <3>1. CASE k = N + 1
      <4>1. FlagByte(items[k].flag)' = flags'
        BY <1>5, <1>6, <3>1 DEF FlagByte
      <4> QED
        BY <1>6, <1>9, <3>1, <4>1
    <3>2. CASE k \in 1..N
      <4>1. items'[k] = items[k] /\ src' = src
        BY <1>6, <3>2
      <4> QED
        BY <1>10, <3>2, <4>1
    <3> QED
      BY <1>1, <1>6, <3>1, <3>2
  <2>2. ASSUME NEW k \in 1..(Len(items') - 1)
        PROVE  Follows(items'[k], items'[k + 1])
    <3>1. CASE k = N
      <4>1. LastItem = items[N] /\ items[N] \in ItemType /\ N \in 1..Len(items)
        BY <1>1, <1>6, <3>1, Types, SMTT(30) DEF LastItem
      <4>2. i = items[N].pos + items[N].len
        BY <4>1 DEF LzInv, ItemsInv
      <4>3. CASE bit = 0
        <5>1. /\ LastItem.bit = 7 /\ Len(stream) = fpos + 1
              /\ LastItem.at + Size(LastItem) = fpos
          BY <1>1, <4>3 DEF LzInv, GroupInv
        <5> QED
          BY <1>5, <1>6, <3>1, <4>1, <4>2, <4>3, <5>1 DEF Follows
      <4>4. CASE bit > 0
        <5>1. /\ LastItem.bit = bit - 1 /\ LastItem.flag = fpos
              /\ LastItem.at + Size(LastItem) = Len(stream)
          BY <1>1, <4>4 DEF LzInv, GroupInv
        <5> QED
          <6>1. items'[k] = LastItem /\ items'[k + 1] = it
            BY ONLY <1>1, <1>6, <3>1, <4>1
          <6>2. it.bit # 0 /\ it.bit = LastItem.bit + 1 /\ LastItem.bit # 7
            BY ONLY <1>1, <1>5, <4>4, <5>1, SMTT(30)
          <6>3. it.pos = LastItem.pos + LastItem.len
            BY ONLY <1>5, <4>1, <4>2
          <6>4. it.flag = LastItem.flag /\ it.at = LastItem.at + Size(LastItem)
            BY ONLY <1>5, <5>1
          <6> QED
            BY ONLY <6>1, <6>2, <6>3, <6>4 DEF Follows
      <4> QED
        BY <1>1, <4>3, <4>4
    <3>2. CASE k \in 1..(N - 1)
      <4>1. items'[k] = items[k] /\ items'[k + 1] = items[k + 1]
        BY <1>1, <1>6, <3>2
      <4>2. Follows(items[k], items[k + 1])
        BY <3>2 DEF LzInv, ItemsInv
      <4> QED
        BY <4>1, <4>2
    <3> QED
      BY <1>1, <1>6, <3>1, <3>2
  <2>3. /\ items'[1].pos = 0 /\ items'[1].bit = 0 /\ items'[1].flag = 0 /\ items'[1].at = 1
    <3>1. CASE items = << >>
      <4>1. N = 0 /\ items'[1] = it
        BY <1>6, <3>1
      <4>2. /\ LastItem.at = -1 /\ LastItem.pos = 0 /\ LastItem.len = 0
            /\ LastItem.off = 0 /\ LastItem.bit = 7 /\ LastItem.flag = -1
        BY <3>1 DEF LastItem
      <4>3. Size(LastItem) = 1
        BY <4>2 DEF Size
      <4>4. i = 0
        BY <4>2 DEF LzInv, ItemsInv
      <4>5. bit = 0
        BY <1>1, <4>2 DEF LzInv, GroupInv
      <4>6. Len(stream) = fpos + 1 /\ fpos = 0
        BY <1>1, <4>2, <4>3, <4>5 DEF LzInv, GroupInv
      <4> QED
        BY <1>5, <4>1, <4>4, <4>5, <4>6
    <3>2. CASE items # << >>
      <4>1. 1 \in 1..N
        BY <1>1, <3>2
      <4>2. items'[1] = items[1]
        BY <1>6, <4>1
      <4> QED
        BY <3>2, <4>2 DEF LzInv, ItemsInv
    <3> QED
      BY <3>1, <3>2
  <2>4. i' = LastItem'.pos + LastItem'.len
    BY <1>5, <1>7
  <2> QED
    BY <1>6, <1>6A, <2>1, <2>2, <2>3, <2>4 DEF ItemsInv
<1>12. GroupInv'
  <2>1. fpos' = fpos /\ fpos' # -1 /\ bit' = bit + 1 /\ bit' > 0 /\ bit' # 0
    BY <1>1
  <2>2. LastItem'.bit = bit' - 1 /\ LastItem'.flag = fpos'
    BY <1>1, <1>5, <1>7
  <2>3. LastItem'.at + Size(LastItem)' = Len(stream')
    BY <1>2, <1>5, <1>7 DEF Size
  <2>4. 8 * Len(stream') <= 9 * i' + 8 - bit'
    <3>1. 8 * Len(stream) <= 9 * i + 8 - bit
      BY <1>1 DEF LzInv, GroupInv
    <3>2. MIN_MATCH = 3
      BY FormatAssumption
    <3> QED
      BY <1>1, <1>2, <3>1, <3>2, SMTT(30)
  <2>5. bit' < 8 => flags' < Bit(bit')
    BY <1>1, <1>4, <2>1
  <2>6. ASSUME NEW k \in 1..Len(items')
        PROVE  IF items'[k].flag = fpos' THEN items'[k].bit < bit'
               ELSE items'[k].at + Size(items'[k]) <= fpos'
    <3>1. CASE k = N + 1
      BY <1>1, <1>5, <1>6, <3>1, SMTT(30)
    <3>2. CASE k \in 1..N
      <4>1. items'[k] = items[k] /\ items[k].bit \in 0..7
        BY <1>6, <3>2, Types DEF ItemType
      <4>2. IF items[k].flag = fpos THEN items[k].bit < bit
            ELSE items[k].at + Size(items[k]) <= fpos
        BY <1>1, <3>2 DEF LzInv, GroupInv
      <4> QED
        <5>1. CASE items[k].flag = fpos
          <6>1. items[k].bit \in Int /\ bit \in Int
            BY ONLY <1>1, <4>1, SMTT(30)
          <6> QED
            BY ONLY <2>1, <4>1, <4>2, <5>1, <6>1
        <5>2. CASE items[k].flag # fpos
          BY ONLY <2>1, <4>1, <4>2, <5>2, Zenon
        <5> QED
          BY <5>1, <5>2
    <3> QED
      BY <1>1, <1>6, <3>1, <3>2
  <2> QED
    BY <2>1, <2>2, <2>3, <2>4, <2>5, <2>6 DEF GroupInv
<1>13. TypeOK'
  <2>1. n' = n /\ i' \in 0..n'
    BY <1>1 DEF n
  <2>2. fpos' \in -1..(Len(stream') - 1) /\ esi' \in 0..Len(stream')
    <3>1. esi \in 0..Len(stream) /\ esi' = esi /\ fpos' = fpos
      BY DEF LzInv, TypeOK
    <3> QED
      BY ONLY <1>1, <1>2, <3>1
  <2>3. bit' \in 0..8
    BY <1>1
  <2>4. /\ pc' \in {"pack", "unpack", "done"} /\ ebx' \in {Bit(k) : k \in 0..7}
        /\ ebp' \in Byte /\ edi' = Len(dst') /\ off' \in 0..WINDOW /\ left' \in 0..MAX_MATCH
    BY DEF LzInv, TypeOK
  <2> QED
    BY ONLY <1>2A, <1>4, <2>1, <2>2, <2>3, <2>4 DEF TypeOK
<1>14. ReadInv'
  <2>1. taken' = 0 /\ taken = 0
    BY DEF LzInv, ReadInv
  <2> QED
    BY <1>1, <1>6, <2>1 DEF LzInv, ReadInv, n
<1> QED
  BY <1>11, <1>12, <1>13, <1>14 DEF LzInv

LEMMA PackMatchInv == LzInv /\ PackMatch => LzInv'
<1> SUFFICES ASSUME LzInv, PackMatch PROVE LzInv'
  OBVIOUS
<1> DEFINE o == FindMatch(i)[1]
           ln == FindMatch(i)[2]
           t == Token(o, ln)
           w == <<t % 256, t \div 256>>
<1>1. i \in Nat /\ n \in Nat /\ i < n /\ pc = "pack" /\ fpos >= 0 /\ bit < 8
  BY Types DEF PackMatch
<1>2. ln # 0
  BY DEF PackMatch
<1>3. /\ o \in 1..WINDOW /\ o <= i
      /\ ln \in MIN_MATCH..MAX_MATCH /\ i + ln <= n
      /\ \A k \in 0..(ln - 1) : src[i - o + k + 1] = src[i + k + 1]
  BY ONLY <1>1, <1>2, MatchFound
<1>4. /\ items' = Written(o, ln) /\ stream' = stream \o w /\ i' = i + ln /\ bit' = bit + 1
      /\ flags' = flags + Bit(bit)
      /\ UNCHANGED <<src, pc, fpos, readVars>>
  BY DEF PackMatch
<1> HIDE DEF o, ln
<1>5. t % 256 \in Byte /\ t \div 256 \in Byte
  BY ONLY <1>3, TokenFields
<1>6. w \in Seq(Byte) /\ Len(w) = 2 /\ w[1] = t % 256 /\ w[2] = t \div 256
  BY ONLY <1>5
<1> HIDE DEF t, w
<1>7. /\ o \in 0..WINDOW /\ o # 0 /\ ln \in 1..MAX_MATCH /\ ln >= MIN_MATCH
  BY ONLY <1>3, FormatAssumption
<1>8. w[1] = Token(o, ln) % 256 /\ w[2] = Token(o, ln) \div 256
  BY ONLY <1>6 DEF t
<1>9. Len(w) = (IF o = 0 THEN 1 ELSE 2) /\ flags' = flags + (IF o = 0 THEN 0 ELSE Bit(bit))
  BY ONLY <1>4, <1>6, <1>7
<1> QED
  BY ONLY LzInv, <1>1, <1>3, <1>4, <1>6, <1>7, <1>8, <1>9, ItemWritten, Zenon

LEMMA PackLiteralInv == LzInv /\ PackLiteral => LzInv'
<1> SUFFICES ASSUME LzInv, PackLiteral PROVE LzInv'
  OBVIOUS
<1> DEFINE x == src[i + 1]
           w == <<x>>
<1>1. i \in Nat /\ n \in Nat /\ i < n /\ pc = "pack" /\ fpos >= 0 /\ bit < 8 /\ flags \in Nat
  BY Types, Bytes DEF PackLiteral
<1>2. /\ items' = Written(0, 1) /\ stream' = Append(stream, x) /\ i' = i + 1
      /\ bit' = bit + 1 /\ flags' = flags
      /\ UNCHANGED <<src, pc, fpos, readVars>>
  BY DEF PackLiteral
<1>3. x \in Byte
  <2>1. src \in Seq(Byte) /\ i + 1 \in 1..Len(src)
    BY <1>1, Types DEF n
  <2> QED
    BY ONLY <2>1, ElementOfSeq
<1>4. stream' = stream \o w
  <2>1. stream \in Seq(Byte)
    BY Types
  <2> QED
    BY ONLY <1>2, <1>3, <2>1, AppendIsConcat
<1>5. w \in Seq(Byte) /\ Len(w) = 1 /\ w[1] = x
  BY ONLY <1>3
<1> HIDE DEF w
<1>6. 0 \in 0..WINDOW /\ 1 \in 1..MAX_MATCH /\ i + 1 <= n
  BY ONLY <1>1, FormatAssumption
<1>7. Len(w) = (IF 0 = 0 THEN 1 ELSE 2) /\ flags' = flags + (IF 0 = 0 THEN 0 ELSE Bit(bit))
  BY ONLY <1>1, <1>2, <1>5
<1> QED
  BY ONLY LzInv, <1>1, <1>2, <1>4, <1>5, <1>6, <1>7, ItemWritten, Zenon

\* The flag byte is stored and the group closed.
LEMMA PackFlagsInv == LzInv /\ PackFlags => LzInv'
<1> SUFFICES ASSUME LzInv, PackFlags PROVE LzInv'
  OBVIOUS
<1> USE DEF PackFlags, readVars
<1>0. stream \in Seq(Byte) /\ flags \in Byte /\ \A k \in 1..Len(stream) : stream[k] \in Byte
  BY Types
<1>1. /\ Len(stream) \in Nat /\ n \in Nat /\ Len(items) \in Nat /\ i \in 0..n
      /\ fpos \in 0..(Len(stream) - 1) /\ bit \in 0..8
  BY Types
<1>2. fpos + 1 \in 1..Len(stream) /\ stream' = [stream EXCEPT ![fpos + 1] = flags]
  BY <1>1
<1>3. /\ Len(stream') = Len(stream) /\ stream'[fpos + 1] = flags
      /\ \A k \in 1..Len(stream) : k # fpos + 1 => stream'[k] = stream[k]
  BY ONLY <1>0, <1>2, ExceptSeq
<1>4. stream' \in Seq(Byte)
  BY ONLY <1>0, <1>2, ExceptSeq
<1>5. fpos # -1 /\ fpos' = -1 /\ items' = items /\ src' = src /\ i' = i
  BY <1>1
<1>6. ASSUME NEW k \in 1..Len(items)
      PROVE  ItemTrue(items[k], src, stream', FlagByte(items[k].flag)')
  <2>1. ItemTrue(items[k], src, stream, FlagByte(items[k].flag)) /\ items[k] \in ItemType
    BY Types DEF LzInv, ItemsInv
  <2>2. /\ FlagByte(items[k].flag) \in Byte
        /\ items[k].flag \in 0..(Len(stream) - 1) /\ items[k].at \in 1..(Len(stream) - 1)
        /\ items[k].at + Size(items[k]) <= Len(stream) /\ Size(items[k]) \in 1..2
    BY FlagByteType
  <2>3. items[k].flag < items[k].at
    BY <2>1 DEF ItemTrue
  <2>4. items[k].flag = fpos \/ items[k].at + Size(items[k]) <= fpos
    BY <1>5 DEF LzInv, GroupInv
  <2>5. items[k].at + 1 \in 1..Len(stream) /\ items[k].at + 1 # fpos + 1
    BY ONLY <1>1, <2>2, <2>3, <2>4
  <2>6. items[k].off # 0 => items[k].at + 2 \in 1..Len(stream) /\ items[k].at + 2 # fpos + 1
    BY ONLY <1>1, <2>2, <2>3, <2>4 DEF Size
  <2>7. /\ stream'[items[k].at + 1] = stream[items[k].at + 1]
        /\ items[k].off # 0 => stream'[items[k].at + 2] = stream[items[k].at + 2]
    BY ONLY <1>3, <2>5, <2>6
  <2>8. FlagByte(items[k].flag)' = FlagByte(items[k].flag)
    <3>1. items[k].flag + 1 \in 1..Len(stream) /\ items[k].flag # -1
      BY ONLY <1>1, <2>2
    <3>2. FlagByte(items[k].flag)' = stream'[items[k].flag + 1]
      BY ONLY <1>5, <3>1 DEF FlagByte
    <3>3. CASE items[k].flag = fpos
      BY ONLY <1>3, <3>2, <3>3 DEF FlagByte
    <3>4. CASE items[k].flag # fpos
      <4>1. items[k].flag + 1 # fpos + 1
        BY ONLY <1>1, <2>2, <3>4
      <4> QED
        BY ONLY <1>3, <3>1, <3>2, <3>4, <4>1 DEF FlagByte
    <3> QED
      BY <3>3, <3>4
  <2>9. FlagByte(items[k].flag) \in Nat /\ Len(stream) <= Len(stream')
    BY ONLY <1>1, <1>3, <2>2, Bytes
  <2>10. stream \in Seq(Byte)
    BY ONLY <1>0
  <2>11. ItemTrue(items[k], src, stream', FlagByte(items[k].flag))
    BY ONLY <1>4, <2>1, <2>7, <2>9, <2>10, ItemKept, Zenon
  <2> QED
    BY ONLY <2>8, <2>11
<1>7. LastItem' = LastItem /\ Size(LastItem)' = Size(LastItem)
  BY ONLY <1>5 DEF LastItem, Size
<1>8. ItemsInv'
  BY <1>5, <1>6, <1>7 DEF LzInv, ItemsInv
<1>9. GroupInv'
  <2>1. bit # 0
    BY <1>1, <1>5 DEF LzInv, GroupInv
  <2>2. /\ LastItem.bit = bit - 1 /\ LastItem.at + Size(LastItem) = Len(stream)
        /\ 8 * Len(stream) <= 9 * i + 8 - bit
    BY <1>1, <1>5, <2>1 DEF LzInv, GroupInv
  <2>3. i < n => bit = 8
    BY <1>1
  <2>4. /\ i' < n' => LastItem'.bit = 7
        /\ i' < n' => 8 * Len(stream') <= 9 * i'
        /\ 8 * Len(stream') <= 9 * i' + 7
    BY ONLY <1>1, <1>3, <1>5, <1>7, <2>1, <2>2, <2>3, SMTT(30) DEF n
  <2> QED
    BY ONLY <1>3, <1>5, <1>7, <2>2, <2>4 DEF GroupInv
<1>10. TypeOK'
  <2>1. fpos' \in -1..(Len(stream') - 1) /\ n' = n
    BY ONLY <1>1, <1>3, <1>5 DEF n
  <2> QED
    BY <1>3, <1>4, <2>1 DEF LzInv, TypeOK
<1>11. ReadInv'
  <2>1. taken = 0
    BY DEF LzInv, ReadInv
  <2> QED
    BY <1>1, <1>5, <2>1 DEF LzInv, ReadInv, n
<1> QED
  BY <1>8, <1>9, <1>10, <1>11 DEF LzInv

LEMMA PackEndInv == LzInv /\ PackEnd => LzInv'
<1> SUFFICES ASSUME LzInv, PackEnd PROVE LzInv'
  OBVIOUS
<1> USE DEF PackEnd, packVars, readVars
<1>1. i \in 0..n /\ n \in Nat
  BY Types
<1>2. i = n /\ n' = n
  BY <1>1 DEF n
<1>3. TypeOK'
  BY <1>2 DEF LzInv, TypeOK
<1>4. ItemsInv'
  BY DEF LzInv, ItemsInv, LastItem, FlagByte
<1>5. GroupInv'
  BY <1>2 DEF LzInv, GroupInv, LastItem, Size
<1>6. ReadInv'
  BY <1>2 DEF LzInv, ReadInv, Size, FlagByte
<1> QED
  BY <1>3, <1>4, <1>5, <1>6 DEF LzInv

---------------------------------------------------------------------------
(* The steps of stage 2.                                                    *)

\* The padding changes no byte of the stream.
LEMMA BlobBytes ==
  ASSUME LzInv, NEW p \in 0..(Len(stream) - 1)
  PROVE  At(Blob, p) = stream[p + 1]
<1> DEFINE m == (-(Len(stream) + 8)) % SectorBytes
           z == [k \in 1..m |-> 0]
<1>1. stream \in Seq(Byte)
  BY Types
<1>2. Len(stream) \in Nat
  BY Types
<1>3. m \in Nat
  BY ONLY <1>2, FormatAssumption
<1> HIDE DEF m
<1>4. z \in Seq(Byte) /\ Len(z) \in Nat
  <2>1. 0 \in Byte
    BY Bytes
  <2> QED
    BY ONLY <1>3, <2>1
<1>5. Blob = stream \o z
  BY DEF Blob, Pad, m
<1> HIDE DEF z
<1>6. Len(Blob) = Len(stream) + Len(z) /\ \A k \in 1..Len(stream) : Blob[k] = stream[k]
  BY ONLY <1>1, <1>4, <1>5, ConcatFacts
<1>7. p \in 0..(Len(Blob) - 1) /\ p + 1 \in 1..Len(stream)
  BY ONLY <1>2, <1>4, <1>6, p \in 0..(Len(stream) - 1)
<1> QED
  BY ONLY <1>6, <1>7 DEF At

\* Once packing is over the items cover the payload and the stream.
LEMMA AllPacked ==
  ASSUME LzInv, pc # "pack"
  PROVE  /\ i = n /\ fpos = -1
         /\ \A k \in 1..Len(items) : FlagByte(items[k].flag) = stream[items[k].flag + 1]
         /\ Len(items) > 0 => items[Len(items)].pos + items[Len(items)].len = n
         /\ Len(items) = 0 => n = 0 /\ Len(stream) = 0
         /\ Len(items) > 0 => items[Len(items)].at + Size(items[Len(items)]) = Len(stream)
<1>1. i = n /\ fpos = -1
  BY DEF LzInv, ReadInv
<1>2. Len(items) \in Nat /\ items \in Seq(ItemType)
  BY Types
<1>3. Len(items) = 0 => items = << >>
  BY ONLY <1>2
<1>4. Len(items) > 0 => items # << >>
  BY ONLY <1>2
<1>5. ASSUME NEW k \in 1..Len(items)
      PROVE  FlagByte(items[k].flag) = stream[items[k].flag + 1]
  <2>1. items[k].flag \in 0..(Len(stream) - 1) /\ Len(stream) \in Nat
    BY FlagByteType, Types
  <2>2. items[k].flag # -1
    BY ONLY <2>1
  <2> QED
    BY ONLY <1>1, <2>2 DEF FlagByte
<1>6. Len(items) > 0 => LastItem = items[Len(items)]
  BY ONLY <1>4 DEF LastItem
<1>7. n = LastItem.pos + LastItem.len /\ LastItem.at + Size(LastItem) = Len(stream)
  BY <1>1 DEF LzInv, ItemsInv, GroupInv
<1>8. Len(items) = 0 => LastItem.pos = 0 /\ LastItem.len = 0 /\ LastItem.at = -1 /\ LastItem.off = 0
  BY ONLY <1>3 DEF LastItem
<1>9. Len(items) = 0 => n = 0 /\ Len(stream) = 0
  BY ONLY <1>7, <1>8 DEF Size
<1> QED
  BY ONLY <1>1, <1>5, <1>6, <1>7, <1>9

\* The place of stage 2 before an item: the mask, the flag byte and the
\* position it is about to use are those of the next item.
LEMMA NextItem ==
  ASSUME LzInv, pc = "unpack", left = 0, edi < Total
  PROVE  LET nxt == items[taken + 1]
         IN  /\ taken + 1 \in 1..Len(items) /\ nxt \in ItemType
             /\ ItemTrue(nxt, src, stream, stream[nxt.flag + 1])
             /\ nxt.pos = edi /\ Item = nxt.at
             /\ Mask = Bit(nxt.bit) /\ Flags = stream[nxt.flag + 1] /\ Flags \in Byte
<1> DEFINE nxt == items[taken + 1]
           it == items[taken]
<1>1. Len(items) \in Nat /\ Len(stream) \in Nat /\ edi \in Nat /\ n \in Nat /\ edi < n
  BY Types DEF Total
<1>2. taken \in 0..Len(items)
  BY DEF LzInv, ReadInv
<1>3. taken > 0 => /\ esi = it.at + Size(it) /\ ebx = Bit(it.bit) /\ ebp = FlagByte(it.flag)
                   /\ edi + left = it.pos + it.len
  BY ONLY <1>2, LzInv DEF LzInv, ReadInv
<1>4. taken = 0 => esi = 0 /\ ebx = 128 /\ edi = 0
  BY ONLY LzInv DEF LzInv, ReadInv
<1>5. taken # Len(items)
  <2> SUFFICES ASSUME taken = Len(items) PROVE FALSE
    OBVIOUS
  <2>1. CASE taken = 0
    <3>1. n = 0
      BY <2>1, AllPacked
    <3> QED
      BY ONLY <1>1, <3>1
  <2>2. CASE taken > 0
    <3>1. it.pos + it.len = n
      BY <2>2, AllPacked
    <3> QED
      BY ONLY <1>1, <1>3, <2>2, <3>1, left = 0
  <2> QED
    BY ONLY <1>1, <1>2, <2>1, <2>2
<1>6. taken + 1 \in 1..Len(items)
  BY ONLY <1>1, <1>2, <1>5
<1>7. /\ nxt \in ItemType /\ ItemTrue(nxt, src, stream, FlagByte(nxt.flag))
  BY <1>6, Types DEF LzInv, ItemsInv
<1>8. FlagByte(nxt.flag) = stream[nxt.flag + 1] /\ FlagByte(nxt.flag) \in Byte
      /\ nxt.flag \in 0..(Len(stream) - 1)
  BY <1>6, AllPacked, FlagByteType
<1>9. nxt.pos = edi /\ Item = nxt.at /\ Mask = Bit(nxt.bit) /\ Flags = FlagByte(nxt.flag)
  <2>1. CASE taken = 0
    <3>1. nxt.pos = 0 /\ nxt.bit = 0 /\ nxt.flag = 0 /\ nxt.at = 1
      <4>1. items # << >> /\ taken + 1 = 1
        BY <1>6, <2>1
      <4> QED
        BY <4>1 DEF LzInv, ItemsInv
    <3>2. Mask = 1 /\ Refill
      BY ONLY <1>4, <2>1 DEF Mask, Refill
    <3>3. At(Blob, 0) = stream[1]
      BY <1>8, <3>1, BlobBytes
    <3>4. Flags = stream[1] /\ Item = 1
      BY ONLY <1>4, <2>1, <3>2, <3>3 DEF Flags, Item
    <3> QED
      BY ONLY <1>4, <1>8, <2>1, <3>1, <3>2, <3>4, BitValues
  <2>2. CASE taken > 0
    <3>1. Follows(it, nxt)
      <4>1. taken \in 1..(Len(items) - 1)
        BY ONLY <1>1, <1>2, <1>5, <2>2
      <4> QED
        BY ONLY <4>1, LzInv DEF LzInv, ItemsInv
    <3>2. /\ FlagByte(it.flag) = stream[it.flag + 1]
          /\ it.at \in 1..(Len(stream) - 1) /\ Size(it) \in 1..2
      <4>1. taken \in 1..Len(items)
        BY ONLY <1>1, <1>2, <2>2
      <4> QED
        BY <4>1, AllPacked, FlagByteType
    <3>3. it.bit \in 0..7
      <4>1. taken \in 1..Len(items)
        BY ONLY <1>1, <1>2, <2>2
      <4>2. it \in ItemType
        BY <4>1, Types
      <4> QED
        BY ONLY <4>2 DEF ItemType
    <3> HIDE DEF it, nxt
    <3>4. nxt.pos = edi
      BY ONLY <1>1, <1>3, <2>2, <3>1, left = 0 DEF Follows
    <3>5. CASE it.bit = 7
      <4>1. ebx = 128
        BY ONLY <1>3, <2>2, <3>5, BitValues
      <4>2. Mask = 1 /\ Refill
        BY ONLY <4>1 DEF Mask, Refill
      <4>3. nxt.bit = 0 /\ nxt.flag = esi /\ nxt.at = esi + 1
        BY ONLY <1>3, <2>2, <3>1, <3>5 DEF Follows
      <4>4. At(Blob, esi) = stream[esi + 1]
        BY <1>8, <4>3, BlobBytes
      <4>5. Flags = stream[nxt.flag + 1] /\ Item = nxt.at
        BY ONLY <4>2, <4>3, <4>4 DEF Flags, Item
      <4> QED
        BY ONLY <1>8, <3>4, <4>2, <4>3, <4>5, BitValues
    <3>6. CASE it.bit # 7
      <4>1. it.bit < 7
        BY ONLY <3>3, <3>6
      <4>2. ebx * 2 = Bit(it.bit + 1) /\ ebx * 2 # 256
        BY ONLY <1>3, <2>2, <3>3, <4>1, BitDouble
      <4>3. it.bit + 1 \in 0..7 /\ it.bit + 1 # 0
        BY ONLY <3>3, <4>1
      <4>4. Bit(it.bit + 1) # 1
        BY ONLY <4>3, BitDouble
      <4>5. Mask = Bit(it.bit + 1) /\ ~Refill
        BY ONLY <4>2, <4>4 DEF Mask, Refill
      <4>6. nxt.bit = it.bit + 1 /\ nxt.flag = it.flag /\ nxt.at = it.at + Size(it)
        BY ONLY <3>1, <3>6, <4>3 DEF Follows
      <4>7. Flags = ebp /\ Item = esi
        <5>1. esi \in Nat
          BY DEF LzInv, TypeOK
        <5> QED
          BY ONLY <4>5, <5>1 DEF Flags, Item
      <4> QED
        BY ONLY <1>3, <2>2, <3>4, <4>5, <4>6, <4>7
    <3> QED
      BY ONLY <3>5, <3>6
  <2> QED
    BY ONLY <1>1, <1>2, <2>1, <2>2
<1> QED
  BY ONLY <1>6, <1>7, <1>8, <1>9

\* A step of stage 2 leaves what the encoder wrote alone.
LEMMA PackedKept ==
  ASSUME LzInv, UNCHANGED <<src, packVars>>
  PROVE  /\ src' = src /\ n' = n /\ stream' = stream /\ items' = items /\ i' = i /\ fpos' = fpos
         /\ src' \in Inputs /\ ItemsInv' /\ GroupInv'
         /\ \A k \in 1..Len(items) : FlagByte(items[k].flag)' = FlagByte(items[k].flag)
<1> USE DEF packVars
<1>1. /\ src' = src /\ n' = n /\ stream' = stream /\ items' = items /\ i' = i /\ fpos' = fpos
      /\ flags' = flags /\ bit' = bit
  BY DEF n
<1>2. LastItem' = LastItem /\ Size(LastItem)' = Size(LastItem)
  BY ONLY <1>1 DEF LastItem, Size
<1>3. \A k \in 1..Len(items) : FlagByte(items[k].flag)' = FlagByte(items[k].flag)
  BY ONLY <1>1 DEF FlagByte
<1>4. ItemsInv'
  BY ONLY <1>1, <1>2, LzInv DEF LzInv, ItemsInv, FlagByte
<1>5. GroupInv'
  BY ONLY <1>1, <1>2, LzInv DEF LzInv, GroupInv
<1>6. src' \in Inputs
  BY ONLY <1>1, LzInv DEF LzInv
<1> QED
  BY ONLY <1>1, <1>3, <1>4, <1>5, <1>6

LEMMA ReadLiteralInv == LzInv /\ ReadLiteral => LzInv'
<1> SUFFICES ASSUME LzInv, ReadLiteral PROVE LzInv'
  OBVIOUS
<1> DEFINE nxt == items[taken + 1]
<1>0. /\ pc = "unpack" /\ left = 0 /\ edi < Total /\ ~IsMatch
      /\ dst' = Append(dst, At(Blob, Item)) /\ edi' = edi + 1 /\ esi' = Item + 1
      /\ ebx' = Mask /\ ebp' = Flags /\ taken' = taken + 1
      /\ pc' = pc /\ off' = off /\ left' = left
      /\ UNCHANGED <<src, packVars>>
  BY DEF ReadLiteral
<1>1. /\ taken + 1 \in 1..Len(items) /\ nxt \in ItemType
      /\ ItemTrue(nxt, src, stream, stream[nxt.flag + 1])
      /\ nxt.pos = edi /\ Item = nxt.at
      /\ Mask = Bit(nxt.bit) /\ Flags = stream[nxt.flag + 1] /\ Flags \in Byte
  BY ONLY LzInv, <1>0, NextItem
<1>2. /\ src' = src /\ n' = n /\ stream' = stream /\ items' = items /\ i' = i /\ fpos' = fpos
      /\ src' \in Inputs /\ ItemsInv' /\ GroupInv'
      /\ \A k \in 1..Len(items) : FlagByte(items[k].flag)' = FlagByte(items[k].flag)
  BY ONLY LzInv, <1>0, PackedKept
<1>3. /\ nxt.at \in 1..(Len(stream) - 1) /\ FlagByte(nxt.flag) = stream[nxt.flag + 1]
      /\ nxt.at + Size(nxt) <= Len(stream)
  BY <1>0, <1>1, FlagByteType, AllPacked
<1>4. Len(stream) \in Nat /\ n \in Nat /\ edi \in Nat /\ edi = Len(dst) /\ Len(items) \in Nat /\ edi < n
  BY <1>0, Types DEF Total
<1>5. dst \in Seq(Byte) /\ src \in Seq(Byte)
  BY Types
<1> HIDE DEF nxt
<1>6. nxt.bit \in 0..7
  BY ONLY <1>1 DEF ItemType
<1>7. nxt.off = 0 /\ nxt.len = 1 /\ stream[nxt.at + 1] = src[nxt.pos + 1] /\ Size(nxt) = 1
  BY ONLY <1>0, <1>1 DEF IsMatch, ItemTrue, Size
<1>8. At(Blob, Item) = src[edi + 1]
  <2>1. nxt.at \in 0..(Len(stream) - 1)
    BY ONLY <1>3, <1>4
  <2>2. At(Blob, nxt.at) = stream[nxt.at + 1]
    BY ONLY LzInv, <2>1, BlobBytes
  <2> QED
    BY ONLY <1>1, <1>7, <2>2
<1>9. src[edi + 1] \in Byte
  <2>1. edi + 1 \in 1..Len(src)
    BY ONLY <1>4 DEF n
  <2> QED
    BY ONLY <1>5, <2>1, ElementOfSeq
<1>10. /\ dst' \in Seq(Byte) /\ Len(dst') = edi + 1 /\ dst'[edi + 1] = src[edi + 1]
       /\ \A k \in 1..edi : dst'[k] = dst[k]
  BY ONLY <1>0, <1>4, <1>5, <1>8, <1>9, AppendProperties
<1>11. TypeOK'
  <2>1. /\ i \in 0..n /\ bit \in 0..8 /\ flags \in Byte /\ stream \in Seq(Byte)
        /\ fpos \in -1..(Len(stream) - 1) /\ off \in 0..WINDOW /\ left \in 0..MAX_MATCH
    BY DEF LzInv, TypeOK
  <2>2. bit' = bit /\ flags' = flags
    BY <1>0 DEF packVars
  <2>3. ebx' \in {Bit(k) : k \in 0..7}
    BY ONLY <1>0, <1>1, <1>6
  <2>4. esi' \in 0..Len(stream')
    BY ONLY <1>0, <1>1, <1>2, <1>3, <1>4, <1>7
  <2> QED
    BY ONLY <1>0, <1>1, <1>2, <1>4, <1>10, <2>1, <2>2, <2>3, <2>4 DEF TypeOK
<1>12. ReadInv'
  <2>1. i = n /\ fpos = -1 /\ \A k \in 1..edi : dst[k] = src[k]
    BY <1>0 DEF LzInv, ReadInv
  <2>2. \A k \in 1..edi' : dst'[k] = src'[k]
    BY ONLY <1>0, <1>2, <1>4, <1>10, <2>1
  <2>3. taken' \in 0..Len(items') /\ taken' # 0
    BY ONLY <1>0, <1>1, <1>2, <1>4
  <2>4. items'[taken'] = nxt
    BY ONLY <1>0, <1>2 DEF nxt
  <2>5. FlagByte(items[taken].flag)' = Flags
    <3>1. FlagByte(items[taken].flag)' = FlagByte(nxt.flag)
      BY ONLY <1>0, <1>1, <1>2, <2>4 DEF nxt, FlagByte, packVars
    <3> QED
      BY ONLY <1>1, <1>3, <3>1
  <2>6. esi' = nxt.at + Size(nxt) /\ edi' + left' = nxt.pos + nxt.len /\ left' = 0
    BY ONLY <1>0, <1>1, <1>4, <1>7
  <2>7. edi' <= n'
    BY ONLY <1>0, <1>2, <1>4
  <2>8. Size(items[taken])' = Size(nxt)
    BY ONLY <2>4 DEF Size
  <2>9. /\ pc' = "unpack" /\ i' = n' /\ fpos' = -1 /\ ebx' = Bit(nxt.bit) /\ ebp' = Flags
    BY ONLY <1>0, <1>1, <1>2, <2>1
  <2> QED
    BY ONLY <2>2, <2>3, <2>4, <2>5, <2>6, <2>7, <2>8, <2>9 DEF ReadInv
<1> QED
  BY ONLY <1>2, <1>10, <1>11, <1>12 DEF LzInv

LEMMA ReadMatchInv == LzInv /\ ReadMatch => LzInv'
<1> SUFFICES ASSUME LzInv, ReadMatch PROVE LzInv'
  OBVIOUS
<1> DEFINE nxt == items[taken + 1]
           tok == At(Blob, Item) + 256 * At(Blob, Item + 1)
<1>0. /\ pc = "unpack" /\ left = 0 /\ edi < Total /\ IsMatch
      /\ off' = (tok \div 16) + 1 /\ left' = (tok % 16) + 3
      /\ dst' = dst /\ edi' = edi /\ esi' = Item + 2
      /\ ebx' = Mask /\ ebp' = Flags /\ taken' = taken + 1 /\ pc' = pc
      /\ UNCHANGED <<src, packVars>>
  BY DEF ReadMatch
<1> HIDE DEF tok
<1>1. /\ taken + 1 \in 1..Len(items) /\ nxt \in ItemType
      /\ ItemTrue(nxt, src, stream, stream[nxt.flag + 1])
      /\ nxt.pos = edi /\ Item = nxt.at
      /\ Mask = Bit(nxt.bit) /\ Flags = stream[nxt.flag + 1] /\ Flags \in Byte
  BY ONLY LzInv, <1>0, NextItem
<1>2. /\ src' = src /\ n' = n /\ stream' = stream /\ items' = items /\ i' = i /\ fpos' = fpos
      /\ src' \in Inputs /\ ItemsInv' /\ GroupInv'
      /\ \A k \in 1..Len(items) : FlagByte(items[k].flag)' = FlagByte(items[k].flag)
  BY ONLY LzInv, <1>0, PackedKept
<1>3. /\ nxt.at \in 1..(Len(stream) - 1) /\ FlagByte(nxt.flag) = stream[nxt.flag + 1]
      /\ nxt.at + Size(nxt) <= Len(stream)
  BY <1>0, <1>1, FlagByteType, AllPacked
<1>4. Len(stream) \in Nat /\ n \in Nat /\ edi \in Nat /\ edi = Len(dst) /\ Len(items) \in Nat /\ edi < n
  BY <1>0, Types DEF Total
<1>5. dst \in Seq(Byte) /\ src \in Seq(Byte)
  BY Types
<1> HIDE DEF nxt
<1>6. nxt.bit \in 0..7 /\ nxt.off \in 0..WINDOW /\ nxt.len \in 1..MAX_MATCH
  BY ONLY <1>1 DEF ItemType
<1>7. /\ nxt.off # 0 /\ Size(nxt) = 2 /\ nxt.len >= MIN_MATCH
      /\ stream[nxt.at + 1] = Token(nxt.off, nxt.len) % 256
      /\ stream[nxt.at + 2] = Token(nxt.off, nxt.len) \div 256
  BY ONLY <1>0, <1>1 DEF IsMatch, ItemTrue, Size
<1>8. off' = nxt.off /\ left' = nxt.len /\ off' \in 0..WINDOW /\ left' \in 0..MAX_MATCH
  <2>1. nxt.at \in 0..(Len(stream) - 1) /\ nxt.at + 1 \in 0..(Len(stream) - 1)
    BY ONLY <1>3, <1>4, <1>7, SMTT(30)
  <2>2. At(Blob, nxt.at) = stream[nxt.at + 1] /\ At(Blob, nxt.at + 1) = stream[nxt.at + 1 + 1]
    BY ONLY LzInv, <2>1, BlobBytes
  <2>3. nxt.at + 1 + 1 = nxt.at + 2
    BY ONLY <1>3, <1>4
  <2>4. tok = (Token(nxt.off, nxt.len) % 256) + 256 * (Token(nxt.off, nxt.len) \div 256)
    BY ONLY <1>1, <1>7, <2>2, <2>3 DEF tok
  <2>5. nxt.off \in 1..WINDOW /\ nxt.len \in MIN_MATCH..MAX_MATCH
    BY ONLY <1>6, <1>7, Format
  <2>6. (tok \div 16) + 1 = nxt.off /\ (tok % 16) + 3 = nxt.len
    BY ONLY <2>4, <2>5, TokenFields
  <2>7. off' = nxt.off /\ left' = nxt.len
    BY ONLY <1>0, <2>6
  <2>8. nxt.off \in 0..WINDOW /\ nxt.len \in 0..MAX_MATCH
    BY ONLY <1>6, Format
  <2> QED
    BY ONLY <2>7, <2>8
<1>9. TypeOK'
  <2>1. /\ i \in 0..n /\ bit \in 0..8 /\ flags \in Byte /\ stream \in Seq(Byte)
        /\ fpos \in -1..(Len(stream) - 1)
    BY DEF LzInv, TypeOK
  <2>2. bit' = bit /\ flags' = flags
    BY <1>0 DEF packVars
  <2>3. ebx' \in {Bit(k) : k \in 0..7}
    BY ONLY <1>0, <1>1, <1>6
  <2>4. esi' \in 0..Len(stream')
    <3>1. esi' = nxt.at + Size(nxt) /\ Size(nxt) = 2 /\ stream' = stream
      BY ONLY <1>0, <1>1, <1>2, <1>7
    <3> QED
      BY ONLY <1>3, <1>4, <3>1
  <2>5. pc' = "unpack" /\ ebp' \in Byte /\ edi' = Len(dst')
    BY ONLY <1>0, <1>1, <1>4
  <2> QED
    BY ONLY <1>2, <1>8, <2>1, <2>2, <2>3, <2>4, <2>5 DEF TypeOK
<1>10. ReadInv'
  <2>1. i = n /\ fpos = -1 /\ \A k \in 1..edi : dst[k] = src[k]
    BY <1>0 DEF LzInv, ReadInv
  <2>2. \A k \in 1..edi' : dst'[k] = src'[k]
    BY ONLY <1>0, <1>2, <2>1
  <2>3. taken' \in 0..Len(items') /\ taken' # 0
    BY ONLY <1>0, <1>1, <1>2, <1>4
  <2>4. items'[taken'] = nxt
    BY ONLY <1>0, <1>2 DEF nxt
  <2>5. FlagByte(items[taken].flag)' = Flags
    <3>1. FlagByte(items[taken].flag)' = FlagByte(nxt.flag)
      BY ONLY <1>0, <1>1, <1>2, <2>4 DEF nxt, FlagByte, packVars
    <3> QED
      BY ONLY <1>1, <1>3, <3>1
  <2>6. /\ esi' = nxt.at + Size(nxt) /\ edi' + left' = nxt.pos + nxt.len
        /\ off' = nxt.off /\ off' > 0 /\ nxt.pos <= edi'
    BY ONLY <1>0, <1>1, <1>4, <1>6, <1>7, <1>8, SMTT(30)
  <2>7. edi' <= n'
    BY ONLY <1>0, <1>2, <1>4
  <2>8. Size(items[taken])' = Size(nxt)
    BY ONLY <2>4 DEF Size
  <2>9. /\ pc' = "unpack" /\ i' = n' /\ fpos' = -1 /\ ebx' = Bit(nxt.bit) /\ ebp' = Flags
    BY ONLY <1>0, <1>1, <1>2, <2>1
  <2> QED
    BY ONLY <2>2, <2>3, <2>4, <2>5, <2>6, <2>7, <2>8, <2>9 DEF ReadInv
<1> QED
  BY ONLY <1>0, <1>2, <1>5, <1>9, <1>10 DEF LzInv

\* One byte of a match: it lies in what has been written and is the byte the
\* payload has there.
LEMMA CopyByteInv == LzInv /\ CopyByte => LzInv'
<1> SUFFICES ASSUME LzInv, CopyByte PROVE LzInv'
  OBVIOUS
<1> DEFINE it == items[taken]
<1>0. /\ pc = "unpack" /\ left > 0
      /\ dst' = Append(dst, At(dst, edi - off)) /\ edi' = edi + 1 /\ left' = left - 1
      /\ pc' = pc /\ esi' = esi /\ ebx' = ebx /\ ebp' = ebp /\ off' = off /\ taken' = taken
      /\ UNCHANGED <<src, packVars>>
  BY DEF CopyByte
<1>1. left \in 0..MAX_MATCH /\ off \in 0..WINDOW
  BY DEF LzInv, TypeOK
<1>2. taken \in 0..Len(items) /\ taken # 0
  BY ONLY LzInv, <1>0, <1>1 DEF LzInv, ReadInv
<1>3. /\ esi = it.at + Size(it) /\ ebx = Bit(it.bit) /\ ebp = FlagByte(it.flag)
      /\ edi + left = it.pos + it.len /\ off = it.off /\ off > 0 /\ it.pos <= edi
  BY ONLY LzInv, <1>0, <1>2 DEF LzInv, ReadInv
<1>4. /\ src' = src /\ n' = n /\ stream' = stream /\ items' = items /\ i' = i /\ fpos' = fpos
      /\ src' \in Inputs /\ ItemsInv' /\ GroupInv'
      /\ \A k \in 1..Len(items) : FlagByte(items[k].flag)' = FlagByte(items[k].flag)
  BY ONLY LzInv, <1>0, PackedKept
<1>5. Len(stream) \in Nat /\ n \in Nat /\ edi \in Nat /\ edi = Len(dst) /\ Len(items) \in Nat
  BY Types
<1>6. dst \in Seq(Byte) /\ src \in Seq(Byte)
  BY Types
<1>7. taken \in 1..Len(items)
  BY ONLY <1>2, <1>5
<1>8. it \in ItemType /\ ItemTrue(it, src, stream, FlagByte(it.flag))
  BY <1>7, Types DEF LzInv, ItemsInv
<1>9. \A k \in 1..edi : dst[k] = src[k]
  BY DEF LzInv, ReadInv
<1>10. i = n /\ fpos = -1
  BY <1>0 DEF LzInv, ReadInv
<1> HIDE DEF it
<1>11. it.pos \in Nat /\ it.len \in Nat /\ it.off \in Nat
  <2>1. it.pos \in Nat /\ it.off \in 0..WINDOW /\ it.len \in 1..MAX_MATCH
    BY ONLY <1>8 DEF ItemType
  <2> QED
    BY ONLY <2>1, FormatAssumption
<1>12. /\ it.off <= it.pos /\ it.pos + it.len <= n
       /\ \A k \in 0..(it.len - 1) : src[it.pos - it.off + k + 1] = src[it.pos + k + 1]
  BY ONLY <1>3, <1>8, <1>11 DEF ItemTrue, n
<1>12A. /\ left \in Nat /\ off \in Nat /\ left > 0 /\ off > 0 /\ off = it.off
        /\ edi + left = it.pos + it.len /\ it.pos <= edi
  BY ONLY <1>0, <1>1, <1>3, Format
<1>12B. it.off <= it.pos /\ it.pos + it.len <= n
  BY ONLY <1>12
<1>13. At(dst, edi - off) = src[edi + 1] /\ edi + 1 <= n
  <2>1. edi - off \in 0..(Len(dst) - 1) /\ edi - off + 1 \in 1..edi
    BY ONLY <1>5, <1>11, <1>12A, <1>12B, SMTT(30)
  <2>2. At(dst, edi - off) = src[edi - off + 1]
    BY ONLY <1>9, <2>1 DEF At
  <2> DEFINE k == edi - it.pos
  <2>3. k \in 0..(it.len - 1)
    BY ONLY <1>5, <1>11, <1>12A
  <2>4. it.pos - it.off + k + 1 = edi - off + 1 /\ it.pos + k + 1 = edi + 1
    BY ONLY <1>5, <1>11, <1>12A
  <2>5. src[it.pos - it.off + k + 1] = src[it.pos + k + 1]
    BY ONLY <1>12, <2>3
  <2>6. edi + 1 <= n
    BY ONLY <1>5, <1>11, <1>12A, <1>12B
  <2> HIDE DEF k
  <2> QED
    BY ONLY <2>2, <2>4, <2>5, <2>6
<1>14. src[edi + 1] \in Byte
  <2>1. edi + 1 \in 1..Len(src)
    BY ONLY <1>5, <1>13 DEF n
  <2> QED
    BY ONLY <1>6, <2>1, ElementOfSeq
<1>15. /\ dst' \in Seq(Byte) /\ Len(dst') = edi + 1 /\ dst'[edi + 1] = src[edi + 1]
       /\ \A k \in 1..edi : dst'[k] = dst[k]
  BY ONLY <1>0, <1>5, <1>6, <1>13, <1>14, AppendProperties
<1>16. TypeOK'
  <2>1. /\ i \in 0..n /\ bit \in 0..8 /\ flags \in Byte /\ stream \in Seq(Byte)
        /\ fpos \in -1..(Len(stream) - 1) /\ ebx \in {Bit(k) : k \in 0..7} /\ ebp \in Byte
        /\ esi \in 0..Len(stream)
    BY DEF LzInv, TypeOK
  <2>2. bit' = bit /\ flags' = flags
    BY <1>0 DEF packVars
  <2>3. left' \in 0..MAX_MATCH /\ off' \in 0..WINDOW
    BY ONLY <1>0, <1>1, Format
  <2> QED
    BY ONLY <1>0, <1>4, <1>15, <2>1, <2>2, <2>3 DEF TypeOK
<1>17. ReadInv'
  <2>2. \A k \in 1..edi' : dst'[k] = src'[k]
    BY ONLY <1>0, <1>4, <1>5, <1>9, <1>15
  <2>4. items'[taken'] = it
    BY ONLY <1>0, <1>4 DEF it
  <2>5. FlagByte(items[taken].flag)' = FlagByte(it.flag)
    BY ONLY <1>0, <1>4, <2>4 DEF FlagByte, packVars
  <2>6. edi' + left' = it.pos + it.len /\ it.pos <= edi'
    BY ONLY <1>0, <1>1, <1>3, <1>5, <1>11
  <2>7. edi' <= n'
    BY ONLY <1>0, <1>4, <1>13
  <2>8. Size(items[taken])' = Size(it)
    BY ONLY <2>4 DEF Size
  <2> QED
    BY ONLY <1>0, <1>2, <1>3, <1>4, <1>10, <2>2, <2>4, <2>5, <2>6, <2>7, <2>8 DEF ReadInv
<1> QED
  BY ONLY <1>4, <1>15, <1>16, <1>17 DEF LzInv

LEMMA ReadEndInv == LzInv /\ ReadEnd => LzInv'
<1> SUFFICES ASSUME LzInv, ReadEnd PROVE LzInv'
  OBVIOUS
<1> USE DEF ReadEnd, readVars
<1>1. /\ src' = src /\ n' = n /\ stream' = stream /\ items' = items /\ i' = i /\ fpos' = fpos
      /\ src' \in Inputs /\ ItemsInv' /\ GroupInv'
  BY PackedKept
<1>2. flags' = flags /\ bit' = bit /\ pc' = "done" /\ pc = "unpack"
  BY DEF packVars
<1>3. TypeOK'
  BY <1>1, <1>2 DEF LzInv, TypeOK
<1>4. edi = n /\ left = 0
  <2>1. edi <= n /\ edi >= n /\ edi \in Nat /\ n \in Nat
    BY Types DEF LzInv, ReadInv, Total
  <2> QED
    BY <2>1
<1>5. ReadInv'
  BY <1>1, <1>2, <1>4 DEF LzInv, ReadInv, Size, FlagByte
<1>6. dst' \in Seq(Byte)
  BY DEF LzInv
<1> QED
  BY ONLY <1>1, <1>3, <1>5, <1>6 DEF LzInv

LEMMA LzStutter == LzInv /\ UNCHANGED vars => LzInv'
<1> SUFFICES ASSUME LzInv, UNCHANGED vars PROVE LzInv'
  OBVIOUS
<1> USE DEF vars, readVars
<1>1. /\ src' = src /\ n' = n /\ stream' = stream /\ items' = items /\ i' = i /\ fpos' = fpos
      /\ src' \in Inputs /\ ItemsInv' /\ GroupInv'
  BY PackedKept
<1>2. flags' = flags /\ bit' = bit
  BY DEF packVars
<1>3. TypeOK'
  BY <1>1, <1>2 DEF LzInv, TypeOK
<1>4. ReadInv'
  BY <1>1, <1>2 DEF LzInv, ReadInv, Size, FlagByte
<1>5. dst' \in Seq(Byte)
  BY DEF LzInv
<1> QED
  BY ONLY <1>1, <1>3, <1>4, <1>5 DEF LzInv

\* The inductive invariant: the items the encoder has written stand for the
\* payload, and stage 2 stands at the beginning of one of them or inside it.
THEOREM LzInvariant == LzSpec => []LzInv
<1>1. Init => LzInv
  BY LzInit
<1>2. LzInv /\ [LzNext]_vars => LzInv'
  BY PackGroupInv, PackMatchInv, PackLiteralInv, PackFlagsInv, PackEndInv,
     ReadLiteralInv, ReadMatchInv, CopyByteInv, ReadEndInv, LzStutter
  DEF LzNext, Pack, Unpack
<1> QED
  BY <1>1, <1>2, PTL DEF LzSpec

\* Every byte written is a byte, every register stays in its range, and stage
\* 2 never reads beyond the stream.
THEOREM LzTypeCorrect == LzSpec => []TypeOK
<1>1. LzInv => TypeOK
  BY DEF LzInv
<1> QED
  BY <1>1, LzInvariant, PTL

\* Stage 2 never writes anything but the beginning of the payload.
THEOREM DecoderWritesPrefix == LzSpec => []OutputIsPrefix
<1>1. LzInv => OutputIsPrefix
  <2> SUFFICES ASSUME LzInv PROVE OutputIsPrefix
    OBVIOUS
  <2>1. dst \in Seq(Byte) /\ src \in Seq(Byte)
    BY Types
  <2>2. edi = Len(dst) /\ edi <= Len(src) /\ edi \in Nat /\ Len(src) \in Nat
    BY Types DEF LzInv, ReadInv, n
  <2>3. \A k \in 1..edi : dst[k] = src[k]
    BY DEF LzInv, ReadInv
  <2>4. SubSeq(dst, 1, edi) = SubSeq(src, 1, edi)
    <3>1. /\ SubSeq(dst, 1, edi) = [k \in 1..edi |-> dst[k]]
          /\ SubSeq(src, 1, edi) = [k \in 1..edi |-> src[k]]
      BY ONLY <2>1, <2>2
    <3> QED
      BY ONLY <2>3, <3>1
  <2> QED
    BY ONLY <2>2, <2>4 DEF IsPrefix, OutputIsPrefix
<1> QED
  BY <1>1, LzInvariant, PTL

\* What stage 2 has at the end is what compress was given, for every payload.
THEOREM CompressionInverted == LzSpec => []RoundTrip
<1>1. LzInv => RoundTrip
  <2> SUFFICES ASSUME LzInv, pc = "done" PROVE dst = src /\ esi = Len(stream)
    BY DEF RoundTrip
  <2>1. dst \in Seq(Byte) /\ src \in Seq(Byte)
    BY Types
  <2>2. /\ edi = Len(dst) /\ n \in Nat /\ edi = n /\ left = 0 /\ n = Len(src)
        /\ Len(items) \in Nat /\ taken \in 0..Len(items)
    BY Types DEF LzInv, ReadInv, n
  <2>3. \A k \in 1..edi : dst[k] = src[k]
    BY DEF LzInv, ReadInv
  <2>4. dst = src
    BY ONLY <2>1, <2>2, <2>3, SeqEqual
  <2>5. taken = Len(items)
    <3> SUFFICES ASSUME taken # Len(items) PROVE FALSE
      OBVIOUS
    <3> DEFINE nxt == items[taken + 1]
    <3>1. taken + 1 \in 1..Len(items)
      BY ONLY <2>2, taken # Len(items)
    <3>2. nxt \in ItemType /\ ItemTrue(nxt, src, stream, FlagByte(nxt.flag))
      BY <3>1, Types DEF LzInv, ItemsInv
    <3>3. nxt.pos \in Nat /\ nxt.len \in 1..MAX_MATCH
      BY ONLY <3>2 DEF ItemType
    <3>4. nxt.pos + nxt.len <= n
      BY ONLY <3>2 DEF ItemTrue, n
    <3>5. nxt.pos = n
      <4>1. CASE taken = 0
        <5>1. items # << >> /\ taken + 1 = 1
          BY <3>1, <4>1
        <5>2. nxt.pos = 0
          BY <5>1 DEF LzInv, ItemsInv
        <5>3. edi = 0
          BY <4>1 DEF LzInv, ReadInv
        <5> QED
          BY ONLY <2>2, <5>2, <5>3
      <4>2. CASE taken # 0
        <5>1. taken \in 1..(Len(items) - 1)
          BY ONLY <2>2, <4>2, taken # Len(items)
        <5>2. Follows(items[taken], nxt)
          BY ONLY LzInv, <5>1 DEF LzInv, ItemsInv
        <5>3. edi + left = items[taken].pos + items[taken].len
          BY ONLY LzInv, <4>2 DEF LzInv, ReadInv
        <5> HIDE DEF nxt
        <5> QED
          BY ONLY <2>2, <5>2, <5>3 DEF Follows
      <4> QED
        BY <4>1, <4>2
    <3> HIDE DEF nxt
    <3> QED
      BY ONLY <2>2, <3>3, <3>4, <3>5, Format
  <2>6. esi = Len(stream)
    <3>1. CASE taken = 0
      <4>1. esi = 0
        BY <3>1 DEF LzInv, ReadInv
      <4>2. Len(stream) = 0
        BY <2>5, <3>1, AllPacked
      <4> QED
        BY ONLY <4>1, <4>2
    <3>2. CASE taken # 0
      <4>1. esi = items[taken].at + Size(items[taken])
        BY ONLY LzInv, <3>2 DEF LzInv, ReadInv
      <4>2. Len(items) > 0
        BY ONLY <2>2, <2>5, <3>2
      <4>3. items[Len(items)].at + Size(items[Len(items)]) = Len(stream)
        BY <4>2, AllPacked
      <4> QED
        BY ONLY <2>5, <4>1, <4>3
    <3> QED
      BY <3>1, <3>2
  <2> QED
    BY <2>4, <2>6
<1> QED
  BY <1>1, LzInvariant, PTL

\* The bound on the size of a stream, for every payload.
THEOREM StreamIsBounded == LzSpec => []NeverExplodes
<1>1. LzInv => NeverExplodes
  <2> SUFFICES ASSUME LzInv, pc # "pack" PROVE Len(stream) <= n + ((n + 7) \div 8)
    BY DEF NeverExplodes
  <2>1. i = n /\ fpos = -1
    BY DEF LzInv, ReadInv
  <2>2. 8 * Len(stream) <= 9 * n + 7
    BY <2>1 DEF LzInv, GroupInv
  <2>3. Len(stream) \in Nat /\ n \in Nat
    BY Types
  <2> QED
    BY ONLY <2>2, <2>3
<1> QED
  BY <1>1, LzInvariant, PTL
---------------------------------------------------------------------------
(* The reference decoder.  A beginning of the payload is not the mark of a   *)
(* refusal, and a copied byte makes it longer by one.                       *)
LEMMA PrefixFacts ==
  ASSUME NEW x \in Seq(Byte), NEW p \in 0..Len(x)
  PROVE  /\ SubSeq(x, 1, p) \in Seq(Byte) /\ Len(SubSeq(x, 1, p)) = p
         /\ SubSeq(x, 1, p) = [k \in 1..p |-> x[k]]
         /\ \A k \in 1..p : SubSeq(x, 1, p)[k] = x[k]
         /\ SubSeq(x, 1, p) # Refused
<1>1. p \in Nat /\ p <= Len(x) /\ Len(x) \in Nat
  OBVIOUS
<1>2. /\ SubSeq(x, 1, p) = [k \in 1..p |-> x[k]] /\ Len(SubSeq(x, 1, p)) = p
      /\ \A k \in 1..p : SubSeq(x, 1, p)[k] = x[k]
  BY <1>1
<1>3. SubSeq(x, 1, p) \in Seq(Byte)
  BY <1>1, <1>2
<1>4. SubSeq(x, 1, p) # Refused
  <2> SUFFICES ASSUME SubSeq(x, 1, p) = Refused PROVE FALSE
    OBVIOUS
  <2>1. Len(Refused) = 1 /\ Refused[1] = -1
    BY DEF Refused
  <2>2. p = 1
    BY <1>2, <2>1
  <2>3. x[1] = -1
    BY <1>2, <2>1, <2>2
  <2>4. x[1] \in Byte
    BY <1>1, <2>2
  <2> QED
    BY <2>3, <2>4, Bytes
<1> QED
  BY <1>2, <1>3, <1>4

LEMMA PrefixGrows ==
  ASSUME NEW x \in Seq(Byte), NEW p \in 0..(Len(x) - 1)
  PROVE  Append(SubSeq(x, 1, p), x[p + 1]) = SubSeq(x, 1, p + 1)
<1>1. p \in Nat /\ p + 1 \in 0..Len(x) /\ p \in 0..Len(x) /\ Len(x) \in Nat
  OBVIOUS
<1> DEFINE s == SubSeq(x, 1, p)
           t == SubSeq(x, 1, p + 1)
<1>2. s \in Seq(Byte) /\ Len(s) = p /\ \A k \in 1..p : s[k] = x[k]
  BY <1>1, PrefixFacts
<1>3. t \in Seq(Byte) /\ Len(t) = p + 1 /\ \A k \in 1..(p + 1) : t[k] = x[k]
  BY <1>1, PrefixFacts
<1>4. x[p + 1] \in Byte
  BY <1>1
<1> HIDE DEF s, t
<1>5. /\ Append(s, x[p + 1]) \in Seq(Byte) /\ Len(Append(s, x[p + 1])) = p + 1
      /\ \A k \in 1..(p + 1) : Append(s, x[p + 1])[k] = x[k]
  BY <1>1, <1>2, <1>4
<1> QED
  BY <1>1, <1>3, <1>5, SeqEqual DEF s, t

LEMMA PyByteCopies ==
  ASSUME NEW x \in Seq(Byte), NEW p \in 0..(Len(x) - 1), NEW q \in 0..(p - 1), x[q + 1] = x[p + 1]
  PROVE  PyByte(SubSeq(x, 1, p), q) = SubSeq(x, 1, p + 1)
<1> DEFINE o == SubSeq(x, 1, p)
<1>1. p \in 0..Len(x) /\ q \in Nat /\ q + 1 \in 1..p /\ ~(q < 0)
  OBVIOUS
<1>2. o # Refused /\ o[q + 1] = x[q + 1]
  BY <1>1, PrefixFacts
<1> HIDE DEF o
<1>3. PyByte(o, q) = Append(o, o[q + 1])
  BY <1>1, <1>2 DEF PyByte
<1>4. PyByte(o, q) = Append(o, x[p + 1])
  BY <1>2, <1>3
<1> QED
  BY <1>4, PrefixGrows DEF o

\* decompress copies a match as compress found it.
LEMMA PyCopyRepeats ==
  ASSUME NEW x \in Seq(Byte), NEW p \in Nat, NEW ln \in Nat, p + ln <= Len(x),
         NEW o1 \in 1..p, \A k \in 0..(ln - 1) : x[p - o1 + k + 1] = x[p + k + 1]
  PROVE  PyCopy(SubSeq(x, 1, p), o1, ln) = SubSeq(x, 1, p + ln)
<1> DEFINE s == SubSeq(x, 1, p)
           g == [k \in 0..ln |-> SubSeq(x, 1, p + k)]
           Is(f) == f = [k \in 0..ln |-> IF k = 0 THEN s
                                         ELSE PyByte(f[k - 1], Len(s) - o1 + k - 1)]
           f == CHOOSE f : Is(f)
<1>1. Len(x) \in Nat /\ p \in 0..Len(x)
  OBVIOUS
<1>2. Len(s) = p
  BY <1>1, PrefixFacts
<1>3. ASSUME NEW k \in 1..ln
      PROVE  PyByte(SubSeq(x, 1, p + (k - 1)), Len(s) - o1 + k - 1) = SubSeq(x, 1, p + k)
  <2> DEFINE r == p + (k - 1)
             q == Len(s) - o1 + k - 1
  <2>1. /\ r \in 0..(Len(x) - 1) /\ q \in 0..(r - 1) /\ k - 1 \in 0..(ln - 1)
        /\ q + 1 = p - o1 + (k - 1) + 1 /\ r + 1 = p + (k - 1) + 1 /\ r + 1 = p + k
    BY <1>1, <1>2
  <2> HIDE DEF r, q
  <2>2. x[q + 1] = x[r + 1]
    <3>1. PICK j \in 0..(ln - 1) : j = k - 1
      BY <2>1
    <3>2. x[p - o1 + j + 1] = x[p + j + 1]
      OBVIOUS
    <3>3. q + 1 = p - o1 + j + 1 /\ r + 1 = p + j + 1
      BY <2>1, <3>1
    <3> QED
      BY ONLY <3>2, <3>3, Zenon
  <2>3. PyByte(SubSeq(x, 1, r), q) = SubSeq(x, 1, r + 1)
    BY <2>1, <2>2, PyByteCopies
  <2> QED
    BY <2>1, <2>3 DEF r, q
<1> HIDE DEF s
<1>4. Is(g)
  <2>1. ASSUME NEW k \in 0..ln
        PROVE  g[k] = IF k = 0 THEN s ELSE PyByte(g[k - 1], Len(s) - o1 + k - 1)
    <3>1. CASE k = 0
      <4>1. p + k = p
        BY <3>1
      <4> QED
        BY <3>1, <4>1 DEF s
    <3>2. CASE k # 0
      <4>1. k \in 1..ln /\ k - 1 \in 0..ln
        BY <3>2
      <4>2. g[k - 1] = SubSeq(x, 1, p + (k - 1)) /\ g[k] = SubSeq(x, 1, p + k)
        BY <4>1
      <4> QED
        BY <1>3, <3>2, <4>1, <4>2
    <3> QED
      BY <3>1, <3>2
  <2> QED
    BY <2>1
<1>5. Is(f)
  <2>1. \E h : Is(h)
    BY <1>4
  <2> QED
    BY <2>1
<1>6. PyCopy(s, o1, ln) = f[ln]
  BY DEF PyCopy
<1> HIDE DEF f
<1>7. \A k \in 0..ln : f[k] = IF k = 0 THEN s ELSE PyByte(f[k - 1], Len(s) - o1 + k - 1)
  BY <1>5
<1> HIDE DEF g, Is
<1>8. f[ln] = SubSeq(x, 1, p + ln)
  <2> DEFINE T == {k \in 0..ln : f[k] # SubSeq(x, 1, p + k)}
  <2> SUFFICES ASSUME T # {} PROVE FALSE
    OBVIOUS
  <2>1. PICK k \in T : \A l \in T : k <= l
    <3>1. T \subseteq Nat
      OBVIOUS
    <3> QED
      BY <3>1, NatMin
  <2>2. k \in 0..ln /\ f[k] # SubSeq(x, 1, p + k)
    OBVIOUS
  <2>3. k # 0
    <3>1. f[0] = s /\ p + 0 = p
      BY <1>7
    <3> QED
      BY <2>2, <3>1 DEF s
  <2>4. k \in 1..ln /\ k - 1 \in 0..ln /\ k - 1 \notin T
    BY <2>1, <2>2, <2>3
  <2>5. f[k - 1] = SubSeq(x, 1, p + (k - 1))
    BY <2>4
  <2>6. f[k] = SubSeq(x, 1, p + k)
    BY <1>3, <1>7, <2>2, <2>3, <2>4, <2>5
  <2> QED
    BY <2>2, <2>6
<1> QED
  BY <1>6, <1>8 DEF s

\* The state of decompress after the first k items.
Reached(k) ==
  IF k = 0 THEN << << >>, 0, 0, 8>>
  ELSE LET it == items[k]
       IN  <<SubSeq(src, 1, it.pos + it.len), it.at + Size(it), stream[it.flag + 1], it.bit + 1>>

\* One item of the loop, when there is room in the output.
Outcome(r, B, out, p, fl, bt, q) ==
  LET tok == B[q + 1] + 256 * B[q + 2]
  IN  /\ p >= Len(B) => r[1] = Refused
      /\ ~(p >= Len(B)) /\ Test(fl, Bit(bt)) = 1 /\ q + 2 > Len(B) => r[1] = Refused
      /\ ~(p >= Len(B)) /\ Test(fl, Bit(bt)) = 1 /\ ~(q + 2 > Len(B)) =>
           r = <<PyCopy(out, (tok \div 16) + 1, (tok % 16) + MIN_MATCH), q + 2, fl, bt + 1>>
      /\ ~(p >= Len(B)) /\ Test(fl, Bit(bt)) # 1 /\ q >= Len(B) => r[1] = Refused
      /\ ~(p >= Len(B)) /\ Test(fl, Bit(bt)) # 1 /\ ~(q >= Len(B)) =>
           r = <<Append(out, B[q + 1]), q + 1, fl, bt + 1>>

LEMMA PyItemCases ==
  ASSUME NEW B, NEW t, NEW out, NEW p, NEW fs, NEW b0, out # Refused, ~(Len(out) >= t),
         NEW fl, fl = (IF b0 = 8 THEN At(B, p) ELSE fs),
         NEW bt, bt = (IF b0 = 8 THEN 0 ELSE b0),
         NEW q, q = (IF b0 = 8 THEN p + 1 ELSE p)
  PROVE  Outcome(PyItem(B, t, <<out, p, fs, b0>>), B, out, p, fl, bt, q)
<1> DEFINE st == <<out, p, fs, b0>>
<1>1. st[1] = out /\ st[2] = p /\ st[3] = fs /\ st[4] = b0
  OBVIOUS
<1> HIDE DEF st
<1> DEFINE f1 == IF st[4] = 8 THEN At(B, st[2]) ELSE st[3]
           b1 == IF st[4] = 8 THEN 0 ELSE st[4]
           q1 == IF st[4] = 8 THEN st[2] + 1 ELSE st[2]
<1>2. PyItem(B, t, st) =
        IF st[1] = Refused \/ Len(st[1]) >= t THEN st
        ELSE
        IF st[2] >= Len(B) THEN <<Refused, st[2], 0, 0>>
        ELSE IF Test(f1, Bit(b1)) = 1
             THEN IF q1 + 2 > Len(B) THEN <<Refused, q1, 0, 0>>
                  ELSE LET tok == B[q1 + 1] + 256 * B[q1 + 2]
                       IN  <<PyCopy(st[1], (tok \div 16) + 1, (tok % 16) + MIN_MATCH), q1 + 2, f1, b1 + 1>>
             ELSE IF q1 >= Len(B) THEN <<Refused, q1, 0, 0>>
                  ELSE <<Append(st[1], B[q1 + 1]), q1 + 1, f1, b1 + 1>>
  BY ONLY TRUE, Zenon DEF PyItem
<1>2A. f1 = fl /\ b1 = bt /\ q1 = q
  BY <1>1, Zenon
<1> HIDE DEF f1, b1, q1
<1>2B. PyItem(B, t, st) =
        IF p >= Len(B) THEN <<Refused, p, 0, 0>>
        ELSE IF Test(fl, Bit(bt)) = 1
             THEN IF q + 2 > Len(B) THEN <<Refused, q, 0, 0>>
                  ELSE LET tok == B[q + 1] + 256 * B[q + 2]
                       IN  <<PyCopy(out, (tok \div 16) + 1, (tok % 16) + MIN_MATCH), q + 2, fl, bt + 1>>
             ELSE IF q >= Len(B) THEN <<Refused, q, 0, 0>>
                  ELSE <<Append(out, B[q + 1]), q + 1, fl, bt + 1>>
  BY ONLY <1>1, <1>2, <1>2A, out # Refused, ~(Len(out) >= t), Zenon
<1>3. <<Refused, p, 0, 0>>[1] = Refused /\ <<Refused, q, 0, 0>>[1] = Refused
  OBVIOUS
<1> QED
  BY ONLY <1>2B, <1>3, Zenon DEF st, Outcome

LEMMA PyItemStays ==
  ASSUME NEW B, NEW t, NEW st, st[1] = Refused \/ Len(st[1]) >= t
  PROVE  PyItem(B, t, st) = st
  BY Zenon DEF PyItem

\* Where the next item begins, in the payload and in the stream.
LEMMA ItemStart ==
  ASSUME LzInv, pc = "done", NEW k \in 1..Len(items)
  PROVE  LET it == items[k]
             st == Reached(k - 1)
         IN  /\ st = <<SubSeq(src, 1, it.pos), st[2], st[3], st[4]>>
             /\ it.bit = 0 => st[2] = it.flag /\ st[4] = 8 /\ it.at = it.flag + 1
             /\ it.bit # 0 => st[2] = it.at /\ st[3] = stream[it.flag + 1] /\ st[4] = it.bit
<1> DEFINE it == items[k]
           st == Reached(k - 1)
           pv == items[k - 1]
<1>1. CASE k = 1
  <2>1. items # << >>
    <3>1. items \in Seq(ItemType) /\ Len(items) \in Nat
      BY Types
    <3> QED
      BY ONLY <3>1, k \in 1..Len(items)
  <2>2. it.pos = 0 /\ it.bit = 0 /\ it.flag = 0 /\ it.at = 1
    BY <1>1, <2>1 DEF LzInv, ItemsInv
  <2>3. st = << << >>, 0, 0, 8>>
    BY <1>1 DEF Reached
  <2>4. SubSeq(src, 1, 0) = << >>
    <3>1. src \in Seq(Byte) /\ 0 \in 0..Len(src)
      BY Types
    <3>2. SubSeq(src, 1, 0) \in Seq(Byte) /\ Len(SubSeq(src, 1, 0)) = 0
      BY <3>1, PrefixFacts
    <3> QED
      BY ONLY <3>2
  <2> HIDE DEF it, st
  <2>5. st[1] = << >> /\ st[2] = 0 /\ st[4] = 8 /\ st = << << >>, st[2], st[3], st[4]>> /\ it.at = it.flag + 1
    BY ONLY <2>2, <2>3
  <2> QED
    BY ONLY <2>2, <2>4, <2>5 DEF it, st
<1>2. CASE k # 1
  <2>1. Len(items) \in Nat /\ k - 1 \in 1..(Len(items) - 1) /\ k - 1 \in 1..Len(items) /\ (k - 1) + 1 = k /\ k - 1 # 0
    BY <1>2, Types
  <2>2. Follows(pv, it)
    BY <2>1 DEF LzInv, ItemsInv
  <2>3. pv \in ItemType /\ it \in ItemType
    BY <2>1, Types
  <2>4. st = <<SubSeq(src, 1, pv.pos + pv.len), pv.at + Size(pv), stream[pv.flag + 1], pv.bit + 1>>
    BY <2>1 DEF Reached
  <2> HIDE DEF it, pv, st
  <2>5. pv.bit \in 0..7
    BY <2>3 DEF ItemType
  <2>6. it.pos = pv.pos + pv.len
    BY <2>2 DEF Follows
  <2>7. it.bit = 0 => pv.bit = 7 /\ it.flag = pv.at + Size(pv) /\ it.at = it.flag + 1
    BY ONLY <2>2, <2>5 DEF Follows
  <2>8. it.bit # 0 => it.bit = pv.bit + 1 /\ it.flag = pv.flag /\ it.at = pv.at + Size(pv)
    BY ONLY <2>2, <2>5 DEF Follows
  <2>9. /\ st[1] = SubSeq(src, 1, it.pos) /\ st[2] = pv.at + Size(pv)
        /\ st[3] = stream[pv.flag + 1] /\ st[4] = pv.bit + 1
        /\ st = <<SubSeq(src, 1, it.pos), st[2], st[3], st[4]>>
    BY ONLY <2>4, <2>6
  <2>10. it.bit = 0 => st[4] = 8
    BY ONLY <2>7, <2>9
  <2> QED
    BY ONLY <2>7, <2>8, <2>9, <2>10 DEF it, st, pv
<1> QED
  BY <1>1, <1>2

\* Bytes that agree with the stream as far as both go: the blob with its
\* padding, or what is left of it without the zeros at its end.
Agrees(B) == B \in Seq(Byte) /\ \A j \in 1..Len(B) : j <= Len(stream) => B[j] = stream[j]

\* What is known of an item once packing is over.
LEMMA ItemFacts ==
  ASSUME LzInv, pc = "done", NEW k \in 1..Len(items)
  PROVE  LET it == items[k]
         IN  /\ it \in ItemType /\ it.at \in Nat /\ it.flag \in Nat /\ it.pos \in Nat
             /\ it.len \in Nat /\ it.len >= 1 /\ it.bit \in 0..7 /\ it.flag < it.at
             /\ it.at + Size(it) <= Len(stream) /\ Size(it) = (IF it.off = 0 THEN 1 ELSE 2)
             /\ it.pos + it.len <= Len(src)
             /\ ItemTrue(it, src, stream, stream[it.flag + 1])
<1> DEFINE it == items[k]
<1>1. it \in ItemType
  BY Types
<1>2. ItemTrue(it, src, stream, stream[it.flag + 1])
  <2>1. FlagByte(it.flag) = stream[it.flag + 1]
    BY AllPacked
  <2>2. ItemTrue(it, src, stream, FlagByte(it.flag))
    BY DEF LzInv, ItemsInv
  <2> QED
    BY <2>1, <2>2
<1> HIDE DEF it
<1>3. /\ it.at \in Nat /\ it.flag \in Nat /\ it.pos \in Nat
      /\ it.len \in Nat /\ it.len >= 1 /\ it.bit \in 0..7
  BY <1>1, Format DEF ItemType
<1>4. /\ it.flag < it.at /\ it.at + Size(it) <= Len(stream) /\ it.pos + it.len <= Len(src)
  BY ONLY <1>2 DEF ItemTrue
<1>5. Size(it) = (IF it.off = 0 THEN 1 ELSE 2)
  BY DEF Size
<1> QED
  BY ONLY <1>1, <1>2, <1>3, <1>4, <1>5 DEF it

\* decompress reads an item as compress wrote it, or refuses when the bytes
\* end before the item does.
LEMMA ItemRead ==
  ASSUME LzInv, pc = "done", NEW k \in 1..Len(items), NEW B, Agrees(B)
  PROVE  LET it == items[k]
         IN  /\ it.at + Size(it) <= Len(B) => PyItem(B, n, Reached(k - 1)) = Reached(k)
             /\ it.at + Size(it) > Len(B) => PyItem(B, n, Reached(k - 1))[1] = Refused
<1> DEFINE it == items[k]
           st == Reached(k - 1)
           out == SubSeq(src, 1, it.pos)
           p == st[2]
           fl == IF st[4] = 8 THEN At(B, p) ELSE st[3]
           bt == IF st[4] = 8 THEN 0 ELSE st[4]
           q == IF st[4] = 8 THEN p + 1 ELSE p
           tok == B[q + 1] + 256 * B[q + 2]
           r == PyItem(B, n, st)
<1>1. /\ it.at \in Nat /\ it.flag \in Nat /\ it.pos \in Nat
      /\ it.len \in Nat /\ it.len >= 1 /\ it.bit \in 0..7 /\ it.flag < it.at
      /\ it.at + Size(it) <= Len(stream) /\ it.pos + it.len <= Len(src)
  BY ItemFacts, Zenon
<1>1A. it \in ItemType
  BY ItemFacts, Zenon
<1>1B. /\ Size(it) = (IF it.off = 0 THEN 1 ELSE 2)
       /\ Size(it) \in Nat /\ Size(it) >= 1
  BY DEF Size
<1>2. ItemTrue(it, src, stream, stream[it.flag + 1])
  BY ItemFacts, Zenon
<1>3. /\ st = <<out, p, st[3], st[4]>>
      /\ it.bit = 0 => p = it.flag /\ st[4] = 8 /\ it.at = it.flag + 1
      /\ it.bit # 0 => p = it.at /\ st[3] = stream[it.flag + 1] /\ st[4] = it.bit
  BY ItemStart, Zenon
<1>4. src \in Seq(Byte) /\ Len(src) \in Nat /\ Len(stream) \in Nat /\ n = Len(src)
  BY Types DEF n
<1>5. Len(B) \in Nat
  BY DEF Agrees
<1>5A. \A j \in 1..Len(B) : j <= Len(stream) => B[j] = stream[j]
  BY DEF Agrees
<1>6. Reached(k) = <<SubSeq(src, 1, it.pos + it.len), it.at + Size(it), stream[it.flag + 1], it.bit + 1>>
  <2>1. k # 0
    BY Types
  <2> QED
    BY <2>1, Zenon DEF Reached
<1>7. out # Refused /\ Len(out) = it.pos /\ out \in Seq(Byte)
  <2>1. it.pos \in 0..Len(src)
    BY ONLY <1>1, <1>4
  <2> QED
    BY ONLY <1>4, <2>1, PrefixFacts
<1> HIDE DEF it, out, st, p
<1>8. ~(Len(out) >= n)
  BY ONLY <1>1, <1>4, <1>7
<1>8A. ~(it.bit = 8)
  <2>1. it.bit \in 0..7
    BY ONLY <1>1, Zenon
  <2> QED
    BY ONLY <2>1
<1>9. bt = it.bit /\ q = it.at /\ p \in Nat /\ p <= q
  <2>1. CASE it.bit = 0
    BY ONLY <1>1, <1>3, <2>1
  <2>2. CASE it.bit # 0
    <3>0. p = it.at /\ st[4] = it.bit
      BY ONLY <1>3, <2>2, Zenon
    <3>1. ~(st[4] = 8) /\ p = it.at /\ st[4] = it.bit
      BY ONLY <1>8A, <3>0, Zenon
    <3> QED
      BY ONLY <1>1, <3>1
  <2> QED
    BY <2>1, <2>2
<1>10. ~(p >= Len(B)) => fl = stream[it.flag + 1]
  <2>1. CASE it.bit = 0
    <3> SUFFICES ASSUME ~(p >= Len(B)) PROVE fl = stream[it.flag + 1]
      OBVIOUS
    <3>1. st[4] = 8 /\ p = it.flag /\ fl = At(B, p)
      BY ONLY <1>3, <2>1
    <3>1A. it.flag \in Nat /\ it.at \in Nat /\ it.flag < it.at /\ it.at + Size(it) <= Len(stream)
      BY ONLY <1>1, Zenon
    <3>1B. it.flag + 1 <= Len(stream)
      BY ONLY <1>1B, <1>4, <3>1A
    <3>1C. p \in Nat /\ p + 1 <= Len(stream)
      BY ONLY <3>1, <3>1A, <3>1B, Zenon
    <3>2. p \in 0..(Len(B) - 1) /\ p + 1 \in 1..Len(B) /\ p + 1 <= Len(stream)
      BY ONLY <1>5, <3>1C, ~(p >= Len(B))
    <3>3. At(B, p) = B[p + 1]
      BY ONLY <3>2 DEF At
    <3>4. B[p + 1] = stream[p + 1]
      BY ONLY <1>5A, <3>2
    <3> QED
      BY ONLY <3>1, <3>3, <3>4
  <2>2. CASE it.bit # 0
    <3>0. st[4] = it.bit /\ st[3] = stream[it.flag + 1]
      BY ONLY <1>3, <2>2, Zenon
    <3>1. ~(st[4] = 8) /\ st[3] = stream[it.flag + 1]
      BY ONLY <1>8A, <3>0, Zenon
    <3> QED
      BY ONLY <3>1
  <2> QED
    BY <2>1, <2>2
<1> HIDE DEF fl, bt, q, tok, r
<1>11. /\ p >= Len(B) => r[1] = Refused
       /\ ~(p >= Len(B)) /\ Test(fl, Bit(bt)) = 1 /\ q + 2 > Len(B) => r[1] = Refused
       /\ ~(p >= Len(B)) /\ Test(fl, Bit(bt)) = 1 /\ ~(q + 2 > Len(B)) =>
            r = <<PyCopy(out, (tok \div 16) + 1, (tok % 16) + MIN_MATCH), q + 2, fl, bt + 1>>
       /\ ~(p >= Len(B)) /\ Test(fl, Bit(bt)) # 1 /\ q >= Len(B) => r[1] = Refused
       /\ ~(p >= Len(B)) /\ Test(fl, Bit(bt)) # 1 /\ ~(q >= Len(B)) =>
            r = <<Append(out, B[q + 1]), q + 1, fl, bt + 1>>
  <2> DEFINE fs == st[3]
             b0 == st[4]
  <2>1. fl = (IF b0 = 8 THEN At(B, p) ELSE fs) /\ bt = (IF b0 = 8 THEN 0 ELSE b0) /\ q = (IF b0 = 8 THEN p + 1 ELSE p)
    BY DEF fl, bt, q
  <2>2. r = PyItem(B, n, <<out, p, fs, b0>>)
    BY ONLY <1>3, Zenon DEF r
  <2> HIDE DEF fs, b0
  <2>3. Outcome(r, B, out, p, fl, bt, q)
    BY ONLY <1>7, <1>8, <2>1, <2>2, PyItemCases, Zenon
  <2> QED
    BY ONLY <2>3, Zenon DEF tok, Outcome
<1>12. ~(p >= Len(B)) => Test(fl, Bit(bt)) = (IF it.off = 0 THEN 0 ELSE 1)
  BY ONLY <1>2, <1>9, <1>10 DEF ItemTrue
<1>13. CASE p >= Len(B)
  <2>1. it.at + Size(it) > Len(B)
    BY ONLY <1>1, <1>1B, <1>5, <1>9, <1>13
  <2>2. ~(it.at + Size(it) <= Len(B))
    BY ONLY <1>1, <1>1B, <1>5, <2>1
  <2> QED
    BY ONLY <1>11, <1>13, <2>1, <2>2, Zenon DEF r, st, it
<1>14. CASE ~(p >= Len(B)) /\ it.off = 0
  <2>1. Test(fl, Bit(bt)) # 1 /\ Size(it) = 1
    BY ONLY <1>1B, <1>12, <1>14
  <2>2. CASE q >= Len(B)
    <3>1. ~(it.at + Size(it) <= Len(B))
      BY ONLY <1>1, <1>5, <1>9, <2>1, <2>2
    <3>2. r[1] = Refused
      BY ONLY <1>11, <1>14, <2>1, <2>2, Zenon
    <3> QED
      BY ONLY <3>1, <3>2, Zenon DEF r, st, it
  <2>3. CASE ~(q >= Len(B))
    <3>1. r = <<Append(out, B[q + 1]), q + 1, fl, bt + 1>>
      BY ONLY <1>11, <1>14, <2>1, <2>3, Zenon
    <3>1A. ~(it.at + Size(it) > Len(B))
      BY ONLY <1>1, <1>5, <1>9, <2>1, <2>3
    <3>2. it.len = 1 /\ stream[it.at + 1] = src[it.pos + 1]
      BY ONLY <1>2, <1>14 DEF ItemTrue
    <3>2A. q \in Nat /\ q + 1 <= Len(stream)
      BY ONLY <1>1, <1>4, <1>9, <2>1
    <3>2B. q + 1 \in 1..Len(B)
      BY ONLY <1>5, <2>3, <3>2A
    <3>2C. it.pos \in 0..(Len(src) - 1)
      BY ONLY <1>1, <1>4
    <3>3. q + 1 \in 1..Len(B) /\ q + 1 <= Len(stream) /\ it.pos \in 0..(Len(src) - 1)
      BY ONLY <3>2A, <3>2B, <3>2C, Zenon
    <3>4. B[q + 1] = src[it.pos + 1]
      BY ONLY <1>5A, <1>9, <3>2, <3>3
    <3>5. Append(out, B[q + 1]) = SubSeq(src, 1, it.pos + it.len)
      BY ONLY <1>4, <3>2, <3>3, <3>4, PrefixGrows DEF out
    <3>6. r = Reached(k)
      BY ONLY <1>6, <1>9, <1>10, <1>14, <2>1, <3>1, <3>5, Zenon
    <3> QED
      BY ONLY <3>1A, <3>6, Zenon DEF r, st, it
  <2> QED
    BY <2>2, <2>3
<1>15. CASE ~(p >= Len(B)) /\ it.off # 0
  <2>1. Test(fl, Bit(bt)) = 1 /\ Size(it) = 2
    BY ONLY <1>1B, <1>12, <1>15
  <2>2. CASE q + 2 > Len(B)
    <3>1. ~(it.at + Size(it) <= Len(B))
      BY ONLY <1>1, <1>5, <1>9, <2>1, <2>2
    <3>2. r[1] = Refused
      BY ONLY <1>11, <1>15, <2>1, <2>2, Zenon
    <3> QED
      BY ONLY <3>1, <3>2, Zenon DEF r, st, it
  <2>3. CASE ~(q + 2 > Len(B))
    <3>1. r = <<PyCopy(out, (tok \div 16) + 1, (tok % 16) + MIN_MATCH), q + 2, fl, bt + 1>>
      BY ONLY <1>11, <1>15, <2>1, <2>3
    <3>1A. ~(it.at + Size(it) > Len(B))
      BY ONLY <1>1, <1>5, <1>9, <2>1, <2>3
    <3>2. /\ it.off <= it.pos /\ it.len >= MIN_MATCH
          /\ stream[it.at + 1] = Token(it.off, it.len) % 256
          /\ stream[it.at + 2] = Token(it.off, it.len) \div 256
          /\ \A l \in 0..(it.len - 1) : src[it.pos - it.off + l + 1] = src[it.pos + l + 1]
      BY ONLY <1>2, <1>15 DEF ItemTrue
    <3>2A. q \in Nat /\ q + 1 <= Len(stream) /\ q + 2 <= Len(stream)
      BY ONLY <1>1, <1>4, <1>9, <2>1
    <3>2B. q + 1 \in 1..Len(B) /\ q + 2 \in 1..Len(B)
      BY ONLY <1>5, <2>3, <3>2A
    <3>3. q + 1 \in 1..Len(B) /\ q + 1 <= Len(stream) /\ q + 2 \in 1..Len(B) /\ q + 2 <= Len(stream)
      BY ONLY <3>2A, <3>2B, Zenon
    <3>4. it.off \in 1..WINDOW /\ it.len \in MIN_MATCH..MAX_MATCH /\ it.off \in 1..it.pos
      <4>1. it.off \in 0..WINDOW /\ it.len \in 1..MAX_MATCH
        BY ONLY <1>1A DEF ItemType
      <4>2. it.off <= it.pos /\ it.len >= MIN_MATCH /\ it.off # 0
        BY ONLY <1>15, <3>2
      <4> QED
        BY ONLY <1>1, <4>1, <4>2, Format
    <3>5. B[q + 1] = Token(it.off, it.len) % 256 /\ B[q + 2] = Token(it.off, it.len) \div 256
      BY ONLY <1>5A, <1>9, <3>2, <3>3
    <3>6. (tok \div 16) + 1 = it.off /\ (tok % 16) + MIN_MATCH = it.len
      <4>1. tok = (Token(it.off, it.len) % 256) + 256 * (Token(it.off, it.len) \div 256)
        BY ONLY <3>5 DEF tok
      <4>2. it.off \in 1..WINDOW /\ it.len \in MIN_MATCH..MAX_MATCH
        BY ONLY <3>4
      <4>3. (tok \div 16) + 1 = it.off /\ (tok % 16) + 3 = it.len
        BY ONLY <4>1, <4>2, TokenFields
      <4> QED
        BY ONLY <4>3, Format
    <3>7. PyCopy(out, it.off, it.len) = SubSeq(src, 1, it.pos + it.len)
      <4>1. \A l \in 0..(it.len - 1) : src[it.pos - it.off + l + 1] = src[it.pos + l + 1]
        BY ONLY <3>2
      <4>2. it.pos \in Nat /\ it.len \in Nat /\ it.pos + it.len <= Len(src) /\ src \in Seq(Byte) /\ it.off \in 1..it.pos
        BY ONLY <1>1, <1>4, <3>4
      <4> QED
        BY ONLY <4>1, <4>2, PyCopyRepeats, Zenon DEF out
    <3>8. r = Reached(k)
      BY ONLY <1>6, <1>9, <1>10, <1>15, <2>1, <3>1, <3>6, <3>7, Zenon
    <3> QED
      BY ONLY <3>1A, <3>8, Zenon DEF r, st, it
  <2> QED
    BY <2>2, <2>3
<1> QED
  BY <1>13, <1>14, <1>15

\* The loop of decompress: its states, item by item.
IsRun(R, B, t, m) ==
  R = [k \in 0..m |-> IF k = 0 THEN << << >>, 0, 0, 8>> ELSE PyItem(B, t, R[k - 1])]

Runs(R, B, t) == R[0] = Reached(0) /\ \A k \in 1..t : R[k] = PyItem(B, t, R[k - 1])

\* A state that refuses, or has the whole output, is the last one.
Settled(st, t) == st[1] = Refused \/ Len(st[1]) >= t

LEMMA RunExists ==
  ASSUME NEW B, NEW t, NEW m0 \in Nat
  PROVE  \E R : IsRun(R, B, t, m0)
<1> DEFINE T == {m \in Nat : ~ \E R : IsRun(R, B, t, m)}
           init == << << >>, 0, 0, 8>>
<1> HIDE DEF init
<1>0. \A R, m : IsRun(R, B, t, m) <=> R = [k \in 0..m |-> IF k = 0 THEN init ELSE PyItem(B, t, R[k - 1])]
  BY DEF IsRun, init
<1> SUFFICES ASSUME T # {} PROVE FALSE
  OBVIOUS
<1>1. PICK m \in T : \A l \in T : m <= l
  BY NatMin
<1>2. m # 0
  <2> DEFINE z == [k \in 0..0 |-> init]
  <2>1. z = [k \in 0..0 |-> IF k = 0 THEN init ELSE PyItem(B, t, z[k - 1])]
    OBVIOUS
  <2>2. IsRun(z, B, t, 0)
    BY <1>0, <2>1
  <2> QED
    BY <2>2
<1>3. m - 1 \in Nat /\ m - 1 \notin T
  BY <1>1, <1>2
<1>4. PICK f : IsRun(f, B, t, m - 1)
  BY <1>3
<1>5. \A k \in 0..(m - 1) : f[k] = IF k = 0 THEN init ELSE PyItem(B, t, f[k - 1])
  BY <1>0, <1>4
<1> DEFINE g == [k \in 0..m |-> IF k < m THEN f[k] ELSE PyItem(B, t, f[m - 1])]
<1>6. ASSUME NEW k \in 0..m
      PROVE  g[k] = IF k = 0 THEN init ELSE PyItem(B, t, g[k - 1])
  BY <1>5, <1>2
<1>7. IsRun(g, B, t, m)
  <2>1. g = [k \in 0..m |-> IF k = 0 THEN init ELSE PyItem(B, t, g[k - 1])]
    BY <1>6
  <2> HIDE DEF g
  <2> QED
    BY <1>0, <2>1
<1> QED
  BY <1>7, <1>1

LEMMA RunSteps ==
  ASSUME NEW B, NEW t \in Nat
  PROVE  \E R : Decompress(B, t) = R[t][1] /\ Runs(R, B, t)
<1> DEFINE R == CHOOSE f : f = [k \in 0..t |-> IF k = 0 THEN << << >>, 0, 0, 8>>
                                              ELSE PyItem(B, t, f[k - 1])]
<1>1. \E f : f = [k \in 0..t |-> IF k = 0 THEN << << >>, 0, 0, 8>> ELSE PyItem(B, t, f[k - 1])]
  <2>1. PICK f : IsRun(f, B, t, t)
    BY RunExists, Zenon
  <2> QED
    BY <2>1, Zenon DEF IsRun
<1>2. R = [k \in 0..t |-> IF k = 0 THEN << << >>, 0, 0, 8>> ELSE PyItem(B, t, R[k - 1])]
  BY <1>1
<1>3. Decompress(B, t) = R[t][1]
  BY DEF Decompress
<1> HIDE DEF R
<1>4. R[0] = Reached(0)
  <2>1. R[0] = << << >>, 0, 0, 8>>
    BY <1>2
  <2> QED
    BY <2>1 DEF Reached
<1>5. ASSUME NEW k \in 1..t
      PROVE  R[k] = PyItem(B, t, R[k - 1])
  <2>1. k \in 0..t /\ k # 0
    OBVIOUS
  <2> QED
    BY ONLY <1>2, <2>1, Zenon
<1> QED
  BY <1>3, <1>4, <1>5 DEF Runs

LEMMA RunStays ==
  ASSUME NEW B, NEW t \in Nat, NEW R, Runs(R, B, t)
  PROVE  \A m \in 0..t : Settled(R[m], t) => R[t] = R[m]
<1> TAKE m \in 0..t
<1> HAVE Settled(R[m], t)
<1> DEFINE T == {k \in m..t : R[k] # R[m]}
<1> SUFFICES ASSUME R[t] # R[m] PROVE FALSE
  OBVIOUS
<1>1. T # {} /\ T \subseteq Nat
  OBVIOUS
<1>2. PICK k \in T : \A l \in T : k <= l
  BY <1>1, NatMin
<1>3. k # m /\ k \in m..t
  OBVIOUS
<1>4. k - 1 \in m..t /\ k - 1 \notin T /\ k \in 1..t
  BY <1>2, <1>3
<1>5. R[k - 1] = R[m]
  BY <1>4
<1>6. R[k] = PyItem(B, t, R[m])
  BY <1>4, <1>5 DEF Runs
<1>7. PyItem(B, t, R[m]) = R[m]
  BY ONLY Settled(R[m], t), PyItemStays, Zenon DEF Settled
<1> QED
  BY <1>2, <1>6, <1>7

\* There are at most as many items as bytes.
LEMMA ItemsFit ==
  ASSUME LzInv, pc = "done"
  PROVE  Len(items) \in 0..n
<1>1. Len(items) \in Nat /\ n \in Nat /\ n = Len(src)
  BY Types DEF n
<1>2. \A k \in 1..Len(items) : items[k].pos >= k - 1
  <2> DEFINE T == {k \in 1..Len(items) : ~(items[k].pos >= k - 1)}
  <2> SUFFICES ASSUME T # {} PROVE FALSE
    OBVIOUS
  <2>1. T \subseteq Nat
    OBVIOUS
  <2>2. PICK k \in T : \A l \in T : k <= l
    BY <2>1, NatMin
  <2>3. k \in 1..Len(items) /\ ~(items[k].pos >= k - 1)
    OBVIOUS
  <2>4. items[k].pos \in Nat
    BY ONLY <2>3, LzInv, pc = "done", ItemFacts, Zenon
  <2>5. k # 1
    BY <2>3, <2>4
  <2>6. k - 1 \in 1..Len(items) /\ k - 1 \in 1..(Len(items) - 1) /\ (k - 1) + 1 = k /\ k - 1 \notin T
    BY <1>1, <2>2, <2>3, <2>5
  <2>7. items[k - 1].pos >= (k - 1) - 1
    BY <2>6
  <2>8. Follows(items[k - 1], items[k])
    BY <2>6 DEF LzInv, ItemsInv
  <2>9. items[k - 1].pos \in Nat /\ items[k - 1].len \in Nat /\ items[k - 1].len >= 1
    BY ONLY <2>6, LzInv, pc = "done", ItemFacts, Zenon
  <2>10. items[k].pos = items[k - 1].pos + items[k - 1].len
    BY ONLY <2>8 DEF Follows
  <2> QED
    BY ONLY <2>3, <2>7, <2>9, <2>10, k \in Nat
<1>3. CASE Len(items) = 0
  BY <1>1, <1>3
<1>4. CASE Len(items) # 0
  <2>1. Len(items) \in 1..Len(items)
    BY <1>1, <1>4
  <2> DEFINE it == items[Len(items)]
  <2>2. it.pos \in Nat /\ it.len \in Nat /\ it.len >= 1 /\ it.pos + it.len <= Len(src)
    BY ONLY <2>1, LzInv, pc = "done", ItemFacts, Zenon
  <2>3. it.pos >= Len(items) - 1
    BY <1>2, <2>1
  <2> HIDE DEF it
  <2> QED
    BY ONLY <1>1, <2>2, <2>3
<1> QED
  BY <1>3, <1>4

\* As long as the bytes last, decompress follows the items.
LEMMA RunFollows ==
  ASSUME LzInv, pc = "done", NEW B, Agrees(B), NEW R, Runs(R, B, n),
         NEW m \in 0..Len(items), \A j \in 1..m : items[j].at + Size(items[j]) <= Len(B)
  PROVE  R[m] = Reached(m)
<1> DEFINE T == {k \in 0..m : R[k] # Reached(k)}
<1> SUFFICES ASSUME T # {} PROVE FALSE
  OBVIOUS
<1>1. Len(items) \in Nat /\ n \in Nat /\ Len(items) <= n
  BY ItemsFit, Types
<1>2. T \subseteq Nat
  OBVIOUS
<1>3. PICK k \in T : \A l \in T : k <= l
  BY <1>2, NatMin
<1>4. k # 0 /\ k \in 0..m /\ R[k] # Reached(k)
  BY DEF Runs
<1>5. k - 1 \in 0..m /\ k - 1 \notin T /\ k \in 1..m /\ k \in 1..n /\ k \in 1..Len(items)
  BY <1>1, <1>3, <1>4
<1>6. R[k - 1] = Reached(k - 1)
  BY <1>5
<1>7. R[k] = PyItem(B, n, Reached(k - 1))
  BY <1>5, <1>6 DEF Runs
<1>8. items[k].at + Size(items[k]) <= Len(B)
  BY <1>5
<1>9. PyItem(B, n, Reached(k - 1)) = Reached(k)
  BY ONLY LzInv, pc = "done", Agrees(B), <1>5, <1>8, ItemRead, Zenon
<1> QED
  BY <1>4, <1>7, <1>9

\* Bytes that hold the whole stream give the payload.
LEMMA DecompressWhole ==
  ASSUME LzInv, pc = "done", NEW B, Agrees(B), Len(B) >= Len(stream)
  PROVE  Decompress(B, n) = src
<1> DEFINE m == Len(items)
<1>1. m \in Nat /\ n \in Nat /\ m \in 0..n /\ n = Len(src) /\ src \in Seq(Byte) /\ Len(stream) \in Nat
  BY ItemsFit, Types DEF n
<1>2. PICK R : Decompress(B, n) = R[n][1] /\ Runs(R, B, n)
  BY ONLY <1>1, RunSteps, Zenon
<1>3. Len(B) \in Nat
  BY DEF Agrees
<1>4. ASSUME NEW j \in 1..m
      PROVE  items[j].at + Size(items[j]) <= Len(B)
  <2>1. items[j].at \in Nat /\ items[j].at + Size(items[j]) <= Len(stream)
    BY ONLY LzInv, pc = "done", j \in 1..m, ItemFacts, Zenon
  <2>2. Size(items[j]) \in Nat
    BY DEF Size
  <2> QED
    BY ONLY <1>1, <1>3, <2>1, <2>2, Len(B) >= Len(stream)
<1>5. R[m] = Reached(m)
  <2>1. m \in 0..Len(items)
    BY <1>1
  <2> QED
    BY ONLY LzInv, pc = "done", Agrees(B), <1>2, <1>4, <2>1, RunFollows
<1>6. Reached(m)[1] = src
  <2>1. CASE m = 0
    <3>1. n = 0
      BY <2>1, AllPacked
    <3>2. src \in Seq(Byte) /\ Len(src) = 0
      BY ONLY <1>1, <3>1
    <3>2A. src = << >>
      BY ONLY <3>2
    <3>3. Reached(m)[1] = << >>
      BY <2>1 DEF Reached
    <3> QED
      BY <3>2A, <3>3
  <2>2. CASE m # 0
    <3>1. m > 0
      BY <1>1, <2>2
    <3>2. items[m].pos + items[m].len = n
      BY <3>1, AllPacked
    <3>3. Reached(m)[1] = SubSeq(src, 1, items[m].pos + items[m].len)
      BY <2>2 DEF Reached
    <3>4. SubSeq(src, 1, n) = src
      <4>1. n \in 0..Len(src)
        BY ONLY <1>1
      <4>2. /\ SubSeq(src, 1, n) \in Seq(Byte) /\ Len(SubSeq(src, 1, n)) = n
            /\ \A k \in 1..n : SubSeq(src, 1, n)[k] = src[k]
        BY ONLY <1>1, <4>1, PrefixFacts
      <4> QED
        BY ONLY <1>1, <4>2, SeqEqual
    <3> QED
      BY <3>2, <3>3, <3>4
  <2> QED
    BY <2>1, <2>2
<1>7. R[n] = R[m]
  <2>1. Settled(R[m], n)
    BY <1>1, <1>5, <1>6 DEF Settled
  <2> HIDE DEF m
  <2>2. \A l \in 0..n : Settled(R[l], n) => R[n] = R[l]
    <3>1. n \in Nat /\ Runs(R, B, n)
      BY ONLY <1>1, <1>2
    <3> QED
      BY ONLY <3>1, RunStays
  <2> QED
    BY ONLY <1>1, <2>1, <2>2
<1> QED
  BY <1>2, <1>5, <1>6, <1>7

\* Bytes that end before the stream does are refused.
LEMMA DecompressCut ==
  ASSUME LzInv, pc = "done", NEW B, Agrees(B), Len(B) < Len(stream)
  PROVE  Decompress(B, n) = Refused
<1> DEFINE m == Len(items)
           T == {j \in 1..m : items[j].at + Size(items[j]) > Len(B)}
<1>1. m \in Nat /\ n \in Nat /\ m \in 0..n /\ Len(stream) \in Nat
  BY ItemsFit, Types
<1>2. PICK R : Decompress(B, n) = R[n][1] /\ Runs(R, B, n)
  BY ONLY <1>1, RunSteps, Zenon
<1>3. Len(B) \in Nat
  BY DEF Agrees
<1>4. m # 0 /\ items[m].at + Size(items[m]) = Len(stream)
  <2>1. m # 0
    BY <1>3, AllPacked
  <2>2. m > 0
    BY <1>1, <2>1
  <2> QED
    BY <2>1, <2>2, AllPacked
<1>5. m \in T /\ T \subseteq Nat
  BY <1>1, <1>3, <1>4
<1>6. PICK k \in T : \A l \in T : k <= l
  BY <1>5, NatMin
<1>7. k \in 1..m /\ items[k].at + Size(items[k]) > Len(B) /\ k - 1 \in 0..m
  BY <1>1
<1>8. ASSUME NEW j \in 1..(k - 1)
      PROVE  items[j].at + Size(items[j]) <= Len(B)
  <2>1. j \in 1..m /\ j \notin T
    BY <1>1, <1>6, <1>7
  <2>2. ~(items[j].at + Size(items[j]) > Len(B))
    BY <2>1
  <2>3. items[j].at \in Nat /\ Size(items[j]) \in Nat
    <3>1. items[j].at \in Nat
      BY ONLY LzInv, pc = "done", <2>1, ItemFacts, Zenon
    <3> QED
      BY <3>1 DEF Size
  <2> QED
    BY ONLY <1>3, <2>2, <2>3
<1>9. R[k - 1] = Reached(k - 1)
  BY ONLY LzInv, pc = "done", Agrees(B), <1>2, <1>7, <1>8, RunFollows
<1>10. k \in 1..n /\ k \in 0..n
  BY <1>1, <1>7
<1>11. R[k] = PyItem(B, n, Reached(k - 1))
  BY <1>2, <1>9, <1>10 DEF Runs
<1>12. R[k][1] = Refused
  <2>1. PyItem(B, n, Reached(k - 1))[1] = Refused
    BY ONLY LzInv, pc = "done", Agrees(B), <1>7, ItemRead, Zenon
  <2> QED
    BY <1>11, <2>1
<1>13. R[n] = R[k]
  <2>1. Settled(R[k], n)
    BY <1>12 DEF Settled
  <2>2. \A l \in 0..n : Settled(R[l], n) => R[n] = R[l]
    <3>1. n \in Nat /\ Runs(R, B, n)
      BY ONLY <1>1, <1>2
    <3> QED
      BY ONLY <3>1, RunStays
  <2> QED
    BY ONLY <1>10, <2>1, <2>2
<1> QED
  BY <1>2, <1>12, <1>13

\* The blob is the stream and zeros.
LEMMA BlobFacts ==
  ASSUME LzInv
  PROVE  /\ Blob \in Seq(Byte) /\ Len(Blob) \in Nat /\ Len(Blob) >= Len(stream)
         /\ \A k \in 1..Len(stream) : Blob[k] = stream[k]
         /\ \A k \in 1..Len(Blob) : k > Len(stream) => Blob[k] = 0
<1> DEFINE m == (-(Len(stream) + 8)) % SectorBytes
           z == [k \in 1..m |-> 0]
<1>1. stream \in Seq(Byte) /\ Len(stream) \in Nat
  BY Types
<1>2. m \in Nat
  BY ONLY <1>1, FormatAssumption
<1> HIDE DEF m
<1>3. z \in Seq(Byte) /\ Len(z) = m /\ \A k \in 1..m : z[k] = 0
  <2>1. 0 \in Byte
    BY Bytes
  <2> QED
    BY ONLY <1>2, <2>1
<1>4. Blob = stream \o z
  BY DEF Blob, Pad, m
<1> HIDE DEF z
<1>5. Len(Blob) = Len(stream) + m /\ Blob \in Seq(Byte)
  BY ONLY <1>1, <1>2, <1>3, <1>4
<1>6. \A k \in 1..Len(stream) : Blob[k] = stream[k]
  BY ONLY <1>1, <1>2, <1>3, <1>4
<1>7. ASSUME NEW k \in 1..Len(Blob), k > Len(stream)
      PROVE  Blob[k] = 0
  <2>1. k - Len(stream) \in 1..m /\ k \in 1..(Len(stream) + m) /\ ~(k <= Len(stream))
    BY ONLY <1>1, <1>2, <1>5, k \in 1..Len(Blob), k > Len(stream)
  <2>2. Blob[k] = z[k - Len(stream)]
    BY ONLY <1>1, <1>2, <1>3, <1>4, <2>1
  <2> QED
    BY ONLY <1>3, <2>1, <2>2
<1> QED
  BY ONLY <1>1, <1>2, <1>5, <1>6, <1>7

\* The padding ends at a sector: the blob with its header fills its region, or leaves a
\* sector of it at least.
LEMMA BlobRoom ==
  ASSUME LzInv, BlobFits
  PROVE  FillsWindow \/ Len(Blob) + SectorBytes <= BlobMax - 8
<1> DEFINE x == Len(stream) + 8
           m == (-x) % SectorBytes
           t == (-x) \div SectorBytes
           K == BlobMax \div SectorBytes
<1>1. /\ Len(stream) \in Nat /\ x \in Nat /\ x <= BlobMax /\ BlobMax \in Nat
      /\ SectorBytes \in Nat /\ SectorBytes > 0 /\ BlobMax % SectorBytes = 0
  <2>1. Len(stream) \in Nat
    BY Types
  <2> QED
    BY <2>1, FormatAssumption DEF BlobFits
<1>2. Len(Blob) = Len(stream) + m /\ m \in 0..(SectorBytes - 1)
  <2> DEFINE z == [k \in 1..m |-> 0]
  <2>1. m \in 0..(SectorBytes - 1)
    <3> HIDE DEF x
    <3> QED
      BY ONLY <1>1
  <2>2. Blob = stream \o z
    BY DEF Blob, Pad
  <2>3. stream \in Seq(Byte)
    BY Types
  <2> HIDE DEF m
  <2>4. z \in Seq(Byte) /\ Len(z) = m
    <3>1. 0 \in Byte
      BY Bytes
    <3>2. m \in Nat
      BY ONLY <2>1, <1>1
    <3> QED
      BY ONLY <3>1, <3>2
  <2> HIDE DEF z
  <2>5. Len(Blob) = Len(stream) + Len(z)
    BY ONLY <2>2, <2>3, <2>4, ConcatFacts
  <2> QED
    BY ONLY <2>1, <2>4, <2>5
<1>3. -x = (SectorBytes * t) + m /\ t \in Int
  <2> HIDE DEF x
  <2> QED
    BY ONLY <1>1
<1>4. BlobMax = SectorBytes * K /\ K \in Nat
  BY ONLY <1>1, DivMod
<1> HIDE DEF m, t, K
<1>5. SectorBytes * (K + t) = (SectorBytes * K) + (SectorBytes * t) /\ K + t \in Int
  BY ONLY <1>1, <1>3, <1>4
<1>6. SectorBytes * (K + t) = BlobMax - (x + m) /\ x + m = Len(Blob) + 8
  BY ONLY <1>1, <1>2, <1>3, <1>4, <1>5
<1>7. SectorBytes * (K + t) > -SectorBytes
  BY ONLY <1>1, <1>2, <1>6
<1>8. CASE K + t > 0
  <2>1. SectorBytes * (K + t) >= SectorBytes
    BY ONLY <1>1, <1>5, <1>8, Multiples
  <2> QED
    BY ONLY <1>1, <1>2, <1>6, <2>1
<1>9. CASE K + t = 0
  <2>1. SectorBytes * (K + t) = 0
    BY ONLY <1>1, <1>9
  <2> QED
    BY ONLY <1>1, <1>2, <1>6, <2>1 DEF FillsWindow
<1>10. ~(K + t < 0)
  <2> SUFFICES ASSUME K + t < 0 PROVE FALSE
    OBVIOUS
  <2>1. K + t + 1 \in Int /\ K + t + 1 <= 0
    BY ONLY <1>5, K + t < 0
  <2>2. SectorBytes * (K + t + 1) <= 0
    BY ONLY <1>1, <2>1, Multiples
  <2>3. SectorBytes * (K + t + 1) = (SectorBytes * (K + t)) + SectorBytes
    BY ONLY <1>1, <1>5
  <2> QED
    BY ONLY <1>1, <1>5, <1>7, <2>2, <2>3
<1> QED
  BY ONLY <1>5, <1>8, <1>9, <1>10

\* The image is the blob and the volume behind it.
LEMMA ImageFacts ==
  ASSUME LzInv
  PROVE  /\ Image \in Seq(Byte) /\ Len(Image) = Len(Blob) + Len(Volume)
         /\ Len(Image) \in Nat /\ Len(Volume) \in Nat
         /\ \A k \in 1..Len(Blob) : Image[k] = Blob[k]
         /\ \A k \in 1..Len(Volume) : Image[Len(Blob) + k] = Volume[k]
<1>1. Blob \in Seq(Byte) /\ Volume \in Seq(Byte)
  BY BlobFacts, VolumeAssumption
<1>2. Len(Blob) \in Nat /\ Len(Volume) \in Nat
  BY ONLY <1>1
<1>3. Image = Blob \o Volume
  BY DEF Image
<1>4. Image \in Seq(Byte) /\ Len(Image) = Len(Blob) + Len(Volume)
  BY ONLY <1>1, <1>3
<1>5. \A k \in 1..Len(Blob) : Image[k] = Blob[k]
  BY ONLY <1>1, <1>2, <1>3
<1>6. ASSUME NEW k \in 1..Len(Volume)
      PROVE  Image[Len(Blob) + k] = Volume[k]
  <2>1. Len(Blob) + k \in 1..(Len(Blob) + Len(Volume)) /\ ~(Len(Blob) + k <= Len(Blob))
        /\ (Len(Blob) + k) - Len(Blob) = k
    BY ONLY <1>2, k \in 1..Len(Volume)
  <2> QED
    BY ONLY <1>1, <1>2, <1>3, <2>1
<1> QED
  BY ONLY <1>2, <1>4, <1>5, <1>6

\* A beginning of the image agrees with the stream.
LEMMA ImageAgrees ==
  ASSUME LzInv, NEW l \in 0..Len(Image)
  PROVE  Agrees(SubSeq(Image, 1, l)) /\ Len(SubSeq(Image, 1, l)) = l
<1> DEFINE B == SubSeq(Image, 1, l)
<1>1. /\ Image \in Seq(Byte) /\ Len(Image) \in Nat
      /\ \A k \in 1..Len(stream) : Image[k] = stream[k]
  <2>1. /\ \A k \in 1..Len(stream) : Blob[k] = stream[k]
        /\ Len(Blob) \in Nat /\ Len(Blob) >= Len(stream) /\ Len(stream) \in Nat
    BY BlobFacts, Types
  <2>2. \A k \in 1..Len(Blob) : Image[k] = Blob[k]
    BY ImageFacts
  <2>3. \A k \in 1..Len(stream) : k \in 1..Len(Blob)
    BY ONLY <2>1
  <2>4. \A k \in 1..Len(stream) : Image[k] = stream[k]
    BY ONLY <2>1, <2>2, <2>3
  <2> QED
    BY <2>4, ImageFacts
<1>2. B \in Seq(Byte) /\ Len(B) = l /\ \A k \in 1..l : B[k] = Image[k]
  BY ONLY <1>1, l \in 0..Len(Image), PrefixFacts
<1> HIDE DEF B
<1>3. Len(stream) \in Nat /\ l \in Nat
  BY <1>1, Types
<1>4. ASSUME NEW j \in 1..Len(B), j <= Len(stream)
      PROVE  B[j] = stream[j]
  <2>1. j \in 1..l /\ j \in 1..Len(stream)
    BY ONLY <1>2, <1>3, j \in 1..Len(B), j <= Len(stream)
  <2> QED
    BY ONLY <1>1, <1>2, <2>1
<1> QED
  BY ONLY <1>2, <1>4 DEF Agrees, B

(* What blob_of leaves: the stream whole with something behind it, or less   *)
(* than the stream when the blob fills its region and ends in a zero.        *)
LEMMA BlobStripped ==
  ASSUME LzInv, BlobFits, Len(stream) > 0
  PROVE  /\ Agrees(BlobOf(Image))
         /\ FillsWindow /\ stream[Len(stream)] = 0 => Len(BlobOf(Image)) < Len(stream)
         /\ ~(FillsWindow /\ stream[Len(stream)] = 0) => Len(BlobOf(Image)) >= Len(stream)
<1> DEFINE w == BlobMax - 8
           e == Min({w, Len(Image)})
           used == {k \in 1..e : Image[k] # 0}
           L == Len(stream)
           l == Max(used)
<1>1. /\ Len(Blob) \in Nat /\ Len(Blob) >= L /\ L \in Nat /\ L > 0
      /\ SectorBytes \in Nat /\ SectorBytes > 0
  BY BlobFacts, Types, FormatAssumption
<1>2. /\ Len(Image) = Len(Blob) + Len(Volume) /\ Len(Volume) \in Nat
      /\ Len(Volume) >= SectorBytes
  BY ImageFacts, VolumeAssumption
<1>3. w \in Nat /\ (FillsWindow => w = Len(Blob)) /\ (~FillsWindow => Len(Blob) + SectorBytes <= w)
  <2>1. BlobMax \in Nat /\ L + 8 <= BlobMax
    BY <1>1, FormatAssumption DEF BlobFits
  <2>2. FillsWindow => w = Len(Blob)
    BY DEF FillsWindow
  <2>3. ~FillsWindow => Len(Blob) + SectorBytes <= w
    BY BlobRoom
  <2> QED
    BY <1>1, <2>1, <2>2, <2>3
<1> HIDE DEF w, L
<1>4. e \in Nat /\ e <= w /\ e <= Len(Image) /\ (e = w \/ e = Len(Image))
  <2>1. w \in Int /\ Len(Image) \in Int
    BY ONLY <1>1, <1>2, <1>3
  <2>2. \E x \in {w, Len(Image)} : \A y \in {w, Len(Image)} : x <= y
    BY ONLY <2>1
  <2>3. e \in {w, Len(Image)} /\ \A y \in {w, Len(Image)} : e <= y
    BY ONLY <2>2 DEF Min
  <2> QED
    BY ONLY <1>1, <1>2, <1>3, <2>1, <2>3
<1> HIDE DEF e
<1>5. BlobOf(Image) = IF used = {} THEN << >> ELSE SubSeq(Image, 1, l)
  BY DEF BlobOf, e, w
<1>6. \A k \in 1..Len(Blob) : Image[k] = Blob[k]
  BY ImageFacts
<1>7. /\ \A k \in 1..L : Blob[k] = stream[k]
      /\ \A k \in 1..Len(Blob) : k > L => Blob[k] = 0
  BY BlobFacts DEF L
<1>8. Image[L] = stream[L] /\ L \in 1..e
  <2>1. L \in 1..L /\ L \in 1..Len(Blob)
    BY ONLY <1>1
  <2>2. L <= e
    BY ONLY <1>1, <1>2, <1>3, <1>4
  <2> QED
    BY ONLY <1>1, <1>4, <1>6, <1>7, <2>1, <2>2
<1>9. ASSUME used # {}
      PROVE  l \in used /\ l \in 1..e /\ \A x \in used : x <= l
  <2>1. used \in SUBSET Nat /\ \A x \in used : x <= e
    BY ONLY <1>4
  <2> HIDE DEF used
  <2>2. PICK v \in used : \A x \in used : x <= v
    BY ONLY <1>4, <1>9, <2>1, NatMax
  <2>3. \E m \in used : \A x \in used : m >= x
    BY ONLY <2>1, <2>2
  <2>4. Max(used) = CHOOSE m \in used : \A x \in used : m >= x
    BY DEF Max
  <2>5. l \in used /\ \A x \in used : l >= x
    BY ONLY <2>3, <2>4
  <2> HIDE DEF l
  <2>6. \A x \in used : x <= l
    BY ONLY <2>1, <2>5
  <2> QED
    BY ONLY <2>5, <2>6 DEF used
<1>10. /\ Agrees(BlobOf(Image))
       /\ Len(BlobOf(Image)) = IF used = {} THEN 0 ELSE l
  <2>1. CASE used = {}
    <3>1. BlobOf(Image) = << >>
      BY ONLY <1>5, <2>1
    <3>2. << >> \in Seq(Byte) /\ Len(<< >>) = 0
      OBVIOUS
    <3> QED
      BY ONLY <2>1, <3>1, <3>2 DEF Agrees
  <2>2. CASE used # {}
    <3>1. BlobOf(Image) = SubSeq(Image, 1, l)
      BY ONLY <1>5, <2>2
    <3>2. l \in 1..e
      BY <1>9, <2>2
    <3> HIDE DEF l, used
    <3>3. l \in 0..Len(Image)
      BY ONLY <1>1, <1>2, <1>4, <3>2
    <3>4. Agrees(SubSeq(Image, 1, l)) /\ Len(SubSeq(Image, 1, l)) = l
      BY ONLY LzInv, <3>3, ImageAgrees
    <3> QED
      BY ONLY <2>2, <3>1, <3>4
  <2> QED
    BY <2>1, <2>2
<1>11. ASSUME FillsWindow, stream[L] = 0
       PROVE  \A k \in used : k < L
  <2> SUFFICES ASSUME NEW k \in used, ~(k < L) PROVE FALSE
    OBVIOUS
  <2>1. k \in 1..e /\ Image[k] # 0
    OBVIOUS
  <2>2. k \in 1..Len(Blob)
    BY ONLY <1>1, <1>3, <1>4, <1>11, <2>1
  <2>3. k # L
    BY ONLY <1>8, <1>11, <2>1
  <2>4. k > L
    BY ONLY <1>1, <2>2, <2>3, ~(k < L)
  <2> QED
    BY ONLY <1>6, <1>7, <2>1, <2>2, <2>4
<1>12. ASSUME ~(FillsWindow /\ stream[L] = 0)
       PROVE  \E k \in used : k >= L
  <2>1. CASE stream[L] # 0
    <3>1. L \in used /\ L >= L
      BY <1>1, <1>8, <2>1
    <3> QED
      BY <3>1
  <2>2. CASE ~FillsWindow
    <3> DEFINE k == Len(Blob) + SectorBytes
    <3>1. k \in 1..e /\ k >= L /\ SectorBytes \in 1..Len(Volume)
      BY ONLY <1>1, <1>2, <1>3, <1>4, <2>2
    <3>2. Image[k] = Volume[SectorBytes]
      BY <3>1, ImageFacts
    <3>3. Image[k] # 0
      BY <3>2, VolumeAssumption
    <3> HIDE DEF k
    <3>4. k \in used
      BY <3>1, <3>3
    <3> QED
      BY <3>1, <3>4
  <2> QED
    BY <1>12, <2>1, <2>2
<1> HIDE DEF used, l
<1>13. FillsWindow /\ stream[L] = 0 => Len(BlobOf(Image)) < L
  <2> SUFFICES ASSUME FillsWindow, stream[L] = 0 PROVE Len(BlobOf(Image)) < L
    OBVIOUS
  <2>1. used # {} => l < L
    BY <1>9, <1>11
  <2> QED
    BY ONLY <1>1, <1>10, <2>1
<1>14. ~(FillsWindow /\ stream[L] = 0) => Len(BlobOf(Image)) >= L
  <2> SUFFICES ASSUME ~(FillsWindow /\ stream[L] = 0) PROVE Len(BlobOf(Image)) >= L
    OBVIOUS
  <2>1. PICK k \in used : k >= L
    BY <1>12
  <2>2. l \in 1..e /\ k <= l
    BY <1>9, <2>1
  <2>3. k \in 1..e
    BY <2>1 DEF used
  <2>4. l >= L
    BY ONLY <1>1, <1>4, <2>1, <2>2, <2>3
  <2> QED
    BY ONLY <1>10, <2>1, <2>4
<1> QED
  BY <1>10, <1>13, <1>14 DEF L

(* The reference decoder gives back every payload from the padded blob, and  *)
(* the host test accepts a sound blob, with the volume's beginning behind it *)
(* or not, unless it fills its region and its stream ends in a zero byte.    *)
THEOREM HarnessIsExact == LzSpec => []HarnessAccepts
<1>1. LzInv => HarnessAccepts
  <2> SUFFICES ASSUME LzInv, pc = "done", BlobFits
               PROVE  /\ Decompress(Blob, Total) = src
                      /\ n > 0 => (HarnessAgrees <=> ~(FillsWindow /\ Last(stream) = 0))
    BY DEF HarnessAccepts
  <2>1. Total = n /\ n \in Nat /\ n = Len(src) /\ src \in Seq(Byte) /\ Len(stream) \in Nat
    BY Types DEF Total, n
  <2>2. /\ Blob \in Seq(Byte) /\ Len(Blob) \in Nat /\ Len(Blob) >= Len(stream)
        /\ \A k \in 1..Len(stream) : Blob[k] = stream[k]
    BY BlobFacts
  <2>3. Agrees(Blob)
    <3>1. \A j \in 1..Len(Blob) : j <= Len(stream) => Blob[j] = stream[j]
      BY ONLY <2>1, <2>2
    <3> QED
      BY ONLY <2>2, <3>1 DEF Agrees
  <2>4. Decompress(Blob, Total) = src
    BY ONLY LzInv, pc = "done", <2>1, <2>2, <2>3, DecompressWhole
  <2>5. ASSUME n > 0
        PROVE  HarnessAgrees <=> ~(FillsWindow /\ Last(stream) = 0)
    <3> DEFINE B == BlobOf(Image)
               cut == FillsWindow /\ stream[Len(stream)] = 0
    <3>1. Len(stream) > 0
      <4>1. Len(items) \in Nat /\ Len(items) # 0
        BY <2>5, Types, AllPacked
      <4>2. 1 \in 1..Len(items)
        BY ONLY <4>1
      <4>3. items[1].at \in Nat /\ items[1].at + Size(items[1]) <= Len(stream)
        BY ONLY LzInv, pc = "done", <4>2, ItemFacts, Zenon
      <4>4. Size(items[1]) \in 1..2
        BY DEF Size
      <4> QED
        BY ONLY <2>1, <4>3, <4>4
    <3>2. /\ Agrees(B)
          /\ ~cut => Len(B) >= Len(stream)
          /\ cut => Len(B) < Len(stream)
      BY ONLY LzInv, BlobFits, <3>1, BlobStripped, Zenon
    <3>3. Last(stream) = stream[Len(stream)]
      BY DEF Last
    <3>4. SubSeq(dst, 1, Total) = src /\ src # Refused
      <4>1. dst = src
        <5>1. dst \in Seq(Byte) /\ edi = Len(dst)
          BY Types
        <5>2. edi = n /\ \A k \in 1..edi : dst[k] = src[k]
          BY DEF LzInv, ReadInv
        <5> QED
          BY ONLY <2>1, <5>1, <5>2, SeqEqual
      <4>2. n \in 0..Len(src)
        BY ONLY <2>1
      <4>3. /\ SubSeq(src, 1, n) \in Seq(Byte) /\ Len(SubSeq(src, 1, n)) = n
            /\ \A k \in 1..n : SubSeq(src, 1, n)[k] = src[k]
            /\ SubSeq(src, 1, n) # Refused
        BY ONLY <2>1, <4>2, PrefixFacts
      <4>4. SubSeq(src, 1, n) = src
        BY ONLY <2>1, <4>3, SeqEqual
      <4> QED
        BY ONLY <2>1, <4>1, <4>3, <4>4
    <3>5. HarnessAgrees <=> (Decompress(B, Total) # Refused /\ Decompress(B, Total) = SubSeq(dst, 1, Total))
      BY DEF HarnessAgrees
    <3>6. cut <=> FillsWindow /\ Last(stream) = 0
      BY <3>3
    <3> HIDE DEF B, cut
    <3>7. CASE ~cut
      <4>1. Len(B) >= Len(stream)
        BY ONLY <3>2, <3>7
      <4>2. Decompress(B, n) = src
        BY ONLY LzInv, pc = "done", <3>2, <4>1, DecompressWhole
      <4> QED
        BY ONLY <2>1, <3>4, <3>5, <3>6, <3>7, <4>2
    <3>8. CASE cut
      <4>1. Decompress(B, n) = Refused
        BY ONLY LzInv, pc = "done", <3>2, <3>8, DecompressCut
      <4> QED
        BY ONLY <2>1, <3>4, <3>5, <3>6, <3>8, <4>1
    <3> QED
      BY <3>7, <3>8
  <2> QED
    BY <2>4, <2>5
<1> QED
  BY <1>1, LzInvariant, PTL
---------------------------------------------------------------------------
(* What stage 2's checksum loop computes, for every modulus that is more    *)
(* than four times the largest byte, over every sequence of bytes.          *)

(* The high sum leaves its range only when the low sum has just wrapped,    *)
(* and then both are small, so the next subtraction brings it back.         *)
SumInv ==
  /\ a \in 0..(Modulus - 1) /\ b \in 0..(Modulus - 1) /\ last \in 0..MaxByte
  /\ eax = a
  /\ \/ hi = b
     \/ hi = b + Modulus /\ last # 0 /\ a < MaxByte /\ b < MaxByte

\* One subtraction reduces a sum of two reduced terms.
LEMMA OneSubtraction ==
  ASSUME NEW x \in Nat, x < 2 * Modulus
  PROVE  x % Modulus = Reduce(x)
<1> DEFINE q == x \div Modulus
           r == x % Modulus
<1>1. Modulus \in Nat /\ Modulus > 0
  BY AdlerAssumption
<1>2. x = (Modulus * q) + r /\ r \in 0 .. Modulus - 1 /\ q \in Nat
  BY <1>1, DivMod
<1> HIDE DEF q, r
<1>3. CASE q = 0
  BY <1>1, <1>2, <1>3 DEF Reduce, r
<1>4. CASE q = 1
  BY <1>1, <1>2, <1>4 DEF Reduce, r
<1>5. CASE q >= 2
  <2>1. Modulus * q >= Modulus * 2
    BY <1>1, <1>2, <1>5
  <2> QED
    BY <2>1, <1>1, <1>2
<1> QED
  BY <1>2, <1>3, <1>4, <1>5

\* The sum of two reduced terms.
LEMMA TwoReduced ==
  ASSUME NEW p \in 0 .. Modulus - 1, NEW q \in 0 .. Modulus - 1
  PROVE  p + q \in Nat /\ p + q < 2 * Modulus
BY AdlerAssumption

(* Stage 2's sums follow the reference through every byte, except that the  *)
(* high sum may be one modulus ahead after a byte that is not zero.         *)
THEOREM SumInvariant == SumSpec => []SumInv
<1> USE AdlerAssumption
<1>1. SumInit => SumInv
  BY DEF SumInit, SumInv
<1>2. SumInv /\ [SumNext]_sumVars => SumInv'
  <2> SUFFICES ASSUME SumInv, [SumNext]_sumVars
               PROVE  SumInv'
    OBVIOUS
  <2>1. CASE UNCHANGED sumVars
    BY <2>1 DEF SumInv, sumVars
  <2>2. CASE SumNext
    <3>1. PICK x \in 0..MaxByte : AddByte(x) /\ RefByte(x)
      BY <2>2 DEF SumNext
    <3>2. a + x \in Nat /\ a + x < 2 * Modulus /\ a' = Reduce(a + x)
      BY <3>1, OneSubtraction DEF SumInv, RefByte
    <3>3. a' \in 0..(Modulus - 1) /\ eax' = a'
      BY <3>1, <3>2 DEF SumInv, AddByte, Reduce
    <3>4. b' = Reduce(b + a') /\ b' \in 0..(Modulus - 1)
      <4>0. b \in 0..(Modulus - 1) /\ a' \in 0..(Modulus - 1) /\ Modulus \in Nat
        BY <3>3 DEF SumInv
      <4>1. b + a' \in Nat /\ b + a' < 2 * Modulus
        BY <4>0, TwoReduced
      <4>2. b' = Reduce(b + a')
        BY <3>1, <4>1, OneSubtraction DEF RefByte
      <4> QED
        BY <4>1, <4>2 DEF Reduce
    <3>5. hi' = Reduce(hi + (a + x)) /\ last' = x
      BY <3>1 DEF SumInv, AddByte
    <3>6. CASE hi = b
      BY <3>2, <3>3, <3>4, <3>5, <3>6 DEF SumInv, Reduce
    <3>7. CASE hi = b + Modulus /\ a < MaxByte /\ b < MaxByte
      BY <3>2, <3>3, <3>4, <3>5, <3>7 DEF SumInv, Reduce
    <3> QED
      BY <3>6, <3>7 DEF SumInv
  <2> QED
    BY <2>1, <2>2
<1> QED
  BY <1>1, <1>2, PTL DEF SumSpec

(* The checksum of a blob that ends in padding is the one mkqizoimg stored, *)
(* and any other differs by one modulus of the high sum at most.            *)
THEOREM ChecksumAgrees == SumSpec => []SumIsRight
<1>1. SumInv => SumIsRight
  BY AdlerAssumption DEF SumInv, SumIsRight
<1> QED
  BY <1>1, SumInvariant, PTL
===========================================================================
