---------------------------- MODULE BootProofs ----------------------------
(* The boot chain for every layout that orders the regions, every machine   *)
(* whose firmware leaves A20 open, and every image.                         *)
EXTENDS BootCheck, KernelLemmas

\* The numbers of the layout, one inequality for each pair of neighbours.
LEMMA Layout ==
  /\ SectorCells \in Nat /\ SectorCells > 0 /\ Stage2Sectors \in Nat /\ Stage2Sectors > 0
  /\ ChunkMax \in Nat /\ ChunkMax > 0 /\ E820Max \in Nat /\ E820Max > 0
  /\ PartLba \in Nat /\ PartLba > 0 /\ MiB \in Nat /\ MiB > 0
  /\ BlobMax \in Nat /\ KernelMax \in Nat /\ Stage2 \in Nat /\ E820Buf \in Nat /\ KText \in Nat
  /\ Scratch \in Nat /\ Pages \in Nat /\ PageCells \in Nat /\ MemTop \in Nat /\ Blob \in Nat
  /\ Blob = Stage2 + Span(Stage2Sectors) /\ Span(Stage2Sectors) \in Nat
  /\ Blob + BlobMax <= E820Buf /\ E820Buf + E820Max <= KText
  /\ KText + KernelMax <= Scratch /\ Scratch + 1 + KernelMax <= Pages
  /\ Pages + PageCells <= MemTop /\ BlobMax <= 1 + KernelMax
<1>1. /\ SectorCells \in Nat /\ SectorCells > 0 /\ Stage2Sectors \in Nat /\ Stage2Sectors > 0
      /\ ChunkMax \in Nat /\ ChunkMax > 0 /\ E820Max \in Nat /\ E820Max > 0
      /\ PartLba \in Nat /\ PartLba > 0 /\ MiB \in Nat /\ MiB > 0
  BY SizesAssumption
<1>2. /\ BlobMax \in Nat /\ KernelMax \in Nat /\ Stage2 \in Nat /\ E820Buf \in Nat
      /\ KText \in Nat /\ Scratch \in Nat /\ Pages \in Nat /\ PageCells \in Nat /\ MemTop \in Nat
  BY SizesAssumption
<1>3. Span(Stage2Sectors) \in Nat
  BY <1>1 DEF Span
<1>4. Blob \in Nat /\ Blob = Stage2 + Span(Stage2Sectors)
  BY <1>2, <1>3 DEF Blob
<1>5. /\ Blob + BlobMax <= E820Buf /\ E820Buf + E820Max <= KText
      /\ KText + KernelMax <= Scratch /\ Scratch + (HDR + KernelMax) <= Pages
      /\ Pages + PageCells <= MemTop
  <2> DEFINE rs == << <<Stage2, Blob - Stage2>>, <<Blob, BlobMax>>, <<E820Buf, E820Max>>,
                      <<KText, KernelMax>>, <<Scratch, HDR + KernelMax>>,
                      <<Pages, PageCells>>, <<MemTop, 0>> >>
  <2>1. \A i \in 1..(Len(rs) - 1) : rs[i][1] + rs[i][2] <= rs[i + 1][1]
    BY LayoutAssumption DEF Fits
  <2>2. 2 \in 1..(Len(rs) - 1) /\ 3 \in 1..(Len(rs) - 1) /\ 4 \in 1..(Len(rs) - 1)
        /\ 5 \in 1..(Len(rs) - 1) /\ 6 \in 1..(Len(rs) - 1)
    OBVIOUS
  <2>3. /\ rs[2] = <<Blob, BlobMax>> /\ rs[3] = <<E820Buf, E820Max>>
        /\ rs[4] = <<KText, KernelMax>> /\ rs[5] = <<Scratch, HDR + KernelMax>>
        /\ rs[6] = <<Pages, PageCells>> /\ rs[7] = <<MemTop, 0>>
    OBVIOUS
  <2> HIDE DEF rs
  <2>4. /\ rs[2][1] + rs[2][2] <= rs[3][1] /\ rs[3][1] + rs[3][2] <= rs[4][1]
        /\ rs[4][1] + rs[4][2] <= rs[5][1] /\ rs[5][1] + rs[5][2] <= rs[6][1]
        /\ rs[6][1] + rs[6][2] <= rs[7][1]
    BY <2>1, <2>2
  <2> QED
    BY <2>3, <2>4
<1>6. BlobMax <= HDR + KernelMax
  BY LayoutAssumption
<1> QED
  BY <1>1, <1>2, <1>3, <1>4, <1>5, <1>6 DEF HDR

\* With A20 open an address is itself, and a write stores its cells and nothing else.
LEMMA WriteOpen ==
  ASSUME gate = TRUE, NEW a \in Nat, NEW n \in Nat, NEW cells, DOMAIN cells = 1..n,
         DOMAIN mem = 0..MemTop, Write(a, cells)
  PROVE  /\ DOMAIN mem' = 0..MemTop
         /\ \A i \in 1..n : a + i - 1 <= MemTop => mem'[a + i - 1] = cells[i]
         /\ \A b \in 0..MemTop : b < a \/ b >= a + n => mem'[b] = mem[b]
<1>1. \A x : Phys(x) = x
  BY DEF Phys
<1>2. mem' = [b \in 0..MemTop |->
                IF \E i \in 1..n : a + i - 1 = b
                THEN cells[CHOOSE i \in 1..n : a + i - 1 = b] ELSE mem[b]]
  BY <1>1 DEF Write
<1>3. ASSUME NEW i \in 1..n, a + i - 1 <= MemTop
      PROVE  mem'[a + i - 1] = cells[i]
  <2>1. a + i - 1 \in 0..MemTop
    BY <1>3, Layout
  <2>2. (CHOOSE j \in 1..n : a + j - 1 = a + i - 1) = i
    <3> DEFINE j == CHOOSE j \in 1..n : a + j - 1 = a + i - 1
    <3>1. j \in 1..n /\ a + j - 1 = a + i - 1
      OBVIOUS
    <3> HIDE DEF j
    <3>2. j = i
      BY <3>1
    <3> QED
      BY <3>2 DEF j
  <2> QED
    BY <1>2, <2>1, <2>2
<1>4. ASSUME NEW b \in 0..MemTop, b < a \/ b >= a + n
      PROVE  mem'[b] = mem[b]
  <2>1. ~\E i \in 1..n : a + i - 1 = b
    BY <1>4, Layout
  <2> QED
    BY <1>2, <2>1
<1> QED
  BY <1>2, <1>3, <1>4

LEMMA ReadOpen ==
  ASSUME gate = TRUE
  PROVE  /\ \A x : Phys(x) = x
         /\ \A a, n : Read(a, n) = [i \in 1..n |-> mem[a + i - 1]]
BY DEF Phys, Read

---------------------------------------------------------------------------
(* Numbers of sectors and of cells. *)
LEMMA Product ==
  ASSUME NEW n \in Nat, NEW s \in Nat, NEW t \in Nat
  PROVE  /\ s * n \in Nat /\ (s + t) * n = s * n + t * n
         /\ s < t => s * n + n <= t * n
         /\ s <= t => s * n <= t * n
<1>1. s * n \in Nat /\ t * n \in Nat /\ (s + t) * n = s * n + t * n
  OBVIOUS
<1>2. ASSUME NEW u \in Nat, NEW v \in Nat
      PROVE  (u + v) * n = u * n + v * n /\ v * n \in Nat /\ u * n \in Nat
  OBVIOUS
<1>3. ASSUME s < t
      PROVE  s * n + n <= t * n
  <2>1. t - s - 1 \in Nat /\ t = (s + 1) + (t - s - 1)
    BY <1>3
  <2>2. t * n = (s + 1) * n + (t - s - 1) * n /\ (t - s - 1) * n \in Nat
    BY <1>2, <2>1
  <2>3. (s + 1) * n = s * n + n
    BY <1>2
  <2> QED
    BY <1>1, <2>2, <2>3
<1> QED
  BY <1>1, <1>3

\* Cell r of sector s is the cell at offset s * n + r.
LEMMA CellOfSector ==
  ASSUME NEW n \in Nat, n > 0, NEW s \in Nat, NEW r \in 0..(n - 1)
  PROVE  (s * n + r) \div n = s /\ (s * n + r) % n = r
<1> DEFINE x == s * n + r
           q == x \div n
           p == x % n
<1>1. x \in Nat /\ s * n \in Nat
  BY Product
<1>2. x = (n * q) + p /\ p \in 0..(n - 1) /\ q \in Nat
  BY <1>1, DivMod
<1>3. x = s * n + r
  OBVIOUS
<1>4. n * q = q * n
  BY <1>2
<1> HIDE DEF x, q, p
<1>5. ~(q < s)
  <2>1. q < s => q * n + n <= s * n
    BY <1>2, Product
  <2> QED
    BY <1>1, <1>2, <1>3, <1>4, <2>1
<1>6. ~(s < q)
  <2>1. s < q => s * n + n <= q * n
    BY <1>2, Product
  <2> QED
    BY <1>1, <1>2, <1>3, <1>4, <2>1
<1>7. q = s
  BY <1>2, <1>5, <1>6
<1>8. p = r
  BY <1>1, <1>2, <1>3, <1>4, <1>7
<1> QED
  BY <1>7, <1>8 DEF x, q, p

\* Every offset is some cell of some sector.
LEMMA SectorOfCell ==
  ASSUME NEW n \in Nat, n > 0, NEW t \in Nat, NEW c \in Nat, c < t * n
  PROVE  \E s \in 0..(t - 1), r \in 0..(n - 1) : c = s * n + r
<1> DEFINE s == c \div n
           r == c % n
<1>1. c = (n * s) + r /\ r \in 0..(n - 1) /\ s \in Nat
  BY DivMod
<1>2. n * s = s * n
  BY <1>1
<1> HIDE DEF s, r
<1>3. t <= s => t * n <= s * n
  BY <1>1, Product
<1>4. s * n \in Nat /\ t * n \in Nat
  BY <1>1, Product
<1>5. s < t
  BY <1>1, <1>2, <1>3, <1>4
<1> QED
  BY <1>1, <1>2, <1>5

\* The padded length: whole sectors, no more than a region of whole sectors that holds
\* the data.
LEMMA RoundUp ==
  ASSUME NEW n \in Nat, n > 0, NEW len \in Nat, NEW max \in Nat, len <= max, max % n = 0
  PROVE  /\ (len + n - 1) \div n \in Nat /\ ((len + n - 1) \div n) * n >= len
         /\ ((len + n - 1) \div n) * n <= max /\ (len + n - 1) \div n <= max \div n
         /\ len > 0 => (len + n - 1) \div n > 0
<1> DEFINE t == (len + n - 1) \div n
           r == (len + n - 1) % n
           q == max \div n
<1>1. len + n - 1 = (n * t) + r /\ r \in 0..(n - 1) /\ t \in Nat
  BY DivMod
<1>2. max = (n * q) + (max % n) /\ q \in Nat
  BY DivMod
<1>3. n * t = t * n /\ n * q = q * n
  BY <1>1, <1>2
<1> HIDE DEF t, r, q
<1>4. t * n \in Nat /\ q * n \in Nat /\ max = q * n
  BY <1>1, <1>2, <1>3, Product
<1>5. t * n >= len
  BY <1>1, <1>3, <1>4
<1>6. t <= q
  <2>1. q < t => q * n + n <= t * n
    BY <1>1, <1>2, Product
  <2> QED
    BY <1>1, <1>2, <1>3, <1>4, <2>1
<1>7. t * n <= q * n
  BY <1>1, <1>2, <1>6, Product
<1>8. len > 0 => t > 0
  <2>1. t = 0 => t * n = 0
    OBVIOUS
  <2> QED
    BY <1>1, <1>4, <1>5, <2>1
<1> QED
  BY <1>1, <1>4, <1>5, <1>6, <1>7, <1>8 DEF t, q
(* The same of spans. *)
LEMMA SpanFacts ==
  ASSUME NEW s \in Nat, NEW t \in Nat
  PROVE  /\ Span(s) \in Nat /\ Span(s + t) = Span(s) + Span(t)
         /\ s < t => Span(s) + SectorCells <= Span(t)
         /\ s <= t => Span(s) <= Span(t)
<1>1. SectorCells \in Nat
  BY SizesAssumption
<1> QED
  BY <1>1, Product DEF Span

LEMMA SpanNat == \A s \in Nat : Span(s) \in Nat
BY SpanFacts

LEMMA SpanAdd == \A s, t \in Nat : Span(s + t) = Span(s) + Span(t)
BY SpanFacts

LEMMA SpanLess ==
  \A s, t \in Nat : /\ s < t => Span(s) + SectorCells <= Span(t)
                    /\ s <= t => Span(s) <= Span(t)
BY SpanFacts

LEMMA SpanCell ==
  ASSUME NEW s \in Nat, NEW r \in 0..(SectorCells - 1)
  PROVE  (Span(s) + r) \div SectorCells = s /\ (Span(s) + r) % SectorCells = r
<1>1. SectorCells \in Nat /\ SectorCells > 0
  BY SizesAssumption
<1> QED
  BY <1>1, CellOfSector DEF Span

LEMMA CellSpan ==
  ASSUME NEW t \in Nat, NEW c \in Nat, c < Span(t)
  PROVE  \E s \in 0..(t - 1), r \in 0..(SectorCells - 1) : c = Span(s) + r
<1>1. SectorCells \in Nat /\ SectorCells > 0
  BY SizesAssumption
<1> QED
  BY <1>1, SectorOfCell DEF Span
---------------------------------------------------------------------------
(* Sequences of cells. *)
LEMMA Joined ==
  ASSUME NEW m \in Nat, NEW n \in Nat, NEW f, NEW g,
         f = [i \in 1..m |-> f[i]], g = [i \in 1..n |-> g[i]]
  PROVE  /\ f \o g = [i \in 1..(m + n) |-> IF i <= m THEN f[i] ELSE g[i - m]]
         /\ Len(f \o g) = m + n
<1> DEFINE S == {f[i] : i \in 1..m} \cup {g[i] : i \in 1..n}
<1>1. f \in [1..m -> S] /\ g \in [1..n -> S]
  BY Zenon
<1>2. f \in Seq(S) /\ g \in Seq(S) /\ Len(f) = m /\ Len(g) = n
  BY <1>1, SMTT(30)
<1> HIDE DEF S
<1>3. /\ f \o g \in Seq(S) /\ Len(f \o g) = m + n
      /\ \A i \in 1..(m + n) : (f \o g)[i] = IF i <= m THEN f[i] ELSE g[i - m]
  BY <1>2, ConcatProperties, ZenonT(40)
<1>4. f \o g \in [1..(m + n) -> S]
  BY <1>3, LenProperties
<1> QED
  BY <1>3, <1>4

---------------------------------------------------------------------------
(* The image. *)
LEMMA MachineType ==
  ASSUME ImageInv
  PROVE  /\ machine.booted \in 0..255 /\ machine.upper \in Nat
         /\ Len(machine.map) \in Nat /\ DOMAIN machine.map = 1..Len(machine.map)
<1>1. PICK in \in Inputs : machine = in[1] /\ image.kernel = in[2]
  BY DEF ImageInv
<1> QED
  BY <1>1, InputsAssumption

LEMMA KernelType ==
  ASSUME ImageInv
  PROVE  /\ image.kernel.size \in Nat /\ image.kernel.total \in Nat
         /\ image.kernel.entry \in Nat /\ image.kernel.cells \in Nat
         /\ image.kernel.cells <= KernelMax
<1>1. PICK in \in Inputs : machine = in[1] /\ image.kernel = in[2]
  BY DEF ImageInv
<1>2. {in[2].size, in[2].total, in[2].entry, in[2].cells, in[2].base} \subseteq Nat
      /\ in[2].cells <= KernelMax
  BY InputsAssumption
<1> QED
  BY <1>1, <1>2

\* The module: its header and the kernel's cells.
LEMMA ModuleFacts ==
  ASSUME ImageInv
  PROVE  /\ Len(TheModule) = image.kernel.cells + 1
         /\ TheModule = [i \in 1..Len(TheModule) |-> TheModule[i]]
         /\ TheModule[1] = ModuleHeader(image.kernel)
         /\ \A i \in 1..image.kernel.cells : TheModule[i + 1] = <<"kernel", i>>
<1> DEFINE h == <<ModuleHeader(image.kernel)>>
           g == KernelCells(image.kernel)
           n == image.kernel.cells
<1>1. n \in Nat
  BY KernelType
<1>2. h = [i \in 1..1 |-> h[i]] /\ h[1] = ModuleHeader(image.kernel)
  OBVIOUS
<1>3. g = [i \in 1..n |-> g[i]] /\ \A i \in 1..n : g[i] = <<"kernel", i>>
  BY DEF KernelCells
<1> HIDE DEF h, g, n
<1>4. h \o g = [i \in 1..(1 + n) |-> IF i <= 1 THEN h[i] ELSE g[i - 1]] /\ Len(h \o g) = 1 + n
  BY <1>1, <1>2, <1>3, Joined
<1>5. TheModule = h \o g
  BY DEF TheModule, Payload, h, g
<1>6. TheModule[1] = h[1]
  BY <1>1, <1>4, <1>5
<1>7. ASSUME NEW i \in 1..n
      PROVE  TheModule[i + 1] = <<"kernel", i>>
  <2>1. i + 1 \in 1..(1 + n) /\ ~(i + 1 <= 1) /\ i + 1 - 1 = i
    BY <1>1
  <2>2. TheModule[i + 1] = g[i]
    BY <1>4, <1>5, <2>1
  <2> QED
    BY <1>3, <2>2
<1>8. TheModule = [i \in 1..Len(TheModule) |-> TheModule[i]] /\ Len(TheModule) = n + 1
  BY <1>1, <1>4, <1>5
<1> QED
  BY <1>2, <1>6, <1>7, <1>8 DEF n

RunLen(i) == IF 2 * i <= Len(TheModule) THEN 2 ELSE 1
IsRun(run, i) ==
  /\ Len(run) = RunLen(i) /\ DOMAIN run = 1..RunLen(i)
  /\ \A j \in 1..RunLen(i) : run[j] = TheModule[2 * i - 2 + j]
  /\ run = [j \in 1..RunLen(i) |-> run[j]]

\* The items cut the module into runs of two cells, the last of which may have one.
LEMMA ItemFacts ==
  ASSUME ImageInv
  PROVE  /\ Len(Items(TheModule)) \in Nat /\ Len(TheModule) \in Nat
         /\ 2 * Len(Items(TheModule)) >= Len(TheModule)
         /\ 2 * Len(Items(TheModule)) <= Len(TheModule) + 1
         /\ Items(TheModule) = [i \in 1..Len(Items(TheModule)) |-> Items(TheModule)[i]]
         /\ \A i \in 1..Len(Items(TheModule)) :
              \E run : Items(TheModule)[i] = <<"item", run>> /\ IsRun(run, i)
<1> DEFINE p == TheModule
           n == (Len(p) + 1) \div 2
           hi(i) == IF 2 * i <= Len(p) THEN 2 * i ELSE Len(p)
           S == {p[i] : i \in 1..Len(p)}
<1>1. Len(p) \in Nat /\ p = [i \in 1..Len(p) |-> p[i]]
  BY ModuleFacts, KernelType
<1>2. p \in Seq(S)
  BY <1>1
<1> HIDE DEF p, S
<1>3. n \in Nat /\ 2 * n >= Len(p) /\ 2 * n <= Len(p) + 1
  BY <1>1
<1> HIDE DEF n
<1>4. Items(p) = [i \in 1..n |-> <<"item", SubSeq(p, 2 * i - 1, hi(i))>>]
  BY DEF Items, n
<1>5. Len(Items(p)) = n /\ Items(p) = [i \in 1..Len(Items(p)) |-> Items(p)[i]]
  BY <1>3, <1>4
<1>6. ASSUME NEW i \in 1..n
      PROVE  \E run : Items(p)[i] = <<"item", run>> /\ IsRun(run, i)
  <2> DEFINE run == SubSeq(p, 2 * i - 1, hi(i))
             m   == IF 2 * i <= Len(p) THEN 2 ELSE 1
  <2>1. Items(p)[i] = <<"item", run>>
    BY <1>4
  <2>2. 2 * i - 1 \in 1..Len(p) /\ hi(i) \in 1..Len(p) /\ hi(i) - (2 * i - 1) + 1 = m
        /\ 2 * i - 1 <= hi(i) /\ m \in Nat
    BY <1>1, <1>3
  <2>3. /\ Len(run) = m /\ DOMAIN run = 1..m
        /\ \A j \in 1..m : run[j] = p[2 * i - 2 + j]
        /\ run = [j \in 1..m |-> run[j]]
    <3> HIDE DEF m
    <3> DEFINE u == 2 * i - 1
               v == hi(i)
    <3>1. u \in 1..Len(p) /\ v \in 1..Len(p) /\ v - u + 1 = m /\ u <= v
      BY <2>2
    <3>2. run = SubSeq(p, u, v)
      OBVIOUS
    <3>3. \A j \in 1..m : u + j - 1 = 2 * i - 2 + j
      BY <2>2
    <3> HIDE DEF u, v, run
    <3>4. Len(run) = m /\ run \in Seq(S) /\ \A j \in 1..m : run[j] = p[u + j - 1]
      BY <1>1, <1>2, <3>1, <3>2, SubSeqProperties, SMTT(30)
    <3>5. DOMAIN run = 1..m /\ run = [j \in 1..m |-> run[j]]
      BY <3>4
    <3> QED
      BY <3>3, <3>4, <3>5
  <2>4. IsRun(run, i)
    <3> HIDE DEF run
    <3> QED
      BY <2>3 DEF IsRun, RunLen, p
  <2> QED
    BY <2>1, <2>4
<1> QED
  BY <1>1, <1>3, <1>5, <1>6 DEF p

\* No cell the builder writes is one of those a damaged or another sector holds.
Sound(c) == c[1] # "damage" /\ c[1] # "other" /\ c[1] # "stage2"

LEMMA ModuleSound ==
  ASSUME ImageInv
  PROVE  \A i \in 1..Len(TheModule) : Sound(TheModule[i])
<1> SUFFICES ASSUME NEW i \in 1..Len(TheModule) PROVE Sound(TheModule[i])
  OBVIOUS
<1>1. image.kernel.cells \in Nat
  BY KernelType
<1>2. CASE i = 1
  <2>1. TheModule[1] = ModuleHeader(image.kernel)
    BY ModuleFacts
  <2>2. ModuleHeader(image.kernel)[1] = "IZOK"
    BY DEF ModuleHeader
  <2> QED
    BY <1>2, <2>1, <2>2 DEF Sound
<1>3. CASE i # 1
  <2>1. i - 1 \in 1..image.kernel.cells /\ (i - 1) + 1 = i
    BY <1>1, <1>3, ModuleFacts
  <2>2. TheModule[i] = <<"kernel", i - 1>>
    BY <2>1, ModuleFacts
  <2> QED
    BY <2>2 DEF Sound
<1> QED
  BY <1>2, <1>3

\* The container: one cell of header, then the module or its items.
LEMMA ContainerFacts ==
  ASSUME ImageInv
  PROVE  /\ Len(TheContainer) \in Nat /\ Len(TheContainer) > 0 /\ Len(TheContainer) <= BlobMax
         /\ TheContainer = [i \in 1..Len(TheContainer) |-> TheContainer[i]]
         /\ TheContainer[1]
              = <<"box", IF image.raw THEN "none" ELSE "QIZL", Len(TheModule)>>
         /\ ~image.raw => /\ Len(TheContainer) = 1 + Len(Items(TheModule))
                          /\ \A i \in 1..Len(Items(TheModule)) :
                               TheContainer[i + 1] = Items(TheModule)[i]
         /\ \A i \in 1..Len(TheContainer) : Sound(TheContainer[i])
<1> DEFINE h == << <<"box", IF image.raw THEN "none" ELSE "QIZL", Len(TheModule)>> >>
           g == IF image.raw THEN TheModule ELSE Items(TheModule)
           n == Len(g)
<1>1. image.raw \in BOOLEAN
  BY DEF ImageInv
<1>2. TheContainer = h \o g
  <2>1. CASE image.raw
    BY <2>1 DEF TheContainer, Container, TheModule, Raw
  <2>2. CASE ~image.raw
    BY <2>2 DEF TheContainer, Container, TheModule, Compress
  <2> QED
    BY <2>1, <2>2
<1>3. n \in Nat /\ g = [i \in 1..n |-> g[i]]
  BY ModuleFacts, ItemFacts
<1>4. \A i \in 1..n : Sound(g[i])
  <2>1. CASE image.raw
    BY <2>1, ModuleSound
  <2>2. CASE ~image.raw
    <3> SUFFICES ASSUME NEW i \in 1..Len(Items(TheModule)) PROVE Sound(Items(TheModule)[i])
      BY <2>2
    <3>1. PICK run : Items(TheModule)[i] = <<"item", run>>
      BY ItemFacts
    <3> QED
      BY <3>1 DEF Sound
  <2> QED
    BY <2>1, <2>2
<1>5. h = [i \in 1..1 |-> h[i]] /\ Sound(h[1])
      /\ h[1] = <<"box", IF image.raw THEN "none" ELSE "QIZL", Len(TheModule)>>
  BY DEF Sound
<1>6. ~image.raw => g = Items(TheModule)
  OBVIOUS
<1>7. Len(TheContainer) <= BlobMax
  BY DEF ImageInv, Buildable, FitsBlob, TheContainer
<1> HIDE DEF h, g
<1>8. /\ h \o g = [i \in 1..(1 + n) |-> IF i <= 1 THEN h[i] ELSE g[i - 1]]
      /\ Len(h \o g) = 1 + n
  BY <1>3, <1>5, Joined
<1> HIDE DEF n
<1>9. Len(TheContainer) = 1 + n
      /\ TheContainer = [i \in 1..Len(TheContainer) |-> TheContainer[i]]
  BY <1>2, <1>3, <1>8
<1>10. TheContainer[1] = h[1]
  BY <1>2, <1>3, <1>8
<1>11. \A i \in 1..n : TheContainer[i + 1] = g[i]
  BY <1>2, <1>3, <1>8
<1>12. ASSUME NEW i \in 1..Len(TheContainer)
       PROVE  Sound(TheContainer[i])
  <2>1. CASE i = 1
    BY <1>5, <1>10, <2>1
  <2>2. CASE i # 1
    <3>1. i - 1 \in 1..n /\ TheContainer[i] = g[i - 1]
      BY <1>2, <1>3, <1>8, <1>9, <2>2
    <3> QED
      BY <1>4, <3>1
  <2> QED
    BY <2>1, <2>2
<1> QED
  BY <1>3, <1>5, <1>6, <1>7, <1>9, <1>10, <1>11, <1>12 DEF n

\* A number of sectors that EDI's low half can count.
Countable(n) == n <= 65536
TheSectors == Sectors(TheContainer)
Padded == Pad(TheContainer)

\* The padded container fills whole sectors and fits its region.
LEMMA PadFacts ==
  ASSUME ImageInv
  PROVE  /\ TheSectors \in Nat /\ TheSectors > 0 /\ Span(TheSectors) \in Nat
         /\ Span(TheSectors) <= BlobMax /\ Span(TheSectors) > 0
         /\ Len(TheContainer) <= Span(TheSectors)
         /\ Countable(Stage2Sectors + TheSectors)
         /\ Padded = [i \in 1..(Span(TheSectors)) |-> Padded[i]]
         /\ Len(Padded) = Span(TheSectors)
         /\ \A i \in 1..Len(TheContainer) : Padded[i] = TheContainer[i]
         /\ \A i \in 1..(Span(TheSectors)) : Sound(Padded[i])
<1> DEFINE c == TheContainer
           m == Len(c)
           t == Span(TheSectors)
           z == [i \in 1..(t - m) |-> Zero]
<1>1. m \in Nat /\ m > 0 /\ m <= BlobMax /\ c = [i \in 1..m |-> c[i]]
      /\ \A i \in 1..m : Sound(c[i])
  BY ContainerFacts
<1> HIDE DEF c, m
<1>2. TheSectors = (m + SectorCells - 1) \div SectorCells
  BY DEF TheSectors, Sectors, c, m
<1>3. /\ SectorCells \in Nat /\ SectorCells > 0 /\ BlobMax \in Nat /\ BlobMax % SectorCells = 0
      /\ Stage2Sectors \in Nat
  BY Layout, SizesAssumption
<1>4. /\ TheSectors \in Nat /\ TheSectors > 0 /\ t >= m /\ t <= BlobMax
      /\ TheSectors <= BlobMax \div SectorCells
  BY <1>1, <1>2, <1>3, RoundUp DEF Span
<1>5. t \in Nat
  BY <1>3, <1>4, SpanFacts
<1>6. Countable(Stage2Sectors + TheSectors)
  <2>1. Stage2Sectors + BlobMax \div SectorCells <= 65536
    BY SizesAssumption
  <2>2. BlobMax \div SectorCells \in Nat
    BY <1>3, DivMod
  <2> QED
    BY ONLY <1>3, <1>4, <2>1, <2>2, SMT DEF Countable
<1>7. Padded = c \o z
  BY DEF Padded, Pad, TheSectors, c, m
<1> HIDE DEF t
<1>8. t - m \in Nat
  BY <1>1, <1>4, <1>5
<1>9. z = [i \in 1..(t - m) |-> z[i]] /\ \A i \in 1..(t - m) : Sound(z[i])
  BY DEF Zero, Sound
<1> HIDE DEF z
<1>10. /\ Padded = [i \in 1..(m + (t - m)) |-> IF i <= m THEN c[i] ELSE z[i - m]]
       /\ Len(Padded) = m + (t - m)
  BY <1>1, <1>7, <1>8, <1>9, Joined
<1>11. m + (t - m) = t
  BY <1>1, <1>5
<1>12. Padded = [i \in 1..t |-> IF i <= m THEN c[i] ELSE z[i - m]] /\ Len(Padded) = t
  BY <1>10, <1>11
<1>13. Padded = [i \in 1..t |-> Padded[i]]
  BY <1>12
<1>14. \A i \in 1..m : Padded[i] = c[i]
  BY <1>1, <1>4, <1>5, <1>12
<1>15. ASSUME NEW i \in 1..t
       PROVE  Sound(Padded[i])
  <2>1. CASE i <= m
    BY <1>1, <1>5, <1>12, <2>1
  <2>2. CASE i > m
    <3>1. i - m \in 1..(t - m) /\ Padded[i] = z[i - m]
      BY <1>1, <1>5, <1>12, <2>2
    <3> QED
      BY <1>9, <3>1
  <2> QED
    BY <1>1, <1>5, <2>1, <2>2
<1> QED
  BY <1>1, <1>4, <1>5, <1>6, <1>12, <1>13, <1>14, <1>15 DEF c, m, t

LEMMA ArgsFacts ==
  ASSUME ImageInv
  PROVE  /\ image.args.total = Stage2Sectors + TheSectors /\ image.args.crc = Padded
         /\ image.args.total \in Nat /\ image.args.total > 0 /\ Countable(image.args.total)
         /\ Span(image.args.total) \in Nat
         /\ Stage2 + Span(image.args.total) = Blob + Span(TheSectors)
<1>1. image.args.total = Stage2Sectors + TheSectors /\ image.args.crc = Padded
  BY DEF ImageInv, Args, TheSectors, Padded, TheContainer, Checksum
<1>2. /\ SectorCells \in Nat /\ Stage2Sectors \in Nat /\ Stage2 \in Nat
      /\ Blob = Stage2 + Span(Stage2Sectors)
  BY Layout
<1>3. TheSectors \in Nat /\ TheSectors > 0 /\ Countable(Stage2Sectors + TheSectors)
  BY PadFacts
<1>4. Span(Stage2Sectors + TheSectors) = Span(Stage2Sectors) + Span(TheSectors)
  BY ONLY <1>2, <1>3, SpanAdd, Zenon
<1>5. Span(Stage2Sectors) \in Nat /\ Span(TheSectors) \in Nat
  BY ONLY <1>2, <1>3, SpanNat
<1> QED
  BY ONLY <1>1, <1>2, <1>3, <1>4, <1>5

\* The cells of the boot area on the disk.
LEMMA AreaFacts ==
  ASSUME ImageInv
  PROVE  \A i \in 1..(Span(image.args.total)) :
           BootArea(image.kernel, image.raw)[i]
             = IF i <= Span(Stage2Sectors) THEN Code
               ELSE Padded[i - Span(Stage2Sectors)]
<1> DEFINE m == Span(Stage2Sectors)
           n == Span(TheSectors)
           f == [i \in 1..m |-> Code]
<1>1. m \in Nat /\ n \in Nat
  BY Layout, PadFacts
<1>2. Padded = [i \in 1..n |-> Padded[i]]
  BY PadFacts
<1>3. Span(image.args.total) = m + n
  <2>1. Stage2 + Span(image.args.total) = Blob + n /\ Span(image.args.total) \in Nat
    BY ArgsFacts
  <2>2. Blob = Stage2 + m /\ Stage2 \in Nat
    BY Layout
  <2> QED
    BY ONLY <1>1, <2>1, <2>2
<1>4. BootArea(image.kernel, image.raw) = f \o Padded
  BY DEF BootArea, Padded, TheContainer
<1>5. f = [i \in 1..m |-> f[i]] /\ \A i \in 1..m : f[i] = Code
  OBVIOUS
<1> HIDE DEF m, n, f
<1>6. f \o Padded = [i \in 1..(m + n) |-> IF i <= m THEN f[i] ELSE Padded[i - m]]
  BY <1>1, <1>2, <1>5, Joined
<1>7. ASSUME NEW i \in 1..(m + n)
      PROVE  BootArea(image.kernel, image.raw)[i] = IF i <= m THEN Code ELSE Padded[i - m]
  BY <1>1, <1>4, <1>5, <1>6
<1> QED
  BY <1>3, <1>7 DEF m

\* What the booted drive holds in sector s of the boot area.
LEMMA AreaSector ==
  ASSUME ImageInv, NEW s \in 0..(image.args.total - 1), NEW j \in 1..SectorCells
  PROVE  Sector(machine.booted, PartLba + s)[j] =
           IF PartLba + s = image.damaged THEN <<"damage">>
           ELSE IF s < Stage2Sectors THEN Code
           ELSE Padded[Span(s - Stage2Sectors) + j]
<1> DEFINE area == BootArea(image.kernel, image.raw)
           T == image.args.total
<1>1. /\ T \in Nat /\ PartLba \in Nat
      /\ SectorCells \in Nat /\ SectorCells > 0 /\ Stage2Sectors \in Nat /\ s \in Nat /\ s < T
      /\ Span(Stage2Sectors) \in Nat
  <2>1. T \in Nat
    BY ArgsFacts
  <2>3. /\ PartLba \in Nat /\ SectorCells \in Nat /\ SectorCells > 0 /\ Stage2Sectors \in Nat
        /\ Span(Stage2Sectors) \in Nat
    BY Layout
  <2> QED
    BY <2>1, <2>3
<1>2. Sector(machine.booted, PartLba + s)[j] =
         IF PartLba + s \in PartLba..(PartLba + T - 1)
         THEN IF PartLba + s = image.damaged THEN <<"damage">>
              ELSE area[Span((PartLba + s) - PartLba) + j]
         ELSE <<"other">>
  BY DEF Sector
<1>A. \A i \in 1..(Span(T)) :
        area[i] = IF i <= Span(Stage2Sectors) THEN Code
                  ELSE Padded[i - Span(Stage2Sectors)]
  BY AreaFacts
<1> HIDE DEF T, area
<1>3. (PartLba + s) - PartLba = s /\ PartLba + s \in PartLba..(PartLba + T - 1)
  BY ONLY <1>1
<1>4. Sector(machine.booted, PartLba + s)[j] =
        IF PartLba + s = image.damaged THEN <<"damage">>
        ELSE IF s < Stage2Sectors THEN Code
        ELSE Padded[Span(s - Stage2Sectors) + j]
  <2>2. Span(s) \in Nat /\ Span(T) \in Nat /\ Span(s) + SectorCells <= Span(T)
    BY <1>1, SpanNat, SpanLess
  <2>3. Span(s) + j \in 1..(Span(T))
    BY ONLY <1>1, <2>2, j \in 1..SectorCells
  <2>4. area[Span(s) + j]
          = IF Span(s) + j <= Span(Stage2Sectors) THEN Code
            ELSE Padded[(Span(s) + j) - Span(Stage2Sectors)]
    <3> DEFINE c == Span(s) + j
    <3>1. c \in 1..(Span(T))
      BY <2>3
    <3> HIDE DEF c
    <3>2. area[c] = IF c <= Span(Stage2Sectors) THEN Code
                    ELSE Padded[c - Span(Stage2Sectors)]
      BY ONLY <1>A, <3>1, Zenon
    <3> QED
      BY ONLY <3>2 DEF c
  <2>5. CASE s < Stage2Sectors
    <3>1. Span(s) + SectorCells <= Span(Stage2Sectors)
      BY <1>1, <2>5, SpanLess
    <3>2. Span(s) + j <= Span(Stage2Sectors)
      BY ONLY <1>1, <2>2, <3>1, j \in 1..SectorCells
    <3> QED
      BY <1>2, <1>3, <2>4, <2>5, <3>2
  <2>6. CASE s >= Stage2Sectors
    <3> DEFINE e == s - Stage2Sectors
    <3>1. e \in Nat /\ s = e + Stage2Sectors
      BY <1>1, <2>6
    <3> HIDE DEF e
    <3>2. Span(s) = Span(e) + Span(Stage2Sectors)
          /\ Span(e) \in Nat
      <4>1. Span(e + Stage2Sectors) = Span(e) + Span(Stage2Sectors) /\ Span(e) \in Nat
        BY ONLY <1>1, <3>1, SpanFacts, Zenon
      <4> QED
        BY ONLY <3>1, <4>1
    <3>3. ~(Span(s) + j <= Span(Stage2Sectors))
          /\ (Span(s) + j) - Span(Stage2Sectors) = Span(e) + j
      BY ONLY <1>1, <2>2, <3>2, j \in 1..SectorCells
    <3>4. area[Span(s) + j] = Padded[Span(e) + j]
      BY ONLY <2>4, <3>3
    <3>5. ~(s < Stage2Sectors)
      BY <1>1, <2>6
    <3> QED
      BY ONLY <1>2, <1>3, <3>4, <3>5 DEF e
  <2> QED
    BY <1>1, <2>5, <2>6
<1> QED
  BY <1>4

(* What stage 1 finds in sector s of the boot area: the area itself, damage, *)
(* or something else when the drive or the sector number is wrong.          *)
LEMMA SectorFacts ==
  ASSUME ImageInv, NEW d, NEW s \in 0..(image.args.total - 1), NEW j \in 1..SectorCells
  PROVE  /\ d # machine.booted \/ machine.upper # 0 => Sector(d, Lba(s))[j] = <<"other">>
         /\ d = machine.booted /\ machine.upper = 0 =>
              Sector(d, Lba(s))[j] =
                IF PartLba + s = image.damaged THEN <<"damage">>
                ELSE IF s < Stage2Sectors THEN Code
                ELSE Padded[Span(s - Stage2Sectors) + j]
<1> DEFINE T == image.args.total
<1>1. T \in Nat /\ Countable(T) /\ PartLba \in Nat /\ machine.upper \in Nat /\ s \in Nat /\ s < T
  <2>1. T \in Nat /\ Countable(T)
    BY ArgsFacts
  <2>2. machine.upper \in Nat
    BY MachineType
  <2>3. PartLba \in Nat
    BY Layout
  <2> QED
    BY <2>1, <2>2, <2>3
<1>2. d # machine.booted \/ Lba(s) \notin PartLba..(PartLba + T - 1) =>
        Sector(d, Lba(s))[j] = <<"other">>
  BY DEF Sector
<1> HIDE DEF T
<1>3. machine.upper # 0 => Lba(s) \notin PartLba..(PartLba + T - 1)
  <2> DEFINE u == machine.upper
             l == Lba(s)
  <2>1. u \in Nat /\ T \in Nat /\ PartLba \in Nat /\ s \in Nat
    BY <1>1
  <2>2. l = PartLba + u * 65536 + s /\ T <= 65536
    BY ONLY <1>1, SMT DEF Lba, Countable
  <2> HIDE DEF u, l
  <2>3. u # 0 => l >= PartLba + T /\ l \in Nat
    BY ONLY <2>1, <2>2, SMT
  <2>4. u # 0 => ~(l <= PartLba + T - 1)
    BY ONLY <2>1, <2>3, SMT
  <2> QED
    BY ONLY <2>4, SMT DEF u, l
<1>4. machine.upper = 0 => Lba(s) = PartLba + s
  BY ONLY <1>1, SMT DEF Lba
<1> QED
  BY <1>2, <1>3, <1>4, AreaSector

\* A transfer stores its sectors one behind the other.
LEMMA TransferFacts ==
  ASSUME NEW d, NEW lba \in Nat, NEW n \in Nat
  PROVE  /\ DOMAIN Transfer(d, lba, n) = 1..(Span(n))
         /\ Span(n) \in Nat
         /\ \A s \in 0..(n - 1), j \in 1..SectorCells :
              /\ Span(s) + j \in 1..(Span(n))
              /\ Transfer(d, lba, n)[Span(s) + j] = Sector(d, lba + s)[j]
<1>1. SectorCells \in Nat /\ SectorCells > 0
  BY Layout
<1>2. Span(n) \in Nat
  BY <1>1, SpanNat
<1>3. ASSUME NEW s \in 0..(n - 1), NEW j \in 1..SectorCells
      PROVE  /\ Span(s) + j \in 1..(Span(n))
             /\ Transfer(d, lba, n)[Span(s) + j] = Sector(d, lba + s)[j]
  <2>1. Span(s) \in Nat /\ Span(s) + SectorCells <= Span(n)
    BY <1>1, SpanNat, SpanLess
  <2>2. Span(s) + j \in 1..(Span(n))
        /\ Span(s) + j - 1 = Span(s) + (j - 1)
    BY ONLY <1>1, <1>2, <2>1, j \in 1..SectorCells
  <2>3. (Span(s) + (j - 1)) \div SectorCells = s
        /\ (Span(s) + (j - 1)) % SectorCells = j - 1
    BY <1>1, SpanCell
  <2>4. (j - 1) + 1 = j
    OBVIOUS
  <2> DEFINE c == Span(s) + j
  <2>5. Transfer(d, lba, n)[c] = Sector(d, lba + (c - 1) \div SectorCells)[((c - 1) % SectorCells) + 1]
    BY <2>2 DEF Transfer
  <2>6. (c - 1) \div SectorCells = s /\ (c - 1) % SectorCells = j - 1
    <3> DEFINE x == Span(s)
    <3>1. x \in Nat
      BY <2>1
    <3>2. (x + (j - 1)) \div SectorCells = s /\ (x + (j - 1)) % SectorCells = j - 1
      BY <2>3
    <3>3. c = x + j
      OBVIOUS
    <3> HIDE DEF x, c
    <3>4. c - 1 = x + (j - 1)
      BY <3>1, <3>3
    <3> QED
      BY ONLY <3>2, <3>4
  <2> HIDE DEF c
  <2>7. Transfer(d, lba, n)[c] = Sector(d, lba + s)[j]
    BY ONLY <2>4, <2>5, <2>6
  <2> QED
    BY <2>2, <2>7 DEF c
<1> QED
  BY <1>2, <1>3 DEF Transfer

---------------------------------------------------------------------------
(* The steps. *)
LEMMA Fixed ==
  ASSUME UNCHANGED <<machine, image>>
  PROVE  /\ TheContainer' = TheContainer /\ TheModule' = TheModule
         /\ Warranted' = Warranted
         /\ ImageInv /\ gate' = gate => ImageInv'
<1>1. machine' = machine /\ image' = image
  OBVIOUS
<1>2. TheContainer' = TheContainer /\ TheModule' = TheModule
  BY <1>1 DEF TheContainer, TheModule
<1>3. Warranted' = Warranted
  BY <1>1 DEF Warranted
<1>4. ImageInv /\ gate' = gate => ImageInv'
  BY <1>1 DEF ImageInv, TheContainer
<1> QED
  BY <1>2, <1>3, <1>4

\* What lies in memory stays there as long as nothing is written.
LEMMA MemKept ==
  ASSUME UNCHANGED <<machine, image, mem>>
  PROVE  /\ Loaded /\ drive' = drive /\ di' = di => Loaded'
         /\ MapStored /\ bi'.n = bi.n => MapStored'
         /\ BlobStored /\ bi'.size = bi.size => BlobStored'
         /\ Decoded(Len(TheModule)) => Decoded(Len(TheModule))'
         /\ Decoded(edi) /\ edi' = edi => Decoded(edi)'
         /\ (KernelStored => KernelStored') /\ (BssStored => BssStored')
         /\ TablesStored => TablesStored'
<1>1. machine' = machine /\ image' = image /\ mem' = mem
  OBVIOUS
<1>2. TheContainer' = TheContainer /\ TheModule' = TheModule
  BY Fixed
<1>3. Loaded /\ drive' = drive /\ di' = di => Loaded'
  BY <1>1, SMT DEF Loaded, Sector, Lba
<1>4. MapStored /\ bi'.n = bi.n => MapStored'
  BY <1>1 DEF MapStored
<1>5. BlobStored /\ bi'.size = bi.size => BlobStored'
  BY <1>1, <1>2 DEF BlobStored
<1>6. /\ Decoded(Len(TheModule)) => Decoded(Len(TheModule))'
      /\ Decoded(edi) /\ edi' = edi => Decoded(edi)'
  BY <1>1, <1>2 DEF Decoded
<1>7. /\ (KernelStored => KernelStored') /\ (BssStored => BssStored')
      /\ TablesStored => TablesStored'
  BY <1>1 DEF KernelStored, BssStored, TablesStored
<1> QED
  BY <1>3, <1>4, <1>5, <1>6, <1>7

LEMMA StepStart ==
  ASSUME BootInv, Start
  PROVE  BootInv'
<1>1. /\ pc = "start" /\ pc' = "probe" /\ try' = 0 /\ di' = 0
      /\ drive' = (IF machine.booted >= 128 THEN machine.booted ELSE 128)
      /\ machine' = machine /\ image' = image /\ gate' = gate /\ mem' = mem /\ bi' = bi
      /\ esi' = esi /\ edi' = edi
  BY DEF Start, Go, Keep, decoder
<1>2. ImageInv /\ ImageInv'
  BY <1>1, Fixed DEF BootInv
<1>3. TypeOK'
  BY <1>1, <1>2, MachineType, ArgsFacts DEF BootInv, TypeOK, Ended
<1> QED
  BY <1>1, <1>2, <1>3 DEF BootInv, LoadInv, InfoInv, UnpackInv, KernelInv, AfterStage2, Verified, Accepted

LEMMA StepProbeHit ==
  ASSUME BootInv, ProbeHit
  PROVE  BootInv'
<1>1. /\ pc = "probe" /\ pc' = "read" /\ try' = try /\ di' = di /\ drive' = drive
      /\ machine' = machine /\ image' = image /\ gate' = gate /\ mem' = mem /\ bi' = bi
      /\ esi' = esi /\ edi' = edi
  BY DEF ProbeHit, Go, Keep, decoder
<1>2. ImageInv'
  BY <1>1, Fixed DEF BootInv
<1>3. TypeOK' /\ di = 0
  BY <1>1 DEF BootInv, TypeOK, Ended, LoadInv
<1>4. Loaded'
  BY <1>1, <1>3 DEF Loaded
<1> QED
  BY <1>1, <1>2, <1>3, <1>4 DEF BootInv, LoadInv, InfoInv, UnpackInv, KernelInv, AfterStage2, Verified, Accepted

LEMMA StepProbeMiss ==
  ASSUME BootInv, ProbeMiss
  PROVE  BootInv'
<1>1. /\ pc = "probe" /\ try' = try + 1 /\ di' = di
      /\ machine' = machine /\ image' = image /\ gate' = gate /\ mem' = mem /\ bi' = bi
      /\ esi' = esi /\ edi' = edi
      /\ \/ try' >= 4 /\ pc' = "read" /\ drive' = machine.booted
         \/ ~(try' >= 4) /\ pc' = "probe" /\ drive' = Candidates[try']
  BY DEF ProbeMiss, Go, Keep, decoder
<1>2. ImageInv /\ ImageInv' /\ di = 0 /\ try \in 0..3
  BY <1>1, Fixed DEF BootInv, LoadInv, TypeOK
<1>3. ~(try' >= 4) => Candidates[try'] \in 0..255
  <2>1. ~(try' >= 4) => try' = 1 \/ try' = 2 \/ try' = 3
    BY <1>1, <1>2
  <2>2. Candidates[1] = 128 /\ Candidates[2] = 232 /\ Candidates[3] = 240
    BY DEF Candidates
  <2> QED
    BY <2>1, <2>2
<1>4. TypeOK'
  <2>1. drive' \in 0..255
    <3>1. machine.booted \in 0..255
      BY <1>2, MachineType
    <3>2. \/ drive' = machine.booted
          \/ ~(try' >= 4) /\ drive' = Candidates[try']
      BY ONLY <1>1
    <3> QED
      BY ONLY <1>3, <3>1, <3>2
  <2>2. try' \in 0..4 /\ (pc' = "probe" \/ pc' = "read")
    BY ONLY <1>1, <1>2
  <2> QED
    BY <1>1, <2>1, <2>2 DEF BootInv, TypeOK, Ended
<1>5. Loaded'
  BY <1>1, <1>2 DEF Loaded
<1> QED
  BY <1>1, <1>2, <1>4, <1>5 DEF BootInv, LoadInv, InfoInv, UnpackInv, KernelInv, AfterStage2, Verified, Accepted

\* One transfer adds its sectors behind those loaded before and stays in the boot area.
LEMMA StepReadChunk ==
  ASSUME BootInv, ReadChunk
  PROVE  /\ BootInv'
         /\ \A a \in 0..MemTop : mem'[a] # mem[a] => a >= Stage2 /\ a < Blob + BlobMax
<1> DEFINE c == Chunk
           w == Transfer(drive, ChunkLba, c)
           at == Stage2 + Span(di)
<1>1. /\ pc = "read" /\ pc' = pc /\ try' = try /\ drive' = drive /\ di' = di + c
      /\ di < image.args.total /\ Reads(drive, ChunkLba + 0)
      /\ machine' = machine /\ image' = image /\ gate' = gate /\ bi' = bi
      /\ esi' = esi /\ edi' = edi
      /\ Write(at, w)
  <2>1. ImageInv /\ di \in Nat /\ image.args.total \in Nat /\ di < image.args.total
    BY ArgsFacts DEF BootInv, TypeOK, ReadChunk
  <2>2. ChunkMax \in Nat /\ ChunkMax > 0
    BY SizesAssumption
  <2>3. 0 \in 0..(c - 1)
    BY ONLY <2>1, <2>2 DEF Chunk
  <2> QED
    BY <2>3 DEF ReadChunk, Go, Keep, decoder
<1>2. ImageInv /\ ImageInv' /\ gate = TRUE /\ DOMAIN mem = 0..MemTop /\ di \in Nat /\ Loaded
  BY <1>1, Fixed, ArgsFacts DEF BootInv, LoadInv, TypeOK, ImageInv
<1>3. /\ image.args.total \in Nat /\ SectorCells \in Nat /\ SectorCells > 0 /\ ChunkMax \in Nat
      /\ ChunkMax > 0 /\ Stage2 \in Nat /\ MemTop \in Nat /\ Blob \in Nat /\ BlobMax \in Nat
      /\ PartLba \in Nat /\ machine.upper \in Nat
      /\ Blob + BlobMax <= MemTop
      /\ Stage2 + Span(image.args.total) <= Blob + BlobMax
      /\ Span(image.args.total) \in Nat
  <2>1. /\ image.args.total \in Nat /\ Span(image.args.total) \in Nat
        /\ Stage2 + Span(image.args.total) = Blob + Span(TheSectors)
    BY <1>2, ArgsFacts
  <2>2. Span(TheSectors) \in Nat /\ Span(TheSectors) <= BlobMax
    BY <1>2, PadFacts
  <2>3. machine.upper \in Nat
    BY <1>2, MachineType
  <2>4. /\ SectorCells \in Nat /\ SectorCells > 0 /\ ChunkMax \in Nat
        /\ ChunkMax > 0 /\ Stage2 \in Nat /\ MemTop \in Nat /\ Blob \in Nat /\ BlobMax \in Nat
        /\ PartLba \in Nat /\ Blob + BlobMax <= MemTop
    BY Layout
  <2> QED
    BY ONLY <2>1, <2>2, <2>3, <2>4
<1>4. c \in Nat /\ c > 0 /\ di + c <= image.args.total
  <2>1. di \in Nat /\ image.args.total \in Nat /\ di < image.args.total /\ ChunkMax \in Nat
        /\ ChunkMax > 0
    BY <1>1, <1>2, <1>3
  <2> QED
    BY ONLY <2>1 DEF Chunk
<1> HIDE DEF c
<1>5. ChunkLba \in Nat /\ \A s \in 0..(c - 1) : ChunkLba + s = Lba(di + s)
  <2>1. PartLba \in Nat /\ machine.upper \in Nat /\ di \in Nat /\ c \in Nat
    BY <1>2, <1>3, <1>4
  <2> QED
    BY ONLY <2>1, SMT DEF ChunkLba, Lba
<1>6. /\ DOMAIN w = 1..(Span(c)) /\ Span(c) \in Nat
      /\ \A s \in 0..(c - 1), j \in 1..SectorCells :
           /\ Span(s) + j \in 1..(Span(c))
           /\ w[Span(s) + j] = Sector(drive, ChunkLba + s)[j]
  <2>1. c \in Nat /\ ChunkLba \in Nat
    BY <1>4, <1>5
  <2> QED
    BY ONLY <2>1, TransferFacts
<1>7. /\ Span(di) \in Nat /\ Span(di + c) = Span(di) + Span(c)
      /\ Span(di + c) <= Span(image.args.total)
  <2>1. di \in Nat /\ c \in Nat /\ SectorCells \in Nat /\ di + c \in Nat
        /\ image.args.total \in Nat /\ di + c <= image.args.total
    BY ONLY <1>2, <1>3, <1>4
  <2>2. Span(di) \in Nat /\ Span(di + c) = Span(di) + Span(c)
    BY ONLY <2>1, SpanFacts, Zenon
  <2>3. Span(di + c) <= Span(image.args.total)
    BY ONLY <2>1, SpanLess
  <2> QED
    BY <2>2, <2>3
<1>8. at \in Nat /\ at >= Stage2 /\ at + Span(c) <= Blob + BlobMax
  <2> DEFINE x == Span(di)
             y == Span(c)
             z == Span(di + c)
             t == Span(image.args.total)
  <2>1. x \in Nat /\ z = x + y /\ z <= t
    BY <1>7
  <2>2. y \in Nat
    BY <1>6
  <2>3. t \in Nat /\ Stage2 \in Nat /\ Blob \in Nat /\ BlobMax \in Nat /\ Stage2 + t <= Blob + BlobMax
    BY <1>3
  <2>4. at = Stage2 + x
    OBVIOUS
  <2> HIDE DEF x, y, z, t, at
  <2>5. at \in Nat /\ at >= Stage2 /\ at + y <= Blob + BlobMax
    BY ONLY <2>1, <2>2, <2>3, <2>4
  <2> QED
    BY <2>5 DEF y
<1> HIDE DEF w, at
<1>9. /\ DOMAIN mem' = 0..MemTop
      /\ \A i \in 1..(Span(c)) : at + i - 1 <= MemTop => mem'[at + i - 1] = w[i]
      /\ \A b \in 0..MemTop : b < at \/ b >= at + Span(c) => mem'[b] = mem[b]
  BY <1>1, <1>2, <1>6, <1>8, WriteOpen
<1>10. \A a \in 0..MemTop : mem'[a] # mem[a] => a >= Stage2 /\ a < Blob + BlobMax
  <2> SUFFICES ASSUME NEW a \in 0..MemTop, mem'[a] # mem[a]
               PROVE  a >= Stage2 /\ a < Blob + BlobMax
    OBVIOUS
  <2>1. ~(a < at \/ a >= at + Span(c))
    BY <1>9
  <2> QED
    BY ONLY <1>3, <1>6, <1>8, <2>1, a \in 0..MemTop
<1>11. Loaded'
  <2>A. ASSUME NEW s, NEW j
        PROVE  (Sector(drive, Lba(s))[j])'
                 = Sector(drive, Lba(s))[j]
    BY <1>1 DEF Sector, Lba
  <2> SUFFICES ASSUME NEW s \in 0..(di' - 1), NEW j \in 1..SectorCells
               PROVE  mem'[Stage2 + Span(s) + j - 1] = Sector(drive, Lba(s))[j]
    BY <1>1, <2>A DEF Loaded
  <2> DEFINE b == Stage2 + Span(s) + j - 1
  <2>0. s \in Nat /\ s <= di + (c - 1) /\ Span(s) \in Nat
    <3>1. s \in Nat /\ s <= di + (c - 1)
      BY ONLY <1>1, <1>2, <1>4, s \in 0..(di' - 1)
    <3> QED
      BY <3>1, SpanNat
  <2>1. CASE s < di
    <3>1. Span(s) + SectorCells <= Span(di)
      BY <1>2, <2>0, <2>1, SpanLess
    <3>2. b \in 0..MemTop /\ b < at
      <4> DEFINE x == Span(s)
                 y == Span(di)
      <4>1. x \in Nat /\ y \in Nat /\ x + SectorCells <= y /\ b = Stage2 + x + j - 1
            /\ at = Stage2 + y /\ Stage2 \in Nat /\ SectorCells \in Nat /\ at <= MemTop
            /\ MemTop \in Nat
        BY <1>3, <1>6, <1>7, <1>8, <2>0, <3>1, SMTT(30) DEF at
      <4> HIDE DEF x, y, b, at
      <4> QED
        BY ONLY <4>1, j \in 1..SectorCells
    <3>3. mem[b] = Sector(drive, Lba(s))[j]
      BY <1>2, <2>0, <2>1 DEF Loaded
    <3> QED
      BY <1>9, <3>2, <3>3
  <2>2. CASE s >= di
    <3> DEFINE e == s - di
               i == Span(e) + j
    <3>1. e \in 0..(c - 1) /\ s = di + e
      BY ONLY <1>2, <1>4, <2>0, <2>2
    <3>2. Span(s) = Span(di) + Span(e) /\ Span(e) \in Nat
      <4>1. e \in Nat /\ di \in Nat
        BY <1>2, <1>4, <3>1
      <4> HIDE DEF e
      <4>2. Span(di + e) = Span(di) + Span(e) /\ Span(e) \in Nat
        BY ONLY <4>1, SpanFacts, Zenon
      <4> QED
        BY ONLY <3>1, <4>2
    <3>3. i \in 1..(Span(c)) /\ w[i] = Sector(drive, ChunkLba + e)[j]
      BY <1>6, <3>1
    <3>4. ChunkLba + e = Lba(s)
      BY <1>5, <3>1
    <3>5. b = at + i - 1
      <4> DEFINE x == Span(di)
                 y == Span(e)
                 z == Span(s)
      <4>1. x \in Nat /\ y \in Nat /\ z = x + y /\ i = y + j /\ b = Stage2 + z + j - 1
            /\ at = Stage2 + x /\ Stage2 \in Nat /\ j \in Nat
        BY <1>3, <1>7, <3>2 DEF at
      <4> HIDE DEF x, y, z, i, b, e
      <4> QED
        BY ONLY <4>1
    <3> HIDE DEF i, b, e
    <3>6. at + i - 1 <= MemTop
      BY ONLY <1>3, <1>6, <1>8, <3>3
    <3>7. mem'[b] = w[i]
      BY ONLY <1>9, <3>3, <3>5, <3>6
    <3> QED
      BY <3>3, <3>4, <3>7 DEF b
  <2> QED
    BY <1>2, <2>0, <2>1, <2>2
<1>12. machine.drives[drive].packet
  BY <1>1 DEF Reads
<1>13. TypeOK'
  <2>1. di' \in 0..image.args.total
    BY ONLY <1>1, <1>2, <1>3, <1>4
  <2> QED
    BY <1>1, <1>9, <2>1 DEF BootInv, TypeOK
<1> QED
  BY <1>1, <1>2, <1>10, <1>11, <1>12, <1>13
     DEF BootInv, LoadInv, InfoInv, UnpackInv, KernelInv, AfterStage2, Verified, Accepted

LEMMA StepReadFails ==
  ASSUME BootInv, ReadFails
  PROVE  BootInv'
<1>1. /\ pc = "read" /\ pc' = "diskError" /\ try' = try /\ di' = di /\ drive' = drive
      /\ machine' = machine /\ image' = image /\ gate' = gate /\ mem' = mem /\ bi' = bi
      /\ esi' = esi /\ edi' = edi /\ di < image.args.total
  BY DEF ReadFails, Go, Keep, decoder
<1>2. ImageInv /\ ImageInv' /\ TypeOK' /\ di \in Nat
  BY <1>1, Fixed, ArgsFacts DEF BootInv, TypeOK, Ended
<1>3. PICK s \in 0..(Chunk - 1) : ~Reads(drive, ChunkLba + s)
  BY DEF ReadFails
<1>4. ASSUME machine.upper = 0
      PROVE  \E t \in 0..(image.args.total - 1) : ~Reads(drive, PartLba + t)
  <2>1. image.args.total \in Nat /\ ChunkMax \in Nat /\ PartLba \in Nat
    BY <1>2, ArgsFacts, Layout
  <2>2. di + s \in 0..(image.args.total - 1) /\ ChunkLba + s = PartLba + (di + s)
    BY ONLY <1>1, <1>2, <1>4, <2>1, s \in 0..(Chunk - 1), SMT DEF Chunk, ChunkLba, Lba
  <2> QED
    BY <1>3, <2>2
<1>5. (machine.upper # 0 \/ \E t \in 0..(image.args.total - 1) : ~Reads(drive, PartLba + t))'
  BY <1>1, <1>4 DEF Reads, Answers
<1> QED
  BY <1>1, <1>2, <1>5
     DEF BootInv, LoadInv, InfoInv, UnpackInv, KernelInv, AfterStage2, Verified, Accepted

\* The jump to stage 2 succeeds only from the booted drive and with the right sector number.
LEMMA StepGoStage2 ==
  ASSUME BootInv, GoStage2
  PROVE  BootInv'
<1>1. /\ pc = "read" /\ try' = try /\ di' = di /\ drive' = drive
      /\ machine' = machine /\ image' = image /\ gate' = gate /\ mem' = mem /\ bi' = bi
      /\ esi' = esi /\ edi' = edi /\ di >= image.args.total
      /\ pc' = (IF \A i \in 1..(Blob - Stage2) : Read(Stage2, Blob - Stage2)[i] = Code
                THEN "stage2" ELSE "lost")
  BY DEF GoStage2, Go, Keep, decoder
<1>2. ImageInv /\ ImageInv' /\ TypeOK /\ TypeOK' /\ Loaded /\ gate = TRUE
  BY <1>1, Fixed, ArgsFacts DEF BootInv, TypeOK, Ended, LoadInv, ImageInv
<1>3. di = image.args.total /\ di \in Nat /\ di > 0
  BY <1>1, <1>2, ArgsFacts DEF TypeOK
<1>4. machine.drives[drive].packet
  BY <1>1, <1>3 DEF BootInv, LoadInv
<1>5. /\ SectorCells \in Nat /\ SectorCells > 0 /\ Stage2Sectors \in Nat /\ Stage2Sectors > 0
      /\ Stage2 \in Nat /\ Blob \in Nat /\ Blob = Stage2 + Span(Stage2Sectors)
      /\ Span(Stage2Sectors) \in Nat /\ PartLba \in Nat
      /\ di = Stage2Sectors + TheSectors /\ TheSectors \in Nat
  BY <1>2, <1>3, Layout, ArgsFacts, PadFacts
<1>6. \A s \in 0..(di - 1), j \in 1..SectorCells :
        mem[Stage2 + Span(s) + j - 1] = Sector(drive, Lba(s))[j]
  BY <1>2 DEF Loaded
<1>7. \A i \in 1..(Blob - Stage2) : Read(Stage2, Blob - Stage2)[i] = mem[Stage2 + i - 1]
  <2>1. Read(Stage2, Blob - Stage2) = [i \in 1..(Blob - Stage2) |-> mem[Stage2 + i - 1]]
    BY <1>2, ReadOpen
  <2> QED
    BY ONLY <2>1
<1>8. ASSUME pc' = "stage2"
      PROVE  drive = machine.booted /\ machine.upper = 0
  <2>1. mem[Stage2 + 1 - 1] = Code
    <3>1. Span(Stage2Sectors) > 0
      <4>1. Span(0) \in Nat /\ Span(0) + SectorCells <= Span(Stage2Sectors)
        BY <1>5, SpanNat, SpanLess
      <4> QED
        BY ONLY <1>5, <4>1
    <3>2. 1 \in 1..(Blob - Stage2)
      BY <1>5, <3>1
    <3> QED
      BY <1>1, <1>7, <1>8, <3>2
  <2>2. mem[Stage2 + Span(0) + 1 - 1] = Sector(drive, Lba(0))[1]
    BY <1>3, <1>5, <1>6
  <2>3. Stage2 + Span(0) + 1 - 1 = Stage2 + 1 - 1
    BY <1>5 DEF Span
  <2>4. Code # <<"other">>
    BY DEF Code
  <2> QED
    BY <1>2, <1>3, <1>5, <2>1, <2>2, <2>3, <2>4, SectorFacts
<1>9. ASSUME drive = machine.booted, machine.upper = 0
      PROVE  pc' = "stage2"
  <2> SUFFICES ASSUME NEW i \in 1..(Blob - Stage2)
               PROVE  mem[Stage2 + i - 1] = Code
    BY <1>1, <1>7
  <2>1. i - 1 \in Nat /\ i - 1 < Span(Stage2Sectors)
    BY <1>5
  <2>2. PICK s \in 0..(Stage2Sectors - 1), r \in 0..(SectorCells - 1) : i - 1 = Span(s) + r
    <3> DEFINE k == i - 1
    <3>1. k \in Nat /\ k < Span(Stage2Sectors)
      BY <2>1
    <3> HIDE DEF k
    <3>2. \E s \in 0..(Stage2Sectors - 1), r \in 0..(SectorCells - 1) : k = Span(s) + r
      BY ONLY <1>5, <3>1, CellSpan, Zenon
    <3> QED
      BY ONLY <3>2 DEF k
  <2>3. s \in 0..(di - 1) /\ r + 1 \in 1..SectorCells /\ s \in 0..(image.args.total - 1)
    BY <1>3, <1>5
  <2>4. Span(s) \in Nat
    BY SpanNat
  <2>5. Stage2 + i - 1 = Stage2 + Span(s) + (r + 1) - 1
    BY ONLY <1>5, <2>1, <2>2, <2>4, r \in 0..(SectorCells - 1), i \in 1..(Blob - Stage2)
  <2>6. mem[Stage2 + i - 1] = Sector(drive, Lba(s))[r + 1]
    BY <1>6, <2>3, <2>5
  <2>7. PartLba + s # image.damaged /\ s < Stage2Sectors
    BY <1>2, <1>5, ArgsFacts, Layout DEF ImageInv
  <2> QED
    BY <1>2, <1>9, <2>3, <2>6, <2>7, SectorFacts
<1>10. pc' = "stage2" => Loaded'
  BY <1>1, <1>2, MemKept
<1> QED
  BY <1>1, <1>2, <1>3, <1>4, <1>8, <1>9, <1>10
     DEF BootInv, LoadInv, InfoInv, UnpackInv, KernelInv, AfterStage2, Verified, Accepted

---------------------------------------------------------------------------
(* Stage 2 in real mode. *)
\* A stop with a code that the machine or the image calls for.
LEMMA StepFail ==
  ASSUME BootInv, NEW code \in 1..31, code \in Warranted, pc \in AfterStage2,
         pc' = "halted", bi' = [bi EXCEPT !.err = code],
         UNCHANGED <<machine, image, drive, try, di, gate, mem, esi, edi>>
  PROVE  BootInv'
<1>1. ImageInv' /\ Warranted' = Warranted
  BY Fixed DEF BootInv
<1>2. bi'.err = code
  BY DEF BootInv, InfoInv, BiFields
<1>3. TypeOK'
  BY <1>2 DEF BootInv, TypeOK, Ended
<1>4. bi'.err # 0 /\ bi'.err \in Warranted'
  BY <1>1, <1>2
<1> QED
  BY <1>1, <1>3, <1>4
     DEF BootInv, LoadInv, InfoInv, UnpackInv, KernelInv, AfterStage2, Verified, Accepted

\* With the gate open the test of the gate answers that it is.
LEMMA StepA20 ==
  ASSUME BootInv, A20
  PROVE  BootInv'
<1>1. /\ pc = "stage2" /\ pc' = "cpu" /\ try' = try /\ di' = di /\ drive' = drive
      /\ machine' = machine /\ image' = image /\ mem' = mem /\ esi' = esi /\ edi' = edi
      /\ gate' = (IF SameByte(gate) THEN machine.port92 ELSE gate)
      /\ bi' = [Fresh EXCEPT !.a20 = IF SameByte(gate') THEN 0 ELSE 1]
  BY DEF A20, Go, Keep, decoder
<1>2. ImageInv /\ gate = TRUE /\ Loaded
  BY <1>1 DEF BootInv, ImageInv, LoadInv
<1>3. ~SameByte(gate)
  BY ONLY <1>2, SMT DEF SameByte
<1>4. gate' = gate
  BY ONLY <1>1, <1>3
<1>5. ImageInv'
  BY <1>1, <1>2, <1>4, Fixed
<1>6. /\ DOMAIN bi' = BiFields /\ bi'.drive = drive /\ bi'.crc = image.args.crc /\ bi'.err = 0
      /\ bi'.n = 0 /\ bi'.size = Span(image.args.total) - (Blob - Stage2)
  BY <1>1 DEF Fresh, BiFields
<1>7. Span(image.args.total) - (Blob - Stage2) = Span(Sectors(TheContainer))
  <2>1. Stage2 + Span(image.args.total) = Blob + Span(TheSectors) /\ Span(image.args.total) \in Nat
        /\ Span(TheSectors) \in Nat
    BY <1>2, ArgsFacts, PadFacts
  <2>2. Stage2 \in Nat /\ Blob \in Nat
    BY Layout
  <2>3. Span(image.args.total) - (Blob - Stage2) = Span(TheSectors)
    BY ONLY <2>1, <2>2
  <2> QED
    BY <2>3 DEF TheSectors
<1>8. TheContainer' = TheContainer
  BY <1>1, Fixed
<1>9. TypeOK'
  BY <1>1, <1>4, <1>6 DEF BootInv, TypeOK, Ended
<1>10. Loaded'
  BY <1>1, <1>2, MemKept
<1> QED
  BY <1>1, <1>5, <1>6, <1>7, <1>8, <1>9, <1>10
     DEF BootInv, LoadInv, InfoInv, UnpackInv, KernelInv, AfterStage2, Verified, Accepted

LEMMA StepCpuOk ==
  ASSUME BootInv, CpuOk
  PROVE  BootInv'
<1>1. /\ pc = "cpu" /\ pc' = "e820" /\ try' = try /\ di' = di /\ drive' = drive
      /\ machine' = machine /\ image' = image /\ mem' = mem /\ esi' = esi /\ edi' = edi
      /\ gate' = gate /\ bi' = [bi EXCEPT !.long = 1]
  BY DEF CpuOk, Go, Keep, decoder
<1>2. ImageInv' /\ Loaded' /\ TheContainer' = TheContainer
  BY <1>1, Fixed, MemKept DEF BootInv, LoadInv
<1>3. /\ DOMAIN bi' = BiFields /\ bi'.drive = bi.drive /\ bi'.crc = bi.crc /\ bi'.err = bi.err
      /\ bi'.size = bi.size /\ bi'.n = 0
  BY <1>1 DEF BootInv, InfoInv, AfterStage2, BiFields
<1>4. TypeOK'
  BY <1>1, <1>3 DEF BootInv, TypeOK, Ended
<1>5. MapStored' /\ bi'.n \in 0..E820Max /\ bi'.n <= Len(machine.map)
  BY <1>3, Layout, MachineType DEF MapStored, BootInv
<1> QED
  BY <1>1, <1>2, <1>3, <1>4, <1>5
     DEF BootInv, LoadInv, InfoInv, UnpackInv, KernelInv, AfterStage2, Verified, Accepted

LEMMA StepCpuFails ==
  ASSUME BootInv, CpuFails
  PROVE  BootInv'
<1> DEFINE code == IF machine.flips THEN 18 ELSE 19
<1>1. /\ pc = "cpu" /\ pc' = "halted" /\ bi' = [bi EXCEPT !.err = code]
      /\ ~(machine.flips /\ machine.long)
      /\ UNCHANGED <<machine, image, drive, try, di, gate, mem, esi, edi>>
  BY DEF CpuFails, Fail, Go, Keep, decoder
<1>2. code \in 1..31 /\ code \in Warranted
  BY <1>1 DEF Warranted
<1> HIDE DEF code
<1> QED
  BY <1>1, <1>2, StepFail DEF AfterStage2

\* The boot area survives a step that writes above it.
LEMMA LoadedBelow ==
  ASSUME ImageInv, Loaded, di = image.args.total,
         UNCHANGED <<machine, image, drive, di>>,
         \A b \in 0..MemTop : b < E820Buf => mem'[b] = mem[b]
  PROVE  Loaded'
<1>A. ASSUME NEW s, NEW j
      PROVE  (Sector(drive, Lba(s))[j])' = Sector(drive, Lba(s))[j]
  BY SMT DEF Sector, Lba
<1> SUFFICES ASSUME NEW s \in 0..(di - 1), NEW j \in 1..SectorCells
             PROVE  mem'[Stage2 + Span(s) + j - 1] = Sector(drive, Lba(s))[j]
  BY <1>A DEF Loaded
<1> DEFINE T == image.args.total
           x == Span(s)
           y == Span(T)
           z == Span(TheSectors)
           b == Stage2 + x + j - 1
<1>1. T \in Nat /\ y \in Nat /\ Stage2 + y = Blob + z
  BY ArgsFacts
<1>2. z \in Nat /\ z <= BlobMax
  BY PadFacts
<1>3. /\ Stage2 \in Nat /\ Blob \in Nat /\ BlobMax \in Nat /\ E820Buf \in Nat
      /\ SectorCells \in Nat /\ MemTop \in Nat
      /\ Blob + BlobMax <= E820Buf /\ E820Buf <= MemTop
  BY Layout
<1>4. s \in Nat /\ s < T
  BY <1>1
<1>5. x \in Nat /\ x + SectorCells <= y
  BY <1>1, <1>4, SpanNat, SpanLess
<1>6. mem[b] = Sector(drive, Lba(s))[j]
  BY DEF Loaded
<1> HIDE DEF T, x, y, z
<1>7. b \in 0..MemTop /\ b < E820Buf
  BY ONLY <1>1, <1>2, <1>3, <1>5, j \in 1..SectorCells
<1> QED
  BY <1>6, <1>7 DEF x

\* The map grows by the firmware's next entry.
LEMMA StepE820Next ==
  ASSUME BootInv, E820Next
  PROVE  /\ BootInv'
         /\ \A a \in 0..MemTop : mem'[a] # mem[a] => a >= E820Buf /\ a < E820Buf + E820Max
<1> DEFINE m == <<"e820", machine.map[bi.n + 1]>>
           w == <<m>>
           at == E820Buf + bi.n
<1>1. /\ pc = "e820" /\ try' = try /\ di' = di /\ drive' = drive
      /\ machine' = machine /\ image' = image /\ esi' = esi /\ edi' = edi
      /\ gate' = gate /\ bi' = [bi EXCEPT !.n = bi.n + 1]
      /\ bi.n < E820Max /\ bi.n < Len(machine.map) /\ Write(at, w)
      /\ pc' = (IF bi'.n = Len(machine.map) /\ ~machine.refuses THEN "protected" ELSE "e820")
  BY DEF E820Next, Go, Keep, decoder
<1>2. /\ ImageInv /\ ImageInv' /\ Loaded /\ TheContainer' = TheContainer /\ gate = TRUE
      /\ DOMAIN mem = 0..MemTop /\ bi.n \in Nat /\ MapStored /\ di = image.args.total
  BY <1>1, Fixed DEF BootInv, LoadInv, InfoInv, TypeOK, ImageInv, AfterStage2
<1>3. /\ DOMAIN bi' = BiFields /\ bi'.drive = bi.drive /\ bi'.crc = bi.crc /\ bi'.err = bi.err
      /\ bi'.size = bi.size /\ bi'.n = bi.n + 1
  BY <1>1 DEF BootInv, InfoInv, AfterStage2, BiFields
<1>4. E820Max \in Nat /\ E820Buf \in Nat /\ MemTop \in Nat /\ E820Buf + E820Max <= MemTop
  BY Layout
<1>5. Len(machine.map) \in Nat
  BY <1>2, MachineType
<1>6. at \in Nat /\ DOMAIN w = 1..1 /\ w[1] = m /\ 1 \in Nat
  BY <1>2, <1>4
<1> HIDE DEF w, at, m
<1>7. /\ DOMAIN mem' = 0..MemTop
      /\ \A i \in 1..1 : at + i - 1 <= MemTop => mem'[at + i - 1] = w[i]
      /\ \A b \in 0..MemTop : b < at \/ b >= at + 1 => mem'[b] = mem[b]
  BY <1>1, <1>2, <1>6, WriteOpen
<1>8. at = E820Buf + bi.n /\ at <= MemTop
  BY <1>1, <1>2, <1>4 DEF at
<1>9. mem'[at] = m
  <2>1. 1 \in 1..1 /\ at + 1 - 1 = at
    BY <1>6
  <2> QED
    BY ONLY <1>6, <1>7, <1>8, <2>1
<1>10. \A a \in 0..MemTop : mem'[a] # mem[a] => a >= E820Buf /\ a < E820Buf + E820Max
  <2> SUFFICES ASSUME NEW a \in 0..MemTop, mem'[a] # mem[a]
               PROVE  a >= E820Buf /\ a < E820Buf + E820Max
    OBVIOUS
  <2>1. ~(a < at \/ a >= at + 1)
    BY <1>7
  <2> QED
    BY <1>1, <1>2, <1>4, <1>8, <2>1
<1>11. Loaded'
  <2>1. \A b \in 0..MemTop : b < E820Buf => mem'[b] = mem[b]
    BY <1>2, <1>4, <1>7, <1>8
  <2> QED
    BY <1>1, <1>2, <2>1, LoadedBelow
<1>12. MapStored'
  <2> SUFFICES ASSUME NEW i \in 1..(bi.n + 1)
               PROVE  mem'[E820Buf + i - 1] = <<"e820", machine.map[i]>>
    BY <1>1, <1>3 DEF MapStored
  <2>1. CASE i = bi.n + 1
    <3>1. E820Buf + i - 1 = at
      BY <1>2, <1>4, <1>8, <2>1
    <3> QED
      BY <1>9, <2>1, <3>1 DEF m
  <2>2. CASE i # bi.n + 1
    <3>1. i \in 1..bi.n /\ E820Buf + i - 1 \in 0..MemTop /\ E820Buf + i - 1 < at
      BY <1>2, <1>4, <1>8, <2>2
    <3> QED
      BY <1>2, <1>7, <3>1 DEF MapStored
  <2> QED
    BY <2>1, <2>2
<1>13. bi'.n \in 0..E820Max /\ bi'.n <= Len(machine.map) /\ bi'.n > 0
  BY <1>1, <1>2, <1>3, <1>4, <1>5
<1>14. TypeOK' /\ (pc' = "protected" \/ pc' = "e820")
  BY <1>1, <1>3, <1>7 DEF BootInv, TypeOK, Ended
<1> QED
  BY <1>1, <1>2, <1>3, <1>10, <1>11, <1>12, <1>13, <1>14
     DEF BootInv, LoadInv, InfoInv, UnpackInv, KernelInv, AfterStage2, Verified, Accepted

LEMMA StepE820Check ==
  ASSUME BootInv, E820Check
  PROVE  BootInv'
<1>1. /\ pc = "e820" /\ (bi.n = E820Max \/ bi.n = Len(machine.map))
      /\ UNCHANGED <<machine, image, drive, try, di, gate, mem, esi, edi>>
      /\ IF bi.n = 0 THEN pc' = "halted" /\ bi' = [bi EXCEPT !.err = 20]
                     ELSE pc' = "protected" /\ bi' = bi
  BY DEF E820Check, Fail, Go, Keep, decoder
<1>2. ImageInv /\ bi.n \in Nat /\ MapStored /\ Loaded
  BY <1>1 DEF BootInv, LoadInv, InfoInv
<1>3. CASE bi.n = 0
  <2>1. Len(machine.map) = 0 /\ machine.map = << >>
    <3>1. E820Max > 0
      BY Layout
    <3>2. bi.n = Len(machine.map)
      BY <1>1, <1>3, <3>1
    <3>3. machine.map = << >>
      BY <1>2, <1>3, <3>2, MachineType
    <3> QED
      BY <1>3, <3>2, <3>3
  <2>2. 20 \in Warranted
    BY <2>1 DEF Warranted
  <2> QED
    BY <1>1, <1>3, <2>2, StepFail DEF AfterStage2
<1>4. CASE bi.n # 0
  <2>1. /\ pc' = "protected" /\ bi' = bi
    BY <1>1, <1>4
  <2>2. ImageInv' /\ Loaded' /\ MapStored' /\ TheContainer' = TheContainer
    BY <1>1, <1>2, <2>1, Fixed, MemKept
  <2>3. TypeOK' /\ bi.n > 0
    BY <1>1, <1>2, <1>4, <2>1 DEF BootInv, TypeOK, Ended
  <2> QED
    BY <1>1, <2>1, <2>2, <2>3
       DEF BootInv, LoadInv, InfoInv, UnpackInv, KernelInv, AfterStage2, Verified, Accepted
<1> QED
  BY <1>3, <1>4

---------------------------------------------------------------------------
(* Stage 2 in protected mode. *)
\* A function that agrees with the beginning of another is a prefix of it.
LEMMA PrefixOf ==
  ASSUME NEW n \in Nat, NEW t, Len(t) \in Nat, n <= Len(t)
  PROVE  IsPrefix([i \in 1..n |-> t[i]], t)
<1> DEFINE s == [i \in 1..n |-> t[i]]
           S == {t[i] : i \in 1..n}
<1>1. \A i \in 1..n : t[i] \in S /\ s[i] = t[i]
  OBVIOUS
<1>2. Len(s) = n
  OBVIOUS
<1> HIDE DEF s, S
<1>3. /\ SubSeq(s, 1, n) \in Seq(S) /\ Len(SubSeq(s, 1, n)) = n
      /\ \A i \in 1..n : SubSeq(s, 1, n)[i] = s[i]
  <2>1. /\ SubSeq(s, 1, n) \in Seq(S)
        /\ Len(SubSeq(s, 1, n)) = (IF 1 <= n THEN n - 1 + 1 ELSE 0)
        /\ \A i \in 1..(n - 1 + 1) : SubSeq(s, 1, n)[i] = s[1 + i - 1]
    BY <1>1, SubSeqProperties
  <2> QED
    BY <2>1
<1>4. /\ SubSeq(t, 1, n) \in Seq(S) /\ Len(SubSeq(t, 1, n)) = n
      /\ \A i \in 1..n : SubSeq(t, 1, n)[i] = t[i]
  <2>1. /\ SubSeq(t, 1, n) \in Seq(S)
        /\ Len(SubSeq(t, 1, n)) = (IF 1 <= n THEN n - 1 + 1 ELSE 0)
        /\ \A i \in 1..(n - 1 + 1) : SubSeq(t, 1, n)[i] = t[1 + i - 1]
    BY <1>1, SubSeqProperties
  <2> QED
    BY <2>1
<1>5. SubSeq(s, 1, n) = SubSeq(t, 1, n)
  BY <1>1, <1>3, <1>4, SeqEqual
<1> QED
  BY <1>2, <1>5 DEF IsPrefix, s

LEMMA StepProtected ==
  ASSUME BootInv, Protected
  PROVE  BootInv'
<1> DEFINE map == [i \in 1..bi.n |-> mem[Phys(E820Buf + i - 1)][2]]
<1>1. /\ pc = "protected" /\ pc' = "adler" /\ try' = try /\ di' = di /\ drive' = drive
      /\ machine' = machine /\ image' = image /\ mem' = mem /\ esi' = esi /\ edi' = edi
      /\ gate' = gate /\ bi' = [bi EXCEPT !.e820 = map, !.ram = RamTotal(map)]
  BY DEF Protected, Go, Keep, decoder
<1>2. /\ ImageInv /\ ImageInv' /\ Loaded' /\ TheContainer' = TheContainer /\ MapStored
      /\ bi.n \in Nat /\ bi.n > 0 /\ bi.n <= Len(machine.map)
  BY <1>1, Fixed, MemKept DEF BootInv, LoadInv, InfoInv
<1>3. map = [i \in 1..bi.n |-> machine.map[i]]
  <2>1. \A x : Phys(x) = x
    BY <1>2, ReadOpen DEF ImageInv
  <2>2. map = [i \in 1..bi.n |-> mem[E820Buf + i - 1][2]]
    BY ONLY <2>1
  <2>3. \A i \in 1..bi.n : mem[E820Buf + i - 1][2] = machine.map[i]
    BY <1>2 DEF MapStored
  <2> QED
    BY ONLY <2>2, <2>3
<1>4. map # << >> /\ IsPrefix(map, machine.map)
  <2>1. Len(machine.map) \in Nat
    BY <1>2, MachineType
  <2>2. IsPrefix([i \in 1..bi.n |-> machine.map[i]], machine.map)
    BY ONLY <1>2, <2>1, PrefixOf
  <2>3. [i \in 1..bi.n |-> machine.map[i]] # << >>
    <3>1. 1 \in DOMAIN [i \in 1..bi.n |-> machine.map[i]] /\ 1 \notin DOMAIN << >>
      BY <1>2
    <3> QED
      BY <3>1
  <2> QED
    BY <1>3, <2>2, <2>3
<1> HIDE DEF map
<1>5. /\ DOMAIN bi' = BiFields /\ bi'.drive = bi.drive /\ bi'.crc = bi.crc /\ bi'.err = bi.err
      /\ bi'.size = bi.size /\ bi'.e820 = map
  BY <1>1 DEF BootInv, InfoInv, AfterStage2, BiFields
<1>6. TypeOK'
  BY <1>1, <1>5 DEF BootInv, TypeOK, Ended
<1> QED
  BY <1>1, <1>2, <1>4, <1>5, <1>6
     DEF BootInv, LoadInv, InfoInv, UnpackInv, KernelInv, AfterStage2, Verified, Accepted

\* A copy of the blob region of the boot area is the builder's blob exactly when no
\* sector of it is damaged.
HoldsArea(g) ==
  /\ g = [i \in 1..Span(TheSectors) |-> g[i]]
  /\ \A e \in 0..(TheSectors - 1), j \in 1..SectorCells :
       /\ Span(e) + j \in 1..Span(TheSectors)
       /\ g[Span(e) + j]
            = IF PartLba + (Stage2Sectors + e) = image.damaged THEN <<"damage">>
              ELSE Padded[Span(e) + j]

LEMMA DamageSeen ==
  ASSUME ImageInv, NEW g, HoldsArea(g)
  PROVE  g = Padded <=> image.damaged = 0
<1> DEFINE n == Span(TheSectors)
<1>1. image.args.total = Stage2Sectors + TheSectors
  BY ArgsFacts
<1>2. /\ TheSectors \in Nat /\ n \in Nat /\ Padded = [i \in 1..n |-> Padded[i]]
      /\ \A i \in 1..n : Sound(Padded[i])
  BY PadFacts
<1>3. /\ PartLba \in Nat /\ PartLba > 0 /\ Stage2Sectors \in Nat /\ SectorCells \in Nat
      /\ SectorCells > 0
  BY Layout
<1>4. g = [i \in 1..n |-> g[i]]
  BY DEF HoldsArea
<1>5. ASSUME NEW e \in 0..(TheSectors - 1), NEW j \in 1..SectorCells
      PROVE  /\ Span(e) + j \in 1..n
             /\ g[Span(e) + j]
                  = IF PartLba + (Stage2Sectors + e) = image.damaged THEN <<"damage">>
                    ELSE Padded[Span(e) + j]
  BY DEF HoldsArea
<1>6. ASSUME image.damaged # 0
      PROVE  g # Padded
  <2> DEFINE e == image.damaged - PartLba - Stage2Sectors
             k == Span(e) + 1
  <2>1. e \in 0..(TheSectors - 1) /\ PartLba + (Stage2Sectors + e) = image.damaged
    <3>1. image.damaged \in Nat
          /\ image.damaged - PartLba \in Stage2Sectors..(image.args.total - 1)
      BY <1>6 DEF ImageInv
    <3> DEFINE d == image.damaged
               T == image.args.total
    <3>2. /\ T = Stage2Sectors + TheSectors /\ TheSectors \in Nat /\ Stage2Sectors \in Nat
          /\ PartLba \in Nat /\ d \in Nat /\ d - PartLba \in Stage2Sectors..(T - 1)
      BY <1>1, <1>2, <1>3, <3>1
    <3> HIDE DEF d, T
    <3>3. (d - PartLba - Stage2Sectors) \in 0..(TheSectors - 1)
          /\ PartLba + (Stage2Sectors + (d - PartLba - Stage2Sectors)) = d
      BY ONLY <3>2
    <3> QED
      BY ONLY <3>3 DEF d
  <2> HIDE DEF e
  <2>2. 1 \in 1..SectorCells
    BY <1>3
  <2>3. k \in 1..n /\ g[k] = <<"damage">>
    BY <1>5, <2>1, <2>2
  <2> HIDE DEF k, n
  <2>4. Sound(Padded[k])
    BY <1>2, <2>3
  <2>5. Padded[k] # <<"damage">>
    BY <2>4 DEF Sound
  <2> QED
    BY <2>3, <2>5
<1>7. ASSUME image.damaged = 0
      PROVE  g = Padded
  <2> SUFFICES ASSUME NEW i \in 1..n
               PROVE  g[i] = Padded[i]
    BY <1>2, <1>4
  <2> DEFINE c == i - 1
  <2>1. c \in Nat /\ c < n
    BY <1>2
  <2>2. \E e \in 0..(TheSectors - 1), r \in 0..(SectorCells - 1) : c = Span(e) + r
    <3> HIDE DEF c
    <3> QED
      BY ONLY <1>2, <2>1, CellSpan
  <2>3. PICK e \in 0..(TheSectors - 1), r \in 0..(SectorCells - 1) : c = Span(e) + r
    BY <2>2
  <2> DEFINE j == r + 1
  <2>4. j \in 1..SectorCells /\ Span(e) \in Nat
    BY <1>2, <1>3, SpanNat
  <2>5. i = Span(e) + j
    BY ONLY <2>3, <2>4, i \in 1..n, r \in 0..(SectorCells - 1)
  <2>6. PartLba + (Stage2Sectors + e) # image.damaged
    BY <1>3, <1>7
  <2> HIDE DEF j
  <2> QED
    BY <1>5, <2>4, <2>5, <2>6
<1> QED
  BY <1>6, <1>7

\* What stage 1 left in the blob region, cell by cell.
LEMMA BlobRegion ==
  ASSUME ImageInv, Loaded, drive = machine.booted, machine.upper = 0, di = image.args.total,
         NEW e \in 0..(TheSectors - 1), NEW j \in 1..SectorCells
  PROVE  /\ Span(e) + j \in 1..Span(TheSectors)
         /\ mem[Blob + (Span(e) + j) - 1]
              = IF PartLba + (Stage2Sectors + e) = image.damaged THEN <<"damage">>
                ELSE Padded[Span(e) + j]
<1> DEFINE s == Stage2Sectors + e
           x == Span(Stage2Sectors)
           y == Span(e)
           z == Span(TheSectors)
<1>1. /\ Stage2Sectors \in Nat /\ SectorCells \in Nat /\ Stage2 \in Nat /\ x \in Nat
      /\ Blob = Stage2 + x
  BY Layout
<1>2. TheSectors \in Nat /\ z \in Nat /\ image.args.total = Stage2Sectors + TheSectors
  BY PadFacts, ArgsFacts
<1>3. e \in Nat /\ e < TheSectors /\ s \in 0..(di - 1) /\ ~(s < Stage2Sectors)
      /\ s - Stage2Sectors = e
  BY <1>1, <1>2
<1>4. y \in Nat /\ y + SectorCells <= z
  BY <1>2, <1>3, SpanNat, SpanLess
<1>5. Span(s) = x + y
  BY ONLY <1>1, <1>3, SpanAdd, Zenon
<1>6. mem[Stage2 + Span(s) + j - 1] = Sector(drive, Lba(s))[j]
  BY <1>3 DEF Loaded
<1>7. Sector(drive, Lba(s))[j]
        = IF PartLba + s = image.damaged THEN <<"damage">> ELSE Padded[y + j]
  <2>1. s \in 0..(image.args.total - 1)
    BY <1>3
  <2>2. Sector(drive, Lba(s))[j]
          = IF PartLba + s = image.damaged THEN <<"damage">>
            ELSE IF s < Stage2Sectors THEN Code
            ELSE Padded[Span(s - Stage2Sectors) + j]
    BY <2>1, SectorFacts
  <2> QED
    BY <1>3, <2>2
<1>8. Stage2 + Span(s) + j - 1 = Blob + (y + j) - 1 /\ y + j \in 1..z
  <2> DEFINE v == Span(s)
  <2>1. v = x + y
    BY <1>5
  <2> HIDE DEF v, x, y, z
  <2>2. Stage2 + v + j - 1 = Blob + (y + j) - 1 /\ y + j \in 1..z
    BY ONLY <1>1, <1>2, <1>4, <2>1, j \in 1..SectorCells
  <2> QED
    BY <2>2 DEF v
<1> QED
  BY <1>6, <1>7, <1>8

\* Stage 2's sum is the builder's exactly when the blob is, and the sum is not ahead.
LEMMA LoaderSumFacts ==
  ASSUME ImageInv, NEW n \in Nat, NEW g, g = [i \in 1..n |-> g[i]],
         Padded = [i \in 1..n |-> Padded[i]], Last(Padded) = Padded[n]
  PROVE  LoaderSum(g, image.ahead) = Padded <=> g = Padded /\ ~image.ahead
<1>1. image.ahead => Last(Padded) # Zero
  BY DEF ImageInv, Padded
<1>2. Append(g, <<"modulus">>) # Padded
  <2>1. DOMAIN Padded = 1..n
    BY Zenon
  <2>2. Append(g, <<"modulus">>) = [i \in 1..(n + 1) |->
                                     IF i = n + 1 THEN <<"modulus">> ELSE g[i]]
    OBVIOUS
  <2>3. n + 1 \in DOMAIN Append(g, <<"modulus">>) /\ n + 1 \notin 1..n
    BY <2>2
  <2> QED
    BY <2>1, <2>3
<1>3. CASE image.ahead /\ Last(g) # Zero
  BY <1>2, <1>3 DEF LoaderSum, Ahead, Checksum
<1>4. CASE ~(image.ahead /\ Last(g) # Zero)
  <2>1. LoaderSum(g, image.ahead) = g
    BY <1>4 DEF LoaderSum, Checksum
  <2>2. g = Padded => ~image.ahead
    BY <1>1, <1>4
  <2> QED
    BY <2>1, <2>2
<1> QED
  BY <1>3, <1>4

\* Stage 2 accepts the blob exactly when no sector of it is damaged and its sum is not ahead.
LEMMA StepAdler ==
  ASSUME BootInv, Adler
  PROVE  BootInv'
<1> DEFINE n == Span(TheSectors)
<1>1. /\ pc = "adler"
      /\ UNCHANGED <<machine, image, drive, try, di, gate, mem, esi, edi>>
      /\ IF LoaderSum(Read(Blob, bi.size), image.ahead) = bi.crc
         THEN pc' = "unpack" /\ bi' = bi
         ELSE pc' = "halted" /\ bi' = [bi EXCEPT !.err = 23]
  BY DEF Adler, FailPm, Go, Keep, decoder
<1>2. /\ ImageInv /\ Loaded /\ drive = machine.booted /\ machine.upper = 0
      /\ di = image.args.total /\ bi.crc = image.args.crc /\ bi.size = n
      /\ gate = TRUE
  BY <1>1 DEF BootInv, LoadInv, InfoInv, AfterStage2, ImageInv, TheSectors
<1>3. bi.crc = Padded /\ image.args.total = Stage2Sectors + TheSectors
  BY <1>2, ArgsFacts
<1>4. /\ TheSectors \in Nat /\ n \in Nat /\ Padded = [i \in 1..n |-> Padded[i]]
      /\ \A i \in 1..n : Sound(Padded[i])
  BY <1>2, PadFacts
<1>5. Read(Blob, bi.size) = [i \in 1..n |-> mem[Blob + i - 1]]
  BY <1>2, ReadOpen
<1>6. PartLba \in Nat /\ PartLba > 0 /\ Stage2Sectors \in Nat /\ SectorCells \in Nat /\ SectorCells > 0
  BY Layout
<1>7. HoldsArea(Read(Blob, bi.size))
  <2> DEFINE g == Read(Blob, bi.size)
  <2>1. g = [i \in 1..n |-> g[i]]
    BY <1>5
  <2>2. ASSUME NEW e \in 0..(TheSectors - 1), NEW j \in 1..SectorCells
        PROVE  /\ Span(e) + j \in 1..n
               /\ g[Span(e) + j]
                    = IF PartLba + (Stage2Sectors + e) = image.damaged THEN <<"damage">>
                      ELSE Padded[Span(e) + j]
    <3> DEFINE k == Span(e) + j
    <3>1. /\ k \in 1..n
          /\ mem[Blob + k - 1]
               = IF PartLba + (Stage2Sectors + e) = image.damaged THEN <<"damage">> ELSE Padded[k]
      BY <1>2, BlobRegion
    <3> HIDE DEF k, n
    <3>2. g[k] = mem[Blob + k - 1]
      BY <1>5, <3>1
    <3> QED
      BY <3>1, <3>2 DEF k
  <2> QED
    BY <2>1, <2>2 DEF HoldsArea
<1> DEFINE sum == LoaderSum(Read(Blob, bi.size), image.ahead)
<1>8. /\ sum = bi.crc <=> Read(Blob, bi.size) = Padded /\ ~image.ahead
      /\ Read(Blob, bi.size) = Padded <=> image.damaged = 0
  <2> DEFINE g == Read(Blob, bi.size)
  <2>1. g = Padded <=> image.damaged = 0
    BY <1>2, <1>7, DamageSeen
  <2>2. g = [i \in 1..n |-> g[i]]
    BY <1>7 DEF HoldsArea
  <2>3. Last(Padded) = Padded[n]
    <3>1. Len(Padded) = n
      BY <1>4
    <3> QED
      BY <3>1 DEF Last
  <2> HIDE DEF g, n
  <2>4. LoaderSum(g, image.ahead) = Padded <=> g = Padded /\ ~image.ahead
    BY <1>2, <1>4, <2>2, <2>3, LoaderSumFacts
  <2> QED
    BY <1>3, <2>1, <2>4 DEF g
<1>9. CASE sum = bi.crc
  <2>1. pc' = "unpack" /\ bi' = bi /\ image.damaged = 0 /\ Read(Blob, bi.size) = Padded
    BY <1>1, <1>8, <1>9
  <2>2. ImageInv' /\ TheContainer' = TheContainer /\ TheModule' = TheModule
    BY <1>1, <1>2, Fixed
  <2>3. BlobStored
    <3> SUFFICES ASSUME NEW i \in 1..n PROVE mem[Blob + i - 1] = Padded[i]
      BY <1>2 DEF BlobStored, Padded
    <3> QED
      BY <1>5, <2>1
  <2>4. BlobStored'
    BY <1>1, <2>1, <2>3, MemKept
  <2>5. TypeOK'
    BY <1>1, <2>1 DEF BootInv, TypeOK, Ended
  <2> QED
    BY <1>1, <2>1, <2>2, <2>4, <2>5
       DEF BootInv, LoadInv, InfoInv, UnpackInv, KernelInv, AfterStage2, Verified, Accepted
<1>10. CASE sum # bi.crc
  <2>1. 23 \in Warranted
    BY <1>8, <1>10 DEF Warranted
  <2> QED
    BY <1>1, <1>10, <2>1, StepFail DEF AfterStage2
<1> QED
  BY <1>9, <1>10

\* What the decoder finds at the blob's address: the container.
LEMMA BoxFacts ==
  ASSUME BootInv, pc \in {"unpack", "item"}
  PROVE  /\ ImageInv /\ gate = TRUE /\ DOMAIN mem = 0..MemTop /\ \A x : Phys(x) = x
         /\ bi.size \in Nat /\ bi.size > 0 /\ bi.size <= BlobMax /\ BlobStored
         /\ mem[Blob] = <<"box", IF image.raw THEN "none" ELSE "QIZL", Len(TheModule)>>
         /\ \A i \in 1..Len(TheContainer) : mem[Blob + i - 1] = TheContainer[i]
         /\ Len(TheModule) \in Nat /\ Len(TheModule) <= 1 + KernelMax
<1>1. ImageInv /\ gate = TRUE /\ DOMAIN mem = 0..MemTop /\ BlobStored
      /\ bi.size = Span(TheSectors)
  BY DEF BootInv, ImageInv, TypeOK, UnpackInv, InfoInv, AfterStage2, TheSectors
<1>2. \A x : Phys(x) = x
  BY <1>1, ReadOpen
<1>3. /\ bi.size \in Nat /\ bi.size > 0 /\ bi.size <= BlobMax /\ Len(TheContainer) <= bi.size
      /\ \A i \in 1..Len(TheContainer) : Padded[i] = TheContainer[i]
  BY <1>1, PadFacts
<1>4. Len(TheContainer) \in Nat /\ Len(TheContainer) > 0
      /\ TheContainer[1] = <<"box", IF image.raw THEN "none" ELSE "QIZL", Len(TheModule)>>
  BY <1>1, ContainerFacts, Zenon
<1>5. \A i \in 1..Len(TheContainer) : mem[Blob + i - 1] = TheContainer[i]
  BY <1>1, <1>3, <1>4 DEF BlobStored, Padded
<1>6. mem[Blob] = TheContainer[1]
  <2>1. 1 \in 1..Len(TheContainer) /\ Blob + 1 - 1 = Blob
    BY <1>4, Layout, SMTT(30)
  <2> QED
    BY <1>5, <2>1
<1>7. Len(TheModule) \in Nat /\ Len(TheModule) <= 1 + KernelMax
  <2>1. Len(TheModule) = image.kernel.cells + 1
    BY <1>1, ModuleFacts
  <2>2. image.kernel.cells \in Nat /\ image.kernel.cells <= KernelMax /\ KernelMax \in Nat
    BY <1>1, KernelType, Layout
  <2> QED
    BY ONLY <2>1, <2>2
<1> QED
  BY <1>1, <1>2, <1>3, <1>4, <1>5, <1>6, <1>7

LEMMA BlobBelow ==
  ASSUME BlobStored, UNCHANGED <<machine, image, bi>>, bi.size \in Nat, bi.size <= BlobMax,
         \A b \in 0..MemTop : b < KText => mem'[b] = mem[b]
  PROVE  BlobStored'
<1>1. TheContainer' = TheContainer
  BY Fixed
<1> SUFFICES ASSUME NEW i \in 1..bi.size PROVE mem'[Blob + i - 1] = Pad(TheContainer)[i]
  BY <1>1 DEF BlobStored
<1>2. Blob + i - 1 \in 0..MemTop /\ Blob + i - 1 < KText
  BY Layout
<1> QED
  BY <1>2 DEF BlobStored

LEMMA StepUnpackRaw ==
  ASSUME BootInv, UnpackRaw
  PROVE  /\ BootInv'
         /\ \A a \in 0..MemTop : mem'[a] # mem[a] => a >= Scratch /\ a < Pages
<1> DEFINE w == Read(Blob, bi.size)
<1>1. /\ pc = "unpack" /\ pc' = "header" /\ mem[Phys(Blob)][2] # "QIZL"
      /\ UNCHANGED <<machine, image, drive, try, di, gate, bi, esi, edi>>
      /\ Write(Scratch, w)
  BY DEF UnpackRaw, Go, Keep, decoder
<1>2. /\ ImageInv /\ gate = TRUE /\ DOMAIN mem = 0..MemTop /\ \A x : Phys(x) = x
      /\ bi.size \in Nat /\ bi.size > 0 /\ bi.size <= BlobMax
      /\ mem[Blob] = <<"box", IF image.raw THEN "none" ELSE "QIZL", Len(TheModule)>>
  BY <1>1, BoxFacts
<1>3. image.raw
  BY <1>1, <1>2
<1>4. w = [i \in 1..bi.size |-> mem[Blob + i - 1]]
  BY <1>2, ReadOpen
<1>5. /\ Scratch \in Nat /\ Blob \in Nat /\ MemTop \in Nat /\ Pages \in Nat /\ BlobMax \in Nat
      /\ KernelMax \in Nat /\ PageCells \in Nat
      /\ Scratch + 1 + KernelMax <= Pages /\ BlobMax <= 1 + KernelMax /\ Pages + PageCells <= MemTop
  BY Layout
<1>6. DOMAIN w = 1..bi.size /\ w[1] = mem[Blob]
  <2>1. 1 \in 1..bi.size /\ Blob + 1 - 1 = Blob
    BY <1>2, <1>5
  <2> QED
    BY ONLY <1>4, <2>1
<1> HIDE DEF w
<1>7. /\ DOMAIN mem' = 0..MemTop
      /\ \A i \in 1..bi.size : Scratch + i - 1 <= MemTop => mem'[Scratch + i - 1] = w[i]
      /\ \A b \in 0..MemTop : b < Scratch \/ b >= Scratch + bi.size => mem'[b] = mem[b]
  BY <1>1, <1>2, <1>5, <1>6, WriteOpen
<1>8. mem'[Scratch] = mem[Blob]
  <2>1. 1 \in 1..bi.size /\ Scratch + 1 - 1 = Scratch /\ Scratch <= MemTop
    BY <1>2, <1>5
  <2> QED
    BY ONLY <1>6, <1>7, <2>1
<1>9. mem'[Scratch][1] = "box"
  BY <1>2, <1>8
<1>10. ASSUME NEW a \in 0..MemTop, mem'[a] # mem[a]
       PROVE  a >= Scratch /\ a < Pages
  <2>1. ~(a < Scratch \/ a >= Scratch + bi.size)
    BY <1>7, <1>10
  <2> QED
    BY ONLY <1>2, <1>5, <2>1, a \in 0..MemTop
<1>11. ImageInv' /\ TheContainer' = TheContainer /\ TheModule' = TheModule
  BY <1>1, <1>2, Fixed
<1>12. TypeOK'
  BY <1>1, <1>7 DEF BootInv, TypeOK, Ended
<1> QED
  BY <1>1, <1>3, <1>9, <1>10, <1>11, <1>12
     DEF BootInv, LoadInv, InfoInv, UnpackInv, KernelInv, AfterStage2, Verified, Accepted

LEMMA StepUnpackBegin ==
  ASSUME BootInv, UnpackBegin
  PROVE  BootInv'
<1>1. /\ pc = "unpack" /\ pc' = "item" /\ mem[Phys(Blob)][2] = "QIZL"
      /\ UNCHANGED <<machine, image, drive, try, di, gate, mem, bi>>
      /\ esi' = 0 /\ edi' = 0
  BY DEF UnpackBegin, Go, Keep
<1>2. /\ ImageInv /\ \A x : Phys(x) = x
      /\ mem[Blob] = <<"box", IF image.raw THEN "none" ELSE "QIZL", Len(TheModule)>>
      /\ BlobStored /\ Len(TheModule) \in Nat
  BY <1>1, BoxFacts
<1>3. ~image.raw
  BY <1>1, <1>2
<1>4. ImageInv' /\ TheContainer' = TheContainer /\ TheModule' = TheModule /\ BlobStored'
  BY <1>1, <1>2, Fixed, MemKept
<1>5. TypeOK'
  BY <1>1 DEF BootInv, TypeOK, Ended
<1>6. Decoded(edi)'
  BY <1>1 DEF Decoded
<1>7. /\ esi' <= Len(Items(TheModule))
      /\ edi' = IF 2 * esi' <= Len(TheModule) THEN 2 * esi' ELSE Len(TheModule)
  BY <1>1, <1>2, ItemFacts
<1> QED
  BY <1>1, <1>3, <1>4, <1>5, <1>6, <1>7
     DEF BootInv, LoadInv, InfoInv, UnpackInv, KernelInv, AfterStage2, Verified, Accepted

LEMMA StepUnpackEnd ==
  ASSUME BootInv, UnpackEnd
  PROVE  BootInv'
<1>1. /\ pc = "item" /\ pc' = "header" /\ edi >= mem[Phys(Blob)][3]
      /\ UNCHANGED <<machine, image, drive, try, di, gate, mem, bi, esi, edi>>
  BY DEF UnpackEnd, Announced, Go, Keep, decoder
<1>2. /\ ImageInv /\ \A x : Phys(x) = x /\ Len(TheModule) \in Nat
      /\ mem[Blob] = <<"box", IF image.raw THEN "none" ELSE "QIZL", Len(TheModule)>>
  BY <1>1, BoxFacts
<1>3. /\ ~image.raw /\ esi \in Nat /\ Decoded(edi)
      /\ edi = IF 2 * esi <= Len(TheModule) THEN 2 * esi ELSE Len(TheModule)
  BY <1>1 DEF BootInv, UnpackInv, TypeOK
<1>4. edi >= Len(TheModule)
  BY <1>1, <1>2
<1>5. edi = Len(TheModule)
  BY ONLY <1>2, <1>3, <1>4
<1>6. ImageInv' /\ TheContainer' = TheContainer /\ TheModule' = TheModule
  BY <1>1, <1>2, Fixed
<1>7. Decoded(Len(TheModule))'
  BY <1>1, <1>3, <1>5, MemKept
<1>8. TypeOK'
  BY <1>1 DEF BootInv, TypeOK, Ended
<1> QED
  BY <1>1, <1>3, <1>6, <1>7, <1>8
     DEF BootInv, LoadInv, InfoInv, UnpackInv, KernelInv, AfterStage2, Verified, Accepted

\* The next item continues the module where the output ends.
LEMMA StepUnpackItem ==
  ASSUME BootInv, UnpackItem
  PROVE  /\ BootInv'
         /\ \A a \in 0..MemTop : mem'[a] # mem[a] => a >= Scratch /\ a < Pages
<1> DEFINE run == mem[Phys(Blob + 1 + esi)][2]
           at == Scratch + edi
           L == Len(TheModule)
           k == esi + 1
           n == RunLen(k)
<1>1. /\ pc = "item" /\ pc' = pc /\ edi < mem[Phys(Blob)][3]
      /\ UNCHANGED <<machine, image, drive, try, di, gate, bi>>
      /\ esi' = esi + 1 /\ edi' = edi + Len(run) /\ Write(at, run)
  BY DEF UnpackItem, Announced, Keep
<1>2. /\ ImageInv /\ gate = TRUE /\ DOMAIN mem = 0..MemTop /\ \A x : Phys(x) = x
      /\ bi.size \in Nat /\ bi.size <= BlobMax /\ BlobStored
      /\ mem[Blob] = <<"box", IF image.raw THEN "none" ELSE "QIZL", L>>
      /\ \A i \in 1..Len(TheContainer) : mem[Blob + i - 1] = TheContainer[i]
      /\ L \in Nat /\ L <= 1 + KernelMax
  BY <1>1, BoxFacts
<1>3. /\ ~image.raw /\ esi \in Nat /\ Decoded(edi) /\ edi < L
      /\ edi = IF 2 * esi <= L THEN 2 * esi ELSE L
  BY <1>1, <1>2 DEF BootInv, UnpackInv, TypeOK
<1>4. edi = 2 * esi /\ edi \in Nat
  BY ONLY <1>2, <1>3
<1>5. /\ Len(Items(TheModule)) \in Nat /\ 2 * Len(Items(TheModule)) >= L
      /\ \A i \in 1..Len(Items(TheModule)) :
           \E q : Items(TheModule)[i] = <<"item", q>> /\ IsRun(q, i)
  BY <1>2, ItemFacts, Zenon
<1>6. k \in 1..Len(Items(TheModule))
  <2> DEFINE N == Len(Items(TheModule))
  <2>1. N \in Nat /\ 2 * N >= L /\ esi \in Nat /\ L \in Nat /\ 2 * esi < L
    BY <1>2, <1>3, <1>4, <1>5
  <2> HIDE DEF N, L
  <2>2. k \in 1..N
    BY ONLY <2>1
  <2> QED
    BY <2>2 DEF N
<1>7. IsRun(run, k)
  <2>1. /\ Len(TheContainer) = 1 + Len(Items(TheModule))
        /\ \A i \in 1..Len(Items(TheModule)) : TheContainer[i + 1] = Items(TheModule)[i]
    BY ONLY <1>2, <1>3, ContainerFacts, Zenon
  <2>2. k + 1 \in 1..Len(TheContainer) /\ Blob + (k + 1) - 1 = Blob + 1 + esi
    <3> DEFINE N == Len(Items(TheModule))
               C == Len(TheContainer)
    <3>1. N \in Nat /\ C = 1 + N /\ k \in 1..N /\ esi \in Nat /\ Blob \in Nat
      BY <1>3, <1>5, <1>6, <2>1, Layout
    <3> HIDE DEF N, C
    <3>2. k + 1 \in 1..C /\ Blob + (k + 1) - 1 = Blob + 1 + esi
      BY ONLY <3>1
    <3> QED
      BY <3>2 DEF C
  <2> HIDE DEF k
  <2>3. mem[Blob + (k + 1) - 1] = TheContainer[k + 1]
    BY ONLY <1>2, <2>2, Zenon
  <2>4. TheContainer[k + 1] = Items(TheModule)[k]
    BY ONLY <1>6, <2>1, Zenon
  <2>5. PICK q : Items(TheModule)[k] = <<"item", q>> /\ IsRun(q, k)
    BY ONLY <1>5, <1>6, Zenon
  <2>6. Phys(Blob + 1 + esi) = Blob + 1 + esi
    BY <1>2
  <2>7. mem[Phys(Blob + 1 + esi)] = <<"item", q>>
    BY ONLY <2>2, <2>3, <2>4, <2>5, <2>6
  <2>8. run = q
    BY <2>7
  <2> QED
    BY <2>5, <2>8
<1>8. /\ n \in Nat /\ n = (IF 2 * k <= L THEN 2 ELSE 1)
      /\ Len(run) = n /\ DOMAIN run = 1..n /\ \A j \in 1..n : run[j] = TheModule[2 * k - 2 + j]
  <2>1. n \in Nat /\ n = (IF 2 * k <= L THEN 2 ELSE 1)
    BY DEF RunLen
  <2> HIDE DEF run, n, k
  <2> QED
    BY <1>7, <2>1 DEF IsRun, n
<1> HIDE DEF run
<1>9. /\ Scratch \in Nat /\ MemTop \in Nat /\ Pages \in Nat /\ KernelMax \in Nat
      /\ Scratch + 1 + KernelMax <= Pages /\ Pages <= MemTop /\ KText <= Scratch /\ KText \in Nat
  BY Layout
<1>10. at \in Nat /\ edi + n <= L
       /\ edi + n = (IF 2 * (esi + 1) <= L THEN 2 * (esi + 1) ELSE L)
  <2> HIDE DEF L
  <2>1. n = (IF 2 * (esi + 1) <= L THEN 2 ELSE 1)
    BY <1>8
  <2> HIDE DEF n
  <2> QED
    BY ONLY <1>2, <1>3, <1>4, <1>9, <2>1 DEF at
<1> HIDE DEF n, at
<1>11. /\ DOMAIN mem' = 0..MemTop
       /\ \A i \in 1..n : at + i - 1 <= MemTop => mem'[at + i - 1] = run[i]
       /\ \A b \in 0..MemTop : b < at \/ b >= at + n => mem'[b] = mem[b]
  <2>1. gate = TRUE /\ at \in Nat /\ n \in Nat /\ DOMAIN run = 1..n /\ DOMAIN mem = 0..MemTop
        /\ Write(at, run)
    BY <1>1, <1>2, <1>8, <1>10
  <2> QED
    BY ONLY <2>1, WriteOpen
<1>12. at >= Scratch /\ at + n <= Pages /\ at = Scratch + edi
  <2> HIDE DEF L
  <2>1. at = Scratch + edi
    BY DEF at
  <2> QED
    BY ONLY <1>2, <1>4, <1>8, <1>9, <1>10, <2>1, SMTT(30)
<1>13. ASSUME NEW a \in 0..MemTop, mem'[a] # mem[a]
       PROVE  a >= Scratch /\ a < Pages
  <2>1. ~(a < at \/ a >= at + n)
    BY <1>11, <1>13
  <2> QED
    BY ONLY <1>8, <1>9, <1>10, <1>12, <2>1, a \in 0..MemTop
<1>14. BlobStored'
  <2>1. \A b \in 0..MemTop : b < KText => mem'[b] = mem[b]
    BY ONLY <1>9, <1>10, <1>11, <1>12
  <2> QED
    BY <1>1, <1>2, <2>1, BlobBelow
<1>15. ImageInv' /\ TheContainer' = TheContainer /\ TheModule' = TheModule
  BY <1>1, <1>2, Fixed
<1>16. edi' = edi + n /\ edi' \in Nat /\ esi' \in Nat
  <2>1. Len(run) = n /\ n \in Nat /\ edi \in Nat /\ esi \in Nat
    BY <1>3, <1>4, <1>8
  <2> HIDE DEF L
  <2> QED
    BY ONLY <1>1, <2>1
<1>17. Decoded(edi)'
  <2> SUFFICES ASSUME NEW i \in 1..(edi + n)
               PROVE  mem'[Scratch + i - 1] = TheModule[i]
    BY <1>15, <1>16 DEF Decoded
  <2>1. CASE i <= edi
    <3>1. i \in 1..edi /\ Scratch + i - 1 \in 0..MemTop /\ Scratch + i - 1 < at
      BY ONLY <1>4, <1>8, <1>9, <1>12, <2>1, i \in 1..(edi + n)
    <3>2. mem[Scratch + i - 1] = TheModule[i]
      BY ONLY <1>3, <3>1 DEF Decoded
    <3> QED
      BY ONLY <1>11, <3>1, <3>2
  <2>2. CASE i > edi
    <3> DEFINE j == i - edi
    <3>1. /\ j \in 1..n /\ at + j - 1 = Scratch + i - 1 /\ at + j - 1 <= MemTop
          /\ 2 * (esi + 1) - 2 + j = i
      <4>1. edi \in Nat /\ n \in Nat /\ esi \in Nat /\ edi = 2 * esi
        BY <1>3, <1>4, <1>8
      <4> QED
        BY ONLY <1>9, <1>12, <2>2, <4>1, i \in 1..(edi + n)
    <3> HIDE DEF j
    <3>2. mem'[at + j - 1] = run[j]
      BY ONLY <1>11, <3>1
    <3>3. run[j] = TheModule[2 * (esi + 1) - 2 + j]
      BY <1>8, <3>1
    <3> QED
      BY ONLY <3>1, <3>2, <3>3
  <2> QED
    BY ONLY <1>4, <1>8, <2>1, <2>2, i \in 1..(edi + n)
<1>18. TypeOK'
  BY <1>1, <1>11, <1>16 DEF BootInv, TypeOK
<1>19. /\ esi' <= Len(Items(TheModule))
       /\ edi' = IF 2 * esi' <= Len(TheModule) THEN 2 * esi' ELSE Len(TheModule)
  <2>1. esi' <= Len(Items(TheModule))
    BY ONLY <1>1, <1>5, <1>6
  <2> QED
    BY <1>1, <1>10, <1>16, <2>1
<1> QED
  BY <1>1, <1>3, <1>13, <1>14, <1>15, <1>17, <1>18, <1>19
     DEF BootInv, LoadInv, InfoInv, UnpackInv, KernelInv, AfterStage2, Verified, Accepted

\* The tests of the module header, and what it means to pass them all.
LEMMA HeaderFacts ==
  ASSUME ImageInv
  PROVE  /\ HeaderError(ModuleHeader(image.kernel)) \in {0, 22, 25, 26, 27, 28, 29}
         /\ HeaderError(ModuleHeader(image.kernel)) = 0 =>
              /\ image.kernel.magic = "IZOK" /\ image.kernel.base = KText
              /\ image.kernel.entry < image.kernel.size
              /\ image.kernel.size <= KernelMax /\ image.kernel.total <= KernelMax
              /\ image.kernel.size <= image.kernel.total
<1> DEFINE k == image.kernel
           cell == ModuleHeader(k)
           h == cell[2]
           tests == << <<h.size > KernelMax, 26>>, <<h.total > KernelMax, 27>>,
                       <<h.total < h.size, 28>>, <<h.ktext # KText, 29>>,
                       <<h.entry >= h.size, 22>> >>
           failed == {i \in DOMAIN tests : tests[i][1]}
           err == IF failed = {} THEN 0 ELSE tests[Min(failed)][2]
<1>0. /\ cell[1] = "IZOK" /\ h.magic = k.magic /\ h.size = k.size /\ h.total = k.total
      /\ h.ktext = k.base /\ h.entry = k.entry
  BY DEF ModuleHeader
<1>A. cell = ModuleHeader(k)
  OBVIOUS
<1> HIDE DEF cell
<1>1. HeaderError(cell) = IF cell[1] # "IZOK" \/ h.magic # "IZOK" THEN 25 ELSE err
  BY DEF HeaderError
<1>2. DOMAIN tests = 1..5
  OBVIOUS
<1>3. \A i \in 1..5 : tests[i][2] \in {22, 26, 27, 28, 29}
  OBVIOUS
<1>4. failed # {} => Min(failed) \in 1..5
  <2>1. failed \in SUBSET Nat /\ failed \subseteq 1..5
    BY <1>2
  <2> HIDE DEF failed
  <2>2. failed # {} => \E n \in failed : \A m \in failed : n <= m
    BY <2>1, NatMin
  <2>3. failed # {} => Min(failed) \in failed
    BY <2>2 DEF Min
  <2> QED
    BY <2>1, <2>3
<1>5. failed = {} => /\ ~(h.size > KernelMax) /\ ~(h.total > KernelMax)
                     /\ ~(h.total < h.size) /\ ~(h.ktext # KText) /\ ~(h.entry >= h.size)
  <2> SUFFICES ASSUME \A i \in 1..5 : ~tests[i][1]
               PROVE  /\ ~(h.size > KernelMax) /\ ~(h.total > KernelMax)
                      /\ ~(h.total < h.size) /\ ~(h.ktext # KText) /\ ~(h.entry >= h.size)
    BY <1>2
  <2>1. ~tests[1][1] /\ ~tests[2][1] /\ ~tests[3][1] /\ ~tests[4][1] /\ ~tests[5][1]
    OBVIOUS
  <2> QED
    BY <2>1
<1>6. /\ k.size \in Nat /\ k.total \in Nat /\ k.entry \in Nat /\ KernelMax \in Nat
  BY KernelType, Layout
<1>7. err \in {0, 22, 26, 27, 28, 29} /\ (err = 0 => failed = {})
  <2> HIDE DEF tests, failed
  <2> QED
    BY <1>3, <1>4
<1> HIDE DEF err, failed, tests
<1> QED
  BY <1>0, <1>A, <1>1, <1>5, <1>6, <1>7

LEMMA StepHeader ==
  ASSUME BootInv, Header
  PROVE  BootInv'
<1> DEFINE cell == mem[Scratch]
           K == image.kernel
           code == HeaderError(cell)
<1>1. ImageInv /\ gate = TRUE /\ pc = "header"
  BY DEF BootInv, ImageInv, Header
<1>2. Read(Scratch, 1)[1] = cell
  <2>1. Read(Scratch, 1) = [i \in 1..1 |-> mem[Scratch + i - 1]]
    BY <1>1, ReadOpen
  <2>2. 1 \in 1..1 /\ Scratch + 1 - 1 = Scratch
    BY Layout
  <2> QED
    BY ONLY <2>1, <2>2
<1>3. /\ UNCHANGED <<machine, image, drive, try, di, gate, mem, esi, edi>>
      /\ IF code # 0 THEN pc' = "halted" /\ bi' = [bi EXCEPT !.err = code]
         ELSE /\ pc' = "copy"
              /\ bi' = [bi EXCEPT !.ksize = cell[2].size, !.kentry = cell[2].entry,
                                  !.ktotal = cell[2].total]
  BY <1>2 DEF Header, FailPm, Go, Keep, decoder
<1>4. image.raw \in BOOLEAN
  BY <1>1 DEF ImageInv
<1>5. CASE image.raw
  <2>1. cell[1] = "box"
    BY <1>1, <1>5 DEF BootInv, UnpackInv
  <2>2. code = 25
    BY <2>1, Zenon DEF HeaderError
  <2>3. 25 \in Warranted
    BY <1>5 DEF Warranted
  <2> QED
    BY <1>1, <1>3, <2>2, <2>3, StepFail DEF AfterStage2
<1>6. CASE ~image.raw
  <2>1. cell = ModuleHeader(K) /\ Decoded(Len(TheModule))
    <3>1. Decoded(Len(TheModule)) /\ Len(TheModule) \in Nat /\ Len(TheModule) >= 1
      BY <1>1, <1>6, ModuleFacts, KernelType DEF BootInv, UnpackInv
    <3>2. 1 \in 1..Len(TheModule) /\ Scratch + 1 - 1 = Scratch
      BY <3>1, Layout
    <3>3. mem[Scratch] = TheModule[1]
      BY ONLY <3>1, <3>2 DEF Decoded
    <3> QED
      BY <1>1, <3>1, <3>3, ModuleFacts
  <2>2. code = HeaderError(ModuleHeader(K)) /\ code \in {0, 22, 25, 26, 27, 28, 29}
    BY <1>1, <2>1, HeaderFacts
  <2>3. code \in Warranted
    BY <1>6, <2>2 DEF Warranted
  <2>4. cell[2].size = K.size /\ cell[2].entry = K.entry /\ cell[2].total = K.total
    BY <2>1 DEF ModuleHeader
  <2> HIDE DEF code, cell
  <2>5. CASE code # 0
    <3>1. code \in 1..31
      BY <2>2, <2>5
    <3> QED
      BY <1>1, <1>3, <2>3, <2>5, <3>1, StepFail DEF AfterStage2
  <2>6. CASE code = 0
    <3>1. /\ pc' = "copy"
          /\ bi' = [bi EXCEPT !.ksize = cell[2].size, !.kentry = cell[2].entry,
                              !.ktotal = cell[2].total]
      BY <1>3, <2>6
    <3>2. /\ DOMAIN bi' = BiFields /\ bi'.drive = bi.drive /\ bi'.crc = bi.crc
          /\ bi'.err = bi.err /\ bi'.size = bi.size /\ bi'.e820 = bi.e820
          /\ bi'.ksize = K.size /\ bi'.ktotal = K.total
      BY <1>1, <2>4, <3>1 DEF BootInv, InfoInv, AfterStage2, BiFields
    <3>3. ImageInv' /\ TheContainer' = TheContainer /\ TheModule' = TheModule
      BY <1>1, <1>3, Fixed
    <3>4. Decoded(Len(TheModule))'
      BY <1>3, <2>1, MemKept
    <3>5. TypeOK'
      BY <1>3, <3>1, <3>2 DEF BootInv, TypeOK, Ended
    <3>6. HeaderError(ModuleHeader(image.kernel))' = 0 /\ ~image.raw'
      BY <1>3, <1>6, <2>2, <2>6
    <3> QED
      BY <1>1, <1>3, <3>1, <3>2, <3>3, <3>4, <3>5, <3>6
         DEF BootInv, LoadInv, InfoInv, UnpackInv, KernelInv, AfterStage2, Verified, Accepted
  <2> QED
    BY <2>5, <2>6
<1> QED
  BY <1>4, <1>5, <1>6

\* The copy leaves the header behind, so byte i of the kernel lands at KText + i.
LEMMA StepCopy ==
  ASSUME BootInv, Copy
  PROVE  /\ BootInv'
         /\ \A a \in 0..MemTop : mem'[a] # mem[a] => a >= KText /\ a < KText + KernelMax
<1> DEFINE n == image.kernel.size
           w == Read(Scratch + HDR, n)
<1>1. /\ pc = "copy" /\ pc' = "bss"
      /\ UNCHANGED <<machine, image, drive, try, di, gate, bi, esi, edi>>
      /\ Write(KText, Read(Scratch + HDR, bi.ksize))
  BY DEF Copy, Go, Keep, decoder
<1>2. /\ ImageInv /\ gate = TRUE /\ DOMAIN mem = 0..MemTop /\ Decoded(Len(TheModule))
      /\ bi.ksize = n /\ HeaderError(ModuleHeader(image.kernel)) = 0
  BY <1>1 DEF BootInv, ImageInv, TypeOK, UnpackInv, KernelInv, Accepted
<1>3. n \in Nat /\ n <= KernelMax
  BY <1>2, HeaderFacts, KernelType
<1>4. /\ Scratch \in Nat /\ KText \in Nat /\ KernelMax \in Nat /\ MemTop \in Nat
      /\ KText + KernelMax <= MemTop
  BY Layout
<1>5. w = [i \in 1..n |-> mem[(Scratch + 1) + i - 1]]
  BY <1>2, ReadOpen DEF HDR
<1>6. Write(KText, w) /\ DOMAIN w = 1..n
  BY <1>1, <1>2, <1>5
<1>7. ASSUME NEW i \in 1..n, i <= image.kernel.cells
      PROVE  w[i] = <<"kernel", i>>
  <2>1. image.kernel.cells \in Nat /\ Len(TheModule) = image.kernel.cells + 1
    BY <1>2, KernelType, ModuleFacts
  <2>2. i \in 1..image.kernel.cells /\ i + 1 \in 1..Len(TheModule)
        /\ (Scratch + 1) + i - 1 = Scratch + (i + 1) - 1
    BY <1>3, <1>4, <1>7, <2>1
  <2>3. mem[Scratch + (i + 1) - 1] = TheModule[i + 1]
    BY ONLY <1>2, <2>2 DEF Decoded
  <2>4. TheModule[i + 1] = <<"kernel", i>>
    BY <1>2, <2>2, ModuleFacts
  <2> QED
    BY ONLY <1>5, <2>2, <2>3, <2>4, i \in 1..n
<1> HIDE DEF w
<1>8. /\ DOMAIN mem' = 0..MemTop
      /\ \A i \in 1..n : KText + i - 1 <= MemTop => mem'[KText + i - 1] = w[i]
      /\ \A b \in 0..MemTop : b < KText \/ b >= KText + n => mem'[b] = mem[b]
  BY <1>2, <1>3, <1>4, <1>6, WriteOpen
<1>9. ASSUME NEW a \in 0..MemTop, mem'[a] # mem[a]
      PROVE  a >= KText /\ a < KText + KernelMax
  <2>1. ~(a < KText \/ a >= KText + n)
    BY <1>8, <1>9
  <2> QED
    BY ONLY <1>3, <1>4, <2>1, a \in 0..MemTop
<1>10. KernelStored'
  <2> SUFFICES ASSUME NEW i \in 1..n, i <= image.kernel.cells
               PROVE  mem'[KText + i - 1] = <<"kernel", i>>
    BY <1>1 DEF KernelStored
  <2>1. KText + i - 1 <= MemTop
    BY <1>3, <1>4
  <2> QED
    BY <1>7, <1>8, <2>1
<1>11. ImageInv' /\ TheContainer' = TheContainer
  BY <1>1, <1>2, Fixed
<1>12. TypeOK'
  BY <1>1, <1>8 DEF BootInv, TypeOK, Ended
<1> QED
  BY <1>1, <1>9, <1>10, <1>11, <1>12
     DEF BootInv, LoadInv, InfoInv, UnpackInv, KernelInv, AfterStage2, Verified, Accepted

LEMMA StepZeroBss ==
  ASSUME BootInv, ZeroBss
  PROVE  /\ BootInv'
         /\ \A a \in 0..MemTop : mem'[a] # mem[a] => a >= KText /\ a < KText + KernelMax
<1> DEFINE S == image.kernel.size
           T == image.kernel.total
           n == T - S
           at == KText + S
           w == [i \in 1..n |-> Zero]
<1>1. /\ pc = "bss" /\ pc' = "pages"
      /\ UNCHANGED <<machine, image, drive, try, di, gate, bi, esi, edi>>
      /\ Write(KText + bi.ksize, [i \in 1..(bi.ktotal - bi.ksize) |-> Zero])
  BY DEF ZeroBss, Go, Keep, decoder
<1>2. /\ ImageInv /\ gate = TRUE /\ DOMAIN mem = 0..MemTop /\ KernelStored
      /\ bi.ksize = S /\ bi.ktotal = T /\ HeaderError(ModuleHeader(image.kernel)) = 0
  BY <1>1 DEF BootInv, ImageInv, TypeOK, KernelInv, Accepted
<1>3. S \in Nat /\ T \in Nat /\ S <= T /\ T <= KernelMax
  BY <1>2, HeaderFacts, KernelType
<1>4. KText \in Nat /\ KernelMax \in Nat /\ MemTop \in Nat /\ KText + KernelMax <= MemTop
  BY Layout
<1>5. Write(at, w) /\ DOMAIN w = 1..n /\ \A i \in 1..n : w[i] = Zero
  BY <1>1, <1>2
<1> HIDE DEF S, T, w
<1>6. n \in Nat /\ at \in Nat
  BY <1>3, <1>4
<1> HIDE DEF n, at
<1>7. /\ DOMAIN mem' = 0..MemTop
      /\ \A i \in 1..n : at + i - 1 <= MemTop => mem'[at + i - 1] = w[i]
      /\ \A b \in 0..MemTop : b < at \/ b >= at + n => mem'[b] = mem[b]
  BY <1>2, <1>5, <1>6, WriteOpen
<1>8. ASSUME NEW a \in 0..MemTop, mem'[a] # mem[a]
      PROVE  a >= KText /\ a < KText + KernelMax
  <2>1. ~(a < at \/ a >= at + n)
    BY <1>7, <1>8
  <2> QED
    BY ONLY <1>3, <1>4, <2>1, a \in 0..MemTop DEF at, n
<1>9. KernelStored'
  <2> SUFFICES ASSUME NEW i \in 1..S, i <= image.kernel.cells
               PROVE  mem'[KText + i - 1] = <<"kernel", i>>
    BY <1>1 DEF KernelStored, S
  <2>1. KText + i - 1 \in 0..MemTop /\ KText + i - 1 < at
    BY <1>3, <1>4 DEF at
  <2>2. mem[KText + i - 1] = <<"kernel", i>>
    BY <1>2 DEF KernelStored, S
  <2> QED
    BY <1>7, <2>1, <2>2
<1>10. BssStored'
  <2> SUFFICES ASSUME NEW i \in (S + 1)..T
               PROVE  mem'[KText + i - 1] = Zero
    BY <1>1 DEF BssStored, S, T
  <2> DEFINE j == i - S
  <2>1. j \in 1..n /\ at + j - 1 = KText + i - 1 /\ at + j - 1 <= MemTop
    BY <1>3, <1>4 DEF at, n
  <2> QED
    BY <1>5, <1>7, <2>1
<1>11. ImageInv' /\ TheContainer' = TheContainer
  BY <1>1, <1>2, Fixed
<1>12. TypeOK'
  BY <1>1, <1>7 DEF BootInv, TypeOK, Ended
<1> QED
  BY <1>1, <1>8, <1>9, <1>10, <1>11, <1>12
     DEF BootInv, LoadInv, InfoInv, UnpackInv, KernelInv, AfterStage2, Verified, Accepted

LEMMA StepBuildPages ==
  ASSUME BootInv, BuildPages
  PROVE  /\ BootInv'
         /\ \A a \in 0..MemTop : mem'[a] # mem[a] => a >= Pages /\ a < MemTop
<1>1. /\ pc = "pages" /\ pc' = "long"
      /\ UNCHANGED <<machine, image, drive, try, di, gate, bi, esi, edi>>
      /\ Write(Pages, Tables)
  BY DEF BuildPages, Go, Keep, decoder
<1>2. /\ ImageInv /\ gate = TRUE /\ DOMAIN mem = 0..MemTop /\ KernelStored /\ BssStored
      /\ HeaderError(ModuleHeader(image.kernel)) = 0
  BY <1>1 DEF BootInv, ImageInv, TypeOK, KernelInv, Accepted
<1>3. /\ image.kernel.size \in Nat /\ image.kernel.total \in Nat
      /\ image.kernel.size <= KernelMax /\ image.kernel.total <= KernelMax
  BY <1>2, HeaderFacts, KernelType
<1>4. /\ KText \in Nat /\ KernelMax \in Nat /\ MemTop \in Nat /\ Pages \in Nat /\ PageCells \in Nat
      /\ KText + KernelMax <= Pages /\ Pages + PageCells <= MemTop
  BY Layout
<1>5. DOMAIN Tables = 1..PageCells /\ \A i \in 1..PageCells : Tables[i] = <<"table", i>>
  BY DEF Tables
<1>6. /\ DOMAIN mem' = 0..MemTop
      /\ \A i \in 1..PageCells : Pages + i - 1 <= MemTop => mem'[Pages + i - 1] = Tables[i]
      /\ \A b \in 0..MemTop : b < Pages \/ b >= Pages + PageCells => mem'[b] = mem[b]
  BY <1>1, <1>2, <1>4, <1>5, WriteOpen
<1>7. ASSUME NEW a \in 0..MemTop, mem'[a] # mem[a]
      PROVE  a >= Pages /\ a < MemTop
  <2>1. ~(a < Pages \/ a >= Pages + PageCells)
    BY <1>6, <1>7
  <2> QED
    BY ONLY <1>4, <2>1, a \in 0..MemTop
<1>8. KernelStored' /\ BssStored'
  <2>1. ASSUME NEW i \in 1..KernelMax
        PROVE  mem'[KText + i - 1] = mem[KText + i - 1]
    <3>1. KText + i - 1 \in 0..MemTop /\ KText + i - 1 < Pages
      BY <1>4
    <3> QED
      BY <1>6, <3>1
  <2>2. KernelStored'
    <3> SUFFICES ASSUME NEW i \in 1..image.kernel.size, i <= image.kernel.cells
                 PROVE  mem'[KText + i - 1] = <<"kernel", i>>
      BY <1>1 DEF KernelStored
    <3>1. i \in 1..KernelMax
      BY <1>3, <1>4
    <3> QED
      BY <1>2, <2>1, <3>1 DEF KernelStored
  <2>3. BssStored'
    <3> SUFFICES ASSUME NEW i \in (image.kernel.size + 1)..image.kernel.total
                 PROVE  mem'[KText + i - 1] = Zero
      BY <1>1 DEF BssStored
    <3>1. i \in 1..KernelMax
      BY <1>3, <1>4
    <3> QED
      BY <1>2, <2>1, <3>1 DEF BssStored
  <2> QED
    BY <2>2, <2>3
<1>9. TablesStored'
  <2> SUFFICES ASSUME NEW i \in 1..PageCells
               PROVE  mem'[Pages + i - 1] = <<"table", i>>
    BY DEF TablesStored
  <2>1. Pages + i - 1 <= MemTop
    BY <1>4
  <2> QED
    BY <1>5, <1>6, <2>1
<1>10. ImageInv' /\ TheContainer' = TheContainer
  BY <1>1, <1>2, Fixed
<1>11. TypeOK'
  BY <1>1, <1>6 DEF BootInv, TypeOK, Ended
<1> QED
  BY <1>1, <1>7, <1>8, <1>9, <1>10, <1>11
     DEF BootInv, LoadInv, InfoInv, UnpackInv, KernelInv, AfterStage2, Verified, Accepted

LEMMA StepLong64 ==
  ASSUME BootInv, Long64
  PROVE  BootInv'
<1>1. /\ pc = "long" /\ pc' = "kernel"
      /\ UNCHANGED <<machine, image, drive, try, di, gate, mem, bi, esi, edi>>
  BY DEF Long64, Go, Keep, decoder
<1>2. ImageInv' /\ TheContainer' = TheContainer
  BY <1>1, Fixed DEF BootInv
<1>3. KernelStored' /\ BssStored' /\ TablesStored'
  BY <1>1, MemKept DEF BootInv, KernelInv
<1>4. TypeOK'
  BY <1>1 DEF BootInv, TypeOK, Ended
<1> QED
  BY <1>1, <1>2, <1>3, <1>4
     DEF BootInv, LoadInv, InfoInv, UnpackInv, KernelInv, AfterStage2, Verified, Accepted

LEMMA StepNothing ==
  ASSUME BootInv, UNCHANGED vars
  PROVE  BootInv'
<1>1. UNCHANGED <<machine, image, pc, drive, try, di, gate, mem, bi, esi, edi>>
  BY DEF vars, decoder
<1>2. ImageInv' /\ TheContainer' = TheContainer /\ TheModule' = TheModule /\ Warranted' = Warranted
  BY <1>1, Fixed DEF BootInv
<1>3. /\ Loaded => Loaded'
      /\ (MapStored => MapStored') /\ (BlobStored => BlobStored')
      /\ (Decoded(Len(TheModule)) => Decoded(Len(TheModule))') /\ (Decoded(edi) => Decoded(edi)')
      /\ (KernelStored => KernelStored') /\ (BssStored => BssStored')
      /\ TablesStored => TablesStored'
  BY <1>1, MemKept
<1>4. TypeOK'
  BY <1>1 DEF BootInv, TypeOK
<1>5. (\E s \in 0..(image.args.total - 1) : ~Reads(drive, PartLba + s)) =>
        (\E s \in 0..(image.args.total - 1) : ~Reads(drive, PartLba + s))'
  BY <1>1 DEF Reads, Answers
<1>6. LoadInv'
  BY <1>1, <1>3, <1>5 DEF BootInv, LoadInv
<1>7. InfoInv'
  BY <1>1, <1>2, <1>3 DEF BootInv, InfoInv
<1>8. UnpackInv'
  BY <1>1, <1>2, <1>3 DEF BootInv, UnpackInv
<1>9. KernelInv'
  BY <1>1, <1>3 DEF BootInv, KernelInv
<1> QED
  BY <1>2, <1>4, <1>6, <1>7, <1>8, <1>9 DEF BootInv

---------------------------------------------------------------------------
(* The theorems. *)
LEMMA BootInit ==
  ASSUME A20Open, Init
  PROVE  BootInv
<1>1. PICK in \in Inputs, raw \in BOOLEAN :
        /\ machine = in[1] /\ Buildable(in[2], raw)
        /\ \E s \in {0} \cup (Stage2Sectors..(Args(in[2], raw).total - 1)), ahead \in BOOLEAN :
             /\ ahead => Last(Pad(Container(in[2], raw))) # Zero
             /\ image = [kernel |-> in[2], raw |-> raw, args |-> Args(in[2], raw),
                         ahead |-> ahead, damaged |-> IF s = 0 THEN 0 ELSE PartLba + s]
  BY Zenon DEF Init
<1>2. PICK s \in {0} \cup (Stage2Sectors..(Args(in[2], raw).total - 1)), ahead \in BOOLEAN :
        /\ ahead => Last(Pad(Container(in[2], raw))) # Zero
        /\ image = [kernel |-> in[2], raw |-> raw, args |-> Args(in[2], raw),
                    ahead |-> ahead, damaged |-> IF s = 0 THEN 0 ELSE PartLba + s]
  BY <1>1
<1>3. /\ pc = "start" /\ drive = 0 /\ try = 0 /\ di = 0 /\ gate = machine.gate
      /\ mem = [a \in 0..MemTop |-> <<"junk">>] /\ bi = [err |-> 0] /\ esi = 0 /\ edi = 0
  BY DEF Init
<1>4. /\ image.kernel = in[2] /\ image.raw = raw /\ image.args = Args(image.kernel, image.raw)
      /\ image.damaged = IF s = 0 THEN 0 ELSE PartLba + s
      /\ image.ahead = ahead
  BY <1>2
<1>5. gate = TRUE
  BY <1>1, <1>3 DEF A20Open
<1>6. Buildable(image.kernel, image.raw)
  BY <1>1, <1>4
<1>7. /\ image.damaged \in Nat
      /\ image.damaged = 0
         \/ image.damaged - PartLba \in Stage2Sectors..(image.args.total - 1)
  <2>1. CASE s = 0
    BY <1>4, <2>1
  <2>2. CASE s # 0
    <3>1. s \in Stage2Sectors..(image.args.total - 1) /\ image.damaged = PartLba + s
      BY <1>4, <2>2
    <3>2. PartLba \in Nat /\ Stage2Sectors \in Nat
      BY Layout
    <3>3. s \in Nat
      BY ONLY <3>1, <3>2
    <3>4. image.damaged \in Nat /\ image.damaged - PartLba = s
      BY ONLY <3>1, <3>2, <3>3
    <3> QED
      BY ONLY <3>1, <3>4
  <2> QED
    BY <2>1, <2>2
<1>8. ImageInv
  <2>1. image.ahead => Last(Pad(TheContainer)) # Zero
    BY <1>2, <1>4 DEF TheContainer
  <2> QED
    BY <1>1, <1>4, <1>5, <1>6, <1>7, <2>1 DEF ImageInv
<1>9. TypeOK
  <2>1. image.args.total \in Nat
    BY <1>8, ArgsFacts
  <2>2. gate \in BOOLEAN
    BY ONLY <1>5, Zenon
  <2>3. bi.err = 0 /\ DOMAIN mem = 0..MemTop
    BY <1>3
  <2>4. pc \in {"start"} /\ drive = 0 /\ try = 0 /\ di = 0 /\ esi = 0 /\ edi = 0
    BY <1>3
  <2> QED
    BY ONLY <2>1, <2>2, <2>3, <2>4 DEF TypeOK, Ended
<1> QED
  BY <1>3, <1>8, <1>9
     DEF BootInv, LoadInv, InfoInv, UnpackInv, KernelInv, AfterStage2, Verified, Accepted

\* Where a step of each label may write.
LEMMA OwnFacts ==
  /\ Own("read") = Stage2..((Blob + BlobMax) - 1)
  /\ Own("e820") = E820Buf..((E820Buf + E820Max) - 1)
  /\ Own("unpack") = Scratch..(Pages - 1) /\ Own("item") = Scratch..(Pages - 1)
  /\ Own("copy") = KText..((KText + KernelMax) - 1)
  /\ Own("bss") = KText..((KText + KernelMax) - 1)
  /\ Own("pages") = Pages..(MemTop - 1)
<1>1. /\ Own("read") = Stage2..(Blob + BlobMax - 1)
      /\ Own("e820") = E820Buf..(E820Buf + E820Max - 1)
      /\ Own("unpack") = Scratch..(Pages - 1) /\ Own("item") = Scratch..(Pages - 1)
      /\ Own("copy") = KText..(KText + KernelMax - 1)
      /\ Own("bss") = KText..(KText + KernelMax - 1)
      /\ Own("pages") = Pages..(MemTop - 1)
  BY DEF Own
<1>2. /\ Blob + BlobMax - 1 = (Blob + BlobMax) - 1
      /\ E820Buf + E820Max - 1 = (E820Buf + E820Max) - 1
      /\ KText + KernelMax - 1 = (KText + KernelMax) - 1
  BY Layout
<1> QED
  BY <1>1, <1>2

\* Every step keeps the invariant and writes only where its data belongs.
LEMMA BootNext ==
  ASSUME BootInv, [Next]_vars
  PROVE  BootInv' /\ \A a \in DOMAIN mem : mem'[a] # mem[a] => a \in Own(pc)
<1> DEFINE Home == \A a \in DOMAIN mem : mem'[a] # mem[a] => a \in Own(pc)
<1>0. DOMAIN mem = 0..MemTop
  BY DEF BootInv, TypeOK
<1>A. mem' = mem => Home
  OBVIOUS
<1>B. ASSUME NEW lo \in Int, NEW hi \in Int, Own(pc) = lo..(hi - 1),
             \A a \in 0..MemTop : mem'[a] # mem[a] => a >= lo /\ a < hi
      PROVE  Home
  <2> SUFFICES ASSUME NEW a \in 0..MemTop, mem'[a] # mem[a] PROVE a \in lo..(hi - 1)
    BY <1>0, <1>B
  <2>1. a >= lo /\ a < hi /\ a \in Int
    BY <1>B, Layout
  <2> QED
    BY ONLY <2>1, lo \in Int, hi \in Int
<1>C. /\ Stage2 \in Int /\ Blob + BlobMax \in Int /\ E820Buf \in Int /\ E820Buf + E820Max \in Int
      /\ Scratch \in Int /\ Pages \in Int /\ KText \in Int /\ KText + KernelMax \in Int
      /\ MemTop \in Int
  BY Layout
<1> HIDE DEF Home
<1>1. CASE Start
  BY <1>1, <1>A, StepStart DEF Start, Home
<1>2. CASE ProbeHit
  BY <1>2, <1>A, StepProbeHit DEF ProbeHit, Home
<1>3. CASE ProbeMiss
  BY <1>3, <1>A, StepProbeMiss DEF ProbeMiss, Home
<1>4. CASE ReadChunk
  <2>1. pc = "read"
    BY <1>4 DEF ReadChunk
  <2>2. BootInv' /\ \A a \in 0..MemTop : mem'[a] # mem[a] => a >= Stage2 /\ a < Blob + BlobMax
    BY <1>4, StepReadChunk
  <2>3. Own(pc) = Stage2..((Blob + BlobMax) - 1)
    BY <2>1, OwnFacts
  <2>4. Home
    BY ONLY <1>B, <1>C, <2>2, <2>3, Zenon
  <2> QED
    BY <2>2, <2>4 DEF Home
<1>5. CASE ReadFails
  BY <1>5, <1>A, StepReadFails DEF ReadFails, Home
<1>6. CASE GoStage2
  BY <1>6, <1>A, StepGoStage2 DEF GoStage2, Home
<1>7. CASE A20
  BY <1>7, <1>A, StepA20 DEF A20, Home
<1>8. CASE CpuOk
  BY <1>8, <1>A, StepCpuOk DEF CpuOk, Home
<1>9. CASE CpuFails
  BY <1>9, <1>A, StepCpuFails DEF CpuFails, Home
<1>10. CASE E820Next
  <2>1. pc = "e820"
    BY <1>10 DEF E820Next
  <2>2. BootInv' /\ \A a \in 0..MemTop : mem'[a] # mem[a] => a >= E820Buf /\ a < E820Buf + E820Max
    BY <1>10, StepE820Next
  <2>3. Own(pc) = E820Buf..((E820Buf + E820Max) - 1)
    BY <2>1, OwnFacts
  <2>4. Home
    BY ONLY <1>B, <1>C, <2>2, <2>3, Zenon
  <2> QED
    BY <2>2, <2>4 DEF Home
<1>11. CASE E820Check
  BY <1>11, <1>A, StepE820Check DEF E820Check, Home
<1>12. CASE Protected
  BY <1>12, <1>A, StepProtected DEF Protected, Home
<1>13. CASE Adler
  BY <1>13, <1>A, StepAdler DEF Adler, Home
<1>14. CASE UnpackRaw
  <2>1. pc = "unpack"
    BY <1>14 DEF UnpackRaw
  <2>2. BootInv' /\ \A a \in 0..MemTop : mem'[a] # mem[a] => a >= Scratch /\ a < Pages
    BY <1>14, StepUnpackRaw
  <2>3. Own(pc) = Scratch..(Pages - 1)
    BY <2>1, OwnFacts
  <2>4. Home
    BY ONLY <1>B, <1>C, <2>2, <2>3, Zenon
  <2> QED
    BY <2>2, <2>4 DEF Home
<1>15. CASE UnpackBegin
  BY <1>15, <1>A, StepUnpackBegin DEF UnpackBegin, Home
<1>16. CASE UnpackItem
  <2>1. pc = "item"
    BY <1>16 DEF UnpackItem
  <2>2. BootInv' /\ \A a \in 0..MemTop : mem'[a] # mem[a] => a >= Scratch /\ a < Pages
    BY <1>16, StepUnpackItem
  <2>3. Own(pc) = Scratch..(Pages - 1)
    BY <2>1, OwnFacts
  <2>4. Home
    BY ONLY <1>B, <1>C, <2>2, <2>3, Zenon
  <2> QED
    BY <2>2, <2>4 DEF Home
<1>17. CASE UnpackEnd
  BY <1>17, <1>A, StepUnpackEnd DEF UnpackEnd, Home
<1>18. CASE Header
  BY <1>18, <1>A, StepHeader DEF Header, Home
<1>19. CASE Copy
  <2>1. pc = "copy"
    BY <1>19 DEF Copy
  <2>2. BootInv' /\ \A a \in 0..MemTop : mem'[a] # mem[a] => a >= KText /\ a < KText + KernelMax
    BY <1>19, StepCopy
  <2>3. Own(pc) = KText..((KText + KernelMax) - 1)
    BY <2>1, OwnFacts
  <2>4. Home
    BY ONLY <1>B, <1>C, <2>2, <2>3, Zenon
  <2> QED
    BY <2>2, <2>4 DEF Home
<1>20. CASE ZeroBss
  <2>1. pc = "bss"
    BY <1>20 DEF ZeroBss
  <2>2. BootInv' /\ \A a \in 0..MemTop : mem'[a] # mem[a] => a >= KText /\ a < KText + KernelMax
    BY <1>20, StepZeroBss
  <2>3. Own(pc) = KText..((KText + KernelMax) - 1)
    BY <2>1, OwnFacts
  <2>4. Home
    BY ONLY <1>B, <1>C, <2>2, <2>3, Zenon
  <2> QED
    BY <2>2, <2>4 DEF Home
<1>21. CASE BuildPages
  <2>1. pc = "pages"
    BY <1>21 DEF BuildPages
  <2>2. BootInv' /\ \A a \in 0..MemTop : mem'[a] # mem[a] => a >= Pages /\ a < MemTop
    BY <1>21, StepBuildPages
  <2>3. Own(pc) = Pages..(MemTop - 1)
    BY <2>1, OwnFacts
  <2>4. Home
    BY ONLY <1>B, <1>C, <2>2, <2>3, Zenon
  <2> QED
    BY <2>2, <2>4 DEF Home
<1>22. CASE Long64
  BY <1>22, <1>A, StepLong64 DEF Long64, Home
<1>23. CASE Done
  BY <1>23, <1>A, StepNothing DEF Done, vars, Home
<1>24. CASE UNCHANGED vars
  BY <1>24, <1>A, StepNothing DEF vars, Home
<1> QED
  BY <1>1, <1>2, <1>3, <1>4, <1>5, <1>6, <1>7, <1>8, <1>9, <1>10, <1>11, <1>12, <1>13, <1>14,
     <1>15, <1>16, <1>17, <1>18, <1>19, <1>20, <1>21, <1>22, <1>23, <1>24, Zenon DEF Next

(* When the firmware leaves A20 open, every state of every boot satisfies   *)
(* the invariant: what each step reads is what an earlier one stored.       *)
THEOREM BootInvariant ==
  ASSUME A20Open
  PROVE  Spec => []BootInv
<1>1. Init => BootInv
  BY BootInit
<1>2. BootInv /\ [Next]_vars => BootInv'
  BY BootNext
<1> QED
  BY <1>1, <1>2, PTL DEF Spec

\* The registers and the memory of the boot stay in range.
THEOREM BootTypeCorrect ==
  ASSUME A20Open
  PROVE  Spec => []TypeOK
<1>1. BootInv => TypeOK
  BY DEF BootInv
<1> QED
  BY <1>1, BootInvariant, PTL

(* The jump to the kernel is taken only from an undamaged image of the      *)
(* booted drive, with the kernel's bytes at KText, its .bss zero, its entry *)
(* inside it, the tables built and the firmware's memory map handed over.   *)
THEOREM KernelEntryIsSound ==
  ASSUME A20Open
  PROVE  Spec => []EntryIsSound
<1>1. BootInv => EntryIsSound
  <2> SUFFICES ASSUME BootInv, pc = "kernel"
               PROVE  LET k == image.kernel IN
                      /\ drive = machine.booted /\ bi.drive = drive
                      /\ machine.drives[drive].packet
                      /\ image.damaged = 0 /\ k.magic = "IZOK" /\ k.base = KText
                      /\ k.entry < k.size
                      /\ \A i \in 1..k.size : i <= k.cells =>
                           Read(KText, k.size)[i] = <<"kernel", i>>
                      /\ \A i \in (k.size + 1)..k.total : Read(KText, k.total)[i] = Zero
                      /\ Read(Pages, PageCells) = Tables
                      /\ bi.e820 # << >> /\ IsPrefix(bi.e820, machine.map)
    BY DEF EntryIsSound
  <2> DEFINE k == image.kernel
  <2>1. /\ ImageInv /\ gate = TRUE /\ drive = machine.booted /\ bi.drive = drive
        /\ machine.drives[drive].packet
        /\ image.damaged = 0 /\ bi.e820 # << >> /\ IsPrefix(bi.e820, machine.map)
        /\ KernelStored /\ BssStored /\ TablesStored
        /\ HeaderError(ModuleHeader(k)) = 0
    BY DEF BootInv, ImageInv, InfoInv, UnpackInv, KernelInv, AfterStage2, Verified, Accepted
  <2>2. k.magic = "IZOK" /\ k.base = KText /\ k.entry < k.size
    BY <2>1, HeaderFacts
  <2>3. k.size \in Nat /\ k.total \in Nat
    BY <2>1, KernelType
  <2>4. /\ Read(KText, k.size) = [i \in 1..k.size |-> mem[KText + i - 1]]
        /\ Read(KText, k.total) = [i \in 1..k.total |-> mem[KText + i - 1]]
        /\ Read(Pages, PageCells) = [i \in 1..PageCells |-> mem[Pages + i - 1]]
    BY <2>1, ReadOpen
  <2>5. \A i \in 1..k.size : i <= k.cells => Read(KText, k.size)[i] = <<"kernel", i>>
    BY <2>1, <2>4 DEF KernelStored
  <2>6. \A i \in (k.size + 1)..k.total : Read(KText, k.total)[i] = Zero
    <3> SUFFICES ASSUME NEW i \in (k.size + 1)..k.total PROVE Read(KText, k.total)[i] = Zero
      OBVIOUS
    <3>1. i \in 1..k.total
      BY <2>3
    <3> QED
      BY <2>1, <2>4, <3>1 DEF BssStored
  <2>7. Read(Pages, PageCells) = Tables
    BY <2>1, <2>4 DEF TablesStored, Tables
  <2> QED
    BY <2>1, <2>2, <2>5, <2>6, <2>7
<1> QED
  BY <1>1, BootInvariant, PTL

\* A boot that stops names a defect this machine or this image has.
THEOREM EveryStopIsExplained ==
  ASSUME A20Open
  PROVE  Spec => []StopIsExplained
<1>1. BootInv => StopIsExplained
  BY DEF BootInv, LoadInv, InfoInv, StopIsExplained
<1> QED
  BY <1>1, BootInvariant, PTL

\* No step writes where the data of another step lies.
THEOREM StepsWriteAtHome ==
  ASSUME A20Open
  PROVE  Spec => WritesStayHome
<1>1. BootInv /\ [Next]_vars =>
        [\A a \in DOMAIN mem : mem'[a] # mem[a] => a \in Own(pc)]_vars
  BY BootNext
<1> QED
  BY <1>1, BootInvariant, PTL DEF Spec, WritesStayHome

---------------------------------------------------------------------------
(* The checkers of the image file. *)
\* What they read from the file is the blob region of the boot area.
LEMMA FileFacts ==
  ASSUME ImageInv
  PROVE  Len(BlobCells) = Span(TheSectors) /\ HoldsArea(BlobCells)
<1> DEFINE T == image.args.total
           x == Span(Stage2Sectors)
           z == Span(TheSectors)
           y == Span(T)
           F == FileCells
           S == {F[i] : i \in 1..y}
<1>1. /\ T \in Nat /\ T = Stage2Sectors + TheSectors /\ y \in Nat /\ TheSectors \in Nat /\ z \in Nat
      /\ Stage2 + y = Blob + z
  BY ArgsFacts, PadFacts
<1>2. /\ Stage2Sectors \in Nat /\ SectorCells \in Nat /\ x \in Nat /\ Blob = Stage2 + x
      /\ Stage2 \in Nat /\ PartLba \in Nat
  BY Layout
<1>3. F = Transfer(machine.booted, PartLba, T)
  BY DEF FileCells
<1>4. /\ F = [c \in 1..y |-> F[c]] /\ Len(F) = y
  <2> DEFINE v(c) ==
               Sector(machine.booted, PartLba + (c - 1) \div SectorCells)[((c - 1) % SectorCells) + 1]
  <2>1. F = [c \in 1..y |-> v(c)]
    BY <1>3 DEF Transfer
  <2> HIDE DEF F, y, v
  <2>2. F = [c \in 1..y |-> F[c]]
    BY ONLY <2>1, Zenon
  <2>3. Len(F) = y
    BY ONLY <1>1, <2>1
  <2> QED
    BY <2>2, <2>3
<1>5. ASSUME NEW s \in 0..(T - 1), NEW j \in 1..SectorCells
      PROVE  Span(s) + j \in 1..y /\ F[Span(s) + j] = Sector(machine.booted, PartLba + s)[j]
  <2>1. \A e \in 0..(T - 1), i \in 1..SectorCells :
          /\ Span(e) + i \in 1..(Span(T))
          /\ Transfer(machine.booted, PartLba, T)[Span(e) + i]
               = Sector(machine.booted, PartLba + e)[i]
    BY <1>1, <1>2, TransferFacts, SMTT(30)
  <2>2. /\ Span(s) + j \in 1..(Span(T))
        /\ Transfer(machine.booted, PartLba, T)[Span(s) + j]
             = Sector(machine.booted, PartLba + s)[j]
    BY <2>1, Zenon
  <2> HIDE DEF F
  <2> QED
    BY <1>3, <2>2, Zenon
<1>6. y = x + z
  <2> HIDE DEF x, y, z
  <2> QED
    BY ONLY <1>1, <1>2
<1>7. BlobCells = SubSeq(F, x + 1, y) /\ \A i \in 1..y : F[i] \in S
  <2>1. Blob - Stage2 + 1 = x + 1
    <3> HIDE DEF x
    <3> QED
      BY ONLY <1>2
  <2> QED
    BY <1>4, <2>1 DEF BlobCells
<1> HIDE DEF x, y, z, S, F
<1>8. /\ BlobCells \in Seq(S) /\ Len(BlobCells) = z
      /\ \A i \in 1..z : BlobCells[i] = F[x + i]
  <2>1. /\ SubSeq(F, x + 1, y) \in Seq(S)
        /\ Len(SubSeq(F, x + 1, y)) = (IF x + 1 <= y THEN y - (x + 1) + 1 ELSE 0)
        /\ \A i \in 1..(y - (x + 1) + 1) : SubSeq(F, x + 1, y)[i] = F[(x + 1) + i - 1]
    <3>1. x + 1 \in Int /\ y \in Int /\ \A i \in (x + 1)..y : F[i] \in S
      BY <1>1, <1>2, <1>7
    <3> QED
      BY <3>1, SubSeqProperties
  <2>2. y - (x + 1) + 1 = z /\ \A i \in 1..z : (x + 1) + i - 1 = x + i
    BY ONLY <1>1, <1>2, <1>6
  <2>3. (IF x + 1 <= y THEN y - (x + 1) + 1 ELSE 0) = z
    BY ONLY <1>1, <1>2, <1>6
  <2> QED
    BY <1>7, <2>1, <2>2, <2>3
<1>9. BlobCells = [i \in 1..z |-> BlobCells[i]]
  BY <1>1, <1>8
<1>10. ASSUME NEW e \in 0..(TheSectors - 1), NEW j \in 1..SectorCells
       PROVE  /\ Span(e) + j \in 1..z
              /\ BlobCells[Span(e) + j]
                   = IF PartLba + (Stage2Sectors + e) = image.damaged THEN <<"damage">>
                     ELSE Padded[Span(e) + j]
  <2> DEFINE s == Stage2Sectors + e
             a == Span(e)
             b == Span(s)
  <2>1. e \in Nat /\ s \in 0..(T - 1) /\ ~(s < Stage2Sectors) /\ s - Stage2Sectors = e
        /\ e < TheSectors
    BY <1>1, <1>2
  <2>2. b = x + a
    BY ONLY <1>2, <2>1, SpanAdd, Zenon DEF x
  <2>3. a \in Nat /\ a + SectorCells <= z
    BY <1>1, <2>1, SpanNat, SpanLess DEF z
  <2>4. F[b + j] = Sector(machine.booted, PartLba + s)[j]
    BY <1>5, <2>1
  <2>5. Sector(machine.booted, PartLba + s)[j]
          = IF PartLba + s = image.damaged THEN <<"damage">> ELSE Padded[a + j]
    BY <2>1, AreaSector
  <2> HIDE DEF a, b
  <2>6. a + j \in 1..z /\ b + j = x + (a + j)
    BY ONLY <1>1, <1>2, <2>2, <2>3, j \in 1..SectorCells
  <2>7. BlobCells[a + j] = F[x + (a + j)]
    BY <1>8, <2>6
  <2>8. BlobCells[a + j] = IF PartLba + s = image.damaged THEN <<"damage">> ELSE Padded[a + j]
    BY <2>4, <2>5, <2>6, <2>7
  <2> QED
    BY <2>6, <2>8 DEF a
<1> QED
  BY <1>8, <1>9, <1>10 DEF HoldsArea, z

\* The checksum test of both tools finds exactly the damaged images.
LEMMA BlobSoundFacts ==
  ASSUME ImageInv
  PROVE  /\ BlobSound <=> image.damaged = 0
         /\ image.damaged = 0 => BlobCells = Padded
<1>1. BlobCells = Padded <=> image.damaged = 0
  BY FileFacts, DamageSeen
<1>2. /\ image.args.crc = Padded /\ image.args.total = Stage2Sectors + TheSectors
      /\ TheSectors \in Nat /\ TheSectors > 0 /\ Stage2Sectors \in Nat
  BY ArgsFacts, PadFacts, Layout
<1>3. image.args.total > Stage2Sectors
  BY ONLY <1>2
<1> QED
  BY <1>1, <1>2, <1>3 DEF BlobSound, Checksum

(* The Python decoder turns the padded container back into the module: after *)
(* n items it holds the cells those items stand for.                        *)
Held(n) == IF 2 * n <= Len(TheModule) THEN 2 * n ELSE Len(TheModule)
Begun(n) == [i \in 1..Held(n) |-> TheModule[i]]

\* One item brings the output from one beginning of the module to the next.
LEMMA ItemJoins ==
  ASSUME ImageInv, ~image.raw, NEW n \in Nat, n > 0
  PROVE  /\ Held(n - 1) >= Len(TheModule) => Begun(n) = Begun(n - 1)
         /\ Held(n - 1) < Len(TheModule) => Begun(n) = Begun(n - 1) \o Padded[n + 1][2]
<1> DEFINE L == Len(TheModule)
           N == Len(Items(TheModule))
<1>1. L \in Nat /\ N \in Nat /\ 2 * N >= L
  BY ItemFacts
<1>2. ASSUME Held(n - 1) >= L PROVE Begun(n) = Begun(n - 1)
  <2>1. Held(n) = L /\ Held(n - 1) = L
    BY <1>1, <1>2 DEF Held
  <2> QED
    BY <2>1 DEF Begun
<1>3. ASSUME Held(n - 1) < L PROVE Begun(n) = Begun(n - 1) \o Padded[n + 1][2]
  <2>1. Held(n - 1) = 2 * n - 2 /\ 2 * n - 2 < L /\ n \in 1..N /\ 2 * n - 2 \in Nat
    BY <1>1, <1>3 DEF Held
  <2>2. PICK run : Items(TheModule)[n] = <<"item", run>> /\ IsRun(run, n)
    BY <2>1, ItemFacts
  <2>3. Padded[n + 1] = <<"item", run>>
    <3>1. Len(TheContainer) = 1 + N /\ TheContainer[n + 1] = Items(TheModule)[n]
      BY <2>1, ContainerFacts, Zenon
    <3>2. n + 1 \in 1..Len(TheContainer)
      BY <1>1, <2>1, <3>1
    <3> QED
      BY <2>2, <3>1, <3>2, PadFacts
  <2> DEFINE m == 2 * n - 2
             r == RunLen(n)
             f == Begun(n - 1)
  <2>4. /\ r \in Nat /\ run = [j \in 1..r |-> run[j]] /\ \A j \in 1..r : run[j] = TheModule[m + j]
        /\ m + r = Held(n)
    <3>1. run = [j \in 1..r |-> run[j]] /\ \A j \in 1..r : run[j] = TheModule[m + j]
      BY <2>2, Zenon DEF IsRun
    <3>2. r \in Nat /\ m + r = Held(n)
      BY ONLY <1>1, <2>1, n \in Nat DEF RunLen, Held
    <3> QED
      BY <3>1, <3>2
  <2>5. f = [i \in 1..m |-> f[i]] /\ \A i \in 1..m : f[i] = TheModule[i]
    BY <2>1 DEF Begun
  <2>6. m \in Nat
    BY <2>1
  <2>B. Begun(n) = [i \in 1..(m + r) |-> TheModule[i]]
    BY <2>4 DEF Begun
  <2> HIDE DEF m, r, f
  <2>7. f \o run = [i \in 1..(m + r) |-> IF i <= m THEN f[i] ELSE run[i - m]]
    BY ONLY <2>4, <2>5, <2>6, Joined
  <2>8. \A i \in 1..(m + r) : (IF i <= m THEN f[i] ELSE run[i - m]) = TheModule[i]
    <3> SUFFICES ASSUME NEW i \in 1..(m + r)
                 PROVE  (IF i <= m THEN f[i] ELSE run[i - m]) = TheModule[i]
      OBVIOUS
    <3>1. CASE i <= m
      BY <2>5, <2>6, <3>1
    <3>2. CASE ~(i <= m)
      <4>1. i - m \in 1..r /\ m + (i - m) = i
        BY <2>4, <2>6, <3>2
      <4>2. run[i - m] = TheModule[m + (i - m)]
        BY ONLY <2>4, <4>1
      <4> QED
        BY <3>2, <4>1, <4>2
    <3> QED
      BY <3>1, <3>2
  <2>9. Begun(n) = f \o run
    BY ONLY <2>B, <2>7, <2>8, Zenon
  <2>10. Padded[n + 1][2] = run
    BY <2>3
  <2> QED
    BY <2>9, <2>10 DEF f
<1> QED
  BY <1>1, <1>2, <1>3

LEMMA PyOutputFacts ==
  ASSUME ImageInv, ~image.raw
  PROVE  PyOutput(Padded) = TheModule
<1> DEFINE box == Padded
           L == Len(TheModule)
           M == Len(box) - 1
           Step(g, n) == IF n = 0 THEN << >>
                         ELSE IF Len(g[n - 1]) >= box[1][3] THEN g[n - 1]
                         ELSE g[n - 1] \o box[n + 1][2]
           Rec(g) == [n \in 0..M |-> Step(g, n)]
           out == CHOOSE g : g = Rec(g)
           f == [n \in 0..M |-> Begun(n)]
<1>1. PyOutput(box) = out[M]
  BY Zenon DEF PyOutput
<1>2. M \in Nat /\ L \in Nat /\ 2 * M >= L /\ box[1][3] = L
  <2>1. /\ Len(Padded) = Span(TheSectors) /\ Span(TheSectors) \in Nat
        /\ Len(TheContainer) <= Span(TheSectors)
        /\ \A i \in 1..Len(TheContainer) : Padded[i] = TheContainer[i]
    BY PadFacts
  <2>2. /\ Len(TheContainer) \in Nat /\ Len(TheContainer) > 0
        /\ TheContainer[1] = <<"box", IF image.raw THEN "none" ELSE "QIZL", Len(TheModule)>>
        /\ Len(TheContainer) = 1 + Len(Items(TheModule))
    BY ContainerFacts, Zenon
  <2>3. Len(Items(TheModule)) \in Nat /\ L \in Nat /\ 2 * Len(Items(TheModule)) >= L
    BY ItemFacts
  <2>4. 1 \in 1..Len(TheContainer)
    BY ONLY <2>2
  <2>5. box[1][3] = L
    BY <2>1, <2>2, <2>4
  <2> QED
    BY ONLY <2>1, <2>2, <2>3, <2>5
<1>3. \A n \in Nat : Held(n) \in Nat /\ Held(n) <= L
  BY <1>2 DEF Held
<1>4. \A n \in Nat : Len(Begun(n)) = Held(n)
  <2> SUFFICES ASSUME NEW n \in Nat PROVE Len(Begun(n)) = Held(n)
    OBVIOUS
  <2>1. Held(n) \in Nat
    BY <1>3
  <2> QED
    BY <2>1 DEF Begun
<1>5. Begun(0) = << >>
  <2>1. Held(0) = 0
    BY <1>2 DEF Held
  <2> QED
    BY <2>1 DEF Begun
<1>6. Begun(M) = TheModule
  <2>1. Held(M) = L
    BY <1>2 DEF Held
  <2> QED
    BY <2>1, ModuleFacts DEF Begun
<1> HIDE DEF box, M, L
<1>7. ASSUME NEW g, NEW n \in 1..M, g[n - 1] = Begun(n - 1)
      PROVE  Step(g, n) = Begun(n)
  <2>1. n \in Nat /\ n > 0 /\ n - 1 \in Nat /\ n # 0
    BY <1>2
  <2>2. Len(g[n - 1]) = Held(n - 1) /\ Held(n - 1) \in Nat
    BY <1>3, <1>4, <1>7, <2>1
  <2>3. /\ Held(n - 1) >= L => Begun(n) = Begun(n - 1)
        /\ Held(n - 1) < L => Begun(n) = Begun(n - 1) \o box[n + 1][2]
    BY <2>1, ItemJoins, Zenon DEF L, box
  <2>4. CASE Held(n - 1) >= L
    BY <1>2, <1>7, <2>1, <2>2, <2>3, <2>4
  <2>5. CASE ~(Held(n - 1) >= L)
    <3>1. Held(n - 1) < L
      BY ONLY <1>2, <2>2, <2>5
    <3> QED
      BY <1>2, <1>7, <2>1, <2>2, <2>3, <2>5, <3>1
  <2> QED
    BY <2>4, <2>5
<1>8. f = Rec(f)
  <2> SUFFICES ASSUME NEW n \in 0..M PROVE Begun(n) = Step(f, n)
    BY Zenon
  <2>1. CASE n = 0
    BY <1>5, <2>1
  <2>2. CASE n # 0
    <3>1. n \in 1..M /\ n - 1 \in 0..M
      BY <1>2, <2>2
    <3>2. f[n - 1] = Begun(n - 1)
      BY <3>1
    <3> HIDE DEF f, Step
    <3> QED
      BY <1>7, <3>1, <3>2
  <2> QED
    BY <2>1, <2>2
<1>9. out = Rec(out)
  <2> HIDE DEF Rec, f
  <2> QED
    BY <1>8, Zenon
<1> HIDE DEF out, f, Step
<1>10. \A n \in 0..M : out[n] = Step(out, n)
  BY <1>9, Zenon
<1> HIDE DEF Rec
<1>11. \A n \in 0..M : out[n] = Begun(n)
  <2> DEFINE B == {n \in 0..M : out[n] # Begun(n)}
  <2> SUFFICES ASSUME B # {} PROVE FALSE
    OBVIOUS
  <2>1. B \in SUBSET Nat
    BY <1>2
  <2>2. PICK n \in B : \A m \in B : n <= m
    BY <2>1, NatMin
  <2>3. n # 0
    BY <1>2, <1>5, <1>10, <2>2 DEF Step
  <2>4. n \in 1..M /\ n - 1 \in 0..M /\ ~(n <= n - 1)
    BY <1>2, <2>3
  <2>5. out[n - 1] = Begun(n - 1)
    BY <2>2, <2>4
  <2>6. Step(out, n) = Begun(n)
    BY <1>7, <2>4, <2>5
  <2> QED
    BY <1>10, <2>2, <2>6
<1>12. M \in 0..M
  BY <1>2
<1> QED
  BY <1>1, <1>6, <1>11, <1>12 DEF box

(* Of a header that passes the other tests the load base alone decides. *)
LEMMA HeaderBase ==
  ASSUME ImageInv, image.kernel.magic = "IZOK", image.kernel.size <= KernelMax,
         image.kernel.total <= KernelMax, image.kernel.total >= image.kernel.size,
         image.kernel.entry < image.kernel.size
  PROVE  HeaderError(ModuleHeader(image.kernel))
           = IF image.kernel.base = KText THEN 0 ELSE 29
<1> DEFINE k == image.kernel
           cell == ModuleHeader(k)
           h == cell[2]
           tests == << <<h.size > KernelMax, 26>>, <<h.total > KernelMax, 27>>,
                       <<h.total < h.size, 28>>, <<h.ktext # KText, 29>>,
                       <<h.entry >= h.size, 22>> >>
           failed == {i \in DOMAIN tests : tests[i][1]}
           err == IF failed = {} THEN 0 ELSE tests[Min(failed)][2]
<1>1. /\ cell[1] = "IZOK" /\ h.magic = k.magic /\ h.size = k.size /\ h.total = k.total
      /\ h.ktext = k.base /\ h.entry = k.entry
  BY DEF ModuleHeader
<1>2. cell = ModuleHeader(k)
  OBVIOUS
<1> HIDE DEF cell
<1>3. HeaderError(cell) = IF cell[1] # "IZOK" \/ h.magic # "IZOK" THEN 25 ELSE err
  BY DEF HeaderError
<1>4. k.size \in Nat /\ k.total \in Nat /\ k.entry \in Nat /\ KernelMax \in Nat
  BY KernelType, Layout
<1>5. /\ ~(h.size > KernelMax) /\ ~(h.total > KernelMax) /\ ~(h.total < h.size)
      /\ ~(h.entry >= h.size)
  BY <1>1, <1>4
<1>6. /\ DOMAIN tests = 1..5 /\ tests[4][2] = 29 /\ (tests[4][1] <=> h.ktext # KText)
      /\ ~tests[1][1] /\ ~tests[2][1] /\ ~tests[3][1] /\ ~tests[5][1]
  <2>1. DOMAIN tests = 1..5 /\ tests[4][2] = 29
    OBVIOUS
  <2>2. ~tests[1][1] /\ ~tests[2][1] /\ ~tests[3][1] /\ ~tests[5][1]
    BY <1>5
  <2>3. CASE h.ktext = KText
    <3>1. ~tests[4][1]
      BY <2>3
    <3> QED
      BY <2>1, <2>2, <2>3, <3>1
  <2>4. CASE h.ktext # KText
    <3>1. tests[4][1]
      BY <2>4
    <3> QED
      BY <2>1, <2>2, <2>4, <3>1
  <2> QED
    BY <2>3, <2>4
<1> HIDE DEF tests
<1>7. failed = IF h.ktext = KText THEN {} ELSE {4}
  <2>1. \A i \in 1..5 : tests[i][1] => i = 4
    BY <1>6
  <2> QED
    BY <1>6, <2>1
<1> HIDE DEF failed
<1>8. Min({4}) = 4
  BY DEF Min
<1>9. err = IF h.ktext = KText THEN 0 ELSE 29
  BY <1>6, <1>7, <1>8
<1> HIDE DEF err
<1> QED
  BY <1>1, <1>2, <1>3, <1>9

\* What both tools see of an undamaged, compressed image.
LEMMA ToolsSee ==
  ASSUME ImageInv, image.damaged = 0
  PROVE  /\ BlobSound /\ BlobCells = Padded /\ Len(BlobCells) = Span(TheSectors)
         /\ BlobCells[1][2] = "QIZL" <=> ~image.raw
         /\ BlobCells[1][3] = Len(TheModule)
         /\ ~image.raw => PyOutput(BlobCells) = TheModule /\ CheckOutput = TheModule
<1>1. BlobSound /\ BlobCells = Padded /\ Len(BlobCells) = Span(TheSectors)
  BY BlobSoundFacts, FileFacts
<1>2. /\ Len(TheContainer) \in Nat /\ Len(TheContainer) > 0
      /\ TheContainer[1] = <<"box", IF image.raw THEN "none" ELSE "QIZL", Len(TheModule)>>
  BY ContainerFacts, Zenon
<1>3. 1 \in 1..Len(TheContainer)
  BY ONLY <1>2
<1>4. BlobCells[1] = <<"box", IF image.raw THEN "none" ELSE "QIZL", Len(TheModule)>>
  BY <1>1, <1>2, <1>3, PadFacts, Zenon
<1>5. BlobCells[1][2] = "QIZL" <=> ~image.raw
  BY <1>4, image.raw \in BOOLEAN DEF ImageInv
<1>6. BlobCells[1][3] = Len(TheModule)
  BY <1>4
<1>7. ~image.raw => PyOutput(BlobCells) = TheModule
  BY <1>1, PyOutputFacts
<1>8. ~image.raw => CheckOutput = TheModule
  BY <1>5, <1>7 DEF CheckOutput
<1> QED
  BY <1>1, <1>5, <1>6, <1>7, <1>8

(* What both tools pass, stage 2 refuses for its load base, which neither of *)
(* them compares, or for a sum that ends ahead of theirs on a blob without   *)
(* padding: the checkers miss nothing else about an image.                   *)
THEOREM PassedImagesBoot ==
  ASSUME A20Open
  PROVE  Spec => []PassedMeansBoots
<1>1. BootInv => PassedMeansBoots
  <2> SUFFICES ASSUME BootInv, pc = "halted", bi.err \in ImageErrors, QizoCheckPasses,
                      BootModelPasses
               PROVE  \/ bi.err = 29 /\ image.kernel.base # KText
                      \/ bi.err = 23 /\ image.ahead /\ Last(BlobCells) # Zero
    BY DEF PassedMeansBoots
  <2> DEFINE k == image.kernel
             H == HeaderError(ModuleHeader(k))
  <2>1. ImageInv /\ bi.err # 0 /\ bi.err \in Warranted
    BY DEF BootInv, InfoInv
  <2>2. image.damaged = 0
    BY <2>1, BlobSoundFacts DEF BootModelPasses
  <2>3. ~image.raw
    BY <2>1, <2>2, ToolsSee DEF BootModelPasses
  <2>4. PyOutput(BlobCells) = TheModule /\ CheckOutput = TheModule
    BY <2>1, <2>2, <2>3, ToolsSee
  <2>5. TheModule[1][2] = ModuleHeader(k)[2]
    BY <2>1, ModuleFacts
  <2>6. /\ ModuleHeader(k)[2].magic = k.magic /\ ModuleHeader(k)[2].size = k.size
        /\ ModuleHeader(k)[2].total = k.total /\ ModuleHeader(k)[2].entry = k.entry
    BY DEF ModuleHeader
  <2>7. ModelHeader(TheModule) /\ CheckModule(TheModule)
    BY <2>4 DEF BootModelPasses, QizoCheckPasses
  <2>8. /\ k.magic = "IZOK" /\ k.size <= KernelMax /\ k.total <= KernelMax
        /\ k.entry < k.size /\ k.total >= k.size + HDR
    BY <2>5, <2>6, <2>7 DEF ModelHeader, CheckModule
  <2>9. k.total >= k.size
    BY <2>1, <2>8, KernelType DEF HDR
  <2>10. H = IF k.base = KText THEN 0 ELSE 29
    BY <2>1, <2>8, <2>9, HeaderBase
  <2>11. bi.err \in {18, 19, 20, H} \/ (bi.err = 23 /\ image.ahead)
    BY <2>1, <2>2, <2>3 DEF Warranted
  <2>12. bi.err \notin {18, 19, 20}
    BY DEF ImageErrors
  <2>13. image.ahead => Last(BlobCells) # Zero
    BY <2>1, <2>2, BlobSoundFacts DEF ImageInv, Padded
  <2> QED
    BY <2>1, <2>10, <2>11, <2>12, <2>13
<1> QED
  BY <1>1, BootInvariant, PTL

(* What mkqizoimg wrote and stage 2 started, the boot model passes, and     *)
(* qizocheck passes exactly when .bss is as long as the module header.      *)
THEOREM BootedImagesPass ==
  ASSUME A20Open
  PROVE  Spec => []BootsMeansPassed
<1>1. BootInv => BootsMeansPassed
  <2> SUFFICES ASSUME BootInv, pc = "kernel", image.kernel.tool
               PROVE  /\ BootModelPasses
                      /\ QizoCheckPasses <=> image.kernel.total - image.kernel.size >= HDR
    BY DEF BootsMeansPassed
  <2> DEFINE k == image.kernel
             h == TheModule[1][2]
             w == Span(TheSectors)
  <2>1. ImageInv /\ image.damaged = 0 /\ ~image.raw /\ HeaderError(ModuleHeader(k)) = 0
    BY DEF BootInv, UnpackInv, KernelInv, Verified, Accepted
  <2>2. /\ BlobSound /\ Len(BlobCells) = w /\ BlobCells[1][2] = "QIZL"
        /\ BlobCells[1][3] = Len(TheModule)
        /\ PyOutput(BlobCells) = TheModule /\ CheckOutput = TheModule
    BY <2>1, ToolsSee
  <2>3. /\ h.magic = k.magic /\ h.size = k.size /\ h.total = k.total /\ h.entry = k.entry
    BY <2>1, ModuleFacts DEF ModuleHeader
  <2>4. /\ k.magic = "IZOK" /\ k.entry < k.size /\ k.size <= KernelMax /\ k.total <= KernelMax
        /\ k.size <= k.total
    BY <2>1, HeaderFacts
  <2>5. k.size = k.cells
    BY <2>1 DEF ImageInv, Buildable
  <2>6. k.size \in Nat /\ k.total \in Nat /\ k.entry \in Nat
    BY <2>1, KernelType
  <2>7. /\ Len(TheModule) = k.size + 1 /\ TheModule = [i \in 1..Len(TheModule) |-> TheModule[i]]
        /\ \A i \in 1..k.size : TheModule[i + 1] = <<"kernel", i>>
    BY <2>1, <2>5, ModuleFacts
  <2>8. w \in Nat /\ w <= BlobMax /\ Stage2 + Span(image.args.total) = Blob + w
    BY <2>1, PadFacts, ArgsFacts
  <2>9. ModelReads
    <3> HIDE DEF w
    <3> QED
      BY <2>8, Layout DEF ModelReads
  <2>10. ModelHeader(TheModule)
    BY <2>3, <2>4, <2>6, <2>7 DEF ModelHeader, HDR
  <2>11. ModelCopies(TheModule)
    <3> DEFINE n == k.size
               p == TheModule
               S == {p[i] : i \in 1..(n + 1)}
               q == SubSeq(p, 2, n + 1)
    <3>1. n \in Nat /\ \A i \in 2..(n + 1) : p[i] \in S
      BY <2>6
    <3>2. \A i \in 1..n : p[i + 1] = <<"kernel", i>>
      BY <2>7
    <3> HIDE DEF n, p, S
    <3>3. /\ q \in Seq(S) /\ Len(q) = n
          /\ \A i \in 1..n : q[i] = p[i + 1]
      <4>1. /\ q \in Seq(S)
            /\ Len(q) = (IF 2 <= n + 1 THEN (n + 1) - 2 + 1 ELSE 0)
            /\ \A i \in 1..((n + 1) - 2 + 1) : q[i] = p[2 + i - 1]
        BY <3>1, SubSeqProperties, 2 \in Int, n + 1 \in Int
      <4>2. (n + 1) - 2 + 1 = n /\ (IF 2 <= n + 1 THEN (n + 1) - 2 + 1 ELSE 0) = n
            /\ \A i \in 1..n : 2 + i - 1 = i + 1
        BY ONLY <3>1
      <4> HIDE DEF q
      <4> QED
        BY <4>1, <4>2
    <3> HIDE DEF q
    <3>4. q = [i \in 1..n |-> <<"kernel", i>>]
      <4>1. q \in [1..n -> S] /\ \A i \in 1..n : q[i] = <<"kernel", i>>
        BY ONLY <3>1, <3>2, <3>3, LenProperties
      <4> QED
        BY ONLY <4>1, Zenon
    <3>5. KernelCells(k) = [i \in 1..n |-> <<"kernel", i>>]
      BY <2>5 DEF KernelCells, n
    <3>6. SubSeq(TheModule, HDR + 1, HDR + h.size) = q
      <4>1. HDR + 1 = 2 /\ HDR + h.size = n + 1
        BY <2>3, <3>1 DEF HDR, n
      <4> QED
        BY <4>1 DEF q, p
    <3> QED
      BY <3>4, <3>5, <3>6 DEF ModelCopies
  <2>12. ModelRegions(TheModule)
    <3>1. Max({h.size, h.total}) = k.total
      BY <2>3, <2>4, <2>6 DEF Max
    <3> DEFINE rs == << <<Stage2, Blob + BlobMax - Stage2>>, <<E820Buf, E820Max>>,
                        <<KText, k.total>>, <<Scratch, KernelMax + HDR>>,
                        <<Pages, PageCells>> >>
    <3>2. /\ Stage2 + (Blob + BlobMax - Stage2) <= E820Buf /\ E820Buf + E820Max <= KText
          /\ KText + k.total <= Scratch /\ Scratch + (KernelMax + HDR) <= Pages
      BY <2>4, <2>6, Layout DEF HDR
    <3>3. \A i \in 1..4 : rs[i][1] + rs[i][2] <= rs[i + 1][1]
      <4> SUFFICES ASSUME NEW i \in 1..4 PROVE rs[i][1] + rs[i][2] <= rs[i + 1][1]
        OBVIOUS
      <4>1. i = 1 \/ i = 2 \/ i = 3 \/ i = 4
        OBVIOUS
      <4> QED
        BY <3>2, <4>1
    <3>4. Len(rs) - 1 = 4
      OBVIOUS
    <3>5. Fits(rs)
      <4> HIDE DEF rs
      <4> QED
        BY <3>3, <3>4 DEF Fits
    <3> QED
      BY <3>1, <3>5 DEF ModelRegions
  <2>13. BootModelPasses
    BY <2>2, <2>9, <2>10, <2>11, <2>12, Zenon DEF BootModelPasses
  <2>14. CheckRegions(TheModule)
    <3> HIDE DEF w
    <3>1. Blob + Len(BlobCells) <= E820Buf
      BY <2>2, <2>8, Layout
    <3>2. KText + k.total <= Scratch /\ Scratch + k.total <= Pages
      BY <2>4, <2>6, Layout
    <3> QED
      BY <2>3, <3>1, <3>2 DEF CheckRegions
  <2>15. CheckModule(TheModule) <=> k.total - k.size >= HDR
    <3>1. k.total >= k.size + HDR <=> k.total - k.size >= HDR
      BY <2>6 DEF HDR
    <3>2. k.size + HDR = Len(TheModule)
      BY <2>7 DEF HDR
    <3> QED
      BY <2>3, <2>4, <3>1, <3>2 DEF CheckModule
  <2>16. QizoCheckPasses <=> k.total - k.size >= HDR
    BY <2>2, <2>14, <2>15, Zenon DEF QizoCheckPasses
  <2> QED
    BY <2>13, <2>16
<1> QED
  BY <1>1, BootInvariant, PTL
===========================================================================
