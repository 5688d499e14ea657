--------------------------- MODULE HarnessProofs ---------------------------
(***************************************************************************)
(* The verdict of qizoasmrun is sound for every size of page table, every   *)
(* host and every single fault of the code it runs.                         *)
(***************************************************************************)
EXTENDS Harness, KernelLemmas

(* What is left to do at each point. *)
AfterReport == {"gates", "finish"}
AfterIdt == {"report"} \cup AfterReport
AfterMarker == {"idt"} \cup AfterIdt
AfterPages == {"marker"} \cup AfterMarker
AfterDecomp == {"pages"} \cup AfterPages
Running == {"decomp"} \cup AfterDecomp

\* The cases whose code has stored nothing yet.
Unbegun ==
  (IF pc \in {"reference", "decomp"} THEN Cases ELSE {})
  \cup (IF pc \in {"pages", "marker"} THEN {"idt", "report", "gates"} ELSE {})
  \cup (IF pc = "idt" THEN {"report", "gates"} ELSE {})
  \cup (IF pc = "report" THEN {"gates"} ELSE {})
  \cup (IF pc \in Cases /\ n = 0 THEN {pc} ELSE {})

Slots == 0..(6 * Entries - 1)

\* The entry qizo_build_pages has to leave at a place, and after how many
\* stores it is there.
RightEntry(at) ==
  IF at = 0 THEN [frame |-> Base + 1, flags |-> PT_DIR, hi |-> 0]
  ELSE IF at \in Entries..(Entries + 3)
    THEN [frame |-> Base + 2 + at - Entries, flags |-> PT_DIR, hi |-> 0]
  ELSE IF at \in (2 * Entries)..(6 * Entries - 1)
    THEN [frame |-> 512 * (at - 2 * Entries), flags |-> PT_PAGE, hi |-> 0]
  ELSE Empty

Written(at, m) ==
  \/ at = 0
  \/ at \in Entries..(Entries + 3) /\ at - Entries + 1 < m
  \/ at \in (2 * Entries)..(6 * Entries - 1) /\ at - 2 * Entries + 5 < m

\* One store may have been wrong.
PagesHold(m) ==
  /\ DOMAIN mem.pages = Slots
  /\ \A at \in Slots :
       mem.pages[at] = IF ~Written(at, m) THEN Empty
                       ELSE IF Hit("pages", "store") /\ fault.at = at THEN fault.value
                       ELSE RightEntry(at)

EaxHolds ==
  /\ n \in 1..4 => eax = [frame |-> Base + 1 + n, flags |-> IF n = 1 THEN {} ELSE PT_DIR,
                          hi |-> 0]
  /\ n \in 5..(4 * Entries + 5) => eax = [frame |-> 512 * (n - 5), flags |-> {}, hi |-> 0]

RightGate(v) ==
  [lo |-> Stub(v) % Two16, sel |-> 8, attr |-> GATE_ATTR,
   mid |-> (Stub(v) \div Two16) % Two16, hi |-> (Stub(v) \div Two16) \div Two16, rsv |-> 0]

RightWords(v) ==
  [words |-> <<(Stub(v) % Two16) + 40 * Two16,
               (Stub(v) - (Stub(v) % Two16)) + GATE_ATTR, 0, 0>>]

IdtHolds ==
  /\ DOMAIN mem.idt = 0..(n - 1)
  /\ \A v \in 0..(n - 1) :
       mem.idt[v] = IF Hit("idt", "store") /\ fault.at = v THEN fault.value ELSE RightGate(v)

GatesHold ==
  /\ DOMAIN mem.gates = 0..(n - 1)
  /\ \A v \in 0..(n - 1) :
       mem.gates[v] = IF Hit("gates", "store") /\ fault.at = v THEN fault.value ELSE RightWords(v)

PagesInv ==
  /\ pc = "pages" => n <= 4 * Entries + 5 /\ (n > 0 => PagesHold(n) /\ EaxHolds)
  /\ pc \in AfterPages => Identity /\ NothingAbove /\ ~Hit("pages", "short")

IdtInv ==
  /\ pc = "idt" => n <= 256 /\ IdtHolds
  /\ pc \in AfterIdt => \A v \in 0..255 : GateLeads(v)

ReportInv ==
  /\ pc = "report" => n <= 1 /\ (n = 1 /\ ~Hit("report", "store") => mem.report = Wanted)
  /\ pc \in AfterReport => mem.report = Wanted

GatesInv == pc = "gates" => n <= 32 /\ GatesHold

FaultInv ==
  /\ pc \in Running => fault.case # "blob" /\ tmp = TRUE
  /\ pc \in AfterDecomp => fault.case # "decomp" /\ mem.decomp = <<"same">>
  /\ pc \in AfterMarker => fault.case # "marker"

BaseInv ==
  /\ host \in Hosts /\ fault \in Faults /\ keep \in BOOLEAN /\ n \in Nat
  /\ pc \in {"reference", "end"} \cup Running
  /\ pc = "reference" => tmp = FALSE
  /\ DOMAIN mem = Cases /\ mem = [c \in Cases |-> mem[c]]
  /\ \A c \in Unbegun : mem[c] = << >>

HarnessInv ==
  /\ BaseInv /\ FaultInv /\ PagesInv /\ IdtInv /\ ReportInv /\ GatesInv
  /\ VerdictSound /\ SkipExplained
---------------------------------------------------------------------------
(* Facts on the inputs, and the steps that end a run or go on to a case.    *)

LEMMA InputFacts ==
  ASSUME HarnessInv
  PROVE  /\ Entries \in Nat /\ Entries >= 4
         /\ host.bits32 \in BOOLEAN /\ host.bits64 \in BOOLEAN /\ host.nm \in BOOLEAN
         /\ \/ fault.kind = "none" /\ fault.case \in {"none", "blob", "marker"}
            \/ fault.kind \in {"crash", "short", "store"} /\ fault.case \in Cases
         /\ Hit("pages", "store") => fault.value.frame \in Nat
         /\ Hit("idt", "store") => fault.value.attr \in Nat
<1>1. host \in [bits32 : BOOLEAN, bits64 : BOOLEAN, nm : BOOLEAN] /\ fault \in Faults
  BY HarnessAssumption DEF HarnessInv, BaseInv
<1>2. /\ \/ fault.kind = "none" /\ fault.case \in {"none", "blob", "marker"}
         \/ fault.kind \in {"crash", "short", "store"} /\ fault.case \in Cases
      /\ fault.kind = "store" /\ fault.case = "pages" => fault.value.frame \in Nat
      /\ fault.kind = "store" /\ fault.case = "idt" => fault.value.attr \in Nat
  BY <1>1, HarnessAssumption
<1> QED
  BY <1>1, <1>2, EntriesAssumption DEF Hit

\* A step to the end has its verdict to justify and nothing else.
LEMMA EndStep ==
  ASSUME HarnessInv, pc' = "end", UNCHANGED <<host, fault, keep, n, mem>>,
         VerdictSound', SkipExplained'
  PROVE  HarnessInv'
<1>1. BaseInv'
  BY DEF HarnessInv, BaseInv, Unbegun, Running, AfterDecomp, AfterPages, AfterMarker, AfterIdt,
         AfterReport, Cases
<1>2. FaultInv' /\ PagesInv' /\ IdtInv' /\ ReportInv' /\ GatesInv'
  BY DEF FaultInv, PagesInv, IdtInv, ReportInv, GatesInv, Running, AfterDecomp, AfterPages,
         AfterMarker, AfterIdt, AfterReport
<1> QED
  BY <1>1, <1>2 DEF HarnessInv

\* A failure has a cause, and leaves the scratch directory.
LEMMA FailStep ==
  ASSUME HarnessInv, pc \in Running, Verdict(1, FALSE),
         UNCHANGED <<host, fault, keep, n, eax, mem, tmp>>,
         fault.case # "none" \/ ~host.nm
  PROVE  HarnessInv'
<1>1. pc' = "end" /\ exit' = 1 /\ skipped' = FALSE
  BY DEF Verdict
<1>2. fault.case # "blob" /\ tmp = TRUE
  BY DEF HarnessInv, FaultInv
<1>3. VerdictSound' /\ SkipExplained'
  BY <1>1, <1>2 DEF VerdictSound, SkipExplained
<1> QED
  BY <1>1, <1>3, EndStep

LEMMA TablesSame ==
  ASSUME mem'.pages = mem.pages, Identity, NothingAbove
  PROVE  Identity' /\ NothingAbove'
<1>1. ASSUME NEW s \in 0..(4 * Entries - 1) PROVE Walks(s)'
  <2>1. Walks(s)
    BY DEF Identity
  <2>2. \A p, i : Ent(p, i)' = Ent(p, i)
    BY DEF Ent
  <2> QED
    BY <2>1, <2>2, Zenon DEF Walks, TableAt
<1>2. NothingAbove'
  BY DEF NothingAbove, Ent
<1> QED
  BY <1>1, <1>2 DEF Identity

LEMMA GatesSame ==
  ASSUME mem'.idt = mem.idt, NEW v, GateLeads(v)
  PROVE  GateLeads(v)'
  BY DEF GateLeads, Stub

---------------------------------------------------------------------------
(* The cases one after the other.                                           *)

LEMMA ReferenceStep ==
  ASSUME HarnessInv, Reference
  PROVE  HarnessInv'
<1>1. pc = "reference" /\ UNCHANGED <<host, fault, keep, mem>> /\ tmp = FALSE
  BY DEF Reference, HarnessInv, BaseInv
<1>2. CASE fault.case = "blob"
  <2>1. pc' = "end" /\ exit' = 1 /\ skipped' = FALSE /\ UNCHANGED <<n, tmp>>
    BY <1>2 DEF Reference, Verdict
  <2>2. VerdictSound' /\ SkipExplained'
    BY <1>1, <1>2, <2>1 DEF VerdictSound, SkipExplained
  <2> QED
    BY <1>1, <2>1, <2>2, EndStep
<1>3. CASE fault.case # "blob"
  <2>1. pc' = "decomp" /\ n' = 0 /\ tmp' = TRUE
    BY <1>3 DEF Reference, Go
  <2>2. BaseInv'
    BY <1>1, <2>1 DEF HarnessInv, BaseInv, Unbegun, Running, Cases
  <2>3. FaultInv' /\ PagesInv' /\ IdtInv' /\ ReportInv' /\ GatesInv'
    BY <1>1, <1>3, <2>1 DEF FaultInv, PagesInv, IdtInv, ReportInv, GatesInv, Running, AfterDecomp,
       AfterPages, AfterMarker, AfterIdt, AfterReport
  <2> QED
    BY <2>1, <2>2, <2>3 DEF HarnessInv, VerdictSound, SkipExplained
<1> QED
  BY <1>2, <1>3

\* A case is skipped before it has stored anything.
LEMMA SkipStep ==
  ASSUME HarnessInv, Skip
  PROVE  HarnessInv'
<1>1. /\ pc \in Cases /\ n = 0 /\ ~Runs(pc)
      /\ pc' = "end" /\ exit' = 0 /\ skipped' = TRUE
      /\ UNCHANGED <<host, fault, keep, n, mem, tmp>>
  BY DEF Skip, Verdict
<1>2. mem[pc] = << >> /\ pc \in Running
  BY <1>1 DEF HarnessInv, BaseInv, Unbegun, Cases, Running, AfterDecomp, AfterPages,
     AfterMarker, AfterIdt, AfterReport
<1>3. VerdictSound'
  BY <1>1 DEF VerdictSound
<1>4. SkipExplained'
  <2>1. fault.case # "blob"
    BY <1>2 DEF HarnessInv, FaultInv
  <2>2. ~host[Width(pc)] \/ (fault.case = pc /\ fault.kind = "crash")
    BY <1>1 DEF Runs, Hit
  <2>3. CASE fault.case = pc /\ fault.kind = "crash"
    BY <1>1, <1>2, <2>1, <2>3 DEF SkipExplained, Hit, Cases
  <2>4. CASE ~host[Width(pc)] /\ pc \in {"decomp", "pages", "gates"}
    <3>1. ~host.bits32
      BY <2>4 DEF Width
    <3> QED
      BY <1>1, <2>1, <3>1 DEF SkipExplained
  <2>5. CASE ~host[Width(pc)] /\ pc \in {"idt", "report"}
    <3>1. ~host.bits64
      BY <2>5 DEF Width
    <3>2. fault.case \notin {"blob", "marker", "decomp"} /\ ~Hit("pages", "short")
      BY <2>1, <2>5 DEF HarnessInv, FaultInv, PagesInv, AfterMarker, AfterIdt, AfterPages,
         AfterDecomp
    <3> QED
      BY <1>1, <3>1, <3>2 DEF SkipExplained, Hit
  <2> QED
    BY <1>1, <2>2, <2>3, <2>4, <2>5 DEF Cases
<1> QED
  BY <1>1, <1>3, <1>4, EndStep

LEMMA DecompStep ==
  ASSUME HarnessInv, Decomp
  PROVE  HarnessInv'
<1> DEFINE out == IF fault.case = "decomp" THEN <<fault.kind>> ELSE <<"same">>
<1>1. /\ pc = "decomp" /\ UNCHANGED <<host, fault, keep, tmp>>
      /\ mem' = [mem EXCEPT !.decomp = out]
      /\ IF mem'.decomp = <<"same">> THEN Go("pages")
                                    ELSE Verdict(1, FALSE) /\ UNCHANGED <<n, eax>>
  BY DEF Decomp
<1>2. /\ mem = [c \in Cases |-> mem[c]] /\ \A c \in Cases : mem[c] = << >> \/ c = "decomp"
      /\ fault.case # "blob" /\ tmp = TRUE
  BY <1>1 DEF HarnessInv, BaseInv, FaultInv, Unbegun, Running
<1>3. /\ mem' = [c \in Cases |-> IF c = "decomp" THEN out ELSE mem[c]]
      /\ mem'.decomp = out
  BY <1>1, <1>2 DEF Cases
<1>4. CASE fault.case = "decomp"
  <2>1. mem'.decomp # <<"same">>
    BY <1>3, <1>4, InputFacts
  <2>2. pc' = "end" /\ exit' = 1 /\ skipped' = FALSE /\ UNCHANGED n
    BY <1>1, <2>1 DEF Verdict
  <2>3. VerdictSound' /\ SkipExplained'
    BY <1>1, <1>2, <1>4, <2>2 DEF VerdictSound, SkipExplained
  <2>4. BaseInv'
    BY <1>1, <1>2, <1>3, <2>2 DEF HarnessInv, BaseInv, Unbegun, Cases
  <2>5. FaultInv' /\ PagesInv' /\ IdtInv' /\ ReportInv' /\ GatesInv'
    BY <2>2 DEF FaultInv, PagesInv, IdtInv, ReportInv, GatesInv, Running, AfterDecomp, AfterPages,
           AfterMarker, AfterIdt, AfterReport
  <2> QED
    BY <2>3, <2>4, <2>5 DEF HarnessInv
<1>5. CASE fault.case # "decomp"
  <2>1. mem'.decomp = <<"same">>
    BY <1>3, <1>5
  <2>2. pc' = "pages" /\ n' = 0
    BY <1>1, <2>1 DEF Go
  <2>3. BaseInv'
    <3>1. \A c \in Unbegun' : mem'[c] = << >>
      BY <1>2, <1>3, <2>2 DEF Unbegun, Cases
    <3>2. DOMAIN mem' = Cases /\ mem' = [c \in Cases |-> mem'[c]]
      BY <1>3
    <3> QED
      BY <1>1, <2>2, <3>1, <3>2 DEF HarnessInv, BaseInv, Running, AfterDecomp
  <2>4. FaultInv' /\ PagesInv' /\ IdtInv' /\ ReportInv' /\ GatesInv'
    BY <1>1, <1>2, <1>5, <2>1, <2>2, InputFacts DEF FaultInv, PagesInv, IdtInv, ReportInv,
       GatesInv, Running,
       AfterDecomp, AfterPages, AfterMarker, AfterIdt, AfterReport
  <2> QED
    BY <2>2, <2>3, <2>4 DEF HarnessInv, VerdictSound, SkipExplained
<1> QED
  BY <1>4, <1>5

---------------------------------------------------------------------------
(* qizo_build_pages and the tests of its tables.                            *)

LEMMA PagesGoOn ==
  ASSUME HarnessInv, pc = "pages", UNCHANGED <<host, fault, keep, pc, tmp>>,
         NEW f, mem' = [mem EXCEPT !["pages"] = f], n' \in Nat, n' > 0, n' <= 4 * Entries + 5,
         PagesHold(n)', EaxHolds'
  PROVE  HarnessInv'
<1>1. mem = [c \in Cases |-> mem[c]]
  BY DEF HarnessInv, BaseInv
<1>2. mem' = [c \in Cases |-> IF c = "pages" THEN f ELSE mem[c]]
  BY <1>1
<1>3. BaseInv'
  <2>1. \A c \in {"idt", "report", "gates"} : mem[c] = << >>
    BY DEF HarnessInv, BaseInv, Unbegun
  <2>2. \A c \in Unbegun' : mem'[c] = << >>
    BY <1>2, <2>1 DEF Unbegun, Cases
  <2>3. DOMAIN mem' = Cases /\ mem' = [c \in Cases |-> mem'[c]]
    BY <1>2
  <2> QED
    BY <2>2, <2>3 DEF HarnessInv, BaseInv
<1>4. mem'.decomp = mem.decomp
  BY <1>2 DEF Cases
<1>5. FaultInv'
  BY <1>4 DEF HarnessInv, FaultInv, AfterMarker, AfterIdt, AfterReport
<1>6. PagesInv' /\ IdtInv' /\ ReportInv' /\ GatesInv'
  BY DEF PagesInv, IdtInv, ReportInv, GatesInv, AfterPages, AfterMarker, AfterIdt, AfterReport
<1>7. VerdictSound' /\ SkipExplained'
  BY DEF VerdictSound, SkipExplained
<1> QED
  BY <1>3, <1>5, <1>6, <1>7 DEF HarnessInv

LEMMA FrameChanged ==
  ASSUME NEW r, NEW a, NEW b, NEW c, NEW d, r = [frame |-> a, flags |-> b, hi |-> c]
  PROVE  /\ r.frame = a /\ r.flags = b /\ r.hi = c
         /\ [r EXCEPT !.frame = d] = [frame |-> d, flags |-> b, hi |-> c]
  OBVIOUS

\* A directory entry is good when its parts are, and then only.
LEMMA DirParts ==
  ASSUME NEW e, NEW want
  PROVE  /\ 0 \in e.flags /\ e.flags \cap {7, 8, 9} = {} /\ e.hi = 0 /\ e.frame - BlockFrame = want
           => DirGood(e, want)
         /\ DirGood(e, want) => 0 \in e.flags /\ 7 \notin e.flags /\ e.frame - BlockFrame = want
<1> HIDE DEF BlockFrame
<1> QED
  BY DEF DirGood

LEMMA Pml4Step ==
  ASSUME HarnessInv, Pml4
  PROVE  HarnessInv'
<1> DEFINE zero == [i \in 0..(6 * Entries - 1) |-> Empty]
           top == [frame |-> Base + 1, flags |-> PT_DIR, hi |-> 0]
           f == [zero EXCEPT ![0] = Stored(0, top)]
<1>1. /\ pc = "pages" /\ mem' = [mem EXCEPT !.pages = f] /\ n' = 1
      /\ eax' = [Empty EXCEPT !.frame = Base + 2]
      /\ UNCHANGED <<host, fault, keep, pc, exit, skipped, tmp>>
  BY DEF Pml4
<1>2. Entries \in Nat /\ Entries >= 4
  BY InputFacts
<1>3. DOMAIN mem = Cases
  BY DEF HarnessInv, BaseInv
<1>4. mem'.pages = f
  BY <1>1, <1>3 DEF Cases
<1>5. f = [i \in Slots |-> IF i = 0 THEN Stored(0, top) ELSE Empty]
  BY <1>2 DEF Slots
<1>6. ASSUME NEW at \in Slots PROVE Written(at, 1) <=> at = 0
  BY <1>2 DEF Written, Slots
<1>7. Stored(0, top) = IF Hit("pages", "store") /\ fault.at = 0 THEN fault.value ELSE RightEntry(0)
  BY <1>1 DEF Stored, RightEntry
<1> HIDE DEF f
<1>8. PagesHold(n)'
  BY <1>1, <1>4, <1>5, <1>6, <1>7 DEF PagesHold, Hit
<1>9. EaxHolds'
  <2>1. eax' = [frame |-> Base + 1 + 1, flags |-> {}, hi |-> 0]
    BY <1>1 DEF Empty, Base
  <2>2. (IF n' = 1 THEN {} ELSE PT_DIR) = {} /\ Base + 1 + n' = Base + 1 + 1
    BY <1>1
  <2>3. ~(n' \in 5..(4 * Entries + 5))
    BY <1>1, <1>2
  <2> QED
    BY <2>1, <2>2, <2>3, Zenon DEF EaxHolds
<1> QED
  BY <1>1, <1>2, <1>8, <1>9, PagesGoOn

\* A store adds its entry and leaves the others.
LEMMA StoreHolds ==
  ASSUME HarnessInv, pc = "pages", n > 0, NEW at \in Slots, Store(at, RightEntry(at)),
         \A x \in Slots : Written(x, n + 1) <=> Written(x, n) \/ x = at
  PROVE  PagesHold(n)'
<1> DEFINE f == Put(mem.pages, at, Stored(at, RightEntry(at)))
<1>1. mem' = [mem EXCEPT !["pages"] = f] /\ n' = n + 1 /\ UNCHANGED <<host, fault, keep, pc>>
  BY DEF Store
<1>2. mem'.pages = f
  BY <1>1 DEF HarnessInv, BaseInv, Cases
<1>3. PagesHold(n)
  BY DEF HarnessInv, PagesInv
<1>4. f = [x \in Slots |-> IF x = at THEN Stored(at, RightEntry(at)) ELSE mem.pages[x]]
  BY <1>3 DEF Put, PagesHold
<1>5. Stored(at, RightEntry(at)) =
        IF Hit("pages", "store") /\ fault.at = at THEN fault.value ELSE RightEntry(at)
  BY DEF Stored
<1> HIDE DEF f
<1>6. DOMAIN mem'.pages = Slots
  BY <1>2, <1>4
<1>7. ASSUME NEW x \in Slots
      PROVE  mem'.pages[x] = IF ~Written(x, n') THEN Empty
                             ELSE IF Hit("pages", "store")' /\ fault'.at = x THEN fault'.value
                             ELSE RightEntry(x)
  <2>1. CASE x = at
    BY <1>1, <1>2, <1>4, <1>5, <2>1 DEF Hit
  <2>2. CASE x # at
    <3>1. mem'.pages[x] = mem.pages[x] /\ (Written(x, n') <=> Written(x, n))
      BY <1>1, <1>2, <1>4, <2>2
    <3> QED
      BY <1>1, <1>3, <3>1 DEF PagesHold, Hit
  <2> QED
    BY <2>1, <2>2
<1> QED
  BY <1>6, <1>7 DEF PagesHold, Written, RightEntry

LEMMA PdptStep ==
  ASSUME HarnessInv, PdptFill
  PROVE  HarnessInv'
<1> DEFINE e == [eax EXCEPT !.flags = @ \cup PT_DIR]
           at == Entries + n - 1
<1>1. /\ pc = "pages" /\ n \in 1..4 /\ Store(at, e)
      /\ eax' = IF n = 4 THEN Empty ELSE [e EXCEPT !.frame = @ + 1]
  BY DEF PdptFill
<1>2. Entries \in Nat /\ Entries >= 4
  BY InputFacts
<1>3. n \in Nat /\ n > 0 /\ at \in Slots
  BY <1>1, <1>2 DEF Slots
<1>4. eax = [frame |-> Base + 1 + n, flags |-> IF n = 1 THEN {} ELSE PT_DIR, hi |-> 0]
  BY <1>1, <1>3 DEF HarnessInv, PagesInv, EaxHolds
<1>5. e = [frame |-> Base + 1 + n, flags |-> PT_DIR, hi |-> 0]
  <2>1. (IF n = 1 THEN {} ELSE PT_DIR) \cup PT_DIR = PT_DIR
    OBVIOUS
  <2> QED
    BY <1>4, <2>1
<1>6. e = RightEntry(at)
  BY <1>1, <1>2, <1>5 DEF RightEntry, Base
<1>7. \A x \in Slots : Written(x, n + 1) <=> Written(x, n) \/ x = at
  BY <1>1, <1>2 DEF Slots, Written
<1> HIDE DEF e, at
<1>8. PagesHold(n)'
  BY <1>1, <1>3, <1>6, <1>7, StoreHolds
<1>9. /\ mem' = [mem EXCEPT !["pages"] = Put(mem.pages, at, Stored(at, e))] /\ n' = n + 1
      /\ UNCHANGED <<host, fault, keep, pc, exit, skipped, tmp>>
  BY <1>1 DEF Store
<1>10. EaxHolds'
  <2>1. CASE n = 4
    BY <1>1, <1>2, <1>9, <2>1 DEF EaxHolds, Empty
  <2>2. CASE n # 4
    <3>1. eax' = [frame |-> Base + 1 + (n + 1), flags |-> PT_DIR, hi |-> 0]
      BY <1>1, <1>5, <2>2 DEF Base
    <3>2. n' \in 2..4
      BY <1>1, <1>9, <2>2
    <3> QED
      BY <1>2, <1>9, <3>1, <3>2 DEF EaxHolds
  <2> QED
    BY <2>1, <2>2
<1>11. n' \in Nat /\ n' > 0 /\ n' <= 4 * Entries + 5
  BY <1>1, <1>2, <1>9
<1> QED
  BY <1>1, <1>8, <1>9, <1>10, <1>11, PagesGoOn

LEMMA PdtStep ==
  ASSUME HarnessInv, PdtFill
  PROVE  HarnessInv'
<1> DEFINE e == [eax EXCEPT !.flags = @ \cup PT_PAGE]
           at == 2 * Entries + n - 5
<1>1. /\ pc = "pages" /\ n \in 5..(4 * Entries + 4) /\ Store(at, e)
      /\ eax' = [eax EXCEPT !.frame = @ + 512]
  BY DEF PdtFill
<1>2. Entries \in Nat /\ Entries >= 4
  BY InputFacts
<1>3. n \in Nat /\ n > 0 /\ at \in Slots
  BY <1>1, <1>2 DEF Slots
<1>4. eax = [frame |-> 512 * (n - 5), flags |-> {}, hi |-> 0]
  BY <1>1, <1>2, <1>3 DEF HarnessInv, PagesInv, EaxHolds
<1>5. e = [frame |-> 512 * (n - 5), flags |-> PT_PAGE, hi |-> 0]
  <2>1. {} \cup PT_PAGE = PT_PAGE
    OBVIOUS
  <2> QED
    BY <1>4, <2>1
<1>6. e = RightEntry(at)
  BY <1>1, <1>2, <1>5 DEF RightEntry
<1>7. \A x \in Slots : Written(x, n + 1) <=> Written(x, n) \/ x = at
  BY <1>1, <1>2 DEF Slots, Written
<1> HIDE DEF e, at
<1>8. PagesHold(n)'
  BY <1>1, <1>3, <1>6, <1>7, StoreHolds
<1>9. /\ mem' = [mem EXCEPT !["pages"] = Put(mem.pages, at, Stored(at, e))] /\ n' = n + 1
      /\ UNCHANGED <<host, fault, keep, pc, exit, skipped, tmp>>
  BY <1>1 DEF Store
<1>10. EaxHolds'
  <2>0. 512 * (n - 5) + 512 = 512 * (n + 1 - 5)
    BY <1>3
  <2>1. eax' = [frame |-> 512 * (n + 1 - 5), flags |-> {}, hi |-> 0]
    <3>1. eax' = [frame |-> 512 * (n - 5) + 512, flags |-> {}, hi |-> 0]
      <4>1. eax.frame = 512 * (n - 5)
        BY <1>4, FrameChanged
      <4>2. [eax EXCEPT !.frame = 512 * (n - 5) + 512]
              = [frame |-> 512 * (n - 5) + 512, flags |-> {}, hi |-> 0]
        BY <1>4, FrameChanged
      <4> QED
        BY <1>1, <4>1, <4>2
    <3> QED
      BY <2>0, <3>1
  <2>2. ~(n' \in 1..4)
    BY <1>1, <1>9
  <2> QED
    BY <1>3, <1>9, <2>1, <2>2 DEF EaxHolds
<1>11. n' \in Nat /\ n' > 0 /\ n' <= 4 * Entries + 5
  BY <1>1, <1>2, <1>9
<1> QED
  BY <1>1, <1>8, <1>9, <1>10, <1>11, PagesGoOn

\* The place of an entry in the block.
LEMMA PlaceFacts ==
  ASSUME Entries \in Nat, Entries >= 4, NEW s \in 0..(4 * Entries - 1)
  PROVE  /\ s \div Entries \in 0..3 /\ s % Entries \in 0..(Entries - 1)
         /\ (2 + (s \div Entries)) * Entries + (s % Entries) = 2 * Entries + s
<1> DEFINE q == s \div Entries
           r == s % Entries
<1>1. s \in Nat /\ s < 4 * Entries
  OBVIOUS
<1>2. s = Entries * q + r /\ r \in 0..(Entries - 1) /\ q \in Nat
  BY <1>1, DivMod
<1> HIDE DEF q, r
<1>3. q \in 0..3
  <2> SUFFICES ASSUME q > 3 PROVE FALSE
    BY <1>2
  <2>1. q - 4 \in Nat /\ Entries * (q - 4) \in Nat
    BY <1>2
  <2>2. Entries * q = Entries * 4 + Entries * (q - 4)
    BY <1>2
  <2> QED
    BY <1>1, <1>2, <2>1, <2>2
<1>4. (2 + q) * Entries + r = 2 * Entries + s
  BY <1>2
<1> QED
  BY <1>2, <1>3, <1>4 DEF q, r

\* Without a fault the tables pass.
LEMMA RightTablesPass ==
  ASSUME HarnessInv, PagesHold(4 * Entries + 5), ~Hit("pages", "store")
  PROVE  TablesGood
<1>1. Entries \in Nat /\ Entries >= 4
  BY InputFacts
<1>2. ASSUME NEW at \in Slots PROVE mem.pages[at] = RightEntry(at)
  <2>1. CASE Written(at, 4 * Entries + 5)
    BY <2>1 DEF PagesHold
  <2>2. CASE ~Written(at, 4 * Entries + 5)
    <3>1. RightEntry(at) = Empty
      BY <1>1, <2>2 DEF Written, RightEntry, Slots
    <3> QED
      BY <2>2, <3>1 DEF PagesHold
  <2> QED
    BY <2>1, <2>2
<1>3. Ent(0, 0) = [frame |-> Base + 1, flags |-> PT_DIR, hi |-> 0]
  <2>1. 0 * Entries + 0 = 0 /\ 0 \in Slots
    BY <1>1 DEF Slots
  <2> QED
    BY <1>2, <2>1 DEF Ent, RightEntry
<1>4. BlockFrame = Base
  BY <1>3 DEF BlockFrame, Base
<1>5. 0 \in PT_DIR /\ PT_DIR \cap {7, 8, 9} = {}
  BY DEF PT_DIR
<1>6. DirGood(Ent(0, 0), 1)
  BY <1>3, <1>4, <1>5 DEF DirGood, Base
<1>7. ASSUME NEW i \in 1..(Entries - 1) PROVE Ent(0, i) = Empty
  <2>1. 0 * Entries + i = i /\ i \in Slots
    BY <1>1 DEF Slots
  <2>2. RightEntry(i) = Empty
    BY <1>1 DEF RightEntry
  <2> QED
    BY <1>2, <2>1, <2>2 DEF Ent
<1>8. ASSUME NEW i \in 0..3 PROVE DirGood(Ent(1, i), 2 + i)
  <2>1. /\ 1 * Entries + i = Entries + i /\ Entries + i \in Slots
        /\ Entries + i \in Entries..(Entries + 3) /\ Entries + i # 0
        /\ Base + 2 + (Entries + i) - Entries = Base + 2 + i
    BY <1>1 DEF Slots, Base
  <2>2. Ent(1, i) = [frame |-> Base + 2 + i, flags |-> PT_DIR, hi |-> 0]
    BY <1>2, <2>1 DEF Ent, RightEntry
  <2>3. (Base + 2 + i) - BlockFrame = 2 + i
    BY <1>4 DEF Base
  <2>4. ASSUME NEW e, e = [frame |-> Base + 2 + i, flags |-> PT_DIR, hi |-> 0]
        PROVE  DirGood(e, 2 + i)
    <3>1. e.frame = Base + 2 + i /\ e.flags = PT_DIR /\ e.hi = 0
      BY <2>4, FrameChanged
    <3> QED
      <4>1. e.frame - BlockFrame = 2 + i
        BY <2>3, <3>1
      <4>2. 0 \in e.flags /\ e.flags \cap {7, 8, 9} = {} /\ e.hi = 0
        BY <1>5, <3>1
      <4> QED
        BY <4>1, <4>2 DEF DirGood
  <2> QED
    BY <2>2, <2>4
<1>9. ASSUME NEW i \in 4..(Entries - 1) PROVE Ent(1, i) = Empty
  <2>1. 1 * Entries + i = Entries + i /\ Entries + i \in Slots
    BY <1>1 DEF Slots
  <2>2. RightEntry(Entries + i) = Empty
    BY <1>1 DEF RightEntry
  <2> QED
    BY <1>2, <2>1, <2>2 DEF Ent
<1>10. ASSUME NEW s \in 0..(4 * Entries - 1)
       PROVE  Ent(2 + (s \div Entries), s % Entries)
                = [frame |-> s * 512, flags |-> PT_PAGE, hi |-> 0]
  <2>1. (2 + (s \div Entries)) * Entries + (s % Entries) = 2 * Entries + s
    BY <1>1, PlaceFacts
  <2>2. 2 * Entries + s \in Slots /\ 512 * (2 * Entries + s - 2 * Entries) = s * 512
    BY <1>1 DEF Slots
  <2>3. RightEntry(2 * Entries + s) = [frame |-> s * 512, flags |-> PT_PAGE, hi |-> 0]
    BY <1>1, <2>2 DEF RightEntry
  <2> QED
    BY <1>2, <2>1, <2>2, <2>3 DEF Ent
<1> QED
  BY <1>6, <1>7, <1>8, <1>9, <1>10 DEF TablesGood

\* Tables that pass lie where the processor looks for them: a wrong first
\* entry contradicts the first entry of the next table, which is then right.
LEMMA PassingTablesLead ==
  ASSUME HarnessInv, PagesHold(4 * Entries + 5), TablesGood
  PROVE  Identity /\ NothingAbove
<1>1. Entries \in Nat /\ Entries >= 4
  BY InputFacts
<1>2. Ent(0, 0).frame \in Int
  <2>1. 0 * Entries + 0 = 0 /\ 0 \in Slots /\ Written(0, 4 * Entries + 5)
    BY <1>1 DEF Slots, Written
  <2>2. (Ent(0, 0) = fault.value /\ Hit("pages", "store")) \/ Ent(0, 0) = RightEntry(0)
    BY <2>1 DEF PagesHold, Ent
  <2>3. RightEntry(0).frame \in Int
    BY DEF RightEntry, Base
  <2> QED
    BY <2>2, <2>3, InputFacts
<1>3. BlockFrame = Base
  <2>1. CASE Hit("pages", "store") /\ fault.at = 0
    <3>1. 1 * Entries + 0 = Entries /\ Entries \in Slots /\ Written(Entries, 4 * Entries + 5)
          /\ Entries # 0 /\ Entries \in Entries..(Entries + 3)
      BY <1>1 DEF Slots, Written
    <3>2. Ent(1, 0) = RightEntry(Entries)
      BY <2>1, <3>1 DEF PagesHold, Ent
    <3>3. RightEntry(Entries).frame = Base + 2
      BY <1>1, <3>1 DEF RightEntry, Base
    <3>4. DirGood(Ent(1, 0), 2 + 0)
      BY DEF TablesGood
    <3>5. (Base + 2) - BlockFrame = 2
      <4>1. (Base + 2) - BlockFrame = 2 + 0
        <5>1. PICK e : e = Ent(1, 0)
          OBVIOUS
        <5>2. DirGood(e, 2 + 0) /\ e.frame = Base + 2
          BY <3>2, <3>3, <3>4, <5>1
        <5>3. e.frame - BlockFrame = 2 + 0
          BY <5>2, DirParts
        <5> QED
          BY <5>2, <5>3
      <4> QED
        BY <4>1
    <3> QED
      BY <1>2, <3>5 DEF BlockFrame, Base
  <2>2. CASE ~(Hit("pages", "store") /\ fault.at = 0)
    <3>1. 0 * Entries + 0 = 0 /\ 0 \in Slots /\ Written(0, 4 * Entries + 5)
      BY <1>1 DEF Slots, Written
    <3>2. Ent(0, 0) = RightEntry(0)
      BY <2>2, <3>1 DEF PagesHold, Ent
    <3> QED
      BY <3>2 DEF RightEntry, BlockFrame, Base
  <2> QED
    BY <2>1, <2>2
<1>4. Ent(0, 0).frame = Base + 1 /\ 0 \in Ent(0, 0).flags
  BY <1>2, <1>3 DEF TablesGood, DirGood, BlockFrame, Base
<1>5. ASSUME NEW i \in 0..3
      PROVE  /\ Ent(1, i).frame \in Int => Ent(1, i).frame = Base + 2 + i
             /\ 0 \in Ent(1, i).flags /\ 7 \notin Ent(1, i).flags
  <2>1. DirGood(Ent(1, i), 2 + i)
    BY DEF TablesGood
  <2> QED
    BY <1>3, <2>1 DEF DirGood, Base
<1>6. ASSUME NEW i \in 0..3 PROVE Ent(1, i).frame \in Int
  <2>1. 1 * Entries + i = Entries + i /\ Entries + i \in Slots
        /\ Written(Entries + i, 4 * Entries + 5)
        /\ Entries + i # 0 /\ Entries + i \in Entries..(Entries + 3)
    BY <1>1 DEF Slots, Written
  <2>2. (Ent(1, i) = fault.value /\ Hit("pages", "store")) \/ Ent(1, i) = RightEntry(Entries + i)
    BY <2>1 DEF PagesHold, Ent
  <2>3. RightEntry(Entries + i).frame \in Int
    BY <1>1, <2>1 DEF RightEntry, Base
  <2> QED
    BY <2>2, <2>3, InputFacts
<1>7. ASSUME NEW s \in 0..(4 * Entries - 1) PROVE Walks(s)
  <2> DEFINE q == s \div Entries
  <2>1. q \in 0..3
    BY <1>1, PlaceFacts
  <2>2. TableAt(Ent(0, 0).frame) = 1
    BY <1>4 DEF TableAt, Base
  <2>3. Ent(2 + q, s % Entries) = [frame |-> s * 512, flags |-> PT_PAGE, hi |-> 0]
    BY DEF TablesGood
  <2> HIDE DEF q
  <2>4. Ent(1, q).frame = Base + 2 + q /\ 0 \in Ent(1, q).flags /\ 7 \notin Ent(1, q).flags
    BY <1>5, <1>6, <2>1
  <2>5. TableAt(Ent(1, q).frame) = 2 + q
    BY <2>1, <2>4 DEF TableAt, Base
  <2>6. {0, 7} \subseteq PT_PAGE
    BY DEF PT_PAGE
  <2>7. TableAt(Ent(0, 0).frame) \in 0..5 /\ TableAt(Ent(1, q).frame) \in 0..5
    BY <2>1, <2>2, <2>5
  <2>8. Ent(TableAt(Ent(0, 0).frame), q) = Ent(1, q)
    BY <2>2
  <2>9. Ent(TableAt(Ent(1, q).frame), s % Entries)
          = [frame |-> s * 512, flags |-> PT_PAGE, hi |-> 0]
    BY <2>3, <2>5
  <2> QED
    BY <1>4, <2>4, <2>6, <2>7, <2>8, <2>9 DEF Walks, q
<1>8. NothingAbove
  BY DEF TablesGood, NothingAbove, Empty
<1> QED
  BY <1>7, <1>8 DEF Identity

---------------------------------------------------------------------------
(* From one case to the next, and inside one.                               *)

LEMMA MoveOn ==
  ASSUME HarnessInv, pc \in AfterDecomp, pc' \in AfterPages, n' = 0,
         UNCHANGED <<host, fault, keep, mem, tmp>>, Unbegun' \subseteq Unbegun,
         Identity, NothingAbove, ~Hit("pages", "short"),
         pc' \in AfterMarker => fault.case # "marker",
         pc' \in AfterIdt => \A v \in 0..255 : GateLeads(v),
         pc' \in AfterReport => mem.report = Wanted
  PROVE  HarnessInv'
<1>1. pc' \in {"marker", "idt", "report", "gates", "finish"} /\ pc \in Running
  BY DEF AfterPages, AfterMarker, AfterIdt, AfterReport, Running, AfterDecomp
<1>2. \A c \in Unbegun' : mem[c] = << >>
  BY DEF HarnessInv, BaseInv
<1>3. BaseInv'
  <2>1. pc' \in {"reference", "end"} \cup Running /\ pc' # "reference"
    BY <1>1 DEF AfterPages, AfterMarker, AfterIdt, AfterReport, Running, AfterDecomp
  <2> QED
    BY <1>2, <2>1 DEF HarnessInv, BaseInv
<1>4. FaultInv'
  BY <1>1 DEF HarnessInv, FaultInv
<1>5. PagesInv'
  BY <1>1, TablesSame DEF PagesInv, Hit
<1>6. IdtInv'
  <2>1. ASSUME pc' = "idt" PROVE n' <= 256 /\ IdtHolds'
    <3>1. mem'.idt = << >>
      BY <1>2, <2>1 DEF Unbegun, Cases
    <3>2. DOMAIN mem'.idt = {} /\ 0..(n' - 1) = {}
      BY <3>1
    <3> QED
      BY <3>2 DEF IdtHolds
  <2>2. ASSUME pc' \in AfterIdt PROVE (\A v \in 0..255 : GateLeads(v))'
    BY <2>2, GatesSame
  <2> QED
    BY <2>1, <2>2 DEF IdtInv
<1>7. ReportInv'
  <2>1. mem'.report = mem.report /\ Wanted' = Wanted
    BY DEF Wanted
  <2> QED
    BY <2>1 DEF ReportInv
<1>8. GatesInv'
  <2>1. ASSUME pc' = "gates" PROVE n' <= 32 /\ GatesHold'
    <3>1. mem'.gates = << >>
      BY <1>2, <2>1 DEF Unbegun, Cases
    <3>2. DOMAIN mem'.gates = {} /\ 0..(n' - 1) = {}
      BY <3>1
    <3> QED
      BY <3>2 DEF GatesHold
  <2> QED
    BY <2>1 DEF GatesInv
<1>9. VerdictSound' /\ SkipExplained'
  BY <1>1 DEF VerdictSound, SkipExplained
<1> QED
  BY <1>3, <1>4, <1>5, <1>6, <1>7, <1>8, <1>9 DEF HarnessInv

LEMMA CaseGoesOn ==
  ASSUME HarnessInv, pc \in {"idt", "report", "gates"}, n' \in Nat, n' > 0,
         NEW f, mem' = [mem EXCEPT ![pc] = f], UNCHANGED <<host, fault, keep, pc, tmp>>,
         pc = "idt" => n' <= 256 /\ IdtHolds',
         pc = "report" => n' <= 1 /\ (~Hit("report", "store") => f = Wanted),
         pc = "gates" => n' <= 32 /\ GatesHold'
  PROVE  HarnessInv'
<1>1. mem = [c \in Cases |-> mem[c]]
  BY DEF HarnessInv, BaseInv
<1>2. mem' = [c \in Cases |-> IF c = pc THEN f ELSE mem[c]]
  BY <1>1
<1>3. /\ mem'.pages = mem.pages /\ mem'.decomp = mem.decomp
      /\ pc # "idt" => mem'.idt = mem.idt
      /\ mem'.report = IF pc = "report" THEN f ELSE mem.report
  BY <1>2 DEF Cases
<1>4. BaseInv'
  <2>1. ASSUME NEW c \in Unbegun' PROVE c \in Unbegun /\ c # pc
    BY <2>1 DEF Unbegun, Cases
  <2>2. Unbegun \subseteq Cases
    BY DEF Unbegun, Cases
  <2>3. \A c \in Unbegun' : mem'[c] = << >>
    BY <1>2, <2>1, <2>2 DEF HarnessInv, BaseInv
  <2>4. DOMAIN mem' = Cases /\ mem' = [c \in Cases |-> mem'[c]]
    BY <1>2
  <2> QED
    BY <2>3, <2>4 DEF HarnessInv, BaseInv
<1>5. FaultInv'
  BY <1>3 DEF HarnessInv, FaultInv
<1>6. PagesInv'
  <2>1. Identity /\ NothingAbove /\ ~Hit("pages", "short")
    BY DEF HarnessInv, PagesInv, AfterPages, AfterMarker, AfterIdt, AfterReport
  <2> QED
    BY <1>3, <2>1, TablesSame DEF PagesInv, Hit
<1>7. IdtInv'
  <2>1. ASSUME pc \in AfterIdt PROVE (\A v \in 0..255 : GateLeads(v))'
    <3>1. pc # "idt" /\ \A v \in 0..255 : GateLeads(v)
      BY <2>1 DEF HarnessInv, IdtInv, AfterIdt, AfterReport
    <3> QED
      BY <1>3, <3>1, GatesSame
  <2> QED
    BY <2>1 DEF IdtInv
<1>8. ReportInv'
  <2>1. ASSUME pc \in AfterReport PROVE mem'.report = Wanted
    <3>1. pc # "report" /\ mem.report = Wanted
      BY <2>1 DEF HarnessInv, ReportInv, AfterReport
    <3> QED
      BY <1>3, <3>1
  <2>2. Wanted' = Wanted
    BY DEF Wanted
  <2> QED
    BY <1>3, <2>1, <2>2 DEF ReportInv, Hit
<1>9. GatesInv'
  BY DEF GatesInv
<1>10. VerdictSound' /\ SkipExplained'
  BY DEF VerdictSound, SkipExplained
<1> QED
  BY <1>4, <1>5, <1>6, <1>7, <1>8, <1>9, <1>10 DEF HarnessInv

LEMMA CheckPagesStep ==
  ASSUME HarnessInv, CheckPages
  PROVE  HarnessInv'
<1>1. pc = "pages" /\ n = 4 * Entries + 5 /\ Judge(TablesGood, "marker")
  BY DEF CheckPages
<1>2. UNCHANGED <<host, fault, keep, mem, tmp>>
  BY <1>1 DEF Judge
<1>3. n > 0 /\ pc \in Running /\ pc \in AfterDecomp
  BY <1>1, InputFacts DEF Running, AfterDecomp
<1>4. PagesHold(4 * Entries + 5)
  <2>1. PagesHold(n)
    BY <1>1, <1>3 DEF HarnessInv, PagesInv
  <2> QED
    BY <1>1, <2>1
<1>5. CASE TablesGood /\ ~Hit("pages", "short")
  <2>1. pc' = "marker" /\ n' = 0
    BY <1>1, <1>5 DEF Judge, Go
  <2>2. Unbegun' \subseteq Unbegun
    BY <1>1, <2>1 DEF Unbegun, Cases
  <2>3. Identity /\ NothingAbove
    BY <1>4, <1>5, PassingTablesLead
  <2>4. /\ pc' \in AfterPages /\ pc' \notin AfterMarker
        /\ pc' \notin AfterIdt /\ pc' \notin AfterReport
    BY <2>1 DEF AfterPages, AfterMarker, AfterIdt, AfterReport
  <2> QED
    BY <1>2, <1>3, <1>5, <2>1, <2>2, <2>3, <2>4, MoveOn
<1>6. CASE ~(TablesGood /\ ~Hit("pages", "short"))
  <2>1. Verdict(1, FALSE) /\ UNCHANGED <<n, eax>>
    BY <1>1, <1>6 DEF Judge
  <2>2. fault.case # "none"
    BY <1>4, <1>6, RightTablesPass DEF Hit
  <2> QED
    BY <1>2, <1>3, <2>1, <2>2, FailStep
<1> QED
  BY <1>5, <1>6

LEMMA MarkerStep ==
  ASSUME HarnessInv, Marker
  PROVE  HarnessInv'
<1>1. pc = "marker" /\ Judge(fault.case # "marker", "idt")
  BY DEF Marker
<1>2. UNCHANGED <<host, fault, keep, mem, tmp>>
  BY <1>1 DEF Judge
<1>3. pc \in Running /\ pc \in AfterDecomp /\ pc \in AfterPages
  BY <1>1 DEF Running, AfterDecomp, AfterPages
<1>4. Identity /\ NothingAbove /\ ~Hit("pages", "short")
  BY <1>3 DEF HarnessInv, PagesInv
<1>5. CASE fault.case # "marker"
  <2>1. pc' = "idt" /\ n' = 0
    BY <1>1, <1>5 DEF Judge, Go, Hit
  <2>2. Unbegun' \subseteq Unbegun
    BY <1>1, <2>1 DEF Unbegun, Cases
  <2>3. pc' \in AfterPages /\ pc' \notin AfterIdt /\ pc' \notin AfterReport
    BY <2>1 DEF AfterPages, AfterMarker, AfterIdt, AfterReport
  <2> QED
    BY <1>2, <1>3, <1>4, <1>5, <2>1, <2>2, <2>3, MoveOn
<1>6. CASE fault.case = "marker"
  <2>1. Verdict(1, FALSE) /\ UNCHANGED <<n, eax>>
    BY <1>1, <1>6 DEF Judge
  <2> QED
    BY <1>2, <1>3, <1>6, <2>1, FailStep
<1> QED
  BY <1>5, <1>6

---------------------------------------------------------------------------
(* The gates of the kernel and of stage 2, and the fault report.            *)

\* What a stub's address is cut into.
LEMMA StubParts ==
  ASSUME NEW v \in 0..255
  PROVE  /\ Stub(v) % Two16 = 16 * v /\ Stub(v) \div Two16 = 2
         /\ Stub(v) = 131072 + 16 * v
  BY DEF Stub, Two16

LEMMA IdtFillStep ==
  ASSUME HarnessInv, IdtFill
  PROVE  HarnessInv'
<1> DEFINE f == Put(mem.idt, n, Stored(n, RightGate(n)))
<1>1. pc = "idt" /\ n < 256 /\ Store(n, RightGate(n))
  BY DEF IdtFill, RightGate
<1>2. /\ mem' = [mem EXCEPT ![pc] = f] /\ n' = n + 1
      /\ UNCHANGED <<host, fault, keep, pc, tmp>>
  BY <1>1 DEF Store
<1>3. n \in Nat /\ mem'.idt = f
  BY <1>1, <1>2 DEF HarnessInv, BaseInv, Cases
<1>4. IdtHolds
  BY <1>1 DEF HarnessInv, IdtInv
<1>5. 0..(n' - 1) = 0..(n - 1) \cup {n} /\ n \notin 0..(n - 1)
  BY <1>2, <1>3
<1>6. f = [x \in 0..(n' - 1) |-> IF x = n THEN Stored(n, RightGate(n)) ELSE mem.idt[x]]
  BY <1>4, <1>5 DEF Put, IdtHolds
<1>7. Stored(n, RightGate(n)) =
        IF Hit("idt", "store") /\ fault.at = n THEN fault.value ELSE RightGate(n)
  BY <1>1 DEF Stored
<1> HIDE DEF f
<1>8. IdtHolds'
  <2>1. DOMAIN mem'.idt = 0..(n' - 1)
    BY <1>3, <1>6
  <2>2. ASSUME NEW v \in 0..(n' - 1)
        PROVE  mem'.idt[v] =
                 IF Hit("idt", "store")' /\ fault'.at = v THEN fault'.value ELSE RightGate(v)
    <3>0. Hit("idt", "store")' <=> Hit("idt", "store")
      BY <1>2 DEF Hit
    <3>1. CASE v = n
      BY <1>2, <1>3, <1>6, <1>7, <3>0, <3>1
    <3>2. CASE v # n
      <4>1. v \in 0..(n - 1) /\ mem'.idt[v] = mem.idt[v]
        BY <1>3, <1>5, <1>6, <3>2
      <4> QED
        BY <1>2, <1>4, <3>0, <4>1 DEF IdtHolds
    <3> QED
      BY <3>1, <3>2
  <2> QED
    BY <2>1, <2>2 DEF IdtHolds
<1>9. n' \in Nat /\ n' > 0 /\ n' <= 256
  BY <1>1, <1>2, <1>3
<1> QED
  BY <1>1, <1>2, <1>8, <1>9, CaseGoesOn

LEMMA IdtVerdict ==
  ASSUME HarnessInv, pc = "idt", n = 256
  PROVE  /\ ~Hit("idt", "store") => IdtGood
         /\ IdtGood => \A v \in 0..255 : GateLeads(v)
<1>1. ASSUME NEW v \in 0..255
      PROVE  mem.idt[v] = IF Hit("idt", "store") /\ fault.at = v THEN fault.value ELSE RightGate(v)
  <2>1. IdtHolds /\ v \in 0..(n - 1)
    BY DEF HarnessInv, IdtInv
  <2> QED
    BY <2>1 DEF IdtHolds
<1>2. ASSUME NEW v \in 0..255
      PROVE  /\ RightGate(v).hi = 0 /\ RightGate(v).lo + Two16 * RightGate(v).mid = Stub(v)
             /\ RightGate(v).sel = 8 /\ RightGate(v).attr = GATE_ATTR /\ RightGate(v).rsv = 0
  <2>1. /\ RightGate(v).hi = 2 \div Two16 /\ RightGate(v).lo = 16 * v
        /\ RightGate(v).mid = 2 % Two16 /\ RightGate(v).sel = 8
        /\ RightGate(v).attr = GATE_ATTR /\ RightGate(v).rsv = 0
    BY StubParts DEF RightGate
  <2>2. 2 \div Two16 = 0 /\ 2 % Two16 = 2 /\ Two16 * 2 = 131072
    BY DEF Two16
  <2>3. Stub(v) = 131072 + 16 * v
    BY StubParts
  <2> QED
    BY <2>1, <2>2, <2>3
<1>3. ASSUME ~Hit("idt", "store") PROVE IdtGood
  <2>1. GATE_ATTR \div 256 = 142 /\ GATE_ATTR % 16 = 0
    BY DEF GATE_ATTR
  <2>2. ASSUME NEW v \in 0..255 PROVE mem.idt[v] = RightGate(v)
    BY <1>1, <1>3
  <2>3. ASSUME NEW v \in 0..255
        PROVE  IdtGateGood(mem.idt[v], v)
    <3>1. mem.idt[v] = RightGate(v)
      BY <2>2
    <3>2. /\ RightGate(v).hi = 0 /\ RightGate(v).lo + Two16 * RightGate(v).mid = Stub(v)
          /\ RightGate(v).sel = 8 /\ RightGate(v).attr = GATE_ATTR /\ RightGate(v).rsv = 0
      BY <1>2
    <3> QED
      BY <2>1, <3>1, <3>2, Zenon DEF IdtGateGood
  <2> QED
    BY <2>3 DEF IdtGood
<1>4. ASSUME IdtGood, NEW v \in 0..255 PROVE GateLeads(v)
  <2>1. mem.idt[v].attr \in Nat
    <3>1. (mem.idt[v] = fault.value /\ Hit("idt", "store")) \/ mem.idt[v] = RightGate(v)
      BY <1>1
    <3>2. RightGate(v).attr \in Nat
      <4>1. RightGate(v).attr = GATE_ATTR
        BY <1>2
      <4> QED
        BY <4>1 DEF GATE_ATTR
    <3> QED
      BY <3>1, <3>2, InputFacts
  <2>2. ASSUME NEW a \in Nat, a % 16 = 0 PROVE a % 8 = 0
    BY <2>2
  <2>3. mem.idt[v].attr % 16 = 0
    BY <1>4 DEF IdtGood, IdtGateGood
  <2>4. mem.idt[v].attr % 8 = 0
    BY <2>1, <2>2, <2>3
  <2> QED
    BY <1>4, <2>4 DEF IdtGood, IdtGateGood, GateLeads
<1> QED
  BY <1>3, <1>4

LEMMA CheckIdtStep ==
  ASSUME HarnessInv, CheckIdt
  PROVE  HarnessInv'
<1>1. pc = "idt" /\ n = 256 /\ UNCHANGED <<host, fault, keep, mem, tmp>>
  BY DEF CheckIdt, Judge
<1>2. pc \in Running /\ pc \in AfterDecomp /\ pc \in AfterPages /\ pc \in AfterMarker
  BY <1>1 DEF Running, AfterDecomp, AfterPages, AfterMarker
<1>3. Identity /\ NothingAbove /\ ~Hit("pages", "short") /\ fault.case # "marker"
  BY <1>2 DEF HarnessInv, PagesInv, FaultInv
<1>4. CASE host.nm /\ IdtGood /\ ~Hit("idt", "short")
  <2>1. pc' = "report" /\ n' = 0
    BY <1>1, <1>4 DEF CheckIdt, Judge, Go
  <2>2. Unbegun' \subseteq Unbegun
    BY <1>1, <2>1 DEF Unbegun, Cases
  <2>3. \A v \in 0..255 : GateLeads(v)
    BY <1>1, <1>4, IdtVerdict
  <2>4. pc' \in AfterPages /\ pc' \notin AfterReport
    BY <2>1 DEF AfterPages, AfterMarker, AfterIdt, AfterReport
  <2> QED
    BY <1>1, <1>2, <1>3, <2>1, <2>2, <2>3, <2>4, MoveOn
<1>5. CASE ~(host.nm /\ IdtGood /\ ~Hit("idt", "short"))
  <2>1. Verdict(1, FALSE) /\ UNCHANGED <<n, eax>>
    BY <1>1, <1>5 DEF CheckIdt, Judge
  <2>2. fault.case # "none" \/ ~host.nm
    BY <1>1, <1>5, IdtVerdict DEF Hit
  <2> QED
    BY <1>1, <1>2, <2>1, <2>2, FailStep
<1> QED
  BY <1>4, <1>5

LEMMA WordFacts ==
  ASSUME NEW tail \in Seq(0..15), Len(tail) <= 16
  PROVE  Word(tail) \in [1..16 -> 0..15]
<1>1. ASSUME NEW k \in 1..16, k > 16 - Len(tail) PROVE tail[k - 16 + Len(tail)] \in 0..15
  <2>1. k - 16 + Len(tail) \in 1..Len(tail)
    BY <1>1
  <2>2. \A j \in 1..Len(tail) : tail[j] \in 0..15
    OBVIOUS
  <2> QED
    BY <2>1, <2>2
<1> QED
  BY <1>1 DEF Word

\* The code's arithmetic on a digit is the table the report is compared with.
LEMMA HexIsFormat ==
  ASSUME NEW w \in [1..16 -> 0..15]
  PROVE  Hex16(w) = Format(w)
<1> DEFINE digits == <<48, 49, 50, 51, 52, 53, 54, 55, 56, 57, 65, 66, 67, 68, 69, 70>>
<1>1. ASSUME NEW d \in 0..15 PROVE digits[d + 1] = IF d < 10 THEN d + 48 ELSE d + 55
  OBVIOUS
<1> QED
  BY <1>1 DEF Hex16, Format

LEMMA ReportStep ==
  ASSUME HarnessInv, Report
  PROVE  HarnessInv'
<1> DEFINE text == <<70>> \o Hex16(Pushed[1]) \o Hex16(Pushed[2]) \o Hex16(Pushed[3]) \o Hex16(Cr2)
           f == IF Hit(pc, "store") THEN [text EXCEPT ![fault.at] = fault.value.char] ELSE text
<1>1. /\ pc = "report" /\ mem' = [mem EXCEPT ![pc] = f] /\ n' = 1
      /\ UNCHANGED <<host, fault, keep, pc, tmp>>
  BY DEF Report
<1>2. /\ <<13>> \in Seq(0..15) /\ Len(<<13>>) <= 16
      /\ <<0>> \in Seq(0..15) /\ Len(<<0>>) <= 16
      /\ <<1, 0, 0, 0, 4, 0>> \in Seq(0..15) /\ Len(<<1, 0, 0, 0, 4, 0>>) <= 16
      /\ <<13, 14, 10, 13, 11, 14, 14, 15>> \in Seq(0..15)
      /\ Len(<<13, 14, 10, 13, 11, 14, 14, 15>>) <= 16
  OBVIOUS
<1>3. /\ Pushed[1] \in [1..16 -> 0..15] /\ Pushed[2] \in [1..16 -> 0..15]
      /\ Pushed[3] \in [1..16 -> 0..15] /\ Cr2 \in [1..16 -> 0..15]
  BY <1>2, WordFacts DEF Pushed, Cr2
<1>4. text = Wanted
  BY <1>3, HexIsFormat DEF Wanted
<1> HIDE DEF text
<1>5. ~Hit("report", "store") => f = Wanted
  BY <1>1, <1>4
<1> HIDE DEF f
<1>6. n' \in Nat /\ n' > 0 /\ n' <= 1 /\ pc # "idt" /\ pc # "gates"
  BY <1>1
<1> QED
  BY <1>1, <1>5, <1>6, CaseGoesOn

LEMMA CheckReportStep ==
  ASSUME HarnessInv, CheckReport
  PROVE  HarnessInv'
<1>1. pc = "report" /\ n = 1 /\ UNCHANGED <<host, fault, keep, mem, tmp>>
  BY DEF CheckReport, Judge
<1>2. /\ pc \in Running /\ pc \in AfterDecomp /\ pc \in AfterPages /\ pc \in AfterMarker
      /\ pc \in AfterIdt
  BY <1>1 DEF Running, AfterDecomp, AfterPages, AfterMarker, AfterIdt
<1>3. /\ Identity /\ NothingAbove /\ ~Hit("pages", "short") /\ fault.case # "marker"
      /\ \A v \in 0..255 : GateLeads(v)
  BY <1>2 DEF HarnessInv, PagesInv, FaultInv, IdtInv
<1>4. CASE host.nm /\ mem.report = Wanted /\ ~Hit("report", "short")
  <2>1. pc' = "gates" /\ n' = 0
    BY <1>1, <1>4 DEF CheckReport, Judge, Go
  <2>2. Unbegun' \subseteq Unbegun
    BY <1>1, <2>1 DEF Unbegun, Cases
  <2>3. pc' \in AfterPages
    BY <2>1 DEF AfterPages, AfterMarker, AfterIdt, AfterReport
  <2> QED
    BY <1>1, <1>2, <1>3, <1>4, <2>1, <2>2, <2>3, MoveOn
<1>5. CASE ~(host.nm /\ mem.report = Wanted /\ ~Hit("report", "short"))
  <2>1. Verdict(1, FALSE) /\ UNCHANGED <<n, eax>>
    BY <1>1, <1>5 DEF CheckReport, Judge
  <2>2. ~Hit("report", "store") => mem.report = Wanted
    BY <1>1 DEF HarnessInv, ReportInv
  <2>3. fault.case # "none" \/ ~host.nm
    BY <1>5, <2>2 DEF Hit
  <2> QED
    BY <1>1, <1>2, <2>1, <2>3, FailStep
<1> QED
  BY <1>4, <1>5

LEMMA FidtFillStep ==
  ASSUME HarnessInv, FidtFill
  PROVE  HarnessInv'
<1> DEFINE f == Put(mem.gates, n, Stored(n, RightWords(n)))
<1>1. pc = "gates" /\ n < 32 /\ Store(n, RightWords(n))
  BY DEF FidtFill, RightWords
<1>2. /\ mem' = [mem EXCEPT ![pc] = f] /\ n' = n + 1
      /\ UNCHANGED <<host, fault, keep, pc, tmp>>
  BY <1>1 DEF Store
<1>3. n \in Nat /\ mem'.gates = f
  BY <1>1, <1>2 DEF HarnessInv, BaseInv, Cases
<1>4. GatesHold
  BY <1>1 DEF HarnessInv, GatesInv
<1>5. 0..(n' - 1) = 0..(n - 1) \cup {n} /\ n \notin 0..(n - 1)
  BY <1>2, <1>3
<1>6. f = [x \in 0..(n' - 1) |-> IF x = n THEN Stored(n, RightWords(n)) ELSE mem.gates[x]]
  BY <1>4, <1>5 DEF Put, GatesHold
<1>7. Stored(n, RightWords(n)) =
        IF Hit("gates", "store") /\ fault.at = n THEN fault.value ELSE RightWords(n)
  BY <1>1 DEF Stored
<1> HIDE DEF f
<1>8. GatesHold'
  <2>1. DOMAIN mem'.gates = 0..(n' - 1)
    BY <1>3, <1>6
  <2>2. ASSUME NEW v \in 0..(n' - 1)
        PROVE  mem'.gates[v] =
                 IF Hit("gates", "store")' /\ fault'.at = v THEN fault'.value ELSE RightWords(v)
    <3>0. Hit("gates", "store")' <=> Hit("gates", "store")
      BY <1>2 DEF Hit
    <3>1. CASE v = n
      BY <1>2, <1>3, <1>6, <1>7, <3>0, <3>1
    <3>2. CASE v # n
      <4>1. v \in 0..(n - 1) /\ mem'.gates[v] = mem.gates[v]
        BY <1>3, <1>5, <1>6, <3>2
      <4> QED
        BY <1>2, <1>4, <3>0, <4>1 DEF GatesHold
    <3> QED
      BY <3>1, <3>2
  <2> QED
    BY <2>1, <2>2 DEF GatesHold
<1>9. n' \in Nat /\ n' > 0 /\ n' <= 32
  BY <1>1, <1>2, <1>3
<1> QED
  BY <1>1, <1>2, <1>8, <1>9, CaseGoesOn

LEMMA GatesVerdict ==
  ASSUME HarnessInv, pc = "gates", n = 32, ~Hit("gates", "store")
  PROVE  GatesGood
<1>1. ASSUME NEW v \in 0..31 PROVE mem.gates[v] = RightWords(v)
  <2>1. GatesHold /\ v \in 0..(n - 1)
    BY DEF HarnessInv, GatesInv
  <2> QED
    BY <2>1 DEF GatesHold
<1>2. ASSUME NEW v \in 0..31
      PROVE  LET g == RightWords(v).words IN
             /\ g[1] % Two16 = Stub(v) % Two16 /\ g[1] \div Two16 = 40
             /\ g[2] \div Two16 = Stub(v) \div Two16 /\ g[2] % Two16 = GATE_ATTR
             /\ g[3] = 0 /\ g[4] = 0
  <2>1. v \in 0..255
    OBVIOUS
  <2>2. Stub(v) % Two16 = 16 * v /\ Stub(v) \div Two16 = 2 /\ Stub(v) = 131072 + 16 * v
    BY <2>1, StubParts
  <2>3. RightWords(v).words = <<16 * v + 40 * Two16, 131072 + GATE_ATTR, 0, 0>>
    <3>1. Stub(v) - (Stub(v) % Two16) = 131072
      BY <2>2
    <3>2. RightWords(v).words = <<(Stub(v) % Two16) + 40 * Two16,
                                  (Stub(v) - (Stub(v) % Two16)) + GATE_ATTR, 0, 0>>
      BY DEF RightWords
    <3> QED
      BY <2>2, <3>1, <3>2
  <2>4. (16 * v + 40 * Two16) % Two16 = 16 * v /\ (16 * v + 40 * Two16) \div Two16 = 40
    BY DEF Two16
  <2>5. (131072 + GATE_ATTR) \div Two16 = 2 /\ (131072 + GATE_ATTR) % Two16 = GATE_ATTR
    BY DEF Two16, GATE_ATTR
  <2> QED
    BY <2>2, <2>3, <2>4, <2>5
<1> QED
  BY <1>1, <1>2, Zenon DEF GatesGood

LEMMA CheckGatesStep ==
  ASSUME HarnessInv, CheckGates
  PROVE  HarnessInv'
<1>1. pc = "gates" /\ n = 32 /\ Judge(GatesGood, "finish")
  BY DEF CheckGates
<1>2. UNCHANGED <<host, fault, keep, mem, tmp>>
  BY <1>1 DEF Judge
<1>3. /\ pc \in Running /\ pc \in AfterDecomp /\ pc \in AfterPages /\ pc \in AfterMarker
      /\ pc \in AfterIdt /\ pc \in AfterReport
  BY <1>1 DEF Running, AfterDecomp, AfterPages, AfterMarker, AfterIdt, AfterReport
<1>4. /\ Identity /\ NothingAbove /\ ~Hit("pages", "short") /\ fault.case # "marker"
      /\ \A v \in 0..255 : GateLeads(v)
      /\ mem.report = Wanted
  BY <1>3 DEF HarnessInv, PagesInv, FaultInv, IdtInv, ReportInv
<1>5. CASE GatesGood /\ ~Hit("gates", "short")
  <2>1. pc' = "finish" /\ n' = 0
    BY <1>1, <1>5 DEF Judge, Go
  <2>2. Unbegun' \subseteq Unbegun
    BY <1>1, <2>1 DEF Unbegun, Cases
  <2>3. pc' \in AfterPages
    BY <2>1 DEF AfterPages, AfterMarker, AfterIdt, AfterReport
  <2> QED
    BY <1>2, <1>3, <1>4, <2>1, <2>2, <2>3, MoveOn
<1>6. CASE ~(GatesGood /\ ~Hit("gates", "short"))
  <2>1. Verdict(1, FALSE) /\ UNCHANGED <<n, eax>>
    BY <1>1, <1>6 DEF Judge
  <2>2. fault.case # "none"
    BY <1>1, <1>6, GatesVerdict DEF Hit
  <2> QED
    BY <1>2, <1>3, <2>1, <2>2, FailStep
<1> QED
  BY <1>5, <1>6

LEMMA FinishStep ==
  ASSUME HarnessInv, Finish
  PROVE  HarnessInv'
<1>1. /\ pc = "finish" /\ pc' = "end" /\ exit' = 0 /\ skipped' = FALSE /\ tmp' = keep
      /\ UNCHANGED <<host, fault, keep, n, mem>>
  BY DEF Finish, Verdict
<1>2. /\ pc \in Running /\ pc \in AfterDecomp /\ pc \in AfterPages /\ pc \in AfterMarker
      /\ pc \in AfterIdt /\ pc \in AfterReport
  BY <1>1 DEF Running, AfterDecomp, AfterPages, AfterMarker, AfterIdt, AfterReport
<1>3. /\ Identity /\ NothingAbove /\ \A v \in 0..255 : GateLeads(v)
      /\ mem.report = Wanted /\ mem.decomp = <<"same">>
      /\ fault.case \notin {"marker", "blob"}
  BY <1>2 DEF HarnessInv, PagesInv, FaultInv, IdtInv, ReportInv
<1>4. Identity' /\ NothingAbove' /\ (\A v \in 0..255 : GateLeads(v))'
  BY <1>1, <1>3, TablesSame, GatesSame
<1>5. VerdictSound'
  <2>1. Wanted' = Wanted
    BY DEF Wanted
  <2> QED
    BY <1>1, <1>3, <1>4, <2>1 DEF VerdictSound
<1>6. SkipExplained'
  BY <1>1 DEF SkipExplained
<1> QED
  BY <1>1, <1>5, <1>6, EndStep
---------------------------------------------------------------------------
(* Each program of qizoasmrun leaves what its check compares, up to the one *)
(* wrong store, and each check passed is a fact about what was built: the   *)
(* page tables after check_tables, the gates after check_idt64, the report  *)
(* after run_kernel_report.                                                 *)
THEOREM HarnessInvariant == Spec => []HarnessInv
<1>1. Init => HarnessInv
  <2> SUFFICES ASSUME Init PROVE HarnessInv
    OBVIOUS
  <2>1. pc = "reference" /\ n = 0 /\ mem = [c \in Cases |-> << >>] /\ tmp = FALSE
    BY DEF Init
  <2>2. BaseInv
    BY <2>1 DEF Init, BaseInv, Unbegun, Cases
  <2>3. FaultInv /\ PagesInv /\ IdtInv /\ ReportInv /\ GatesInv
    BY <2>1 DEF FaultInv, PagesInv, IdtInv, ReportInv, GatesInv, Running, AfterDecomp,
       AfterPages, AfterMarker, AfterIdt, AfterReport
  <2>4. VerdictSound /\ SkipExplained
    BY <2>1 DEF VerdictSound, SkipExplained
  <2> QED
    BY <2>2, <2>3, <2>4 DEF HarnessInv
<1>2. HarnessInv /\ [Next]_vars => HarnessInv'
  <2> SUFFICES ASSUME HarnessInv, [Next]_vars PROVE HarnessInv'
    OBVIOUS
  <2>1. CASE UNCHANGED vars
    <3>1. Unbegun' = Unbegun
      BY <2>1 DEF vars, Unbegun
    <3>2. BaseInv' /\ FaultInv'
      BY <2>1, <3>1 DEF vars, HarnessInv, BaseInv, FaultInv
    <3>3. PagesInv'
      BY <2>1, TablesSame DEF vars, HarnessInv, PagesInv, PagesHold, EaxHolds, Hit, Written,
         RightEntry
    <3>4. IdtInv'
      BY <2>1, GatesSame DEF vars, HarnessInv, IdtInv, IdtHolds, Hit
    <3>5. ReportInv' /\ GatesInv'
      BY <2>1 DEF vars, HarnessInv, ReportInv, GatesInv, GatesHold, Hit
    <3>6. VerdictSound'
      BY <2>1, TablesSame, GatesSame DEF vars, HarnessInv, VerdictSound
    <3>7. SkipExplained'
      BY <2>1 DEF vars, HarnessInv, SkipExplained, Hit
    <3> QED
      BY <3>2, <3>3, <3>4, <3>5, <3>6, <3>7 DEF HarnessInv
  <2>2. CASE Next
    BY <2>2, ReferenceStep, SkipStep, DecompStep, Pml4Step, PdptStep, PdtStep, CheckPagesStep,
       MarkerStep, IdtFillStep, CheckIdtStep, ReportStep, CheckReportStep, FidtFillStep,
       CheckGatesStep, FinishStep DEF Next
  <2> QED
    BY <2>1, <2>2
<1> QED
  BY <1>1, <1>2, PTL DEF Spec

(* A success of qizoasmrun that is no skip means that the code it ran built *)
(* what the processor needs, and a failure has a cause.                     *)
THEOREM VerdictIsSound == Spec => []VerdictSound
<1>1. HarnessInv => VerdictSound
  BY DEF HarnessInv
<1> QED
  BY <1>1, HarnessInvariant, PTL

(* A skip of qizoasmrun hides no fault but a crash.                         *)
THEOREM SkipsAreExplained == Spec => []SkipExplained
<1>1. HarnessInv => SkipExplained
  BY DEF HarnessInv
<1> QED
  BY <1>1, HarnessInvariant, PTL
===========================================================================
