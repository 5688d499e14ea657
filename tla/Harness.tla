------------------------------ MODULE Harness ------------------------------
(***************************************************************************)
(* qizoasmrun: the boot code is cut out of its sources, run on the host and *)
(* what it built is read back.  Five programs run one after the other, two  *)
(* of them of 32 bits before and one after those of 64 bits.  The code under*)
(* test may have one fault: a wrong store, a dump cut short, a crash.       *)
(* A page table entry is a frame, the set of its flag bits and its high     *)
(* half; gates are the words the code stores.                               *)
(***************************************************************************)
EXTENDS Integers, Sequences

CONSTANTS
  Entries,   \* entries of a page table, 512 in the code
  Hosts,     \* what the host can run: [bits32, bits64, nm]
  Faults     \* [case, kind], and for a wrong store the place and the value

ASSUME EntriesAssumption == Entries \in Nat /\ Entries >= 4

Cases == {"decomp", "pages", "idt", "report", "gates"}

(* At most one thing is wrong with the code: the blob, the marker, or one   *)
(* case, which crashes, stops short or stores one wrong value.              *)
ASSUME HarnessAssumption ==
  /\ Hosts \subseteq [bits32 : BOOLEAN, bits64 : BOOLEAN, nm : BOOLEAN]
  /\ \A f \in Faults :
       /\ \/ f.kind = "none" /\ f.case \in {"none", "blob", "marker"}
          \/ f.kind \in {"crash", "short", "store"} /\ f.case \in Cases
       /\ f.kind = "store" /\ f.case = "pages" => f.value.frame \in Nat
       /\ f.kind = "store" /\ f.case = "idt" => f.value.attr \in Nat

VARIABLES
  host, fault, keep,
  pc,      \* the case that runs, "end" after the verdict
  n,       \* stores done by the code under test
  eax,     \* its register, a frame and flag bits
  mem,     \* what it has built, by case
  exit,    \* the exit code, -1 before
  skipped, \* whether the verdict is a skip
  tmp      \* the scratch directory exists

vars == <<host, fault, keep, pc, n, eax, mem, exit, skipped, tmp>>

Width(c) == IF c \in {"idt", "report"} THEN "bits64" ELSE "bits32"
Hit(c, kind) == fault.case = c /\ fault.kind = kind

\* Mutant: a program without a whole dump counts as one the host cannot run.
MutRuns(c) == host[Width(c)] /\ ~Hit(c, "crash") /\ ~Hit(c, "short")

\* assemble_run, assemble_run64: the program was built and ended with code 0.
Runs(c) == host[Width(c)] /\ ~Hit(c, "crash")

Base == 100                    \* frame of the scratch tables
PT_DIR == {0, 1}
PT_PAGE == {0, 1, 7}
Empty == [frame |-> 0, flags |-> {}, hi |-> 0]
Two16 == 65536
GATE_ATTR == 36352             \* present, interrupt gate
Stub(vec) == 131072 + 16 * vec
---------------------------------------------------------------------------
Init ==
  /\ host \in Hosts /\ fault \in Faults /\ keep \in BOOLEAN
  /\ pc = "reference" /\ n = 0 /\ eax = Empty
  /\ mem = [c \in Cases |-> << >>]
  /\ exit = -1 /\ skipped = FALSE /\ tmp = FALSE

Verdict(code, skip) == exit' = code /\ skipped' = skip /\ pc' = "end"
Go(c) == pc' = c /\ n' = 0 /\ eax' = Empty /\ UNCHANGED <<exit, skipped>>

\* The image's blob must be one the reference decompressor accepts.
Reference ==
  /\ pc = "reference"
  /\ IF fault.case = "blob" THEN Verdict(1, FALSE) /\ UNCHANGED <<n, eax, tmp>>
                            ELSE Go("decomp") /\ tmp' = TRUE
  /\ UNCHANGED <<host, fault, keep, mem>>

\* HostUnsupported: the rest is skipped, whatever kept the program from ending.
Skip ==
  /\ pc \in Cases /\ n = 0 /\ ~Runs(pc) /\ Verdict(0, TRUE)
  /\ UNCHANGED <<host, fault, keep, n, eax, mem, tmp>>

\* The output of the decompressor against the reference.
Decomp ==
  /\ pc = "decomp" /\ Runs(pc)
  /\ mem' = [mem EXCEPT !.decomp = IF fault.case = "decomp" THEN <<fault.kind>> ELSE <<"same">>]
  /\ IF mem'.decomp = <<"same">> THEN Go("pages") ELSE Verdict(1, FALSE) /\ UNCHANGED <<n, eax>>
  /\ UNCHANGED <<host, fault, keep, tmp>>

\* A store of the code under test.
Stored(at, value) == IF Hit(pc, "store") /\ fault.at = at THEN fault.value ELSE value
Put(f, at, value) == [x \in DOMAIN f \cup {at} |-> IF x = at THEN value ELSE f[x]]

Store(at, value) ==
  /\ mem' = [mem EXCEPT ![pc] = Put(@, at, Stored(at, value))]
  /\ n' = n + 1
  /\ UNCHANGED <<host, fault, keep, pc, exit, skipped, tmp>>

\* qizo_build_pages: zeros and the first entry of all.
Pml4 ==
  /\ pc = "pages" /\ Runs(pc) /\ n = 0
  /\ LET zero == [i \in 0..(6 * Entries - 1) |-> Empty]
         top  == [frame |-> Base + 1, flags |-> PT_DIR, hi |-> 0]
     IN  mem' = [mem EXCEPT !.pages = [zero EXCEPT ![0] = Stored(0, top)]]
  /\ n' = 1 /\ eax' = [Empty EXCEPT !.frame = Base + 2]
  /\ UNCHANGED <<host, fault, keep, pc, exit, skipped, tmp>>

\* The register keeps the flags it was given for the entry before.
PdptFill ==
  /\ pc = "pages" /\ n \in 1..4
  /\ LET e == [eax EXCEPT !.flags = @ \cup PT_DIR]
     IN  Store(Entries + n - 1, e) /\ eax' = IF n = 4 THEN Empty ELSE [e EXCEPT !.frame = @ + 1]

\* 2 MiB pages, 512 frames apart, over all four directories.
PdtFill ==
  /\ pc = "pages" /\ n \in 5..(4 * Entries + 4)
  /\ Store(2 * Entries + n - 5, [eax EXCEPT !.flags = @ \cup PT_PAGE])
  /\ eax' = [eax EXCEPT !.frame = @ + 512]
---------------------------------------------------------------------------
(* check_tables.  The place of the block is inferred from the first entry,  *)
(* and every other pointer is judged relative to it.                        *)
Ent(page, i) == mem.pages[page * Entries + i]
BlockFrame == Ent(0, 0).frame - 1

\* Mutant: a directory entry may lead anywhere.
MutDirGood(e, want) == 0 \in e.flags /\ e.flags \cap {7, 8, 9} = {} /\ e.hi = 0

DirGood(e, want) ==
  /\ 0 \in e.flags /\ e.flags \cap {7, 8, 9} = {} /\ e.hi = 0
  /\ e.frame - BlockFrame = want

TablesGood ==
  /\ DirGood(Ent(0, 0), 1) /\ \A i \in 1..(Entries - 1) : Ent(0, i) = Empty
  /\ \A i \in 0..3 : DirGood(Ent(1, i), 2 + i)
  /\ \A i \in 4..(Entries - 1) : Ent(1, i) = Empty
  /\ \A s \in 0..(4 * Entries - 1) :
       Ent(2 + (s \div Entries), s % Entries) = [frame |-> s * 512, flags |-> PT_PAGE, hi |-> 0]

\* The verdict of a case: on to the next one, or a failure.
Judge(good, next) ==
  /\ IF good /\ ~Hit(pc, "short") THEN Go(next) ELSE Verdict(1, FALSE) /\ UNCHANGED <<n, eax>>
  /\ UNCHANGED <<host, fault, keep, mem, tmp>>

CheckPages == pc = "pages" /\ n = 4 * Entries + 5 /\ Judge(TablesGood, "marker")

\* The kernel's first instructions write its marker.
Marker == pc = "marker" /\ Judge(fault.case # "marker", "idt")
---------------------------------------------------------------------------
\* qizo_idt_install: the address of a stub in three parts.
IdtFill ==
  /\ pc = "idt" /\ Runs(pc) /\ n < 256 /\ UNCHANGED eax
  /\ Store(n, [lo |-> Stub(n) % Two16, sel |-> 8, attr |-> GATE_ATTR,
               mid |-> (Stub(n) \div Two16) % Two16, hi |-> (Stub(n) \div Two16) \div Two16,
               rsv |-> 0])

IdtGateGood(g, v) ==
  /\ g.hi = 0 /\ g.lo + Two16 * g.mid = Stub(v) /\ g.sel = 8
  /\ g.attr \div 256 = 142 /\ g.attr % 16 = 0 /\ g.rsv = 0
IdtGood == \A v \in 0..255 : IdtGateGood(mem.idt[v], v)

\* The stubs' addresses come from nm, whose failure nothing catches.
CheckIdt ==
  /\ pc = "idt" /\ n = 256
  /\ IF host.nm THEN Judge(IdtGood, "report")
                ELSE Verdict(1, FALSE) /\ UNCHANGED <<host, fault, keep, n, eax, mem, tmp>>

(* qizo_fault_common prints F and four words of 16 digits; a word is its    *)
(* sequence of nibbles.                                                     *)
Word(tail) == [k \in 1..16 |-> IF k > 16 - Len(tail) THEN tail[k - 16 + Len(tail)] ELSE 0]
Pushed == <<Word(<<13>>), Word(<<0>>), Word(<<1, 0, 0, 0, 4, 0>>)>>
Cr2 == Word(<<13, 14, 10, 13, 11, 14, 14, 15>>)
Hex16(w) == [k \in 1..16 |-> IF w[k] < 10 THEN w[k] + 48 ELSE w[k] + 55]
Format(w) == [k \in 1..16 |-> <<48, 49, 50, 51, 52, 53, 54, 55, 56, 57,
                                65, 66, 67, 68, 69, 70>>[w[k] + 1]]
Wanted == <<70>> \o Format(Pushed[1]) \o Format(Pushed[2]) \o Format(Pushed[3]) \o Format(Cr2)

Report ==
  /\ pc = "report" /\ Runs(pc) /\ n = 0
  /\ LET text == <<70>> \o Hex16(Pushed[1]) \o Hex16(Pushed[2]) \o Hex16(Pushed[3]) \o Hex16(Cr2)
     IN  mem' = [mem EXCEPT !.report =
                   IF Hit(pc, "store") THEN [text EXCEPT ![fault.at] = fault.value.char] ELSE text]
  /\ n' = 1 /\ UNCHANGED <<host, fault, keep, pc, eax, exit, skipped, tmp>>

CheckReport ==
  /\ pc = "report" /\ n = 1
  /\ IF host.nm THEN Judge(mem.report = Wanted, "gates")
                ELSE Verdict(1, FALSE) /\ UNCHANGED <<host, fault, keep, n, eax, mem, tmp>>

\* fidt_fill of stage 2: four words for each of 32 stubs.
FidtFill ==
  /\ pc = "gates" /\ Runs(pc) /\ n < 32 /\ UNCHANGED eax
  /\ Store(n, [words |-> <<(Stub(n) % Two16) + 40 * Two16,
                           (Stub(n) - (Stub(n) % Two16)) + GATE_ATTR, 0, 0>>])

GatesGood ==
  \A v \in 0..31 :
    LET g == mem.gates[v].words IN
    /\ g[1] % Two16 = Stub(v) % Two16 /\ g[1] \div Two16 = 40
    /\ g[2] \div Two16 = Stub(v) \div Two16 /\ g[2] % Two16 = GATE_ATTR
    /\ g[3] = 0 /\ g[4] = 0

CheckGates == pc = "gates" /\ n = 32 /\ Judge(GatesGood, "finish")

Finish ==
  /\ pc = "finish" /\ Verdict(0, FALSE) /\ tmp' = keep
  /\ UNCHANGED <<host, fault, keep, n, eax, mem>>

Next ==
  \/ Reference \/ Skip \/ Decomp \/ Pml4 \/ PdptFill \/ PdtFill \/ CheckPages \/ Marker
  \/ IdtFill \/ CheckIdt \/ Report \/ CheckReport \/ FidtFill \/ CheckGates \/ Finish
Spec == Init /\ [][Next]_vars
---------------------------------------------------------------------------
(* The processor's own reading of the tables: the page a walk ends at.      *)
TableAt(frame) == frame - Base
Walks(s) ==
  LET up == Ent(0, 0)
      dir == Ent(TableAt(up.frame), s \div Entries)
      leaf == Ent(TableAt(dir.frame), s % Entries)
  IN  /\ 0 \in up.flags /\ TableAt(up.frame) \in 0..5
      /\ 0 \in dir.flags /\ 7 \notin dir.flags /\ TableAt(dir.frame) \in 0..5
      /\ {0, 7} \subseteq leaf.flags /\ leaf.frame = s * 512 /\ leaf.hi = 0
Identity == \A s \in 0..(4 * Entries - 1) : Walks(s)
NothingAbove ==
  /\ \A i \in 1..(Entries - 1) : 0 \notin Ent(0, i).flags
  /\ \A i \in 4..(Entries - 1) : 0 \notin Ent(1, i).flags

\* ... and of a gate: present, interrupt type, no stack switch.
GateLeads(v) ==
  LET k == mem.idt[v] IN
  /\ k.hi = 0 /\ k.lo + Two16 * k.mid = Stub(v)
  /\ k.sel = 8 /\ k.attr \div 256 = 142 /\ k.attr % 8 = 0

(* When qizoasmrun ends with success and no skip, the code it ran is right  *)
(* as the processor reads what it built: 4 GiB mapped to themselves and     *)
(* nothing above, each gate at its own stub, the fault report legible.  A   *)
(* failure means there was a fault, or no nm to find the stubs with, and    *)
(* leaves the scratch directory to look at once there is one.               *)
VerdictSound ==
  pc = "end" =>
    /\ exit = 0 /\ ~skipped =>
         /\ Identity /\ NothingAbove /\ \A v \in 0..255 : GateLeads(v)
         /\ mem.report = Wanted /\ mem.decomp = <<"same">>
         /\ fault.case \notin {"marker", "blob"} /\ tmp = keep
    /\ exit = 1 => (fault.case # "none" \/ ~host.nm) /\ (tmp <=> fault.case # "blob")

(* A skip, which also ends with success, tells that the host cannot run     *)
(* such code or that the code under test crashed, which is not told apart;  *)
(* every other fault before it was reported.  No wrong store and no short   *)
(* dump passes for an unsupported host.                                     *)
SkipExplained ==
  pc = "end" /\ skipped =>
    /\ ~host.bits32 \/ ~host.bits64 \/ fault.kind = "crash"
    /\ host.bits32 /\ host.bits64 => mem[fault.case] = << >>
    /\ ~host.bits32 => fault.case # "blob"
    /\ host.bits32 /\ ~host.bits64 =>
         fault.case \notin {"blob", "marker"} /\ ~Hit("decomp", "store") /\ ~Hit("pages", "short")
===========================================================================
