-------------------------- MODULE FrameAllocator --------------------------
(***************************************************************************)
(* kernel/drivers/pma.c and every code path of the kernel that calls it:   *)
(* the memory report (sysinfo.c), the two benchmarks (bench.c) and the FAT *)
(* driver's buffer (fat.c).                                                *)
(*                                                                         *)
(* The bitmap is the set of frames whose bit is set, that is the frames    *)
(* that can be handed out.  An address returned by the allocator is the    *)
(* number of its frame: phys_to_virt adds a constant, so the two are the   *)
(* same information, and NoFrame stands for the null pointer.  The search  *)
(* loops of qizo_pma_alloc and qizo_page_alloc are modelled one iteration  *)
(* per step, so that what they find can be stated and proved; the marking  *)
(* loops of a fixed length are one step.  The allocator runs in the shell  *)
(* only: no interrupt handler allocates, so there is a single caller.      *)
(***************************************************************************)
EXTENDS Integers, FiniteSets

CONSTANTS
  PageSize,     \* QIZO_PAGE_SIZE, in units of memory
  MaxFrames,    \* PMA_MAX_FRAMES
  MinUsable,    \* PMA_MIN_USABLE: the least top of memory assumed
  LowMem,       \* the first megabyte, never handed out
  ScratchSize,  \* 0x80000, the loader's scratch area
  BssEnd,       \* end of the kernel when the loader gave no size
  Boots,        \* the boot information blocks the loader may hand over
  DemoPages,    \* frames qizo_memstat takes in its "alloc demo" (4)
  BenchPages,   \* BENCH_BLOCK / QIZO_PAGE_SIZE
  FatPages      \* sizes, in pages, the FAT of the first volume may need

E820Entry == [base : Nat, size : Nat, type : Nat]

BootInfo == [map : SUBSET E820Entry, total_ram : Nat, ktext : Nat,
             kernel_total : Nat, blob_phys : Nat, blob_size : Nat,
             scratch : Nat]

ASSUME ConstantsAssumption ==
  /\ PageSize \in Nat \ {0}
  /\ MaxFrames \in Nat \ {0}
  /\ MinUsable \in Nat
  /\ LowMem \in Nat
  /\ ScratchSize \in Nat
  /\ BssEnd \in Nat
  /\ Boots \subseteq BootInfo
  /\ DemoPages \in Nat \ {0}
  /\ BenchPages \in Nat \ {0}
  /\ FatPages \subseteq Nat

NoFrame == -1

---------------------------------------------------------------------------
(* What qizo_pma_init computes from the memory map.                        *)

PageDown(x) == x - (x % PageSize)
PageUp(x) == PageDown(x + PageSize - 1)

\* The frames mark_range(base, len, good) goes through.
RangeFrames(base, len) ==
  (PageDown(base) \div PageSize) .. ((PageUp(base + len) \div PageSize) - 1)

Usable(bi) == {e \in bi.map : e.type = 1}

\* The ends of the usable entries that start below the mapped gigabyte, cut
\* at the frames the bitmap has room for.
TopCandidates(bi) ==
  LET limit == MaxFrames * PageSize
      cut(x) == IF x > limit THEN limit ELSE x
      ends == {e.base + e.size : e \in {u \in Usable(bi) : u.base < limit}}
      found == IF ends \ {0} = {} THEN {bi.total_ram} ELSE ends
  IN  {cut(x) : x \in found \cup {MinUsable}}

Top(bi) == CHOOSE t \in TopCandidates(bi) : \A x \in TopCandidates(bi) : x <= t

TotalFrames(bi) == Top(bi) \div PageSize

\* Mutant: the end is rounded up like the end of a reserved range.
MutEntryFrames(e, top) ==
  IF e.base >= top THEN {} ELSE RangeFrames(e.base, e.size)

\* The frames a usable entry sets: its base is rounded down, and so is its
\* end, which is then cut at the top.
EntryFrames(e, top) ==
  LET base == PageDown(e.base)
      full == PageDown(e.base + e.size)
      end == IF full > top THEN top ELSE full
  IN  IF full <= base \/ base >= top THEN {} ELSE RangeFrames(base, end - base)

KernelEnd(bi) ==
  PageUp(IF bi.kernel_total # 0 THEN bi.ktext + bi.kernel_total ELSE BssEnd)

ReservedFrames(bi) ==
  RangeFrames(0, LowMem)
    \cup RangeFrames(bi.ktext, KernelEnd(bi) - bi.ktext)
    \cup RangeFrames(bi.blob_phys, bi.blob_size)
    \cup (IF bi.scratch + ScratchSize <= Top(bi)
            THEN RangeFrames(bi.scratch, ScratchSize) ELSE {})

MarkedFrames(bi) ==
  {f \in 0 .. TotalFrames(bi) - 1 : \E e \in Usable(bi) : f \in EntryFrames(e, Top(bi))}

\* Mutant: the reserved ranges are cleared before the usable ones are set.
MutInitialBitmap(bi) == MarkedFrames(bi)

InitialBitmap(bi) == MarkedFrames(bi) \ ReservedFrames(bi)

---------------------------------------------------------------------------
VARIABLES
  bitmap, total_frames, free_frames, used_frames, hint,   \* pma.c
  pc,       \* where the kernel is: off, idle, inside a call, back from one
  client,   \* which call site of the allocator is running
  i, run, first, pages,   \* the locals of the running allocator call
  ret,      \* what the last allocator call returned
  shown,    \* qizo_memstat's loop counter
  a, b,     \* the benchmarks' two buffers
  fatbuf,   \* the FAT driver's buffer
  boot,     \* the boot information block
  out,      \* history: frames handed out and not released
  fatsize   \* history: pages obtained for fatbuf

pmaVars == <<bitmap, total_frames, free_frames, used_frames, hint>>
scanVars == <<i, run, first, pages>>
ownerVars == <<shown, a, b, fatbuf, fatsize>>
vars == <<pmaVars, pc, client, scanVars, ret, ownerVars, boot, out>>

Clients == {"none", "memstat", "bench_a", "bench_b", "micro_a", "micro_b", "fat"}

Block(p, n) == IF p = NoFrame THEN {} ELSE p .. (p + n - 1)

Init ==
  /\ bitmap = {} /\ total_frames = 0 /\ free_frames = 0 /\ used_frames = 0
  /\ hint = 0
  /\ pc = "off" /\ client = "none"
  /\ i = 0 /\ run = 0 /\ first = 0 /\ pages = 1
  /\ ret = NoFrame
  /\ shown = 0 /\ a = NoFrame /\ b = NoFrame /\ fatbuf = NoFrame /\ fatsize = 0
  /\ boot \in Boots
  /\ out = {}

\* qizo_pma_init.
PmaInit ==
  /\ pc = "off"
  /\ total_frames' = TotalFrames(boot)
  /\ bitmap' = InitialBitmap(boot)
  /\ free_frames' = Cardinality(InitialBitmap(boot))
  /\ used_frames' = 0
  /\ hint' = 0
  /\ pc' = "idle"
  /\ UNCHANGED <<client, scanVars, ret, ownerVars, boot, out>>

---------------------------------------------------------------------------
(* qizo_pma_alloc: one frame, searched from the hint and around.           *)

CallPma(w) ==
  /\ pc' = "pma_alloc" /\ client' = w
  /\ i' = 0 /\ UNCHANGED <<run, first, pages>>

\* The frame looked at in iteration i.
Probe == IF hint + i >= total_frames THEN hint + i - total_frames ELSE hint + i

ScanOver == i >= total_frames

PmaSkip ==
  /\ pc = "pma_alloc"
  /\ ~ScanOver
  /\ Probe \notin bitmap
  /\ i' = i + 1
  /\ UNCHANGED <<pmaVars, pc, client, run, first, pages, ret, ownerVars, boot, out>>

\* Mutant: the hint is not wrapped.
MutNextHint(f) == f + 1
NextHint(f) == IF f + 1 >= total_frames THEN 0 ELSE f + 1

PmaTake ==
  /\ pc = "pma_alloc"
  /\ ~ScanOver
  /\ Probe \in bitmap
  /\ bitmap' = bitmap \ {Probe}
  /\ free_frames' = IF free_frames # 0 THEN free_frames - 1 ELSE 0
  /\ used_frames' = used_frames + 1
  /\ hint' = NextHint(Probe)
  /\ ret' = Probe
  /\ out' = out \cup {Probe}
  /\ pc' = "return"
  /\ UNCHANGED <<total_frames, client, scanVars, ownerVars, boot>>

PmaFail ==
  /\ pc = "pma_alloc"
  /\ ScanOver
  /\ ret' = NoFrame
  /\ pc' = "return"
  /\ UNCHANGED <<pmaVars, client, scanVars, ownerVars, boot, out>>

---------------------------------------------------------------------------
(* qizo_page_alloc: the first run of n free frames.                        *)

CallPage(w, n) ==
  /\ pc' = "page_alloc" /\ client' = w
  /\ i' = 0 /\ run' = 0 /\ first' = 0
  /\ pages' = IF n = 0 THEN 1 ELSE n

RunAfter(f) == IF f \in bitmap THEN run + 1 ELSE 0

PageScan ==
  /\ pc = "page_alloc"
  /\ i < total_frames
  /\ run < pages
  /\ first' = IF i \in bitmap /\ run = 0 THEN i ELSE first
  /\ run' = RunAfter(i)
  /\ i' = i + 1
  /\ UNCHANGED <<pmaVars, pc, client, pages, ret, ownerVars, boot, out>>

\* Mutant: the last page of the run is not marked.
MutPageTake ==
  /\ pc = "page_alloc"
  /\ run = pages
  /\ bitmap' = bitmap \ Block(first, pages - 1)
  /\ free_frames' = free_frames - pages
  /\ used_frames' = used_frames + pages
  /\ ret' = first
  /\ out' = out \cup Block(first, pages)
  /\ pc' = "return"
  /\ UNCHANGED <<total_frames, hint, client, scanVars, ownerVars, boot>>

PageTake ==
  /\ pc = "page_alloc"
  /\ run = pages
  /\ bitmap' = bitmap \ Block(first, pages)
  /\ free_frames' = free_frames - pages
  /\ used_frames' = used_frames + pages
  /\ ret' = first
  /\ out' = out \cup Block(first, pages)
  /\ pc' = "return"
  /\ UNCHANGED <<total_frames, hint, client, scanVars, ownerVars, boot>>

\* Mutant: the last frame is not looked at.
MutPageFail ==
  /\ pc = "page_alloc"
  /\ i + 1 >= total_frames
  /\ run < pages
  /\ ret' = NoFrame
  /\ pc' = "return"
  /\ UNCHANGED <<pmaVars, client, scanVars, ownerVars, boot, out>>

PageFail ==
  /\ pc = "page_alloc"
  /\ i >= total_frames
  /\ run < pages
  /\ ret' = NoFrame
  /\ pc' = "return"
  /\ UNCHANGED <<pmaVars, client, scanVars, ownerVars, boot, out>>

\* Mutant: the counters move even when a pointer is null.
MutPageFreeBoth(p, q, n) ==
  LET back == Block(p, n) \cup Block(q, n)
  IN  /\ bitmap' = bitmap \cup (back \cap 0 .. total_frames - 1)
      /\ free_frames' = free_frames + 2 * n
      /\ used_frames' = used_frames - 2 * n
      /\ out' = out \ back
      /\ UNCHANGED <<total_frames, hint>>

\* qizo_page_free(p, n) and qizo_page_free(q, n), either of which may be null.
PageFreeBoth(p, q, n) ==
  LET back == Block(p, n) \cup Block(q, n)
      count == (IF p = NoFrame THEN 0 ELSE n) + (IF q = NoFrame THEN 0 ELSE n)
  IN  /\ bitmap' = bitmap \cup (back \cap 0 .. total_frames - 1)
      /\ free_frames' = free_frames + count
      /\ used_frames' = used_frames - count
      /\ out' = out \ back
      /\ UNCHANGED <<total_frames, hint>>

---------------------------------------------------------------------------
(* The callers.                                                            *)

Idle == pc = "idle"
Back(w) == pc = "return" /\ client = w
GoIdle == pc' = "idle" /\ client' = "none"

\* qizo_memstat: takes DemoPages frames one by one and keeps no pointer; it
\* ends with qizo_pma_free(0), which returns at once.
Memstat ==
  /\ Idle
  /\ CallPma("memstat")
  /\ shown' = 0
  /\ UNCHANGED <<pmaVars, ret, a, b, fatbuf, fatsize, boot, out>>

MemstatNext ==
  /\ Back("memstat")
  /\ ret # NoFrame /\ shown + 1 < DemoPages
  /\ CallPma("memstat")
  /\ shown' = shown + 1
  /\ UNCHANGED <<pmaVars, ret, a, b, fatbuf, fatsize, boot, out>>

MemstatEnd ==
  /\ Back("memstat")
  /\ ret = NoFrame \/ shown + 1 >= DemoPages
  /\ GoIdle
  /\ UNCHANGED <<pmaVars, scanVars, ret, ownerVars, boot, out>>

\* qizo_bench: two buffers, and both error paths release what was obtained.
Bench ==
  /\ Idle
  /\ CallPage("bench_a", BenchPages)
  /\ UNCHANGED <<pmaVars, ret, ownerVars, boot, out>>

BenchSecond ==
  /\ Back("bench_a")
  /\ a' = ret
  /\ CallPage("bench_b", BenchPages)
  /\ UNCHANGED <<pmaVars, ret, shown, b, fatbuf, fatsize, boot, out>>

BenchBegin ==
  /\ Back("bench_b")
  /\ b' = ret
  /\ pc' = "bench" /\ client' = "none"
  /\ UNCHANGED <<pmaVars, scanVars, ret, shown, a, fatbuf, fatsize, boot, out>>

BenchEnd ==
  /\ pc = "bench"
  /\ PageFreeBoth(a, b, BenchPages)
  /\ a' = NoFrame /\ b' = NoFrame
  /\ GoIdle
  /\ UNCHANGED <<scanVars, ret, shown, fatbuf, fatsize, boot>>

\* qizo_bench_memcpy_cycles: one page each, and the error path releases none.
Micro ==
  /\ Idle
  /\ CallPage("micro_a", 1)
  /\ UNCHANGED <<pmaVars, ret, ownerVars, boot, out>>

MicroSecond ==
  /\ Back("micro_a")
  /\ a' = ret
  /\ CallPage("micro_b", 1)
  /\ UNCHANGED <<pmaVars, ret, shown, b, fatbuf, fatsize, boot, out>>

MicroBegin ==
  /\ Back("micro_b")
  /\ a # NoFrame /\ ret # NoFrame
  /\ b' = ret
  /\ pc' = "micro" /\ client' = "none"
  /\ UNCHANGED <<pmaVars, scanVars, ret, shown, a, fatbuf, fatsize, boot, out>>

MicroGiveUp ==
  /\ Back("micro_b")
  /\ a = NoFrame \/ ret = NoFrame
  /\ a' = NoFrame
  /\ GoIdle
  /\ UNCHANGED <<pmaVars, scanVars, ret, shown, b, fatbuf, fatsize, boot, out>>

MicroEnd ==
  /\ pc = "micro"
  /\ PageFreeBoth(a, b, 1)
  /\ a' = NoFrame /\ b' = NoFrame
  /\ GoIdle
  /\ UNCHANGED <<scanVars, ret, shown, fatbuf, fatsize, boot>>

\* scan_drive: the buffer is obtained once, on the first sane volume.
FatScan ==
  /\ Idle
  /\ fatbuf = NoFrame
  /\ \E n \in FatPages : CallPage("fat", n)
  /\ UNCHANGED <<pmaVars, ret, ownerVars, boot, out>>

FatKeep ==
  /\ Back("fat")
  /\ fatbuf' = ret
  /\ fatsize' = pages
  /\ GoIdle
  /\ UNCHANGED <<pmaVars, scanVars, ret, shown, a, b, boot, out>>

Start == Memstat \/ Bench \/ Micro \/ FatScan

Work ==
  \/ PmaInit
  \/ PmaSkip \/ PmaTake \/ PmaFail
  \/ PageScan \/ PageTake \/ PageFail
  \/ MemstatNext \/ MemstatEnd
  \/ BenchSecond \/ BenchBegin \/ BenchEnd
  \/ MicroSecond \/ MicroBegin \/ MicroGiveUp \/ MicroEnd
  \/ FatKeep

Next == Start \/ Work

Spec == Init /\ [][Next]_vars

---------------------------------------------------------------------------
(* Properties.                                                             *)

Points == {"off", "idle", "pma_alloc", "page_alloc", "return", "bench", "micro"}

\* Type correctness.  The counters are u64 in the code: being natural
\* numbers here says that no sequence of commands wraps one below zero.
TypeOK ==
  /\ total_frames \in Nat
  /\ bitmap \subseteq 0 .. total_frames - 1
  /\ out \subseteq 0 .. total_frames - 1
  /\ free_frames \in Nat /\ used_frames \in Nat
  /\ hint \in Nat /\ (total_frames > 0 => hint < total_frames)
  /\ pc \in Points /\ client \in Clients
  /\ i \in Nat /\ run \in Nat /\ first \in Nat /\ pages \in Nat \ {0}
  /\ shown \in Nat /\ fatsize \in Nat
  /\ {ret, a, b, fatbuf} \subseteq Nat \cup {NoFrame}
  /\ boot \in Boots

\* The counters "mem" and "-free mem" print are the truth: the free count is
\* the number of set bits and the used count the number of frames handed out
\* and not released, across failed allocations and every release path.
CountersAgree ==
  /\ free_frames = Cardinality(bitmap)
  /\ used_frames = Cardinality(out)

\* The pages of a call that has been answered but not yet stored.
ReturnedBlock ==
  IF pc = "return" /\ client \notin {"none", "memstat"} THEN Block(ret, pages) ELSE {}

\* How many pages the benchmark buffers have at this point.
BufferPages ==
  IF pc = "bench" \/ client \in {"bench_a", "bench_b"} THEN BenchPages ELSE 1

\* Two owners never share a page and no owned page can be handed out again:
\* the benchmark buffers, the FAT buffer and the pages just returned are
\* pairwise disjoint, lie in what was handed out, and none of them is free.
OwnersDisjoint ==
  /\ bitmap \cap out = {}
  /\ \A x \in {Block(a, BufferPages), Block(b, BufferPages), Block(fatbuf, fatsize),
              ReturnedBlock} : x \subseteq out
  /\ Block(a, BufferPages) \cap Block(b, BufferPages) = {}
  /\ Block(fatbuf, fatsize) \cap (Block(a, BufferPages) \cup Block(b, BufferPages)) = {}
  /\ ReturnedBlock \cap (Block(a, BufferPages) \cup Block(fatbuf, fatsize)) = {}

\* The first megabyte, the kernel, the compressed blob and the loader's
\* scratch area are never free and never handed out.
ReservedKept == (bitmap \cup out) \cap ReservedFrames(boot) = {}

\* Every frame handed out is backed by usable memory up to its last byte;
\* the rounding of qizo_pma_init may only add the bytes of the frame in
\* which a usable entry starts that lie below the start of that entry.
OnlyUsable ==
  \A f \in bitmap \cup out :
    \A x \in f * PageSize .. f * PageSize + PageSize - 1 :
      \E e \in Usable(boot) : PageDown(e.base) <= x /\ x < e.base + e.size

\* An allocation fails only when it must: qizo_pma_alloc when no frame at all
\* is free, wherever the hint stood, and qizo_page_alloc when no run of that
\* many free frames exists.
FailsOnlyWhenFull ==
  [][/\ pc = "pma_alloc" /\ pc' = "return" /\ ret' = NoFrame => bitmap = {}
     /\ pc = "page_alloc" /\ pc' = "return" /\ ret' = NoFrame =>
          \A f \in bitmap : ~(f .. f + pages - 1 \subseteq bitmap)]_vars

\* The convention of docs/DEVELOPMENT.md, "grab pages with qizo_page_alloc,
\* release with qizo_page_free": between two commands the only pages still
\* held are those of the FAT buffer, which is kept for good.
ReleasedWhenIdle == pc = "idle" => out \subseteq Block(fatbuf, fatsize)
===========================================================================
