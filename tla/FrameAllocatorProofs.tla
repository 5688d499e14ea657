----------------------- MODULE FrameAllocatorProofs -----------------------
(***************************************************************************)
(* The invariants of FrameAllocator for every size of memory, every memory *)
(* map and every sequence of commands.                                     *)
(***************************************************************************)
EXTENDS FrameAllocator, KernelLemmas

---------------------------------------------------------------------------
(* The strengthening that makes the invariants inductive.                  *)

\* Which pointers are live at which point of the callers.
ControlOK ==
  /\ client = "none" <=> pc \in {"off", "idle", "bench", "micro"}
  /\ pc = "pma_alloc" => client = "memstat"
  /\ pc = "page_alloc" => client # "memstat"
  /\ client \in {"bench_a", "bench_b"} => pages = BenchPages
  /\ client \in {"micro_a", "micro_b"} => pages = 1
  /\ client = "fat" => fatbuf = NoFrame
  /\ pc \notin {"bench", "micro"} => b = NoFrame
  /\ pc \notin {"bench", "micro"} /\ client \notin {"bench_b", "micro_b"} => a = NoFrame
  /\ pc = "micro" => a # NoFrame /\ b # NoFrame
  /\ pc = "off" => /\ bitmap = {} /\ out = {} /\ fatbuf = NoFrame
                   /\ free_frames = 0 /\ used_frames = 0

\* The loop invariant of qizo_page_alloc: the current run is exactly the
\* maximal run of free frames that ends at i, it starts at first, and no run
\* of the wanted length ends earlier.
PageScanInv ==
  pc = "page_alloc" =>
    /\ i <= total_frames /\ run <= i /\ run <= pages
    /\ (i - run) .. (i - 1) \subseteq bitmap
    /\ run < i => i - run - 1 \notin bitmap
    /\ run > 0 => first = i - run
    /\ run < pages =>
         \A f \in bitmap : f + pages <= i => ~(f .. f + pages - 1 \subseteq bitmap)

\* The frame iteration j of qizo_pma_alloc looks at.
ProbeAt(j) == IF hint + j >= total_frames THEN hint + j - total_frames ELSE hint + j

\* The loop invariant of qizo_pma_alloc: no frame looked at so far is free.
PmaScanInv ==
  pc = "pma_alloc" =>
    /\ i <= total_frames
    /\ \A j \in 0 .. i - 1 : ProbeAt(j) \notin bitmap

IInv ==
  /\ TypeOK /\ CountersAgree /\ OwnersDisjoint /\ ReservedKept
  /\ ControlOK /\ PageScanInv /\ PmaScanInv
---------------------------------------------------------------------------
\* The top of memory is one of its candidates, hence a natural number.
LEMMA TopType == ASSUME NEW bi \in Boots PROVE Top(bi) \in Nat
<1> USE ConstantsAssumption
<1> DEFINE limit == MaxFrames * PageSize
<1>1. limit \in Nat
  OBVIOUS
<1>2. bi \in BootInfo
  OBVIOUS
<1>3. \A e \in Usable(bi) : e.base + e.size \in Nat
  BY <1>2 DEF Usable, BootInfo, E820Entry
<1>4. bi.total_ram \in Nat
  BY <1>2 DEF BootInfo
<1>5. TopCandidates(bi) \in SUBSET Nat /\ \A x \in TopCandidates(bi) : x <= limit
  BY <1>1, <1>3, <1>4 DEF TopCandidates
<1>6. TopCandidates(bi) # {}
  BY DEF TopCandidates
<1>7. \E t \in TopCandidates(bi) : \A x \in TopCandidates(bi) : x <= t
  BY <1>1, <1>5, <1>6, NatMax
<1> QED
  BY <1>5, <1>7 DEF Top

LEMMA TotalType == ASSUME NEW bi \in Boots PROVE TotalFrames(bi) \in Nat
  BY TopType, ConstantsAssumption DEF TotalFrames

\* A subset of the frames is finite.
LEMMA FramesFinite ==
  ASSUME NEW n \in Nat, NEW S, S \subseteq 0 .. n - 1
  PROVE  IsFiniteSet(S)
<1>1. IsFiniteSet(0 .. n - 1)
  BY FS_Interval
<1> QED
  BY <1>1, FS_Subset

\* The pages of one allocation.
LEMMA BlockFacts ==
  ASSUME NEW p \in Nat, NEW n \in Nat \ {0}
  PROVE  /\ Block(p, n) = p .. (p + n - 1)
         /\ IsFiniteSet(Block(p, n)) /\ Cardinality(Block(p, n)) = n
<1>1. p # NoFrame
  BY DEF NoFrame
<1>2. Block(p, n) = p .. (p + n - 1)
  BY <1>1 DEF Block
<1>3. IsFiniteSet(p .. (p + n - 1)) /\ Cardinality(p .. (p + n - 1)) = n
  BY FS_Interval
<1> QED
  BY <1>2, <1>3

LEMMA InitInv == Init => IInv
<1> SUFFICES ASSUME Init PROVE IInv
  OBVIOUS
<1> USE DEF Init
<1>1. TypeOK
  BY DEF TypeOK, Points, Clients, NoFrame
<1>2. CountersAgree
  BY FS_EmptySet DEF CountersAgree
<1>3. OwnersDisjoint
  BY DEF OwnersDisjoint, Block, ReturnedBlock
<1>4. ReservedKept
  BY DEF ReservedKept
<1>5. ControlOK /\ PageScanInv /\ PmaScanInv
  BY DEF ControlOK, PageScanInv, PmaScanInv
<1> QED
  BY <1>1, <1>2, <1>3, <1>4, <1>5 DEF IInv

LEMMA PmaInitInv == IInv /\ PmaInit => IInv'
<1> SUFFICES ASSUME IInv, PmaInit PROVE IInv'
  OBVIOUS
<1> USE DEF IInv, PmaInit
<1>1. boot \in Boots
  BY DEF TypeOK
<1>2. TotalFrames(boot) \in Nat
  BY <1>1, TotalType
<1>3. InitialBitmap(boot) \subseteq 0 .. TotalFrames(boot) - 1
  BY DEF InitialBitmap, MarkedFrames
<1>4. IsFiniteSet(InitialBitmap(boot)) /\ Cardinality(InitialBitmap(boot)) \in Nat
  BY <1>2, <1>3, FramesFinite, FS_CardinalityType
<1>5. out = {} /\ fatbuf = NoFrame /\ a = NoFrame /\ b = NoFrame /\ client = "none"
  BY DEF ControlOK
<1>6. TypeOK'
  BY <1>2, <1>3, <1>4, <1>5 DEF TypeOK, Points, scanVars, ownerVars
<1>7. CountersAgree'
  BY <1>5, FS_EmptySet DEF CountersAgree
<1>8. OwnersDisjoint'
  BY <1>5 DEF OwnersDisjoint, Block, ReturnedBlock, ownerVars
<1>9. ReservedKept'
  BY <1>5 DEF ReservedKept, InitialBitmap
<1>10. ControlOK' /\ PageScanInv' /\ PmaScanInv'
  BY <1>5 DEF ControlOK, PageScanInv, PmaScanInv, ownerVars
<1> QED
  BY <1>6, <1>7, <1>8, <1>9, <1>10

LEMMA PmaSkipInv == IInv /\ PmaSkip => IInv'
<1> SUFFICES ASSUME IInv, PmaSkip PROVE IInv'
  OBVIOUS
<1> USE DEF IInv, PmaSkip, pmaVars, ownerVars
<1>1. TypeOK'
  BY DEF TypeOK
<1>2. CountersAgree' /\ ReservedKept'
  BY DEF CountersAgree, ReservedKept
<1>3. OwnersDisjoint'
  BY DEF OwnersDisjoint, ReturnedBlock, BufferPages
<1>4. ControlOK' /\ PageScanInv'
  BY DEF ControlOK, PageScanInv
<1>5. PmaScanInv'
  BY DEF PmaScanInv, ProbeAt, Probe, ScanOver, TypeOK
<1> QED
  BY <1>1, <1>2, <1>3, <1>4, <1>5

LEMMA PmaTakeInv == IInv /\ PmaTake => IInv'
<1> SUFFICES ASSUME IInv, PmaTake PROVE IInv'
  OBVIOUS
<1> USE DEF IInv, PmaTake, scanVars, ownerVars
<1> DEFINE f == Probe
<1>1. f \in bitmap /\ f \in 0 .. total_frames - 1 /\ f \in Nat
  BY DEF TypeOK
<1>2. IsFiniteSet(bitmap) /\ IsFiniteSet(out)
  BY FramesFinite DEF TypeOK
<1>3. f \notin out
  BY <1>1 DEF OwnersDisjoint
<1>4. /\ Cardinality(bitmap \ {f}) = Cardinality(bitmap) - 1
      /\ Cardinality(out \cup {f}) = Cardinality(out) + 1
  BY <1>1, <1>2, <1>3, FS_RemoveElement, FS_AddElement
<1>5. Cardinality(bitmap) \in Nat /\ Cardinality(out) \in Nat
      /\ Cardinality(bitmap \ {f}) \in Nat
  BY <1>2, FS_CardinalityType, FS_RemoveElement
<1> HIDE DEF f
<1>6. bitmap' = bitmap \ {f} /\ out' = out \cup {f} /\ ret' = f
      /\ hint' = NextHint(f)
  BY DEF f
<1>7. CountersAgree'
  BY <1>4, <1>5, <1>6 DEF CountersAgree
<1>8. TypeOK'
  <2>1. free_frames' \in Nat
    BY <1>5 DEF CountersAgree
  <2>2. bitmap' \subseteq 0 .. total_frames' - 1 /\ out' \subseteq 0 .. total_frames' - 1
    BY <1>1, <1>6 DEF TypeOK
  <2>3. hint' \in Nat /\ (total_frames' > 0 => hint' < total_frames')
    BY <1>1, <1>6 DEF TypeOK, NextHint
  <2>4. {ret, a, b, fatbuf}' \subseteq Nat \cup {NoFrame}
    BY <1>1, <1>6 DEF TypeOK
  <2> QED
    BY <2>1, <2>2, <2>3, <2>4 DEF TypeOK, Points
<1>9. client = "memstat" /\ a = NoFrame /\ b = NoFrame
  BY DEF ControlOK
<1>10. OwnersDisjoint'
  BY <1>3, <1>6, <1>9 DEF OwnersDisjoint, ReturnedBlock, BufferPages, Block
<1>11. ReservedKept'
  BY <1>1, <1>6 DEF ReservedKept
<1>12. ControlOK' /\ PageScanInv' /\ PmaScanInv'
  BY <1>9 DEF ControlOK, PageScanInv, PmaScanInv
<1> QED
  BY <1>7, <1>8, <1>10, <1>11, <1>12

LEMMA FailInv == IInv /\ (PmaFail \/ PageFail) => IInv'
<1> SUFFICES ASSUME IInv, PmaFail \/ PageFail PROVE IInv'
  OBVIOUS
<1> USE DEF IInv, PmaFail, PageFail, pmaVars, scanVars, ownerVars
<1>1. TypeOK'
  BY DEF TypeOK, Points
<1>2. CountersAgree' /\ ReservedKept'
  BY DEF CountersAgree, ReservedKept
<1>3. OwnersDisjoint'
  BY DEF OwnersDisjoint, ReturnedBlock, BufferPages, Block
<1>4. ControlOK' /\ PageScanInv' /\ PmaScanInv'
  BY DEF ControlOK, PageScanInv, PmaScanInv
<1> QED
  BY <1>1, <1>2, <1>3, <1>4

LEMMA PageScanStepInv == IInv /\ PageScan => IInv'
<1> SUFFICES ASSUME IInv, PageScan PROVE IInv'
  OBVIOUS
<1> USE DEF IInv, PageScan, pmaVars, ownerVars
<1>1. TypeOK'
  BY DEF TypeOK, RunAfter
<1>2. CountersAgree' /\ ReservedKept'
  BY DEF CountersAgree, ReservedKept
<1>3. OwnersDisjoint'
  BY DEF OwnersDisjoint, ReturnedBlock, BufferPages
<1>4. ControlOK' /\ PmaScanInv'
  BY DEF ControlOK, PmaScanInv
<1>5. PageScanInv'
  <2> USE DEF PageScanInv, RunAfter
  <2>1. /\ i \in Nat /\ run \in Nat /\ first \in Nat /\ pages \in Nat \ {0}
        /\ total_frames \in Nat /\ bitmap \subseteq Nat
    BY DEF TypeOK
  <2>2. CASE i \in bitmap
    <3>1. run' = run + 1 /\ i' = i + 1
      BY <2>2
    <3>2. (i' - run') .. (i' - 1) \subseteq bitmap'
      BY <2>1, <2>2, <3>1
    <3>3. run' < i' => i' - run' - 1 \notin bitmap'
      BY <2>1, <3>1
    <3>4. run' > 0 => first' = i' - run'
      BY <2>1, <2>2, <3>1
    <3>5. ASSUME run' < pages', NEW f \in bitmap', f + pages' <= i',
                 f .. f + pages' - 1 \subseteq bitmap'
          PROVE  FALSE
      <4>1. f \in Nat /\ pages' = pages /\ bitmap' = bitmap
        BY <2>1
      <4>2. CASE f + pages <= i
        BY <2>1, <3>1, <3>5, <4>1, <4>2
      <4>3. CASE f + pages = i + 1
        <5>1. i - run - 1 \in f .. f + pages - 1 /\ run < i
          BY <2>1, <3>1, <3>5, <4>1, <4>3
        <5> QED
          BY <2>1, <3>5, <4>1, <5>1
      <4> QED
        BY <2>1, <3>1, <3>5, <4>1, <4>2, <4>3
    <3> QED
      BY <2>1, <3>1, <3>2, <3>3, <3>4, <3>5
  <2>3. CASE i \notin bitmap
    <3>1. run' = 0 /\ i' = i + 1
      BY <2>3
    <3>2. (i' - run') .. (i' - 1) \subseteq bitmap'
      BY <2>1, <3>1
    <3>3. ASSUME NEW f \in bitmap', f + pages' <= i',
                 f .. f + pages' - 1 \subseteq bitmap'
          PROVE  FALSE
      <4>1. f \in Nat /\ pages' = pages /\ bitmap' = bitmap
        BY <2>1
      <4>2. CASE f + pages <= i
        BY <2>1, <3>3, <4>1, <4>2
      <4>3. CASE f + pages = i + 1
        <5>1. i \in f .. f + pages - 1
          BY <2>1, <4>1, <4>3
        <5> QED
          BY <2>3, <3>3, <4>1, <5>1
      <4> QED
        BY <2>1, <3>1, <3>3, <4>1, <4>2, <4>3
    <3> QED
      BY <2>1, <2>3, <3>1, <3>2, <3>3
  <2> QED
    BY <2>2, <2>3
<1> QED
  BY <1>1, <1>2, <1>3, <1>4, <1>5

LEMMA PageTakeInv == IInv /\ PageTake => IInv'
<1> SUFFICES ASSUME IInv, PageTake PROVE IInv'
  OBVIOUS
<1> USE DEF IInv, PageTake, scanVars, ownerVars
<1> DEFINE B == Block(first, pages)
<1>1. /\ i \in Nat /\ run \in Nat /\ first \in Nat /\ pages \in Nat \ {0}
      /\ total_frames \in Nat /\ bitmap \subseteq 0 .. total_frames - 1
  BY DEF TypeOK
<1>2. /\ B = first .. (first + pages - 1)
      /\ IsFiniteSet(B) /\ Cardinality(B) = pages
  BY <1>1, BlockFacts
<1>3. B \subseteq bitmap
  <2>1. first = i - run /\ (i - run) .. (i - 1) \subseteq bitmap /\ run = pages
    BY <1>1 DEF PageScanInv
  <2>2. first .. (first + pages - 1) = (i - run) .. (i - 1)
    BY <1>1, <2>1
  <2> QED
    BY <1>2, <2>1, <2>2
<1> HIDE DEF B
<1>4. bitmap' = bitmap \ B /\ out' = out \cup B
  BY DEF B
<1>5. IsFiniteSet(bitmap) /\ IsFiniteSet(out)
  BY FramesFinite DEF TypeOK
<1>6. out \cap B = {}
  BY <1>3 DEF OwnersDisjoint
<1>7. /\ Cardinality(bitmap \ B) = Cardinality(bitmap) - pages
      /\ Cardinality(bitmap) \in Nat /\ pages <= Cardinality(bitmap)
  BY <1>2, <1>3, <1>5, CardDiff
<1>8. Cardinality(out \cup B) = Cardinality(out) + pages /\ Cardinality(out) \in Nat
  BY <1>2, <1>5, <1>6, CardDisjointUnion
<1>9. CountersAgree'
  BY <1>4, <1>7, <1>8 DEF CountersAgree
<1>10. TypeOK'
  <2>1. free_frames' \in Nat /\ used_frames' \in Nat
    BY <1>1, <1>7, <1>8 DEF CountersAgree
  <2>2. bitmap' \subseteq 0 .. total_frames' - 1 /\ out' \subseteq 0 .. total_frames' - 1
    BY <1>3, <1>4 DEF TypeOK
  <2>3. {ret, a, b, fatbuf}' \subseteq Nat \cup {NoFrame}
    BY <1>1 DEF TypeOK
  <2> QED
    BY <2>1, <2>2, <2>3 DEF TypeOK, Points
<1>11. ReservedKept'
  BY <1>3, <1>4 DEF ReservedKept
<1>12. OwnersDisjoint'
  <2>1. ReturnedBlock' = B
    BY DEF ReturnedBlock, ControlOK, B
  <2>2. BufferPages' = BufferPages
    BY DEF BufferPages
  <2>3. /\ Block(a, BufferPages)' = Block(a, BufferPages)
        /\ Block(b, BufferPages)' = Block(b, BufferPages)
        /\ Block(fatbuf, fatsize)' = Block(fatbuf, fatsize)
    BY <2>2 DEF Block
  <2>4. bitmap' \cap out' = {}
    BY <1>4 DEF OwnersDisjoint
  <2>5. B \cap (Block(a, BufferPages) \cup Block(fatbuf, fatsize)) = {}
    BY <1>6 DEF OwnersDisjoint
  <2> QED
    BY <1>4, <2>1, <2>3, <2>4, <2>5 DEF OwnersDisjoint
<1>13. ControlOK' /\ PageScanInv' /\ PmaScanInv'
  BY DEF ControlOK, PageScanInv, PmaScanInv
<1> QED
  BY <1>9, <1>10, <1>11, <1>12, <1>13

\* Entering a call changes no owner, and its search starts afresh.
LEMMA MemstatInv == IInv /\ Memstat => IInv'
<1> SUFFICES ASSUME IInv, Memstat PROVE IInv'
  OBVIOUS
<1> USE ConstantsAssumption DEF IInv, Memstat, CallPma, Idle, pmaVars, scanVars, ownerVars
<1>1. TypeOK'
  BY DEF TypeOK, Points, Clients
<1>2. CountersAgree' /\ ReservedKept'
  BY DEF CountersAgree, ReservedKept
<1>3. OwnersDisjoint'
  BY DEF OwnersDisjoint, ReturnedBlock, BufferPages, Block, ControlOK
<1>4. ControlOK'
  BY DEF ControlOK
<1>5. PageScanInv' /\ PmaScanInv'
  BY DEF PageScanInv, PmaScanInv, TypeOK
<1> QED
  BY <1>1, <1>2, <1>3, <1>4, <1>5

LEMMA MemstatNextInv == IInv /\ MemstatNext => IInv'
<1> SUFFICES ASSUME IInv, MemstatNext PROVE IInv'
  OBVIOUS
<1> USE ConstantsAssumption DEF IInv, MemstatNext, CallPma, Back, pmaVars, scanVars, ownerVars
<1>1. TypeOK'
  BY DEF TypeOK, Points, Clients
<1>2. CountersAgree' /\ ReservedKept'
  BY DEF CountersAgree, ReservedKept
<1>3. OwnersDisjoint'
  BY DEF OwnersDisjoint, ReturnedBlock, BufferPages, Block, ControlOK
<1>4. ControlOK'
  BY DEF ControlOK
<1>5. PageScanInv' /\ PmaScanInv'
  BY DEF PageScanInv, PmaScanInv, TypeOK
<1> QED
  BY <1>1, <1>2, <1>3, <1>4, <1>5

LEMMA MemstatEndInv == IInv /\ MemstatEnd => IInv'
<1> SUFFICES ASSUME IInv, MemstatEnd PROVE IInv'
  OBVIOUS
<1> USE ConstantsAssumption DEF IInv, MemstatEnd, GoIdle, Back, pmaVars, scanVars, ownerVars
<1>1. TypeOK'
  BY DEF TypeOK, Points, Clients
<1>2. CountersAgree' /\ ReservedKept'
  BY DEF CountersAgree, ReservedKept
<1>3. OwnersDisjoint'
  BY DEF OwnersDisjoint, ReturnedBlock, BufferPages, Block, ControlOK
<1>4. ControlOK'
  BY DEF ControlOK
<1>5. PageScanInv' /\ PmaScanInv'
  BY DEF PageScanInv, PmaScanInv, TypeOK
<1> QED
  BY <1>1, <1>2, <1>3, <1>4, <1>5

LEMMA BenchInv == IInv /\ Bench => IInv'
<1> SUFFICES ASSUME IInv, Bench PROVE IInv'
  OBVIOUS
<1> USE ConstantsAssumption DEF IInv, Bench, CallPage, Idle, pmaVars, scanVars, ownerVars
<1>1. TypeOK'
  BY DEF TypeOK, Points, Clients
<1>2. CountersAgree' /\ ReservedKept'
  BY DEF CountersAgree, ReservedKept
<1>3. OwnersDisjoint'
  BY DEF OwnersDisjoint, ReturnedBlock, BufferPages, Block, ControlOK
<1>4. ControlOK'
  BY DEF ControlOK
<1>5. PageScanInv' /\ PmaScanInv'
  BY DEF PageScanInv, PmaScanInv, TypeOK
<1> QED
  BY <1>1, <1>2, <1>3, <1>4, <1>5

LEMMA MicroInv == IInv /\ Micro => IInv'
<1> SUFFICES ASSUME IInv, Micro PROVE IInv'
  OBVIOUS
<1> USE ConstantsAssumption DEF IInv, Micro, CallPage, Idle, pmaVars, scanVars, ownerVars
<1>1. TypeOK'
  BY DEF TypeOK, Points, Clients
<1>2. CountersAgree' /\ ReservedKept'
  BY DEF CountersAgree, ReservedKept
<1>3. OwnersDisjoint'
  BY DEF OwnersDisjoint, ReturnedBlock, BufferPages, Block, ControlOK
<1>4. ControlOK'
  BY DEF ControlOK
<1>5. PageScanInv' /\ PmaScanInv'
  BY DEF PageScanInv, PmaScanInv, TypeOK
<1> QED
  BY <1>1, <1>2, <1>3, <1>4, <1>5

LEMMA FatScanInv == IInv /\ FatScan => IInv'
<1> SUFFICES ASSUME IInv, FatScan PROVE IInv'
  OBVIOUS
<1> USE ConstantsAssumption DEF IInv, FatScan, CallPage, Idle, pmaVars, scanVars, ownerVars
<1>1. TypeOK'
  BY DEF TypeOK, Points, Clients
<1>2. CountersAgree' /\ ReservedKept'
  BY DEF CountersAgree, ReservedKept
<1>3. OwnersDisjoint'
  BY DEF OwnersDisjoint, ReturnedBlock, BufferPages, Block, ControlOK
<1>4. ControlOK'
  BY DEF ControlOK
<1>5. PageScanInv' /\ PmaScanInv'
  BY DEF PageScanInv, PmaScanInv, TypeOK
<1> QED
  BY <1>1, <1>2, <1>3, <1>4, <1>5

\* The benchmark that gives up forgets its first page, which stays handed out.
LEMMA MicroGiveUpInv == IInv /\ MicroGiveUp => IInv'
<1> SUFFICES ASSUME IInv, MicroGiveUp PROVE IInv'
  OBVIOUS
<1> USE ConstantsAssumption DEF IInv, MicroGiveUp, GoIdle, Back, pmaVars, scanVars, ownerVars
<1>1. TypeOK'
  BY DEF TypeOK, Points, Clients
<1>2. CountersAgree' /\ ReservedKept'
  BY DEF CountersAgree, ReservedKept
<1>3. OwnersDisjoint'
  BY DEF OwnersDisjoint, ReturnedBlock, BufferPages, Block, ControlOK
<1>4. ControlOK'
  BY DEF ControlOK
<1>5. PageScanInv' /\ PmaScanInv'
  BY DEF PageScanInv, PmaScanInv, TypeOK
<1> QED
  BY <1>1, <1>2, <1>3, <1>4, <1>5

\* Storing a returned pointer moves its block to its owner.
LEMMA BenchSecondInv == IInv /\ BenchSecond => IInv'
<1> SUFFICES ASSUME IInv, BenchSecond PROVE IInv'
  OBVIOUS
<1> USE ConstantsAssumption DEF IInv, BenchSecond, CallPage, Back, pmaVars, scanVars, ownerVars
<1>1. TypeOK'
  BY DEF TypeOK, Points, Clients
<1>2. CountersAgree' /\ ReservedKept'
  BY DEF CountersAgree, ReservedKept
<1>3. OwnersDisjoint'
  BY DEF OwnersDisjoint, ReturnedBlock, BufferPages, Block, ControlOK
<1>4. ControlOK'
  BY DEF ControlOK
<1>5. PageScanInv' /\ PmaScanInv'
  BY DEF PageScanInv, PmaScanInv, TypeOK
<1> QED
  BY <1>1, <1>2, <1>3, <1>4, <1>5

LEMMA BenchBeginInv == IInv /\ BenchBegin => IInv'
<1> SUFFICES ASSUME IInv, BenchBegin PROVE IInv'
  OBVIOUS
<1> USE ConstantsAssumption DEF IInv, BenchBegin, Back, pmaVars, scanVars, ownerVars
<1>1. TypeOK'
  BY DEF TypeOK, Points, Clients
<1>2. CountersAgree' /\ ReservedKept'
  BY DEF CountersAgree, ReservedKept
<1>3. OwnersDisjoint'
  BY DEF OwnersDisjoint, ReturnedBlock, BufferPages, Block, ControlOK
<1>4. ControlOK'
  BY DEF ControlOK
<1>5. PageScanInv' /\ PmaScanInv'
  BY DEF PageScanInv, PmaScanInv, TypeOK
<1> QED
  BY <1>1, <1>2, <1>3, <1>4, <1>5

LEMMA MicroSecondInv == IInv /\ MicroSecond => IInv'
<1> SUFFICES ASSUME IInv, MicroSecond PROVE IInv'
  OBVIOUS
<1> USE ConstantsAssumption DEF IInv, MicroSecond, CallPage, Back, pmaVars, scanVars, ownerVars
<1>1. TypeOK'
  BY DEF TypeOK, Points, Clients
<1>2. CountersAgree' /\ ReservedKept'
  BY DEF CountersAgree, ReservedKept
<1>3. OwnersDisjoint'
  BY DEF OwnersDisjoint, ReturnedBlock, BufferPages, Block, ControlOK
<1>4. ControlOK'
  BY DEF ControlOK
<1>5. PageScanInv' /\ PmaScanInv'
  BY DEF PageScanInv, PmaScanInv, TypeOK
<1> QED
  BY <1>1, <1>2, <1>3, <1>4, <1>5

LEMMA MicroBeginInv == IInv /\ MicroBegin => IInv'
<1> SUFFICES ASSUME IInv, MicroBegin PROVE IInv'
  OBVIOUS
<1> USE ConstantsAssumption DEF IInv, MicroBegin, Back, pmaVars, scanVars, ownerVars
<1>1. TypeOK'
  BY DEF TypeOK, Points, Clients
<1>2. CountersAgree' /\ ReservedKept'
  BY DEF CountersAgree, ReservedKept
<1>3. OwnersDisjoint'
  BY DEF OwnersDisjoint, ReturnedBlock, BufferPages, Block, ControlOK
<1>4. ControlOK'
  BY DEF ControlOK
<1>5. PageScanInv' /\ PmaScanInv'
  BY DEF PageScanInv, PmaScanInv, TypeOK
<1> QED
  BY <1>1, <1>2, <1>3, <1>4, <1>5

LEMMA FatKeepInv == IInv /\ FatKeep => IInv'
<1> SUFFICES ASSUME IInv, FatKeep PROVE IInv'
  OBVIOUS
<1> USE ConstantsAssumption DEF IInv, FatKeep, GoIdle, Back, pmaVars, scanVars, ownerVars
<1>1. TypeOK'
  BY DEF TypeOK, Points, Clients
<1>2. CountersAgree' /\ ReservedKept'
  BY DEF CountersAgree, ReservedKept
<1>3. OwnersDisjoint'
  BY DEF OwnersDisjoint, ReturnedBlock, BufferPages, Block, ControlOK
<1>4. ControlOK'
  BY DEF ControlOK
<1>5. PageScanInv' /\ PmaScanInv'
  BY DEF PageScanInv, PmaScanInv, TypeOK
<1> QED
  BY <1>1, <1>2, <1>3, <1>4, <1>5

\* What qizo_page_free gives back, for pointers whose blocks are disjoint.
LEMMA FreeBothFacts ==
  ASSUME IInv, NEW n \in Nat \ {0},
         Block(a, n) \subseteq out, Block(b, n) \subseteq out,
         Block(a, n) \cap Block(b, n) = {},
         PageFreeBoth(a, b, n)
  PROVE  /\ bitmap' = bitmap \cup (Block(a, n) \cup Block(b, n))
         /\ out' = out \ (Block(a, n) \cup Block(b, n))
         /\ CountersAgree'
         /\ free_frames' \in Nat /\ used_frames' \in Nat
         /\ total_frames' = total_frames /\ hint' = hint
<1> DEFINE A == Block(a, n)
           B == Block(b, n)
           na == IF a = NoFrame THEN 0 ELSE n
           nb == IF b = NoFrame THEN 0 ELSE n
<1>1. /\ a \in Nat \cup {NoFrame} /\ b \in Nat \cup {NoFrame}
      /\ out \subseteq 0 .. total_frames - 1 /\ total_frames \in Nat
      /\ bitmap \subseteq 0 .. total_frames - 1
  BY DEF IInv, TypeOK
<1>2. IsFiniteSet(A) /\ Cardinality(A) = na
  <2>1. CASE a = NoFrame
    BY <2>1, FS_EmptySet DEF Block
  <2>2. CASE a \in Nat
    BY <2>2, BlockFacts DEF NoFrame
  <2> QED
    BY <1>1, <2>1, <2>2
<1>3. IsFiniteSet(B) /\ Cardinality(B) = nb
  <2>1. CASE b = NoFrame
    BY <2>1, FS_EmptySet DEF Block
  <2>2. CASE b \in Nat
    BY <2>2, BlockFacts DEF NoFrame
  <2> QED
    BY <1>1, <2>1, <2>2
<1>4. /\ bitmap' = bitmap \cup ((A \cup B) \cap 0 .. total_frames - 1)
      /\ free_frames' = free_frames + (na + nb)
      /\ used_frames' = used_frames - (na + nb)
      /\ out' = out \ (A \cup B)
      /\ total_frames' = total_frames /\ hint' = hint
  BY DEF PageFreeBoth
<1>5. A \subseteq out /\ B \subseteq out /\ A \cap B = {}
  OBVIOUS
<1>6. na \in Nat /\ nb \in Nat
  OBVIOUS
<1> HIDE DEF A, B, na, nb
<1>7. IsFiniteSet(A \cup B) /\ Cardinality(A \cup B) = na + nb
  BY <1>2, <1>3, <1>5, CardDisjointUnion
<1>8. IsFiniteSet(bitmap) /\ IsFiniteSet(out)
  BY <1>1, FramesFinite
<1>9. bitmap' = bitmap \cup (A \cup B)
  BY <1>1, <1>4, <1>5
<1>10. bitmap \cap (A \cup B) = {}
  BY <1>5 DEF IInv, OwnersDisjoint
<1>11. /\ Cardinality(bitmap \cup (A \cup B)) = Cardinality(bitmap) + (na + nb)
       /\ Cardinality(bitmap) \in Nat
  BY <1>7, <1>8, <1>10, CardDisjointUnion
<1>12. /\ Cardinality(out \ (A \cup B)) = Cardinality(out) - (na + nb)
       /\ Cardinality(out) \in Nat /\ na + nb <= Cardinality(out)
  <2>1. A \cup B \subseteq out
    BY <1>5
  <2> QED
    BY <2>1, <1>7, <1>8, CardDiff
<1>13. free_frames = Cardinality(bitmap) /\ used_frames = Cardinality(out)
  BY DEF IInv, CountersAgree
<1>14. CountersAgree'
  BY <1>4, <1>9, <1>11, <1>12, <1>13 DEF CountersAgree
<1> QED
  BY <1>4, <1>6, <1>9, <1>11, <1>12, <1>13, <1>14 DEF A, B

LEMMA BenchEndInv == IInv /\ BenchEnd => IInv'
<1> SUFFICES ASSUME IInv, BenchEnd PROVE IInv'
  OBVIOUS
<1> USE ConstantsAssumption DEF BenchEnd, GoIdle, scanVars
<1>1. BufferPages = BenchPages
  BY DEF BufferPages, IInv, ControlOK
<1>2. /\ Block(a, BenchPages) \subseteq out /\ Block(b, BenchPages) \subseteq out
      /\ Block(a, BenchPages) \cap Block(b, BenchPages) = {}
      /\ Block(fatbuf, fatsize) \cap (Block(a, BenchPages) \cup Block(b, BenchPages)) = {}
      /\ Block(fatbuf, fatsize) \subseteq out
  BY <1>1 DEF IInv, OwnersDisjoint
<1>3. /\ bitmap' = bitmap \cup (Block(a, BenchPages) \cup Block(b, BenchPages))
      /\ out' = out \ (Block(a, BenchPages) \cup Block(b, BenchPages))
      /\ CountersAgree'
      /\ free_frames' \in Nat /\ used_frames' \in Nat
      /\ total_frames' = total_frames /\ hint' = hint
  BY <1>2, FreeBothFacts
<1>4. TypeOK'
  <2>1. bitmap' \subseteq 0 .. total_frames' - 1 /\ out' \subseteq 0 .. total_frames' - 1
    BY <1>2, <1>3 DEF IInv, TypeOK
  <2> QED
    BY <1>3, <2>1 DEF IInv, TypeOK, Points, Clients
<1>5. OwnersDisjoint'
  <2>1. ReturnedBlock' = {} /\ Block(a, BufferPages)' = {} /\ Block(b, BufferPages)' = {}
    BY DEF ReturnedBlock, Block
  <2>2. Block(fatbuf, fatsize)' = Block(fatbuf, fatsize)
    BY DEF Block
  <2>3. bitmap' \cap out' = {} /\ Block(fatbuf, fatsize) \subseteq out'
    BY <1>2, <1>3 DEF IInv, OwnersDisjoint
  <2> QED
    BY <2>1, <2>2, <2>3 DEF OwnersDisjoint
<1>6. ReservedKept'
  BY <1>2, <1>3 DEF IInv, ReservedKept
<1>7. ControlOK' /\ PageScanInv' /\ PmaScanInv'
  BY DEF IInv, ControlOK, PageScanInv, PmaScanInv
<1> QED
  BY <1>3, <1>4, <1>5, <1>6, <1>7 DEF IInv

LEMMA MicroEndInv == IInv /\ MicroEnd => IInv'
<1> SUFFICES ASSUME IInv, MicroEnd PROVE IInv'
  OBVIOUS
<1> USE ConstantsAssumption DEF MicroEnd, GoIdle, scanVars
<1>1. BufferPages = 1
  BY DEF BufferPages, IInv, ControlOK
<1>2. /\ Block(a, 1) \subseteq out /\ Block(b, 1) \subseteq out
      /\ Block(a, 1) \cap Block(b, 1) = {}
      /\ Block(fatbuf, fatsize) \cap (Block(a, 1) \cup Block(b, 1)) = {}
      /\ Block(fatbuf, fatsize) \subseteq out
  BY <1>1 DEF IInv, OwnersDisjoint
<1>3. /\ bitmap' = bitmap \cup (Block(a, 1) \cup Block(b, 1))
      /\ out' = out \ (Block(a, 1) \cup Block(b, 1))
      /\ CountersAgree'
      /\ free_frames' \in Nat /\ used_frames' \in Nat
      /\ total_frames' = total_frames /\ hint' = hint
  BY <1>2, FreeBothFacts
<1>4. TypeOK'
  <2>1. bitmap' \subseteq 0 .. total_frames' - 1 /\ out' \subseteq 0 .. total_frames' - 1
    BY <1>2, <1>3 DEF IInv, TypeOK
  <2> QED
    BY <1>3, <2>1 DEF IInv, TypeOK, Points, Clients
<1>5. OwnersDisjoint'
  <2>1. ReturnedBlock' = {} /\ Block(a, BufferPages)' = {} /\ Block(b, BufferPages)' = {}
    BY DEF ReturnedBlock, Block
  <2>2. Block(fatbuf, fatsize)' = Block(fatbuf, fatsize)
    BY DEF Block
  <2>3. bitmap' \cap out' = {} /\ Block(fatbuf, fatsize) \subseteq out'
    BY <1>2, <1>3 DEF IInv, OwnersDisjoint
  <2> QED
    BY <2>1, <2>2, <2>3 DEF OwnersDisjoint
<1>6. ReservedKept'
  BY <1>2, <1>3 DEF IInv, ReservedKept
<1>7. ControlOK' /\ PageScanInv' /\ PmaScanInv'
  BY DEF IInv, ControlOK, PageScanInv, PmaScanInv
<1> QED
  BY <1>3, <1>4, <1>5, <1>6, <1>7 DEF IInv

LEMMA StutterInv == IInv /\ UNCHANGED vars => IInv'
<1> SUFFICES ASSUME IInv, UNCHANGED vars PROVE IInv'
  OBVIOUS
<1> USE DEF vars, pmaVars, scanVars, ownerVars
<1>1. TypeOK' /\ CountersAgree' /\ ReservedKept'
  BY DEF IInv, TypeOK, CountersAgree, ReservedKept
<1>2. OwnersDisjoint'
  BY DEF IInv, OwnersDisjoint, ReturnedBlock, BufferPages, Block
<1>3. ControlOK' /\ PageScanInv' /\ PmaScanInv'
  BY DEF IInv, ControlOK, PageScanInv, PmaScanInv, ProbeAt
<1> QED
  BY <1>1, <1>2, <1>3 DEF IInv

\* The inductive invariant holds of every behaviour of the allocator.
THEOREM InductiveInvariant == Spec => []IInv
<1>1. Init => IInv
  BY InitInv
<1>2. IInv /\ [Next]_vars => IInv'
  BY PmaInitInv, PmaSkipInv, PmaTakeInv, FailInv, PageScanStepInv, PageTakeInv,
     MemstatInv, MemstatNextInv, MemstatEndInv, BenchInv, MicroInv, FatScanInv,
     MicroGiveUpInv, BenchSecondInv, BenchBeginInv, MicroSecondInv, MicroBeginInv,
     FatKeepInv, BenchEndInv, MicroEndInv, StutterInv
  DEF Next, Start, Work
<1> QED
  BY <1>1, <1>2, PTL DEF Spec

\* No counter of pma.c ever wraps and every pointer is a frame or null.
THEOREM TypeCorrect == Spec => []TypeOK
<1>1. IInv => TypeOK
  BY DEF IInv
<1> QED
  BY <1>1, InductiveInvariant, PTL

\* The free and used counts of the memory report are the sizes of the free
\* set and of the set of frames handed out.
THEOREM CountersAreTrue == Spec => []CountersAgree
<1>1. IInv => CountersAgree
  BY DEF IInv
<1> QED
  BY <1>1, InductiveInvariant, PTL

\* No page has two owners and no owned page is free.
THEOREM OwnersAreDisjoint == Spec => []OwnersDisjoint
<1>1. IInv => OwnersDisjoint
  BY DEF IInv
<1> QED
  BY <1>1, InductiveInvariant, PTL

\* Reserved memory is never handed out.
THEOREM ReservedIsKept == Spec => []ReservedKept
<1>1. IInv => ReservedKept
  BY DEF IInv
<1> QED
  BY <1>1, InductiveInvariant, PTL

\* Both searches are exhaustive: they report failure only when nothing that
\* would satisfy the request is free.
THEOREM SearchesAreComplete == Spec => FailsOnlyWhenFull
<1> DEFINE A ==
      /\ pc = "pma_alloc" /\ pc' = "return" /\ ret' = NoFrame => bitmap = {}
      /\ pc = "page_alloc" /\ pc' = "return" /\ ret' = NoFrame =>
           \A f \in bitmap : ~(f .. f + pages - 1 \subseteq bitmap)
<1>1. IInv /\ [Next]_vars => [A]_vars
  <2> SUFFICES ASSUME IInv, Next PROVE A
    OBVIOUS
  <2>1. ASSUME pc = "pma_alloc", pc' = "return", ret' = NoFrame
        PROVE  bitmap = {}
    <3>1. PmaTake \/ PmaFail
      BY <2>1 DEF Next, Start, Work, PmaInit, PmaSkip, PageScan, PageTake, PageFail,
         Memstat, MemstatNext, MemstatEnd, Bench, BenchSecond, BenchBegin, BenchEnd,
         Micro, MicroSecond, MicroBegin, MicroGiveUp, MicroEnd, FatScan, FatKeep,
         Idle, Back
    <3>2. PmaFail
      BY <2>1, <3>1 DEF PmaTake, IInv, TypeOK, NoFrame
    <3>3. i = total_frames /\ \A j \in 0 .. i - 1 : ProbeAt(j) \notin bitmap
      BY <3>2 DEF PmaFail, ScanOver, IInv, PmaScanInv, TypeOK
    <3>4. ASSUME NEW f \in bitmap
          PROVE  FALSE
      <4>1. f \in 0 .. total_frames - 1 /\ total_frames \in Nat /\ hint \in Nat
            /\ hint < total_frames
        BY <3>4 DEF IInv, TypeOK
      <4> DEFINE j == IF f >= hint THEN f - hint ELSE f + total_frames - hint
      <4>2. j \in 0 .. total_frames - 1 /\ ProbeAt(j) = f
        BY <4>1 DEF ProbeAt
      <4> QED
        BY <3>3, <3>4, <4>2
    <3> QED
      BY <3>4
  <2>2. ASSUME pc = "page_alloc", pc' = "return", ret' = NoFrame, NEW f \in bitmap,
               f .. f + pages - 1 \subseteq bitmap
        PROVE  FALSE
    <3>1. PageTake \/ PageFail
      BY <2>2 DEF Next, Start, Work, PmaInit, PmaSkip, PmaTake, PmaFail, PageScan,
         Memstat, MemstatNext, MemstatEnd, Bench, BenchSecond, BenchBegin, BenchEnd,
         Micro, MicroSecond, MicroBegin, MicroGiveUp, MicroEnd, FatScan, FatKeep,
         Idle, Back
    <3>2. PageFail
      BY <2>2, <3>1 DEF PageTake, IInv, TypeOK, NoFrame
    <3>3. /\ f \in Nat /\ pages \in Nat \ {0} /\ total_frames \in Nat
          /\ bitmap \subseteq 0 .. total_frames - 1 /\ i \in Nat
      BY DEF IInv, TypeOK
    <3>4. f + pages - 1 \in bitmap
      BY <2>2, <3>3
    <3>5. f + pages <= i
      BY <3>2, <3>3, <3>4 DEF PageFail
    <3> QED
      BY <2>2, <3>2, <3>5 DEF PageFail, IInv, PageScanInv
  <2> QED
    BY <2>1, <2>2
<1> QED
  BY <1>1, InductiveInvariant, PTL DEF Spec, FailsOnlyWhenFull

---------------------------------------------------------------------------
(* The rounding of qizo_pma_init.                                          *)

\* An address is rounded down to a multiple of the page size.
LEMMA RoundDown ==
  ASSUME NEW x \in Nat
  PROVE  /\ PageDown(x) = PageSize * (x \div PageSize)
         /\ PageDown(x) \in Nat /\ x \div PageSize \in Nat
         /\ PageDown(x) <= x /\ x < PageDown(x) + PageSize
<1> USE ConstantsAssumption
<1> DEFINE q == x \div PageSize
           r == x % PageSize
<1>1. x = (PageSize * q) + r /\ r \in 0 .. PageSize - 1 /\ q \in Nat
  BY DivMod
<1>2. PageDown(x) = x - r
  BY DEF PageDown
<1> HIDE DEF q, r
<1>3. PageSize * q \in Int
  BY <1>1
<1>4. PageDown(x) = PageSize * q
  BY <1>1, <1>2, <1>3
<1> QED
  BY <1>1, <1>2, <1>4 DEF q

\* The order of two multiples of the page size is that of their factors.
LEMMA PageOrder ==
  ASSUME NEW p \in Int, NEW q \in Int
  PROVE  /\ p <= q => PageSize * p <= PageSize * q
         /\ PageSize * p < PageSize * q + PageSize => p <= q
<1> USE ConstantsAssumption
<1>1. PageSize * (q - p) = PageSize * q - PageSize * p /\ PageSize * p \in Int
      /\ PageSize * q \in Int
  OBVIOUS
<1>2. p <= q => PageSize * (q - p) >= 0
  OBVIOUS
<1>3. ASSUME p > q PROVE PageSize * (p - q) >= PageSize
  BY <1>3, Multiples
<1>4. PageSize * (p - q) = PageSize * p - PageSize * q
  OBVIOUS
<1> QED
  BY <1>1, <1>2, <1>3, <1>4

\* The quotient of a multiple of the page size.
LEMMA PageQuotient ==
  ASSUME NEW q \in Nat
  PROVE  (PageSize * q) \div PageSize = q /\ PageDown(PageSize * q) = PageSize * q
<1> USE ConstantsAssumption
<1>1. PageSize * q \in Nat
  OBVIOUS
<1> DEFINE x == PageSize * q
           p == x \div PageSize
<1>2. /\ PageDown(x) = PageSize * p /\ p \in Nat
      /\ PageDown(x) <= x /\ x < PageDown(x) + PageSize
  BY <1>1, RoundDown
<1> HIDE DEF p
<1>3. q <= p /\ p <= q
  BY <1>1, <1>2, PageOrder
<1> QED
  BY <1>2, <1>3 DEF p

\* Rounding an address up never passes a multiple of the page size above it.
LEMMA RoundUp ==
  ASSUME NEW x \in Nat, NEW q \in Nat, x <= PageSize * q
  PROVE  PageUp(x) \div PageSize <= q /\ PageUp(x) \div PageSize \in Nat
<1> USE ConstantsAssumption
<1> DEFINE y == x + PageSize - 1
           p == y \div PageSize
<1>1. y \in Nat
  OBVIOUS
<1>2. PageUp(x) = PageSize * p /\ p \in Nat /\ PageSize * p <= y
  BY <1>1, RoundDown DEF PageUp
<1>3. PageUp(x) \div PageSize = p
  BY <1>2, PageQuotient
<1>4. PageSize * p < PageSize * q + PageSize
  <2>1. y < PageSize * q + PageSize
    OBVIOUS
  <2> HIDE DEF y, p
  <2> QED
    BY <1>1, <1>2, <2>1
<1> HIDE DEF p
<1>5. p <= q
  BY <1>2, <1>4, PageOrder
<1> QED
  BY <1>2, <1>3, <1>5

\* A frame set for a usable entry starts no lower than the page of the
\* entry's base and ends no higher than the entry.
LEMMA EntryIsBacked ==
  ASSUME NEW base \in Nat, NEW size \in Nat, NEW top \in Nat, NEW e,
         e.base = base, e.size = size, NEW f \in EntryFrames(e, top)
  PROVE  /\ f \in Nat /\ PageDown(base) <= f * PageSize
         /\ f * PageSize + PageSize <= base + size
<1> USE ConstantsAssumption
<1> DEFINE lo == PageDown(base)
           full == PageDown(base + size)
           end == IF full > top THEN top ELSE full
           p == base \div PageSize
           q == (base + size) \div PageSize
<1>1. lo = PageSize * p /\ p \in Nat /\ lo \in Nat
  BY RoundDown
<1>2. full = PageSize * q /\ q \in Nat /\ full \in Nat /\ full <= base + size
  <2>1. base + size \in Nat
    OBVIOUS
  <2> QED
    BY <2>1, RoundDown
<1>3. f \in RangeFrames(lo, end - lo)
  BY DEF EntryFrames
<1> HIDE DEF lo, full, p, q
<1>4. lo + (end - lo) = end /\ end \in Nat /\ end <= full
  BY <1>1, <1>2
<1>5. PageDown(lo) \div PageSize = p
  BY <1>1, PageQuotient
<1>6. PageUp(end) \div PageSize <= q /\ PageUp(end) \div PageSize \in Nat
  BY <1>2, <1>4, RoundUp
<1>7. f \in p .. (PageUp(end) \div PageSize) - 1
  BY <1>3, <1>4, <1>5 DEF RangeFrames
<1>8. f \in Nat /\ p <= f /\ f + 1 <= q
  BY <1>1, <1>2, <1>6, <1>7
<1>9. PageSize * p <= PageSize * f /\ PageSize * (f + 1) <= PageSize * q
  BY <1>1, <1>2, <1>8, PageOrder
<1>10. PageSize * (f + 1) = f * PageSize + PageSize /\ PageSize * f = f * PageSize
  BY <1>8
<1> QED
  BY <1>1, <1>2, <1>8, <1>9, <1>10 DEF lo

\* Every byte of a frame that qizo_pma_init sets belongs to a usable entry,
\* counted from the page its base lies in.
LEMMA MarkedIsUsable ==
  ASSUME NEW bi \in Boots, NEW f \in MarkedFrames(bi),
         NEW x \in f * PageSize .. f * PageSize + PageSize - 1
  PROVE  \E e \in Usable(bi) : PageDown(e.base) <= x /\ x < e.base + e.size
<1> USE ConstantsAssumption
<1>1. PICK e \in Usable(bi) : f \in EntryFrames(e, Top(bi))
  BY DEF MarkedFrames
<1>2. e.base \in Nat /\ e.size \in Nat
  BY DEF Usable, BootInfo, E820Entry
<1>3. Top(bi) \in Nat
  BY TopType
<1>4. /\ f \in Nat /\ PageDown(e.base) <= f * PageSize
      /\ f * PageSize + PageSize <= e.base + e.size
  BY <1>1, <1>2, <1>3, EntryIsBacked
<1>5. PageDown(e.base) <= x /\ x < e.base + e.size
  <2>1. f * PageSize \in Int
    BY <1>4
  <2>2. PageDown(e.base) \in Nat
    BY <1>2, RoundDown
  <2> QED
    BY <1>2, <1>4, <2>1, <2>2
<1> QED
  BY <1>1, <1>5

\* After qizo_pma_init no step adds a frame to the free and the handed out
\* ones together: the allocator only moves frames between the two.
LEMMA FramesOnlyMove ==
  IInv /\ [Next]_vars => boot' = boot /\ (PmaInit \/ (bitmap \cup out)' \subseteq bitmap \cup out)
<1> SUFFICES ASSUME IInv, [Next]_vars, ~PmaInit
             PROVE  (bitmap \cup out)' \subseteq bitmap \cup out /\ boot' = boot
  BY DEF PmaInit
<1> USE DEF pmaVars, scanVars, ownerVars
<1>1. CASE UNCHANGED vars
  BY <1>1 DEF vars
<1>2. CASE Start
  BY <1>2 DEF Start, Memstat, Bench, Micro, FatScan
<1>3. CASE PmaSkip \/ PmaTake \/ PmaFail
  BY <1>3 DEF PmaSkip, PmaTake, PmaFail
<1>4. CASE PageScan \/ PageFail
  BY <1>4 DEF PageScan, PageFail
<1>5. CASE PageTake
  <2>1. Block(first, pages) \subseteq bitmap
    <3>1. /\ i \in Nat /\ run \in Nat /\ first \in Nat /\ pages \in Nat \ {0}
      BY DEF IInv, TypeOK
    <3>2. first = i - run /\ (i - run) .. (i - 1) \subseteq bitmap /\ run = pages
      BY <1>5, <3>1 DEF IInv, PageScanInv, PageTake
    <3> QED
      BY <3>1, <3>2, BlockFacts
  <2> QED
    BY <1>5, <2>1 DEF PageTake
<1>6. CASE MemstatNext \/ MemstatEnd \/ BenchSecond \/ BenchBegin \/ MicroSecond
           \/ MicroBegin \/ MicroGiveUp \/ FatKeep
  BY <1>6 DEF MemstatNext, MemstatEnd, BenchSecond, BenchBegin, MicroSecond, MicroBegin,
     MicroGiveUp, FatKeep
<1>7. CASE BenchEnd
  <2>1. BufferPages = BenchPages
    BY <1>7 DEF BufferPages, BenchEnd
  <2>2. Block(a, BenchPages) \subseteq out /\ Block(b, BenchPages) \subseteq out
    BY <2>1 DEF IInv, OwnersDisjoint
  <2> QED
    BY <1>7, <2>2 DEF BenchEnd, PageFreeBoth
<1>8. CASE MicroEnd
  <2>1. BufferPages = 1
    BY <1>8 DEF BufferPages, MicroEnd, IInv, ControlOK
  <2>2. Block(a, 1) \subseteq out /\ Block(b, 1) \subseteq out
    BY <2>1 DEF IInv, OwnersDisjoint
  <2> QED
    BY <1>8, <2>2 DEF MicroEnd, PageFreeBoth
<1> QED
  BY <1>1, <1>2, <1>3, <1>4, <1>5, <1>6, <1>7, <1>8 DEF Next, Work

\* No frame without memory behind it is ever handed out, whatever the memory
\* map and wherever its entries begin and end.
THEOREM FramesAreUsable == Spec => []OnlyUsable
<1>1. Init => OnlyUsable
  BY DEF Init, OnlyUsable
<1>2. IInv /\ OnlyUsable /\ [Next]_vars => OnlyUsable'
  <2> SUFFICES ASSUME IInv, OnlyUsable, [Next]_vars
               PROVE  OnlyUsable'
    OBVIOUS
  <2>1. boot' = boot /\ boot \in Boots
    BY FramesOnlyMove DEF IInv, TypeOK
  <2>2. CASE PmaInit
    <3>1. (bitmap \cup out)' \subseteq MarkedFrames(boot)
      BY <2>2 DEF PmaInit, InitialBitmap, IInv, ControlOK
    <3> QED
      BY <2>1, <3>1, MarkedIsUsable DEF OnlyUsable
  <2>3. CASE (bitmap \cup out)' \subseteq bitmap \cup out
    BY <2>1, <2>3 DEF OnlyUsable
  <2> QED
    BY <2>2, <2>3, FramesOnlyMove
<1> QED
  BY <1>1, <1>2, InductiveInvariant, PTL DEF Spec
===========================================================================
