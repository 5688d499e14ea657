# Verification of qizo

qizo is a small x86-64 operating system: a two-stage BIOS loader, a single-core
kernel with an interactive shell, and Python tools that build its disk image.
This directory holds TLA+ models of its parts, the TLC configurations that check
them on small instances, and proofs that TLAPS checks for every value of the
constants. `PROJECT.json` maps each definition to the source lines it models.

## 1. The system

| part | state it keeps | operations | interacts with |
| --- | --- | --- | --- |
| frame allocator (`kernel/drivers/pma.c`) | bitmap, three counters, hint | init from the memory map, one frame, a run of pages, release | called by the memory report, two benchmarks and the FAT driver, always from the shell |
| keyboard (`kernel/drivers/kbd.c`) | ring of 256 keys, modifier and prefix flags | interrupt with one byte, `qizo_kbd_get` | irq 1 writes the ring, the shell reads it |
| interrupts and timer (`kernel/main.c`, `idt.S`) | tick and irq counters | dispatch by vector, sleep, calibrate | keyboard, mouse |
| shell (`kernel/shell.c`) | line, history ring, hist_at, keys mode | one key at a time | reads the keyboard, runs commands, writes the console |
| mouse (`kernel/drivers/mouse.c`) | packet under construction, position, ring of 64 moves | interrupt with one byte, read, flush, report | shares the controller and its data port with the keyboard |
| driver registry (`driver.c`) | table of slots, started flag | start once | probes and starts each driver |
| ATA, FAT (`ata.c`, `fat.c`) | drives, error counters, one sector and one FAT buffer | PIO read, volume scan | FAT reads through ATA and takes a buffer from the allocator; it scans while the drivers start and at each `sysmngr -free` |
| console (`console.c`) | cursor, attribute, 80x25 cells | putc, scroll, printf | every part that prints |
| memory primitives (`lib/`) | none | copy and fill | everybody |
| PCI, network card, cpu, system manager | tables filled once | probe, print | shell commands |
| boot stages (`boot/`) | boot information block | load, check, decompress, hand over | the kernel reads the block |
| image and iso builders (`mkqizoimg.py`, `mkqizoiso.py`) | files | layout, FAT, boot area, descriptors | stage 1, stage 2, the FAT driver, the checkers |
| compression (`qizolzss.py`) | none | compress, decompress, checksum | the builder, stage 2's decoder, the checkers |
| image checkers (`qizocheck.py`, `qizobootmodel.py`, `qizotest.py`) | none | judge an image or an iso, replay the boot | gate what is published |
| host runner (`qizoasmrun.py`) | scratch directory | build and run pieces of the boot code on the host, judge what they stored | stage 2, `idt.S` |

There is one processor and no preemption. Concurrency comes from interrupts and
from devices: interrupt gates keep interrupts off, so a handler is one step, and
everything outside a handler can be interrupted between two statements.

What is hard in this code, and what would make each part correct:

* allocator: unsigned counters without checks, partly successful allocations,
  rounding of a memory map that is not page aligned. Correct when the counters
  tell the truth, no page has two owners, nothing reserved is handed out, and
  an allocation fails only when it must.
* keyboard: an interrupt inside the reader; multi-byte sequences; the `mouse`
  command reading the same port, and the mouse's own bytes standing in it without
  an interrupt. Correct when the ring is a queue, the decoder agrees with the
  buttons, and every byte the controller hands over is read in the end.
* shell: a wrapping history with a second index into it; several ways to change
  the line and the screen; lines longer than a row of the console. Correct when no
  buffer overflows, the ring is the list of recent commands, and what is shown is
  what will run.
* mouse: packet framing, an overwriting ring. Its interrupt is never served (`pic_init`,
  `main.c:39`), so what is left of it are bytes in the controller it shares.
* storage: errors in the middle of a transfer, short reads, a buffer kept from a scan of
  another volume, positions taken from two different origins. Correct when the
  volume booted from is found, its table fits the buffer, and the numbers
  reported are those of the volume.
* boot chain: every error exit, the integrity check, decoder against encoder.
* builders and checkers: they compute the same positions independently of the
  loader and the kernel. Correct when the parts of an image do not overlap and
  lie where each reader looks, and a checker passes what boots and nothing else.
* host runner: its verdict stands for code it never boots. Correct when success
  means that the processor would find the right tables, and a skip hides no fault.
* timer: a test of the tick counter followed by a halt.

`PROJECT.json` lists these as hazards with their lines and the properties that
cover them.

## 2. Modules

| module | models |
| --- | --- |
| `FrameAllocator` | `pma.c` and its callers in `sysinfo.c`, `bench.c`, `fat.c` |
| `KeyQueue` | what a key queue promises: a bounded first-in first-out queue |
| `KbdQueue` | the ring of `kbd.c` with its interruptible reader; implements `KeyQueue` |
| `Keyboard` | extends `KbdQueue`: keyboard, mouse and controller (external), irq 1, the set 2 decoder, the shell as reader, the `mouse` command |
| `RecentList` | what a history promises: the most recent distinct texts |
| `History` | the history ring of `shell.c`; implements `RecentList` |
| `Shell` | extends `History`: the key loop, editor, completion, look-up; of `console.c` the column, the wrap and the backspace |
| `BootImage` | the boot area and argument block `mkqizoimg` writes, with its refusals |
| `BootChain` | extends `BootImage`: stage 1 and stage 2 up to the jump into the kernel |
| `BootCheck` | extends `BootChain`: what `qizocheck.main` and `qizobootmodel` say of the same image |
| `Lzss` | `qizolzss.compress`, stage 2's `qizo_decompress`, `qizolzss.decompress`, the blob test of `qizoasmrun` |
| `Adler` | stage 2's `qizo_adler` next to the reference checksum of `qizotest` |
| `Disk` | `mkqizoimg`: layout, boot sector, FAT, files; `qizocheck.check_fs` reading them back |
| `Iso` | extends `Disk`: `mkqizoiso` and `qizocheck.check_iso` |
| `Volume` | extends `Disk`: `fat.c` scanning the image through `ata.c`, while the system boots and at every `sysmngr -free c/` or `d/` |
| `ImageLife` | extends `Iso` and `Volume`: an image is built and checked, then wrapped or scanned |
| `Harness` | `qizoasmrun` with the page table, gate and fault report code it runs |
| `KernelLemmas` | facts on numbers, finite sets and sequences used by the proofs |
| `FrameAllocatorProofs` | theorems on `FrameAllocator` |
| `KbdQueueProofs` | theorems on `KbdQueue` and `Keyboard` |
| `HistoryProofs` | theorems on `History` and `Shell` |
| `BootProofs` | theorems on `BootChain` and `BootCheck` |
| `LzssProofs` | theorems on `Lzss` and on `Adler` |
| `HarnessProofs` | theorems on `Harness` |
| `DiskProofs` | theorems on `ImageLife`, that is on `Disk`, `Iso` and `Volume` |
| `MCFrameAllocator`, `MCKeyboard`, `MCShell`, `MCBootChain`, `MCLzss`, `MCDisk`, `MCHarness` | instances for TLC; `MCLzss` joins `Lzss` and `Adler`, `MCDisk` instantiates `ImageLife` |

**FrameAllocator.** `bitmap` is the set of frames whose bit is set. Addresses are
frame numbers. `i`, `run`, `first`, `pages` are the locals of the running search;
each iteration of the loops in `qizo_pma_alloc` (`PmaSkip`, `PmaTake`, `PmaFail`)
and `qizo_page_alloc` (`PageScan`, `PageTake`, `PageFail`) is a step. A caller is
a sequence of actions around these calls (`Bench`, `BenchSecond`, `BenchBegin`,
`BenchEnd`). `out` and `fatsize` are history variables. Memory is counted in
units, `PageSize` of them to a frame, so that maps with unaligned entries exist.

**KbdQueue, Keyboard.** `Load` and `Advance` are the two halves of `qizo_kbd_get`
between which an interrupt may fall. The keyboard is a device that keeps the set
of buttons held and sends make and break sequences; `typed` records what those
presses mean, `pushed` what the driver made of the bytes. The output buffer `obf` is one
byte for both ports: `aux` are the bytes the mouse still has to send (the answers to the
commands of `qizo_mouse_start`, which nobody reads, and movements), `obf_aux` is status bit 5.
`pic_init` masks the line of the second controller, so irq 12 is never served, and a byte of the
mouse is taken by the `mouse` command or by a pending irq 1, whose handler does not look at
bit 5. Until then the controller can hand over nothing else. `astray` is a history variable: a byte
has gone to the wrong reader. The model covers the
state after `qizo_kbd_init`, where `set2` is 1 and stays so; `handle_set1` is
unreachable. The contents of the tables are constants. `Reserved` are the bytes
the interrupt handler gives a meaning of their own; no button has one as its code
(`KeyboardAssumption`).

**History, Shell.** A text is a sequence of characters, and `line` the first
`len` of them. `shown` is what stands after the last prompt or line break, and `col` the
column of the cursor. `LINE_MAX` is 128 and a row has 80 columns behind a prompt of six
characters, so a line may go on in the next row; `\b` stops at column 0 (`console.c:93-98`), and
what stood above is then left on the screen, which is `Garbled`. The VGA console is modelled; the
serial copy gets the same characters. On Enter the code terminates the first word in
place before it calls `push_history`, so what is remembered is `FirstWord(line)`:
the arguments are not kept, and two calls of a command with different arguments
count as a repeat. `Best` is the loop of `complete` over the table, one element for
each name passed. `ShellAssumption` says what the table in `shell.c` satisfies: names are
distinct, without blanks, and shorter than a line by the terminator and the blank that
completion appends. Of the commands, `keys` (toggles keys mode), `halt` and
`reboot` (do not return) affect this model; `mem`, `bench`, `micro` and the
volume scan are in `FrameAllocator`, `mouse` in `Keyboard`.

**BootImage, BootChain.** The firmware, the cpu and the image are inputs: two
records fixed in the initial state that answer the loader's questions (what each
drive replies to AH=41h, which sectors can be read, the memory map and how it ends,
what the cpu can do, how A20 was left, the upper half of EDI, which stage 1 does not
clear). Memory is a function on cells, a sector is a few cells, and both headers,
each piece of the kernel and each item of the compressed stream take one cell. An item
stands for the run of output it produces, so the decoder keeps its loop, one step per
item with its pointers `esi` and `edi` (it stops at the first item that reaches the
announced length, and copies everything when the magic is another), but not its bits. The
checksum the tools write is zlib's, taken to be collision-free; what stage 2 computes is
`LoaderSum`: the same, or, on a blob without padding at its end whose bytes make it so
(`image.ahead`), a sum whose high half is one modulus too large. `Adler` says when. Damage is limited
to the blob: stage 2 itself is covered by no checksum. Besides images the tool writes
there are images with a false module header and a matching checksum, which stage 2
must judge; their announced output length is true, because the decoder trusts it
without a bound. `pc = "lost"` is the jump into sectors that are not stage 2.
`LayoutAssumption` orders the regions; `RealLayout` evaluates the same condition on the
addresses of `qizoboot.inc`.

**BootCheck.** Both checkers are predicates on the image of the initial state, each with
its tests in its own terms: `qizocheck` takes a raw payload with its padding for the
module and counts the module header in the size of the kernel in memory; the boot model
accepts compressed images only and compares with the kernel file. Unlike stage 2 neither
compares the load base with `KTEXT`. The file system and the iso, which `qizocheck` also
judges, are in `Disk` and `Iso`.

**Lzss.** One step per iteration: a group of the encoder opens (`PackGroup`), takes
matches and literals, and gets its flag byte; then stage 2 reads literals and matches
with its registers `esi`, `edi`, `ebx` (mask), `ebp` (flags). A read outside the blob or
the output yields `Stray`, which is no byte, so that any such read shows in the output.
`Decompress` is the Python decoder as a function, with its refusals and its negative
indices. `BlobOf` is `blob_of` of `qizoasmrun`: a fixed window of `BlobMax` bytes, whatever the
length of the blob, less the zeros at its end. Behind a shorter blob that window holds the
beginning of the FAT volume (`Volume`), whose boot sector ends in 55 AA. The sequence after the 8 byte header is modelled; the header is `total`. A match is
copied a byte at a time, so that one that overlaps its source repeats what it has just
written. `items` and `taken` are history variables: the items the encoder has written,
each with its place in the payload and in the stream, and how many the decoder has read.

**Adler.** Both checksums run over the same arbitrary bytes, so every reachable pair of
sums is a blob that could end there.

**Disk, Iso, Volume.** Sizes are those of the code, not scaled down: whether a table is
large enough or a position fits depends on them. The FAT is a function on the byte offsets
written, so 12 bit entries share bytes as they do in the code; a sector of a file is
a pair of its name and number. `FatSize` is the value at which `plan_layout`'s loop stops
(`LoopSettles` in `DiskProofs`).
`BootSector` keeps the two byte stores that fall into the sector count. `check_fs` has only a
16 bit reader, and `Fat16` says what it reads in either table and behind them: where a walk
strays into the directory or the files (`Strays`) it finds any of the words in `FileWords`. In `Iso` a
part's position follows from the lengths of the parts before it, and the records name
constants; `check_iso` is led by the records. `Volume` starts from a finished image: the
drive the system booted from holds it, the other a foreign volume. The boot drive is scanned
once while the drivers start (`Boot`), then either drive as often as the user asks
(`FreeDrive`, the command `sysmngr -free c/` or `d/`), each time from the three starting points
and with the `fatbuf` kept from before; `room`, what the allocator can give in one piece, is chosen
anew at each scan. `ReadOk` is the outcome of a read of a drive with an unreadable
sector or that ends early. A part that fails is not counted, whatever it left in the buffer.
`high` records the most sectors ever stored in `fatbuf`, for each drive; the memory behind the
buffer, which a larger table overwrites, is not modelled. `ImageLife` lets the build, the
iso and the scan follow each other; `RequestsAssumption` bounds the requests by the two
tests of `mkqizoimg.main` on the sizes of kernel and blob, and asks of the volume on the second
drive that it is one other tools would make (`SoundVolume`): if its boot sector passes the
driver's tests, the width of its entries goes by its number of clusters and each cluster has an
entry in the table.

**Harness.** A host (what it can run, whether `nm` is there), a fault of the code under
test and `--keep` are chosen in the initial state. The stores of `qizo_build_pages`,
`qizo_idt_install` and `fidt_fill` are steps; a fault replaces one stored value, cuts the
dump short or crashes the program. The tests of the runner are in its terms (the place of the
tables is inferred from the first entry), while `Identity`, `NothingAbove` and `GateLeads`
state what the processor makes of the same memory.

## 3. Runs

| run | instance | result |
| --- | --- | --- |
| `frames` | ten frames of two units; a plain map, one with unaligned entries and holes, an empty one | passes |
| `frames_leak` | same | `ReleasedWhenIdle` violated by the memory report |
| `keyboard` | ring of three slots, three keyboard events, two bytes of the mouse (an answer or a movement), one `mouse` command | passes |
| `shell` | lines of four characters, rows of four with a prompt of one, history of two, four commands remembered | passes |
| `shell_recall` | same, three commands | `RecallShowsHistory` violated |
| `boot` | two dozen cells without gaps, 80 machines, 75 kernels, raw and compressed, each blob sector damaged, sums that run ahead | passes |
| `boot_a20` | same, with a closed gate | `A1MeansOpen` violated |
| `boot_raw` | same as `boot` | `RawBoots` violated |
| `lzss` | window of 6, matches of 3 to 5, sectors of 8 bytes, three of them for the longest blob and a volume behind it; payloads of up to nine bytes of two values and of eleven bytes of three; checksum modulo 23 over bytes up to 5 | passes |
| `disk` | images around the limits of FAT12, FAT16 and 16 bit sizes, nine other files for the iso, five second drives, unreadable sectors, scarce memory, any number of scans of either drive | passes |
| `disk_free` | same | `FreeIsTrue` violated |
| `harness` | tables of eight entries, eight hosts, one fault at a time | passes |

Properties of `frames`: `CountersAgree`, `OwnersDisjoint`, `ReservedKept`,
`OnlyUsable`, `FailsOnlyWhenFull`. Ten frames are enough for a run split by a
hole, for the second of two allocations to fail, and for exhaustion.
`OnlyUsable` is stated with the rounding the code has: the base of a usable
entry is rounded down, so its first frame may begin below the entry.

Properties of `keyboard`: `DecodeAgrees` (unless a byte has gone astray, a keyboard byte taken by
the `mouse` command or a movement taken by a late irq 1, the decoder's keys and flags agree
with the buttons), `RingIsQueue` (refinement of `KeyQueue`), `EverythingIsRead` (liveness: the
reader always catches up, and the keyboard's bytes are all decoded unless a byte of the mouse,
`AuxWaits`, stands before them). The exception is what the code does: after `qizo_mouse_start`
an unread answer may stand in the port with no interrupt to announce it, and the keyboard
is silent until something reads it. Three slots hold two
keys, so full, empty and wrapped rings all occur; three events are enough for a
modifier or caps lock to be held over a key or released around it, and for an extended
key's bytes to be split by the `mouse` command.

Properties of `shell`: `HistAtInWindow`, `RingIsRecent` (refinement of
`RecentList`), `ScreenFollows`, `TabIsSafe`. Four remembered commands take a ring
of two past its end twice. The two names of the table, one the beginning of the
other, give an ambiguous, a unique and no completion. `ScreenFollows` excepts four cases: a wiped
screen, a blank line entered, keys mode, and a line that has come to the end of its row
(`FillsRow`), after which erasing leaves characters behind. Rows of four columns let a line of
four fill its row, wrap, and be erased and recalled from both sides of the wrap. `TabIsSafe`
takes the names that are strictly longer than the line for candidates, as `complete` does; that a line
which is itself a name, such as `cpu`, completes to a longer one is therefore not judged.

Properties of `boot`: `EntryIsSound` (what is true when the kernel starts),
`StopIsExplained` (each error code and each disk error has its cause in the machine or
the image), `WritesStayHome` (an action property: each step writes only the region
its data belongs to, so nothing a later step reads is destroyed), `BootEnds`
(liveness), and two that compare the loader with the build-time checkers.
`PassedMeansBoots`: stage 2 refuses no image that both pass, except one linked for another
base, and one without padding on which its own sum ends a modulus ahead of zlib's (0x17 on an
undamaged image, which `StopIsExplained` allows for the same reason). `BootsMeansPassed`: of the images the builder writes, one that boots passes the boot
model, and passes `qizocheck` exactly when its .bss is at least as long as the module
header. With no gap between regions every overrun by one cell shows. Two
chunks, two memory map entries and a third that does not fit exercise the limits.
A disk of 131072 sectors lets a dirty upper half of EDI read the wrong sectors instead
of failing, and a second drive that answers the probe better than the booted one is
read in its place: both end in `"lost"`, which `StopIsExplained` allows for these two
causes only.

Properties of `lzss`: `OutputIsPrefix` and `RoundTrip` (stage 2 writes the payload,
nothing else, and reads exactly the stream), `NeverExplodes` (the bound on
incompressible data), `HarnessAccepts` (the Python decoder returns the payload of the
padded blob, and the host runner's comparison accepts it, except exactly when the blob fills the
window of `blob_of` to its last byte and the stream ends in a zero there: a shorter blob
has the volume's 55 AA behind it, where the stripping stops), `SumIsRight` (stage 2's checksum is the reference or one modulus too
large in the high sum, the latter only after a byte that is not zero) and `Finishes`
(liveness). Two values are enough for matches at every distance, overlapping ones
included, and eleven bytes of three values for more than eight items in a stream. A
modulus of 23 keeps the required distance to the largest byte and lets both sums wrap.

Properties of `disk`: `LayoutSound` (no overlap, every position found by the readers is
the one written), `CheckFsExact` (`check_fs` passes an image exactly when it is FAT16 or no file has a
second cluster; its walks stay inside the tables and under their limit, except on a FAT12 image
with a kernel of 74 sectors or more, where the words of 12 bit entries lead behind the tables), `RefusesOnly` (what `mkqizoimg` refuses, and the two requests on which
it fails without a message), `IsoAccepted` (the iso of every image passes; of other files
exactly those whose block count `check_iso` refuses as a load size do not),
`UsedIsTrue`, `BootVolumeFound` (what the kernel reports after each scan, under unreadable sectors
and scarce memory, a buffer kept from an earlier scan standing in for memory; with one exception the proof brought out, `FoundAgain`: when the first part
of the boot volume's table cannot be read and the volume begins in sectors 63 to 158, the
scan from sector 63 meets the same boot sector a second time and takes what follows
sector 63 for its table), `BufferHolds` (the table fits its buffer, except a table larger than the other drive's for which
the buffer was sized) and `Ends` (liveness: again and again the system comes to rest, whatever is
asked of it). The exception of `BufferHolds` bites on both drives: a larger table on the second drive is
read into the boot volume's buffer, and, when there was no room for the boot volume's table
while the system booted, a later `-free d/` may allocate one page and the next `-free c/` reads
up to seventeen sectors into it. The
requests put one image on each side of every limit: 4085 clusters for both widths, a
table with one sector more, 65535 sectors, 1021 sectors of kernel in a FAT12 volume, 73 and
74 sectors in one, one to three pages of memory.

Properties of `harness`: `VerdictSound` (success means the processor finds 4 GiB mapped
to themselves, every gate at its stub and a legible report; a failure has a cause and
leaves the scratch directory) and `SkipExplained` (a skip means an unable host or a
crash, which the runner does not tell apart; nothing else passes for it; docs/DEVELOPMENT.md:122
speaks of unable hosts only). `VerdictSound` speaks of the gates the kernel installs; stage 2's own fault
gates are checked by the runner but left out of the conclusion. Eight entries
keep four directories, entries behind them and a last entry in each table; gates are
not scaled.

Five runs end in a violation and document a disagreement between the code and
the repository's own text. `frames_leak`: `qizo_memstat` keeps the four frames of its
demonstration, and `qizo_bench_memcpy_cycles` keeps one when only the first of
its two allocations succeeds. `shell_recall`: after the ring has wrapped,
`recall` reads slot `hist_at - first` where `push_history` wrote `hist_at`.
`boot_a20`: the test compares addresses 64 KiB apart, so a closed gate is reported
open. `boot_raw`: the container's header is copied in front of the module, so no raw
image passes the magic test. `disk_free`: the stores to bytes 34 and 35 of the boot
sector replace the upper half of its sector count, so the kernel reports some 12 GiB free
on an image of 2 MiB.

Differences without a run of their own, because no text of the repository states the contrary
in terms a run could refute, or because a property states them as its exception:

* the candidate 0xF8 that docs/BOOTING.md names is never tried (the counter stops at four, the
  first of which is the booted drive);
* the sum of usable memory saturates with the first non-empty entry;
* docs/BOOTING.md:256 gives 0x14 for firmware that "reported no RAM" as well, but the code tests
  for a map without entries only; docs/BOOTING.md:264 words 0x1d as a wrong magic at the copy
  destination, but the code compares the load base with `KTEXT`. `Warranted` follows the code;
* irq 12 is masked at the first controller, so one unread byte of the mouse silences the
  keyboard (`AuxWaits`);
* a table larger than the one `fatbuf` was sized for is read past its end (`BufferHolds`);
* a line that reaches the end of its row cannot be erased from the screen (`FillsRow`);
* a blob without padding may be refused for stage 2's own sum (`SumIsRight`, `PassedMeansBoots`).

**Bounds.** `MaxEvents`, `MaxAux` and `MaxMouse` limit the keyboard events, the bytes of the mouse and
the `mouse` commands of a behaviour, `MaxHist` the number of remembered commands. They
limit length only; the number of scans in `disk` has no bound. Ring sizes and tables are constants of the code that are
scaled down. `WalkBound` is the code's 100000. `FileWords` is {0, 4, 65535} in the run: a walk
that strays ends, goes on in the table or leaves the range, and no cycle makes it long; the
theorem holds for every set of words.
`FAT_SCAN_LBAS` and the chunk of 16 sectors are the code's.

**Fairness.** `MCLzss` and `MCDisk` assume that a program, once started, takes its next
step: these are single-threaded loops; in `MCDisk` only the user's next command is not
assumed. `Harness` has no liveness property. `BootChain` assumes that the next instruction is executed and a
firmware call returns. `Keyboard` assumes this: the controller hands over a byte of the keyboard
while its output buffer is empty, a pending interrupt is taken (interrupts are enabled while the shell polls),
the shell keeps polling, and the `mouse` command's loop ends (it is bounded by
eight reads and a spin limit). Nothing forces a key to be pressed or the mouse to send,
and nothing reads a byte of the mouse that no interrupt announces.

**Deadlock** is checked in `frames`, where some command can always be given, and in
`boot`, where the halted loader and the started kernel are explicit idle steps; it is
in `lzss`, too, where a finished pair is an explicit idle step. It is
not in `keyboard`, where the bounded devices stop, in `shell`, where `halt`
stops the machine, nor in `disk` and `harness`, whose programs end.

## 4. Proofs

Every safety invariant and action property of the passing runs is proved for every value of the
constants that the assumptions admit; liveness is left to TLC. The inductive invariants are
defined in the proof modules. TLC has checked those it can evaluate on the instance of their
run; `FatInv` and `WalkInv` speak of all numbers and rest on the proof alone.

*Allocator* (`FrameAllocatorProofs`). For every page size, bitmap size, memory
map and number of pages asked for (`ConstantsAssumption`), `Spec` implies
`[]TypeOK`, `[]CountersAgree`, `[]OwnersDisjoint`, `[]ReservedKept`, `[]OnlyUsable` and the
action property `FailsOnlyWhenFull`. None is inductive alone. `IInv` adds
`ControlOK` (which pointers are live at which point of a caller: without it a
release could return pages twice), `PageScanInv` (the current run is the maximal
run of free frames ending at `i`, and no run of the wanted length ends earlier:
without it `PageTake` could mark frames that are in use, and a failure would not
mean that there is no run) and `PmaScanInv` (no frame probed so far is free).
`InductiveInvariant` has one step per action; `KernelLemmas` supplies the
cardinality facts behind the counters. `OnlyUsable` rests on the two roundings of the
memory map (the base of an entry down, its end down) and holds for entries that overlap or
are not aligned.

*Keyboard* (`KbdQueueProofs`). For every ring size above one and every set of
keys, `QueueSpec => RingIsQueue`: each push is a `Put` or, on a full ring, a
`Lose`, `Load` stutters and `Advance` is a `Get`. The invariant needed is that
while the reader holds a key the slot it came from still holds it
(`LoadedIsOldest`). For the whole of `Keyboard` the same refinement, `[]TypeOK` and
`[]DecodeAgrees` are proved for all tables and sets of buttons (`KeyboardAssumption`), all bytes the
mouse may send (`AuxAssumption`) and any number of events. `DecodeAgrees` speaks of moments when no byte is under way and is far from inductive: `DecInv`
says that the bytes still on the wire lead the decoder, along a sequence of its states, from
where it stands to what the buttons say. A press or a release lengthens that sequence at
its end, an interrupt takes its first step; no induction on the number of bytes is needed. A
byte of the mouse in the output buffer is no part of the sequence: one the decoder ignores
leaves it alone, any other sets `astray`.

*Shell* (`HistoryProofs`). For every ring size, `HistSpec => RingIsRecent`
and `HistSpec => []HistAtInWindow`. The core is `ModDistinct`: indices less than
the ring size apart have different slots, so writing entry `hist_count` touches
only the entry that leaves the window. `ShellDrivesHistory` carries both over to the whole
shell, since what it remembers is a text again. `ShellInv` adds to `TypeOK` that, unless the
screen is garbled, it never shows more than the line holds, without which the erasing of a line could
eat into the prompt, and where the cursor stands (`Placed`): some number of whole rows and the
column together lie between what is shown and the same behind a prompt. While prompt and line fit a
row, erasing what the row shows then never meets column 0. From it follow `[]TypeOK` and `ScreenFollows`, for every width of row and prompt. For `TabIsSafe` the loop of
`complete` is solved: `BestIsLcp` gives what `best` holds after each name in closed form,
shows that this satisfies the recursion, and that a second solution would differ from it at a
first name, where it cannot.

*Boot chain* (`BootProofs`). For every layout that orders the regions
(`LayoutAssumption`, `SizesAssumption`), every image and every machine whose firmware leaves the
A20 gate open (`A20Open`; run `boot_a20` is about the others): `[]TypeOK`, `[]EntryIsSound`,
`[]StopIsExplained`, `WritesStayHome`, `[]PassedMeansBoots`, `[]BootsMeansPassed`. `BootInv` has
a part for each stage and says what its region of memory holds from the step that fills it to the
last that reads it: the sectors read so far are those of the image (`LoadInv`), the
information block describes this machine (`InfoInv`), the scratch area holds a prefix of the
module (`UnpackInv`), the kernel, its .bss and the tables are in place (`KernelInv`). A step
preserves the parts of the others because it writes its own region only, which is where the
order of the regions comes in. `LoaderSumFacts` is what stage 2's own sum decides: it accepts the
bytes exactly when they are those summed by the builder and the sum does not run ahead, so 0x17
means damage or that. `InputsAssumption` bounds the length an image announces by the scratch area: stage 2 does
not, and `mkqizoimg` refuses to write a longer one. The two theorems on the
checkers compare their tests with `HeaderError`, what stage 2 would say; `PyOutputFacts` shows that the
Python decoder's recursion yields the module.

*Compression* (`LzssProofs`). For every payload of bytes, window up to 4096 and longest match
up to 18 (`FormatAssumption`): `[]TypeOK`, `[]OutputIsPrefix`, `[]RoundTrip`, `[]NeverExplodes`.
`LzInv` says of the history `items` that they follow each other without a gap in the payload
and in the stream, that eight share a flag byte, and that each says the truth (`ItemsInv`, `GroupInv`), and of stage
2 that it stands between two items with its mask at the bit of the next (`ReadInv`). A match
that overlaps itself is covered, since an item's truth is about the payload, whose bytes
before it the decoder has already written. `[]HarnessAccepts` is about a second decoder, the
Python one, whose loop is a recursive function: `RunExists` shows that the recursion has a
solution, `Reached` names the decoder's state between two items in terms of the history, and
`ItemRead` shows that one turn of the loop goes from one to the next, or refuses when the bytes
end first. A least item that the solution does not follow leads to a contradiction
(`RunFollows`), so no induction over the payload is needed. `BlobStripped` says what `blob_of`
leaves of its window, for every volume whose boot sector ends in a byte that is not zero: the stream
and what follows it, or less than the stream exactly when the blob fills the window and its last byte
is zero. `DecompressWhole` says that bytes behind the stream change nothing, `DecompressCut` that less
is always refused, which is what makes the property an equivalence.

*Checksum* (`LzssProofs`). For every modulus above four times the largest byte,
`SumSpec => []SumIsRight`. `SumIsRight` is not inductive: a high sum that is one modulus ahead
could grow further. `SumInv` adds that it is ahead only while both reference sums are
below the largest byte, because the low sum has just wrapped; then the next subtraction
brings it back, or the low sum wraps again and the case repeats. `OneSubtraction` is the
arithmetic behind it. With the constants of the code (65521 and 255) it follows that a blob
whose last sector is padded is never refused wrongly, and that one that fills its last
sector with a byte other than zero may be.

*Image and volume* (`DiskProofs`). For every request within `RequestsAssumption` and every
length of another file (`OtherFilesAssumption`), `LifeSpec` implies `[]TypeOK`, `[]LayoutSound`,
`[]RefusesOnly`, `[]BootVolumeFound`, `[]BufferHolds`, `[]IsoAccepted`, `[]UsedIsTrue` and
`[]CheckFsExact`. `LifeInv` keeps the layout as planned (`LayoutInv`) and, for the scan under way, what
each starting point passed so far has decided (`ScanInv`, `FoundInv`), and across all scans that the
buffer has the size of one drive's table and what was ever stored in it for each drive (`BufInv`).
A scan begins from any buffer an earlier one may have left, so nothing is assumed of how many there were
or on which drive. The arithmetic is in lemmas on the size of the table: `LoopSettles` shows that
the table of `plan_layout`'s first round is large enough, so that the loop ends with the second.
Attempting `BootVolumeFound` brought out the case `FoundAgain`, which the
property now states and the run contains. On top of it:

* `IsoInv`, for `IsoAccepted`, holds the parts of a written iso; the sums behind the
  positions and the catalog's checksum are recursive functions of known length, unrolled by
  `SumSteps`.
* `FatInv` says what the table holds, entry by entry: the chains of the two files and zeros
  (`TableIsLinked`). `FatSet` at 12 bits shares a byte with a neighbour, and the lemmas on
  `Even` and `Odd` entries show that it keeps the neighbour's half.
* `UsedIsTrue` is inductive beside `LifeInv` and `FatInv` (`StepUsed`): while a scan is under way
  nothing is reported, and what `Report` writes is compared with the volume at once. The count runs over
  a prefix of the table read in parts; it equals the number of entries that are not zero,
  because those of the image lie in a known interval and those of a foreign volume are
  what `SoundVolume` calls used.
* `TwelveInv` and `WalkInv`, for `CheckFsExact`, say where the walk of `check_fs` can stand. On
  FAT16 it is at the cluster that follows those read. On FAT12 the first word joins two
  entries, so that the walk leaves the file: what it collects differs from the file at the
  second sector, at the third if a stray word leads back once, or ends before it. The proof showed an earlier form of the property,
  that a walk never meets bytes of a file, to be false for kernels of 74 sectors and more on FAT12;
  the property and the run now include them.

*Host runner* (`HarnessProofs`). For every page table of at least four entries, every set of
hosts and every code under test with at most one fault (`HarnessAssumption`), `Spec` implies
`[]VerdictSound` and `[]SkipExplained`. Both speak of the end only. `HarnessInv` says what the
running program has stored so far, the wrong store included (`PagesHold`, `EaxHolds`,
`IdtHolds`, `GatesHold`), and what each passed check has established of what was built.
`PassingTablesLead` is the argument a reviewer would ask for: `check_tables` infers the place of
the block from the first entry it is to judge, and tables shifted with it would pass. They do not,
because with one wrong store the entries of the next table are right and contradict the inferred
place. `HexIsFormat` compares the digits the report's arithmetic makes with the reference's table.

Model-checked only: all liveness (`EverythingIsRead`, `BootEnds`, `Finishes`, `Ends`), since
fairness and `ENABLED` are outside the prover. The library's induction theorems are, too;
recursive definitions are solved instead by a closed form and a least counterexample, as above.

## 5. Not modelled

* Register-level set-up (`boot64.S`, the 8259, the keyboard controller's handshake, segment
  descriptors and the switch of modes in stage 2): straight-line code whose effect is a
  state of the processor.
* cpu and PCI probing, the driver registry, `printf` and the rest of the system manager and the
  console: tables filled once, and output. Of the system manager the `-free` command of the drives c
  and d is in `Volume`, of the console the column, the wrap and the backspace are in `Shell`.
* The mouse's packet decoder and move queue: irq 12, which would call the decoder, is masked and
  never served. The mouse's bytes in the data port and the command that drains it are in `Keyboard`.
* What lies in memory behind `fatbuf` when a larger table is read into it.
* The timer and `qizo_sleep`: a halt that is always followed by another tick.
* The port protocol of `ata.c`: only the outcome of a read is modelled.
* `check_stage1_dap`, `check_stage2_gdt` and `check_stage2_transition` of `qizocheck`: byte
  patterns and disassembly of machine code, with no state to model.
* Memory primitives, fonts, artifact tables and CI scripts.

## 6. Plan

1. An abstract specification "the kernel runs only on a checked, complete image", and
   `BootChain` as its implementation.
2. `Mouse`: packet decoder and move ring, as they would run were irq 12 served.
3. `Timer` and the rest of `Console`: sleep against the tick interrupt; rows and scrolling
   beside the column `Shell` has; the complete keyboard tables.
