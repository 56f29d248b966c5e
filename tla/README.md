# EFIMac: a verification of the emulator's core

EFIMac is a UEFI application that boots the classic Mac OS: it reads a ROM and a
System from disk, builds a guest memory map and interprets PowerPC code in one
loop. This directory holds TLA+ modules translated from its C source (paths below
are under `src/` of the repository), the TLC configurations that check them on
small instances, and proofs for the TLA+ proof system of what matters most.

## The system

| Part | Source | State | Operations | What is hard |
|---|---|---|---|---|
| SCC receive queue | `cpu/interpreter.c` 429-553, 1390-1479 | a ring of 64 bytes, head, tail, pending flag | put by the host, register reads by the guest | full and empty look alike; two ways to learn of input |
| Exception engine | `cpu/interpreter.c` 3680-5511, 6157-11576; `cpu/translation_impl.c` 526-697 | MSR, SRR0/1, DEC, pending word, boot gate | one turn of the guest loop | raise and delivery lie in different turns; masks, drops, priorities |
| Guest memory map | `cpu/interpreter.c` 290-311, 468-607, 889-1034 | 20 windows on host buffers | add a window, load, store, block copy | aliases, overlaps, wrap-around, registers in the map |
| Memory Manager | `cpu/interpreter.c` 5605-5947 | zone record, chain of master pointers, heap bump | MoreMasters, NewHandle, NewPtr, Dispose... | a list kept in the slots themselves; exhaustion |
| HFS/HFS+ reader | `fs/hfs.c` | mounted volume, catalog arrays | mount, list, open a path, read a file | a mount that fails half way; extents and overflow |
| Address translation | `cpu/interpreter.c` 620-802 | BATs, SDR1, segment registers | translate | searches, misses |
| Instruction set | `cpu/interpreter.c` 1692-5511 | GPRs, FPRs, VRs, CR, XER | one instruction | carries and flags that only the next instruction shows; lanes, widths |
| CFM/PEF loader | `boot/pef_loader.c`, `cpu/interpreter.c` 5951-6137 | sections, relocation position, export map, stubs | expand, place, bind imports, relocate | two bytecodes, one with nested loops; fragments that fail in either pass |
| 68K interpreter | `cpu/m68k.c` | registers, SR, two stacks, STOP | batches, instructions, exceptions | interrupts between instructions and across batches; nested frames |
| EMUL_OP services | `cpu/emul_op.c` | timers, clock, interrupt flags, XPRAM, clipboard | dispatch, prime, pop, disk reads | slots reused in any order; transfers cut by blocks and volume |
| Boot and staging | `boot/bootloader_impl.c`, `main.c` | window table, ROM record, staging areas with their cursors, tables of files | find, expand and map a ROM; prepare; locate, stage, self-test | a dozen firmware calls of which any may fail; records kept across calls; two volumes |
| Hardware | `hardware/abstraction_impl.c` | audio ring, device table, framebuffer | read a block, play, draw | windows of guest RAM side by side; devices that change |
| Host memory, UEFI, UI, debug | `memory/`, `platform/`, `ui/`, `utils/` | totals, handles | wrappers of the firmware | none beyond I/O |

Everything runs on one processor in one thread. Concurrency is that of the guest:
its instructions, the interrupts that come between them, and the host's input. How the
parts meet: the guest loop executes instructions, whose loads and stores go through
address translation to the memory map, where the SCC's registers shadow two windows;
the SCC and the decrementer raise interrupts in the loop; imports of native code land on
host stubs, served by the Memory Manager, whose BlockMove is the block copy of the memory
map; the boot code installs the windows, reads the System through the HFS reader and
enters the loop once, from `main.c`. The 68K side of the system shares the PowerPC
registers: a batch of `m68k.c` copies them in, runs, and copies them out; the ROM's EMUL_OPs
reach the host services of `emul_op.c`, which read disks through the block devices of
`abstraction_impl.c`.

## Modules

| Module | Models | Role |
|---|---|---|
| `BoundedFifo` | what the SCC promises | abstract specification |
| `SccFifo` | the ring, its registers | implements `BoundedFifo` |
| `ExceptionEngine` | the guest loop | component; uses the SCC's queue as a byte count |
| `GuestMemory` | the window table and the copy | component |
| `NatMem` | zone, master pointers, heap | component |
| `HfsVolume` | mounting a volume, reading a file | component |
| `PefPattern` | the expansion of packed data | component machine |
| `PefRelocation` | the relocation bytecode | component machine |
| `PefFormat` | what patterns and relocation programs mean, and their layout | reference definitions |
| `PefSection` | a section's way into the guest | composes the three |
| `CfmLoader` | the two passes over the fragments | component |
| `M68kMachine`, `M68kInstructions`, `M68kDecode` | the 68K machine: flags, memory and stacks, instructions, the decoder | operators from machines to machines |
| `M68k` | batches, the repaired places of the ROM, interrupts, timer tasks | component; runs programs of the machine |
| `PpcMachine`, `PpcInteger`, `PpcVector`, `PpcFloat` | the PowerPC machine: arithmetic, translation and storage, the instructions of each unit | operators from machines to machines |
| `Ppc` | a guest program, run to its end | component |
| `TimeManager` | what the Time Manager promises | abstract specification |
| `HostTimers` | clock, flags and timer slots | implements `TimeManager` |
| `HostDevices` | framebuffer, audio ring, block devices | component |
| `EmulOps` | battery memory, clipboard, disk reads | composes `HostTimers` and `HostDevices` |
| `SlidingWindow` | what the compressed ROM format promises | abstract specification |
| `RomImage` | the expansion of a CHRP file, from its text to the image | component machine; implements `SlidingWindow` |
| `RomInstall` | windows and pages, ROM search, identification and mapping, the preparation | part of the boot; drives `RomImage` |
| `BootSequence` | the System Folder's files and the order of `main` | component; composes the boot |
| `*_proofs` | theorems of the component named | TLAPS |
| `MC*` | values of the constants | TLC |

### SccFifo

`fifo`, `head`, `tail`, `pending` are the four statics; `PutChar`, `ReadData`,
`ReadDataEmpty`, `ReadStatus` and `ReadEvents` are the put and the byte reads, and
`rdata` is what the last read returned. `Used` is the local of `PpcSccPutChar`. A wide
load is several reads, and host puts may come between them: the model is more
permissive than the loop. The refinement maps the ring to the sequence of `Used` bytes
from `tail` on. *Run* `scc_fifo`: three slots, three byte values. Three slots give
every relation of head and tail, wrapped or not, empty, part full and full; the code
depends on the size only through `% sizeof`.

### ExceptionEngine

One turn of `PpcRunGuest` is two steps. `Execute` is the instruction (or the host that
takes its place); `Check` is what follows it: `Deliver` or `DropDec` when an exception is
pending, else `Tick`. The guest is arbitrary: any instruction at any address, any branch
target. `ee`, `srr1` keep the EE bit of MSR and SRR1, `gate` is `g_BootDecGate`, `rx` the
number of queued bytes, `last` and `wasEe` are history for the properties. Special sites
the interpreter patches (the task switch's rfi, the level-9 dispatch, the missing boot
task, the yielding trap) are constants. Three hooks are abstracted: addresses the host
always takes (`HookAddr`), may take (`CellAddr`), and the console's automatic answer
(`QueueInput`).

*Run* `exception_engine`: six addresses, one of each kind that the code distinguishes
(some play two parts), a 2-bit decrementer with `Scale` 1 so that it crosses zero, wraps
and is reloaded with every value, and bursts of two bytes so that a read leaves one.
The guest may stop
at an unknown instruction, so deadlock is not checked.

Fairness: weak fairness of `Execute` and of `Check`, for the loop never stops between
the two halves of a turn. Nothing is assumed of the guest. `InterruptsAreTaken` has the
premise that turns complete, since a host hook may jump to itself; `TimerIsServed` that
the guest is found with interrupts on again and again.

### GuestMemory

`region` is the table, `host` the bytes behind it, `job` a running `PpcCopyGuestMemory`
with one `CopyChunk` per turn of its loop; `job.before` is a history of the buffers.
Loads and stores wait for the copy to end, for nothing runs beside it. *Run*
`guest_memory`: five addresses, two buffers of two bytes, three slots, five candidate
windows that touch, overlap, alias, differ in `ReadOnly` and end at the top; copies of
every length from everywhere to everywhere. A copy therefore meets one, two and three
runs, cut by either side; it ends at a hole or at an empty run (`NoRun`, 1027 to 1029). `CopyIsExact` speaks of
copies into writable windows (`ToWritable`; see the divergences). `CopyTerminates` also says that a copy without
holes is not given up. Fairness: the loop of the copy keeps turning.

### NatMem

`pool` is `NatMemMpBump`, `NatMemFreeMps` and the zone's first-free and free-bytes words,
`word` what each slot holds (a tagged link or a data address), `blocks` the blocks handed
out, `live` the handles the guest holds. The actions are the arms of
`NatMemDispatchStub`, each with the helpers it calls. *Run* `nat_mem`: three slots issued
one or two at a time and a heap of 40 bytes, so that the chain grows, empties and is
refilled, and both the pool and the heap run out. The sizes asked for do not wrap (see
the divergences below).

### HfsVolume

`disk` is what the devices hold: for each, nothing or a volume, given by its files, the
overflow records in the order of their leaf nodes and the part of the catalog file that the
volume header's extents cover. `dev`, `vol`, `mounted`, `catalog` and `index` are the
statics of `hfs.c`, `tables` which of its arrays are allocated, `pref` the device pinned by
the setup menu, and `rd` the locals of a running read. `Mount`, `MountFindsNothing`,
`MountRunsOut` and `MountFailsToLoad` are the outcomes of `PpcHfsMount`, whose search of
the devices is `Found`; any device may fail at any read. They are guarded by `~mounted`
because every caller in the program mounts only when the volume's info says that nothing is
mounted (`bootloader_impl.c` 1418, 2879, 3288; `main.c` 463 is the first), and nothing
unmounts. One turn of the read loops is `TakeExtent` (a read of the device that may instead
be `ReadFails`) or `PullOverflow`; they end in `ReadEnd` or `ReadRunsOut`. The HFS+ reader
is the same loop without overflow records. A byte is known by its device and its place on
it, so that a wrong block or a block of the other device shows.

*Run* `hfs_volume`: two devices (the first empty or with an HFS+ volume, the second with a
classic one; which is mounted depends on the pin and on what fails), blocks of two bytes,
forks of five and of four blocks, none, three or four of their four overflow records in
every order of their leaf nodes, an index of three records (the real one has 512), buffers of 0, 3 and 9 bytes: empty, cut within a
block, and more than the file. The volumes are assumed consistent (`VolumeAssumption`): no block
is in a fork twice, the extents of a record are the fork's blocks from its first on, and the records of
one file do not overlap (`Describes`). What the code makes of a damaged volume is not asked, nor what it makes of a catalog file
with more extents than the volume header holds (see the divergences). `Sorted` is the insertion sort
of `HfsOvfSort`, record by record. Fairness: the read loops keep turning.

### PefPattern, PefRelocation, PefFormat, PefSection

`PefExpandOne` and `PefExecRange` each interpret a small language. `PefPattern` and
`PefRelocation` are these interpreters, one action per opcode, on the bytes and the 16-bit
chunks of the container; `frames` is the recursion of a repeat, `pos` is
`*relocAddr - secDefault`. An image word is kept as its four bytes and, apart, the names of
the addresses added to it: `Sect(i)` is `secBase[i]`, `Import(i)` is `importAddrs[i]`. That
the additions are 32-bit sums is left out, and with it what would happen to sums at
overlapping, unaligned offsets; the programs checked use aligned ones. Import indices are
within the table in these programs: the code does not check them. `PefFormat` states
what the instructions mean without a machine (`PatternBytes`; `Unrolled`, `ProgramEntries`)
and how PEFBinaryFormat.h lays them out; a reserved instruction has no meaning, and is an
entry no section has room for. `PefSection` takes one section through
`PefExpandSections`, `PefRelocateSection` and the words of `NatCfmLoadSystem`'s second pass,
which ignores the result of relocation and writes whole words only.

*Run* `pef_section`: patterns of one and two instructions out of seven, with counts in the
opcode and behind it, cut off after every byte; programs of two and three instructions out
of twenty-five, repetitions of repetitions, a header of another section before and a second
header of the same one behind; sections of 24 and of 26 bytes, so that entries end exactly
with the section, or do not, and a tail of two bytes exists; blocks of eight and of nine chunks, repeated
by the short and by the long instruction: the long one is recognised by seven bits where its opcode
has six (`pef_loader.c:668`), so that nine chunks or more are refused, which is the exception of
`RelocationFollowsProgram`. Counts are kept in a word (`Word`, 2^32 in the code and 256 in the run): patterns with greater
ones (`MCWrapping`) lose their high bits, and one that repeats its block a whole word of times leaves the loop
running (`expansion = "runaway"`; what it writes on its way is not followed). `ExpansionFollowsPattern`,
`GuestHoldsSection` and `LoadingEnds` are about sections whose counts a word holds (`CountsHeld`). Fairness: the loops
keep turning. The section variables sectionC and sectionD stay at sections 0 and 1, as the
comments at `pef_loader.c:625` and `:691` say: programs that set them otherwise are not in
the runs.

### CfmLoader

`fork` is the sequence of containers, `nf` how many were parsed, `pass` and `i` the loops,
`secBase`, `bump` and `entryToc` what `NatCfmPlace` assigns (a fragment without entry in
`secBase` has all its bases 0), `map` the export map, `stubs` the table of
`NatMemBindImport`, `bound` the second pass's `imp` arrays. `Enumerate` stops anywhere, for
`PefParse` allocates; `ExpandFails` and `BindFails` are the two `continue`s. The failure of
the very first allocation of `PefExpandSections`, after which the second pass reads
`f->expanded` as a null pointer, is counted as `ExpandFails`: the bases are 0, so that
whatever it reads leads to nothing being written. Code has one section per fragment in
the runs; a second one would be placed behind the first and not where the fork has it.

*Run* `cfm_loader`: five containers, three of them of four kinds in all 64 mixtures, any of
which may fail in either pass; four exports and three stubs, so that both tables fill up.

### The 68K modules

A machine is a record of registers, flags (the set of those that are on), both stack
pointers and memory, and an instruction is an operator from machines to machines: one per
`M68kExecute` function (`M68kInstructions`), chosen by `M68kDecode` in the order of the
code's tests. What the batch loop does at patched addresses of the ROM before an instruction
is the first part of `M68k` (`Repair`, `DrainScript`); these addresses are constants. A byte has `B` bits, and every mask and sign bit of
the code is a function of `B`, so that a machine with 16-bit longs has the same definitions.

`M68k` is the batch loop of `M68kExecuteFromPPC`: `EnterBatch` (registers from the PowerPC
side, a due timer task, the tick noted at 0x900), `Execute` with the interrupt taken between
two instructions, `Drain` and `RunAway`, `LeaveBatch` after any number of instructions;
`Wake`, `Parked` and `Preempt` are what happens to a machine that STOPped. The loop is compiled only
with `USE_PPC_NATIVE_DR` 0; in the build as it stands (`interpreter.c:41`) the PowerPC side
runs the same instructions one at a time from a trampoline (`interpreter.c` 10966 and 11049),
without the loop's hooks. `hist` and `repeats` are the loop's spin guard (`GuardSpin`, 5134 to 5177): the PCs at which
the last batches began (`Remembered`, 8 in the code and 1 in the run), and how many running began at one of them, after more than
`SpinLimit` of which (200000; 2 in the run) the machine halts. An interrupt between two instructions of one batch (`Interrupted`) has its
flag raised inside the batch, which no program of the run does, for entering a batch takes the flag (5053).

*Run* `m68k`: `B` = 4; comparisons of all three sizes over operands at the sign and size
boundaries, immediate ones and one before a trap included; programs that nest LINK, MOVEM, JSR, a trap and a STOP, in either mode; one of every group of
instructions, STOP, loops under a timer task, user mode, faults, the patched sites. Ticks
come at most twice and batches end anywhere. Programs that are not meant to give stack or mode back (a rescued
stack, the patch loop, RTE to user mode, moves to SR) are of a kind that `BracketsRestore` does not speak of. A machine may halt, so deadlock is not checked.
A program whose registers a timer task may change (A1 and the flags, which
`m68k.c:5039` does not save) does not use them then.

### The PowerPC modules

The same construction for `PpcExecuteInstruction`: an instruction is a record of its decoded
fields, `PpcInteger`, `PpcVector` and `PpcFloat` have one operator per case, and every
loaded, stored or fetched byte goes through `TranslateEffective` (`PpcMachine`). The fields
of effective addresses, table entries and BATs keep their order and are narrowed by the
constants `SegShift` to `BlockBits`. A double is an exact number of halves with a sign,
infinities and NaNs: the rounding of the host's arithmetic is left out, its comparisons,
conversions and status bits are not. Vector results are written byte by byte while operands
are read, as the code's macros do. Exceptions set `pending` and end the program; their
delivery is `ExceptionEngine`'s.

`Ppc` runs a program to its end. What it was written for is stated apart from the
interpreter: sums, products and shifts on rows of bits, a branch from the relation of two
numbers, a translation from the list of the pages and the arithmetic of blocks.

*Run* `ppc`: `B` = 5, words of 20 bits, 2732 programs: two-word sums, differences, negations (also by
`subfic` and `subfze`, of which only the low word is right: see the divergences), products, quotients and shifts; fields moved by rotations; conversions; vector lanes; every
comparison with every branch form; loops, calls, traps, sorting; all pairs of stores and
loads, with and without translation; blocks and page tables of several sizes, a full group,
half-written BATs; and every remaining instruction once from two states. Operands are zero,
the ends of the signed and unsigned ranges and two patterns. *Run* `ppc_dbat` adds the
system's writes to DBAT0: `interpreter.c:786` takes them for instruction BATs. A program
ends, so deadlock is not checked.

### HostTimers, HostDevices, EmulOps

`timers` is the table of `g_Timers`, `micros`, `nextVbl`, `nextAdb`, `flags` the clock and the
flags; `popped` and `d0` are the results. A slot keeps its task when the task is removed, and
the refinement (`KnownIn`, `ArmedIn`) reads the abstract state off the slots. `HostDevices` keeps guest
RAM byte by byte, with the framebuffer and the audio ring as windows of it, and the block
devices as indexes of the firmware's handles, whose media come and go. `EmulOps` adds
`g_Xpram` with its two windows, the clipboard (`scrap` is the whole array, `scrapLen` how much of it is the text),
and `EmulDiskPrimeTransfer` with its loop over blocks. A volume has the place where it begins on its medium (`base`), which the
code does not use (see the divergences). `PpcInitializeBlockIo` may fail before the old list is given up, or after.
`drawn` and `answer` are histories: what was stored where, and what the last call read; a new text takes the
bytes of the old one out of the history (`TextGone`), so that none of them may be answered. `HostGivesBack` leaves two
cases out: stored LocalTalk cells that a default hides (`emul_op.c:484`), and rectangles whose far corner wraps (`abstraction_impl.c:1202`).

*Run* `host`: three tasks, two slots; a framebuffer that ends before the audio ring, one that
overlaps it and one that does not fit; shapes across every edge; battery memory of 16 cells
with a window of four; texts longer than the clipboard; four devices with blocks smaller than,
equal to and larger than the sector buffer, one with a bad block, a volume shorter than its
medium and one that begins at byte 8 of it; offsets that are not aligned and buffers at the end of RAM. A behaviour uses the
services of one family (`family`): the families share no state but the results, so that their
mixtures only repeat them. `MaxStores`, `MaxPrimes` and `MaxMicros` bound a behaviour.
What is assumed for every value (`WindowAssumption`, `ServiceAssumption`, `RequestAssumption`): the audio ring and
the windows of the battery memory lie where the code's constants put them, blocks have at least one byte, and the
buffers a guest passes are in its RAM. The framebuffer's size and place are free. The theorems are about
behaviours of one family each, of any length and with any bounds.

### RomInstall, BootSequence

`pc` is the place in `main.c` (586 to 877): one action per call, one per file inside the
loops that stage, and the steps of the decoder inside the call that expands a ROM. `region` is
the window table, in megabytes, `held` the page allocations that were not given back, named by
what they back; `buf` holds the locals of `PpcInstallSystemRom`, `rom`, `folder`, `drivers` and
`staged` the fields of `g_BootContext`. The media are a boot volume and a disc, each with ROM
files and a System Folder or without. Every call of the firmware that can fail may fail
(`Fails` counts the failures), in the middle of a read as well: then the beginning of the file
is in the area (`StagingFails`). A read of the boot volume may also end early without an error (`bootloader_impl.c:182`), which the
callers take for the whole file (232, 532): `ComesShort` for a file that is staged, whose record keeps in `got`, a history, how much came; and
`EspRead` for a ROM, whose field `cut` says what a file cut off may be taken for. The search of a ROM is called twice, for two paths, and either call
may find, read, identify (`IdentifyRom`), expand (`ExpandRom`, then `RomImage`'s steps, then
`DecodeRom`) and map (`MapRom`) a file or fail anywhere on the way; what the first leaves
behind the second meets. A guest that ran may have wiped low memory (`GuestRuns`). The self-test of the map
asks an expanded New World ROM for the word that the guest is entered at (`EntryWord`; `EntryPlace` is 0x310000 in the code and 4 in the run),
any other for its signature with a carriage return behind it (`signed`: identification takes the eleven bytes
before it), and reads a block of a mounted disc through drive 1, which is that disc or another device (`served`).

### SlidingWindow, RomImage

The decoder has one action per item of `BootLzssDecode` and one per byte of a copy; `mask` is
`RunMask`, `dict` the ring, `run` the locals of a copy. The widths of a byte and of its
half are constants, as are the ring and the image. In `SlidingWindow` there is no ring: a copy
comes from a fixed distance back in the text. Around the decoder is `BootDecodeChrpRom`: the
tokens of the descriptor (`Declared`), the chain of parcels (`WalkParcels`). What the code reads
where no parcel begins is a header that leads nowhere (`Nothing`), and parcels do not overlap
(`ImageAssumption`). `RomInstall` starts the decoder (`StartImage`) on the file that it has
read, and again if the second call reads another.

### The run of the boot

*Run* `boot` has three groups of media. Two are of plain ROM files: the three sizes of the setup
menu, files of 0, 1, 4 and 5 megabytes of all kinds, folders whose files fit, fill the area
exactly or do not fit, six Extensions for three places; ROM files that read shorter are something else, ones without the
carriage return, a disc that is not on drive 1; with up to three failures
(`media.faults`), since a record can be wrong only by a failure after another one left
something behind. In the third the ROM files are packed and nothing fails but what they cause:
bytes of two bits, so that a byte of flags serves two items, a ring of eight places, an image of six
bytes; every text of up to three items, packed by the definition of the format in `MCBoot`, in a
file behind another parcel, and cut after every byte in a file alone; sixteen damaged files.
Copies begin before the first byte, overlap what they write, go past the end of the ring and of
the image. The ring's size, where it is first written and the number of flags enter the code
only as these constants.

## What each property says

The comment above each definition states it and names the code. In short: a queued byte
is never invisible and never lost (`InputIsNoticed`, `ImplementsFifo`); an interrupt that is due is pending before the next instruction
(`DueInterruptIsPending`), only an enabled one is, or is taken (`InterruptsNeedEnabling`), none comes during boot (`BootIsNotPreempted`) and none is
dropped for ever (`InterruptsAreTaken`, `TimerIsServed`); windows are disjoint
(`RegionsDisjoint`) and copies into writable ones exact (`CopyIsExact`, `CopyTerminates`); the chain, the
heap and the handles are sound (`HeapIsSound`, `SlotsAreConserved`); a file is read exactly, to its end whenever
it is described, and from the one volume that was mounted (`ReadIsExact`,
`DescribedFilesAreRead`, `MountedIsOneVolume`), and every read ends (`ReadsEnd`);
expanded and relocated sections are what their instructions mean
(`ExpansionFollowsPattern`, `RelocationFollowsProgram`,
`GuestHoldsSection`, `LoadingEnds`); fragments do not get in each other's way and find each
other (`PlacedApart`, `ImportsFindTheirExport`, `CallsReachTheirTarget`). 68K comparisons
decide, a trap and what interrupts them notwithstanding (`CompareDecides`), and what a program saved it gets back,
its mode included (`BracketsRestore`).
PowerPC sequences give the exact results (`SequencesAreExact`), branches go by the numbers
compared (`BranchesFollowComparisons`), what one form of store put another form of load finds
and nothing else changes (`MemoryGivesBack`), and addresses are translated by blocks and table
alone (`TranslationFollowsTables`). A timer task is served once for each arming, never early,
never after its removal (`ImplementsTimeManager`); a disk read delivers the medium's bytes
inside the buffer and below the volume's length, all of them unless it fails (`DiskReadsAreExact`); what the other services stored last they
give back (`HostGivesBack`). At boot no pages are lost or given back under a window
(`BuffersAreAccountedFor`), the ROM's record is that of the mapped ROM (`RecordsMatchMap`), staged
files are apart from each other and as whole as their volume gave them (`StagedIsExact`), a file is left out only for want of room or by a failure
(`NothingIsLeftOut`), and the self-tests pass for what is there and, of the map, for nothing else (`SelfTestsAreRight`); an image is what was packed
(`ImageIsWhatWasPacked`, `ImplementsSlidingWindow`).

## What is proved

For every value of the constants that satisfies the ASSUMEs (which TLC evaluates in every
run):

- `SccFifo_proofs`: `TypeCorrect`, `NoHiddenByte` and `Refinement`. The
  invariant is `TypeOK /\ QueuedIsPending`: with it `Used` is the number of queued bytes,
  and a put appends and a read takes the head of the mapped sequence. The arithmetic of
  `%` is in lemmas about one step around the ring.
- `ExceptionEngine_proofs`: `TypeCorrect`, `NoInterruptForgotten`, `OnlyEnabledInterrupts`,
  `BootUndisturbed`. None of the invariants is inductive: what is
  pending in the second half of a turn depends on what was pending or raised in the first.
  The strengthening says of phase "check" which exceptions may be pending and that an
  interrupt there was enabled when fetched or by the instruction itself.
- `GuestMemory_proofs`: `TypeCorrect` (in particular no copy leaves its buffers, which
  needs that a chunk is bounded by both windows), `WindowsDisjoint` (the overlap test
  is exact for windows that end below the top) and `CopiesAreExact`, of copies into writable windows. For the last, a run's
  cells follow each other on both sides, because it ends where either window ends and an
  address of a copy wraps at most once (`CopyBounds`); the cells it reads were hit by no
  earlier run, or the two ranges would share one. The invariant names the last place that hit a
  byte instead of a greatest element, whose existence would need an induction.

- `EmulOps_proofs`: the host, in three parts.
  `TimersImplementTimeManager` is the refinement of the timer queue, for every number of
  slots, set of tasks, delays and steps of the clock. The invariant is that no task is named
  by two slots: only then is what one slot says of its task what the table says of it, so
  that each action on a slot is one action on the task; that a free slot leaves room for
  one more task is counted by a surjection from slots to tasks. `HostImplementsTimeManager` is the
  same under the specification of the whole host, which the run checks.
  `DiskDeliversExactly` follows the loop over the blocks for any number of turns (`BlocksRead`, by
  induction over the turns): after each, guest memory holds the medium's bytes from the start of the
  buffer to where the loop stands, and what it held before elsewhere (`Reading`).
  `HostGivesBackLast` has the invariant `HostInv`. A history with a last entry for a place says what is there (`LatestIs`), and
  what an entry stores is there afterwards (`LatestOfAppend`, `LatestOfEntries`); each device holds what the
  history says. For the battery memory that is every cell, through whichever window it was stored
  (`BatteryInv`); for the clipboard every byte of the text that is there now (`ScrapInv`); for the windows in
  guest RAM the bytes of every pixel and sample (`ScreenInv`). The last needs more than
  the property says: the guest's framebuffer was once cleared as a whole (`Mapped`), so that a history without a
  shape that reaches the ring bounds the framebuffer there now, and a store in one window misses the other. That a shape
  colours just the pixels meant is arithmetic of rows (`PixelNumber`, `BytesOfPixel`), and of
  coordinates that wrap (`BetweenIs`).
- In `BootSequence_proofs`, `BootImplementsSlidingWindow`, the refinement, over the whole boot: for
  every width of a byte, size of the ring and of the image, every set of files and
  whatever fails before, during and after. The invariant is that places lie in the ring, that
  what is left of the input is bytes of the file and that the file is one of the media's; the
  argument is that the distance of a copy (`Back`) does not change when both its ends follow the
  ring, and that a byte put into the ring moves every earlier one by one. Every other step
  of the boot leaves the decoder alone or starts it anew.

- `BootSequence_proofs` also: `RomIsOnTheMap`, `PagesAreAccountedFor`, `StagedFilesAreExact`,
  `NoFileIsLeftOut`, `BothTestsAreRight`, for every set of media (`BootAssumption`: folders of any
  number of files of any size), any number of windows and every pattern of failing calls. There are
  two inductive invariants. `CoreInv` is about the map: at each place of the search what the locals
  and the ROM's record say of the buffers (`RomInv`), with the two properties themselves; the loop of
  `InstallAliases` is followed by a lemma (`AddAllIsGrown`) that says which windows a run of requests
  adds and that it adds no others. `StageInv` adds the areas: behind the cursor lie the recorded files, one
  after the other (`AreasInv`), an area is open when something is in it (`OpenInv`), not more drivers are
  recorded than were found (`CountInv`), no file came short while nothing failed and none of the disc ever (`CameInv`), the mark is there when low memory is (`MarkInv`), and while
  nothing failed, each file of the list that is neither staged nor waiting did not fit (`LeftInv`).
- `NatMem_proofs`: `ChainStaysSound` and `NoSlotIsLost` for every pool and every request,
  `HeapStaysSound` for requests that do not wrap (`Modest`; with `NAT_MEM_HEAP_END` at 0xF00000 that
  is every size below 0xFF0FFFF5, and without it the theorem is false, as below). The invariant names the chain
  as a function of its places with each slot's word pointing at the next, which says of the links what the
  property can only say of the walk; pushing, popping and refilling are three maps between
  such functions (`PushedChain`, `PoppedChain`, `GrownChain`), and `WayDown` shows that the walk meets them.
- `CfmLoader_proofs`: `ImportsAreFound` for every fork, and `SectionsStayApart` and `CallsReach` for
  forks whose code is in its place (`CodeInPlace`: behind its alignment the code of a container still
  ends before the next container and below the data region at 0x700000, which is what the format says of
  a container; the loader does not look, and code that grew over its end would be overwritten). The
  invariant `PlaceInv` names for every placed fragment where the data cursor stood (`PlacedFrom`), so that its sections
  can be reasoned about one fragment at a time (`LaidOut`, along the loop of `NatCfmPlace`). `MapInv` says that
  the map holds exports of placed fragments only, and all of them while it has room; `BoundInv` says what each import was
  bound to (`Served`), which later turns leave true because the table of stubs only grows.
  That the handoff has one TOC to choose from rests on `SectionsStayApart`: two owners would share the entry address.
- `HfsVolume_proofs`: `MountInvariant` for every set of volumes; `ReadsAreExact` where the volume header's
  extents hold the whole catalog (`WholeCatalogs`: of any other catalog the reader parses memory it did not fill,
  `hfs.c:694`), and `DescribedAreRead` where, besides, no HFS+ file needs overflow extents (`NoPlusOverflow`: the HFS+
  reader takes the eight of the catalog record, 1313 to 1343). Both hold of the run's volumes. The sort is proved to
  arrange the records in order and to lose none (`SortedIs`: after each insertion there is a bijection to the records
  seen so far). The invariant of a read (`Follows`) has three parts: what is delivered ends where the blocks taken
  end, unless the buffer is full (`Delivered`); the extents at hand continue the fork exactly there, and no record of the
  file that is still to come begins before their end (`Ahead`), which is what makes the test `fabn <= logical` of
  `hfs.c:1292` an equality; and every extent passed by lies among the blocks taken (`Past`), so that a block at
  the place where a read runs out is in no extent of the file (`RunsOutOnlyWhenMissing`).

Induction over data is done by hand where a proof needs it: in the least natural number for which
something fails (`Least`), or over a set of natural numbers (`Induction`), both from the library's
well-foundedness of `<`. The recursive functions of the model (`AddAll`, `OfKind`, `ChainAt`, `Bases`, `BindAll`, `Sorted`, `Listed`, `Blocks`) are reasoned about that way.

Model-checked only: the liveness properties (ENABLED is out of the prover's reach), the PEF modules, the two interpreters (they use
bitwise operators, and their properties are about sequences of instructions),
`ImageIsWhatWasPacked` (what was packed is defined in the run's module by folds
over the items), and of course the violation run. The type
invariants are not properties of the runs; where a component has proofs, its `TypeCorrect` is one.

## Where code and documentation part

One divergence has a run that shows it, `ppc_dbat` (see `findings` in `PROJECT.json`). The
following were met while modelling; the models have what the code does.

- What the loop's bottom raises is delivered although the comment at `interpreter.c:11345`
  says that it is consumed; the comment at 1402 describes another wake mask.
- A block copy writes through read-only windows (`interpreter.c:1030`; `ARCHITECTURE.md:161`
  and `bootloader_impl.c:1564` say they are enforced), and stops at the first byte without a
  window (1027) where the comment at 979 skips it. `CopyIsExact` claims nothing of a copy into such a window.
- A size near 2^32 wraps in `NatMemNewBlock` (`interpreter.c:5817`) and is answered with a
  block that is not in the heap.
- A B-tree file with more extents than the volume header holds is loaded in part and reported
  as loaded (`fs/hfs.c:694`).
- PEF: the long repeat is recognised by seven bits where its opcode has six, so that a repeat of nine
  chunks or more is refused as an unknown instruction (`pef_loader.c:668`). Counts behind an opcode lose the
  bits that a UINT32 does not hold (296 to 301), and for a count of 0xFFFFFFFF the number of blocks wraps to none where
  the room is checked (338), while the loop that writes them never ends (339).
- A translation miss goes to the flat address where the comment at `interpreter.c:710` speaks of DSI
  and ISI (720). `stwcx.` always succeeds (4873).
- PowerPC instructions that differ from the architecture, and are modelled as they are:
  `vmuloub` and `vmuleub` use each other's lanes (2941, 2969), the vector compares
  overwrite CR6 without the record bit (2895), 128-bit carries (2390, 2427, 2491), `vsum2sws` wraps
  (3015), `lvsr` (3274), the vector extensions read past the register (2598), `neg` sets the
  carry (4804), `subfic` records a borrow as the carry (1849), so that the high word of a negation by `subfic` and
  `subfze` is wrong (`SequencesAreExact` claims its low word), `divw` by zero and `mullwo` miss the overflow (5367, 4940), `bcctr`
  decrements twice (4340), `mfcr` (4710), the string instructions' addresses (5384, 5398), the fused forms
  multiply A by B (3506), `mtsr` (5120). The programs of the run avoid them where a property
  would speak of them.
- 68K: entering a batch consumes a tick even when it is masked (`m68k.c:5053`), flags other than the
  tick's are dropped with it (4933, 5255), the level is raised before SR is pushed (2607) and S is set
  before it (2291; the comment at 2284 says that RTE restores the user's A7, but the SR pushed has S set, so that a
  program in user mode goes on in supervisor mode and on the other stack after a trap, the exception of `BracketsRestore`),
  RTE takes the PC from the stack of the new mode (2129). `CMP.W` with an immediate whose sign bit is set
  compares a source extended to a long (1031) with a register cut to its word (1375), so that the carry does not tell the
  unsigned numbers, the exception of `CompareDecides`.
  EMUL_OPs behind line F work on PowerPC registers that are overwritten at the end of
  the batch (4769).
- EMUL_OP: a clipped disk read reports all bytes as read (`emul_op.c:331`); SCSI dispatch leaves the
  return address on the stack (690); a removed task can be armed again without INSTIME
  (591), and 48 different tasks exhaust the slots for good (172); defaults hide two stored
  LocalTalk cells (484); devices with blocks above 2048 bytes cannot be read (312); positions are cut to
  multiples of 256 (291). A position is taken from the start of the medium and bounded by the volume's `TotalBytes` (291 to 302) whatever
  its base is, which `hfs.c:865` sets behind a partition map; the comment at 233 says that positions are translated by the
  base, and that what lies past the volume is read raw. Of such a volume the last bytes are out of reach; `DiskReadsAreExact` says
  which positions are let through (`Within`).
- Hardware: only the size of guest RAM bounds the framebuffer, so that a mode above 8 MB runs
  into the audio ring (`abstraction_impl.c:225`); a second initialisation forgets the framebuffer and
  not the audio state; a rectangle whose far corner passes 2^32 draws nothing (1202); `g_FileSystemCount`
  counts volumes that could not be opened (449).
- Boot, where the documentation says otherwise: `README.md:98` to 102 and `ARCHITECTURE.md:71` to 78
  put the boot volume's `Mac OS ROM` before the disc's, but the disc is asked inside the first call
  (`bootloader_impl.c:1485`). `bootloader.h:474` documents EFI_ALREADY_STARTED as "Files already
  staged"; with the 512 or 1024 MB of the menu (`ui_impl.c:498`) guest RAM from 0x10000000
  (`main.c:155`) covers the staging area, and the map's answer comes back although nothing is staged
  (`bootloader_impl.c:3400`). `bootloader.h:148` to 151 call the System's place "well clear" of
  0x68F0-0x68FF, which every System above 1 MB covers (2921). The comment at 3361 says that
  the disc's files are merged into an incomplete folder of the boot volume; the flags are replaced
  (3316). The comment at 3393 says that the marker is re-armed before the self-test; without a
  System Folder the call returns first (3386) and the self-test fails by the guest's wipe. The
  comment at 694 says that the disc's Extensions are registered like the boot volume's; there folders
  use up places (715).
- Boot: `PpcInstallDemoRom`, the fourth source of `README.md:103`, is called by nobody. The System counts as
  staged when the nanokernel's area is missing and every store was dropped (`bootloader_impl.c:2921`). The
  pages behind an expanded ROM are lost when the map refuses it (1532). The type of a ROM stays recorded
  when it could not be mapped (1502). A log line reads the ROM file at a fixed offset that it may not reach
  (1325). A file of the boot volume that ends before its size, without an error, is taken for whole, staged or read as a
  ROM (182 to 184, 232, 532; files of the disc are counted, 581): the record has the size of the directory entry. The
  self-test of the map asks for twelve bytes of signature (3186) where a ROM is identified by eleven (1054). An Old World
  ROM of 4 MB is mapped at 0xFFF00000 and ends past 2^32: `RecordsMatchMap` is about the window table, of whose last
  three megabytes the guest reaches nothing.

## What is not modelled

The note of each component in `PROJECT.json` says why. In the components that are partly
modelled: the vector unit's floating-point lanes and doubleword shifts, and IEEE rounding (the host's arithmetic);
EMUL_OPs that store constants or answer one; file systems, network and serial of the
hardware layer, which pass firmware calls on; names and paths of HFS (lookups without
state). Of the boot: the words that are written into the ROM, the kernel data page and the trampolines
(`bootloader_impl.c` 2043 to 2868: tables of constants, whose definitions would be those tables), the kernel
boot image and its self-tests in `main.c`, the demo ROM. The
host memory manager, the UEFI wrappers, the user interface and logging keep no state a
property could relate. `Session_Transcripts`, `tools` and `tool_scripts` are not part of the program.

## Plan

Each step is a module, its run and its theorems. Done: `SccFifo`, `ExceptionEngine`, `GuestMemory` and
`HostTimers` with their proofs; `NatMem`, `HfsVolume`, the PEF modules, `CfmLoader`, the two
interpreters, `HostDevices` and `EmulOps`; the boot modules; `RomImage` with its proof; the
proofs of the boot, of `NatMem`, of `CfmLoader`, of `HfsVolume` and of the host. Left:

1. A composition of `ExceptionEngine` with `SccFifo` in place of the byte count, and one of
   `M68k` with `HostTimers` in place of its single due task.
2. The PEF machines for every pattern and every program. Their meaning is written with the folds of the community
   modules, whose value for every input has first to be established.
