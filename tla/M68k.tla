-------------------------------- MODULE M68k --------------------------------
(***************************************************************************)
(* The 68K interpreter at work (src/cpu/m68k.c, M68kExecuteFromPPC): a     *)
(* batch takes the registers over from the PowerPC side, runs instructions *)
(* and hands the registers back; between batches the PowerPC side runs, a  *)
(* stopped machine is polled, and the clock raises flags and lets Time     *)
(* Manager tasks fall due.  (The call is compiled when USE_PPC_NATIVE_DR   *)
(* is 0, which it is not at interpreter.c:41; otherwise single             *)
(* instructions are run from a trampoline.)                                *)
(*                                                                         *)
(* A run executes one of the given programs.                               *)
(***************************************************************************)
EXTENDS M68kDecode

CONSTANTS
  Programs,     \* what may run: records with the fields used below
  Rom,          \* the places and cells of the ROM that the loop repairs
  CodeZones,    \* the zones of addresses that the loop accepts as a PC
  Tick,         \* the address 0x900 at which a tick is acknowledged
  Remembered,   \* how many entry PCs of batches are remembered: 8
  SpinLimit     \* how often running one of them may come again: 200000

ASSUME SpinAssumption == Remembered \in Nat /\ SpinLimit \in Nat

VARIABLES
  prog,     \* the program
  cpu,      \* g_M68kContext and the memory
  gpr,      \* the registers of the PowerPC side that hold the 68K state
  where,    \* "ppc" between batches, "m68k" in one
  flags,    \* g_InterruptFlags
  due,      \* a Time Manager task is primed ("later"), due ("now") or popped
  ticks,    \* how often the clock has raised a flag, up to prog.ticks
  hist,     \* Hist: the PCs at which the last batches began
  repeats   \* RepeatCount: how many batches running began at one of these

vars == <<prog, cpu, gpr, where, flags, due, ticks, hist, repeats>>

Kinds == {"VIA", "ADB"}

----------------------------------------------------------------------------
\* Before an instruction the loop puts a register or a piece of memory right
\* that an earlier, skipped stage of the boot should have set, at the
\* addresses of the ROM that are the fields of Rom, and drains the script that
\* the nanokernel builds in low memory instead of executing it.  What a repair
\* writes is a sequence of <<address, value, size>>.

\* A repair that is made once is remembered by its name in m.once.
Once(m, name) == name \notin m.once
Did(m, name) == [m EXCEPT !.once = @ \cup {name}]

Seed(m, writes) == FoldLeft(LAMBDA mm, w : Write(mm, w[1], w[2], w[3]), m, writes)

----------------------------------------------------------------------------

\* A call through A2 to no code goes to a stub.
Walker(m) ==
  IF m.pc = Rom.walker /\ m.a[2] \notin Rom.callable THEN [m EXCEPT !.a[2] = Rom.stub] ELSE m

\* A handler chain that leads to no code is replaced, once.
ChainTarget(m) == Plus(m.a[1], ReadLong(m, Plus(m.a[1], Rom.chainField)))
Chain(m) ==
  IF m.pc = Rom.chain /\ ChainTarget(m) \notin Rom.callable /\ Once(m, "chain")
  THEN Did([m EXCEPT !.a[1] = Rom.chainBlock], "chain") ELSE m

\* A stream pointer that points nowhere gets a stream of its own, at one
\* address in D7 and at another in A6.
StreamInD7(m) ==
  IF m.pc = Rom.streamD7 /\ m.d[7] \notin Rom.buffersD7
  THEN [Seed(m, Rom.streamSeed) EXCEPT !.d[7] = Rom.stream] ELSE m
StreamInA6(m) ==
  IF m.pc = Rom.streamA6 /\ m.a[6] \notin Rom.buffersA6
  THEN [Seed(m, Rom.streamSeed) EXCEPT !.a[6] = Rom.stream] ELSE m

\* The emulator's globals: the first time, and whenever the buffer pointer
\* is found in the first page.
Globals(m) ==
  IF m.pc = Rom.globals /\ (Once(m, "globals") \/ ReadLong(m, Rom.globalsCell) \in FirstPage)
  THEN Did(Seed(m, Rom.globalsSeed), "globals") ELSE m

Anchor(m) ==
  IF m.pc = Rom.anchor /\ ReadLong(m, Rom.anchorCell) # Rom.anchorValue
  THEN WriteLong(m, Rom.anchorCell, Rom.anchorValue) ELSE m

\* The record arena, before any instruction while its slot is empty.
RecordArena(m) == IF ReadLong(m, Rom.arenaCell) = 0 THEN Seed(m, Rom.arenaSeed) ELSE m

\* A copy that runs to a sentinel finds one at its source.
EndMark == Mod(Long) - 1
CopySentinel(m) ==
  IF m.pc = Rom.copy /\ m.a[0] \in LowRam /\ ReadLong(m, m.a[0]) # EndMark
  THEN WriteLong(WriteLong(m, m.a[0], EndMark), Plus(m.a[0], 4), 0) ELSE m

\* The information block of the nanokernel: looked for once.
InfoBlock(m) ==
  IF m.pc = Rom.info /\ Once(m, "info")
  THEN Did(IF ReadLong(m, Rom.infoCell) = 0 THEN Seed(m, Rom.infoSeed) ELSE m, "info") ELSE m

\* The patch installer is left, once, when it meets the same entry for the
\* third time running: the stack is unwound to the trampoline's frame.
FrameSlots(m) == {k \in 0 .. Rom.patchDepth - 1 : ReadLong(m, Plus(SP(m), 4 * k)) = Rom.patchFrame}
Unwound(m, hits) ==
  IF hits = {} THEN [m EXCEPT !.reps = 0]
  ELSE [Did(SetSP(m, Plus(SP(m), 4 * Least(hits) + 4)), "escaped")
          EXCEPT !.pc = Rom.patchNext, !.reps = @ + 1]
PatchEntered(m, sig) ==
  IF ~Once(m, "escaped") \/ sig # m.sig THEN [m EXCEPT !.sig = sig, !.reps = 0]
  ELSE IF m.reps + 1 < 2 THEN [m EXCEPT !.reps = @ + 1] ELSE Unwound(m, FrameSlots(m))
PatchEscape(m) == IF m.pc # Rom.patch THEN m ELSE PatchEntered(m, m.d[0] ^^ m.a[1])

Table(m) ==
  IF m.pc = Rom.table /\ ReadLong(m, Rom.tableCell) # Rom.tableValue
  THEN WriteLong(m, Rom.tableCell, Rom.tableValue) ELSE m

\* The order of the loop.
Repair(m) ==
  Table(PatchEscape(InfoBlock(CopySentinel(RecordArena(Anchor(StreamInA6(Globals(
    StreamInD7(Chain(Walker(m)))))))))))

----------------------------------------------------------------------------

\* At the ROM's idle loop the machine parks, with its mask lowered, and a
\* guest without a level-1 vector gets a table of returns, once.
AtPark(m) == m.pc = Rom.park /\ FetchWord(m, m.pc) = Rom.parkOp
ParkVectors(m) ==
  IF Once(m, "vectors") /\ ReadLong(m, Vec.level[1]) = 0 THEN Did(Seed(m, Rom.parkSeed), "vectors") ELSE m
Park(m) == [ParkVectors(m) EXCEPT !.ipl = 0, !.stopped = TRUE]

\* The script is passed over; its pairs of 0xFFFF and a selector are served
\* on the way, which may change D0.
InScript(a) == a \in Rom.script
RECURSIVE DrainScript(_)
DrainScript(m) ==
  IF ~InScript(m.pc) THEN m
  ELSE IF FetchWord(m, m.pc) = \HFFFF /\ InScript(m.pc + 2)
    THEN DrainScript(Skip(LineFService(m), 4))
  ELSE DrainScript(Skip(m, 2))

----------------------------------------------------------------------------
\* Start-up.

Blank == [d |-> [r \in 0 .. 7 |-> 0], a |-> [r \in 0 .. 7 |-> 0], ssp |-> 0,
          sup |-> FALSE, s |-> FALSE, ipl |-> 0, ccr |-> {}, pc |-> 0,
          mem |-> [x \in Ram |-> 0], halted |-> FALSE, stopped |-> FALSE, inint |-> FALSE,
          services |-> 0, brk |-> Arena.start, seeded |-> FALSE, cleared |-> FALSE,
          rescues |-> 0, once |-> {}, sig |-> 0, reps |-> 0]

\* The zeroed context of a machine whose memory holds the given bytes.
M68kInitialize(mem) == [Blank EXCEPT !.mem = [x \in Ram |-> IF x \in DOMAIN mem THEN mem[x] ELSE 0]]

\* A guest whose first fault vector is empty gets a return in every empty
\* vector, once; line F gets the glue that steps over its two words.
SeedVector(m, v) ==
  IF ReadLong(m, v) # 0 THEN m ELSE WriteLong(m, v, IF v = Vec.lineF THEN Site.glue ELSE Site.rteStub)
SeedVectors(m) ==
  IF Once(m, "seeded") /\ ReadLong(m, Rom.firstFault) = 0
  THEN Did(FoldLeft(SeedVector, WriteWord(WithGlue(m), Site.rteStub, Site.rteCode), Rom.faultVectors), "seeded")
  ELSE m

Powered(m) ==
  [m EXCEPT !.ssp = ReadLong(m, 0), !.pc = ReadLong(m, 4), !.s = TRUE, !.sup = TRUE,
            !.ipl = Mod(Word) \div 64 - 1, !.ccr = {}, !.halted = FALSE, !.stopped = FALSE,
            !.d = [r \in 0 .. 7 |-> 0], !.a = [r \in 0 .. 7 |-> 0]]
M68kReset(m) == [EnsureLowVectorGlue(SeedVectors(Powered(m))) EXCEPT !.inint = FALSE]

\* What the start of a batch refreshes, unless the routine that borrows the
\* block is running.
RefreshBlock(m) ==
  IF m.pc \notin Rom.blockUser /\ ReadLong(m, Rom.blockCell) # Rom.blockMark
  THEN Seed(m, Rom.blockSeed) ELSE m

----------------------------------------------------------------------------
\* The handoff.  The low byte of SR stays behind.

M68kSyncFromPPC(m, g) ==
  [SetSP([m EXCEPT !.d = g.d, !.a = g.a, !.s = g.s, !.ipl = g.ipl, !.sup = g.s], g.sp) EXCEPT !.pc = g.pc]

M68kSyncToPPC(m) == [d |-> m.d, a |-> m.a, s |-> m.s, ipl |-> m.ipl, sp |-> SP(m), pc |-> m.pc]

\* The level-1 interrupt can be taken: not masked, and the guest owns the
\* vector.
Owned(m) == m.ipl = 0 /\ ReadLong(m, Vec.level[1]) # 0

TakeTick(m) == RaiseInterrupt(WriteLong(m, Tick, 1), 1)

----------------------------------------------------------------------------

\* The PowerPC side hands a program over for the first time: any registers,
\* the memory the boot left.
Init ==
  /\ prog \in Programs
  /\ cpu = M68kReset(M68kInitialize(prog.mem))
  /\ gpr = [d |-> prog.d, a |-> prog.a, s |-> prog.s, ipl |-> 0, sp |-> prog.sp, pc |-> prog.start]
  /\ where = "ppc" /\ flags = {} /\ due = (IF prog.task # 0 THEN "later" ELSE "done") /\ ticks = 0
  /\ hist = [k \in 1 .. Remembered |-> 0] /\ repeats = 0

\* The spin guard: a machine whose batches begin at the same few places too
\* often stops for good.
Repeats(m) == IF \E k \in DOMAIN hist : hist[k] = m.pc THEN repeats + 1 ELSE 0
GuardSpin(m) ==
  /\ cpu' = IF Repeats(m) > SpinLimit THEN [m EXCEPT !.halted = TRUE] ELSE m
  /\ repeats' = Repeats(m)
  /\ hist' = IF hist = <<>> THEN hist ELSE Append(Tail(hist), m.pc)

\* The start of a batch, once the registers are in place: the glue, the XLM
\* block, a due task, and the tick, which is only noted in memory.  The other
\* flags are kept if there is no tick among them.
TaskEntry(m) == ReadLong(m, prog.task + 8)
Called(m, to) == [Push([m EXCEPT !.a[1] = prog.task], m.pc, Long) EXCEPT !.pc = to]
Batch(m, call, kept) ==
  LET n == IF call THEN Called(m, TaskEntry(m)) ELSE m
  IN  IF "VIA" \in kept THEN WriteLong(n, Tick, 1) ELSE n
Begin(m, kept) ==
  /\ GuardSpin(Batch(m, due = "now" /\ TaskEntry(m) # 0, kept))
  /\ flags' = IF "VIA" \in kept THEN {} ELSE kept
  /\ due' = IF due = "now" THEN "done" ELSE due
  /\ where' = "m68k"
BeginBatch(m, kept) == Begin(RefreshBlock(EnsureLowVectorGlue(m)), kept)

EnterBatch ==
  /\ where = "ppc" /\ ~cpu.halted /\ ~cpu.stopped
  /\ BeginBatch(M68kSyncFromPPC(cpu, gpr), flags)
  /\ UNCHANGED <<prog, gpr, ticks>>

\* A stopped machine that can be interrupted looks at the flags: a tick
\* wakes it inside the handler, and the registers of the PowerPC side are
\* not looked at.
Wake ==
  /\ where = "ppc" /\ ~cpu.halted /\ cpu.stopped /\ Owned(cpu) /\ "VIA" \in flags
  /\ BeginBatch([TakeTick(cpu) EXCEPT !.stopped = FALSE], {})
  /\ UNCHANGED <<prog, gpr, ticks>>

\* The clock, which an unwoken machine advances too.
Raise(fs) ==
  /\ flags' = flags \cup fs
  /\ ticks' = IF fs = {} THEN ticks ELSE ticks + 1
  /\ fs # {} => ticks < prog.ticks

Parked ==
  /\ where = "ppc" /\ ~cpu.halted /\ cpu.stopped /\ ~(Owned(cpu) /\ "VIA" \in flags)
  /\ \E fs \in SUBSET Kinds : Raise(fs)
  /\ UNCHANGED <<prog, cpu, gpr, where, due, hist, repeats>>

\* The PowerPC side's own decrementer exception ends a STOP.
Preempt ==
  /\ where = "ppc" /\ cpu.stopped
  /\ cpu' = [cpu EXCEPT !.stopped = FALSE]
  /\ UNCHANGED <<prog, gpr, where, flags, due, ticks, hist, repeats>>

PlausiblePc(x) == \E zone \in CodeZones : x \in zone
Running == where = "m68k" /\ ~cpu.halted /\ ~cpu.stopped

\* One turn of the loop.  A tick that arrives inside a batch would be taken
\* between two instructions; nothing in the program raises one there.
Interrupted == Owned(cpu) /\ "VIA" \in flags
Interrupt ==
  /\ cpu' = TakeTick(cpu) /\ flags' = {}
  /\ UNCHANGED gpr
ParkAt(m) ==
  /\ cpu' = Park(m)
  /\ gpr' = [gpr EXCEPT !.s = cpu'.s, !.ipl = cpu'.ipl]
  /\ UNCHANGED flags
Turn(m) ==
  IF AtPark(m) THEN ParkAt(m) ELSE cpu' = ExecuteInstruction(m) /\ UNCHANGED <<gpr, flags>>
Execute ==
  /\ Running /\ cpu.pc # prog.done /\ PlausiblePc(cpu.pc) /\ ~InScript(cpu.pc)
  /\ IF Interrupted THEN Interrupt ELSE Turn(Repair(cpu))
  /\ UNCHANGED <<prog, where, due, ticks, hist, repeats>>

Drain ==
  /\ Running /\ PlausiblePc(cpu.pc) /\ InScript(cpu.pc)
  /\ cpu' = DrainScript(cpu)
  /\ UNCHANGED <<prog, gpr, where, flags, due, ticks, hist, repeats>>

\* A PC that is no address of code stops the machine for good.
RunAway ==
  /\ Running /\ ~PlausiblePc(cpu.pc)
  /\ cpu' = [cpu EXCEPT !.halted = TRUE]
  /\ UNCHANGED <<prog, gpr, where, flags, due, ticks, hist, repeats>>

\* A batch ends after any number of instructions; the clock advances and the
\* registers go back.
LeaveBatch ==
  /\ where = "m68k"
  /\ gpr' = M68kSyncToPPC(cpu)
  /\ \E fs \in SUBSET Kinds : Raise(fs)
  /\ due' \in (IF due = "later" THEN {"later", "now"} ELSE {due})
  /\ where' = "ppc"
  /\ UNCHANGED <<prog, cpu, hist, repeats>>

Next ==
  \/ EnterBatch \/ Wake \/ Parked \/ Preempt
  \/ Execute \/ Drain \/ RunAway \/ LeaveBatch

Spec == Init /\ [][Next]_vars

----------------------------------------------------------------------------

\* CMP.W with an immediate whose sign bit is set: the operand is extended
\* (m68k.c:1031) where the register is cut to its word (1375).
Extended == prog.immediate /\ prog.size = Word /\ Sign(prog.src, Word)

\* A comparison decides: what CMP and CMPI leave says of their operands, as
\* unsigned and as signed numbers, which is smaller and whether they are equal,
\* and it still says so after a trap.  The one form for which the flags do not
\* tell the unsigned numbers is CMP.W with an extended immediate.
CompareDecides ==
  prog.kind = "compare" /\ cpu.pc = prog.done =>
    LET x == prog.dst  y == prog.src  s == prog.size
    IN  /\ Extended \/ ("C" \in cpu.ccr) = (x < y)
        /\ ("Z" \in cpu.ccr) = (x = y)
        /\ (("N" \in cpu.ccr) # ("V" \in cpu.ccr)) = (Signed(x, s) < Signed(y, s))

\* A program that ends has restored what it saved: the registers it keeps, its
\* stack pointer and its mode are those it was handed, through LINK, MOVEM,
\* JSR, traps, a STOP that a tick ends, and Time Manager tasks.  A program in
\* user mode that traps keeps its registers and its own stack pointer, but it
\* goes on in supervisor mode, on the other stack: the trap sets S before it
\* pushes SR (m68k.c:2291).
BracketsRestore ==
  prog.kind = "bracket" /\ cpu.pc = prog.done =>
    /\ \A r \in prog.keepD : cpu.d[r] = prog.d[r]
    /\ \A r \in prog.keepA : cpu.a[r] = prog.a[r]
    /\ IF prog.s \/ ~prog.traps THEN cpu.sup = prog.s /\ SP(cpu) = prog.sp
       ELSE cpu.a[7] = prog.sp

=============================================================================
