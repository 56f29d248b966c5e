----------------------------- MODULE M68kDecode -----------------------------
(***************************************************************************)
(* One step of the 68K interpreter (src/cpu/m68k.c,                        *)
(* M68kExecuteInstruction): the early returns that replace a piece of the  *)
(* ROM by its effect, and the decision, by the opcode's top four bits and  *)
(* then in the order of the code's tests, which instruction it is.         *)
(* EMUL_OP calls leave the interpreter; what they do is the subject of     *)
(* EmulOp.                                                                 *)
(***************************************************************************)
EXTENDS M68kInstructions

CONSTANTS
  NativeZone,   \* addresses of PowerPC code, which the interpreter skips
  ZeroTrap,     \* addresses at which an opcode of 0 stops the machine
  TrapTable,    \* the handlers of the ROM's table of A-traps
  Arena         \* the heap of A051: its start, its end, its page and the largest request

Jump(m, to) == [m EXCEPT !.pc = to]
TestResult(m, f) == WithCcr(m, (m.ccr \cap {"X"}) \cup f)

\* Addresses at which the ROM and low memory hold code, as the repairs of
\* RTS and JMP accept them.
InRom(a) == a % 2 = 0 /\ a \in RomCode
Plausible(a) == a % 2 = 0 /\ (a \in LowRam \/ a \in RomCode)

----------------------------------------------------------------------------
\* Early returns.

\* PowerPC code is skipped by returning to the caller.
SkipNative(m) == Jump(SetSP(m, Plus(SP(m), 4)), ReadLong(m, SP(m)))

AtScrub(m, op) ==
  /\ m.pc - 2 = Site.scrub /\ op = Site.scrubOp
  /\ FetchWord(m, m.pc - 4) = Site.scrubStore /\ FetchWord(m, m.pc) = Site.scrubLoop
  /\ m.a[1] = Site.scrubBound

\* The fill from A0 up to the long that A1 points to, in longs and then in
\* single bytes; a bound that is not an address becomes the usual one.
Filled(m, from, longs, value) ==
  FoldLeft(LAMBDA mm, i : WriteLong(mm, from + 4 * (i - 1), value), m, [i \in 1 .. longs |-> i])
FilledBytes(m, from, limit, value) ==
  FoldLeft(LAMBDA mm, a : WriteByte(mm, a, value \div Mod(a % 4)), m,
           [i \in 1 .. (IF from < limit THEN limit - from ELSE 0) |-> from + i - 1])
ScrubTail(m, end, limit, value) ==
  TestResult([FilledBytes(m, end, limit, value) EXCEPT !.a[0] = IF end < limit THEN limit ELSE end], {"Z"})
ScrubLongs(m, from, longs, limit, value) ==
  ScrubTail(Filled(m, from, longs, value), from + 4 * longs, limit, value)
ScrubFrom(m, from, limit, value) ==
  ScrubLongs(m, from, IF from + 4 > limit THEN 0 ELSE (limit - from) \div 4, limit, value)
ScrubTo(m, bound) ==
  IF Sign(bound, Long) \/ bound = 0 \/ bound > Site.scrubMax
  THEN ScrubFrom(m, m.a[0] - (m.a[0] % 4), Site.scrubBound, 0)
  ELSE ScrubFrom(m, m.a[0] - (m.a[0] % 4), bound, m.d[1])
ScrubFill(m) == ScrubTo(m, ReadLong(m, m.a[1]))

\* A routine whose argument is no heap address returns at once.
ArgumentRefused(m) ==
  LET arg == ReadLong(m, Plus(SP(m), 4)) IN arg % 2 = 1 \/ arg \notin Site.heap

AtClear(m, op) ==
  /\ op = Site.scrubOp /\ m.pc - 2 = Site.clear
  /\ FetchWord(m, m.pc - 4) = Site.clearStore /\ FetchWord(m, m.pc) = Site.clearLoop
  /\ ~m.cleared

\* The second clearing loop, once: an empty range is completed by moving the
\* cursor, a sound one is cleared in words.
Cleared(m, cursor) == TestResult([m EXCEPT !.cleared = TRUE, !.a[0] = cursor], {"Z"})
ClearedWords(m, from, words) ==
  FoldLeft(LAMBDA mm, i : WriteWord(mm, from + 2 * (i - 1), 0), m, [i \in 1 .. words |-> i])
ClearTo(m, start, limit) ==
  IF start >= Site.romBase /\ limit \in Site.stackBounds THEN {Cleared(m, limit)}
  ELSE IF limit > start /\ limit <= start + Site.clearMax
  THEN {Cleared(ClearedWords(m, start - (start % 2), (limit - start + (start % 2)) \div 2), limit)}
  ELSE {}
EvenBound(x) == x - (x % 2)
ClearFill(m) == ClearTo(m, m.a[0], EvenBound(ReadLong(m, m.a[1])))

\* A stage that starts on a stack inside the vectors gets a real one, twice.
RescueStack(m) ==
  IF SP(m) \in LowVectors /\ m.pc \in Site.rescueStage /\ m.rescues < 2
  THEN SetSP([m EXCEPT !.rescues = @ + 1], Site.rescueStack) ELSE m

----------------------------------------------------------------------------
\* Group 0: bit operations and immediates.

BitRegisterBits(m, op) == m.d[Field(op, 8, 3)] % (B * Long)

\* A bit number in a register: the register's number is taken from bits 8 to
\* 10 and the operation from bits 5 to 7 of the opcode.
DynamicBit(m, op) ==
  LET ea   == Ea(op)
      kind == Field(op, 5, 3)
  IN  IF EaMode(ea) = 1 \/ IsAt(ea, 4) THEN Illegal(m, op)
      ELSE IF kind > 3 THEN Illegal(IF EaMode(ea) = 0 THEN m ELSE ReadEA(m, ea, Byte).m, op)
      ELSE IF EaMode(ea) = 0 THEN BitAt(m, ea, Long, BitRegisterBits(m, op), kind)
      ELSE BitAt(m, ea, Byte, BitRegisterBits(m, op) % B, kind)

StaticBit(m, op) ==
  LET s == IF EaMode(op) = 0 THEN Long ELSE Byte
      n == (FetchWord(m, m.pc) % 256) % (IF EaMode(op) = 0 THEN B * Long ELSE B)
  IN  BitAt(Skip(m, 2), Ea(op), s, n, Field(op, 6, 2))

\* The immediates, by bits 8 to 11, and what they become on CCR and on SR.
ImmediateKind(sub) ==
  CASE sub = 0 -> "or" [] sub = 2 -> "and" [] sub = 4 -> "sub" [] sub = 6 -> "add" [] sub = 10 -> "eor"
OnStatus(m, op) ==
  CASE op = \H003C -> OriCcr(m)
    [] op = \H023C -> AndiCcr(m)
    [] op = \H0A3C -> EoriCcr(m)
    [] OTHER -> AndiEoriOriSr(m, ImmediateKind(Field(op, 8, 4)))

Group0(m, op) ==
  LET sub == Field(op, 8, 4)
  IN  CASE EaMode(op) = 1 -> Movep(m, op)
        [] EaMode(op) # 1 /\ Field(op, 6, 6) \in {15, 28} ->
             BitAt(m, Ea(op), Long, m.d[Dn(op)] % (B * Long), IF Field(op, 6, 6) = 15 THEN 3 ELSE 0)
        [] EaMode(op) # 1 /\ Field(op, 6, 6) \notin {15, 28} /\ Bit(op, 8) -> DynamicBit(m, op)
        [] op \in {\H003C, \H007C, \H023C, \H027C, \H0A3C, \H0A7C} -> OnStatus(m, op)
        [] EaMode(op) # 1 /\ op \notin {\H003C, \H007C, \H023C, \H027C, \H0A3C, \H0A7C}
             /\ sub \in {0, 2, 4, 6, 10} -> ImmediateAlu(m, op, ImmediateKind(sub))
        [] EaMode(op) # 1 /\ sub = 8 -> StaticBit(m, op)
        [] EaMode(op) # 1 /\ sub = 12 -> Cmpi(m, op)
        [] OTHER -> Illegal(m, op)

----------------------------------------------------------------------------
\* Group 4: control.

\* The stack slots from sp + 4 * first upwards that hold a ROM address.
RomSlots(m, sp, slots) == {i \in slots : InRom(ReadLong(m, Lo(sp + 4 * i, Long)))}
Least(S) == CHOOSE i \in S : \A j \in S : i <= j

\* A frame under A6 through which a return to the first page is mended.
FrameReturn(m, fp) ==
  /\ fp >= SP(m) /\ fp - SP(m) < Site.frameMax /\ fp % 2 = 0
  /\ InRom(ReadLong(m, Plus(fp, 4)))
  /\ ReadLong(m, fp) % 2 = 0 /\ ReadLong(m, fp) >= SP(m)

\* A return address that is no code is replaced: by the caller's of the
\* frame under A6, by the first ROM address in the next 16 stack slots, or
\* by one in the slots already popped; if there is none it is taken anyway.
Highest(S) == CHOOSE i \in S : \A j \in S : j <= i
Unframed(m, fp) ==
  [m EXCEPT !.a[6] = ReadLong(m, fp), !.a[7] = Plus(fp, 8), !.pc = ReadLong(m, Plus(fp, 4))]
SlotReturn(m, sp, slot) == Jump(SetSP(m, Plus(sp, 4 * slot + 4)), ReadLong(m, sp + 4 * slot))
RtsBySlots(m, to, up, low) ==
  IF up # {} THEN Jump(SetSP(m, Plus(SP(m), 4 * Least(up))), ReadLong(m, SP(m) + 4 * Least(up)))
  ELSE IF low # {} THEN Jump(m, ReadLong(m, Lo(SP(m) + 4 * Highest(low), Long)))
  ELSE Jump(m, to)
RtsFrom(x) ==
  IF Plausible(x.v) THEN Jump(x.m, x.v)
  ELSE IF x.v \in FirstPage /\ FrameReturn(x.m, x.m.a[6]) THEN Unframed(x.m, x.m.a[6])
  ELSE RtsBySlots(x.m, x.v, RomSlots(x.m, SP(x.m), 0 .. 15), RomSlots(x.m, SP(x.m), {-i : i \in 2 .. 47}))
Rts(m) == RtsFrom(Pop(m, Long))

\* A call into the vectors is completed without being made.
JsrTo(x) ==
  IF x.v \in LowVectors THEN [x.m EXCEPT !.d[0] = 0] ELSE Jump(Push(x.m, x.m.pc, Long), x.v)
Jsr(m, op) == JsrTo(ComputeEA(m, Ea(op)))

\* A jump into the vectors is taken as a return.
JmpBySlots(m, ret, up) ==
  IF Plausible(ret.v) THEN Jump(ret.m, ret.v)
  ELSE IF up = {} THEN ret.m ELSE SlotReturn(ret.m, SP(m), Least(up))
JmpTo(x) ==
  IF x.v \notin LowVectors THEN Jump(x.m, x.v)
  ELSE JmpBySlots(x.m, Pop(x.m, Long), RomSlots(x.m, SP(x.m), 0 .. 47))
Jmp(m, op) == JmpTo(ComputeEA(m, Ea(op)))

\* The last tests of the group, for what no other has claimed.
Group4Rest(m, op) ==
  IF Field(op, 8, 8) \in {\H44, \H40} THEN Neg(m, op)
  ELSE IF Field(op, 8, 8) = \H46 THEN NotOp(m, op)
  ELSE IF ~Bit(op, 8) /\ EaMode(op) # 7 THEN BitOperation(m, op)
  ELSE IF Field(op, 1, 15) = \H4E7A \div 2 THEN Skip(m, 2)
  ELSE Illegal(m, op)

\* MOVE to CCR or to SR.
ToStatus(x, sr) == IF sr THEN SetSR(x.m, Lo(x.v, Word)) ELSE CcrFrom(x)

Group4(m, op) ==
  LET top10 == 64 * Field(op, 6, 10)   \* Opcode & 0xFFC0
      top13 == 8 * Field(op, 3, 13)    \* Opcode & 0xFFF8
      top9  == 128 * Field(op, 7, 9)   \* Opcode & 0xFF80
      top8  == 256 * Field(op, 8, 8)   \* Opcode & 0xFF00
  IN  IF op = \H44FC THEN MoveImmCcr(m)
      ELSE IF op = \H46FC THEN MoveImmSr(m)
      ELSE IF top10 = \H40C0 THEN WriteEA(m, Ea(op), Word, SrWord(m))
      ELSE IF top10 = \H4C00 THEN MulLong(m, op)
      ELSE IF op \in {\H4E70, \H4E71, \H4E76} THEN m
      ELSE IF op = \H4E72 THEN Stop(m)
      ELSE IF op = \H4E73 THEN Rte(m)
      ELSE IF op = \H4E75 THEN Rts(m)
      ELSE IF op = \H4E77 THEN Rtr(m)
      ELSE IF 16 * Field(op, 4, 12) = \H4E40 THEN Trap(m, op)
      ELSE IF top13 = \H4E50 THEN Link(m, op)
      ELSE IF top13 = \H4E58 THEN Unlk(m, op)
      ELSE IF top13 \in {\H4E60, \H4E68} THEN MoveUsp(m, op)
      ELSE IF top10 = \H4E80 THEN Jsr(m, op)
      ELSE IF top10 = \H4EC0 THEN Jmp(m, op)
      ELSE IF Field(op, 6, 3) = 7 THEN Lea(m, op)
      ELSE IF Bit(op, 8) /\ EaMode(op) = 0 THEN Chk(m, op)
      ELSE IF top13 = \H4840 THEN Swap(m, op)
      ELSE IF top13 \in {\H4880, \H48C0} THEN Ext(m, op)
      ELSE IF top10 = \H4AC0 THEN Tas(m, op)
      ELSE IF top8 = \H4A00 THEN Tst(m, op)
      ELSE IF top10 = \H4840 THEN Pea(m, op)
      ELSE IF top10 = \H4800 THEN Nbcd(m, op)
      ELSE IF top9 \in {\H4880, \H4C80} THEN Movem(m, op)
      ELSE IF top8 = \H4200 THEN Clr(m, op)
      ELSE IF top10 \in {\H44C0, \H46C0} THEN ToStatus(ReadEA(m, Ea(op), Word), top10 = \H46C0)
      ELSE Group4Rest(m, op)

----------------------------------------------------------------------------
\* Groups 5 to F.

Group5(m, op) ==
  IF Field(op, 3, 5) = 25 THEN Dbcc(m, op)
  ELSE IF Field(op, 6, 2) = 3 THEN Scc(m, op) ELSE AddqSubq(m, op)

Group8(m, op) ==
  LET sub == Field(op, 6, 3)
  IN  IF sub \in {3, 7} THEN Div(m, op, sub = 7)
      ELSE IF sub = 4 THEN Sbcd(m, op) ELSE Alu(m, op, "or")

\* Bit 8 set and bits 3 to 5 clear: between registers only.
IsExtended(op) == Bit(op, 8) /\ Field(op, 3, 3) = 0

Group9(m, op) ==
  IF Field(op, 6, 2) = 3 THEN AddressAlu(m, op, "sub")
  ELSE IF IsExtended(op) THEN Subx(m, op) ELSE Alu(m, op, "sub")

GroupB(m, op) ==
  LET sub == Field(op, 6, 3)
  IN  IF sub <= 2 THEN Cmp(m, op) ELSE IF sub \in {3, 7} THEN Cmpa(m, op)
      ELSE IF sub = 5 THEN Cmpm(m, op) ELSE Alu(m, op, "eor")

GroupC(m, op) ==
  IF Field(op, 3, 5) \in {8, 9, 17} THEN Exg(m, op)
  ELSE IF Field(op, 6, 2) = 3 THEN MulWord(m, op)
  ELSE IF Field(op, 6, 3) = 4 THEN Abcd(m, op) ELSE Alu(m, op, "and")

GroupD(m, op) ==
  IF Field(op, 6, 2) = 3 THEN AddressAlu(m, op, "add")
  ELSE IF IsExtended(op) THEN Addx(m, op) ELSE Alu(m, op, "add")

\* The arena of A051: whole pages, upwards, never given back.
ArenaSize(want) ==
  LET size == IF want = 0 \/ want > Arena.largest THEN Arena.page ELSE want
  IN  ((size + Arena.page - 1) \div Arena.page) * Arena.page

Allocated(m, size) ==
  IF m.brk + size > Arena.end THEN [m EXCEPT !.d[0] = Mod(Long) - 1]
  ELSE [m EXCEPT !.a[0] = m.brk, !.brk = @ + size, !.d[0] = 0]
AllocateArena(m) == Allocated(m, ArenaSize(m.d[0]))

\* The record that the selectors 5 and 6 of A06E ask for.
Described(m, rec) ==
  FoldLeft(LAMBDA mm, w : WriteWord(mm, rec + w[1], Lo(w[2], Word)), m,
           << <<32, 1>>, <<4, 1>>, <<10, 48>>, <<12, 32>> >>)
DescribeAt(m, buf, at) ==
  IF at <= buf \/ at > buf + 1024 \/ at % 4 # 0
  THEN Described(WriteLong(m, buf, Plus(buf, 64)), Plus(buf, 64)) ELSE Described(m, at)
DescribeRecord(m) == DescribeAt(m, m.a[0], ReadLong(m, m.a[0]))

\* What an A-trap leaves before the ROM's table is asked: the areas of two
\* selectors, the record of A06E, the success of A71E and A647, and the
\* first time a heap of one block.
WithArea(m) == IF m.d[0] \in DOMAIN Site.areas THEN [m EXCEPT !.a[0] = Site.areas[m.d[0]]] ELSE m
WithRecord(m, trap) == IF trap = \H06E /\ m.d[0] \in {5, 6} THEN DescribeRecord(m) ELSE m
WithSuccess(m, trap) ==
  LET n == IF trap = \H71E THEN WriteByte(m, 4, 3) ELSE m
  IN  IF trap \in {\H71E, \H647} THEN [n EXCEPT !.d[0] = 0] ELSE n
WithHeap(m) ==
  IF m.seeded THEN m
  ELSE [FoldLeft(LAMBDA mm, w : WriteLong(mm, w[1], w[2]), m, Site.seedHeap) EXCEPT !.seeded = TRUE]
LineAService(m, op) == WithHeap(WithSuccess(WithRecord(WithArea(m), Field(op, 0, 12)), Field(op, 0, 12)))

HostTraps == {\H06E, \H004, \H01F, \H080, \H647, \H71E}

\* A trap the host does not serve calls the ROM's handler; one without a
\* handler in the ROM goes on as if it had succeeded.
TrapIndex(op) == IF op > \HA800 THEN Field(op, 0, 10) ELSE Field(op, 0, 8) + 1024
Handler(i) == IF i \in DOMAIN TrapTable THEN TrapTable[i] ELSE 0
LineACall(m, op, to) ==
  IF Field(op, 0, 12) \notin HostTraps /\ to \in RomCode THEN Jump(Push(m, m.pc, Long), to) ELSE m
LineAArena(m, served, op) ==
  IF op = \HA051 /\ m.brk # served.brk THEN m ELSE LineACall(m, op, Handler(TrapIndex(op)))
LineAServed(m, op) == LineAArena(IF op = \HA051 THEN AllocateArena(m) ELSE m, m, op)
LineA(m, op) == LineAServed(WithCcr(LineAService(m, op), {"Z"}), op)

\* The memory services a guest of a virtual-memory system asks for.
PageOf(a) == (a % 2 ^ ((5 * B) \div 2)) * 2 ^ ((3 * B) \div 2)
VmAnswer(m, sel) ==
  IF sel \in {0, 3, 4, 5, 7, 25} THEN 1
  ELSE IF sel \in {10, 11} THEN m.a[0]
  ELSE IF sel = 19 THEN Lo(PageOf(m.a[0]), Long) | Site.pageFlags ELSE 0
VmService(m) == [m EXCEPT !.d[0] = VmAnswer(m, Lo(m.d[0], Word))]

IsEmulOp(op) == 64 * Field(op, 6, 10) = \HFE40 /\ Field(op, 0, 6) >= 3

\* Any other opcode of the group is passed over.
LineF(m, op) ==
  IF IsEmulOp(op) THEN m
  ELSE IF 16 * Field(op, 4, 12) = \HFE00 THEN VmService(m)
  ELSE IF op = \HFFFF THEN RaiseException([m EXCEPT !.pc = Minus(@, 2)], Vec.lineF)
  ELSE m

Dispatch(m, op) ==
  LET group == Field(op, 12, 4)
  IN  CASE group = 0 -> Group0(m, op)
        [] group \in 1 .. 3 -> Move(m, op)
        [] group = 4 -> Group4(m, op)
        [] group = 5 -> Group5(m, op)
        [] group = 6 -> Branch(m, op)
        [] group = 7 -> Moveq(m, op)
        [] group = 8 -> Group8(m, op)
        [] group = 9 -> Group9(m, op)
        [] group = 10 -> LineA(m, op)
        [] group = 11 -> GroupB(m, op)
        [] group = 12 -> GroupC(m, op)
        [] group = 13 -> GroupD(m, op)
        [] group = 14 -> Shift(m, op)
        [] group = 15 -> LineF(m, op)

\* A thunk marker among the top addresses is passed over with its operand.
IsMarker(m, op) == m.pc \in DrThunk /\ Field(op, 8, 8) \in {\H4B, \H4D}

DispatchMarked(m, op) == IF IsMarker(m, op) THEN SkipThunk(m, op) ELSE Dispatch(m, op)
Decoded(m, op) ==
  DispatchMarked(IF op = 0 /\ m.pc \in ZeroTrap THEN [RescueStack(m) EXCEPT !.halted = TRUE] ELSE RescueStack(m), op)
DecodedUnless(cleared, m, op) == IF cleared = {} THEN Decoded(m, op) ELSE CHOOSE x \in cleared : TRUE
ExecuteOpcode(at, m, op) ==
  IF AtScrub(m, op) THEN ScrubFill(m)
  ELSE IF at = Site.frame /\ op = Site.frameOp /\ ArgumentRefused(m) THEN PopPc(m)
  ELSE DecodedUnless(IF AtClear(m, op) THEN ClearFill(m) ELSE {}, m, op)
ExecuteInstruction(m) ==
  IF m.halted THEN m
  ELSE IF m.pc \in NativeZone THEN SkipNative(m)
  ELSE ExecuteOpcode(m.pc, Skip(m, 2), FetchWord(m, m.pc))
=============================================================================
