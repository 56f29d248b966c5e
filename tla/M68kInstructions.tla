-------------------------- MODULE M68kInstructions --------------------------
(***************************************************************************)
(* The instructions of the 68K interpreter (src/cpu/m68k.c), one operator  *)
(* per M68kExecute function: the machine after the opcode was fetched and  *)
(* the opcode give the machine after the instruction.                      *)
(***************************************************************************)
EXTENDS M68kMachine

Ea(op) == Field(op, 0, 6)
Rn(op) == Field(op, 0, 3)
Dn(op) == Field(op, 9, 3)

\* Three of the field's values; the fourth counts as a word.
DecodeSize(op) ==
  IF Field(op, 6, 2) = 0 THEN Byte ELSE IF Field(op, 6, 2) = 2 THEN Long ELSE Word

\* The size field of MOVE has an order of its own.
MoveSize(op) ==
  IF Field(op, 12, 2) = 1 THEN Byte ELSE IF Field(op, 12, 2) = 2 THEN Long ELSE Word

MoveTo(src, op, mode, s) ==
  IF mode = 0 THEN WriteDn(src.m, Dn(op), src.v, s)
  ELSE IF mode = 1 THEN WriteAn(src.m, Dn(op), src.v)
  ELSE WriteEA(src.m, 8 * mode + Dn(op), s, src.v)
\* The destination of an instruction and the flags of what it holds.
Tested(m, v, s) == WithCcr(m, LogicFlags(m.ccr, v, s))
Moved(src, op, mode, s) ==
  IF mode = 1 THEN MoveTo(src, op, mode, s) ELSE Tested(MoveTo(src, op, mode, s), src.v, s)
Move(m, op) == Moved(ReadEA(m, Ea(op), MoveSize(op)), op, Field(op, 6, 3), MoveSize(op))

PutDn(m, r, v, s) == Tested([m EXCEPT !.d[r] = v], v, s)
Moveq(m, op) ==
  PutDn(m, Dn(op), Lo(IF Bit(op, 7) THEN Field(op, 0, 8) - 256 ELSE Field(op, 0, 8), Long), Long)

\* The result and the flags of an operation.
AluResult(kind, dst, src) ==
  CASE kind = "add" -> Plus(dst, src)
    [] kind = "sub" -> Minus(dst, src)
    [] kind = "and" -> dst & src
    [] kind = "or"  -> dst | src
    [] kind = "eor" -> dst ^^ src
AluFlags(kind, ccr, r, src, dst, s) ==
  CASE kind = "add" -> SetFlagsFromAdd(ccr, r, src, dst, s)
    [] kind = "sub" -> SetFlagsFromSub(ccr, r, src, dst, s)
    [] OTHER -> LogicFlags(ccr, r, s)
Flagged(kind, ccr, r, src, dst, s) == [v |-> r, ccr |-> AluFlags(kind, ccr, r, src, dst, s)]
Calculated(kind, ccr, src, dst, s) == Flagged(kind, ccr, AluResult(kind, dst, src), src, dst, s)

\* Bytes and words of a data register are cut from it only where the code
\* masks them: the destination of an operation to a register is not cut, and
\* neither is what is written back to it.
IntoRegister(m, r, x) == WithCcr([m EXCEPT !.d[r] = x.v], x.ccr)
AluToRegister(src, op, kind, s) ==
  IntoRegister(src.m, Dn(op), Calculated(kind, src.m.ccr, src.v, src.m.d[Dn(op)], s))

\* The operand is decoded once to be read and once more to be written.
IntoEa(m, op, x, s) == WriteEA(WithCcr(m, x.ccr), Ea(op), s, x.v)
AluToEa(dst, op, kind, s) ==
  IntoEa(dst.m, op, Calculated(kind, dst.m.ccr, Lo(dst.m.d[Dn(op)], s), dst.v, s), s)

AluSize(mode) == IF mode \in {0, 4} THEN Byte ELSE IF mode \in {1, 5} THEN Word ELSE Long
AluOf(x, op, kind, s) ==
  IF (Field(op, 6, 3) <= 2) = (kind = "eor") THEN AluToEa(x, op, kind, s) ELSE AluToRegister(x, op, kind, s)

\* EOR goes to its operand where the others go to the register.
Alu(m, op, kind) ==
  IF kind # "eor" /\ Field(op, 6, 3) \in {3, 7} THEN m
  ELSE AluOf(ReadEA(m, Ea(op), AluSize(Field(op, 6, 3))), op, kind, AluSize(Field(op, 6, 3)))

\* An address register is changed whole and without flags.
QuickData(op) == IF Dn(op) = 0 THEN 8 ELSE Dn(op)
Quick(x, op, kind, s) == IntoEa(x.m, op, Calculated(kind, x.m.ccr, QuickData(op), x.v, s), s)
AddqSubq(m, op) ==
  LET kind == IF Bit(op, 8) THEN "sub" ELSE "add"
  IN  IF EaMode(op) = 1 THEN WriteAn(m, Rn(op), AluResult(kind, An(m, Rn(op)), QuickData(op)))
      ELSE Quick(ReadEA(m, Ea(op), DecodeSize(op)), op, kind, DecodeSize(op))

Compare(m, dst, src, s) == WithCcr(m, SetFlagsFromSub(m.ccr, Minus(dst, src), src, dst, s))

CmpWith(src, op, s) == Compare(src.m, Lo(src.m.d[Dn(op)], s), src.v, s)
CmpSize(op) == IF Field(op, 6, 3) = 0 THEN Byte ELSE IF Field(op, 6, 3) = 1 THEN Word ELSE Long
Cmp(m, op) == CmpWith(ReadEA(m, Ea(op), CmpSize(op)), op, CmpSize(op))

CmpaWith(src, op) == Compare(src.m, An(src.m, Dn(op)), src.v, Long)
Cmpa(m, op) ==
  LET s == IF Bit(op, 8) THEN Long ELSE Word
  IN  CmpaWith(SignedWord(ReadEA(m, Ea(op), s), s), op)

\* Always four bytes, whatever the opcode's size.
Advanced(m, r) == [m EXCEPT !.a[r] = Plus(@, 4)]
CmpmWith(m, op, src) == Compare(Advanced(m, Dn(op)), ReadLong(m, m.a[Dn(op)]), src, Long)
Cmpm(m, op) == CmpmWith(Advanced(m, Rn(op)), op, ReadLong(m, m.a[Rn(op)]))

TestOperand(x, s) == Tested(x.m, x.v, s)
Tst(m, op) == TestOperand(ReadEA(m, Ea(op), DecodeSize(op)), DecodeSize(op))

IntoAn(x, r) == WriteAn(x.m, r, x.v)
Lea(m, op) == IntoAn(ComputeEA(m, Ea(op)), Dn(op))

Pushed(x) == Push(x.m, x.v, Long)
Pea(m, op) == Pushed(ComputeEA(m, Ea(op)))

\* The registers of a MOVEM list, D0 to D7 and A0 to A7 as 0 to 15, in the
\* order in which they lie in memory.  A predecrement's list is reversed.
ListedRegisters(list, reversed) ==
  SelectSeq([i \in 1 .. 16 |-> i - 1], LAMBDA r : Bit(list, IF reversed THEN 15 - r ELSE r))

Register(m, r) == IF r < 8 THEN m.d[r] ELSE An(m, r - 8)

LoadRegister(m, r, v, s) ==
  IF r < 8 THEN WriteDn(m, r, v, s) ELSE WriteAn(m, r - 8, Merge(An(m, r - 8), v, s))
Transferred(m, r, at, s, load) ==
  IF load THEN LoadRegister(m, r, Read(m, at, s), s) ELSE Write(m, at, Register(m, r), s)
\* The registers go to memory, or come from it, from start upwards.
Transfer(m, start, regs, s, load) ==
  FoldLeft(LAMBDA mm, i : Transferred(mm, regs[i], Plus(start, s * (i - 1)), s, load),
           m, [i \in 1 .. Len(regs) |-> i])
MovemEnd(m, op, end) == IF EaMode(op) = 3 THEN WriteAn(m, Rn(op), end) ELSE m
MovemAt(m, op, start, regs, s) ==
  MovemEnd(Transfer(m, start, regs, s, EaMode(op) # 4 /\ Bit(op, 10)), op, Plus(start, s * Len(regs)))
Below(m, r, size) == [m |-> WriteAn(m, r, Minus(An(m, r), size)), v |-> Minus(An(m, r), size)]
MovemWith(x, op, regs, s) == MovemAt(x.m, op, x.v, regs, s)
MovemList(x, op, regs, s) ==
  MovemWith(IF EaMode(op) = 4 THEN Below(x.m, Rn(op), s * Len(regs)) ELSE x, op, regs, s)
Movem(m, op) ==
  MovemList(ComputeEA(Skip(m, 2), Ea(op)), op, ListedRegisters(FetchWord(m, m.pc), EaMode(op) = 4),
            IF Bit(op, 6) THEN Long ELSE Word)

LinkAt(m, r, size) == SetSP(WriteAn(m, r, SP(m)), Plus(SP(m), size))
Link(m, op) ==
  LinkAt(Push(Skip(m, 2), An(m, Rn(op)), Long), Rn(op), SExt(FetchWord(m, m.pc), Word))

\* Mutant of Unlk: the link is popped from where the stack is.
UnlkInPlace(m, op) == IntoAn(Pop(m, Long), Rn(op))

Unlk(m, op) == IntoAn(Pop(SetSP(m, An(m, Rn(op))), Long), Rn(op))

Exg(m, op) ==
  LET x == Dn(op)  y == Rn(op)
  IN  CASE Field(op, 3, 5) = 8 -> [m EXCEPT !.d[x] = m.d[y], !.d[y] = m.d[x]]
        [] Field(op, 3, 5) = 9 -> WriteAn(WriteAn(m, x, An(m, y)), y, An(m, x))
        [] Field(op, 3, 5) = 17 -> WriteAn([m EXCEPT !.d[x] = An(m, y)], y, m.d[x])

Negated(x, op, s) == IntoEa(x.m, op, Calculated("sub", x.m.ccr, x.v, 0, s), s)
Neg(m, op) == Negated(ReadEA(m, Ea(op), DecodeSize(op)), op, DecodeSize(op))

Inverted(x, op, r, s) == Tested(WriteEA(x.m, Ea(op), s, r), r, s)
InvertedOf(x, op, s) == Inverted(x, op, Mod(s) - 1 - Lo(x.v, s), s)
NotOp(m, op) == InvertedOf(ReadEA(m, Ea(op), DecodeSize(op)), op, DecodeSize(op))

Ext(m, op) ==
  LET s == IF Bit(op, 6) THEN Long ELSE Word
  IN  PutDn(m, Rn(op), Merge(m.d[Rn(op)], SExt(m.d[Rn(op)], IF s = Long THEN Word ELSE Byte), s), s)

Swap(m, op) ==
  PutDn(m, Rn(op), Lo(m.d[Rn(op)], Word) * Mod(Word) + m.d[Rn(op)] \div Mod(Word), Long)

TestAndSet(x, op) ==
  WriteEA(WithCcr(x.m, SetFlag(LogicFlags(x.m.ccr, x.v, Byte), "N")), Ea(op), Byte,
          x.v | (Mod(Byte) \div 2))
Tas(m, op) == TestAndSet(ReadEA(m, Ea(op), Byte), op)

Clr(m, op) == Tested(WriteEA(m, Ea(op), DecodeSize(op), 0), 0, DecodeSize(op))

----------------------------------------------------------------------------
\* Branches.

\* A target inside the emulator's own zone is sent to A6 with a return
\* address, unless A6 is near: then the call counts as done.
ShortDisplacement(op) == Lo(IF Field(op, 0, 8) >= 128 THEN Field(op, 0, 8) - 256 ELSE Field(op, 0, 8), Long)
BranchWords(op) == IF Field(op, 0, 8) = 0 THEN Word ELSE IF Field(op, 0, 8) = 255 THEN Long ELSE 0
NearA6(m) ==
  m.a[6] # 0 /\ (Minus(m.pc, m.a[6]) < PingPongGap \/ Minus(m.a[6], m.pc) < PingPongGap)
BranchTo(m, cc, to, return) ==
  IF to \in DrZone
  THEN IF NearA6(m) THEN [m EXCEPT !.pc = return] ELSE [Push(m, return, Long) EXCEPT !.pc = m.a[6]]
  ELSE [(IF cc = 1 THEN Push(m, return, Long) ELSE m) EXCEPT !.pc = to]
BranchBy(m, op, x) ==
  IF ~BranchTaken(Field(op, 8, 4), m.ccr) THEN x.m
  ELSE BranchTo(m, Field(op, 8, 4), Plus(m.pc, IF BranchWords(op) = 0 THEN ShortDisplacement(op) ELSE x.v),
                x.m.pc)
Branch(m, op) == BranchBy(m, op, Displacement(m, BranchWords(op)))

Counted(m, op, to, count) ==
  [WriteDn(Skip(m, 2), Rn(op), count, Word) EXCEPT !.pc = IF count # Mod(Word) - 1 THEN to ELSE @]
Dbcc(m, op) ==
  IF DbccMet(Field(op, 8, 4), m.ccr) THEN Skip(m, 2)
  ELSE Counted(m, op, Plus(Plus(m.pc, 2), SExt(FetchWord(m, m.pc), Word)), Lo(m.d[Rn(op)] - 1, Word))

Scc(m, op) ==
  WriteEA(m, Ea(op), Byte, IF SccSet(Field(op, 8, 4), m.ccr) THEN Mod(Byte) - 1 ELSE 0)

----------------------------------------------------------------------------
\* Shifts and bits.

\* The memory form shifts one byte by one; the register form takes its count
\* from the opcode or from a register.
ShiftedByte(x, v, left, carry) ==
  LET r == IF left THEN 2 * v ELSE v \div 2
  IN  WithCcr(WriteByte(x.m, x.v, r),
              SetFlagsFromResult(PutFlag(PutFlag(x.m.ccr, "C", carry), "X", carry), r, Byte))
ShiftByteOf(x, v, left) == ShiftedByte(x, v, left, IF left THEN Sign(v, Byte) ELSE v % 2 = 1)
ShiftByteAt(x, left) == ShiftByteOf(x, ReadByte(x.m, x.v), left)
ShiftMemory(m, op) ==
  IF EaMode(op) \in {0, 1} THEN m ELSE ShiftByteAt(ComputeEA(m, Ea(op)), Bit(op, 8))

ShiftSize(op) == IF Field(op, 6, 2) = 0 THEN Byte ELSE IF Field(op, 6, 2) = 1 THEN Word ELSE Long
ShiftCount(m, op) == IF Bit(op, 5) THEN m.d[Dn(op)] % 64 ELSE QuickData(op)
ShiftedInto(m, r, x, s, count) == WithCcr(WriteDn(m, r, x.v, s), ShiftFlags(m.ccr, x, s, count))
ShiftCounted(m, op, s, count) ==
  ShiftedInto(m, Rn(op), ShiftBy(Lo(m.d[Rn(op)], s), Field(op, 3, 2), Bit(op, 8), s, count), s, count)
ShiftRegister(m, op) == ShiftCounted(m, op, ShiftSize(op), ShiftCount(m, op))

Shift(m, op) ==
  IF Field(op, 11, 1) = 0 /\ Field(op, 6, 2) = 3 THEN ShiftMemory(m, op) ELSE ShiftRegister(m, op)

BitOf(v, n) == (v \div 2 ^ n) % 2 = 1
ChangeBit(v, n, kind) ==
  CASE kind = 0 -> v
    [] kind = 1 -> IF BitOf(v, n) THEN v - 2 ^ n ELSE v + 2 ^ n
    [] kind = 2 -> IF BitOf(v, n) THEN v - 2 ^ n ELSE v
    [] kind = 3 -> IF BitOf(v, n) THEN v ELSE v + 2 ^ n

\* BTST, BCHG, BCLR and BSET of an operand: Z is the complement of the bit.
BitTested(x, n) == WithCcr(x.m, PutFlag(x.m.ccr, "Z", ~BitOf(x.v, n)))
BitIn(x, ea, s, n, kind) ==
  IF kind = 0 THEN BitTested(x, n) ELSE WriteEA(BitTested(x, n), ea, s, ChangeBit(x.v, n, kind))
BitAt(m, ea, s, n, kind) == BitIn(ReadEA(m, ea, s), ea, s, n, kind)

\* The bit operations that fall through group 4: memory is told from a
\* register by the register's number.
BitOperation(m, op) ==
  BitAt(m, Ea(op), IF Field(op, 0, 3) \in {0, 1} THEN Long ELSE Byte,
        (IF Bit(op, 8) THEN m.d[Dn(op)] ELSE Dn(op)) % (B * Long), Field(op, 6, 2))

----------------------------------------------------------------------------
\* Status register, stack pointers, control.

MoveUsp(m, op) ==
  IF Bit(op, 3) THEN [m EXCEPT !.a[Rn(op)] = SP(m)] ELSE SetSP(m, m.a[Rn(op)])

CcrImmediate(m, Calc(_, _)) ==
  LET imm == CcrOf(FetchWord(m, m.pc)) IN WithCcr(Skip(m, 2), Calc(m.ccr, imm))
AndiCcr(m) == CcrImmediate(m, LAMBDA ccr, imm : ccr \cap imm)
OriCcr(m) == CcrImmediate(m, LAMBDA ccr, imm : ccr \cup imm)
EoriCcr(m) == CcrImmediate(m, LAMBDA ccr, imm : (ccr \ imm) \cup (imm \ ccr))
MoveImmCcr(m) == CcrImmediate(m, LAMBDA ccr, imm : imm)

\* The mode follows the S bit; neither stack pointer moves.
WithMode(m) == [m EXCEPT !.sup = m.s]
AndiEoriOriSr(m, kind) ==
  WithMode(WithSr(Skip(m, 2), AluResult(kind, SrWord(m), Lo(FetchWord(m, m.pc), Word))))

Stop(m) == [WithMode(WithSr(Skip(m, 2), Lo(FetchWord(m, m.pc), Word))) EXCEPT !.stopped = TRUE]

MoveImmSr(m) == SetSR(Skip(m, 2), Lo(FetchWord(m, m.pc), Word))

PcFrom(x) == [x.m EXCEPT !.pc = x.v]
PopPc(m) == PcFrom(Pop(m, Long))
SrPopped(x) == [WithSr(x.m, x.v) EXCEPT !.sup = x.v >= Mod(Word) \div 2]

\* Mutant of Rte: the mode and the mask are restored, the flags are not.
RteKeepsFlags(m) ==
  IF ~m.sup THEN RaiseException(m, Vec.privilege)
  ELSE [PopPc([SrPopped(Pop(m, Word)) EXCEPT !.ccr = m.ccr]) EXCEPT !.inint = FALSE]

Rte(m) ==
  IF ~m.sup THEN RaiseException(m, Vec.privilege)
  ELSE [PopPc(SrPopped(Pop(m, Word))) EXCEPT !.inint = FALSE]

CcrFrom(x) == WithCcr(x.m, CcrOf(x.v))
Rtr(m) == PopPc(CcrFrom(Pop(m, Word)))

Trap(m, op) == RaiseException(m, Vec.trap[Field(op, 0, 4)])

ImmediateInto(dst, op, kind, imm, s) == IntoEa(dst.m, op, Calculated(kind, dst.m.ccr, imm, dst.v, s), s)
ImmediateWith(x, op, kind, s) == ImmediateInto(ReadEA(x.m, Ea(op), s), op, kind, x.v, s)
ImmediateAlu(m, op, kind) == ImmediateWith(Immediate(m, DecodeSize(op)), op, kind, DecodeSize(op))

\* A comparison leaves X as it was.
KeepX(m, ccr) == WithCcr(m, PutFlag(m.ccr, "X", "X" \in ccr))
CmpiWith(dst, imm, s) == KeepX(Compare(dst.m, dst.v, imm, s), dst.m.ccr)
CmpiOf(x, op, s) == CmpiWith(ReadEA(x.m, Ea(op), s), x.v, s)
Cmpi(m, op) == CmpiOf(Immediate(m, DecodeSize(op)), op, DecodeSize(op))

\* MOVEP moves every second byte.
Stored(m, at, v, s) ==
  FoldLeft(LAMBDA mm, i : WriteByte(mm, at + 2 * (i - 1), v \div Mod(s - i)), m, [i \in 1 .. s |-> i])
Loaded(m, at, s) ==
  FoldLeft(LAMBDA v, i : v * Mod(Byte) + ReadByte(m, at + 2 * (i - 1)), 0, [i \in 1 .. s |-> i])
MovepAt(m, op, at, s) ==
  IF Bit(op, 7) THEN Stored(m, at, m.d[Dn(op)], s) ELSE WriteDn(m, Dn(op), Loaded(m, at, s), s)
Movep(m, op) ==
  MovepAt(Skip(m, 2), op, Plus(m.a[Rn(op)], SExt(FetchWord(m, m.pc), Word)),
          IF Bit(op, 6) THEN Long ELSE Word)

\* The long form of a product leaves the upper half in a register of its own.
PutProduct(m, w, low, high) ==
  IF Bit(w, 11)
  THEN WithCcr([m EXCEPT !.d[Field(w, 6, 3)] = high, !.d[Field(w, 12, 3)] = low],
         PutFlag(PutFlag(SetFlagsFromResult(m.ccr, low | high, Long), "Z", low = 0 /\ high = 0),
                 "N", Sign(high, Long)))
  ELSE WithCcr([m EXCEPT !.d[Field(w, 12, 3)] = low],
         PutFlag(SetFlagsFromResult(m.ccr, low, Long), "V", high # 0))
Product(dst, src, signed) ==
  IF signed THEN Signed(dst, Word) * Signed(src, Word) ELSE Lo(dst, Word) * src
Multiplied(m, w, prod) == PutProduct(m, w, Lo(prod, Long), Lo(prod \div Mod(Long), Long))
MultiplyBy(src, w) == Multiplied(src.m, w, Product(src.m.d[Field(w, 12, 3)], src.v, Bit(w, 15)))
\* MULx.L: 16 bits of the destination, and the operand behind the opcode if
\* the mode is 7.
MulLong(m, op) ==
  MultiplyBy(IF EaMode(op) = 7 THEN Displacement(Skip(m, 2), Long) ELSE ReadEA(Skip(m, 2), Ea(op), Word),
             FetchWord(m, m.pc))

MulBy(src, op) ==
  [src.m EXCEPT !.d[Dn(op)] = Lo(Product(@, src.v, Bit(op, 8)), Long)]
MulWord(m, op) == MulBy(ReadEA(m, Ea(op), Word), op)

\* The signed form tells an overflow from the sign of the quotient.
Overflows(q, signed) ==
  IF signed THEN q >= Mod(Word) \div 2 \/ q < -(Mod(Word) \div 2) ELSE q >= Mod(Word)
PutQuotient(m, op, a, b, q, signed) ==
  IF Overflows(q, signed) THEN WithCcr(m, m.ccr \cup {"V", "N"})
  ELSE WithCcr([m EXCEPT !.d[Dn(op)] = Lo(RemainderOf(a, b), Word) * Mod(Word) + Lo(q, Word)],
               SetFlagsFromResult(m.ccr, Lo(q, Long), Word))
Divided(m, op, a, b, signed) == PutQuotient(m, op, a, b, QuotientOf(a, b), signed)
DivBy(src, op, signed) ==
  IF src.v = 0 THEN RaiseException(src.m, Vec.zeroDivide)
  ELSE Divided(src.m, op, IF signed THEN Signed(src.m.d[Dn(op)], Long) ELSE src.m.d[Dn(op)],
               IF signed THEN Signed(src.v, Word) ELSE src.v, signed)
Div(m, op, signed) == DivBy(ReadEA(m, Ea(op), Word), op, signed)

\* The exception is raised with the opcode's own address.
Checked(m, val, bound) ==
  IF val \in 0 .. bound THEN WithCcr(m, PutFlag(ClearFlag(m.ccr, "N"), "Z", val = 0))
  ELSE RaiseException(WithCcr([m EXCEPT !.pc = Minus(@, 2)], PutFlag(m.ccr, "N", val < 0)), Vec.chk)
ChkBy(ub, op, s) == Checked(ub.m, Signed(ub.m.d[Dn(op)], s), ub.v)
Chk(m, op) ==
  LET s == IF Bit(op, 7) THEN Long ELSE Word IN ChkBy(ReadEA(m, Ea(op), s), op, s)

ExtendBit(m) == IF "X" \in m.ccr THEN 1 ELSE 0

\* The operands of ABCD, SBCD, ADDX and SUBX: two registers, or memory under
\* two address registers, each decremented first.
Decremented(m, r, s) == [m EXCEPT !.a[r] = Minus(@, s)]
InRegister(m, r, s) == IF s = Byte THEN Lo(m.d[r], s) ELSE m.d[r]
BothRead(m, op, src, s) == [m |-> m, src |-> src, dst |-> Read(m, m.a[Dn(op)], s)]
SourceRead(m, op, s) == BothRead(Decremented(m, Dn(op), s), op, Read(m, m.a[Rn(op)], s), s)
PairOperands(m, op, s) ==
  IF Bit(op, 3) THEN SourceRead(Decremented(m, Rn(op), s), op, s)
  ELSE [m |-> m, src |-> InRegister(m, Rn(op), s), dst |-> InRegister(m, Dn(op), s)]

PairResult(m, op, s, r) ==
  IF Bit(op, 3) THEN Write(m, m.a[Dn(op)], r, s)
  ELSE IF s = Byte THEN WriteDn(m, Dn(op), r, s) ELSE [m EXCEPT !.d[Dn(op)] = r]

\* ABCD or SBCD of the operands, and the flags.
DecimalInto(p, op, r) == PairResult(WithCcr(p.m, BcdFlags(p.m.ccr, r)), op, Byte, r.v)
DecimalOf(p, op, add, x) ==
  DecimalInto(p, op, IF add THEN AbcdResult(p.dst, p.src, x) ELSE SbcdResult(p.dst, p.src, x))
Abcd(m, op) == DecimalOf(PairOperands(m, op, Byte), op, TRUE, ExtendBit(m))

Sbcd(m, op) == DecimalOf(PairOperands(m, op, Byte), op, FALSE, ExtendBit(m))

NbcdInto(x, op, r) == WriteEA(WithCcr(x.m, NbcdFlags(x.m.ccr, r)), Ea(op), Byte, r.v)
NbcdOf(x, op) == NbcdInto(x, op, SbcdResult(0, x.v, ExtendBit(x.m)))
Nbcd(m, op) == NbcdOf(ReadEA(m, Ea(op), Byte), op)

ExtendSize(op) == IF Field(op, 6, 2) = 1 THEN Word ELSE Long

\* ADDX or SUBX of the operands, and the flags.
ExtendedInto(p, op, r, overflow, s) == PairResult(WithCcr(p.m, ExtendFlags(p.m.ccr, r, overflow)), op, s, r.v)
AddxInto(p, op, r, s) == ExtendedInto(p, op, r, AddxOverflow(p.dst, p.src, r.v, s), s)
AddxOf(p, op, s) == AddxInto(p, op, AddxResult(p.dst, p.src, ExtendBit(p.m)), s)
Addx(m, op) == AddxOf(PairOperands(m, op, ExtendSize(op)), op, ExtendSize(op))

SubxInto(p, op, r, s) == ExtendedInto(p, op, r, SubxOverflow(p.dst, p.src, r.v, s), s)
SubxOf(p, op, s) == SubxInto(p, op, SubxResult(p.dst, p.src, ExtendBit(p.m)), s)
Subx(m, op) == SubxOf(PairOperands(m, op, ExtendSize(op)), op, ExtendSize(op))

\* ADDA and SUBA: the whole address register, without flags.
IntoAddress(src, op, kind) == WriteAn(src.m, Dn(op), AluResult(kind, An(src.m, Dn(op)), src.v))
AddressAlu(m, op, kind) ==
  LET s == IF Field(op, 6, 3) = 3 THEN Word ELSE Long
  IN  IntoAddress(SignedWord(ReadEA(m, Ea(op), s), s), op, kind)
=============================================================================
