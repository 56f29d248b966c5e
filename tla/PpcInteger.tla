----------------------------- MODULE PpcInteger -----------------------------
(***************************************************************************)
(* The integer, branch, storage and system instructions of the PowerPC     *)
(* interpreter (src/cpu/interpreter.c, PpcExecuteInstruction), the ones of *)
(* the 601 that came from POWER included.  An instruction is a record of   *)
(* its fields: op, t (also the source of a store), a, b, imm, sh, mb, me,  *)
(* oe, rc, lk, aa, upd (the form that writes the address back to a), bo,   *)
(* bi, bf, bfa, spr, fxm, to.  In m.next stands the address the next       *)
(* instruction is taken from.                                              *)
(***************************************************************************)
EXTENDS PpcMachine

CONSTANTS
  ConsolePoll,    \* 0x40B26500, the instruction that polls the console
  ConsolePut,     \* 0x40B264D8 to 0x40B26560, the code that writes to it
  ConsoleDevice   \* 0x100, the top of the console's registers

\* The operands.
Rs(m, i) == m.gpr[i.t]
Ra(m, i) == m.gpr[i.a]
Rb(m, i) == m.gpr[i.b]
Simm(i) == Wrap(SignedIn(i.imm % Half, 2 * B))
Uimm(i) == i.imm % Half
Cin(m) == BitAt(m.xer, CA)

EaD(m, i) == Wrap((IF i.a = 0 THEN 0 ELSE Ra(m, i)) + Simm(i))
EaX(m, i) == Wrap((IF i.a = 0 THEN 0 ELSE Ra(m, i)) + Rb(m, i))

Put(m, r, v) == [m EXCEPT !.gpr[r] = v]
Result(m, i, r, v) == IF i.rc THEN SetCr0(Put(m, r, v), v) ELSE Put(m, r, v)

----------------------------------------------------------------------------
\* Sums: s is what DoAdd gives; Overflows sets the overflow where the
\* instruction asks for it.

Overflows(m, i, ov) == IF i.oe THEN SetXerOverflow(m, ov) ELSE m
Plain(m, i, s) == Result(Overflows(m, i, s.ov), i, i.t, s.r)
Carrying(m, i, s) == Plain(SetXerCarry(m, s.ca), i, s)

Subfc(m, i) == Carrying(m, i, DoAdd(Inv(Ra(m, i)), Rb(m, i), 1))
Addc(m, i) == Carrying(m, i, DoAdd(Ra(m, i), Rb(m, i), 0))
Subf(m, i) == Plain(m, i, DoAdd(Inv(Ra(m, i)), Rb(m, i), 1))
Neg(m, i) == Carrying(m, i, DoAdd(Inv(Ra(m, i)), 0, 1))
Subfe(m, i) == Carrying(m, i, DoAdd(Inv(Ra(m, i)), Rb(m, i), Cin(m)))
\* Mutant of Adde: the carry of the step before is lost.
AddeWithoutCarry(m, i) == Carrying(m, i, DoAdd(Ra(m, i), Rb(m, i), 0))
Adde(m, i) == Carrying(m, i, DoAdd(Ra(m, i), Rb(m, i), Cin(m)))
Subfze(m, i) == Carrying(m, i, DoAdd(Inv(Ra(m, i)), 0, Cin(m)))
Addze(m, i) == Carrying(m, i, DoAdd(Ra(m, i), 0, Cin(m)))
Subfme(m, i) == Carrying(m, i, DoAdd(Inv(Ra(m, i)), Word - 1, Cin(m)))
Addme(m, i) == Carrying(m, i, DoAdd(Ra(m, i), Word - 1, Cin(m)))
Add(m, i) == Plain(m, i, DoAdd(Ra(m, i), Rb(m, i), 0))

\* subfic takes the carry from the difference, where it is a borrow, so that
\* subfze after it is off by one or the other.
Subfic(m, i) ==
  SetXerCarry(Put(m, i.t, Wrap(Simm(i) - Ra(m, i))), DoSub(Ra(m, i), Simm(i), 0).ca)
\* addic and addic.
Addic(m, i) ==
  LET s == DoAdd(Ra(m, i), Simm(i), 0) IN Result(SetXerCarry(m, s.ca), i, i.t, s.r)
Addi(m, i) == Put(m, i.t, EaD(m, i))
Addis(m, i) == Put(m, i.t, Wrap((IF i.a = 0 THEN 0 ELSE Ra(m, i)) + (Simm(i) % Half) * Half))

----------------------------------------------------------------------------
\* Products and quotients; MQ is the special register 0.

Mulli(m, i) == Put(m, i.t, SignedProduct(Ra(m, i), Simm(i))[2])
Mulhwu(m, i) == Result(m, i, i.t, Product(Ra(m, i), Rb(m, i))[1])
Mulhw(m, i) == Result(m, i, i.t, SignedProduct(Ra(m, i), Rb(m, i))[1])
\* Overflow is looked for in the high word alone.
HighIsSign(p) == p[1] \in {0, Word - 1}
LowWord(m, i, p) == Result(Overflows(m, i, ~HighIsSign(p)), i, i.t, p[2])
Mullw(m, i) == LowWord(m, i, SignedProduct(Ra(m, i), Rb(m, i)))

\* The POWER forms record the low word, or the remainder.
PutMq(m, i, rt, mq) ==
  PutSpr(IF i.rc THEN SetCr0(Put(m, i.t, rt), mq) ELSE Put(m, i.t, rt), SPR_MQ, mq)
BothWords(m, i, p) == PutMq(Overflows(m, i, ~HighIsSign(p)), i, p[1], p[2])
Mul(m, i) == BothWords(m, i, SignedProduct(Ra(m, i), Rb(m, i)))
Quotient(m, i, ov, d) == PutMq(Overflows(m, i, ov \/ ~FitsWord(d.q)), i, d.q[2], d.r)
Div(m, i) ==
  LET d == <<Ra(m, i), SprValue(m, SPR_MQ)>>
  IN  IF Rb(m, i) = 0 THEN PutMq(Overflows(m, i, TRUE), i, 0, 0)
      ELSE Quotient(m, i, Rb(m, i) = Word - 1 /\ d = WideD(Top), DivideD(d, Rb(m, i)))
Divs(m, i) ==
  IF Rb(m, i) = 0 \/ (Rb(m, i) = Word - 1 /\ Ra(m, i) = Top) THEN PutMq(Overflows(m, i, TRUE), i, Top, 0)
  ELSE Quotient(m, i, FALSE, DivideD(WideD(Ra(m, i)), Rb(m, i)))
Divwu(m, i) ==
  Result(m, i, i.t, IF Rb(m, i) = 0 THEN 0 ELSE QuotientD(<<0, Ra(m, i)>>, Rb(m, i)).q[2])
\* A divisor of zero leaves the overflow as it was, and so does a quotient.
Divw(m, i) ==
  IF Rb(m, i) = 0 THEN Result(m, i, i.t, 0)
  ELSE IF Ra(m, i) = Top /\ Rb(m, i) = Word - 1 THEN Result(Overflows(m, i, TRUE), i, i.t, Top)
  ELSE Result(m, i, i.t, DivideD(WideD(Ra(m, i)), Rb(m, i)).q[2])

Magnitude(v) == Wrap(IF Negative(v) THEN Word - v ELSE v)
AbsOp(m, i) == Result(Overflows(m, i, Ra(m, i) = Top), i, i.t, Magnitude(Ra(m, i)))
Nabs(m, i) ==
  Result(IF i.oe THEN [m EXCEPT !.xer = PutBit(m.xer, OV, FALSE)] ELSE m, i, i.t,
         Wrap(Word - Magnitude(Ra(m, i))))
\* The difference, or zero.
Doz(m, i) ==
  LET diff == Signed(Rb(m, i)) - Signed(Ra(m, i))
  IN  Result(Overflows(m, i, diff > Top - 1), i, i.t, IF diff < 0 THEN 0 ELSE Wrap(diff))
Dozi(m, i) ==
  LET diff == Signed(Simm(i)) - Signed(Ra(m, i)) IN Put(m, i.t, IF diff < 0 THEN 0 ELSE Wrap(diff))

----------------------------------------------------------------------------
\* Logic, rotations and shifts: the source is t, the target a.

AndOp(m, i) == Result(m, i, i.a, Rs(m, i) & Rb(m, i))
Andc(m, i) == Result(m, i, i.a, Rs(m, i) & Inv(Rb(m, i)))
Nor(m, i) == Result(m, i, i.a, Inv(Rs(m, i) | Rb(m, i)))
Eqv(m, i) == Result(m, i, i.a, Inv(Rs(m, i) ^^ Rb(m, i)))
XorOp(m, i) == Result(m, i, i.a, Rs(m, i) ^^ Rb(m, i))
Orc(m, i) == Result(m, i, i.a, Rs(m, i) | Inv(Rb(m, i)))
OrOp(m, i) == Result(m, i, i.a, Rs(m, i) | Rb(m, i))
Nand(m, i) == Result(m, i, i.a, Inv(Rs(m, i) & Rb(m, i)))

\* The immediate forms, low or shifted to the high half; the and's record.
LogicImmediate(m, i) ==
  LET v == IF i.op \in {"oris", "xoris", "andis."} THEN Uimm(i) * Half ELSE Uimm(i)
  IN  CASE i.op \in {"ori", "oris"} -> Put(m, i.a, Rs(m, i) | v)
        [] i.op \in {"xori", "xoris"} -> Put(m, i.a, Rs(m, i) ^^ v)
        [] i.op \in {"andi.", "andis."} -> SetCr0(Put(m, i.a, Rs(m, i) & v), Rs(m, i) & v)

Insert(old, new, mask) == (old & Inv(mask)) | (new & mask)
Rlwimi(m, i) == Result(m, i, i.a, Insert(Ra(m, i), Rotl(Rs(m, i), i.sh), RotMask(i.mb, i.me)))
Rlwinm(m, i) == Result(m, i, i.a, Rotl(Rs(m, i), i.sh) & RotMask(i.mb, i.me))
Rlwnm(m, i) == Result(m, i, i.a, Rotl(Rs(m, i), Rb(m, i)) & RotMask(i.mb, i.me))

Slw(m, i) ==
  Result(m, i, i.a, IF TooFar(Rb(m, i)) THEN 0
                    ELSE (Rs(m, i) % Pow(W - (Rb(m, i) % W))) * Pow(Rb(m, i) % W))
Srw(m, i) ==
  Result(m, i, i.a, IF TooFar(Rb(m, i)) THEN 0 ELSE Rs(m, i) \div Pow(Rb(m, i) % W))
ShiftAlgebraic(m, i, count) ==
  LET s == Sraw(Rs(m, i), count) IN Result(SetXerCarry(m, s.ca), i, i.a, s.r)
SrawOp(m, i) == ShiftAlgebraic(m, i, Rb(m, i))
Srawi(m, i) == ShiftAlgebraic(m, i, i.sh)
Cntlzw(m, i) == Result(m, i, i.a, LeadingZeros(Rs(m, i), W))
Extsh(m, i) == Result(m, i, i.a, Extend(Rs(m, i), 2 * B))
Extsb(m, i) == Result(m, i, i.a, Extend(Rs(m, i), B))

\* POWER: a mask from registers, an insertion under a mask, one bit.
Maskg(m, i) == Result(m, i, i.a, RotMask(Rs(m, i) % W, Rb(m, i) % W))
Maskir(m, i) == Result(m, i, i.a, Insert(Ra(m, i), Rs(m, i), Rb(m, i)))
Rrib(m, i) == Result(m, i, i.a, PutBit(Ra(m, i), W - 1 - (Rb(m, i) % W), Negative(Rs(m, i))))

----------------------------------------------------------------------------
\* Comparisons, the condition register, branches and traps.

Cmp(m, i) == DoCompare(m, i.bf, Ra(m, i), Rb(m, i), TRUE)
Cmpl(m, i) == DoCompare(m, i.bf, Ra(m, i), Rb(m, i), FALSE)
Cmpli(m, i) == DoCompare(m, i.bf, Ra(m, i), Uimm(i), FALSE)
Cmpi(m, i) == DoCompare(m, i.bf, Ra(m, i), Simm(i), TRUE)

Mcrf(m, i) == SetCrField(m, i.bf, GetCrField(m, i.bfa))
\* The flags of the XER move, and are cleared there.
Mcrxr(m, i) == [SetCrField(m, i.bf, m.xer \div Pow(W - 4)) EXCEPT !.xer = m.xer % Pow(W - 4)]
CrLogic(m, i) ==
  LET x == BitAt(m.cr, W - 1 - i.a)
      y == BitAt(m.cr, W - 1 - i.b)
      r == CASE i.op = "crnor"  -> x + y = 0
             [] i.op = "crandc" -> x = 1 /\ y = 0
             [] i.op = "crxor"  -> x # y
             [] i.op = "crnand" -> x + y < 2
             [] i.op = "crand"  -> x + y = 2
             [] i.op = "creqv"  -> x = y
             [] i.op = "crorc"  -> x = 1 \/ y = 0
             [] i.op = "cror"   -> x + y > 0
  IN  [m EXCEPT !.cr = PutBit(m.cr, W - 1 - i.t, r)]

\* The fields a mask names; one alone is repeated over the whole word.
FieldsIn(fxm) == {f \in 0 .. CrFields - 1 : BitAt(fxm, CrFields - 1 - f) = 1}
Mfcr(m, i) ==
  LET fields == FieldsIn(i.fxm)
      one    == GetCrField(m, CHOOSE f \in fields : TRUE)
  IN  Put(m, i.t,
        IF fields \in {{}, 0 .. CrFields - 1} THEN m.cr
        ELSE FoldLeft(LAMBDA v, f : IF Cardinality(fields) = 1 THEN PutField(v, f - 1, one)
                                    ELSE IF f - 1 \in fields THEN PutField(v, f - 1, GetCrField(m, f - 1)) ELSE v,
                      0, [f \in 1 .. CrFields |-> f]))
Mtcrf(m, i) ==
  FoldLeft(LAMBDA x, f : IF f - 1 \in FieldsIn(i.fxm) THEN SetCrField(x, f - 1, FieldOf(Rs(m, i), f - 1)) ELSE x,
           m, [f \in 1 .. CrFields |-> f])

Linked(m, i) == IF i.lk THEN [m EXCEPT !.lr = Wrap(m.pc + 4)] ELSE m
Target(m, i) == Wrap(IF i.aa THEN i.imm ELSE m.pc + i.imm)
Follow(b, target) == IF b.taken THEN [b.m EXCEPT !.next = target] ELSE b.m
Bc(m, i) == Follow(BranchTaken(Linked(m, i), i.bo, i.bi), Target(m, i))
Branch(m, i) == [Linked(m, i) EXCEPT !.next = Target(m, i)]
\* The target is the register before the link.
Bclr(m, i) == Follow(BranchTaken(Linked(m, i), i.bo, i.bi), m.lr)
\* The condition is evaluated twice, the second time for a diagnostic.
Again(b, i) == [b EXCEPT !.m = BranchTaken(b.m, i.bo, i.bi).m]
Bcctr(m, i) == Follow(Again(BranchTaken(Linked(m, i), i.bo, i.bi), i), m.ctr)

Trap(m, i, x, y) == IF TrapCondition(i.to, x, y) THEN Raise(m, "trap", m.pc) ELSE m
Twi(m, i) == Trap(m, i, Ra(m, i), Simm(i))
Tw(m, i) == Trap(m, i, Ra(m, i), Rb(m, i))
\* The saved state is kept while an exception with interrupts on is open.
SystemCall(m, i) ==
  LET keep == ~On(m, EE) /\ BitAt(m.srr1, EE) = 1
  IN  [Raise(m, "system call", Wrap(m.pc + 4)) EXCEPT !.srr1 = IF keep THEN m.srr1 ELSE m.msr]

----------------------------------------------------------------------------
\* Loads and stores.

Load(m, i, ea, v) == IF i.upd THEN Put(Put(m, i.t, v), i.a, ea) ELSE Put(m, i.t, v)
Back(m, i, ea) == IF i.upd THEN Put(m, i.a, ea) ELSE m
StoreWord(m, i, ea) == Back(Write32(m, ea, Rs(m, i)), i, ea)
StoreHalf(m, i, ea) == Back(Write16(m, ea, Rs(m, i)), i, ea)
StoreByte(m, i, ea) == Back(MmuWriteByte(m, ea, Rs(m, i)), i, ea)

Lwz(m, i) == Load(m, i, EaD(m, i), Read32(m, EaD(m, i)))
\* The console is always ready.
Lbz(m, i) ==
  Load(m, i, EaD(m, i), IF m.pc = ConsolePoll /\ ~i.upd THEN 4 ELSE MmuReadByte(m, EaD(m, i)))
Stw(m, i) == StoreWord(m, i, EaD(m, i))
\* What the console is given is printed, and not stored.
Stb(m, i) ==
  IF ~i.upd /\ m.pc \in ConsolePut /\ EaD(m, i) < ConsoleDevice THEN m ELSE StoreByte(m, i, EaD(m, i))
Algebraic(i, v) == IF i.op = "lha" THEN Extend(v, 2 * B) ELSE v
LhzLha(m, i) == Load(m, i, EaD(m, i), Algebraic(i, Read16(m, EaD(m, i))))
Sth(m, i) == StoreHalf(m, i, EaD(m, i))
\* From the register up to the last one.
Lmw(m, i) ==
  FoldLeft(LAMBDA x, r : Put(x, r, Read32(x, Wrap(EaD(m, i) + 4 * (r - i.t)))), m,
           [k \in 1 .. 32 - i.t |-> i.t + k - 1])
Stmw(m, i) ==
  FoldLeft(LAMBDA x, r : Write32(x, Wrap(EaD(m, i) + 4 * (r - i.t)), x.gpr[r]), m,
           [k \in 1 .. 32 - i.t |-> i.t + k - 1])

\* lwarx and lwzx; no reservation is made.
LwarxLwzx(m, i) == Load(m, i, EaX(m, i), Read32(m, EaX(m, i)))
Lbzx(m, i) == Load(m, i, EaX(m, i), MmuReadByte(m, EaX(m, i)))
Lhzx(m, i) == Load(m, i, EaX(m, i), Read16(m, EaX(m, i)))
Lhax(m, i) == Load(m, i, EaX(m, i), Extend(Read16(m, EaX(m, i)), 2 * B))
\* The conditional store always stores.
Stwcx(m, i) == SetCrField(StoreWord(m, [i EXCEPT !.upd = FALSE], EaX(m, i)), 0, CrEq)
Stwx(m, i) == StoreWord(m, i, EaX(m, i))
Stbx(m, i) == StoreByte(m, i, EaX(m, i))
Sthx(m, i) == StoreHalf(m, i, EaX(m, i))
Eciwx(m, i) == Put(m, i.t, Read32(m, EaX(m, i)))
Ecowx(m, i) == Write32(m, EaX(m, i), Rs(m, i))
Lwbrx(m, i) == Put(m, i.t, ReadRev(m, EaX(m, i), 4))
Lhbrx(m, i) == Put(m, i.t, ReadRev(m, EaX(m, i), 2))
Stwbrx(m, i) == WriteRev(m, EaX(m, i), Rs(m, i), 4)
Sthbrx(m, i) == WriteRev(m, EaX(m, i), Rs(m, i) % Half, 2)

\* The count of lswx and stswx is the top of the XER; lswi and stswi take
\* the low half of the instruction, count and opcode, as a displacement.
XerCount(m) == m.xer \div Pow(W - 7)
StringEa(m, i, xo) == Wrap((IF i.a = 0 THEN 0 ELSE Ra(m, i)) + SignedIn(i.sh * 2048 + 2 * xo, 16))
Lswx(m, i) == LoadString(m, i.t, EaX(m, i), XerCount(m))
Lswi(m, i) == LoadString(m, i.t, StringEa(m, i, 597), i.sh)
Stswx(m, i) == StoreString(m, i.t, EaX(m, i), XerCount(m))
Stswi(m, i) == StoreString(m, i.t, StringEa(m, i, 725), i.sh)
Dcbz(m, i) ==
  LET line == EaX(m, i) - (EaX(m, i) % 32)
  IN  FoldLeft(LAMBDA x, k : MmuWriteByte(x, line + k - 1, 0), m, [k \in 1 .. 32 |-> k])

----------------------------------------------------------------------------
\* Registers of the system.

Mtmsr(m, i) == MtMsr(m, Rs(m, i))
Mfspr(m, i) == Put(m, i.t, MfSpr(m, i.spr))
Mtspr(m, i) == MtSpr(m, i.spr, Rs(m, i))
Mftb(m, i) == Put(m, i.t, IF i.spr = SPR_TBU THEN m.tbu ELSE m.tbl)
Mtsrin(m, i) == PutSr(m, Rb(m, i) % 16, Rs(m, i))
Mfsr(m, i) == Put(m, i.t, m.sr[i.sh])
Mtsr(m, i) == PutSr(m, i.sh, Rs(m, i))
Mfsrin(m, i) == Put(m, i.t, m.sr[Rb(m, i) % 16])
Mfmsr(m, i) == Put(m, i.t, m.msr)

=============================================================================
