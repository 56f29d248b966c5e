---------------------------- MODULE M68kMachine -----------------------------
(***************************************************************************)
(* The state of the 68K interpreter (src/cpu/m68k.c, g_M68kContext) as one *)
(* record, memory included.  First its arithmetic: operands of one, two    *)
(* and four bytes, the condition codes an operation leaves, the conditions *)
(* of Bcc, DBcc and Scc, shifts, and the decimal and extended operations.  *)
(* Then the helpers every instruction is made of: reads, writes and        *)
(* fetches, the two stack pointers, effective addresses and exceptions.  A *)
(* helper takes a machine and returns the machine it leaves, with the      *)
(* value it delivers where there is one.  A byte has B bits (8 in the      *)
(* program): every mask and sign bit of the code is a function of B, so    *)
(* that the same definitions can be checked on all operands of a smaller   *)
(* machine.  The condition codes are the set of the flags that are on.     *)
(***************************************************************************)
EXTENDS Integers, Bitwise, Sequences, FiniteSets, SequencesExt


CONSTANT B    \* bits per byte

ASSUME BitsAssumption == B \in Nat /\ B > 1 /\ B <= 8

Flags == {"X", "N", "Z", "V", "C"}

Byte == 1
Word == 2
Long == 4
Sizes == {Byte, Word, Long}

Mod(s) == 2 ^ (B * s)
Lo(v, s) == v % Mod(s)
Sign(v, s) == Lo(v, s) >= Mod(s) \div 2
SignedOf(x, s) == IF x >= Mod(s) \div 2 THEN x - Mod(s) ELSE x
Signed(v, s) == SignedOf(Lo(v, s), s)
SExt(v, s) == Lo(Signed(v, s), Long)

\* (Old & ~Mask) | (Value & Mask): a register keeps its upper part.
Merge(old, v, s) == old - Lo(old, s) + Lo(v, s)

Plus(x, y) == Lo(x + y, Long)
Minus(x, y) == Lo(x - y, Long)

\* The n bits of an opcode from bit at upwards.
Field(op, at, n) == (op \div 2 ^ at) % 2 ^ n
Bit(op, at) == Field(op, at, 1) = 1

SetFlag(ccr, f) == ccr \cup {f}
ClearFlag(ccr, f) == ccr \ {f}
PutFlag(ccr, f, on) == IF on THEN SetFlag(ccr, f) ELSE ClearFlag(ccr, f)

----------------------------------------------------------------------------

\* N and Z of the result at its size; V is cleared, C is the caller's.
SetFlagsFromResult(ccr, result, s) ==
  ClearFlag(PutFlag(PutFlag(ccr, "N", Sign(result, s)), "Z", Lo(result, s) = 0), "V")

\* C and X come on when the 32-bit sum has bits above the operand's size;
\* when it has none only C goes off.
SetFlagsFromAdd(ccr, result, src, dst, s) ==
  PutFlag(SetFlagsFromResult(IF result >= Mod(s) THEN ccr \cup {"C", "X"} ELSE ClearFlag(ccr, "C"), result, s),
          "V", Sign(src, s) = Sign(dst, s) /\ Sign(src, s) # Sign(result, s))

Borrowed(ccr, borrow) == IF borrow THEN ccr \cup {"C", "X"} ELSE ccr \ {"C", "X"}

\* Mutant of SetFlagsFromSub: the overflow is taken from the sum's rule.
SubOverflowAsSum(ccr, result, src, dst, s) ==
  PutFlag(SetFlagsFromResult(Borrowed(ccr, IF s = Long THEN dst < src ELSE result >= Mod(s)), result, s),
          "V", Sign(src, s) = Sign(dst, s) /\ Sign(src, s) # Sign(result, s))

SetFlagsFromSub(ccr, result, src, dst, s) ==
  PutFlag(SetFlagsFromResult(Borrowed(ccr, IF s = Long THEN dst < src ELSE result >= Mod(s)), result, s),
          "V", Sign(src, s) # Sign(dst, s) /\ Sign(dst, s) # Sign(result, s))

\* What MOVE, AND, OR, CLR, TST and the like leave.
LogicFlags(ccr, result, s) == SetFlagsFromResult(ccr, result, s) \ {"C", "V"}

----------------------------------------------------------------------------

\* The entries that the condition tables of Bcc, DBcc and Scc share.
Condition(cc, ccr) ==
  LET n == "N" \in ccr  z == "Z" \in ccr  v == "V" \in ccr  c == "C" \in ccr
  IN  CASE cc = 2  -> ~c /\ ~z
        [] cc = 3  -> c \/ z
        [] cc = 4  -> ~c
        [] cc = 5  -> c
        [] cc = 6  -> ~z
        [] cc = 7  -> z
        [] cc = 8  -> ~v
        [] cc = 9  -> v
        [] cc = 12 -> (n = v) /\ ~z
        [] cc = 13 -> (n # v) \/ z
        [] cc = 14 -> n = v
        [] cc = 15 -> n # v

BranchTaken(cc, ccr) ==
  IF cc \in {0, 1} THEN TRUE
  ELSE IF cc = 10 THEN ("N" \in ccr) = ("V" \in ccr)
  ELSE IF cc = 11 THEN ("N" \in ccr) # ("V" \in ccr)
  ELSE Condition(cc, ccr)

\* The sign alone decides conditions 10 and 11 of DBcc and Scc.
SignCondition(cc, ccr) ==
  IF cc = 10 THEN "N" \notin ccr
  ELSE IF cc = 11 THEN "N" \in ccr
  ELSE Condition(cc, ccr)

DbccMet(cc, ccr) == IF cc \in {0, 1} THEN cc = 1 ELSE SignCondition(cc, ccr)

SccSet(cc, ccr) == IF cc \in {0, 1} THEN cc = 0 ELSE SignCondition(cc, ccr)

----------------------------------------------------------------------------

\* One turn of the loop of a shift; kinds 0 and 1 shift zeros in, on the
\* right too, and kinds 2 and 3 rotate.
ShiftOnce(v, kind, left, s) ==
  LET carry == IF left THEN Sign(v, s) ELSE v % 2 = 1
      moved == IF left THEN Lo(2 * v, s) ELSE v \div 2
      back  == IF left THEN 1 ELSE Mod(s) \div 2
  IN  [v |-> IF kind >= 2 /\ carry THEN moved + back ELSE moved, carry |-> carry]

ShiftBy(v, kind, left, s, count) ==
  LET after[i \in 0 .. count] ==
        IF i = 0 THEN [v |-> v, carry |-> FALSE]
        ELSE ShiftOnce(after[i - 1].v, kind, left, s)
  IN  after[count]

ShiftFlags(ccr, r, s, count) ==
  SetFlagsFromResult(
    IF count = 0 THEN ClearFlag(ccr, "C")
    ELSE PutFlag(PutFlag(ccr, "C", r.carry), "X", r.carry), r.v, s)

----------------------------------------------------------------------------

\* A byte of two decimal digits, half a byte each: 9, 6 and 0x99 when a
\* byte has eight bits.
Nibble == 2 ^ (B \div 2)
MaxDigit == (5 * Nibble) \div 8 - 1
Correction == Nibble - 1 - MaxDigit
DecimalLimit == MaxDigit * Nibble + MaxDigit

\* ABCD, SBCD and NBCD: the sum or difference before and after it is put
\* right; the machine integer is wider than a byte and may be negative.
AbcdResult(dst, src, x) ==
  LET t0 == dst + src + x
      t1 == IF t0 % Nibble > MaxDigit \/ (dst % Nibble) + (src % Nibble) + x > MaxDigit
            THEN t0 + Correction ELSE t0
  IN  [v |-> Lo(IF t1 > DecimalLimit THEN t1 + Correction * Nibble ELSE t1, Byte),
       carry |-> t1 > DecimalLimit]

SbcdResult(dst, src, x) ==
  LET t0 == dst - src - x
      t1 == IF t0 % Nibble > MaxDigit THEN t0 - Correction ELSE t0
  IN  [v |-> Lo(t1, Byte), carry |-> t1 > DecimalLimit]

NbcdFlags(ccr, r) == PutFlag(PutFlag(ccr, "C", r.carry), "Z", r.v = 0)
BcdFlags(ccr, r) == PutFlag(NbcdFlags(ccr, r), "X", r.carry)

\* ADDX and SUBX work on 32 bits whatever the size; the size selects the
\* bit that V is taken from.
SubxResult(dst, src, x) == [v |-> Lo(dst - src - x, Long), carry |-> dst - src - x < 0]
AddxResult(dst, src, x) == [v |-> Lo(dst + src + x, Long), carry |-> dst + src + x >= Mod(Long)]

\* (Dst ^ Src) & (Dst ^ Result) shifted right by the sign's position is not 0.
SubxOverflow(dst, src, r, s) ==
  ((dst ^^ src) & (dst ^^ r)) \div (Mod(s) \div 2) # 0

\* ~(Dst ^ Src) & ((Dst ^ Result) >> N): the shift binds before the and.
AddxOverflow(dst, src, r, s) ==
  ((Mod(Long) - 1 - (dst ^^ src)) & ((dst ^^ r) \div (Mod(s) \div 2))) # 0

ExtendFlags(ccr, r, overflow) ==
  LET c == PutFlag(PutFlag(ccr, "C", r.carry), "X", r.carry)
  IN  PutFlag(PutFlag(PutFlag(c, "V", overflow), "N", Sign(r.v, Long)), "Z", r.v = 0)

\* C division truncates toward zero.
QuotientOf(a, b) ==
  LET q == (IF a < 0 THEN -a ELSE a) \div (IF b < 0 THEN -b ELSE b)
  IN  IF (a < 0) = (b < 0) THEN q ELSE -q
RemainderOf(a, b) == a - b * QuotientOf(a, b)

----------------------------------------------------------------------------

CONSTANTS
  Ram,          \* the addresses of bytes that can be written
  Code,         \* the program: a function from even addresses to words
  RomAlias,     \* the aliases of ROM bytes: a function to the ROM's addresses
  Vec,          \* the addresses of the exception vectors, by name
  Guards,       \* the guard values 0x68F168F1 and 0xD1E2D1E2
  VectorGuard,  \* the value 0x80000000 that the alias bank leaves in a vector
  LowVectors,   \* the addresses below 0x400
  FirstPage,    \* the addresses below 0x1000
  LowMemory,    \* the addresses below 0x10000
  LowRam,       \* the addresses below 0x100000
  RomCode,      \* the addresses at which ROM code is accepted
  DrZone,       \* M68kIsDrEmulatorAddress
  DrThunk,      \* the addresses of the thunk markers at the top
  PingPongGap,  \* 0x80
  Site          \* the addresses that the interpreter treats by name

ASSUME MachineAssumption ==
  /\ \A a \in Ram : a \in 0 .. Mod(Long) - 1
  /\ \A a \in DOMAIN Code : a % 2 = 0 /\ Code[a] \in 0 .. 65535

----------------------------------------------------------------------------
\* Memory.

\* An address no region holds reads as zero.
ByteOf(m, a) == IF a \in Ram THEN m.mem[a] ELSE 0
GuestByte(m, a) == ByteOf(m, Lo(a, Long))

\* Only single bytes are taken from the aliased ROM.
Unaliased(a) == IF a \in DOMAIN RomAlias THEN RomAlias[a] ELSE a
ReadByte(m, a) == ByteOf(m, Unaliased(Lo(a, Long)))

ReadWord(m, a) == GuestByte(m, a) * Mod(Byte) + GuestByte(m, a + 1)
ReadLong(m, a) == ReadWord(m, a) * Mod(Word) + ReadWord(m, a + 2)

PutByte(m, a, v) == IF a \in Ram THEN [m EXCEPT !.mem[a] = Lo(v, Byte)] ELSE m
WriteByte(m, a, v) == PutByte(m, Lo(a, Long), v)
WriteWord(m, a, v) == WriteByte(WriteByte(m, a, v \div Mod(Byte)), a + 1, v)

\* The guard values never reach the first 64K.
WriteLong(m, a, v) ==
  IF v \in Guards /\ a \in LowMemory THEN m
  ELSE WriteWord(WriteWord(m, a, v \div Mod(Word)), a + 2, Lo(v, Word))

Read(m, a, s) ==
  IF s = Byte THEN ReadByte(m, a) ELSE IF s = Word THEN ReadWord(m, a) ELSE ReadLong(m, a)
Write(m, a, v, s) ==
  IF s = Byte THEN WriteByte(m, a, v)
  ELSE IF s = Long THEN WriteLong(m, a, v) ELSE WriteWord(m, a, Lo(v, Word))

\* An opcode or extension word; the words of the program are kept apart from
\* the data, as 16 bits whatever B is.
WordAt(m, a) == IF a \in DOMAIN Code THEN Code[a] ELSE ReadWord(m, a)
FetchWord(m, a) == WordAt(m, Lo(a, Long))
FetchLong(m, a) == Lo(FetchWord(m, a), Word) * Mod(Word) + Lo(FetchWord(m, a + 2), Word)

Skip(m, n) == [m EXCEPT !.pc = Plus(m.pc, n)]

\* Bytes take up two in the code, and move an address register by two.
StepOf(s) == IF s = Long THEN 4 ELSE 2

\* The immediate operand behind the opcode.
Immediate(m, s) ==
  [m |-> Skip(m, StepOf(s)), v |-> IF s = Long THEN FetchLong(m, m.pc) ELSE Lo(FetchWord(m, m.pc), s)]

----------------------------------------------------------------------------
\* Registers.

\* SSP in supervisor mode, A7 otherwise.
SP(m) == IF m.sup THEN m.ssp ELSE m.a[7]
SetSP(m, v) == IF m.sup THEN [m EXCEPT !.ssp = v] ELSE [m EXCEPT !.a[7] = v]

An(m, r) == IF r = 7 THEN SP(m) ELSE m.a[r]
WriteAn(m, r, v) == IF r = 7 THEN SetSP(m, v) ELSE [m EXCEPT !.a[r] = v]
WriteDn(m, r, v, s) == [m EXCEPT !.d[r] = Merge(m.d[r], v, s)]

PushAt(m, sp, v, s) == Write(SetSP(m, sp), sp, v, s)
Push(m, v, s) == PushAt(m, Minus(SP(m), s), v, s)
Pop(m, s) == [m |-> SetSP(m, Plus(SP(m), s)), v |-> Read(m, SP(m), s)]

\* The status register: S at the top, the interrupt mask, the five flags.
FlagBit(f) ==
  IF f = "C" THEN 1 ELSE IF f = "V" THEN 2 ELSE IF f = "Z" THEN 4 ELSE IF f = "N" THEN 8 ELSE 16
CcrByte(ccr) == FoldLeft(LAMBDA sum, f : sum + (IF f \in ccr THEN FlagBit(f) ELSE 0), 0,
                         <<"C", "V", "Z", "N", "X">>)
CcrOf(v) == {f \in Flags : (v \div FlagBit(f)) % 2 = 1}
SrWord(m) == (IF m.s THEN Mod(Word) \div 2 ELSE 0) + 32 * m.ipl + CcrByte(m.ccr)
WithSr(m, v) ==
  [m EXCEPT !.s = v >= Mod(Word) \div 2, !.ipl = (v \div 32) % (Mod(Word) \div 64), !.ccr = CcrOf(v)]

\* A change of mode copies the stack pointer that is left to the other bank.
OtherBank(m, sup) ==
  IF sup = m.sup THEN m ELSE IF sup THEN [m EXCEPT !.a[7] = m.ssp] ELSE [m EXCEPT !.ssp = m.a[7]]
SetSR(m, v) ==
  [WithSr(OtherBank(m, v >= Mod(Word) \div 2), v) EXCEPT !.sup = v >= Mod(Word) \div 2]

WithCcr(m, ccr) == [m EXCEPT !.ccr = ccr]

----------------------------------------------------------------------------
\* Effective addresses: the low six bits of the opcode, mode and register.

EaMode(ea) == Field(ea, 3, 3)
EaReg(ea) == Field(ea, 0, 3)

\* The index word and, in its full form, base displacement, indirection and
\* outer displacement.
Displacement(m, size) ==
  [m |-> Skip(m, size),
   v |-> IF size = 0 THEN 0 ELSE IF size = Long THEN FetchLong(m, m.pc) ELSE SExt(FetchWord(m, m.pc), Word)]
BaseSize(ext) == IF Field(ext, 4, 2) >= 2 THEN Long ELSE IF Field(ext, 4, 2) = 1 THEN Word ELSE 0
OuterSize(ext) ==
  IF Field(ext, 2, 2) = 1 \/ (Field(ext, 4, 2) = 3 /\ Field(ext, 2, 2) = 0) THEN Word
  ELSE IF Field(ext, 2, 2) = 2 THEN Long ELSE 0

IndexRegister(m, ext) == IF Bit(ext, 15) THEN An(m, Field(ext, 12, 3)) ELSE m.d[Field(ext, 12, 3)]
IndexOf(x, ext) == IF Bit(ext, 11) THEN x ELSE SExt(x, Word)

Outer(x, at) == [m |-> x.m, v |-> Plus(at, x.v)]
Full(x, base, off, ext) ==
  IF Field(ext, 0, 2) = 0 THEN [m |-> x.m, v |-> Plus(Plus(base, x.v), off)]
  ELSE Outer(Displacement(x.m, OuterSize(ext)),
             Plus(ReadLong(x.m, Plus(Plus(base, x.v), IF Field(ext, 0, 2) = 3 THEN off ELSE 0)),
                  IF Field(ext, 0, 2) = 2 THEN off ELSE 0))
Indexed(m, base, idx, ext) ==
  IF ~Bit(ext, 8) THEN [m |-> m, v |-> Plus(Plus(base, idx), SExt(Lo(ext, Byte), Byte))]
  ELSE Full(Displacement(m, BaseSize(ext)), IF Bit(ext, 7) THEN 0 ELSE base,
            IF Bit(ext, 6) THEN 0 ELSE Lo(idx * 2 ^ Field(ext, 9, 2), Long), ext)
IndexedBy(m, base, ext) == Indexed(m, base, IndexOf(IndexRegister(m, ext), ext), ext)
IndexedEA(m, base) == IndexedBy(Skip(m, 2), base, FetchWord(m, m.pc))

\* The address of a memory operand; there is none for a register.  A
\* predecrement is four whatever the size, and is not carried out.
IsAt(ea, r) == EaMode(ea) = 7 /\ EaReg(ea) = r
IsIndexed(ea) == EaMode(ea) = 6 \/ IsAt(ea, 3)
BaseOf(m, ea) == IF EaMode(ea) = 7 THEN IF EaReg(ea) \in {2, 3} THEN m.pc ELSE 0 ELSE An(m, EaReg(ea))
Displaced(x, base, ea) ==
  [x EXCEPT !.v = IF IsAt(ea, 0) THEN Lo(@, Word) ELSE Plus(base, @)]
ComputeEA(m, ea) ==
  CASE EaMode(ea) \in {0, 1} -> [m |-> m, v |-> 0]
    [] EaMode(ea) \in {2, 3} -> [m |-> m, v |-> An(m, EaReg(ea))]
    [] EaMode(ea) = 4 -> [m |-> m, v |-> Minus(An(m, EaReg(ea)), 4)]
    [] EaMode(ea) = 5 \/ (EaMode(ea) = 7 /\ EaReg(ea) \in 0 .. 2) ->
         Displaced(Displacement(m, IF IsAt(ea, 1) THEN Long ELSE Word), BaseOf(m, ea), ea)
    [] IsIndexed(ea) -> IndexedEA(m, BaseOf(m, ea))
    [] IsAt(ea, 4) -> [m |-> Skip(m, 2), v |-> m.pc]
    [] OTHER -> [m |-> m, v |-> 0]



\* A postincrement moves the register as often as it is carried out.
Stepped(m, ea, by) ==
  IF EaMode(ea) = 3 THEN WriteAn(m, EaReg(ea), Plus(An(m, EaReg(ea)), by)) ELSE m

\* A predecrement changes A7 itself, whatever the mode; a postincrement is
\* carried out before the read and once more behind it.
Before(m, r, s) == [m |-> [m EXCEPT !.a[r] = Minus(@, StepOf(s))], v |-> Minus(m.a[r], StepOf(s))]
ReadAt(x, ea, s) == [m |-> Stepped(x.m, ea, 2 * StepOf(s)), v |-> Read(x.m, x.v, s)]
SignedWord(x, s) == IF s = Word THEN [x EXCEPT !.v = SExt(@, Word)] ELSE x
ReadEA(m, ea, s) ==
  IF EaMode(ea) = 0 THEN [m |-> m, v |-> Lo(m.d[EaReg(ea)], s)]
  ELSE IF EaMode(ea) = 1 THEN [m |-> m, v |-> An(m, EaReg(ea))]
  ELSE IF IsAt(ea, 4) THEN SignedWord(Immediate(m, s), s)
  ELSE ReadAt(IF EaMode(ea) = 4 THEN Before(m, EaReg(ea), s) ELSE ComputeEA(m, ea), ea, s)

Predecremented(m, r, s) ==
  [m |-> WriteAn(m, r, Minus(An(m, r), StepOf(s))), v |-> Minus(An(m, r), StepOf(s))]
WriteAt(x, ea, s, v) == Stepped(Write(x.m, x.v, v, s), ea, StepOf(s))
WriteEA(m, ea, s, v) ==
  IF EaMode(ea) = 0 THEN WriteDn(m, EaReg(ea), v, s)
  ELSE IF EaMode(ea) = 1 THEN WriteAn(m, EaReg(ea), v)
  ELSE WriteAt(IF EaMode(ea) = 4 THEN Predecremented(m, EaReg(ea), s) ELSE ComputeEA(m, ea), ea, s, v)

----------------------------------------------------------------------------
\* Exceptions.

\* The services of the boot script that the interpreter knows.
ServiceKnown(sel) == sel \in Site.services

LineFService(m) ==
  IF m.services >= Site.serviceLimit THEN m
  ELSE [m EXCEPT !.services = @ + 1, !.d[0] = IF ServiceKnown(FetchWord(m, m.pc + 2)) THEN 0 ELSE @]

\* A line-F exception is a call to the host: the frame is dropped and the
\* program goes on behind the two words, or at the script's end.
Onward(m) ==
  IF m.pc >= Site.scriptEnd THEN [Push(m, Site.scriptReturn, Long) EXCEPT !.pc = Site.scriptNext]
  ELSE Skip(m, 4)
LineFReturn(m, before) ==
  Onward(SetSP([LineFService(m) EXCEPT !.s = before.s, !.ipl = before.ipl, !.ccr = before.ccr,
                                       !.sup = before.sup, !.inint = FALSE], SP(before)))

\* The S bit is set before the status register is pushed, so that the frame
\* does not remember user mode.  A vector of 0 stops the machine.
Framed(m) == [Push(Push(m, m.pc, Long), SrWord(m), Word) EXCEPT !.inint = TRUE]
Target(to) ==
  IF to = VectorGuard THEN Site.rteStub ELSE IF to \in Site.aliasBank THEN RomAlias[to] ELSE to
Enter(m, vector, to, before) ==
  IF to = 0 THEN [m EXCEPT !.halted = TRUE]
  ELSE IF vector = Vec.lineF THEN LineFReturn(m, before) ELSE [m EXCEPT !.pc = Target(to)]
Vectored(m, vector, before) == Enter(m, vector, ReadLong(m, vector), before)
RaiseException(m, vector) ==
  Vectored(Framed([m EXCEPT !.s = @ \/ ~m.sup, !.sup = TRUE]), vector, m)

\* The mask is raised before the status register is pushed.
RaiseInterrupt(m, level) ==
  IF level \notin 1 .. 7 \/ m.ipl >= level THEN m
  ELSE RaiseException([m EXCEPT !.ipl = level], Vec.level[level])

\* An illegal opcode among the thunk markers is skipped with its operand's
\* extension words; one inside a handler stops the machine.
ThunkWords(mode, r) ==
  IF mode = 7 /\ r = 1 THEN 4 ELSE IF mode \in 3 .. 6 \/ (mode = 7 /\ r <= 4) THEN 2 ELSE 0
SkipThunk(m, op) == Skip(m, 2 + ThunkWords(EaMode(op), EaReg(op)))

Illegal(m, op) ==
  IF m.pc \in DrThunk THEN SkipThunk(m, op)
  ELSE IF m.inint THEN [m EXCEPT !.halted = TRUE]
  ELSE RaiseException(m, Vec.illegal)

\* The glue that keeps a zero or stub vector from sending line-F exceptions
\* into unwritten memory.
WithGlue(m) == WriteWord(WriteLong(m, Site.glue, Site.glueCode), Site.glue + 4, Site.rteCode)
LineFGlue(m) ==
  IF ReadLong(m, Vec.lineF) \in {0, Site.rteStub} THEN WriteLong(WithGlue(m), Vec.lineF, Site.glue) ELSE m
PadGlue(m) ==
  IF (\E v \in Site.gluedVectors : ReadLong(m, v) = Site.gluePad) /\ ReadWord(m, Site.gluePad) = 0
  THEN WriteWord(m, Site.gluePad, Site.rteCode) ELSE m
EnsureLowVectorGlue(m) == PadGlue(LineFGlue(m))
=============================================================================
