----------------------------- MODULE PpcMachine -----------------------------
(***************************************************************************)
(* The state of the PowerPC interpreter (src/cpu/interpreter.c,            *)
(* g_PpcContext) as one record, memory included.  First its arithmetic:    *)
(* sums and differences with carry and overflow, rotations and masks,      *)
(* shifts, products and quotients of two words, conditions, and the        *)
(* saturations of the vector unit.  Then address translation by blocks and *)
(* by the hashed page table, loads and stores through it, the special      *)
(* registers, and the condition and exception registers.  A helper takes a *)
(* machine and returns the machine it leaves, or the value it reads.  A    *)
(* byte has B bits (8 in the program) and a word four bytes, so that every *)
(* shift count and sign bit of the code is a function of B; the condition  *)
(* register then has one field for every four bits.  The fields of an      *)
(* address keep their order and their meaning and are narrowed to the      *)
(* model's word.                                                           *)
(***************************************************************************)
EXTENDS Integers, Bitwise, Sequences, FiniteSets, SequencesExt, TLC


CONSTANT B    \* bits per byte

ASSUME BitsAssumption == B \in 5 .. 8

W == 4 * B
Pow(n) == 2 ^ n
ByteMod == Pow(B)
Half == Pow(2 * B)
Word == Pow(W)
Top == Word \div 2

Wrap(v) == v % Word
Inv(v) == Word - 1 - v
Negative(v) == v >= Top
Signed(v) == IF v >= Top THEN v - Word ELSE v
\* The value of n bits, with its sign.
SignedIn(v, n) == IF v % Pow(n) >= Pow(n - 1) THEN (v % Pow(n)) - Pow(n) ELSE v % Pow(n)
Extend(v, n) == Wrap(SignedIn(v, n))
BitAt(v, n) == (v \div Pow(n)) % 2
PutBit(v, n, on) == v - BitAt(v, n) * Pow(n) + IF on THEN Pow(n) ELSE 0

\* The four bits of a condition.
CrLt == 8
CrGt == 4
CrEq == 2
CrSo == 1

CrFields == W \div 4
Shift4(field) == W - 4 - 4 * field
FieldOf(v, field) == (v \div Pow(Shift4(field))) % 16
PutField(v, field, x) == v + ((x % 16) - FieldOf(v, field)) * Pow(Shift4(field))

----------------------------------------------------------------------------
\* Sums.  The result, the carry out of the word, and signed overflow.

DoAdd(a, b, cin) ==
  LET sum == a + b + cin
      r   == Wrap(sum)
  IN  [r |-> r, ca |-> sum >= Word, ov |-> Negative(a) = Negative(b) /\ Negative(r) # Negative(a)]

\* B - A - Cin; the carry here is a borrow.
DoSub(a, b, cin) ==
  [r |-> Wrap(b - a - cin), ca |-> a + cin > b,
   ov |-> Negative(a) # Negative(b) /\ Negative(Wrap(b - a - cin)) # Negative(b)]

\* The order of two words as a condition.
Order(x, y) == IF x < y THEN CrLt ELSE IF x > y THEN CrGt ELSE CrEq

TrapCondition(to, a, b) ==
  \/ BitAt(to, 4) = 1 /\ Signed(a) < Signed(b)
  \/ BitAt(to, 3) = 1 /\ Signed(a) > Signed(b)
  \/ BitAt(to, 2) = 1 /\ a = b
  \/ BitAt(to, 1) = 1 /\ a < b
  \/ BitAt(to, 0) = 1 /\ a > b

----------------------------------------------------------------------------
\* Rotations, masks and shifts; bit 0 of a mask is the sign.

Rotl(v, count) ==
  LET n == count % W IN v \div Pow(W - n) + (v % Pow(W - n)) * Pow(n)

\* The ones from bit mb through bit me, around the end of the word.
RotMask(mb, me) ==
  LET ones == IF mb <= me THEN mb .. me ELSE (mb .. W - 1) \cup (0 .. me)
  IN  FoldLeft(LAMBDA x, i : IF i - 1 \in ones THEN x + Pow(W - i) ELSE x, 0, [i \in 1 .. W |-> i])

\* The count bit above the word's counts shifts everything out.
TooFar(count) == (count \div W) % 2 = 1

\* The carry tells that ones were shifted out of a negative word.
Sraw(rs, count) ==
  LET n == count % W
  IN  IF TooFar(count)
      THEN [r |-> IF Negative(rs) THEN Word - 1 ELSE 0, ca |-> Negative(rs) /\ rs # Word - 1]
      ELSE [r |-> Wrap(Signed(rs) \div Pow(n)), ca |-> Negative(rs) /\ rs % Pow(n) # 0]

\* The number of zeros above the first one of a value of n bits.
LeadingZeros(v, n) == CHOOSE k \in 0 .. n : v \div Pow(n - k) = 0 /\ (k = n \/ v \div Pow(n - k - 1) # 0)

----------------------------------------------------------------------------
\* Double words are pairs <<high, low>>.

AddD(x, y) == <<Wrap(x[1] + y[1] + (x[2] + y[2]) \div Word), Wrap(x[2] + y[2])>>
InvD(x) == <<Inv(x[1]), Inv(x[2])>>
NegD(x) == AddD(InvD(x), <<0, 1>>)
SubD(x, y) == AddD(x, NegD(y))
LessD(x, y) == x[1] < y[1] \/ (x[1] = y[1] /\ x[2] < y[2])
SignD(x, minus) == IF minus THEN NegD(x) ELSE x
AbsD(x) == SignD(x, Negative(x[1]))
WideD(v) == <<IF Negative(v) THEN Word - 1 ELSE 0, v>>

\* The unsigned product of two words, by their halves.
Product(x, y) ==
  LET hh == (x \div Half) * (y \div Half)
      hl == (x \div Half) * (y % Half)
      lh == (x % Half) * (y \div Half)
      ll == (x % Half) * (y % Half)
      low == (hl % Half) * Half + (lh % Half) * Half + ll
  IN  <<Wrap(hh + hl \div Half + lh \div Half + low \div Word), Wrap(low)>>

SignedProduct(x, y) ==
  SignD(Product(Wrap(IF Negative(x) THEN Word - x ELSE x), Wrap(IF Negative(y) THEN Word - y ELSE y)),
        Negative(x) # Negative(y))

\* x divided by the word y # 0, bit by bit; all unsigned.
QuotientD(x, y) ==
  LET Take(q, rem, one) == [q |-> <<Wrap(q[1] * 2 + q[2] \div Top), Wrap(q[2] * 2) + one>>, r |-> rem - one * y]
      Bring(q, rem) == Take(q, rem, IF rem >= y THEN 1 ELSE 0)
  IN  FoldLeft(LAMBDA s, k : Bring(s.q, s.r * 2 + BitAt(x[1 + (k - 1) \div W], W - 1 - ((k - 1) % W))),
               [q |-> <<0, 0>>, r |-> 0], [k \in 1 .. 2 * W |-> k])

\* The signed quotient and remainder of C, truncated towards zero.
WithSigns(d, x, y) ==
  [q |-> SignD(d.q, Negative(x[1]) # Negative(y)), r |-> IF Negative(x[1]) THEN Wrap(Word - d.r) ELSE d.r]
DivideD(x, y) == WithSigns(QuotientD(AbsD(x), Wrap(IF Negative(y) THEN Word - y ELSE y)), x, y)

FitsWord(x) == x = WideD(x[2])

----------------------------------------------------------------------------
\* Saturations: a value into n bits, with a sign or without.

SatS(v, n) ==
  IF v > Pow(n - 1) - 1 THEN Pow(n - 1) - 1 ELSE IF v < -Pow(n - 1) THEN Pow(n - 1) ELSE v % Pow(n)
SatU(v, n) == IF v > Pow(n) - 1 THEN Pow(n) - 1 ELSE IF v < 0 THEN 0 ELSE v

----------------------------------------------------------------------------

CONSTANTS
  Ram,          \* the physical addresses of bytes that can be written
  GuardWords,   \* the fill patterns 0x68F168F1 and 0xD1E2D1E2
  GuardTop,     \* 0x10000
  SegShift, PageShift, ApiShift, VsidBits,  \* 28, 12, 10 and 24
  HashLow, HashBits,   \* 10 and 19: the bits that choose a group, in the table of least size and in all
  BlockShift, BlockBits \* 17 and 11: the least block of a BAT and the bits of its length

ASSUME FieldsAssumption ==
  /\ \A pa \in Ram : pa \in Nat /\ pa < Word
  /\ SegShift = W - 4 /\ PageShift < SegShift /\ HashLow + 6 <= SegShift

\* The bits of the MSR.
EE == 15
PR == 14
FP == 13
IR == 5
DR == 4
On(m, bit) == BitAt(m.msr, bit) = 1

\* The bits of the XER.
SO == W - 1
OV == W - 2
CA == W - 3

----------------------------------------------------------------------------
\* Physical memory; what no region holds reads as zero.

ByteAt(m, pa) == IF pa \in Ram THEN m.mem[pa] ELSE 0
PutByte(m, pa, v) == IF pa \in Ram THEN [m EXCEPT !.mem[pa] = v % ByteMod] ELSE m

ReadPhys32(m, pa) ==
  ((ByteAt(m, pa) * ByteMod + ByteAt(m, Wrap(pa + 1))) * ByteMod + ByteAt(m, Wrap(pa + 2))) * ByteMod
    + ByteAt(m, Wrap(pa + 3))

----------------------------------------------------------------------------
\* Translation.

Ones(n) == Pow(n) - 1

\* A group is eight entries of eight bytes.
GroupShift == 6
\* The group of a hash; the mask of SDR1 lets more bits of the hash in.
CalcPtegAddr(m, hash) ==
  (m.sdr1 - (m.sdr1 % Pow(HashLow + GroupShift))) | ((hash % Pow(HashLow)) * Pow(GroupShift))
    | (((m.sdr1 % Pow(HashBits - HashLow)) & ((hash \div Pow(HashLow)) % Pow(HashBits - HashLow)))
         * Pow(HashLow + GroupShift))

\* The entries of the group of the hash, then those of its complement's.
EntryAt(m, hash, n) == CalcPtegAddr(m, IF n < 8 THEN hash ELSE Inv(hash)) + 8 * (n % 8)
Lowest(S) == {x \in S : \A y \in S : x <= y}
\* The second word of the first entry that matches, if there is one.
SearchPteg(m, vsid, page, hash) ==
  {ReadPhys32(m, EntryAt(m, hash, n) + 4) :
     n \in Lowest({n \in 0 .. 15 : ReadPhys32(m, EntryAt(m, hash, n))
                                  = Top + vsid * 128 + (n \div 8) * 64 + page \div Pow(ApiShift)})}

\* A set with the physical address, or the empty set where nothing maps it;
\* an instruction's blocks are the first eight, data's the last.
BatHits(m, la, instr) ==
  {k \in (IF instr THEN 0 .. 7 ELSE 8 .. 15) :
     /\ (m.bat[k].access & (IF On(m, PR) THEN 1 ELSE 2)) # 0
     /\ (la & m.bat[k].hi) = m.bat[k].bepi}
InBlock(bat, la) == bat.phys | (la & Inv(bat.hi))
InPage(m, sr, page, offset) ==
  {pte - (pte % Pow(PageShift)) + offset :
     pte \in SearchPteg(m, sr % Pow(VsidBits), page, (sr % Pow(HashBits)) ^^ page)}
Else(S, T) == IF S # {} THEN S ELSE T
TranslateEffective(m, la, instr) ==
  IF ~On(m, IF instr THEN IR ELSE DR) THEN {}
  ELSE Else({InBlock(m.bat[k], la) : k \in Lowest(BatHits(m, la, instr))},
            IF m.sdr1 = 0 THEN {}
            ELSE InPage(m, m.sr[(la \div Pow(SegShift)) % 16],
                        (la \div Pow(PageShift)) % Pow(SegShift - PageShift), la % Pow(PageShift)))

\* What is not mapped is taken as it is.
Physical(m, ea, instr) == CHOOSE pa \in Else(TranslateEffective(m, ea, instr), {ea}) : TRUE

MmuReadByte(m, ea) == ByteAt(m, Physical(m, Wrap(ea), FALSE))
MmuWriteByte(m, ea, v) == PutByte(m, Physical(m, Wrap(ea), FALSE), v)

\* Mutant of UpdateBat: the lower register is only looked at with the upper.
UpperOnly(m, spr) ==
  IF spr % 2 = 1 \/ spr \notin 528 .. 551 THEN m
  ELSE LET block == (m.spr[spr] \div 4) % Pow(BlockBits)
           hi    == Inv(block * Pow(BlockShift) + Ones(BlockShift))
           lower == IF spr + 1 \in DOMAIN m.spr THEN m.spr[spr + 1] ELSE 0
       IN  [m EXCEPT !.bat[IF spr <= 543 THEN (spr - 528) \div 2 ELSE 8 + (spr - 536) \div 2] =
              [access |-> m.spr[spr] % 4, hi |-> hi, phys |-> lower & hi, bepi |-> m.spr[spr] & hi]]

\* One decomposed BAT after either register of its pair was written.
UpdateBat(m, spr) ==
  LET upper == spr - (spr % 2)
      SprOf(n) == IF n \in DOMAIN m.spr THEN m.spr[n] ELSE 0
      index == IF spr \in 528 .. 543 THEN {(spr - 528) \div 2}
               ELSE IF spr \in 536 .. 551 THEN {8 + (spr - 536) \div 2} ELSE {}
      block == (SprOf(upper) \div 4) % Pow(BlockBits)
      hi    == Inv(block * Pow(BlockShift) + Ones(BlockShift))
  IN  [m EXCEPT !.bat = [k \in 0 .. 15 |->
         IF k \notin index THEN m.bat[k]
         ELSE [access |-> SprOf(upper) % 4, hi |-> hi, phys |-> SprOf(upper + 1) & hi,
               bepi |-> SprOf(upper) & hi]]]

----------------------------------------------------------------------------
\* Loads and stores, through the translation, a byte at a time.

\* The value of n bytes from ea, most significant first, and the reverse.
ReadN(m, ea, n) ==
  FoldLeft(LAMBDA v, k : v * ByteMod + MmuReadByte(m, ea + k - 1), 0, [k \in 1 .. n |-> k])
WriteN(m, ea, v, n) ==
  FoldLeft(LAMBDA x, k : MmuWriteByte(x, ea + k - 1, v \div Pow(B * (n - k))), m, [k \in 1 .. n |-> k])

Read16(m, ea) == ReadN(m, ea, 2)
Read32(m, ea) == ReadN(m, ea, 4)
Write16(m, ea, v) == WriteN(m, ea, v % Half, 2)
\* A guard fill never reaches the first 64K.
Write32(m, ea, v) == IF v \in GuardWords /\ ea < GuardTop THEN m ELSE WriteN(m, ea, v, 4)

Reversed(v, n) == FoldLeft(LAMBDA x, k : x * ByteMod + ((v \div Pow(B * (k - 1))) % ByteMod), 0, [k \in 1 .. n |-> k])
ReadRev(m, ea, n) == Reversed(ReadN(m, ea, n), n)
\* Mutant of WriteRev: the bytes are stored in their own order.
WriteForward(m, ea, v, n) == WriteN(m, ea, v, n)
WriteRev(m, ea, v, n) == WriteN(m, ea, Reversed(v, n), n)

\* The words of a double, high and low, and of the string helpers.
LoadDouble(m, ea) == <<Read32(m, ea), Read32(m, ea + 4)>>
StoreDouble(m, ea, d) == WriteN(WriteN(m, ea, d[1], 4), ea + 4, d[2], 4)

\* A count of zero stands for 32; a register is cleared before its first byte.
StringBytes(count) == IF count = 0 THEN 32 ELSE count
LoadString(m, rt, ea, count) ==
  LET Place(x, k) ==
        LET r == (rt + (k - 1) \div 4) % 32
            old == IF (k - 1) % 4 = 0 THEN 0 ELSE x.gpr[r]
        IN  [x EXCEPT !.gpr[r] = old + MmuReadByte(x, ea + k - 1) * Pow(B * (3 - ((k - 1) % 4)))]
  IN  FoldLeft(Place, m, [k \in 1 .. StringBytes(count) |-> k])
StoreString(m, rt, ea, count) ==
  FoldLeft(LAMBDA x, k : MmuWriteByte(x, ea + k - 1,
             x.gpr[(rt + (k - 1) \div 4) % 32] \div Pow(B * (3 - ((k - 1) % 4)))),
           m, [k \in 1 .. StringBytes(count) |-> k])

\* The instruction at a program counter is found at its physical address.
FetchAddress(m) == Physical(m, m.pc, TRUE)

----------------------------------------------------------------------------
\* Condition and exception registers.

SetCrField(m, field, x) == [m EXCEPT !.cr = PutField(m.cr, field, x)]
GetCrField(m, field) == FieldOf(m.cr, field)
SetXerCarry(m, ca) == [m EXCEPT !.xer = PutBit(m.xer, CA, ca)]
SetXerOverflow(m, ov) ==
  [m EXCEPT !.xer = IF ov THEN PutBit(PutBit(m.xer, OV, TRUE), SO, TRUE) ELSE PutBit(m.xer, OV, FALSE)]
Summary(m) == BitAt(m.xer, SO)
SetCr0(m, r) == SetCrField(m, 0, Order(Signed(r), 0) + Summary(m))

\* Mutant of DoCompare: the words are always compared with their signs.
CompareSigned(m, field, a, b, signed) == SetCrField(m, field, Order(Signed(a), Signed(b)) + Summary(m))
DoCompare(m, field, a, b, signed) ==
  SetCrField(m, field, (IF signed THEN Order(Signed(a), Signed(b)) ELSE Order(a, b)) + Summary(m))

\* BO says whether the counter is counted down and tested, and the bit of
\* the condition register tested; the counter goes down in any case.
BranchTaken(m, bo, bi) ==
  LET counts == BitAt(bo, 2) = 0
      ctr    == IF counts THEN Wrap(m.ctr - 1) ELSE m.ctr
  IN  [m |-> [m EXCEPT !.ctr = ctr],
       taken |-> /\ counts => (ctr = 0) = (BitAt(bo, 1) = 1)
                 /\ BitAt(bo, 4) = 0 => BitAt(m.cr, W - 1 - bi) = BitAt(bo, 3)]

----------------------------------------------------------------------------
\* Special registers.

SPR_MQ == 0
SPR_XER == 1
SPR_LR == 8
SPR_CTR == 9
SPR_DEC == 22
SPR_SDR1 == 25
SPR_SRR0 == 26
SPR_SRR1 == 27
SPR_TBL == 268
SPR_TBU == 269
SPR_PVR == 287

SprValue(m, n) == IF n \in DOMAIN m.spr THEN m.spr[n] ELSE 0
PutSpr(m, n, v) == [m EXCEPT !.spr = (n :> v) @@ m.spr]

MfSpr(m, n) ==
  IF n = SPR_XER THEN m.xer ELSE IF n = SPR_LR THEN m.lr ELSE IF n = SPR_CTR THEN m.ctr
  ELSE IF n = SPR_SRR0 THEN m.srr0 ELSE IF n = SPR_SRR1 THEN m.srr1
  ELSE IF n = SPR_PVR THEN 57 ELSE IF n = SPR_TBL THEN m.tbl ELSE IF n = SPR_TBU THEN m.tbu
  ELSE IF n = SPR_SDR1 THEN m.sdr1 ELSE SprValue(m, n)

\* A write to a BAT's register recomputes the BAT; a write to the
\* decrementer makes it count as written.
MtSpr(m, n, v) ==
  IF n = SPR_XER THEN [m EXCEPT !.xer = v] ELSE IF n = SPR_LR THEN [m EXCEPT !.lr = v]
  ELSE IF n = SPR_CTR THEN [m EXCEPT !.ctr = v] ELSE IF n = SPR_SRR0 THEN [m EXCEPT !.srr0 = v]
  ELSE IF n = SPR_SRR1 THEN [m EXCEPT !.srr1 = v]
  ELSE IF n = SPR_DEC THEN [PutSpr(m, n, v) EXCEPT !.decNegative = Negative(v), !.decWritten = TRUE]
  ELSE IF n = SPR_SDR1 THEN [PutSpr(m, n, v) EXCEPT !.sdr1 = v]
  ELSE UpdateBat(PutSpr(m, n, v), n)

\* A segment register is written with the special register of its number.
PutSr(m, n, v) == [PutSpr(m, n, v) EXCEPT !.sr[n] = v]

Raise(m, what, srr0) == [m EXCEPT !.pending = what, !.srr0 = srr0, !.srr1 = m.msr]

\* An enabled decrementer that is due becomes the pending exception.
MtMsr(m, v) ==
  LET due == BitAt(v, EE) = 1 /\ m.decNegative /\ m.decWritten /\ m.pending = ""
  IN  [m EXCEPT !.msr = v, !.pending = IF due THEN "decrementer" ELSE m.pending]
=============================================================================
