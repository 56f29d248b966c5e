------------------------------ MODULE PpcFloat ------------------------------
(***************************************************************************)
(* The floating-point instructions of the PowerPC interpreter              *)
(* (src/cpu/interpreter.c).  The arithmetic is the host's: a double is a   *)
(* pair of words whose high word holds a sign and a magnitude in halves of *)
(* one, infinity above every number and the NaNs above infinity, so that a *)
(* sign is a bit as in the program; scr are the bits of the FPSCR that     *)
(* mffs moved to the register.  The FPSCR is the set of its bits that are  *)
(* on, counted from the most significant.                                  *)
(***************************************************************************)
EXTENDS PpcVector

FX == 0
FEX == 1
VX == 2
OX == 3
UX == 4
ZX == 5
XX == 6
VXVC == 12
FPCC == 15 .. 19
VXCVI == 20
VI == 7 .. 12 \cup 20 .. 22
\* An exception's bit and the bit that enables it.
Enabled == {<<VX, 24>>, <<OX, 25>>, <<UX, 26>>, <<ZX, 27>>, <<XX, 28>>}

Infinity == Top \div 2
Fp(high, low) == [hi |-> high, lo |-> low, scr |-> {}]
FpSign(x) == Negative(x.hi)
FpMagnitude(x) == x.hi % Top
IsNan(x) == FpMagnitude(x) > Infinity
Nan == Fp(Infinity + 1, 0)
\* The value in halves, infinity the greatest.
Value(x) == IF FpSign(x) THEN -FpMagnitude(x) ELSE FpMagnitude(x)
\* The double of a number of halves.
Number(v) ==
  LET size == IF v < 0 THEN -v ELSE v
  IN  Fp((IF v < 0 THEN Top ELSE 0) + IF size > Infinity THEN Infinity ELSE size, 0)

\* The host's operations on the numbers of the model.
FpSum(x, y) == IF IsNan(x) \/ IsNan(y) THEN Nan ELSE Number(Value(x) + Value(y))
FpProduct(x, y) == IF IsNan(x) \/ IsNan(y) THEN Nan ELSE Number((Value(x) * Value(y)) \div 2)
FpNegated(x) == [x EXCEPT !.hi = IF FpSign(x) THEN x.hi - Top ELSE x.hi + Top]
FpDifference(x, y) == FpSum(x, FpNegated(y))
FpQuotient(x, y) ==
  IF IsNan(x) \/ IsNan(y) \/ (Value(x) = 0 /\ Value(y) = 0) THEN Nan
  ELSE LET size == IF Value(y) = 0 THEN Infinity ELSE (2 * FpMagnitude(x)) \div FpMagnitude(y)
       IN  Number(IF FpSign(x) = FpSign(y) THEN size ELSE -size)
FpRoot(x) ==
  IF IsNan(x) \/ Value(x) < 0 THEN Nan
  ELSE Number(CHOOSE r \in 0 .. 2 * FpMagnitude(x) + 1 : r * r <= 2 * Value(x) /\ (r + 1) * (r + 1) > 2 * Value(x))
ToSingle(x) == IF IsNan(x) THEN x ELSE Fp(x.hi, 0)

FpAbs(x) == [x EXCEPT !.hi = FpMagnitude(x)]
FpNeg(x) == FpNegated(x)

----------------------------------------------------------------------------
\* The status register.

\* The summaries: invalid operations, exceptions, and enabled ones.
UpdateFpscr(m) ==
  LET Mark(bits, b, on) == IF on THEN bits \cup {b} ELSE bits \ {b}
      Fex(bits) == Mark(bits, FEX, \E e \in Enabled : e[1] \in bits /\ e[2] \in bits)
      Fx(bits) == Mark(bits, FX, bits \cap {OX, UX, ZX, XX} # {})
  IN  [m EXCEPT !.fpscr = Fex(Fx(Mark(m.fpscr, VX, m.fpscr \cap VI # {})))]
SetFpcc(m, bits) == [m EXCEPT !.fpscr = (m.fpscr \ FPCC) \cup bits]

PutOrder(m, bf, bits) ==
  SetFpcc(SetCrField(m, bf, bits),
          {CASE bits = CrLt -> 16 [] bits = CrGt -> 17 [] bits = CrEq -> 18 [] bits = CrSo -> 19})
\* An unordered pair compares as the summary bit.
FpCompare(m, bf, x, y, signal) ==
  LET nan == IsNan(x) \/ IsNan(y)
  IN  PutOrder(IF nan /\ signal THEN UpdateFpscr([m EXCEPT !.fpscr = m.fpscr \cup {VXVC}]) ELSE m,
               bf, IF nan THEN CrSo ELSE Order(Value(x), Value(y)))

UpdateCr1(m) ==
  SetCrField(m, 1, (IF FX \in m.fpscr THEN CrLt ELSE 0) + (IF FEX \in m.fpscr THEN CrGt ELSE 0)
                   + (IF VX \in m.fpscr THEN CrEq ELSE 0) + IF OX \in m.fpscr THEN CrSo ELSE 0)
FpRecord(m, i) == IF i.rc THEN UpdateCr1(m) ELSE m

----------------------------------------------------------------------------
\* Conversions; what does not fit is marked and becomes the nearest end.

PutFpr(m, r, x) == [m EXCEPT !.fpr[r] = x]
Invalid(m) == [m EXCEPT !.fpscr = m.fpscr \cup {VXCVI}]
ToInt(m, i, rounded) ==
  LET x == m.fpr[i.b]
      v == IF FpMagnitude(x) < Infinity THEN Wrap(rounded) ELSE IF IsNan(x) \/ FpSign(x) THEN Top ELSE Top - 1
  IN  FpRecord(PutFpr(IF FpMagnitude(x) < Infinity THEN m ELSE Invalid(m), i.t, Fp(Word - Top \div 4, v)), i)
\* To the nearest, a half to the even neighbour.
Even(h) == IF h % 2 = 0 \/ (h \div 2) % 2 = 0 THEN h \div 2 ELSE (h + 1) \div 2
FpRoundToInt32(m, i) == ToInt(m, i, Even(Value(m.fpr[i.b])))
FpTruncToInt32(m, i) ==
  ToInt(m, i, IF FpSign(m.fpr[i.b]) THEN -(FpMagnitude(m.fpr[i.b]) \div 2) ELSE FpMagnitude(m.fpr[i.b]) \div 2)

----------------------------------------------------------------------------
\* Instructions.

\* The fused operations take the product of the first two registers.
Fused(i, x, y, z) ==
  IF i.op = "fmul" THEN FpProduct(x, z)
  ELSE FpSum(IF i.op \in {"fnmsub", "fnmadd"} THEN FpNegated(FpProduct(x, y)) ELSE FpProduct(x, y),
             IF i.op \in {"fmsub", "fnmsub"} THEN FpNegated(z) ELSE z)
FusedOps == {"fmul", "fmsub", "fmadd", "fnmsub", "fnmadd"}

Arithmetic(i, x, y, z) ==
  CASE i.op = "fdiv"  -> FpQuotient(x, y)
    [] i.op = "fsub"  -> FpDifference(x, y)
    [] i.op = "fadd"  -> FpSum(x, y)
    [] i.op = "fneg"  -> FpNeg(y)
    [] i.op = "fmr"   -> y
    [] i.op = "fnabs" -> FpNeg(FpAbs(y))
    [] i.op = "fabs"  -> FpAbs(y)
    [] i.op = "frsp"  -> ToSingle(y)
    [] i.op = "fsqrt" -> FpRoot(y)
    [] i.op = "fres"  -> FpQuotient(Number(2), y)
    [] i.op = "fsel"  -> IF ~IsNan(x) /\ Value(x) >= 0 THEN z ELSE y
ArithmeticOps == {"fdiv", "fsub", "fadd", "fneg", "fmr", "fnabs", "fabs", "frsp", "fsqrt", "fres", "fsel"}

\* The bits of the fields in a mask of eight.
FpscrBits(fm) == {b \in 0 .. 31 : BitAt(fm, 7 - b \div 4) = 1}
Mtfsf(m, i) ==
  LET bits == FpscrBits(i.fxm)
      new  == ((m.fpscr \ bits) \cup (m.fpr[i.b].scr \cap bits)) \ {FX, FEX, VX}
  IN  IF i.fxm = 0 THEN m ELSE UpdateFpscr([m EXCEPT !.fpscr = new])
MoveStatus(m, i) ==
  CASE i.op = "mffs"   -> PutFpr(m, i.t, [Fp(0, 0) EXCEPT !.scr = m.fpscr])
    [] i.op = "mtfsfi" -> [m EXCEPT !.fpscr = (m.fpscr \ (4 * i.bf .. 4 * i.bf + 3))
                             \cup {4 * i.bf + b : b \in {n \in 0 .. 3 : BitAt(i.imm, 3 - n) = 1}}]
    [] i.op = "mtfsb0" -> [m EXCEPT !.fpscr = m.fpscr \ {i.a}]
    [] i.op = "mtfsb1" -> [m EXCEPT !.fpscr = m.fpscr \cup {i.a}]
    [] i.op = "mtfsf"  -> Mtfsf(m, i)
StatusOps == {"mffs", "mtfsfi", "mtfsb0", "mtfsb1", "mtfsf"}

\* i.upd is the single form, whose result is rounded.
InForm(i, r) == IF i.upd THEN ToSingle(r) ELSE r
FpXform(m, i) ==
  LET x == m.fpr[i.a]
      y == m.fpr[i.b]
      z == m.fpr[i.c]
  IN  CASE i.op \in {"fcmpu", "fcmpo"} -> FpCompare(m, i.bf, x, y, i.op = "fcmpo")
        [] i.op = "fctiw"  -> FpRoundToInt32(m, i)
        [] i.op = "fctiwz" -> FpTruncToInt32(m, i)
        [] i.op \in StatusOps -> FpRecord(MoveStatus(m, i), i)
        [] i.op \in FusedOps \cup ArithmeticOps ->
             FpRecord(PutFpr(m, i.t, InForm(i, IF i.op \in FusedOps THEN Fused(i, x, y, z)
                                               ELSE Arithmetic(i, x, y, z))), i)

OfPair(d) == Fp(d[1], d[2])
FpLoad(m, i) ==
  Back(PutFpr(m, i.t, OfPair(IF i.op = "lfd" THEN LoadDouble(m, EaD(m, i)) ELSE <<Read32(m, EaD(m, i)), 0>>)),
       i, EaD(m, i))
FpStore(m, i) ==
  LET x == m.fpr[i.t]
  IN  Back(IF i.op = "stfd" THEN StoreDouble(m, EaD(m, i), <<x.hi, x.lo>>)
           ELSE WriteN(m, EaD(m, i), x.hi, 4), i, EaD(m, i))

FpOps == {"lfs", "lfd", "stfs", "stfd", "fcmpu", "fcmpo", "fctiw", "fctiwz"}
           \cup FusedOps \cup ArithmeticOps \cup StatusOps
\* Without MSR[FP] no floating-point instruction is executed.
FpUnavailable(m) == [Raise(m, "floating point", m.pc) EXCEPT !.next = m.pc]

=============================================================================
