----------------------------- MODULE PpcVector -----------------------------
(***************************************************************************)
(* The vector unit of the PowerPC interpreter (src/cpu/interpreter.c,      *)
(* PpcExecuteVectorOp and PpcExecuteVectorMem) on its lanes of one, two,   *)
(* four and eight bytes; its floating lanes are not modelled.  A result is *)
(* written byte by byte while the operands are read, so that a target that *)
(* is also an operand is seen half changed: MacroLanes keeps the two       *)
(* states, the one at the start of the lane, where the code keeps the      *)
(* value in a variable, and the current one, where the code's macro        *)
(* evaluates its argument again for every byte.                            *)
(***************************************************************************)
EXTENDS PpcInteger

Lane(m, r, k, s) == FoldLeft(LAMBDA v, j : v * ByteMod + m.vr[r][k * s + j - 1], 0, [j \in 1 .. s |-> j])
PutVByte(m, r, k, v) == [m EXCEPT !.vr[r][k] = v % ByteMod]
PutLane(m, r, k, s, v) ==
  FoldLeft(LAMBDA x, j : PutVByte(x, r, k * s + j - 1, v \div Pow(B * (s - j))), m, [j \in 1 .. s |-> j])
SLane(m, r, k, s) == SignedIn(Lane(m, r, k, s), B * s)

Count(n) == [k \in 1 .. n |-> k - 1]

\* F(y, z, k): lane k, y the state at its start and z the current one.
MacroLanes(m, d, s, F(_, _, _)) ==
  FoldLeft(LAMBDA y, k : FoldLeft(LAMBDA z, j : PutVByte(z, d, k * s + j, F(y, z, k) \div Pow(B * (s - 1 - j))),
                                  y, Count(s)),
           m, Count(16 \div s))

DLane(m, r, h) == <<Lane(m, r, 2 * h, 4), Lane(m, r, 2 * h + 1, 4)>>
PutD(m, r, h, v) == PutLane(PutLane(m, r, 2 * h, 4, v[1]), r, 2 * h + 1, 4, v[2])
PutFlag(m, r, on) == PutLane([m EXCEPT !.vr[r] = [k \in 0 .. 15 |-> 0]], r, 15, 1, IF on THEN 1 ELSE 0)

\* The lane size a sub-opcode stands for.
SizeOf(x5) == Pow(x5 % 4)

----------------------------------------------------------------------------
\* The forms of three operands.

SumOver(n, F(_)) == FoldLeft(LAMBDA t, j : t + F(j), 0, Count(n))

MultiplyAdd(m, i) ==
  LET H(y, r, k) == SLane(y, r, k, 2)
      Shifted(y, k) == H(y, i.a, k) * H(y, i.b, k) + H(y, i.c, k)
      Dots(y, k, s, signed) ==
        SumOver(4, LAMBDA j : LET at == IF s = 1 THEN 4 * k + j ELSE 2 * k + j
                              IN  IF signed THEN SLane(y, i.a, at, s) * SLane(y, i.b, at, s)
                                  ELSE Lane(y, i.a, at, s) * Lane(y, i.b, at, s))
      Down(v) == FoldLeft(LAMBDA x, k : PutLane(x, i.t, k, 4, Lane(x, i.c, k - 1, 4)),
                          PutLane(m, i.t, 0, 4, v), <<1, 2, 3>>)
  IN  CASE i.tail = 0 -> MacroLanes(m, i.t, 2, LAMBDA y, z, k : SatS(Shifted(y, k) \div 2, 2 * B))
        [] i.tail = 1 -> MacroLanes(m, i.t, 2, LAMBDA y, z, k :
                           SatS((Shifted(y, k) + Half \div 4) \div Pow(2 * B - 1), 2 * B))
        [] i.tail = 2 -> MacroLanes(m, i.t, 2, LAMBDA y, z, k :
                           SatU(Signed(Wrap(Lane(y, i.a, k, 2) * Lane(y, i.b, k, 2) + Lane(y, i.c, k, 2))), 2 * B))
        [] i.tail = 4 -> MacroLanes(m, i.t, 4, LAMBDA y, z, k : SatU(Lane(y, i.c, k, 4) + Dots(y, k, 1, FALSE), W))
        [] i.tail = 5 -> MacroLanes(m, i.t, 4, LAMBDA y, z, k : SatS(SLane(y, i.c, k, 4) + Dots(y, k, 1, TRUE), W))
        [] i.tail = 7 -> Down(SatU(Dots(m, 0, 2, FALSE), W))
        [] i.tail = 9 -> Down(SatS(Dots(m, 0, 2, TRUE), W))

Vsel(m, i) ==
  MacroLanes(m, i.t, 1, LAMBDA y, z, k :
    Insert(Lane(y, i.b, k, 1), Lane(y, i.a, k, 1), Lane(y, i.c, k, 1)))
Vperm(m, i) ==
  MacroLanes(m, i.t, 1, LAMBDA y, z, k :
    Lane(y, IF BitAt(Lane(y, i.c, k, 1), 4) = 1 THEN i.b ELSE i.a, Lane(y, i.c, k, 1) % 16, 1))
\* The bytes from the shift on of the two registers in a row, taken first.
Vsldoi(m, i) ==
  MacroLanes(m, i.t, 1, LAMBDA y, z, k :
    IF k + (i.c % 16) < 16 THEN Lane(m, i.a, k + (i.c % 16), 1) ELSE Lane(m, i.b, k + (i.c % 16) - 16, 1))
Vpermxor(m, i) ==
  MacroLanes(m, i.t, 1, LAMBDA y, z, k :
    Lane(y, i.a, Lane(y, i.c, k, 1) % 16, 1) ^^ Lane(y, i.b, Lane(y, i.c, k, 1) % 16, 1))
Vpermr(m, i) ==
  MacroLanes(m, i.t, 1, LAMBDA y, z, k :
    Lane(y, IF BitAt(Lane(y, i.c, k, 1), 4) = 1 THEN i.a ELSE i.b, Lane(y, i.c, k, 1) % 16, 1))

\* 128 bits with a carry in; the carry out replaces the third operand.
One(on) == <<0, IF on THEN 1 ELSE 0>>
\* One half: the sum, or what is taken from a, and whether it passed a.
HalfSum(minus, a, b, in) == IF minus THEN AddD(b, in) ELSE AddD(AddD(a, b), in)
HalfOut(minus, a, sum) == IF minus THEN LessD(a, sum) ELSE LessD(sum, a)
PutHalf(m, r, h, minus, a, sum) == PutD(m, r, h, IF minus THEN SubD(a, sum) ELSE sum)
PutQuad(m, i, minus, a, low, high) ==
  PutFlag(PutHalf(PutHalf(m, i.t, 0, minus, a[1], high), i.t, 1, minus, a[2], low),
          i.c, HalfOut(minus, a[1], high))
QuadSum(m, i, minus, a, b, low) ==
  PutQuad(m, i, minus, a, low, HalfSum(minus, a[1], b[1], One(HalfOut(minus, a[2], low))))
ExtendedOf(m, i, minus, a, b) ==
  QuadSum(m, i, minus, a, b, HalfSum(minus, a[2], b[2], One(Lane(m, i.c, 15, 1) % 2 = 1)))
QLane(m, r) == <<DLane(m, r, 0), DLane(m, r, 1)>>
ExtendedSum(m, i) == ExtendedOf(m, i, i.tail >= 30, QLane(m, i.a), QLane(m, i.b))

----------------------------------------------------------------------------
\* Sums and differences: modulo, saturated without and with sign.

Sums(m, i) ==
  LET s == SizeOf(i.x5)
      Signs == i.x5 \in 12 .. 14 \cup 28 .. 30 \cup {26}
      X(z, k) == IF Signs THEN SLane(z, i.a, k, s) ELSE Lane(z, i.a, k, s)
      Y(z, k) == IF Signs THEN SLane(z, i.b, k, s) ELSE Lane(z, i.b, k, s)
      V(z, k) == IF i.x5 < 16 THEN X(z, k) + Y(z, k) ELSE X(z, k) - Y(z, k)
  IN  MacroLanes(m, i.t, s, LAMBDA y, z, k :
        IF i.x5 % 16 < 3 THEN V(z, k) % Pow(B * s)
        ELSE IF i.x5 \in 12 .. 14 \cup 28 .. 30 THEN SatS(V(z, k), B * s) ELSE SatU(V(z, k), B * s))

\* Eight bytes at a time, sixteen, the carries alone; the first operand is
\* read again for the carry after the low half, or the zeros, were written.
\* m is the machine before, done the one after the low half was written.
HighOf(m, i, a, b, done, low) ==
  CASE i.x5 = 3  -> AddD(a[1], b[1])
    [] i.x5 = 19 -> SubD(a[1], b[1])
    [] i.x5 = 4  -> AddD(AddD(DLane(done, i.a, 0), DLane(done, i.b, 0)), One(LessD(low, DLane(done, i.a, 1))))
    [] i.x5 = 20 -> SubD(SubD(a[1], b[1]), One(LessD(a[2], b[2])))
Finished(m, i, a, b, done, low) == PutD(done, i.t, 0, HighOf(m, i, a, b, done, low))
Halves(m, i, a, b, low) == Finished(m, i, a, b, PutD(m, i.t, 1, low), low)
WideSum(m, i, a, b) == Halves(m, i, a, b, IF i.x5 >= 16 THEN SubD(a[2], b[2]) ELSE AddD(a[2], b[2]))
\* The carry of a sum of sixteen bytes, the borrow of a difference.
CarryOut(a, b, zeros) == LessD(AddD(AddD(a[1], b[1]), One(LessD(AddD(a[2], b[2]), a[2]))), zeros[1])
BorrowOut(a, b) == LessD(a[1], b[1]) \/ LessD(a[2], b[2])
WideSums(m, i) ==
  LET Zeros == PutFlag(m, i.t, FALSE)
  IN  CASE i.x5 \in {3, 4, 19, 20} -> WideSum(m, i, QLane(m, i.a), QLane(m, i.b))
        [] i.x5 = 5  -> PutFlag(m, i.t, CarryOut(QLane(m, i.a), QLane(m, i.b), QLane(Zeros, i.a)))
        [] i.x5 = 6  -> MacroLanes(m, i.t, 4, LAMBDA y, z, k :
                          IF Lane(y, i.a, k, 4) + Lane(y, i.b, k, 4) >= Word THEN 1 ELSE 0)
        [] i.x5 = 21 -> PutFlag(m, i.t, BorrowOut(QLane(Zeros, i.a), QLane(Zeros, i.b)))

\* Greatest and least, with and without sign; the comparison is made again
\* for every byte.
Extremes(m, i) ==
  LET s == SizeOf(i.x5)
      X(z, k) == IF (i.x5 % 8) >= 4 THEN SLane(z, i.a, k, s) ELSE Lane(z, i.a, k, s)
      Y(z, k) == IF (i.x5 % 8) >= 4 THEN SLane(z, i.b, k, s) ELSE Lane(z, i.b, k, s)
  IN  MacroLanes(m, i.t, s, LAMBDA y, z, k :
        IF (i.x5 < 8 /\ X(z, k) > Y(z, k)) \/ (i.x5 >= 8 /\ X(z, k) < Y(z, k))
        THEN Lane(z, i.a, k, s) ELSE Lane(z, i.b, k, s))
\* Averages: the ones with a sign are kept in a variable.
Averages(m, i) ==
  LET s == SizeOf(i.x5)
  IN  MacroLanes(m, i.t, s, LAMBDA y, z, k :
        IF i.x5 >= 20 THEN ((SLane(y, i.a, k, s) + SLane(y, i.b, k, s) + 1) \div 2) % Pow(B * s)
        ELSE (Lane(z, i.a, k, s) + Lane(z, i.b, k, s) + 1) \div 2)
CountZeros(m, i) ==
  LET s == SizeOf(i.x5)
  IN  MacroLanes(m, i.t, s, LAMBDA y, z, k : LeadingZeros(Lane(y, i.b, k, s), B * s))
\* Eight bytes become eight double words, in the target and the registers
\* behind it.
ExtendBytes(m, i) ==
  FoldLeft(LAMBDA x, k :
    LET d == WideD(Extend(Lane(x, i.b, k, 1), B)) IN PutD(x, i.t + k \div 2, k % 2, d), m, Count(8))
AbsoluteDifference(m, i) ==
  LET s == SizeOf(i.x5)
  IN  MacroLanes(m, i.t, s, LAMBDA y, z, k :
        LET d == SLane(y, i.a, k, s) - SLane(y, i.b, k, s) IN (IF d < 0 THEN -d ELSE d) % Pow(B * s))

----------------------------------------------------------------------------
\* Rotations, shifts and logic; a count is taken modulo the lane's bits.

Shifts(m, i) ==
  LET s    == SizeOf(i.x5)
      bits == B * s
      N(y, k) == Lane(y, i.b, k, s) % bits
      Left(v, n) == (v % Pow(bits - n)) * Pow(n)
  IN  MacroLanes(m, i.t, s, LAMBDA y, z, k :
        IF i.x5 < 4 THEN Left(Lane(y, i.a, k, s), N(y, k)) + (Lane(y, i.a, k, s) \div Pow(bits - N(y, k)))
        ELSE IF i.x5 < 8 THEN Left(Lane(z, i.a, k, s), N(y, k))
        ELSE IF i.x5 < 12 THEN Lane(z, i.a, k, s) \div Pow(N(y, k))
        ELSE (SLane(z, i.a, k, s) \div Pow(N(y, k))) % Pow(bits))
ByteShifts(m, i) ==
  MacroLanes(m, i.t, 1, LAMBDA y, z, k :
    LET n == Lane(y, i.b, k, 1) % B
    IN  IF i.x5 = 28 THEN Lane(y, i.a, k, 1) \div Pow(n) ELSE Lane(y, i.a, k, 1) * Pow(n))
VectorLogic(m, i) ==
  MacroLanes(m, i.t, 1, LAMBDA y, z, k :
    LET x == Lane(y, i.a, k, 1)
        v == Lane(y, i.b, k, 1)
    IN  CASE i.x5 = 16 -> x & v
          [] i.x5 = 17 -> x & (ByteMod - 1 - v)
          [] i.x5 = 18 -> x | v
          [] i.x5 = 19 -> x ^^ v
          [] i.x5 = 20 -> ByteMod - 1 - (x | v))
\* The status register is the last word.
Vscr(m, i) ==
  IF i.x5 = 24 THEN PutLane(m, i.t, 3, 4, m.vscr) ELSE [m EXCEPT !.vscr = Lane(m, i.b, 3, 4)]
RotateMask(m, i) ==
  MacroLanes(m, i.t, 4, LAMBDA y, z, k :
    LET n == Lane(y, i.b, k, 4) % W IN Rotl(Lane(y, i.a, k, 4), n) & RotMask(0, n))

----------------------------------------------------------------------------
\* Comparisons set every lane to ones or zeros, and the vector's field of
\* the condition register whether asked to or not.

SetCr6(m, all, any) ==
  SetCrField(m, CrFields - 1, IF all THEN CrEq ELSE IF any THEN CrGt ELSE 0)
\* marked is the target, true the lanes that hold, of n.
Counted(marked, true, n) == SetCr6(marked, Cardinality(true) = n, true # {})

Compares(m, i) ==
  LET low == i.x5 % 16
      s   == SizeOf(low)
      Holds(y, k) ==
        IF low < 3 THEN Lane(y, i.a, k, s) = Lane(y, i.b, k, s)
        ELSE IF low \in 8 .. 10 THEN Lane(y, i.a, k, s) > Lane(y, i.b, k, s)
        ELSE SLane(y, i.a, k, s) > SLane(y, i.b, k, s)
  IN  Counted(MacroLanes(m, i.t, s, LAMBDA y, z, k : IF Holds(y, k) THEN Pow(B * s) - 1 ELSE 0),
              {k \in 0 .. (16 \div s) - 1 : Holds(m, k)}, 16 \div s)

MarkDoubles(m, r, equal) ==
  LET Ones8(on) == IF on THEN <<Word - 1, Word - 1>> ELSE <<0, 0>>
  IN  Counted(PutD(PutD(m, r, 0, Ones8(0 \in equal)), r, 1, Ones8(1 \in equal)), equal, 2)
DiffersOrZero(m, i) ==
  LET low == i.x5 % 16
      s   == IF low = 1 THEN 2 ELSE 1
      Holds(y, k) == \/ Lane(y, i.a, k, s) # Lane(y, i.b, k, s)
                     \/ low = 4 /\ Lane(y, i.a, k, s) = 0
  IN  IF low = 3 THEN MarkDoubles(m, i.t, {k \in 0 .. 1 : DLane(m, i.a, k) = DLane(m, i.b, k)})
      ELSE Counted(MacroLanes(m, i.t, s, LAMBDA y, z, k : IF Holds(y, k) THEN Pow(B * s) - 1 ELSE 0),
                   {k \in 0 .. (16 \div s) - 1 : Holds(m, k)}, 16 \div s)

----------------------------------------------------------------------------
\* Products of the even or the odd lanes, and sums across.

Products(m, i) ==
  LET odd == (i.x5 \div 8) % 2
      signed == (i.x5 % 8) >= 4
      s == SizeOf(i.x5)
      At(k) == 2 * k + odd
      Of(x, y) == IF signed THEN SignedProduct(x, y) ELSE Product(x, y)
      P(h) == Of(Lane(m, i.a, At(h), 4), Lane(m, i.b, At(h), 4))
  IN  IF s = 4 THEN PutD(PutD(m, i.t, 0, P(0)), i.t, 1, P(1))
      ELSE MacroLanes(m, i.t, 2 * s, LAMBDA y, z, k :
             IF signed THEN (SLane(z, i.a, At(k), s) * SLane(z, i.b, At(k), s)) % Pow(2 * B * s)
             ELSE Lane(z, i.a, At(k), s) * Lane(z, i.b, At(k), s))
\* The accumulator is taken without its sign, but for the sum over words,
\* which is made in a word before it is saturated, and wraps.
SumAcross(m, i) ==
  LET Pair(y, k) == SLane(y, i.a, 2 * k, 2) + SLane(y, i.a, 2 * k + 1, 2)
      Two(k) == Wrap(SLane(m, i.b, 2 * k, 4) + SLane(m, i.a, k, 4) + SLane(m, i.a, k + 2, 4))
      \* the odd words are copied from the second operand as it is by then
      Copied(x, k) == PutLane(x, i.t, k, 4, Lane(x, i.b, k, 4))
      Both(x, k) == Copied(PutLane(x, i.t, 2 * k, 4, Two(k)), 2 * k + 1)
  IN  CASE i.x5 = 24 -> MacroLanes(m, i.t, 4, LAMBDA y, z, k :
                          SatU(Lane(y, i.b, k, 4) + SumOver(4, LAMBDA j : Lane(y, i.a, 4 * k + j, 1)), W))
        [] i.x5 = 25 -> MacroLanes(m, i.t, 4, LAMBDA y, z, k : SatS(Lane(y, i.b, k, 4) + Pair(y, k), W))
        [] i.x5 = 26 -> Both(Both(m, 0), 1)
        [] i.x5 = 28 -> MacroLanes(m, i.t, 4, LAMBDA y, z, k :
                          SatS(Lane(y, i.b, k, 4) + SumOver(4, LAMBDA j : SLane(y, i.a, 4 * k + j, 1)), W))

----------------------------------------------------------------------------
\* Merges, splats and packs.

\* Lanes of the one half of two registers by turns.
Merge(m, i) ==
  LET s == SizeOf(i.x5)
      n == 8 \div s
      from == IF i.x5 >= 4 THEN n ELSE 0
  IN  FoldLeft(LAMBDA x, k :
        LET one == PutLane(x, i.t, 2 * k, s, Lane(x, i.a, k + from, s))
        IN  PutLane(one, i.t, 2 * k + 1, s, Lane(one, i.b, k + from, s)), m, Count(n))
Splat(m, i) ==
  LET s == SizeOf(i.x5)
  IN  MacroLanes(m, i.t, s, LAMBDA y, z, k :
        IF i.x5 >= 12 THEN SignedIn(i.a, 5) % Pow(B * s) ELSE Lane(z, i.b, i.a % (16 \div s), s))
MergeEven(m, i) ==
  FoldLeft(LAMBDA x, k :
    LET one == PutLane(x, i.t, 2 * k, 4, Lane(x, i.a, 2 * k, 4))
    IN  PutLane(one, i.t, 2 * k + 1, 4, Lane(one, i.b, 2 * k, 4)), m, Count(2))

Pack(m, i) ==
  LET bytes == i.x5 \in {0, 4, 5, 10}
      s == IF bytes THEN 2 ELSE 4
      d == IF bytes THEN 1 ELSE 2
      Source(k) == IF k < 16 \div (2 * d) THEN i.a ELSE i.b
      X(y, k) == Lane(y, Source(k), k % (16 \div s), s)
      SX(y, k) == SLane(y, Source(k), k % (16 \div s), s)
  IN  MacroLanes(m, i.t, d, LAMBDA y, z, k :
        CASE i.x5 \in {0, 1} -> X(z, k) % Pow(B * d)
          [] i.x5 \in {4, 6} -> SatU(SX(y, k), B * d)
          [] i.x5 \in {5, 7} -> SatS(SX(z, k), B * d)
          [] i.x5 = 10 -> SatU(X(z, k), B * d)
          [] i.x5 = 12 -> SatU(SX(z, k), B * d))
\* Four double words become words.
PackDoubles(m, i) ==
  LET D(k) == DLane(m, IF k < 2 THEN i.a ELSE i.b, k % 2)
      Sat(d) == CASE i.x5 = 19 -> IF d[1] # 0 THEN Word - 1 ELSE d[2]
                  [] i.x5 = 21 -> IF Negative(d[1]) THEN 0 ELSE IF d[1] # 0 THEN Word - 1 ELSE d[2]
                  [] i.x5 = 23 -> IF FitsWord(d) THEN d[2] ELSE IF Negative(d[1]) THEN Top ELSE Top - 1
  IN  MacroLanes(m, i.t, 4, LAMBDA y, z, k : Sat(D(k)))

----------------------------------------------------------------------------
\* Storage.

Aligned(ea, n) == ea - (ea % n)
Lvx(m, i) ==
  FoldLeft(LAMBDA x, k : PutVByte(x, i.t, k, MmuReadByte(x, Aligned(EaX(m, i), 16) + k)), m, Count(16))
Lvsl(m, i) == MacroLanes(m, i.t, 1, LAMBDA y, z, k : (EaX(m, i) % 16) + k)
Lvsr(m, i) == MacroLanes(m, i.t, 1, LAMBDA y, z, k : 16 + (EaX(m, i) % 16) - k)
\* One element, from the address as it is, to the lane it lies in.
LoadElement(m, i, s) == PutLane(m, i.t, (EaX(m, i) \div s) % (16 \div s), s, ReadN(m, EaX(m, i), s))
StoreElement(m, i, s) == WriteN(m, EaX(m, i), Lane(m, i.t, (EaX(m, i) \div s) % (16 \div s), s), s)
Stvx(m, i) ==
  FoldLeft(LAMBDA x, k : MmuWriteByte(x, Aligned(EaX(m, i), 16) + k, x.vr[i.t][k]), m, Count(16))

VectorMem(m, i) ==
  CASE i.op \in {"lvx", "lvxl"} -> Lvx(m, i)
    [] i.op = "lvsl" -> Lvsl(m, i)
    [] i.op = "lvsr" -> Lvsr(m, i)
    [] i.op = "lvebx" -> LoadElement(m, i, 1)
    [] i.op = "lvehx" -> LoadElement(m, i, 2)
    [] i.op = "lvewx" -> LoadElement(m, i, 4)
    [] i.op \in {"stvx", "stvxl"} -> Stvx(m, i)
    [] i.op = "stvebx" -> StoreElement(m, i, 1)
    [] i.op = "stvehx" -> StoreElement(m, i, 2)
    [] i.op = "stvewx" -> StoreElement(m, i, 4)

----------------------------------------------------------------------------
\* The sub-opcodes.

VectorOp(m, i) ==
  LET form == i.x5
  IN  IF i.v = 1
      THEN CASE i.tail \in {0, 1, 2, 4, 5, 7, 9} -> MultiplyAdd(m, i)
             [] i.tail = 10 -> Vsel(m, i)
             [] i.tail = 11 -> Vperm(m, i)
             [] i.tail = 12 -> Vsldoi(m, i)
             [] i.tail = 13 -> Vpermxor(m, i)
             [] i.tail = 27 -> Vpermr(m, i)
             [] i.tail \in 28 .. 31 -> ExtendedSum(m, i)
      ELSE CASE i.tail = 0 /\ form \in {3, 4, 5, 6, 19, 20, 21} -> WideSums(m, i)
             [] i.tail = 0 /\ form \notin {3, 4, 5, 6, 19, 20, 21} -> Sums(m, i)
             [] i.tail = 2 /\ form < 16 /\ form % 4 < 3 -> Extremes(m, i)
             [] i.tail = 2 /\ form \in 16 .. 21 -> Averages(m, i)
             [] i.tail = 2 /\ form = 24 -> ExtendBytes(m, i)
             [] i.tail = 2 /\ form \in 28 .. 30 -> CountZeros(m, i)
             [] i.tail = 3 -> AbsoluteDifference(m, i)
             [] i.tail = 4 /\ form < 16 /\ form % 4 < 3 -> Shifts(m, i)
             [] i.tail = 4 /\ form \in 16 .. 20 -> VectorLogic(m, i)
             [] i.tail = 4 /\ form \in 24 .. 25 -> Vscr(m, i)
             [] i.tail = 4 /\ form \in 28 .. 29 -> ByteShifts(m, i)
             [] i.tail = 5 -> RotateMask(m, i)
             [] i.tail = 6 -> Compares(m, i)
             [] i.tail = 7 -> DiffersOrZero(m, i)
             [] i.tail = 8 /\ form < 16 -> Products(m, i)
             [] i.tail = 8 /\ form >= 16 -> SumAcross(m, i)
             [] i.tail = 12 /\ form < 8 -> Merge(m, i)
             [] i.tail = 12 /\ form \in 8 .. 14 -> Splat(m, i)
             [] i.tail = 12 /\ form = 30 -> MergeEven(m, i)
             [] i.tail = 14 /\ form < 16 -> Pack(m, i)
             [] i.tail = 14 /\ form >= 16 -> PackDoubles(m, i)

=============================================================================
