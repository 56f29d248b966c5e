------------------------------- MODULE MCPpc -------------------------------
(***************************************************************************)
(* Programs for the PowerPC interpreter with bytes of five bits (words of  *)
(* 20): what a compiler writes, over operands around zero, the sign and    *)
(* the ends of a word, and what a system writes to set up translation.     *)
(***************************************************************************)
EXTENDS Ppc

MCRam == 256 .. 703 \cup 8192 .. 8447 \cup 9984 .. 10239
MCGuardWords == {\H68F16, \HD1E2D}
MCConsolePut == {64, 68}

----------------------------------------------------------------------------
\* An assembler.

I0 == [op |-> "", t |-> 0, a |-> 0, b |-> 0, c |-> 0, imm |-> 0, sh |-> 0, mb |-> 0, me |-> 0,
       oe |-> FALSE, rc |-> FALSE, lk |-> FALSE, aa |-> FALSE, upd |-> FALSE, bo |-> 0, bi |-> 0,
       bf |-> 0, bfa |-> 0, spr |-> 0, fxm |-> 0, to |-> 0, v |-> 0, tail |-> 0, x5 |-> 0]
R(op, t, a, b) == [I0 EXCEPT !.op = op, !.t = t, !.a = a, !.b = b]
Lg(op, a, t, b) == R(op, t, a, b)
D(op, t, a, imm) == [I0 EXCEPT !.op = op, !.t = t, !.a = a, !.imm = imm]
Rot(op, a, t, sh, mb, me) == [I0 EXCEPT !.op = op, !.t = t, !.a = a, !.sh = sh, !.b = sh, !.mb = mb, !.me = me]
Cp(op, bf, a, b) == [R(op, 0, a, b) EXCEPT !.bf = bf]
Cpi(op, bf, a, imm) == [D(op, 0, a, imm) EXCEPT !.bf = bf]
BcTo(bo, bi, off) == [I0 EXCEPT !.op = "bc", !.bo = bo, !.bi = bi, !.imm = off]
BTo(off) == [I0 EXCEPT !.op = "b", !.imm = off]
Spr(op, t, n) == [I0 EXCEPT !.op = op, !.t = t, !.spr = n]
Vx(tail, x5, t, a, b) == [R("vector", t, a, b) EXCEPT !.tail = tail, !.x5 = x5]
Va(tail, t, a, b, c) == [R("vector", t, a, b) EXCEPT !.v = 1, !.tail = tail, !.c = c]
F(op, t, a, b, c) == [R(op, t, a, b) EXCEPT !.c = c]
Upd(i) == [i EXCEPT !.upd = TRUE]
Oe(i) == [i EXCEPT !.oe = TRUE, !.rc = TRUE]
Mr(a, t) == Lg("or", a, t, t)

\* Bits of the condition register, and the branches on them.
LT == 0
GT == 1
EQ == 2
SoBit == 3
IfSet == 12
IfClear == 4
Always == 20
CountDown == 16

Org == 4096
Assemble(seq, at) == [pa \in {at + 4 * (k - 1) : k \in 1 .. Len(seq)} |-> seq[(pa - at) \div 4 + 1]]
Program(kind, seq) ==
  [kind |-> kind, code |-> Assemble(seq, Org), pc |-> Org, done |-> Org + 4 * Len(seq), pending |-> "",
   msr |-> 0, gpr |-> <<>>, fpr |-> <<>>, vr |-> <<>>, mem |-> <<>>, cells |-> {}, gives |-> {},
   vgives |-> FALSE, fgives |-> FALSE, probes |-> {}, pages |-> {}, x |-> <<4>>, y |-> <<5>>, out |-> <<8>>,
   fill |-> 0, form |-> "", rel |-> "", calls |-> 0, to |-> 0, from |-> 0, width |-> 0, keep |-> FALSE,
   vreg |-> 0, freg |-> 0, halves |-> 0]

Least == Top
Most == Top - 1
Ends == {0, 1, Most, Least, Word - 1}
Words == Ends \cup {74565, 699050}
Long(a, b) == (3 :> a) @@ (4 :> b)
Pairs == {<<a, b>> : a \in {0, Least, Word - 1, 74565}, b \in {0, 1, Word - 1, 699050}}
In4(p, q) == (3 :> p[1]) @@ (4 :> p[2]) @@ (5 :> q[1]) @@ (6 :> q[2])

----------------------------------------------------------------------------
\* Arithmetic.

TwoWords(kind, seq) ==
  {[Program(kind, seq) EXCEPT !.gpr = In4(p, q), !.x = <<4, 3>>, !.y = <<6, 5>>, !.out = <<8, 7>>] :
     p \in Pairs, q \in Pairs}
OneWord(kind, seq, xs, ys) ==
  {[Program(kind, seq) EXCEPT !.gpr = (4 :> a) @@ (5 :> b)] : a \in xs, b \in ys}
WithOut(ps, out, fill) == {[p EXCEPT !.out = out, !.fill = fill] : p \in ps}

SumPrograms ==
  TwoWords("sum", <<R("addc", 8, 4, 6), R("adde", 7, 3, 5)>>)
  \cup TwoWords("difference", <<R("subfc", 8, 6, 4), R("subfe", 7, 5, 3)>>)
  \cup {[Program("negation", <<Lg("nor", 7, 3, 3), Lg("nor", 8, 4, 4), D("addic", 8, 8, 1), R("addze", 7, 7, 0)>>)
         EXCEPT !.gpr = In4(p, p), !.x = <<4, 3>>, !.out = <<8, 7>>] : p \in Pairs}
  \cup {[Program("negation", <<D("subfic", 8, 4, 0), R("subfze", 7, 3, 0)>>)
         EXCEPT !.gpr = In4(p, p), !.x = <<4, 3>>, !.out = <<8, 7>>] : p \in Pairs}
  \cup {[Program("sum", <<D("addic", 8, 4, Word - 1), R("addme", 7, 3, 0)>>)
         EXCEPT !.gpr = In4(p, <<Word - 1, Word - 1>>), !.x = <<4, 3>>, !.y = <<6, 5>>, !.out = <<8, 7>>] : p \in Pairs}
  \cup {[Program("difference", <<R("subfc", 8, 6, 4), R("subfze", 7, 5, 0)>>)
         EXCEPT !.gpr = In4(<<0, p[2]>>, p), !.x = <<4, 3>>, !.y = <<6, 5>>, !.out = <<8, 7>>] : p \in Pairs}
  \cup {[Program("difference", <<R("subfc", 8, 6, 4), R("subfme", 7, 5, 0)>>)
         EXCEPT !.gpr = In4(<<Word - 1, p[2]>>, p), !.x = <<4, 3>>, !.y = <<6, 5>>, !.out = <<8, 7>>] : p \in Pairs}

ProductPrograms ==
  WithOut(OneWord("product", <<R("mullw", 8, 4, 5), R("mulhwu", 7, 4, 5)>>, Words, Words), <<8, 7>>, 0)
  \cup WithOut(OneWord("product", <<R("mullw", 8, 4, 5), R("mulhw", 7, 4, 5)>>, Words, Words), <<8, 7>>, 1)
  \cup WithOut(OneWord("product", <<R("mul", 7, 4, 5), Spr("mfspr", 8, 0)>>, Words, Words), <<8, 7>>, 1)
  \cup TwoWords("product", <<R("mullw", 8, 4, 6), R("mulhwu", 7, 4, 6), R("mullw", 9, 3, 6), R("add", 7, 7, 9),
                             R("mullw", 9, 4, 5), R("add", 7, 7, 9)>>)
  \cup UNION {OneWord("product", <<D("mulli", 8, 4, n % Half)>>, Words, {Extend(n, 2 * B)}) : n \in {0, 7, 1000, 600}}

Divisors == {1, 3, 1000, Word - 1, Word - 3, Most}
QuotientPrograms ==
  {p \in WithOut(OneWord("quotient", <<R("divw", 8, 4, 5), R("mullw", 7, 8, 5), R("subf", 7, 7, 4)>>, Words, Divisors)
           \cup OneWord("quotient", <<R("divs", 8, 4, 5), Spr("mfspr", 7, 0)>>, Words, Divisors)
           \cup OneWord("quotient", <<R("divwu", 8, 4, 5), R("mullw", 7, 8, 5), R("subf", 7, 7, 4)>>,
                        {0, 1, Most, 74565}, {1, 3, 1000, Most}), <<7, 8>>, 0) :
     ~(p.gpr[4] = Least /\ p.gpr[5] = Word - 1)}

\* Detours that end where they began.
SamePrograms ==
  OneWord("same", <<R("mul", 7, 4, 5), R("div", 8, 7, 5)>>, Words, Divisors)
  \cup {[p EXCEPT !.x = <<4, 5>>, !.out = <<5, 4>>] : p \in
          OneWord("same", <<Lg("xor", 4, 4, 5), Lg("xor", 5, 4, 5), Lg("xor", 4, 4, 5)>>, Words, Words)}
  \cup OneWord("same", <<Lg("nand", 8, 4, 5), Lg("nor", 9, 4, 4), Lg("orc", 9, 9, 5), Lg("eqv", 8, 8, 9),
                         Lg("and", 8, 8, 4)>>, Words, Words)
  \cup OneWord("same", <<Lg("cntlzw", 7, 4, 0), Lg("slw", 8, 4, 7), Lg("srw", 8, 8, 7)>>, Words, {0})
  \cup UNION {OneWord("same", <<Rot("rlwinm", 8, 4, n, 17, 2), Rot("rlwinm", 9, 4, n, 3, 16), Lg("or", 8, 8, 9),
                                Rot("rlwinm", 8, 8, W - n, 0, W - 1)>>, Words, {0}) : n \in {1, 10, 19}}
  \cup OneWord("same", <<Lg("maskg", 7, 5, 6), Lg("andc", 9, 4, 7), Mr(8, 9), Lg("maskir", 8, 4, 7)>>, Words, {3, 17})
  \cup OneWord("same", <<Mr(8, 4), Lg("rrib", 8, 4, 0)>>, Words, {0})
  \cup OneWord("same", <<R("nabs", 7, 4, 0), R("neg", 7, 7, 0), R("abs", 9, 4, 0), R("subf", 7, 7, 9),
                         R("add", 8, 4, 7)>>, Words, {0})

\* Shifts of two words by less than a word, and by more.
ShiftTwo(kind, under, over) ==
  {[Program(kind, <<Cpi("cmpli", 0, 5, W), BcTo(IfClear, LT, 4 * (Len(under) + 2))>> \o under
                  \o <<BTo(4 * (Len(over) + 1))>> \o over)
     EXCEPT !.gpr = (3 :> p[1]) @@ (4 :> p[2]) @@ (5 :> n), !.x = <<4, 3>>, !.out = <<8, 7>>] :
     p \in {<<74565, 699050>>, <<Word - 1, 1>>, <<Least, Most>>}, n \in {0, 1, 7, W - 1, W, W + 3, 2 * W - 1}}
ShiftPrograms ==
  ShiftTwo("left", <<D("subfic", 9, 5, W), Lg("slw", 7, 3, 5), Lg("srw", 9, 4, 9), Lg("or", 7, 7, 9), Lg("slw", 8, 4, 5)>>,
           <<D("addi", 9, 5, Half - W), Lg("slw", 7, 4, 9), D("addi", 8, 0, 0)>>)
  \cup ShiftTwo("right", <<D("subfic", 9, 5, W), Lg("srw", 8, 4, 5), Lg("slw", 9, 3, 9), Lg("or", 8, 8, 9), Lg("srw", 7, 3, 5)>>,
           <<D("addi", 9, 5, Half - W), Lg("srw", 8, 3, 9), D("addi", 7, 0, 0)>>)
  \cup ShiftTwo("algebraic", <<D("subfic", 9, 5, W), Lg("srw", 8, 4, 5), Lg("slw", 9, 3, 9), Lg("or", 8, 8, 9), Lg("sraw", 7, 3, 5)>>,
           <<D("addi", 9, 5, Half - W), Lg("sraw", 8, 3, 9), Rot("srawi", 7, 3, W - 1, 0, 0)>>)

FieldPrograms ==
  {[Program("field", <<Rot("rlwinm", 8, 4, (W - f) % W, W - n, W - 1)>>)
     EXCEPT !.gpr = (4 :> w), !.from = f, !.width = n] : f \in {0, 3, 12}, n \in {1, 5, 8}, w \in Words}
  \cup {[Program("field", <<D("addi", 9, 0, (W - f) % W), Rot("rlwnm", 8, 4, 9, W - n, W - 1)>>)
     EXCEPT !.gpr = (4 :> w), !.from = f, !.width = n] : f \in {3, 12}, n \in {5, 8}, w \in Words}
  \cup {[Program("field", <<Mr(8, 5), Rot("rlwimi", 8, 4, n, W - n - 5, W - 1 - n)>>)
     EXCEPT !.gpr = (4 :> w) @@ (5 :> v), !.to = n, !.width = 5, !.keep = TRUE] :
       n \in {0, 4, 15}, w \in Words, v \in {0, Word - 1, 699050}}

\* Doubles: halves that are converted, and sums of products.
HalvesOf == {0, 1, 2, 3, 4, 5, 7, 1001, -1, -2, -3, -4, -5, -1001}
FloatPrograms ==
  {[Program(kind, <<F(IF kind = "truncated" THEN "fctiwz" ELSE "fctiw", 2, 0, 1, 0), D("stfd", 2, 1, 0), D("lwz", 8, 1, 4)>>)
     EXCEPT !.msr = Pow(FP), !.gpr = (1 :> 256), !.fpr = (1 :> Number(h)), !.cells = 256 .. 263] :
       kind \in {"truncated", "nearest"}, h \in HalvesOf}
  \cup {[Program("fused", <<F("fmul", 4, 1, 0, 2), F("fadd", 4, 4, 3, 0), F("fsub", 5, 4, 3, 0), F("fdiv", 5, 5, 2, 0),
                            F("fsub", 6, 5, 1, 0), F("fabs", 6, 0, 6, 0), F("fsqrt", 6, 0, 6, 0), F("fsel", 7, 6, 3, 4)>>)
     EXCEPT !.msr = Pow(FP), !.fpr = (1 :> Number(a)) @@ (2 :> Number(b)) @@ (3 :> Number(c)), !.freg = 7,
            !.halves = (a * b) \div 2 + c] : a \in {-6, 0, 4}, b \in {-4, 2}, c \in {0, 3, -8}}

\* Vectors.
Bytes1 == [k \in 0 .. 15 |-> (7 * k + 3) % ByteMod]
Bytes2 == [k \in 0 .. 15 |-> (ByteMod - 1 - 5 * k) % ByteMod]
VectorProgram(kind, seq, reg, one, two) ==
  [Program(kind, seq) EXCEPT !.vr = (1 :> one) @@ (2 :> two), !.vreg = reg]
VectorPrograms ==
  UNION {
    {VectorProgram("lanes product", <<Vx(8, 0, 5, 1, 2), Vx(8, 8, 6, 1, 2), Vx(12, 1, 7, 5, 6), Vx(12, 5, 8, 5, 6),
                                      Vx(14, 0, 9, 7, 8)>>, 9, v[1], v[2]),
     VectorProgram("lanes greatest", <<Vx(6, 8, 5, 1, 2), Va(10, 6, 1, 2, 5)>>, 6, v[1], v[2]),
     VectorProgram("lanes greatest", <<Vx(2, 0, 6, 1, 2)>>, 6, v[1], v[2]),
     VectorProgram("lanes total", <<Vx(8, 24, 5, 1, 0), Va(12, 6, 5, 5, 4), Vx(0, 2, 5, 5, 6), Va(12, 6, 5, 5, 8),
                                    Vx(0, 2, 5, 5, 6)>>, 5, v[1], v[2])} :
    v \in {<<Bytes1, Bytes2>>, <<Bytes2, Bytes1>>, <<Bytes1, Bytes1>>}}

----------------------------------------------------------------------------
\* Branches.

Relations == {"<", ">", "=", "<=", ">=", "#"}
\* The branch that a relation takes after a comparison in a field.
Test(rel, f) ==
  CASE rel = "<" -> <<IfSet, 4 * f + LT>>     [] rel = ">" -> <<IfSet, 4 * f + GT>>
    [] rel = "=" -> <<IfSet, 4 * f + EQ>>     [] rel = "<=" -> <<IfClear, 4 * f + GT>>
    [] rel = ">=" -> <<IfClear, 4 * f + LT>>  [] rel = "#" -> <<IfClear, 4 * f + EQ>>
\* The branch skips one of two assignments.
Choose(compare, test) ==
  compare \o <<BcTo(test[1], test[2], 12), D("addi", 3, 0, 2), BTo(8), D("addi", 3, 0, 1)>>
Comparisons(form) ==
  IF form = "signed" THEN {<<0, Cp("cmp", 0, 4, 5)>>, <<2, Cp("cmp", 2, 4, 5)>>}
  ELSE {<<0, Cp("cmpl", 0, 4, 5)>>, <<2, Cp("cmpl", 2, 4, 5)>>}
ChoicePrograms ==
  {[Program("choice", Choose(<<c[2]>>, Test(rel, c[1]))) EXCEPT !.gpr = (4 :> a) @@ (5 :> b), !.form = "signed", !.rel = rel] :
     c \in Comparisons("signed"), rel \in Relations, a \in Ends, b \in Ends}
  \cup {[Program("choice", Choose(<<c[2]>>, Test(rel, c[1]))) EXCEPT !.gpr = (4 :> a) @@ (5 :> b), !.form = "unsigned", !.rel = rel] :
     c \in Comparisons("unsigned"), rel \in Relations, a \in Ends, b \in Ends}
  \* by the logic of the condition register: a field of its own for the answer
  \cup {[Program("choice", Choose(<<Cp("cmp", 1, 4, 5), q>>, <<IfSet, 12>>))
         EXCEPT !.gpr = (4 :> a) @@ (5 :> b), !.form = "signed", !.rel = IF q.op = "cror" THEN "<=" ELSE ">"] :
     q \in {R("cror", 12, 4 + LT, 4 + EQ), R("crnor", 12, 4 + LT, 4 + EQ)}, a \in Ends, b \in Ends}
  \* unordered is below nothing and equal to nothing: <= is not "clear >"
  \cup {[Program("choice", Choose(<<[F("fcmpu", 0, 1, 2, 0) EXCEPT !.bf = 1]>> \o
                      (IF rel = "<=" THEN <<R("cror", 12, 4 + LT, 4 + EQ)>> ELSE IF rel = ">=" THEN <<R("cror", 12, 4 + GT, 4 + EQ)>> ELSE <<>>),
                      IF rel \in {"<=", ">="} THEN <<IfSet, 12>> ELSE Test(rel, 1)))
         EXCEPT !.msr = Pow(FP), !.fpr = (1 :> u) @@ (2 :> v), !.form = "doubles", !.rel = rel] :
     rel \in Relations, u \in {Number(-3), Number(0), Number(4), Nan}, v \in {Number(-3), Number(0), Nan}}
  \* through a save of the register and its restoration
  \cup {[Program("choice", Choose(<<Cp("cmp", 0, 4, 5), [R("mfcr", 9, 0, 0) EXCEPT !.fxm = 0], Cp("cmpl", 0, 0, 0),
                                    [R("mtcrf", 9, 0, 0) EXCEPT !.fxm = 31], [R("mcrf", 0, 0, 0) EXCEPT !.bf = 3]>>,
                                  Test(rel, 3)))
         EXCEPT !.gpr = (4 :> a) @@ (5 :> b), !.form = "signed", !.rel = rel] : rel \in {"<", "="}, a \in Ends, b \in Ends}

TrapBits(rel, form) ==
  CASE rel = "<" -> IF form = "signed" THEN 16 ELSE 2  [] rel = ">" -> IF form = "signed" THEN 8 ELSE 1
    [] rel = "=" -> 4                                  [] rel = "<=" -> IF form = "signed" THEN 20 ELSE 6
    [] rel = ">=" -> IF form = "signed" THEN 12 ELSE 5 [] rel = "#" -> IF form = "signed" THEN 24 ELSE 3
TrapPrograms ==
  {[Program("trap", <<[R("tw", 0, 4, 5) EXCEPT !.to = TrapBits(rel, form)]>>)
     EXCEPT !.gpr = (4 :> a) @@ (5 :> b), !.form = form, !.rel = rel] :
     rel \in Relations, form \in {"signed", "unsigned"}, a \in {0, Most, Word - 1}, b \in {0, Most, Word - 1}}

LoopPrograms ==
  {[Program("loop", <<Spr("mtspr", 4, SPR_CTR), R("add", 3, 3, 5), BcTo(CountDown, 0, -4)>>)
     EXCEPT !.gpr = (4 :> n) @@ (5 :> w)] : n \in {1, 2, 5}, w \in {3, Word - 1}}

\* A subroutine called twice, by a link and by the counter, that calls
\* another and keeps its link on the stack.
CallPrograms ==
  {[Program("calls", <<[BTo(16) EXCEPT !.lk = TRUE], Spr("mtspr", 6, SPR_CTR),
                       [I0 EXCEPT !.op = "bcctr", !.bo = Always, !.lk = TRUE], BTo(36),
                       Spr("mfspr", 9, SPR_LR), Upd(D("stw", 9, 1, Half - 4)), [BTo(16) EXCEPT !.lk = TRUE],
                       D("lwz", 9, 1, 0), D("addi", 1, 1, 4), BTo(12),
                       D("addi", 3, 3, 1), [I0 EXCEPT !.op = "bclr", !.bo = Always],
                       Spr("mtspr", 9, SPR_LR), [I0 EXCEPT !.op = "bclr", !.bo = Always]>>)
     EXCEPT !.gpr = (1 :> 300) @@ (6 :> Org + 16), !.calls = 2, !.cells = 296 .. 299, !.done = Org + 48]}

\* Three numbers in order, by comparisons and exchanges.
Exchange(a, b) == <<Cp("cmp", 0, a, b), BcTo(IfClear, GT, 16), Mr(9, a), Mr(a, b), Mr(b, 9)>>
ExchangeU(a, b) == <<Cp("cmpl", 7 - 3, a, b), BcTo(IfClear, 16 + GT, 16), Mr(9, a), Mr(a, b), Mr(b, 9)>>
SortPrograms ==
  {[Program("sort", IF form = "signed" THEN Exchange(4, 5) \o Exchange(5, 6) \o Exchange(4, 5)
                    ELSE ExchangeU(4, 5) \o ExchangeU(5, 6) \o ExchangeU(4, 5))
     EXCEPT !.gpr = (4 :> a) @@ (5 :> b) @@ (6 :> c), !.form = form] :
     form \in {"signed", "unsigned"}, a \in {0, Most, Word - 1}, b \in {1, Least}, c \in {0, Word - 1, 5}}

----------------------------------------------------------------------------
\* Storage.

Gives(from, to, bits, sign) == [from |-> from, to |-> to, bits |-> bits, sign |-> sign]
Storage(seq, at, n, gives) ==
  {[Program("storage", seq) EXCEPT !.gpr = (1 :> at) @@ (4 :> a) @@ (5 :> 74565), !.cells = at .. at + n - 1, !.gives = gives] :
     a \in {699050, Word - 1, Most, 12345}}
StoragePrograms ==
  UNION {
    Storage(<<D("stw", 4, 1, 0), D("lwz", 8, 1, 0)>>, at, 4, {Gives(4, 8, W, FALSE)})
    \cup Storage(<<D("sth", 4, 1, 0), D("lhz", 8, 1, 0), D("lha", 9, 1, 0)>>, at, 2,
                 {Gives(4, 8, 2 * B, FALSE), Gives(4, 9, 2 * B, TRUE)})
    \cup Storage(<<D("stb", 4, 1, 0), D("lbz", 8, 1, 0), Lg("extsb", 9, 8, 0)>>, at, 1,
                 {Gives(4, 8, B, FALSE), Gives(4, 9, B, TRUE)})
    \cup Storage(<<R("stwbrx", 4, 0, 1), R("lwbrx", 8, 0, 1)>>, at, 4, {Gives(4, 8, W, FALSE)})
    \cup Storage(<<R("sthbrx", 4, 0, 1), R("lhbrx", 8, 0, 1)>>, at, 2, {Gives(4, 8, 2 * B, FALSE)})
    \* the bytes of a reversed store, taken one by one
    \cup Storage(<<R("stwbrx", 4, 0, 1), D("lbz", 6, 1, 3), D("lbz", 7, 1, 2), D("lbz", 8, 1, 1), D("lbz", 9, 1, 0),
                   Rot("rlwimi", 9, 8, B, W - 2 * B, W - 1 - B), Rot("rlwimi", 9, 7, 2 * B, W - 3 * B, W - 1 - 2 * B),
                   Rot("rlwimi", 9, 6, 3 * B, 0, B - 1)>>, at, 4, {Gives(4, 9, W, FALSE)})
    \cup Storage(<<R("lwarx", 7, 0, 1), R("stwcx.", 4, 0, 1), R("lwzx", 8, 0, 1)>>, at, 4, {Gives(4, 8, W, FALSE)})
    \cup Storage(<<R("sthx", 4, 0, 1), R("lhzx", 8, 0, 1), R("lhax", 9, 0, 1), R("stbx", 4, 0, 1), R("lbzx", 7, 0, 1)>>, at, 2,
                 {Gives(4, 8, 2 * B, FALSE), Gives(4, 9, 2 * B, TRUE), Gives(4, 7, B, FALSE)})
    \cup Storage(<<R("stwx", 4, 0, 1), R("eciwx", 8, 0, 1), R("ecowx", 5, 0, 1), R("lwzx", 9, 0, 1)>>, at, 4,
                 {Gives(4, 8, W, FALSE), Gives(5, 9, W, FALSE)}) :
    at \in {320, 321, 323}}
  \cup {[p EXCEPT !.cells = 312 .. 323] : p \in
          Storage(<<Upd(D("stw", 4, 1, Half - 8)), D("addi", 1, 1, 8), Upd(D("lwz", 8, 1, Half - 8))>>, 320, 4, {Gives(4, 8, W, FALSE)})}
  \* registers in a row, and as strings of a count in the exception register
  \cup {[Program("storage", <<D("stmw", 28, 1, 0), D("addi", 28, 0, 0), D("addi", 31, 0, 0), D("lmw", 28, 1, 0)>>)
         EXCEPT !.gpr = (1 :> 321) @@ [r \in 28 .. 31 |-> 30000 * (r - 20)], !.cells = 321 .. 336,
                !.gives = {Gives(r, r, W, FALSE) : r \in 28 .. 31}]}
  \cup {[Program("storage", <<Spr("mtspr", 6, SPR_XER), R("stswx", n, 0, 1), R("lswx", n - 12, 0, 1)>>)
         EXCEPT !.gpr = (1 :> 321) @@ (6 :> c * Pow(W - 7)) @@ [r \in 20 .. 31 |-> 30000 * (r - 10)],
                !.cells = 321 .. (IF c = 0 THEN 352 ELSE 320 + c),
                !.gives = {Gives(r, r - 12, W, FALSE) : r \in n .. n + (IF c = 0 THEN 7 ELSE c \div 4 - 1)}] :
         c \in {0, 4, 8}, n \in {20, 24}}
  \* vectors, aligned and by two loads and a permutation
  \cup {[Program("storage", <<R("stvx", 8, 0, 1), R("lvx", 9, 0, 1)>>)
         EXCEPT !.gpr = (1 :> at), !.vr = (8 :> Bytes1), !.cells = 320 .. 335, !.vgives = TRUE] : at \in {320, 325}}
  \cup {[Program("storage", <<R("lvsl", 5, 0, 1), R("lvx", 6, 0, 1), R("lvx", 7, 10, 1), Va(11, 9, 6, 7, 5)>>)
         EXCEPT !.gpr = (1 :> at) @@ (10 :> 15), !.vr = (8 :> Bytes1), !.vgives = TRUE,
                !.mem = [pa \in at .. at + 15 |-> Bytes1[pa - at]]] : at \in {320, 321, 328, 335}}
  \cup {[Program("storage", <<R("stvewx", 8, 0, 1), R("stvehx", 8, 10, 1), R("stvebx", 8, 11, 1), R("stvebx", 8, 12, 1),
                              R("lvewx", 9, 0, 1), R("lvehx", 9, 10, 1), R("lvebx", 9, 11, 1), R("lvebx", 9, 12, 1)>>)
         EXCEPT !.gpr = (1 :> 320) @@ (10 :> 4) @@ (11 :> 6) @@ (12 :> 7), !.cells = 320 .. 327, !.vgives = TRUE,
                !.vr = (8 :> [k \in 0 .. 15 |-> IF k < 8 THEN Bytes1[k] ELSE 0])]}
  \cup {[Program("storage", <<D("stfd", 8, 1, 0), D("lfd", 9, 1, 0)>>)
         EXCEPT !.gpr = (1 :> 321), !.msr = Pow(FP), !.fpr = (8 :> x), !.cells = 321 .. 328, !.fgives = TRUE] :
         x \in {Number(-7), Fp(3, 77), Nan}}

----------------------------------------------------------------------------
\* Translation.

Both == Pow(IR) + Pow(DR)
\* The registers of a block: its start, its length in least blocks and who
\* may use it; where it maps to.
Upper(start, blocks, who) == start + 4 * (blocks - 1) + who
Write(spr, value) == [spr |-> spr, value |-> value]
BatSequence(ws, msr) ==
  [k \in 1 .. 2 * Len(ws) + 2 |->
     IF k <= 2 * Len(ws)
     THEN IF k % 2 = 1 THEN D("addis", 9, 0, ws[(k + 1) \div 2].value \div Half)
          ELSE Spr("mtspr", 20 + k \div 2, ws[k \div 2].spr)
     ELSE IF k = 2 * Len(ws) + 1 THEN R("mtmsr", 20, 0, 0) ELSE R("sync", 0, 0, 0)]
BatProgram(ws, msr, probes) ==
  [Program("mapped", BatSequence(ws, msr))
     EXCEPT !.gpr = (20 :> msr) @@ [r \in 21 .. 20 + Len(ws) |-> ws[r - 20].value], !.probes = probes]
Orders(n) == {f \in [1 .. n -> 1 .. n] : \A i, j \in 1 .. n : i # j => f[i] # f[j]}
BatProbes == {0, 256, 511, 512, 131072, 131327, 131328, 132095, 132096, 262144, 262400, 263167, 264192}
BlockWrites ==
  << Write(528, Upper(131072, 4, 3)), Write(529, 256), Write(544, Upper(262144, 8, 2)), Write(545, 2048) >>
BlockPrograms ==
  {BatProgram([k \in 1 .. 4 |-> BlockWrites[f[k]]] \o <<Write(528, Upper(131072, 1, 1)), Write(545, 4096)>>, msr, BatProbes) :
     f \in Orders(4), msr \in {Both, Both + Pow(PR), Pow(IR)}}

\* Code that runs at another address than it lies at.
MovedPrograms ==
  {[Program("calls", <<Spr("mtspr", 21, 528), Spr("mtspr", 22, 529), R("mtmsr", 20, 0, 0),
                       [I0 EXCEPT !.op = "b", !.aa = TRUE, !.imm = 131072 + 16], D("addi", 3, 3, 1)>>)
     EXCEPT !.gpr = (20 :> Both) @@ (21 :> Upper(131072, 1, 2)) @@ (22 :> Org), !.calls = 1,
            !.done = 131072 + 20, !.probes = {Org, 131072, 131072 + 255, 131072 + 256}]}

\* A table of 32 groups at 8192; an entry goes to the group its hash chooses,
\* a second one to the group of the complement.
Table == 8192
Groups == 32
Entry(vsid, page, frame, second, slot) ==
  [vsid |-> vsid, page |-> page, frame |-> frame, second |-> second, slot |-> slot]
GroupOf(p) ==
  LET h == ((p.vsid % 1024) ^^ p.page) % Groups IN IF p.second = 1 THEN Groups - 1 - h ELSE h
EntryBytes(p) ==
  LET at == Table + 64 * GroupOf(p) + 8 * p.slot
      one == Top + p.vsid * 128 + p.second * 64 + p.page \div 16
      two == p.frame * 64
      ByteOf(w, k) == (w \div Pow(B * (3 - k))) % ByteMod
  IN  [pa \in at .. at + 7 |-> IF pa < at + 4 THEN ByteOf(one, pa - at) ELSE ByteOf(two, pa - at - 4)]
TableOf(pages) == FoldSet(LAMBDA p, mem : EntryBytes(p) @@ mem, <<>>, pages)
PageAt(seg, page, off) == seg * Pow(SegShift) + page * 64 + off

\* Nine pages of one segment for the first group, the last by the second;
\* the same frames again under another segment.
FullGroup ==
  {Entry(3, 32 * k + 3, 4 + (k % 4), 0, k) : k \in 0 .. 7} \cup {Entry(3, 32 * 9 + 3, 10, 1, 0)}
Alias == {Entry(5, 4, 4, 0, 0), Entry(5, 5, 6, 0, 1), Entry(7, 6, 4, 0, 2), Entry(7, 7, 6, 0, 3)}
Paged(kind, pages, seq) ==
  [Program(kind, <<R("mtsr", 21, 0, 0), [R("mtsr", 21, 0, 0) EXCEPT !.sh = 1], [R("mtsr", 22, 0, 0) EXCEPT !.sh = 2],
                   Spr("mtspr", 23, SPR_SDR1), R("mtmsr", 20, 0, 0)>> \o seq)
     EXCEPT !.gpr = (20 :> Pow(DR)), !.pages = pages, !.mem = TableOf(pages)]
WithRegisters(p, gpr) == [p EXCEPT !.gpr = gpr @@ p.gpr]
System(v1, v2) == (21 :> v1) @@ (22 :> v2) @@ (23 :> Table + 1)
PagePrograms ==
  {[WithRegisters(Paged("mapped", FullGroup, <<R("mtsrin", 22, 0, 24), Spr("mtspr", 0, SPR_SDR1)>>), System(3, v) @@ (24 :> Pow(SegShift)))
      EXCEPT !.probes = {PageAt(s, 32 * k + 3, o) : s \in {1, 2}, k \in {0, 1, 7, 8, 9}, o \in {0, 63}}] : v \in {3, 5}}
  \* stored through two pages that are apart, and read through two others
  \cup {[WithRegisters(Paged("storage", Alias, <<D("stw", 4, 1, 0), D("lwz", 8, 2, 0), R("stwbrx", 5, 0, 1), R("lwbrx", 9, 0, 2)>>),
                       System(5, 7) @@ (1 :> PageAt(1, 4, o)) @@ (2 :> PageAt(2, 6, o)) @@ (4 :> 699050) @@ (5 :> 74565))
          EXCEPT !.cells = {IF n < 64 THEN 256 + n ELSE 384 + n - 64 : n \in o .. o + 3},
                 !.gives = {Gives(4, 8, W, FALSE), Gives(5, 9, W, FALSE)},
                 !.probes = {PageAt(1, 4, 0), PageAt(1, 5, 1), PageAt(2, 6, 63), PageAt(2, 8, 0), PageAt(3, 4, 0)}] :
        o \in {0, 61, 62}}

\* The writes a system makes for DBAT0.
DataBlockPrograms ==
  {BatProgram(<<Write(536, Upper(262144, 8, 2)), Write(537, 2048)>>, Both, BatProbes)}

----------------------------------------------------------------------------
\* Everything else, one after the other.

VectorForms ==
  {Va(t, 10, 1, 2, 3) : t \in {0, 1, 2, 4, 5, 7, 9, 13, 27, 28, 29, 30, 31}}
  \cup {Vx(0, x, 10, 1, 2) : x \in {0, 1, 2, 3, 4, 5, 6, 8, 9, 10, 12, 13, 14, 16, 17, 18, 19, 20, 21, 24, 25, 26, 28, 29, 30}}
  \cup {Vx(2, x, 10, 1, 2) : x \in {0, 1, 2, 4, 5, 6, 8, 9, 10, 12, 13, 14, 16, 17, 18, 20, 21, 24, 28, 29, 30}}
  \cup {Vx(3, x, 10, 1, 2) : x \in 0 .. 2}
  \cup {Vx(4, x, 10, 1, 2) : x \in {0, 1, 2, 4, 5, 6, 8, 9, 10, 12, 13, 14, 16, 17, 18, 19, 20, 24, 25, 28, 29}}
  \cup {Vx(5, 0, 10, 1, 2)} \cup {Vx(6, x, 10, 1, 2) : x \in {0, 1, 2, 8, 9, 10, 12, 13, 14}}
  \cup {Vx(7, x, 10, 1, 2) : x \in {0, 1, 3, 4}}
  \cup {Vx(8, x, 10, 1, 2) : x \in {0, 1, 2, 4, 5, 6, 8, 9, 10, 12, 13, 14, 24, 25, 26, 28}}
  \cup {Vx(12, x, 10, 1, 2) : x \in {0, 1, 2, 4, 5, 6, 8, 9, 10, 12, 13, 14, 30}}
  \cup {Vx(14, x, 10, 1, 2) : x \in {0, 1, 4, 5, 6, 7, 10, 12, 19, 21, 23}}
Scalars ==
  {Oe(R(op, 10, 4, 5)) : op \in ArithmeticOps31} \cup {[Lg(op, 10, 4, 5) EXCEPT !.rc = TRUE] : op \in LogicOps31}
  \cup {D(op, IF op \in ImmediateLogic THEN 4 ELSE 10, IF op \in ImmediateLogic THEN 10 ELSE 4, 700) :
          op \in ImmediateLogic \cup {"mulli", "subfic", "dozi", "addic", "addi", "addis"}}
  \cup {R(op, 3, 5, 9) : op \in CrOps} \cup {R(op, 0, 0, 0) : op \in NoOps}
  \cup {[R("mcrxr", 0, 0, 0) EXCEPT !.bf = 2], [R("mfcr", 10, 0, 0) EXCEPT !.fxm = 4], [R("mfcr", 10, 0, 0) EXCEPT !.fxm = 6],
        R("mfmsr", 10, 0, 0), Spr("mftb", 10, SPR_TBU), Spr("mfspr", 10, SPR_PVR), R("mfsr", 10, 0, 0), R("mfsrin", 10, 0, 4),
        Spr("mtspr", 4, SPR_SRR0), Spr("mtspr", 4, SPR_SRR1), Spr("mtspr", 4, SPR_DEC), R("lvsr", 11, 0, 4),
        R("lswi", 12, 31, 0), R("stswi", 12, 30, 0), R("dcbz", 0, 0, 31)}
Floats ==
  {[F(op, 10, 1, 2, 3) EXCEPT !.rc = TRUE] : op \in FusedOps \cup ArithmeticOps \cup {"mffs"}}
  \cup {F("mtfsf", 0, 0, 10, 0), [F("mtfsf", 0, 0, 10, 0) EXCEPT !.fxm = 255], [F("mtfsfi", 0, 0, 0, 0) EXCEPT !.bf = 6, !.imm = 8],
        F("mtfsb1", 0, 4, 0, 0), F("mtfsb0", 0, 4, 0, 0), [F("fcmpo", 0, 1, 4, 0) EXCEPT !.bf = 1],
        F("fctiw", 10, 0, 4, 0), F("fctiwz", 10, 0, 5, 0), D("stfs", 1, 31, 0), D("lfs", 11, 31, 0)}
\* The rest runs from two states of the registers; lswi and stswi find their
\* addresses by their own encoding.
Listed(S) == FoldSet(LAMBDA x, list : Append(list, x), <<>>, S)
AnyPrograms ==
  LET rest == Listed(Scalars) \o Listed(VectorForms) \o Listed(Floats) \o <<Cpi("cmpi", 0, 4, 7)>>
  IN  {[Program("any", rest)
          EXCEPT !.msr = Pow(FP), !.vr = (1 :> Bytes1) @@ (2 :> v) @@ (3 :> [k \in 0 .. 15 |-> k % 3]),
                 !.gpr = (4 :> a) @@ (5 :> 74565) @@ (31 :> 416) @@ (30 :> Wrap(480 - 1450)),
                 !.fpr = (1 :> Number(9)) @@ (2 :> Number(-4)) @@ (3 :> Number(2)) @@ (4 :> Nan) @@ (5 :> Number(Infinity)),
                 !.cells = 416 .. 543] : a \in {1, Least, 699050}, v \in {Bytes1, Bytes2}}
\* An exception that ends a block: a service called, a unit that is off, a
\* decrementer that is due once interrupts are on.
EndPrograms ==
  {[Program("any", <<i, D("addi", 3, 0, 1)>>) EXCEPT !.gpr = (4 :> Pow(EE)), !.pending = "any"] :
     i \in {R("sc", 0, 0, 0), F("fadd", 1, 1, 1, 0), [D("twi", 0, 4, 0) EXCEPT !.to = 31]}}
  \cup {[Program("any", <<Spr("mtspr", 5, SPR_DEC), R("mtmsr", 4, 0, 0), D("addi", 3, 0, 1)>>)
          EXCEPT !.gpr = (4 :> Pow(EE)) @@ (5 :> Word - 1)]}

MCPrograms ==
  SumPrograms \cup ProductPrograms \cup QuotientPrograms \cup SamePrograms \cup ShiftPrograms \cup FieldPrograms
    \cup FloatPrograms \cup VectorPrograms \cup ChoicePrograms \cup TrapPrograms \cup LoopPrograms \cup CallPrograms
    \cup SortPrograms \cup StoragePrograms \cup BlockPrograms \cup MovedPrograms \cup PagePrograms
    \cup AnyPrograms \cup EndPrograms

=============================================================================
