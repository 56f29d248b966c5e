-------------------------------- MODULE Ppc --------------------------------
(***************************************************************************)
(* The PowerPC interpreter of src/cpu/interpreter.c as a state machine: a  *)
(* guest program, given as the instructions at physical addresses, is run  *)
(* one instruction at a time from the registers and the memory it starts   *)
(* with (PpcExecuteBlock), until an exception is pending or there is no    *)
(* more code.  What a program is written for, by the rules of the          *)
(* architecture, is what the properties ask of it: a result is worked out  *)
(* bit by bit, a branch from the relation of the two numbers, a            *)
(* translation from the list of pages and the arithmetic of blocks.        *)
(***************************************************************************)
EXTENDS PpcFloat

CONSTANT Programs  \* the guest programs

VARIABLES
  prog,   \* the program that is run
  cpu     \* the machine

vars == <<prog, cpu>>

----------------------------------------------------------------------------
\* The instructions.

NoOps == {"sync", "isync", "eieio", "dcbst", "dcbi", "icbi", "tlbie", "tlbiel"}
ImmediateLogic == {"ori", "oris", "xori", "xoris", "andi.", "andis."}
CrOps == {"crnor", "crandc", "crxor", "crnand", "crand", "creqv", "crorc", "cror"}
VectorMemOps ==
  {"lvx", "lvxl", "lvsl", "lvsr", "lvebx", "lvehx", "lvewx", "stvx", "stvxl", "stvebx", "stvehx", "stvewx"}

\* Opcode 31 where it computes: the target is t, or a for logic.
Arithmetic31(m, i) ==
  CASE i.op = "subfc" -> Subfc(m, i)    [] i.op = "addc" -> Addc(m, i)
    [] i.op = "subf" -> Subf(m, i)      [] i.op = "neg" -> Neg(m, i)
    [] i.op = "subfe" -> Subfe(m, i)    [] i.op = "adde" -> Adde(m, i)
    [] i.op = "subfze" -> Subfze(m, i)  [] i.op = "addze" -> Addze(m, i)
    [] i.op = "subfme" -> Subfme(m, i)  [] i.op = "addme" -> Addme(m, i)
    [] i.op = "add" -> Add(m, i)        [] i.op = "mulhwu" -> Mulhwu(m, i)
    [] i.op = "mulhw" -> Mulhw(m, i)    [] i.op = "mullw" -> Mullw(m, i)
    [] i.op = "mul" -> Mul(m, i)        [] i.op = "div" -> Div(m, i)
    [] i.op = "divs" -> Divs(m, i)      [] i.op = "divwu" -> Divwu(m, i)
    [] i.op = "divw" -> Divw(m, i)      [] i.op = "abs" -> AbsOp(m, i)
    [] i.op = "nabs" -> Nabs(m, i)      [] i.op = "doz" -> Doz(m, i)
ArithmeticOps31 ==
  {"subfc", "addc", "subf", "neg", "subfe", "adde", "subfze", "addze", "subfme", "addme", "add",
   "mulhwu", "mulhw", "mullw", "mul", "div", "divs", "divwu", "divw", "abs", "nabs", "doz"}

Logic31(m, i) ==
  CASE i.op = "and" -> AndOp(m, i)      [] i.op = "andc" -> Andc(m, i)
    [] i.op = "nor" -> Nor(m, i)        [] i.op = "eqv" -> Eqv(m, i)
    [] i.op = "xor" -> XorOp(m, i)      [] i.op = "orc" -> Orc(m, i)
    [] i.op = "or" -> OrOp(m, i)        [] i.op = "nand" -> Nand(m, i)
    [] i.op = "slw" -> Slw(m, i)        [] i.op = "srw" -> Srw(m, i)
    [] i.op = "sraw" -> SrawOp(m, i)    [] i.op = "srawi" -> Srawi(m, i)
    [] i.op = "cntlzw" -> Cntlzw(m, i)  [] i.op = "extsh" -> Extsh(m, i)
    [] i.op = "extsb" -> Extsb(m, i)    [] i.op = "maskg" -> Maskg(m, i)
    [] i.op = "maskir" -> Maskir(m, i)  [] i.op = "rrib" -> Rrib(m, i)
LogicOps31 ==
  {"and", "andc", "nor", "eqv", "xor", "orc", "or", "nand", "slw", "srw", "sraw", "srawi", "cntlzw",
   "extsh", "extsb", "maskg", "maskir", "rrib"}

Storage31(m, i) ==
  CASE i.op \in {"lwzx", "lwarx"} -> LwarxLwzx(m, i)
    [] i.op = "lbzx" -> Lbzx(m, i)      [] i.op = "lhzx" -> Lhzx(m, i)
    [] i.op = "lhax" -> Lhax(m, i)      [] i.op = "stwcx." -> Stwcx(m, i)
    [] i.op = "stwx" -> Stwx(m, i)      [] i.op = "stbx" -> Stbx(m, i)
    [] i.op = "sthx" -> Sthx(m, i)      [] i.op = "eciwx" -> Eciwx(m, i)
    [] i.op = "ecowx" -> Ecowx(m, i)    [] i.op = "lwbrx" -> Lwbrx(m, i)
    [] i.op = "lhbrx" -> Lhbrx(m, i)    [] i.op = "stwbrx" -> Stwbrx(m, i)
    [] i.op = "sthbrx" -> Sthbrx(m, i)  [] i.op = "lswx" -> Lswx(m, i)
    [] i.op = "lswi" -> Lswi(m, i)      [] i.op = "stswx" -> Stswx(m, i)
    [] i.op = "stswi" -> Stswi(m, i)    [] i.op = "dcbz" -> Dcbz(m, i)
StorageOps31 ==
  {"lwzx", "lwarx", "lbzx", "lhzx", "lhax", "stwcx.", "stwx", "stbx", "sthx", "eciwx", "ecowx", "lwbrx",
   "lhbrx", "stwbrx", "sthbrx", "lswx", "lswi", "stswx", "stswi", "dcbz"}

System31(m, i) ==
  CASE i.op = "cmp" -> Cmp(m, i)        [] i.op = "cmpl" -> Cmpl(m, i)
    [] i.op = "tw" -> Tw(m, i)          [] i.op = "mfcr" -> Mfcr(m, i)
    [] i.op = "mtcrf" -> Mtcrf(m, i)    [] i.op = "mcrxr" -> Mcrxr(m, i)
    [] i.op = "mfmsr" -> Mfmsr(m, i)    [] i.op = "mtmsr" -> Mtmsr(m, i)
    [] i.op = "mfspr" -> Mfspr(m, i)    [] i.op = "mtspr" -> Mtspr(m, i)
    [] i.op = "mftb" -> Mftb(m, i)      [] i.op = "mfsr" -> Mfsr(m, i)
    [] i.op = "mtsr" -> Mtsr(m, i)      [] i.op = "mfsrin" -> Mfsrin(m, i)
    [] i.op = "mtsrin" -> Mtsrin(m, i)
SystemOps31 ==
  {"cmp", "cmpl", "tw", "mfcr", "mtcrf", "mcrxr", "mfmsr", "mtmsr", "mfspr", "mtspr", "mftb", "mfsr",
   "mtsr", "mfsrin", "mtsrin"}

\* The opcodes that are an instruction of their own.
Primary(m, i) ==
  CASE i.op = "twi" -> Twi(m, i)        [] i.op = "mulli" -> Mulli(m, i)
    [] i.op = "subfic" -> Subfic(m, i)  [] i.op = "dozi" -> Dozi(m, i)
    [] i.op = "cmpli" -> Cmpli(m, i)    [] i.op = "cmpi" -> Cmpi(m, i)
    [] i.op = "addic" -> Addic(m, i)    [] i.op = "addi" -> Addi(m, i)
    [] i.op = "addis" -> Addis(m, i)    [] i.op = "bc" -> Bc(m, i)
    [] i.op = "sc" -> SystemCall(m, i)  [] i.op = "b" -> Branch(m, i)
    [] i.op = "mcrf" -> Mcrf(m, i)      [] i.op = "bclr" -> Bclr(m, i)
    [] i.op = "bcctr" -> Bcctr(m, i)    [] i.op = "rlwimi" -> Rlwimi(m, i)
    [] i.op = "rlwinm" -> Rlwinm(m, i)  [] i.op = "rlwnm" -> Rlwnm(m, i)
    [] i.op = "lwz" -> Lwz(m, i)        [] i.op = "lbz" -> Lbz(m, i)
    [] i.op = "stw" -> Stw(m, i)        [] i.op = "stb" -> Stb(m, i)
    [] i.op \in {"lhz", "lha"} -> LhzLha(m, i)
    [] i.op = "sth" -> Sth(m, i)        [] i.op = "lmw" -> Lmw(m, i)
    [] i.op = "stmw" -> Stmw(m, i)

Float(m, i) ==
  IF ~On(m, FP) THEN FpUnavailable(m)
  ELSE IF i.op \in {"lfs", "lfd"} THEN FpLoad(m, i)
  ELSE IF i.op \in {"stfs", "stfd"} THEN FpStore(m, i) ELSE FpXform(m, i)

Perform(m, i) ==
  CASE i.op \in FpOps -> Float(m, i)
    [] i.op = "vector" -> VectorOp(m, i)
    [] i.op \in VectorMemOps -> VectorMem(m, i)
    [] i.op \in ArithmeticOps31 -> Arithmetic31(m, i)
    [] i.op \in LogicOps31 -> Logic31(m, i)
    [] i.op \in StorageOps31 -> Storage31(m, i)
    [] i.op \in SystemOps31 -> System31(m, i)
    [] i.op \in ImmediateLogic -> LogicImmediate(m, i)
    [] i.op \in CrOps -> CrLogic(m, i)
    [] i.op \in NoOps -> m
    [] OTHER -> Primary(m, i)

----------------------------------------------------------------------------
\* The machine a program starts from, and its run.

StartGpr(p) == p.gpr @@ [r \in 0 .. 31 |-> 0]
StartFpr(p) == p.fpr @@ [r \in 0 .. 31 |-> Fp(0, 0)]
StartVr(p) == p.vr @@ [r \in 0 .. 31 |-> [k \in 0 .. 15 |-> 0]]
StartMem(p) == [pa \in Ram |-> IF pa \in DOMAIN p.mem THEN p.mem[pa] ELSE 0]
Start(p) ==
  [gpr |-> StartGpr(p), fpr |-> StartFpr(p), vr |-> StartVr(p), cr |-> 0, xer |-> 0, lr |-> 0, ctr |-> 0,
   msr |-> p.msr, srr0 |-> 0, srr1 |-> 0, spr |-> <<>>, sr |-> [n \in 0 .. 15 |-> 0],
   bat |-> [k \in 0 .. 15 |-> [access |-> 0, hi |-> 0, phys |-> 0, bepi |-> 0]], sdr1 |-> 0,
   fpscr |-> {}, vscr |-> 0, mem |-> StartMem(p),
   pc |-> p.pc, next |-> p.pc, pending |-> "", decNegative |-> FALSE, decWritten |-> FALSE,
   tbl |-> 0, tbu |-> 0]

Init == prog \in Programs /\ cpu = Start(prog)

Stopped == cpu.pending # "" \/ FetchAddress(cpu) \notin DOMAIN prog.code

Advance(m) == [m EXCEPT !.pc = m.next]
Step ==
  /\ ~Stopped
  /\ cpu' = Advance(Perform([cpu EXCEPT !.next = Wrap(cpu.pc + 4)], prog.code[FetchAddress(cpu)]))
  /\ UNCHANGED prog

Next == Step
Spec == Init /\ [][Next]_vars

----------------------------------------------------------------------------
\* Numbers as bits, the least significant first, for words in that order.

BitsOf(words) == [n \in 0 .. W * Len(words) - 1 |-> BitAt(words[n \div W + 1], n % W)]
Row(gpr, regs) == BitsOf([k \in DOMAIN regs |-> gpr[regs[k]]])
Width(x) == Cardinality(DOMAIN x)

SumOf(x, y) ==
  LET carry[n \in 0 .. Width(x)] ==
        IF n = 0 THEN 0 ELSE (x[n - 1] + y[n - 1] + carry[n - 1]) \div 2
  IN  [n \in DOMAIN x |-> (x[n] + y[n] + carry[n]) % 2]
Moved(x, by, fill) == [n \in DOMAIN x |-> IF n - by \in DOMAIN x THEN x[n - by] ELSE fill]
ProductOf(x, y) ==
  FoldLeft(LAMBDA sum, k : IF y[k - 1] = 1 THEN SumOf(sum, Moved(x, k - 1, 0)) ELSE sum,
           [n \in DOMAIN x |-> 0], [k \in 1 .. Width(y) |-> k])

\* The number of halves rounded: towards zero, and to the nearest integer.
Truncates(n, h) == \/ h >= 0 /\ 2 * n <= h /\ h < 2 * n + 2
                   \/ h < 0 /\ 2 * n >= h /\ h > 2 * n - 2
Nearest(n, h) == 2 * n - h \in {-1, 0, 1} /\ (2 * n # h => n % 2 = 0)

Ended == cpu.pending = prog.pending /\ cpu.pc = prog.done
Wants(kind) == prog.kind = kind

\* A step that goes on from the carry subfic left, which is a borrow there
\* (interpreter.c:1849).
GoesOnFromSubfic ==
  \E pa \in DOMAIN prog.code :
    /\ prog.code[pa].op = "subfic"
    /\ pa + 4 \in DOMAIN prog.code
    /\ prog.code[pa + 4].op \in {"adde", "addze", "addme", "subfe", "subfze", "subfme"}

WordsAreWords ==
  /\ \A r \in 0 .. 31 : cpu.gpr[r] \in 0 .. Word - 1
  /\ \A r \in 0 .. 31 : \A k \in 0 .. 15 : cpu.vr[r][k] \in 0 .. ByteMod - 1
  /\ \A x \in {cpu.cr, cpu.xer, cpu.lr, cpu.ctr, cpu.pc, cpu.vscr} : x \in 0 .. Word - 1

\* The sequences a compiler writes for what one instruction cannot do give
\* the exact result, for operands of any sign: sums, differences and products of
\* two words through the carry and the high product, a quotient and its rest,
\* shifts of two words, a field moved by a rotation under a mask, a number
\* converted through storage, lanes multiplied, compared and chosen in the
\* vector unit.  Every register stays in its width.  The exception is the high
\* word of a chain that goes on from the carry of subfic, as the usual negation
\* of a long number does: its low word alone is right.
SequencesAreExact ==
  LET X == Row(StartGpr(prog), prog.x)
      Y == Row(StartGpr(prog), prog.y)
      Z == Row(cpu.gpr, prog.out)
      x == Signed(StartGpr(prog)[prog.x[1]])
      y == Signed(StartGpr(prog)[prog.y[1]])
      Out(n) == Signed(cpu.gpr[prog.out[n]])
      VIn(r, k) == StartVr(prog)[r][k]
  IN  /\ WordsAreWords
      /\ Stopped =>
          /\ Wants("sum") => Ended /\ Z = SumOf(X, Y)
          /\ Wants("difference") => Ended /\ X = SumOf(Z, Y)
          /\ Wants("negation") =>
               Ended /\ \A n \in DOMAIN X : (GoesOnFromSubfic => n < W) => SumOf(Z, X)[n] = 0
          /\ Wants("product") =>
               Ended /\ Z = ProductOf([n \in DOMAIN Z |-> IF n \in DOMAIN X THEN X[n] ELSE prog.fill * X[Width(X) - 1]],
                                      [n \in DOMAIN Z |-> IF n \in DOMAIN Y THEN Y[n] ELSE prog.fill * Y[Width(Y) - 1]])
          /\ Wants("quotient") =>
               /\ Ended /\ Out(2) * y + Out(1) = x
               /\ (IF Out(1) < 0 THEN -Out(1) ELSE Out(1)) < (IF y < 0 THEN -y ELSE y)
               /\ Out(1) # 0 => (Out(1) < 0) = (x < 0)
          /\ Wants("same") => Ended /\ Z = X
          /\ Wants("left") => Ended /\ Z = Moved(X, y, 0)
          /\ Wants("right") => Ended /\ Z = Moved(X, -y, 0)
          /\ Wants("algebraic") => Ended /\ Z = Moved(X, -y, X[Width(X) - 1])
          /\ Wants("field") =>
               Ended /\ Z = [n \in DOMAIN X |-> IF n \in prog.to .. prog.to + prog.width - 1
                                                THEN X[n - prog.to + prog.from]
                                                ELSE IF prog.keep THEN Y[n] ELSE 0]
          /\ Wants("truncated") => Ended /\ Truncates(Out(1), Value(StartFpr(prog)[1]))
          /\ Wants("nearest") => Ended /\ Nearest(Out(1), Value(StartFpr(prog)[1]))
          /\ Wants("fused") => Ended /\ Value(cpu.fpr[prog.freg]) = prog.halves
          /\ Wants("lanes product") =>
               Ended /\ \A k \in 0 .. 15 : cpu.vr[prog.vreg][k] = (VIn(1, k) * VIn(2, k)) % ByteMod
          /\ Wants("lanes greatest") =>
               Ended /\ \A k \in 0 .. 15 : cpu.vr[prog.vreg][k] \in {VIn(1, k), VIn(2, k)}
                                           /\ cpu.vr[prog.vreg][k] >= VIn(1, k) /\ cpu.vr[prog.vreg][k] >= VIn(2, k)
          /\ Wants("lanes total") =>
               Ended /\ Lane(cpu, prog.vreg, 3, 4) = SumOver(16, LAMBDA k : VIn(1, k))

\* A comparison, the logic on its field and the branch that tests it decide
\* by the relation of the two numbers, as words, with their signs, or as
\* doubles; a counted loop makes its turns, a call returns behind itself, a
\* trap is taken where its relation holds, and a program that sorts by such
\* branches sorts.
BranchesFollowComparisons ==
  LET u == StartGpr(prog)[4]
      v == StartGpr(prog)[5]
      p == IF prog.form = "doubles" THEN Value(StartFpr(prog)[1])
           ELSE IF prog.form = "signed" THEN Signed(u) ELSE u
      q == IF prog.form = "doubles" THEN Value(StartFpr(prog)[2])
           ELSE IF prog.form = "signed" THEN Signed(v) ELSE v
      ordered == prog.form = "doubles" => ~IsNan(StartFpr(prog)[1]) /\ ~IsNan(StartFpr(prog)[2])
      Related ==
        CASE prog.rel = "<" -> ordered /\ p < q     [] prog.rel = ">" -> ordered /\ p > q
          [] prog.rel = "=" -> ordered /\ p = q     [] prog.rel = "<=" -> ordered /\ p <= q
          [] prog.rel = ">=" -> ordered /\ p >= q   [] prog.rel = "#" -> ~ordered \/ p # q
      InOrder(a, b) == IF prog.form = "signed" THEN Signed(a) <= Signed(b) ELSE a <= b
  IN  Stopped =>
      /\ Wants("choice") => Ended /\ cpu.gpr[3] = IF Related THEN 1 ELSE 2
      /\ Wants("trap") => cpu.pending = (IF Related THEN "trap" ELSE "") /\ (Related => cpu.srr0 = prog.pc)
      /\ Wants("loop") => Ended /\ cpu.gpr[3] = (u * v) % Word
      /\ Wants("calls") => Ended /\ cpu.gpr[3] = prog.calls
      /\ Wants("sort") =>
           /\ Ended
           /\ InOrder(cpu.gpr[4], cpu.gpr[5]) /\ InOrder(cpu.gpr[5], cpu.gpr[6])
           /\ \A r \in 4 .. 6 :
                Cardinality({n \in 4 .. 6 : cpu.gpr[n] = StartGpr(prog)[r]})
                  = Cardinality({n \in 4 .. 6 : StartGpr(prog)[n] = StartGpr(prog)[r]})

\* What is stored comes back: word by word, by halves and bytes, with the
\* bytes reversed, by registers in a row, by strings, by vectors from any
\* address, through one translation and out of another; and no instruction
\* disturbs a byte the program does not store to.  A stored value is read back
\* by a load of its width, with or without its sign.
MemoryGivesBack ==
  /\ LET mem == StartMem(prog) IN \A pa \in Ram \ prog.cells : cpu.mem[pa] = mem[pa]
  /\ Stopped /\ Wants("storage") =>
       /\ Ended
       /\ \A g \in prog.gives :
            cpu.gpr[g.to] = IF g.sign THEN Extend(StartGpr(prog)[g.from], g.bits)
                            ELSE StartGpr(prog)[g.from] % Pow(g.bits)
       /\ prog.vgives => cpu.vr[9] = StartVr(prog)[8]
       /\ prog.fgives => cpu.fpr[9] = StartFpr(prog)[8]

----------------------------------------------------------------------------
\* Translation as the architecture has it: a block maps its length from its
\* start, in the order of the registers; a page has a frame by the list the
\* table was built from.  The registers of a pair are at n and n + 1.

InstructionBats == <<528, 530, 532, 534>>
DataBats == <<536, 538, 540, 542, 544, 546, 548, 550>>
Blocks(instr) ==
  LET Valid(up) == BitAt(up, IF On(cpu, PR) THEN 0 ELSE 1) = 1
      Of(n) == LET up  == SprValue(cpu, n)
                   len == (((up \div 4) % Pow(BlockBits)) + 1) * Pow(BlockShift)
                   Base(v) == v - (v % len)
               IN  IF Valid(up) THEN {[start |-> Base(up), len |-> len, to |-> Base(SprValue(cpu, n + 1))]} ELSE {}
      list == IF instr THEN InstructionBats ELSE DataBats
  IN  UNION {Of(list[k]) : k \in DOMAIN list}

Frames(la) ==
  {p.frame : p \in {x \in prog.pages :
     /\ cpu.sdr1 # 0
     /\ x.vsid = cpu.sr[la \div Pow(SegShift)] % Pow(VsidBits)
     /\ x.page = (la % Pow(SegShift)) \div Pow(PageShift)}}

Mapping(la, instr) ==
  LET blocks == {b \in Blocks(instr) : la - b.start \in 0 .. b.len - 1}
  IN  IF ~On(cpu, IF instr THEN IR ELSE DR) THEN {}
      ELSE IF blocks # {} THEN {b.to + la - b.start : b \in blocks}
      ELSE {f * Pow(PageShift) + (la % Pow(PageShift)) : f \in Frames(la)}

\* After any sequence of writes to the registers of translation, an address
\* is found where the blocks and the page table say: the BATs of instructions
\* and of data each by their own, the decomposed copy the interpreter keeps
\* never older than its registers, the table of any size, a full first group
\* by the second.
TranslationFollowsTables ==
  \A la \in prog.probes : \A instr \in BOOLEAN :
    TranslateEffective(cpu, la, instr) = Mapping(la, instr)

=============================================================================
