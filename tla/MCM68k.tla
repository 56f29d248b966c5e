------------------------------- MODULE MCM68k -------------------------------
(***************************************************************************)
(* The 68K interpreter with bytes of four bits (longs of 16): a memory map *)
(* in which every zone of the program has a place, and the programs to be  *)
(* run, as the opcodes an assembler gives for them.                        *)
(***************************************************************************)
EXTENDS M68k

MCLowVectors == 0 .. 1023
MCFirstPage == 0 .. 4095
MCLowRam == 0 .. 8191
MCRomCode == 16384 .. 20479
MCDrZone == 20480 .. 22527
MCNativeZone == 24576 .. 26623
MCDrThunk == 65026 .. 65534
MCZeroTrap == 8192 .. 16383
MCCodeZones == {MCLowRam, MCRomCode, MCDrZone, MCNativeZone, MCDrThunk}

MCGuards == {\H6868}
MCVectorGuard == \H8000
MCRomAlias == [a \in 60000 .. 60015 |-> 16384 + a - 60000]

MCVec == [lineF |-> 44, illegal |-> 16, privilege |-> 32, zeroDivide |-> 20, chk |-> 24,
          level |-> [n \in 1 .. 7 |-> 96 + 4 * n], trap |-> [n \in 0 .. 15 |-> 128 + 4 * n]]

NoAreas == [x \in {} |-> 0]
MCSite ==
  [services |-> {\H9760}, serviceLimit |-> 2, scriptEnd |-> 40000, scriptReturn |-> 0,
   scriptNext |-> 0, rteStub |-> 1024, aliasBank |-> {60000}, glue |-> 1028,
   glueCode |-> \H5004, rteCode |-> \H73, gluedVectors |-> {12, 20, 28}, gluePad |-> 274,
   scrub |-> 16434, scrubOp |-> \HB1C9, scrubStore |-> \H20C1, scrubLoop |-> \H65FA,
   scrubBound |-> 5096, scrubMax |-> 8191, heap |-> 5000 .. 8191, clear |-> 16466,
   clearStore |-> \H4258, clearLoop |-> \H65FA, romBase |-> 16384, stackBounds |-> {5000},
   clearMax |-> 64, rescueStage |-> {16502}, rescueStack |-> 5032, frameMax |-> 256,
   areas |-> NoAreas, seedHeap |-> <<>>, pageFlags |-> 1, frame |-> 16520, frameOp |-> \H4E56]

MCRom ==
  [walker |-> 16600, callable |-> 0 .. 20479, stub |-> 17720, chain |-> 16604, chainField |-> 68,
   chainBlock |-> 5100, streamD7 |-> 16606, buffersD7 |-> 5000 .. 8191, streamA6 |-> 16608,
   buffersA6 |-> 5000 .. 8191, stream |-> 5104, streamSeed |-> << <<5104, 7, Long>> >>,
   globals |-> 16610, globalsCell |-> 5112, globalsSeed |-> << <<5112, 5104, Long>> >>,
   anchor |-> 16612, anchorCell |-> 5108, anchorValue |-> 9, arenaCell |-> 5116,
   arenaSeed |-> << <<5116, 5100, Long>> >>, copy |-> 16614, info |-> 16616, infoCell |-> 5120,
   infoSeed |-> << <<5120, 5104, Long>> >>, patch |-> 16640, patchDepth |-> 4,
   patchFrame |-> 17000, patchNext |-> 16660, table |-> 16618, tableCell |-> 5124,
   tableValue |-> 11, park |-> 16680, parkOp |-> \H60FE,
   parkSeed |-> << <<100, 1024, Long>> >>, script |-> 4032 .. 4047, firstFault |-> 8,
   faultVectors |-> <<8, 16, 20, 24, 32, 44, 100, 128>>, blockUser |-> 16384 .. 16399,
   blockCell |-> 6000, blockMark |-> \H4261, blockSeed |-> << <<6000, \H4261, Long>> >>]

MCArena == [start |-> 6100, end |-> 6200, page |-> 50, largest |-> 120]

Stack == 5008 .. 5063
Data == 5096 .. 5115
Seeds == 5116 .. 5127
MCRam == UNION {0 .. 11, 16 .. 27, 32 .. 35, 44 .. 47, 100 .. 103, 128 .. 131, {1024, 1025},
                1028 .. 1033, 2304 .. 2307, 6000 .. 6003, Stack, Data, Seeds, 5200 .. 5211}

----------------------------------------------------------------------------
\* Code.

At(from, words) ==
  [x \in {from + 2 * (i - 1) : i \in 1 .. Len(words)} |-> words[(x - from) \div 2 + 1]]
MergeCode(pieces) == FoldLeft(LAMBDA f, g : g @@ f, At(1024, <<\H4E73>>), pieces)

\* Comparisons of D1 with D0 or with 5.
Cmp1 == At(16400, <<\HB200>>)
Cmp2 == At(16404, <<\HB240>>)
Cmp4 == At(16408, <<\HB280>>)
Cmpi1 == At(16412, <<\H0C01, 5>>)
Cmpi2 == At(16418, <<\H0C41, 5>>)
\* CMP.W #imm,D1, once for each immediate; CMP.B and a trap.
CmpImm(n, imm) == At(17300 + 4 * n, <<\HB27C, imm>>)
CmpTrap == At(17340, <<\HB200, \H4E40>>)

\* The scrub and the clearing loop, and a refused argument.
ScrubCode == At(16430, <<\H4E71, \H20C1, \HB1C9, \H65FA, \H4E71>>)
ClearCode == At(16462, <<\H4E71, \H4258, \HB1C9, \H65FA, \H4E71>>)
RefuseCode == At(16510, <<\H4878, 1, \H6104, \H588F, \H4E71, \H4E56, 0>>)
RescueCode == At(16500, <<\H4E71, \H4E71, \H4E71>>)

\* The repairs: JSR (A2), then a straight line; the patch loop; the park.
RepairCode == At(16600, <<\H4E92, \H4E71, \H4E71, \H4E71, \H4E71, \H4E71, \H4E71, \H4E71, \H4E71,
                          \H4E71, \H4E71>>)
PatchCode == At(16636, <<\H4878, 0, \H4E71, \H60FC>>)
PatchStart == At(16630, <<\H4879, 66, 104, \H4E71, \H4E71>>)
PatchEnd == At(16660, <<\H4E71>>)
ParkCode == At(16680, <<\H60FE>>)
ScriptCode == At(4032, <<1, \HFFFF, \H9760, 2, 3, 4, 5, 6>>)
ScriptEnd == At(4048, <<\H4E71>>)

\* LINK A6,#-8; MOVEM.L D2-D3/A2,-(A7); changes; JSR; TRAP #0; MOVEM back;
\* UNLK.
BracketCode ==
  At(16720, <<\H4E56, \HF8, \H48E7, \H3020, \H7401, \H7602, \H347C, 9, \H4EB9, 68, \H98, \H4E40,
              \H6110, \H4CDF, \H040C, \H4E5E, \H4E71>>)
Callee == At(17560, <<\H48E7, \H3000, \H7403, \H4CDF, \H000C, \H4E75>>)
BsrTarget == At(16762, <<\H5242, \H4E75>>)

\* The same frame around a STOP; and in user mode, without the trap.
StopBracket ==
  At(17200, <<\H4E56, \HF8, \H48E7, \H3020, \H7401, \H7602, \H4E72, \H80, \H347C, 9,
              \H4CDF, \H040C, \H4E5E, \H4E71>>)
UserBracket ==
  At(17240, <<\H4E56, \HF8, \H48E7, \H3020, \H7401, \H347C, 9, \H4EB9, \H44, \H98,
              \H4CDF, \H040C, \H4E5E, \H4E71>>)

\* Every group of instructions in a row, on registers and on the data.
SurveyCode ==
  At(16800, <<\H7005, \H7209, \HD041, \H9240, \HC041, \H8240, \HB141, \H30C0, \H3218, \H5240,
              \H5341, \H4440, \H4641, \H4880, \H4842, \H4A41, \H4AC1, \HE349, \HE251, \HE359,
              \HC0C1, \H80C1, \H83C2, \H0801, 2, \H08C1, 3, \H0141, \H41F9, 19, \HF0, \H0C50, 7,
              \H0650, 3, \H0450, 1, \H0210, 7, \H0010, 8, \H0A50, 2, \HD141, \H9141, \HC101,
              \H8101, \H4801, \HC140, \HC149, \HC18A, \H57C3, \H50CA, 2, \H4E71, \H4040, \H40C4,
              \H42FC, \H023C, 14, \H003C, 1, \H0A3C, 2, \H44FC, 5, \H0148, 2, \H0188, 2,
              \H4C01, \H2400, \H4190, \HB348, \H4E68, \HA123, \HA051, \HFE00, \H487A, 8,
              \H3F3C, 3, \H4E77>>)
AlineCode == At(17700, <<\H4E75>>)
StubCode == At(17720, <<\H7000, \H4E75>>)

\* STOP with an open mask, arithmetic around it.
StopCode == At(17000, <<\H7003, \H7204, \H4E72, \H80, \HD041, \H4E71>>)
\* A loop on D0 with its flags, a PowerPC routine, and line F.
LoopCode == At(17040, <<\H7003, \H5340, \H66FC, \H4EB9, \H60, 0, \HFFFF, \H9760, \H4E71>>)
\* A loop that a timer may fall into; its flags are not carried over a
\* batch's end.
TimedCode == At(17080, <<\H7003, \HD240, \H30C1, \H4E71>>)
\* User mode: a trap, then the privileged RTE.
UserCode == At(17120, <<\H4E40, \H4E71>>)
UserRte == At(17130, <<\H4E73, \H4E71>>)
SrCode == At(17140, <<\H46FC, \H80, \H007C, \H20, \H027C, \HDF, \H46FC, \H80, \H0A7C, \H83, \H4E71>>)
\* An illegal opcode, and a jump to nowhere.
IllegalCode == At(17180, <<\H0E00, \H4EF9, \H80, 0>>)

\* The level-1 handler, the trap and fault handler, the timer's task.
HandlerCode == At(17400, <<\H48E7, \HC080, \HD241, \H7000, \H4CDF, \H0103, \H4E73>>)
TrapCode == At(17440, <<\H48E7, \H2000, \H7407, \H4CDF, \H0004, \H4E73>>)
TaskCode == At(17480, <<\H48E7, \HC000, \H7007, \H7201, \H4CDF, \H0003, \H4E75>>)

MCCode == MergeCode(<<CmpImm(0, 0), CmpImm(1, 1), CmpImm(2, 127), CmpImm(3, 128), CmpImm(4, 255),
  CmpTrap, StopBracket, UserBracket, Cmp1, Cmp2, Cmp4, Cmpi1, Cmpi2, ScrubCode, ClearCode, RefuseCode, RescueCode,
  RepairCode, PatchCode, PatchStart, PatchEnd, ParkCode, ScriptCode, ScriptEnd, BracketCode, Callee,
  BsrTarget, SurveyCode, AlineCode, StubCode, StopCode, LoopCode, TimedCode, UserCode, UserRte, SrCode,
  IllegalCode, HandlerCode, TrapCode, TaskCode>>)

MCTrapTable == [i \in {1024 + \H23} |-> 17700]

----------------------------------------------------------------------------
\* Programs.

LongAt(x, v) == [i \in x .. x + 3 |-> (v \div 16 ^ (x + 3 - i)) % 16]
MemoryOf(pieces) == FoldLeft(LAMBDA f, g : g @@ f, [x \in {} |-> 0], pieces)
Vectors == MemoryOf(<<LongAt(0, 5060), LongAt(4, 16800), LongAt(16, 17440), LongAt(20, 17440),
                      LongAt(24, 17440), LongAt(32, 17440), LongAt(44, 1028), LongAt(100, 17400),
                      LongAt(128, 17440), LongAt(5208, 17480)>>)
NoVectors == MemoryOf(<<LongAt(0, 5060), LongAt(4, 16800)>>)

Regs(f) == [r \in 0 .. 7 |-> IF r \in DOMAIN f THEN f[r] ELSE 0]
Plain == [kind |-> "bracket", mem |-> Vectors, start |-> 0, done |-> 0, s |-> TRUE, sp |-> 5060,
          d |-> Regs(<<1, 2, 3>>), a |-> Regs(0 :> 5100 @@ 1 :> 5104 @@ 2 :> 5108 @@ 6 :> 5060),
          task |-> 0, ticks |-> 0, keepD |-> {}, keepA |-> {},
          dst |-> 0, src |-> 0, size |-> Byte, immediate |-> FALSE, traps |-> FALSE]
From(start, done) == [Plain EXCEPT !.start = start, !.done = done]

Edge(s) == {0, 1, Mod(s) \div 2 - 1, Mod(s) \div 2, Mod(s) - 1}
Compare1(start, done, x, y, s) ==
  [From(start, done) EXCEPT !.kind = "compare", !.d = Regs(0 :> y @@ 1 :> x), !.dst = x, !.src = y,
                            !.size = s]
Comparisons ==
  UNION {{Compare1(16400, 16402, x, y, Byte) : x \in 0 .. 15, y \in 0 .. 15},
         {Compare1(16404, 16406, x, y, Word) : x \in Edge(Word), y \in Edge(Word)},
         {Compare1(16408, 16410, x, y, Long) : x \in Edge(Long), y \in Edge(Long)},
         {Compare1(16412, 16416, x, 5, Byte) : x \in 0 .. 15},
         {Compare1(16418, 16422, x, 5, Word) : x \in Edge(Word)},
         {[Compare1(17300 + 4 * n, 17304 + 4 * n, x, <<0, 1, 127, 128, 255>>[n + 1], Word)
             EXCEPT !.immediate = TRUE] : x \in Edge(Word), n \in 0 .. 4},
         {Compare1(17340, 17344, x, y, Byte) : x \in Edge(Byte), y \in Edge(Byte)}}

Bracket ==
  [From(16720, 16752) EXCEPT !.keepD = {2, 3}, !.keepA = {2, 6}, !.task = 5200]
Survey == From(16800, 16966)
Stopping == [From(17000, 17010) EXCEPT !.ticks = 2]
Timed == [From(17080, 17086) EXCEPT !.task = 5200]
\* Of kind "other" are the programs that are not to give the stack or the mode
\* back: the rescued stack, the patch loop whose frames are unwound, RTE in
\* user mode, and moves to SR.
Others ==
  {Bracket, Survey, Stopping, Timed,
   [From(17200, 17226) EXCEPT !.keepD = {2, 3}, !.keepA = {2, 6}, !.ticks = 1, !.task = 5200],
   [From(17240, 17266) EXCEPT !.s = FALSE, !.sp = 5060, !.keepD = {2, 3},
                              !.keepA = {2, 6}, !.task = 5200], From(17040, 17056),
   [From(16430, 16438) EXCEPT !.a = Regs(0 :> 5100 @@ 1 :> 5096), !.mem = MemoryOf(<<Vectors, LongAt(5096, 5110)>>)],
   [From(16462, 16470) EXCEPT !.a = Regs(0 :> 5100 @@ 1 :> 5096), !.mem = MemoryOf(<<Vectors, LongAt(5096, 5112)>>)],
   [From(16462, 16470) EXCEPT !.a = Regs(0 :> 16384 @@ 1 :> 5096), !.mem = MemoryOf(<<Vectors, LongAt(5096, 5000)>>)],
   From(16510, 16518),
   [From(16500, 16506) EXCEPT !.sp = 1000, !.kind = "other"],
   [From(16600, 16620) EXCEPT !.a = Regs(0 :> 5100 @@ 1 :> 5000 @@ 2 :> 30000)],
   [From(16630, 16662) EXCEPT !.kind = "other"],
   [From(16680, 16662) EXCEPT !.ticks = 1],
   [From(16680, 16662) EXCEPT !.ticks = 1, !.mem = NoVectors],
   From(4032, 4048),
   [From(17120, 17122) EXCEPT !.s = FALSE, !.sp = 5030, !.traps = TRUE, !.keepD = 0 .. 7,
                              !.keepA = 0 .. 6],
   [From(17130, 17132) EXCEPT !.s = FALSE, !.sp = 5030, !.kind = "other"],
   [From(17140, 17160) EXCEPT !.kind = "other"], From(17180, 17188)}

MCPrograms == Comparisons \cup Others
=============================================================================
