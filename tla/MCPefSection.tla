---------------------------- MODULE MCPefSection ----------------------------
(* Patterns of up to two instructions, laid out with short and wide counts *)
(* and cut off at every byte, some with counts that a word of eight bits   *)
(* does not hold; programs of up to three instructions, nested repetitions *)
(* and blocks of nine chunks, behind the header of another section and     *)
(* before a second header of the same one.                                 *)
EXTENDS PefSection

MCPatternInstructions ==
  {PatZero(5), PatBlock(<<1, 2, 3>>), PatBlock(<<7, 7, 7, 7, 200>>), PatRepeat(<<4, 5>>, 3),
   PatInterleave(<<1>>, <<<<8, 9>>, <<6, 6>>>>), PatSpread(2, <<<<3>>, <<255>>, <<4>>>>),
   PatReserved}

MCPatterns ==
  {<<a>> : a \in MCPatternInstructions} \cup
  {<<a, b>> : a, b \in MCPatternInstructions} \cup
  {<<PatZero(20), PatBlock(<<1, 2, 3, 4, 5, 6>>)>>, <<PatZero(20), PatRepeat(<<1, 2>>, 4)>>,
   <<PatInterleave(<<1, 2, 3>>, <<<<4, 5, 6, 7, 8, 9, 10>>, <<4, 5, 6, 7, 8, 9, 10>>>>), PatZero(4)>>}

MCWrapping ==
  {<<PatZero(261)>>, <<PatRepeat(<<4, 5>>, 256)>>, <<PatBlock(<<1, 2, 3>>), PatRepeat(<<4>>, 258)>>,
   <<PatRepeat(<<>>, 256)>>, <<PatZero(258), PatBlock(<<1, 2, 3>>), PatRepeat(<<4, 5>>, 256)>>}

MCInstructions ==
  {SkipD(1, 2), SkipD(0, 1)} \cup
  {Words(Kinds[k], run) : k \in 1 .. 6, run \in {1, 2}} \cup
  {ByImport(3, FALSE), ByImport(70000, TRUE), BySection(2, FALSE), BySection(3, TRUE),
   Choose(0), Choose(1), Incr(4), SetPos(8), Reserved}

MCRepetitions == {Again(1, 2, FALSE), Again(2, 1, FALSE), Again(1, 0, TRUE), Again(2, 2, TRUE)}

MCPrograms ==
  {<<a, b>> : a, b \in MCInstructions} \cup
  {<<Words("Imports", 1), b, r>> : b \in MCInstructions, r \in MCRepetitions} \cup
  {<<a, Again(1, 1, long), r, b>> :
     a \in {Words("Imports", 1), Incr(4), BySection(3, TRUE)}, long \in BOOLEAN,
     r \in {Again(2, 2, FALSE), Again(2, 1, TRUE), Again(1, 2, TRUE)},
     b \in {SkipD(0, 1), Again(2, 1, FALSE)}} \cup
  {<<Words("SectC", 1)>> \o [i \in 1 .. n |-> Incr(IF i = 1 THEN 9 - n ELSE 1)] \o
     <<Again(n + 1, times, long)>> : n \in {7, 8}, times \in {1, 2}, long \in BOOLEAN}

MCHeader(index, program) == [section |-> index, program |-> program]

MCSection(total, packed, pattern, length, wide, headers) ==
  [index |-> 1, total |-> total, packed |-> packed, pattern |-> pattern, length |-> length,
   wide |-> wide, headers |-> headers]

MCSections ==
  UNION {UNION {{MCSection(26, TRUE, t, n, w, <<MCHeader(1, <<SkipD(1, 2)>>)>>) :
                   n \in 0 .. Len(PatternLayout(t, w))} : w \in BOOLEAN} : t \in MCPatterns \cup MCWrapping} \cup
  {MCSection(total, FALSE, <<PatBlock(<<9, 8, 7, 6, 5>>)>>, 6, FALSE,
             <<MCHeader(0, <<Words("SectC", 1)>>), MCHeader(1, g)>> \o h) :
     total \in {24, 26}, g \in MCPrograms, h \in {<<>>, <<MCHeader(1, <<Words("Imports", 2)>>)>>}}
=============================================================================
