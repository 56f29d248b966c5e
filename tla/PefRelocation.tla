--------------------------- MODULE PefRelocation ---------------------------
(***************************************************************************)
(* The machine that runs the relocation bytecode of a PEF section          *)
(* (src/boot/pef_loader.c, PefExecRange): 16-bit chunks are decoded one    *)
(* instruction at a time, a relocation position moves over the image of    *)
(* the section, and addresses of sections and of imported symbols are      *)
(* added to the 32-bit words it passes.  A repeat instruction runs the     *)
(* chunks before it again, by recursion; the recursion is a stack here.    *)
(*                                                                         *)
(* What is added to a word is kept as the order of the additions, each the *)
(* offset of the word and the name of the address added.  Positions are    *)
(* relative to the default address of the section.                         *)
(***************************************************************************)
EXTENDS Integers, Sequences, SequencesExt

VARIABLES
  chunks,       \* the relocation instructions of the section
  bufLen,       \* bytes in the image of the section
  frames,       \* the calls of PefExecRange that are running, the last on top
  pos,          \* *relocAddr - secDefault
  importIndex,  \* *importIndex
  added,        \* the additions made to the image, in order
  result        \* "waiting", "running", "ok" (0) or "failed" (-1)

relocVars == <<chunks, bufLen, frames, pos, importIndex, added, result>>

Sect(i) == <<"section", i>>      \* secBase[i]
Import(i) == <<"import", i>>     \* importAddrs[i]

----------------------------------------------------------------------------
\* Decoding.

\* The next chunk; reading past the end gives 0.
ChunkAt(i) == IF i < Len(chunks) THEN chunks[i + 1] ELSE 0

\* The len bits that follow the first off bits of a chunk.
Field(chunk, off, len) == (chunk \div 2 ^ (16 - (off + len))) % 2 ^ len

\* A 22- or 26-bit operand continues in the chunk that follows.
Long(high, i) == high * 65536 + ChunkAt(i + 1)

\* The kinds of instruction, by the first seven bits of the chunk.
DecodeOp(op) ==
  IF op < 32 THEN "SectDWithSkip"
  ELSE IF op <= 37 THEN "Run"
  ELSE IF op <= 51 THEN "Index"
  ELSE IF op \in 64 .. 71 THEN "IncrPosition"
  ELSE IF op \in 72 .. 79 THEN "SmRepeat"
  ELSE IF op = 80 THEN "SetPosition"
  ELSE IF op = 82 THEN "LgByImport"
  ELSE IF op = 88 THEN "LgRepeat"
  ELSE IF op = 90 THEN "LgSetOrBySection"
  ELSE "bad"

frame == Last(frames)
InRange == frames # <<>> /\ frame.pc < frame.end
chunk == ChunkAt(frame.pc)
Kind == DecodeOp(chunk \div 512)
Sub == Field(chunk, 3, 4)

----------------------------------------------------------------------------
\* The effects instructions are made of.

Advance(n) == frames' = [frames EXCEPT ![Len(frames)].pc = @ + n]

Fail == result' = "failed"

\* Mutant of Fitting: an entry that ends with the section is refused.
FittingBelow(at, stride, run) ==
  IF at + stride * run < bufLen THEN run
  ELSE IF at >= bufLen THEN 0
  ELSE (bufLen - at - 1) \div stride

\* How many of run consecutive entries of stride bytes from at are inside.
Fitting(at, stride, run) ==
  IF at + stride * run <= bufLen THEN run
  ELSE IF at > bufLen THEN 0
  ELSE (bufLen - at) \div stride

\* The additions to the first n entries of stride bytes; words[i] has the
\* names for the words of entry i.
Entries(at, stride, words, n) ==
  FlattenSeq([i \in 1 .. n |->
    [j \in 1 .. Len(words[i]) |-> <<at + stride * (i - 1) + 4 * (j - 1), words[i][j]>>]])

\* Add to the entries from at; stop with an error at the first one outside.
AddRun(at, stride, words, size) ==
  LET run == Len(words)
      n == Fitting(at, stride, run)
  IN  /\ added' = added \o Entries(at, stride, words, n)
      /\ IF n = run
         THEN /\ pos' = at + stride * run
              /\ Advance(size)
              /\ UNCHANGED result
         ELSE /\ pos' = at
              /\ Fail
              /\ UNCHANGED frames

AddOne(name, size) == AddRun(pos, 4, <<<<name>>>>, size)

Times(n, names) == [i \in 1 .. n |-> names]

\* Run the cc chunks before the instruction again, rc times.  The range of a
\* block that would begin before the stream is empty.
RepeatBlock(cc, rc, size) ==
  LET resumed == [frames EXCEPT ![Len(frames)].pc = @ + size]
      start == frame.pc - cc
  IN  /\ frames' = IF rc = 0 \/ start < 0 THEN resumed
                   ELSE Append(resumed,
                          [start |-> start, pc |-> start, end |-> frame.pc,
                           left |-> rc - 1])
      /\ UNCHANGED <<pos, importIndex, added, result>>

----------------------------------------------------------------------------
\* The instructions.

BySectDWithSkip ==
  /\ Kind = "SectDWithSkip"
  /\ AddRun(pos + 4 * Field(chunk, 2, 8), 4, Times(Field(chunk, 10, 6), <<Sect(1)>>), 1)
  /\ UNCHANGED importIndex

RunLength == Field(chunk, 7, 9) + 1

ByRun ==
  /\ Kind = "Run"
  /\ \/ Sub = 0 /\ AddRun(pos, 4, Times(RunLength, <<Sect(0)>>), 1)
     \/ Sub = 1 /\ AddRun(pos, 4, Times(RunLength, <<Sect(1)>>), 1)
     \/ Sub = 2 /\ AddRun(pos, 12, Times(RunLength, <<Sect(0), Sect(1)>>), 1)
     \/ Sub = 3 /\ AddRun(pos, 8, Times(RunLength, <<Sect(0), Sect(1)>>), 1)
     \/ Sub = 4 /\ AddRun(pos, 8, Times(RunLength, <<Sect(1)>>), 1)
  /\ UNCHANGED importIndex

NextImports == [i \in 1 .. RunLength |-> <<Import(importIndex + i - 1)>>]

\* Mutant of ImportRun: a run of imports leaves the import index.
ImportRunStays ==
  /\ Kind = "Run" /\ Sub = 5
  /\ AddRun(pos, 4, NextImports, 1)
  /\ UNCHANGED importIndex

ImportRun ==
  /\ Kind = "Run" /\ Sub = 5
  /\ AddRun(pos, 4, NextImports, 1)
  /\ importIndex' = IF result' = "failed" THEN importIndex
                    ELSE importIndex + RunLength

SmByImport ==
  /\ Kind = "Index" /\ Sub = 0
  /\ AddOne(Import(Field(chunk, 7, 9)), 1)
  /\ importIndex' = IF result' = "failed" THEN importIndex
                    ELSE Field(chunk, 7, 9) + 1

\* Choosing what sectionC or sectionD is has no effect on later instructions.
SmSetSect ==
  /\ Kind = "Index" /\ Sub \in {1, 2}
  /\ Advance(1)
  /\ UNCHANGED <<pos, importIndex, added, result>>

SmBySection ==
  /\ Kind = "Index" /\ Sub > 2
  /\ AddOne(Sect(Field(chunk, 7, 9)), 1)
  /\ UNCHANGED importIndex

IncrPosition ==
  /\ Kind = "IncrPosition"
  /\ pos' = pos + Field(chunk, 4, 12) + 1
  /\ Advance(1)
  /\ UNCHANGED <<importIndex, added, result>>

SmRepeat ==
  /\ Kind = "SmRepeat"
  /\ RepeatBlock(Field(chunk, 4, 4) + 1, Field(chunk, 8, 8) + 1, 1)

SetPosition ==
  /\ Kind = "SetPosition"
  /\ pos' = Long(Field(chunk, 6, 10), frame.pc)
  /\ Advance(2)
  /\ UNCHANGED <<importIndex, added, result>>

LgByImport ==
  /\ Kind = "LgByImport"
  /\ LET idx == Long(Field(chunk, 6, 10), frame.pc)
     IN  IF idx >= 2 ^ 20
         THEN /\ Fail
              /\ UNCHANGED <<frames, pos, importIndex, added>>
         ELSE /\ AddOne(Import(idx), 2)
              /\ importIndex' = IF result' = "failed" THEN importIndex ELSE idx + 1

LgRepeat ==
  /\ Kind = "LgRepeat"
  /\ RepeatBlock(Field(chunk, 6, 4) + 1, Long(Field(chunk, 10, 6), frame.pc), 2)

LgSetOrBySection ==
  /\ Kind = "LgSetOrBySection"
  /\ LET idx == Long(Field(chunk, 10, 6), frame.pc)
     IN  IF Field(chunk, 6, 4) # 0
         THEN Advance(2) /\ UNCHANGED <<pos, added, result>>
         ELSE IF idx >= 64
         THEN Fail /\ UNCHANGED <<frames, pos, added>>
         ELSE AddOne(Sect(idx), 2)
  /\ UNCHANGED importIndex

Unknown ==
  /\ Kind = "bad"
  /\ Fail
  /\ UNCHANGED <<frames, pos, importIndex, added>>

Instruction ==
  \/ BySectDWithSkip \/ ByRun \/ ImportRun
  \/ SmByImport \/ SmSetSect \/ SmBySection
  \/ IncrPosition \/ SetPosition
  \/ SmRepeat \/ LgRepeat
  \/ LgByImport \/ LgSetOrBySection \/ Unknown

\* A call of PefExecRange returns: the loop of a repeat calls it again, or
\* goes on behind the repeat instruction.
EndOfRange ==
  /\ frames # <<>> /\ ~InRange
  /\ IF frame.left > 0
     THEN frames' = [frames EXCEPT ![Len(frames)] =
                       [frame EXCEPT !.pc = frame.start, !.left = @ - 1]]
     ELSE frames' = Front(frames)
  /\ result' = IF frames' = <<>> THEN "ok" ELSE result
  /\ UNCHANGED <<pos, importIndex, added>>

\* PefRelocateSection starts on the instructions of a relocation header.
StartHeader(stream, length) ==
  /\ chunks' = stream
  /\ bufLen' = length
  /\ frames' = <<[start |-> 0, pc |-> 0, end |-> Len(stream), left |-> 0]>>
  /\ pos' = 0
  /\ importIndex' = 0
  /\ result' = "running"
  /\ UNCHANGED added

RelocationStep ==
  /\ result = "running"
  /\ \/ InRange /\ Instruction
     \/ EndOfRange
  /\ UNCHANGED <<chunks, bufLen>>
=============================================================================
