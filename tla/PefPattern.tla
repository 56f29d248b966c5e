----------------------------- MODULE PefPattern -----------------------------
(***************************************************************************)
(* The expansion of pattern-initialized data (src/boot/pef_loader.c,       *)
(* PefExpandOne): a packed section is a stream of instructions, each an    *)
(* opcode in the high three bits of a byte and a count in the low five,    *)
(* that write the image of the section from its first byte on.  The image  *)
(* is filled with zeros before.                                            *)
(***************************************************************************)
EXTENDS Integers, Sequences, SequencesExt

CONSTANT
  Word        \* 2^32: counts are kept in a UINT32

ASSUME WordAssumption == Word \in Nat \ {0} /\ Word % 128 = 0

VARIABLES
  src,        \* the bytes of the section in the container
  p,          \* how many of them have been read
  written,    \* the bytes written so far
  expansion   \* "running", "ok" (0), "failed" (-1) or "runaway": a loop never ends

patternVars == <<src, p, written, expansion>>

Zeros(n) == [i \in 1 .. n |-> 0]

\* The n bytes of the source from position at.
Block(at, n) == SubSeq(src, at + 1, at + n)

\* Where a count that begins at position at ends: behind its first byte
\* without the continuation bit.  Len(src) + 1 if there is none.
CountEnd(at) ==
  IF \E i \in at + 1 .. Len(src) : src[i] < 128
  THEN CHOOSE i \in at + 1 .. Len(src) :
         src[i] < 128 /\ \A k \in at + 1 .. i - 1 : src[k] >= 128
  ELSE Len(src) + 1

\* A count, seven bits to the byte; what is shifted out of the word is lost.
VarCount(at) ==
  IF CountEnd(at) > Len(src) THEN 0
  ELSE FoldLeft(LAMBDA v, c : ((v * 128) % Word) + (c % 128), 0, SubSeq(src, at + 1, CountEnd(at)))

Opcode == src[p + 1] \div 32

\* The count of the instruction, from its own byte or from the bytes after.
ShortCount == src[p + 1] % 32
Count == IF ShortCount = 0 THEN VarCount(p + 1) ELSE ShortCount
CountAfter == IF ShortCount = 0 THEN CountEnd(p + 1) ELSE p + 1

\* Mutant of Emit: a write past the end of the image is not refused.
EmitAnywhere(bytes, end, room) ==
  IF end <= Len(src)
  THEN written' = written \o bytes /\ p' = end /\ UNCHANGED expansion
  ELSE expansion' = "failed" /\ UNCHANGED <<p, written>>

\* The instruction read all it needs up to position end and writes bytes.
Emit(bytes, end, room) ==
  IF end <= Len(src) /\ Len(written) + Len(bytes) <= room
  THEN /\ written' = written \o bytes
       /\ p' = end
       /\ UNCHANGED expansion
  ELSE /\ expansion' = "failed"
       /\ UNCHANGED <<p, written>>

ExpandZero(room) ==
  /\ Opcode = 0
  /\ Emit(IF CountAfter > Len(src) THEN <<>> ELSE Zeros(Count), CountAfter, room)

BlockCopy(room) ==
  /\ Opcode = 1
  /\ LET end == CountAfter + Count
     IN  Emit(IF end > Len(src) THEN <<>> ELSE Block(CountAfter, Count), end, room)

\* Mutant of RepeatedBlock: the block is written as often as the count says, not once more.
RepeatedBlockShort(room) ==
  /\ Opcode = 2
  /\ LET at == CountEnd(CountAfter)
         end == at + Count
     IN  Emit(IF end > Len(src) THEN <<>>
              ELSE FlattenSeq([r \in 1 .. VarCount(CountAfter) |-> Block(at, Count)]),
              end, room)

\* The block once and then as often as the second count says.  For the
\* greatest count the sum that the room is compared with wraps to no block at
\* all, and the loop's own counter never gets past the count: what it writes,
\* on past the image, is not followed.
RepeatedBlock(room) ==
  /\ Opcode = 2
  /\ LET at == CountEnd(CountAfter)
         end == at + Count
         times == (VarCount(CountAfter) + 1) % Word
     IN  IF times = 0 /\ end <= Len(src)
         THEN expansion' = "runaway" /\ UNCHANGED <<p, written>>
         ELSE Emit(IF end > Len(src) THEN <<>>
                   ELSE FlattenSeq([r \in 1 .. times |-> Block(at, Count)]),
                   end, room)

\* A common block (of zeros, or read once) before, between and behind rep
\* custom blocks.
Alternating(common, at, custom, rep) ==
  FlattenSeq([r \in 1 .. rep |-> common \o Block(at + custom * (r - 1), custom)]) \o common

InterleaveBlock(room) ==
  /\ Opcode = 3
  /\ LET second == CountEnd(CountAfter)
         at == CountEnd(second)
         custom == VarCount(CountAfter)
         rep == VarCount(second)
         end == at + Count + custom * rep
     IN  Emit(IF end > Len(src) THEN <<>>
              ELSE Alternating(Block(at, Count), at + Count, custom, rep), end, room)

InterleaveZero(room) ==
  /\ Opcode = 4
  /\ LET second == CountEnd(CountAfter)
         at == CountEnd(second)
         custom == VarCount(CountAfter)
         rep == VarCount(second)
         end == at + custom * rep
     IN  Emit(IF end > Len(src) THEN <<>>
              ELSE Alternating(Zeros(Count), at, custom, rep), end, room)

UnknownPattern ==
  /\ Opcode > 4
  /\ expansion' = "failed"
  /\ UNCHANGED <<p, written>>

PatternEnd ==
  /\ p = Len(src)
  /\ expansion' = "ok"
  /\ UNCHANGED <<p, written>>

\* One instruction for an image of room bytes.
PatternStep(room) ==
  /\ expansion = "running"
  /\ \/ /\ p < Len(src)
        /\ \/ ExpandZero(room) \/ BlockCopy(room) \/ RepeatedBlock(room)
           \/ InterleaveBlock(room) \/ InterleaveZero(room) \/ UnknownPattern
     \/ PatternEnd
  /\ UNCHANGED src
=============================================================================
