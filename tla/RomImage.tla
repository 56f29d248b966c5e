------------------------------ MODULE RomImage ------------------------------
(***************************************************************************)
(* BootDecodeChrpRom and BootLzssDecode (src/boot/bootloader_impl.c): a    *)
(* "Mac OS ROM" file is a text that declares where a chain of parcels      *)
(* lies, one of which is the compressed image.  It is expanded with a      *)
(* dictionary kept as a ring, flags taken from a shifted byte and copies   *)
(* addressed by a place in the ring; a step is one byte of output, or the  *)
(* reading of what decides the next ones.  The widths of a byte and of its *)
(* half are constants.  A file is a record: does it begin with the marker, *)
(* and is that "signed" by a carriage return, the tokens of its text, its  *)
(* size, and the parcels by their place in the chain's own area.           *)
(***************************************************************************)
EXTENDS Integers, Sequences

CONSTANTS
  ByteSize,  \* the values of a byte: 256
  HalfSize,  \* the values of its low half: 16
  DictSize,  \* 0x1000
  Origin,    \* where the dictionary is written first: 0xFEE
  DestSize,  \* the room for the image
  Images,    \* the files, each a record
  None,      \* no such thing
  Word       \* the values of a 32-bit word: 2^32

Byte == 0 .. ByteSize - 1
MinRun == 3

ASSUME LzssAssumption ==
  /\ ByteSize \in Nat \ {0}
  /\ HalfSize \in Nat \ {0}
  /\ DictSize \in Nat \ {0}
  /\ Origin \in 0 .. DictSize - 1
  /\ DestSize \in Nat

VARIABLES
  src,    \* what is left of the input
  mask,   \* RunMask
  dict,   \* g_LzssDict
  idx,    \* DictIdx
  run,    \* the copy under way: its Start and how many bytes it has left
  dest    \* Dest[0 .. Written - 1]

lzssVars == <<src, mask, dict, idx, run, dest>>

NoRun == [start |-> 0, left |-> 0]

DecodeInit ==
  /\ mask = 0
  /\ dict = [i \in 0 .. DictSize - 1 |-> 0]
  /\ idx = Origin
  /\ run = NoRun
  /\ dest = <<>>

Follows(i) == IF i = DictSize - 1 THEN 0 ELSE i + 1

\* Mutant of Emit: nothing is put into the dictionary once the image is full.
EmitWhileRoom(c) ==
  /\ dict' = IF Len(dest) < DestSize THEN [dict EXCEPT ![idx] = c] ELSE dict
  /\ idx' = Follows(idx)
  /\ dest' = IF Len(dest) < DestSize THEN Append(dest, c) ELSE dest

Emit(c) ==
  /\ dict' = [dict EXCEPT ![idx] = c]
  /\ idx' = Follows(idx)
  /\ dest' = IF Len(dest) < DestSize THEN Append(dest, c) ELSE dest

\* Between two items, with flags left or not.
Idle == run.left = 0
Flagged == mask >= ByteSize

\* A byte of flags, below a row of ones that shows when it is used up.
TakeFlags ==
  /\ Idle /\ ~Flagged /\ src # <<>>
  /\ mask' = Head(src) + (ByteSize - 1) * ByteSize
  /\ src' = Tail(src)
  /\ UNCHANGED <<dict, idx, run, dest>>

Verbatim ==
  /\ Idle /\ Flagged /\ mask % 2 = 1 /\ src # <<>>
  /\ Emit(Head(src))
  /\ src' = Tail(src)
  /\ mask' = mask \div 2
  /\ UNCHANGED run

\* Two bytes: the place in the dictionary, whose upper part is the upper half
\* of the second, and the length.
StartRun ==
  /\ Idle /\ Flagged /\ mask % 2 = 0 /\ Len(src) >= 2
  /\ run' = [start |-> (src[1] + ByteSize * (src[2] \div HalfSize)) % DictSize,
             left |-> (src[2] % HalfSize) + MinRun]
  /\ src' = Tail(Tail(src))
  /\ mask' = mask \div 2
  /\ UNCHANGED <<dict, idx, dest>>

\* Mutant of RunByte: the copy starts over where it began.
RunByteInPlace ==
  /\ ~Idle
  /\ Emit(dict[run.start])
  /\ run' = IF run.left = 1 THEN NoRun ELSE [run EXCEPT !.left = @ - 1]
  /\ UNCHANGED <<src, mask>>

RunByte ==
  /\ ~Idle
  /\ Emit(dict[run.start])
  /\ run' = IF run.left = 1 THEN NoRun ELSE [start |-> Follows(run.start), left |-> run.left - 1]
  /\ UNCHANGED <<src, mask>>

\* The input ends, maybe in the middle of an item.
Exhausted ==
  /\ Idle
  /\ \/ src = <<>>
     \/ Flagged /\ mask % 2 = 0 /\ Len(src) < 2

Decode == TakeFlags \/ Verbatim \/ StartRun \/ RunByte

-----------------------------------------------------------------------------
\* The byte written d bytes ago, and how far back a place of the ring is.
Ago(d) == IF d <= idx THEN dict[idx - d] ELSE dict[idx - d + DictSize]
Back(i) == IF i < idx THEN idx - i ELSE idx - i + DictSize

Window == INSTANCE SlidingWindow
            WITH Reach <- DictSize, Limit <- DestSize, Length <- MinRun .. MinRun + HalfSize - 1,
                 past <- [d \in 1 .. DictSize |-> Ago(d)],
                 copy <- IF Idle THEN [back |-> 1, left |-> 0]
                                 ELSE [back |-> Back(run.start), left |-> run.left],
                 text <- dest

\* The ring implements the sliding window: a copy is taken from a fixed
\* distance back in the output, also when it overlaps the place that is being
\* written, when either goes past the end of the ring, and when the image is
\* full.
ImplementsSlidingWindow == Window!Spec

-----------------------------------------------------------------------------
FirstParcel == 20  \* 0x14, behind the chain's own header
HeaderSize == 12

ASSUME ImageAssumption ==
  /\ Word \in Nat \ {0}
  /\ \A f \in Images : \A p \in DOMAIN f.parcels :
       /\ f.parcels[p].body \in Seq(Byte)
       /\ f.parcels[p].next \in Nat /\ f.parcels[p].lzss \in Nat
       /\ f.parcels[p].lzss >= HeaderSize
       /\ f.parcels[p].type = "rom " =>
            p + HeaderSize + Len(f.parcels[p].body) >= f.parcels[p].next

VARIABLES
  file,    \* the file being decoded, or None before
  step,    \* where BootDecodeChrpRom is, or its answer
  offset   \* the parcel being looked at

imageVars == <<file, step, offset, lzssVars>>

ImageInit ==
  /\ file = None
  /\ step = "start"
  /\ offset = FirstParcel
  /\ src = <<>>
  /\ DecodeInit

StartImage(f) ==
  /\ step = "start"
  /\ step' = "text"
  /\ file' = f
  /\ UNCHANGED <<offset, lzssVars>>

\* The number in front of a token, over any white space: a word of hexadecimal
\* digits, of which the last eight count.
Before(i) ==
  LET words == {j \in 1 .. i - 1 : file.text[j].kind # "gap"}
      last == CHOOSE j \in words : \A k \in words : k <= j
  IN IF words # {} /\ file.text[last].kind = "hex" THEN {file.text[last].value % Word} ELSE {}

\* Mutant of Declared: the last declaration of a name counts.
DeclaredLast(name) ==
  LET at == {i \in DOMAIN file.text : /\ file.text[i].kind = "constant"
                                     /\ file.text[i].name = name
                                     /\ Before(i) # {}}
  IN IF at = {} THEN {} ELSE Before(CHOOSE i \in at : \A j \in at : i >= j)

\* The value of the first declaration of a name that has one.
Declared(name) ==
  LET at == {i \in DOMAIN file.text : /\ file.text[i].kind = "constant"
                                     /\ file.text[i].name = name
                                     /\ Before(i) # {}}
  IN IF at = {} THEN {} ELSE Before(CHOOSE i \in at : \A j \in at : i <= j)

ParcelsOffset == CHOOSE v \in Declared("parcels-offset") : TRUE
ParcelsSize == CHOOSE v \in Declared("parcels-size") : TRUE

\* The text leads to a chain of parcels inside of the file.
LeadsToParcels ==
  /\ file.marker
  /\ Declared("parcels-offset") # {} /\ Declared("parcels-size") # {}
  /\ ParcelsOffset # 0
  /\ ParcelsOffset + ParcelsSize <= file.size
  /\ ParcelsOffset = file.prcl

\* Pages for the image are allocated, and given back when the chain is refused.
ReadText ==
  /\ step = "text"
  /\ step' \in IF ~LeadsToParcels THEN {"refused"}
               ELSE IF ParcelsSize < FirstParcel + 16 THEN {"refused", "no pages"}
               ELSE {"walk", "no pages"}
  /\ UNCHANGED <<file, offset, lzssVars>>

\* What is read as a parcel's header where there is none.
Nothing == [next |-> 0, type |-> "other", lzss |-> HeaderSize, body |-> <<>>]
Parcel == IF offset \in DOMAIN file.parcels THEN file.parcels[offset] ELSE Nothing

\* Mutant of Payload: it begins right behind the header.
PayloadFromHeader == SubSeq(Parcel.body, 1, Parcel.next - offset - HeaderSize)

\* The compressed bytes, from the parcel's own offset to the next parcel.
Payload == SubSeq(Parcel.body, Parcel.lzss - HeaderSize + 1, Parcel.next - offset - HeaderSize)

RomParcel ==
  /\ Parcel.type = "rom "
  /\ IF offset + Parcel.lzss <= Parcel.next /\ Parcel.next <= ParcelsSize
       THEN step' = "expand" /\ src' = Payload
       ELSE step' = "refused" /\ UNCHANGED src
  /\ UNCHANGED offset

OtherParcel ==
  /\ Parcel.type # "rom "
  /\ IF offset < Parcel.next /\ Parcel.next <= ParcelsSize
       THEN offset' = Parcel.next /\ UNCHANGED step
       ELSE step' = "refused" /\ UNCHANGED offset
  /\ UNCHANGED src

\* BootDecodeParcels.
WalkParcels ==
  /\ step = "walk"
  /\ IF offset + HeaderSize > ParcelsSize
       THEN step' = "refused" /\ UNCHANGED <<offset, src>>
       ELSE RomParcel \/ OtherParcel
  /\ UNCHANGED <<file, mask, dict, idx, run, dest>>

Expand ==
  /\ step = "expand"
  /\ Decode
  /\ UNCHANGED <<file, step, offset>>

\* The image is what came out, whatever the input lacked.
Expanded ==
  /\ step = "expand"
  /\ Exhausted
  /\ step' = "decoded"
  /\ UNCHANGED <<file, offset, lzssVars>>

Answered == step \in {"refused", "no pages", "decoded"}

DecodeImage == ReadText \/ WalkParcels \/ Expand \/ Expanded
=============================================================================
