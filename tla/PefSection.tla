----------------------------- MODULE PefSection -----------------------------
(***************************************************************************)
(* The way of a section of a PEF container into guest memory               *)
(* (src/boot/pef_loader.c, PefExpandSections and PefRelocateSection;       *)
(* src/cpu/interpreter.c, NatCfmLoadSystem): it is expanded into an image  *)
(* in host memory, the relocation programs of its headers are run on the   *)
(* image, and the image is written to the guest word by word.              *)
(*                                                                         *)
(* A section is given as what its pattern and its programs mean            *)
(* (PefFormat); the machines of PefPattern and PefRelocation see the bytes *)
(* and the chunks these are laid out as.                                   *)
(***************************************************************************)
EXTENDS PefPattern, PefRelocation, PefFormat, FiniteSets, TLC

CONSTANTS
  Sections,     \* the sections a container may hold
  Absent        \* what a guest word that was not written holds

VARIABLES
  section,      \* the section
  phase,        \* "expand", "relocate", "instantiate", "done" or "skipped"
  header,       \* how many relocation headers of the container were read
  guest         \* the words of the section's place in guest memory

vars == <<patternVars, relocVars, section, phase, header, guest>>

ASSUME SectionAssumption ==
  \A s \in Sections :
    /\ s.packed \in BOOLEAN /\ s.wide \in BOOLEAN
    /\ s.length \in 0 .. Len(PatternLayout(s.pattern, s.wide))    \* containerLength
    /\ \A h \in DOMAIN s.headers : s.headers[h].section \in Nat
    /\ s.index \in Nat /\ s.total \in Nat
    /\ ~s.packed => Len(PatternBytes(s.pattern)) <= s.total
    /\ s.total + s.length < Word   \* so that common + custom of an interleave does not wrap

\* The section's bytes in the container.  Of a pattern the container may hold
\* only the first; the bytes of a plain section are what its pattern writes.
Contents(s) ==
  IF s.packed THEN SubSeq(PatternLayout(s.pattern, s.wide), 1, s.length)
  ELSE PatternBytes(s.pattern)

Init ==
  /\ section \in Sections
  /\ phase = "expand"
  /\ header = 0
  /\ guest = [w \in 0 .. section.total |-> Absent]
  /\ src = Contents(section) /\ p = 0 /\ written = <<>>
  /\ expansion = "running"
  /\ chunks = <<>> /\ bufLen = 0 /\ frames = <<>> /\ pos = 0 /\ importIndex = 0 /\ added = <<>>
  /\ result = "waiting"

\* A section that is not packed is copied; it is not longer than its image.
CopyContents ==
  /\ ~section.packed
  /\ expansion = "running"
  /\ written' = src
  /\ p' = Len(src)
  /\ expansion' = "ok"
  /\ UNCHANGED src

Expand ==
  /\ phase = "expand"
  /\ \/ CopyContents
     \/ section.packed /\ PatternStep(section.total)
  /\ phase' = CASE expansion' = "ok" -> "relocate"
                [] expansion' = "failed" -> "skipped"
                [] OTHER -> phase
  /\ UNCHANGED <<relocVars, section, header, guest>>

\* Mutant of NextHeader: the walk stays at the header of another section.
NextHeaderStays ==
  /\ phase = "relocate"
  /\ result \in {"waiting", "ok"}
  /\ header < Len(section.headers)
  /\ IF section.headers[header + 1].section = section.index
     THEN /\ header' = header + 1
          /\ StartHeader(ProgramLayout(section.headers[header + 1].program), section.total)
     ELSE UNCHANGED <<header, relocVars>>
  /\ UNCHANGED <<patternVars, section, phase, guest>>

\* The loader walks all relocation headers and takes those of the section.
NextHeader ==
  /\ phase = "relocate"
  /\ result \in {"waiting", "ok"}
  /\ header < Len(section.headers)
  /\ header' = header + 1
  /\ IF section.headers[header + 1].section = section.index
     THEN StartHeader(ProgramLayout(section.headers[header + 1].program), section.total)
     ELSE UNCHANGED relocVars
  /\ UNCHANGED <<patternVars, section, phase, guest>>

Relocate ==
  /\ phase = "relocate"
  /\ RelocationStep
  /\ UNCHANGED <<patternVars, section, phase, header, guest>>

\* Whether relocation failed is not looked at.
Relocated ==
  /\ phase = "relocate"
  /\ \/ result = "failed"
     \/ result # "running" /\ header = Len(section.headers)
  /\ phase' = "instantiate"
  /\ UNCHANGED <<patternVars, relocVars, section, header, guest>>

\* Mutant of Image: the memory of the image is not cleared.
DirtyImage == written \o [i \in 1 .. section.total - Len(written) |-> 85]

\* The image of the section: what was written, then zeros.
Image == written \o Zeros(section.total - Len(written))

AddedAt(adds, w) == LET here(a) == a[1] = w IN SelectSeq(adds, here)

\* The words that lie in the image with all their bytes.
WholeWords == {w \in 0 .. section.total : w % 4 = 0 /\ w + 4 <= section.total}

Instantiate ==
  /\ phase = "instantiate"
  /\ guest' = [w \in 0 .. section.total |->
                 IF w \in WholeWords
                 THEN [bytes |-> SubSeq(Image, w + 1, w + 4), adds |-> AddedAt(added, w)]
                 ELSE guest[w]]
  /\ phase' = "done"
  /\ UNCHANGED <<patternVars, relocVars, section, header>>

Finished ==
  /\ phase \in {"done", "skipped"} \/ expansion = "runaway"
  /\ UNCHANGED vars

Next ==
  Expand \/ NextHeader \/ Relocate \/ Relocated \/ Instantiate \/ Finished

Spec == Init /\ [][Next]_vars /\ WF_vars(Next)

----------------------------------------------------------------------------
Own == SelectSeq(section.headers, LAMBDA h : h.section = section.index)

\* The entries of the programs of the section, in the order of the headers.
OwnEntries == FlattenSeq([h \in DOMAIN Own |-> ProgramEntries(Own[h].program)])

Inside(e) == e.at + e.size <= section.total

\* PefVarCount can hold the counts of the section.
CountsHeld == CountsFit(section.pattern, Word)

\* A repeat in its long form of more than eight chunks: the high bit of its
\* four-bit field makes it an instruction that PefExecRange does not know.
LongRepeat(program, k) ==
  /\ program[k].op = "Again" /\ program[k].long
  /\ Len(ProgramLayout(SubSeq(program, k - program[k].last, k - 1))) > 8

\* The bytes PefExpandOne has written are at every moment the first bytes of
\* what the pattern stands for, however the instructions are encoded and
\* wherever the container ends; a complete pattern that fits, of instructions
\* there are, is not refused.  This is for patterns whose counts a word holds:
\* longer ones lose their high bits (pef_loader.c:299), and a block repeated a
\* word of times is written for ever (339).
ExpansionFollowsPattern ==
  CountsHeld =>
  LET whole == PatternBytes(section.pattern)
  IN  /\ IsPrefix(written, whole) /\ Len(written) <= section.total
      /\ expansion = "ok" /\ section.length = Len(PatternLayout(section.pattern, section.wide))
           => written = whole
      /\ expansion = "failed" =>
           \/ section.length < Len(PatternLayout(section.pattern, section.wide))
           \/ Len(whole) > section.total
           \/ PatReserved \in Range(section.pattern)

\* PefExecRange adds, at every moment, the first of the addresses that the
\* programs with their repetitions written out add, at the same places and in
\* that order, nested and repeated blocks included; when it succeeds, all.  A
\* program whose entries all lie in the section is not refused, unless it has
\* a long repeat of more than eight chunks: the seven bits that PefExecRange
\* compares (pef_loader.c:668) take the first bit of the block's length in.
RelocationFollowsProgram ==
  LET adds == Additions(OwnEntries)
  IN  /\ IsPrefix(added, adds)
      /\ phase \in {"instantiate", "done"} /\ result # "failed" => added = adds
      /\ result = "failed" =>
           \/ LET entries == OwnEntries IN \E e \in DOMAIN entries : ~Inside(entries[e])
           \/ \E h \in DOMAIN Own : \E k \in DOMAIN Own[h].program : LongRepeat(Own[h].program, k)

\* What the guest finds in a section that was loaded without an error, its
\* counts held by a word, is the expanded section with its addresses, each
\* word as if it was made alone; a section that could not be expanded leaves
\* the memory alone.
GuestHoldsSection ==
  LET whole == PatternBytes(section.pattern)
      bytes == whole \o Zeros(section.total - Len(whole))
  IN  /\ phase = "skipped" => \A w \in DOMAIN guest : guest[w] = Absent
      /\ /\ phase = "done" /\ result # "failed" /\ CountsHeld
         /\ section.length = Len(PatternLayout(section.pattern, section.wide))
         => LET adds == Additions(OwnEntries)
            IN  \A w \in WholeWords :
                  guest[w] = [bytes |-> SubSeq(bytes, w + 1, w + 4),
                              adds |-> AddedAt(adds, w)]

\* Every section whose counts a word holds is loaded or skipped: no pattern of
\* this kind, and no nesting of repetitions, keeps the loader.
LoadingEnds == CountsHeld => <>(phase \in {"done", "skipped"})
=============================================================================
