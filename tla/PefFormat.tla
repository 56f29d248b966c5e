----------------------------- MODULE PefFormat -----------------------------
(***************************************************************************)
(* The two little languages of a PEF section as their instructions, not as *)
(* bits: what a pattern writes, what a relocation program adds, and how    *)
(* both are laid out in the container.  The layout is that of              *)
(* PEFBinaryFormat.h, on which the loader relies; what the programs mean   *)
(* is said here without a machine that runs them.                          *)
(***************************************************************************)
EXTENDS Integers, Sequences, SequencesExt

----------------------------------------------------------------------------
\* Patterns.  An instruction writes common blocks before, between and behind
\* custom blocks; each of the five opcodes is a case of it.

PatZero(n) == [op |-> 0, common |-> [i \in 1 .. n |-> 0], customs |-> <<>>]
PatBlock(b) == [op |-> 1, common |-> b, customs |-> <<>>]
PatRepeat(b, times) == [op |-> 2, common |-> b, customs |-> [i \in 1 .. times - 1 |-> <<>>]]
PatInterleave(b, customs) == [op |-> 3, common |-> b, customs |-> customs]
PatSpread(n, customs) ==
  [op |-> 4, common |-> [i \in 1 .. n |-> 0], customs |-> customs]

PatReserved == [op |-> 6, common |-> <<1>>, customs |-> <<<<>>>>]

\* The bytes a pattern stands for.
PatternBytes(pattern) ==
  FlattenSeq([k \in DOMAIN pattern |->
    pattern[k].common \o
    FlattenSeq([i \in DOMAIN pattern[k].customs |->
                  pattern[k].customs[i] \o pattern[k].common])])

\* A count in one byte, or in two.
CountBytes(n, wide) ==
  IF wide \/ n > 127 THEN <<128 + n \div 128, n % 128>> ELSE <<n>>

PatternLayout(pattern, wide) ==
  LET First(i) == IF Len(i.common) \in 1 .. 31 /\ ~wide THEN <<i.op * 32 + Len(i.common)>>
                 ELSE <<i.op * 32>> \o CountBytes(Len(i.common), wide)
      Counts(i) == CASE i.op \in {0, 1} -> <<>>
                     [] i.op = 2 -> CountBytes(Len(i.customs), wide)
                     [] OTHER -> CountBytes(Len(i.customs[1]), wide) \o CountBytes(Len(i.customs), wide)
      Data(i) == (IF i.op \in {0, 4} THEN <<>> ELSE i.common)
                 \o (IF i.op = 2 THEN <<>> ELSE FlattenSeq(i.customs))
  IN  FlattenSeq([k \in DOMAIN pattern |->
        First(pattern[k]) \o Counts(pattern[k]) \o Data(pattern[k])])

\* Every count of the pattern, and one more, is below a word.
CountsFit(pattern, word) ==
  \A k \in DOMAIN pattern :
    /\ Len(pattern[k].common) < word
    /\ Len(pattern[k].customs) + 1 < word
    /\ \A i \in DOMAIN pattern[k].customs : Len(pattern[k].customs[i]) < word

----------------------------------------------------------------------------
\* Relocations.

SkipD(skip, run) == [op |-> "SkipD", skip |-> skip, run |-> run]
Words(kind, run) == [op |-> "Words", kind |-> kind, run |-> run]
ByImport(index, long) == [op |-> "ByImport", index |-> index, long |-> long]
BySection(index, long) == [op |-> "BySection", index |-> index, long |-> long]
Choose(which) == [op |-> "Choose", which |-> which]
Incr(by) == [op |-> "Incr", by |-> by]
SetPos(to) == [op |-> "SetPos", to |-> to]
Reserved == [op |-> "Reserved"]
Again(last, times, long) == [op |-> "Again", last |-> last, times |-> times, long |-> long]

Kinds == <<"SectC", "SectD", "TVector12", "TVector8", "VTable8", "Imports">>

Chunks(i) ==
  IF i.op = "SetPos" THEN 2
  ELSE IF i.op \in {"ByImport", "BySection", "Again"} THEN (IF i.long THEN 2 ELSE 1)
  ELSE 1

\* The chunks of the k-th instruction of a program.
Layout(program, k) ==
  LET i == program[k]
      cc == FoldLeft(LAMBDA n, j : n + Chunks(j), 0, SubSeq(program, k - i.last, k - 1))
  IN  CASE i.op = "SkipD" -> <<i.skip * 64 + i.run>>
        [] i.op = "Words" ->
             <<16384 + ((CHOOSE s \in DOMAIN Kinds : Kinds[s] = i.kind) - 1) * 512 + i.run - 1>>
        [] i.op = "ByImport" ->
             IF i.long THEN <<41984 + i.index \div 65536, i.index % 65536>>
             ELSE <<24576 + i.index>>
        [] i.op = "BySection" ->
             IF i.long THEN <<46080, i.index>> ELSE <<26112 + i.index>>
        [] i.op = "Choose" -> <<IF i.which = 0 THEN 25088 ELSE 25601>>
        [] i.op = "Incr" -> <<32768 + i.by - 1>>
        [] i.op = "SetPos" -> <<40960 + i.to \div 65536, i.to % 65536>>
        [] i.op = "Reserved" -> <<49152>>
        [] i.op = "Again" ->
             IF i.long THEN <<45056 + (cc - 1) * 64 + i.times \div 65536, i.times % 65536>>
             ELSE <<36864 + (cc - 1) * 256 + i.times - 1>>

ProgramLayout(program) == FlattenSeq([k \in DOMAIN program |-> Layout(program, k)])

\* The program with every repetition written out.
Unrolled(program) ==
  LET U[k \in DOMAIN program] ==
        IF program[k].op # "Again" THEN <<program[k]>>
        ELSE FlattenSeq([r \in 1 .. program[k].times |->
               FlattenSeq([j \in 1 .. program[k].last |-> U[k - program[k].last + j - 1]])])
  IN  FlattenSeq([k \in DOMAIN program |-> U[k]])

\* An entry of a run: the names added to its words, and its length.
Entry(kind, import) ==
  CASE kind = "SectC" -> [names |-> <<<<"section", 0>>>>, size |-> 4]
    [] kind = "SectD" -> [names |-> <<<<"section", 1>>>>, size |-> 4]
    [] kind = "TVector12" -> [names |-> <<<<"section", 0>>, <<"section", 1>>>>, size |-> 12]
    [] kind = "TVector8" -> [names |-> <<<<"section", 0>>, <<"section", 1>>>>, size |-> 8]
    [] kind = "VTable8" -> [names |-> <<<<"section", 1>>>>, size |-> 8]
    [] kind = "Imports" -> [names |-> <<<<"import", import>>>>, size |-> 4]

\* s: where the position is, which import is next, and the entries so far.
Place(s, names, size) ==
  [s EXCEPT !.at = @ + size,
            !.entries = Append(@, [at |-> s.at, names |-> names, size |-> size])]

\* A reserved instruction is an entry that no section has room for.
NoRoom == 1000000

Means(s, i) ==
  CASE i.op = "SkipD" ->
         FoldLeft(LAMBDA t, e : Place(t, <<<<"section", 1>>>>, 4),
                  [s EXCEPT !.at = @ + 4 * i.skip], [e \in 1 .. i.run |-> e])
    [] i.op = "Words" ->
         FoldLeft(LAMBDA t, e : LET w == Entry(i.kind, t.next)
                                    u == Place(t, w.names, w.size)
                                IN  IF i.kind = "Imports" THEN [u EXCEPT !.next = @ + 1] ELSE u,
                  s, [e \in 1 .. i.run |-> e])
    [] i.op = "ByImport" ->
         [Place(s, <<<<"import", i.index>>>>, 4) EXCEPT !.next = i.index + 1]
    [] i.op = "BySection" -> Place(s, <<<<"section", i.index>>>>, 4)
    [] i.op = "Choose" -> s
    [] i.op = "Incr" -> [s EXCEPT !.at = @ + i.by]
    [] i.op = "SetPos" -> [s EXCEPT !.at = i.to]
    [] i.op = "Reserved" -> Place(s, <<<<"none", 0>>>>, NoRoom)

\* The entries of a program, in order.
ProgramEntries(program) ==
  FoldLeft(Means, [at |-> 0, next |-> 0, entries |-> <<>>], Unrolled(program)).entries

\* The additions entries stand for, as pairs of an offset and a name.
Additions(entries) ==
  FlattenSeq([e \in DOMAIN entries |->
    [j \in DOMAIN entries[e].names |-> <<entries[e].at + 4 * (j - 1), entries[e].names[j]>>]])
=============================================================================
