------------------------------- MODULE MCBoot -------------------------------
(* Sizes in megabytes: an area of 16 that System and Finder leave room in,  *)
(* fill or do not fit together, one of 32 for three drivers at most; ROM     *)
(* files below, at and above the 4 of a window, some that expand and some    *)
(* that do not.  One set of media varies the ROMs, one the folders.          *)
(*                                                                           *)
(* The third varies what is in a ROM file, without failing calls.  Bytes of  *)
(* two bits, so that a byte of flags is for two items, the dictionary has    *)
(* eight places and a copy three or four bytes.  Every text of up to three   *)
(* items, with copies from before the text, from right behind the place that *)
(* is written and across the end of the ring, is packed by the definition of *)
(* the format and put into files of several shapes, whole and cut short.     *)
EXTENDS BootSequence

MCItem == {[copy |-> FALSE, byte |-> b] : b \in {1, 2}} \cup
          {[copy |-> TRUE, start |-> s, length |-> n] :
             s \in {0, 4, 5, 7}, n \in MinRun .. MinRun + HalfSize - 1}
MCItems == UNION {[1 .. n -> MCItem] : n \in 1 .. 3}

\* The bytes of an item, after those of a flag byte where one is due.
PackedItem(items, i) ==
  LET it == items[i]
      two == i + 1 \in DOMAIN items /\ ~items[i + 1].copy
      flags == (IF it.copy THEN 0 ELSE 1) + (IF two THEN 2 ELSE 0)
  IN (IF i % 2 = 1 THEN <<flags>> ELSE <<>>) \o
     (IF it.copy THEN <<it.start % ByteSize,
                        HalfSize * (it.start \div ByteSize) + it.length - MinRun>>
                 ELSE <<it.byte>>)
Packed(items) == FlattenSeq([i \in DOMAIN items |-> PackedItem(items, i)])

\* What is at place p of a dictionary that text was written into.
At(text, p) ==
  LET js == {j \in DOMAIN text : (Origin + j - 1) % DictSize = p}
  IN IF js = {} THEN 0 ELSE text[CHOOSE j \in js : \A k \in js : k <= j]

CopyOnto(text, start, n) ==
  FoldLeft(LAMBDA t, k : Append(t, At(t, (start + k - 1) % DictSize)), text, [k \in 1 .. n |-> k])

Unpacked(items) ==
  FoldLeft(LAMBDA t, it : IF it.copy THEN CopyOnto(t, it.start, it.length) ELSE Append(t, it.byte),
           <<>>, items)

MCTexts == {[packed |-> Packed(x), text |-> Unpacked(x)] : x \in MCItems}

MCHex(v) == [kind |-> "hex", value |-> v]
MCGap == [kind |-> "gap"]
MCName(n) == [kind |-> "constant", name |-> n]
MCDeclares(o, s) == <<MCHex(o), MCGap, MCName("parcels-offset"),
                      MCHex(s), MCGap, MCGap, MCName("parcels-size")>>
MCParcel(next, type, lzss, body) == [next |-> next, type |-> type, lzss |-> lzss, body |-> body]
MCImage(marker, text, size, parcels) ==
  [marker |-> marker, signed |-> marker, text |-> text, size |-> size, prcl |-> 30,
   parcels |-> parcels]

\* Behind another parcel; alone, with two bytes in front of the packed ones.
MCSecond(b) == LET end == 52 + Len(b)
  IN MCImage(TRUE, MCDeclares(30, end), 30 + end,
            (20 :> MCParcel(40, "other", 12, <<>>) @@ 40 :> MCParcel(end, "rom ", 12, b)))
MCAlone(b) == LET end == 34 + Len(b)
  IN MCImage(TRUE, <<MCName("parcels-size")>> \o MCDeclares(Word + 30, end) \o MCDeclares(7, 8),
            90, (20 :> MCParcel(end, "rom ", 14, <<3, 3>> \o b)))

MCOne == Packed(<<[copy |-> FALSE, byte |-> 1], [copy |-> TRUE, start |-> 4, length |-> 4]>>)

MCOdd ==
  LET good == MCSecond(MCOne)
      end == 52 + Len(MCOne)
  IN {[good EXCEPT !.marker = FALSE], [good EXCEPT !.text = Tail(@)],
      [good EXCEPT !.text = MCDeclares(0, end)], [good EXCEPT !.prcl = 31],
      [good EXCEPT !.prcl = 31, !.signed = FALSE],
      [good EXCEPT !.size = @ - 1], [good EXCEPT !.text = MCDeclares(30, 35)],
      [good EXCEPT !.text = SubSeq(@, 1, 3)],
      [good EXCEPT !.parcels[20].next = 20], [good EXCEPT !.parcels[20].next = end + 1],
      [good EXCEPT !.parcels[20].next = end - 3], [good EXCEPT !.parcels[20].next = 39],
      [good EXCEPT !.parcels[40].type = "other"], [good EXCEPT !.parcels[40].next = 0],
      [good EXCEPT !.parcels[40] = MCParcel(end + 1, @.type, @.lzss, Append(@.body, 0))], [good EXCEPT !.parcels[40].lzss = 90]}

MCImages == {MCSecond(t.packed) : t \in MCTexts} \cup MCOdd \cup
            UNION {{MCAlone(b) : b \in {p \in Prefixes(t.packed) : Len(p) >= 2}} : t \in MCTexts}

\* The bytes that were put into the file.
MCPacked == IF 40 \in DOMAIN file.parcels THEN file.parcels[40].body
                                          ELSE Tail(Tail(file.parcels[20].body))

\* A file of the format is expanded, and only such a file; what comes out is
\* the text that was packed, as far as there is room for it, or the beginning
\* of it when the packed bytes were cut short.
ImageIsWhatWasPacked ==
  /\ step = "refused" => file \in MCOdd
  /\ step = "decoded" /\ pc = "decode" =>
       /\ file \notin MCOdd
       /\ \A t \in MCTexts : IsPrefix(MCPacked, t.packed) =>
            IF MCPacked = t.packed /\ Len(t.text) <= DestSize
              THEN dest = t.text
              ELSE IsPrefix(dest, t.text) /\ (MCPacked = t.packed => Len(dest) = DestSize)

-----------------------------------------------------------------------------
MCExpands == MCSecond(MCOne)
MCDump == [MCExpands EXCEPT !.marker = FALSE]
MCBroken == [MCExpands EXCEPT !.prcl = 31]
MCUnsigned == [MCBroken EXCEPT !.signed = FALSE]
MCEmpty == MCAlone(SubSeq(MCOne, 1, 2)) \* expands to one byte: no entry

MCRom(size, image) == [size |-> size, image |-> image, cut |-> {}]
MCCut(size, image, g) == [MCRom(size, image) EXCEPT !.cut = {g}]
MCFile(name, size, kind) == [name |-> name, size |-> size, kind |-> kind]
MCFolder(system, finder, ext) == [system |-> system, finder |-> finder, extensions |-> ext]
MCMedium(r, m, f, d, n) ==
  [esp |-> [rom |-> r, macOsRom |-> m, folder |-> f], disc |-> d, faults |-> n]
MCDisc(roms, f) == [roms |-> roms, folder |-> f, served |-> TRUE]
MCOtherDrive(disc) == [disc EXCEPT !.served = FALSE]

MCExtensions == <<MCFile("A", 3, "file"), MCFile("B", 0, "dir"), MCFile("Mac OS ROM", 4, "rom"),
                  MCFile("C", 28, "file"), MCFile("D", 0, "file"), MCFile("E", 5, "file")>>

MCRomMedia ==
  {MCMedium(r, m, None, d, 3) :
     r \in {None, MCRom(0, MCDump), MCCut(1, MCDump, MCDump), MCRom(4, MCUnsigned),
            MCRom(5, MCDump)},
     m \in {None, MCCut(3, MCExpands, MCEmpty), MCCut(4, MCBroken, MCUnsigned),
            MCRom(4, MCDump)},
     d \in {None,
            MCDisc({}, None),
            MCDisc({MCRom(2, MCBroken), MCRom(0, MCExpands)}, MCFolder(7, None, None)),
            MCOtherDrive(MCDisc({MCRom(2, MCDump), MCRom(3, MCExpands)},
                                MCFolder(17, 1, None)))}}

MCFolderMedia ==
  {MCMedium(None, None, f, d, 3) :
     f \in {None, MCFolder(None, 2, MCExtensions), MCFolder(7, 8, MCExtensions),
            MCFolder(9, 0, None)},
     d \in {None, MCDisc({MCRom(3, MCExpands)}, MCFolder(None, 1, MCExtensions)),
            MCDisc({}, MCFolder(1, None, MCExtensions)),
            MCDisc({}, MCFolder(11, 7, <<MCFile("A", 1, "file")>>))}}

MCImageMedia == {MCMedium(MCRom(3, f), None, None, None, 0) : f \in MCImages}

MCMedia == MCRomMedia \cup MCFolderMedia \cup MCImageMedia
=============================================================================
