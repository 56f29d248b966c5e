----------------------------- MODULE CfmLoader -----------------------------
(***************************************************************************)
(* The loader of the fragments in the System file's data fork              *)
(* (src/cpu/interpreter.c, NatCfmLoadSystem).  The containers of the fork  *)
(* are found one behind the other; a first pass expands each fragment,     *)
(* gives its sections their addresses and collects its exports; a second   *)
(* binds the imports of each and writes its sections to the guest.  Every  *)
(* allocation may fail.  What expansion and relocation make of a section   *)
(* is the subject of PefSection; here a section is its place.              *)
(***************************************************************************)
EXTENDS Integers, Sequences, SequencesExt, FiniteSets

CONSTANTS
  Forks,        \* the forks: functions from 0 .. n - 1 to fragments
  Handler,      \* the host handler for a name, or None (NatMemFindHandler)
  None,         \* NAT_MEM_H_NONE
  EntryBase,    \* NAT_CFM_ENTRY_BASE
  EntryCode,    \* the code address whose owner's TOC is wanted, 0x00100000
  DataBump,     \* NAT_CFM_DATA_BUMP
  MaxExports,   \* NAT_CFM_MAXEXPORTS
  MaxStubs      \* NAT_MEM_MAXSTUB

VARIABLES
  fork,         \* the fragments in the fork
  nf,           \* how many of them were parsed
  pass,         \* "enumerate", "collect", "bind" or "done"
  i,            \* the fragment the pass is at
  secBase,      \* the addresses of the sections of the placed fragments
  bump,         \* where the data of the next fragment goes
  entryToc,     \* the TOC of the owner of EntryCode; 0 if there is none
  map,          \* the exports collected, each a name and an address
  stubs,        \* the handlers of the host stubs, NatMemStubHandler
  bound,        \* what the imports of the instantiated fragments were bound to
  written       \* the fragments whose sections were written to the guest

vars == <<fork, nf, pass, i, secBase, bump, entryToc, map, stubs, bound, written>>

\* PefFragment.secBase has so many places.
MaxSections == 16

\* What PefParse makes of a container: it has at least one section.
Name == DOMAIN Handler
SectionHeader ==
  [kind : {"code", "data", "loader"}, at : Nat, length : Nat, align : Nat \ {0}]
ExportedSymbol == [name : Name, section : Int, value : Nat]
Fragment ==
  [base : Nat, sections : Seq(SectionHeader) \ {<<>>}, init : Nat, tocOffset : Nat,
   exports : Seq(ExportedSymbol), imports : Seq(Name)]

ASSUME ForkAssumption ==
  /\ {MaxExports, MaxStubs, DataBump, EntryCode} \subseteq Nat
  /\ \A f \in Forks :
       /\ IsFiniteSet(DOMAIN f) /\ DOMAIN f = 0 .. Cardinality(DOMAIN f) - 1
       /\ \A k \in DOMAIN f : f[k] \in Fragment /\ Len(f[k].sections) <= MaxSections

\* The first two containers are not for this loader.
FirstFragment == 2

Placed == DOMAIN secBase

\* f with the value v for k.
With(f, k, v) == [n \in DOMAIN f \cup {k} |-> IF n = k THEN v ELSE f[n]]

Init ==
  /\ fork \in Forks
  /\ nf = 0 /\ pass = "enumerate" /\ i = FirstFragment
  /\ secBase = <<>> /\ bump = DataBump /\ entryToc = 0
  /\ map = <<>> /\ stubs = <<>> /\ bound = <<>> /\ written = {}

\* PefEnumFragments ends at the first container it cannot parse.
Enumerate ==
  /\ pass = "enumerate"
  /\ nf' \in 0 .. Cardinality(DOMAIN fork)
  /\ pass' = "collect"
  /\ UNCHANGED <<fork, i, secBase, bump, entryToc, map, stubs, bound, written>>

----------------------------------------------------------------------------
\* The first pass.

\* Mutant of AlignUp: an address is aligned downwards.
AlignDown(at, align) == (at \div align) * align

AlignUp(at, align) == ((at + align - 1) \div align) * align

\* Code goes where it is in the fork, data behind the data placed before; t is
\* where the next code and data would go, and the bases so far.
PlaceSection(f, t, s) ==
  LET code == AlignUp(IF t.code = 0 THEN f.base + s.at ELSE t.code, s.align)
      data == AlignUp(t.data, s.align)
  IN  CASE s.kind = "code" ->
             [t EXCEPT !.code = code + s.length, !.bases = Append(@, code)]
        [] s.kind = "data" ->
             [t EXCEPT !.data = data + s.length, !.bases = Append(@, data)]
        [] s.kind = "loader" -> [t EXCEPT !.bases = Append(@, 0)]

Bases(f, from) ==
  LET after[n \in 0 .. Len(f.sections)] ==
        IF n = 0 THEN [code |-> 0, data |-> from, bases |-> <<>>]
                 ELSE PlaceSection(f, after[n - 1], f.sections[n])
  IN  after[Len(f.sections)]

\* The second word of the init transition vector, or else four bytes into the
\* first data section.
Toc(f, bases) ==
  IF f.init # 0 THEN bases[f.init] + f.tocOffset
  ELSE IF \E s \in DOMAIN f.sections : f.sections[s].kind = "data"
  THEN bases[SelectInSeq(f.sections, LAMBDA s : s.kind = "data")] + 4
  ELSE 0

\* Mutant of Owns: code that begins above the address owns it as well.
OwnsBelow(f, bases) ==
  /\ f.sections[1].kind = "code"
  /\ EntryCode < bases[1] + f.sections[1].length

Owns(f, bases) ==
  /\ f.sections[1].kind = "code"
  /\ EntryCode >= bases[1]
  /\ EntryCode < bases[1] + f.sections[1].length

\* An export that is not in a section with an image has the address 0.
ExportAddress(f, bases, e) ==
  IF e.section \notin DOMAIN f.sections THEN 0
  ELSE IF f.sections[e.section].kind = "loader" THEN 0
  ELSE bases[e.section] + e.value

\* Mutant of Collected: the end of the map is not looked at.
CollectedPastEnd(f, bases) ==
  map \o [k \in DOMAIN f.exports |->
    [name |-> f.exports[k].name, addr |-> ExportAddress(f, bases, f.exports[k])]]

\* The fragment's exports, as far as the map has room.
Collected(f, bases) ==
  LET entry(e) == [name |-> e.name, addr |-> ExportAddress(f, bases, e)]
      room == MaxExports - Len(map)
      n == IF Len(f.exports) < room THEN Len(f.exports) ELSE room
  IN  map \o [k \in 1 .. n |-> entry(f.exports[k])]

Collect ==
  /\ pass = "collect" /\ i < nf
  /\ LET f == fork[i]
         placing == Bases(f, bump)
     IN  /\ secBase' = With(secBase, i, placing.bases)
         /\ bump' = placing.data
         /\ entryToc' = IF Owns(f, placing.bases) THEN Toc(f, placing.bases) ELSE entryToc
         /\ map' = Collected(f, placing.bases)
  /\ i' = i + 1
  /\ UNCHANGED <<fork, nf, pass, stubs, bound, written>>

\* A fragment that cannot be expanded is neither placed nor does it export.
ExpandFails ==
  /\ pass = "collect" /\ i < nf
  /\ i' = i + 1
  /\ UNCHANGED <<fork, nf, pass, secBase, bump, entryToc, map, stubs, bound, written>>

EndOfCollect ==
  /\ pass = "collect" /\ i >= nf
  /\ pass' = "bind"
  /\ i' = FirstFragment
  /\ stubs' = <<>>
  /\ UNCHANGED <<fork, nf, secBase, bump, entryToc, map, bound, written>>

----------------------------------------------------------------------------
\* The second pass.

\* The address of the first export of that name; 0 if there is none.
Lookup(name) ==
  IF \E k \in DOMAIN map : map[k].name = name
  THEN map[SelectInSeq(map, LAMBDA e : e.name = name)].addr
  ELSE 0

Address(a) == [to |-> "address", at |-> a]
Stub(n) == [to |-> "stub", at |-> n]
Glue == [to |-> "glue", at |-> 0]

\* Mutant of BindStub: every import has a stub of its own.
BindStubAnew(table, handler) ==
  IF Len(table) >= MaxStubs THEN [stubs |-> table, import |-> Glue]
  ELSE [stubs |-> Append(table, handler), import |-> Stub(Len(table) + 1)]

\* NatMemBindImport: handlers share a stub, imports without one do not; when
\* the table is full the catch-all glue has to do.
BindStub(table, handler) ==
  IF handler # None /\ Contains(table, handler)
  THEN [stubs |-> table, import |-> Stub(SelectInSeq(table, LAMBDA h : h = handler))]
  ELSE IF Len(table) >= MaxStubs THEN [stubs |-> table, import |-> Glue]
  ELSE [stubs |-> Append(table, handler), import |-> Stub(Len(table) + 1)]

\* Mutant of BindImport: the host's handler comes before the export.
BindImportHostFirst(f, table, name) ==
  IF Handler[name] # None THEN BindStub(table, Handler[name])
  ELSE IF Lookup(name) # 0 THEN [stubs |-> table, import |-> Address(Lookup(name))]
  ELSE IF f.base = EntryBase THEN BindStub(table, None)
  ELSE [stubs |-> table, import |-> Glue]

\* What an import of fragment f is bound to: an export, or the handler the
\* host has for the name, or for the entry fragment a stub that traces.
BindImport(f, table, name) ==
  IF Lookup(name) # 0 THEN [stubs |-> table, import |-> Address(Lookup(name))]
  ELSE IF Handler[name] # None \/ f.base = EntryBase THEN BindStub(table, Handler[name])
  ELSE [stubs |-> table, import |-> Glue]

BindNext(f, t, name) ==
  LET b == BindImport(f, t.stubs, name)
  IN  [stubs |-> b.stubs, imports |-> Append(t.imports, b.import)]

\* All imports of a fragment, one after the other.
BindAll(f) ==
  LET after[n \in 0 .. Len(f.imports)] ==
        IF n = 0 THEN [stubs |-> stubs, imports |-> <<>>]
                 ELSE BindNext(f, after[n - 1], f.imports[n])
  IN  after[Len(f.imports)]

\* The imports of a fragment that was not placed are bound as well; only the
\* sections of one that was placed are written.
Bind ==
  /\ pass = "bind" /\ i < nf
  /\ LET all == BindAll(fork[i])
     IN  /\ stubs' = all.stubs
         /\ bound' = With(bound, i, all.imports)
  /\ written' = IF i \in Placed THEN written \cup {i} ELSE written
  /\ i' = i + 1
  /\ UNCHANGED <<fork, nf, pass, secBase, bump, entryToc, map>>

\* Without room for its import addresses a fragment is passed over.
BindFails ==
  /\ pass = "bind" /\ i < nf
  /\ i' = i + 1
  /\ UNCHANGED <<fork, nf, pass, secBase, bump, entryToc, map, stubs, bound, written>>

EndOfBind ==
  /\ pass = "bind" /\ i >= nf
  /\ pass' = "done"
  /\ UNCHANGED <<fork, nf, i, secBase, bump, entryToc, map, stubs, bound, written>>

Finished ==
  /\ pass = "done"
  /\ UNCHANGED vars

Next ==
  \/ Enumerate
  \/ Collect \/ ExpandFails \/ EndOfCollect
  \/ Bind \/ BindFails \/ EndOfBind
  \/ Finished

Spec == Init /\ [][Next]_vars

----------------------------------------------------------------------------
\* The sections that were given a place, each as a fragment and an index.
PlacedSections ==
  UNION {{<<k, s>> : s \in {s \in DOMAIN fork[k].sections :
                              fork[k].sections[s].kind # "loader"}} : k \in Placed}

Extent(ks) ==
  LET b == secBase[ks[1]][ks[2]] IN b .. b + fork[ks[1]].sections[ks[2]].length - 1

\* NatCfmPlace gives every byte of guest memory to at most one section,
\* whichever fragments were skipped and however they are aligned: the second
\* pass never writes over what it wrote.
PlacedApart ==
  \A x, y \in PlacedSections : x # y => Extent(x) \cap Extent(y) = {}

\* The exports of the placed fragments under a name, as their addresses.
ExportsOf(name) ==
  UNION {{ExportAddress(fork[k], secBase[k], e) :
            e \in {e \in Range(fork[k].exports) : e.name = name}} : k \in Placed}

\* An import is bound to the export of its name wherever in the fork the
\* exporter is, before or behind, and whatever the host has for that name, if
\* one placed fragment exports it from a section and the map was not full; and
\* to nothing in a fragment that was not placed.  The map never outgrows its
\* room.
ImportsFindTheirExport ==
  /\ Len(map) <= MaxExports
  /\ \A k \in DOMAIN bound : \A n \in DOMAIN fork[k].imports :
       LET exports == ExportsOf(fork[k].imports[n])
       IN  /\ \A a \in exports : exports = {a} /\ a # 0 /\ Len(map) < MaxExports
                => bound[k][n] = Address(a)
           /\ bound[k][n].to = "address" => bound[k][n].at \in exports

\* A host stub answers for the name of the import that was bound to it, no
\* handler has two, and a name the host has a handler for is left to the glue
\* only when the table is full.
StubsServeTheirName ==
  /\ \A x, y \in DOMAIN stubs : x # y => stubs[x] # stubs[y] \/ stubs[x] = None
  /\ \A k \in DOMAIN bound : \A n \in DOMAIN fork[k].imports :
       LET h == Handler[fork[k].imports[n]]
       IN  CASE bound[k][n].to = "stub" -> stubs[bound[k][n].at] = h
             [] bound[k][n].to = "glue" -> h = None \/ Len(stubs) = MaxStubs
             [] OTHER -> TRUE

\* The TOC the native handoff uses is that of the one placed fragment whose
\* code holds the entry address, and there is one as soon as it is placed.
EntryTocIsTheOwners ==
  LET owners == {k \in Placed : fork[k].sections[1].kind = "code" /\ EntryCode \in Extent(<<k, 1>>)}
  IN  IF owners = {} THEN entryToc = 0
      ELSE \A k \in owners : entryToc = Toc(fork[k], secBase[k])

\* A call from a loaded fragment to the host, and the handoff to the entry
\* fragment, reach what they are meant for.
CallsReachTheirTarget == StubsServeTheirName /\ EntryTocIsTheOwners
=============================================================================
