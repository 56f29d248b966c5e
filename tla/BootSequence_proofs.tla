------------------------ MODULE BootSequence_proofs ------------------------
(***************************************************************************)
(* What the boot promises of the guest's map and of the two staging areas, *)
(* for every set of media, every number of windows and every way in which  *)
(* firmware calls may fail; and that the ring of BootLzssDecode implements *)
(* the sliding window.                                                     *)
(***************************************************************************)
EXTENDS BootSequence, FiniteSetTheorems, SequenceTheorems, WellFoundedInduction, TLAPS

(***************************************************************************)
(* Induction over the natural numbers, for a set.                          *)
(***************************************************************************)
LEMMA Least ==
  ASSUME NEW S, S \subseteq Nat, S # {}
  PROVE  \E n \in S : \A m \in S : n <= m
<1> DEFINE R == OpToRel(<, Nat)
<1>1. IsWellFoundedOn(R, Nat)
  BY NatLessThanWellFounded
<1>2. \A m, n \in Nat : m < n => <<m, n>> \in R
  BY DEF OpToRel
<1> HIDE DEF R
<1>3. PICK n \in S : \A m \in S : <<m, n>> \notin R
  BY <1>1, WFMin
<1>4. \A m \in S : ~(m < n)
  BY <1>2, <1>3
<1> QED
  BY <1>4

LEMMA Induction ==
  ASSUME NEW T, 0 \in T, \A n \in Nat : n \in T => n + 1 \in T
  PROVE  Nat \subseteq T
<1>1. SUFFICES ASSUME Nat \ T # {} PROVE FALSE
  OBVIOUS
<1>2. PICK n \in Nat \ T : \A m \in Nat \ T : n <= m
  BY <1>1, Least
<1>3. n # 0 /\ n - 1 \in Nat
  BY <1>2
<1> QED
  BY <1>2, <1>3

\* f is the run of a loop of n turns, from a on.
IsLoop(f, S, a, turn, n) ==
  /\ f \in [0 .. n -> S]
  /\ f[0] = a
  /\ \A k \in 1 .. n : f[k] = turn[<<f[k - 1], k>>]

\* A loop that is given by its step has a result after each turn.
LEMMA LoopExists ==
  ASSUME NEW S, NEW a \in S, NEW turn \in [S \X Nat -> S], NEW n \in Nat
  PROVE  \E f : IsLoop(f, S, a, turn, n)
<1> DEFINE Turns(m) == \E f \in [0 .. m -> S] :
             /\ f[0] = a
             /\ \A k \in 1 .. m : f[k] = turn[<<f[k - 1], k>>]
           T == {m \in Nat : Turns(m)}
<1>1. Turns(0)
  <2> DEFINE f == [k \in 0 .. 0 |-> a]
  <2>1. f \in [0 .. 0 -> S] /\ f[0] = a /\ \A k \in 1 .. 0 : f[k] = turn[<<f[k - 1], k>>]
    OBVIOUS
  <2> QED
    BY <2>1
<1>2. ASSUME NEW m \in Nat, Turns(m)
      PROVE  Turns(m + 1)
  <2>1. PICK f \in [0 .. m -> S] :
           /\ f[0] = a
           /\ \A k \in 1 .. m : f[k] = turn[<<f[k - 1], k>>]
    BY <1>2
  <2> DEFINE g == [k \in 0 .. m + 1 |-> IF k <= m THEN f[k] ELSE turn[<<f[m], k>>]]
  <2>2. m \in 0 .. m /\ m + 1 \in Nat
    OBVIOUS
  <2>3. f[m] \in S /\ turn[<<f[m], m + 1>>] \in S
    BY <2>1, <2>2
  <2>4. \A k \in 0 .. m + 1 : k \in 0 .. m \/ k = m + 1
    OBVIOUS
  <2>5. \A k \in 0 .. m : g[k] = f[k]
    BY <2>2
  <2>6. g[m + 1] = turn[<<f[m], m + 1>>]
    BY <2>2
  <2>7. g \in [0 .. m + 1 -> S]
    BY <2>1, <2>3, <2>4
  <2>8. ASSUME NEW k \in 1 .. m + 1
        PROVE  g[k] = turn[<<g[k - 1], k>>]
    <3>1. CASE k \in 1 .. m
      <4>1. k \in 0 .. m /\ k - 1 \in 0 .. m
        BY <3>1
      <4> QED
        BY <2>1, <2>5, <3>1, <4>1
    <3>2. CASE k = m + 1
      <4>1. k - 1 = m
        BY <3>2
      <4> QED
        BY <2>2, <2>5, <2>6, <3>2, <4>1
    <3> QED
      BY <3>1, <3>2
  <2>9. g[0] = a
    BY <2>1, <2>5
  <2> QED
    BY <2>7, <2>8, <2>9
<1> HIDE DEF Turns
<1>3. 0 \in T /\ \A m \in Nat : m \in T => m + 1 \in T
  BY <1>1, <1>2
<1>4. Nat \subseteq T
  <2> HIDE DEF T
  <2> QED
    BY <1>3, Induction
<1>5. Turns(n)
  BY <1>4
<1> QED
  BY <1>5 DEF Turns, IsLoop

-----------------------------------------------------------------------------
(***************************************************************************)
(* The map.                                                                *)
(***************************************************************************)
\* Whose pages a window shows.
RomParts == {"esp", "disc", "flat"}
OtherParts ==
  {"ram", "low", "nk", "system", "driver", "bank", "ramrom", "work", "globals", "cache"}
Windows == [part : RomParts \cup OtherParts, base : Nat, size : Nat, ro : BOOLEAN]

\* A table of windows none of which overlaps an older one; the one at address
\* 0 is low memory.
Sound(r) ==
  /\ r \in Seq(Windows)
  /\ \A i, j \in DOMAIN r : i < j => ~Overlaps(r[j], r[i])
  /\ \A i \in DOMAIN r : r[i].base = 0 => r[i] = LowWindow

\* The table t is r and behind it some windows of W.
Grown(r, t, W) ==
  /\ Sound(t)
  /\ DOMAIN r \subseteq DOMAIN t
  /\ \A i \in DOMAIN r : t[i] = r[i]
  /\ \A i \in DOMAIN t : i \in DOMAIN r \/ t[i] \in W

\* A window that may be asked for.
Askable(w) == w \in Windows /\ (w.base = 0 => w = LowWindow)

\* What Append does to a sequence, by its places.
LEMMA AppendPlaces ==
  ASSUME NEW S, NEW r \in Seq(S), NEW w \in S
  PROVE  /\ Append(r, w) \in Seq(S)
         /\ DOMAIN Append(r, w) = DOMAIN r \cup {Len(r) + 1}
         /\ \A i \in DOMAIN r : Append(r, w)[i] = r[i] /\ i < Len(r) + 1
         /\ Append(r, w)[Len(r) + 1] = w
         /\ Len(r) + 1 \notin DOMAIN r
<1>1. Len(r) \in Nat /\ DOMAIN r = 1 .. Len(r)
  BY LenProperties
<1>2. /\ Append(r, w) \in Seq(S)
      /\ Len(Append(r, w)) = Len(r) + 1
      /\ \A i \in 1 .. Len(r) : Append(r, w)[i] = r[i]
      /\ Append(r, w)[Len(r) + 1] = w
  BY AppendProperties
<1>3. DOMAIN Append(r, w) = 1 .. Len(r) + 1
  BY <1>2, LenProperties
<1> QED
  BY <1>1, <1>2, <1>3

\* The table after a window was put at its end (bootloader_impl.c, and
\* PpcAddGuestMemoryRegion).
LEMMA AddedIsGrown ==
  ASSUME NEW r, NEW w, Sound(r), Askable(w), AddStatus(r, w) = "success"
  PROVE  Grown(r, Append(r, w), {w})
<1>1. r \in Seq(Windows) /\ w \in Windows
  BY DEF Sound, Askable
<1>2. /\ Append(r, w) \in Seq(Windows)
      /\ DOMAIN Append(r, w) = DOMAIN r \cup {Len(r) + 1}
      /\ \A i \in DOMAIN r : Append(r, w)[i] = r[i] /\ i < Len(r) + 1
      /\ Append(r, w)[Len(r) + 1] = w
  BY <1>1, AppendPlaces
<1>3. \A i \in DOMAIN r : ~Overlaps(w, r[i])
  BY DEF AddStatus
<1>4. Len(r) + 1 \in Nat /\ \A i \in DOMAIN r : i \in Nat
  BY <1>1, LenProperties
<1>5. \A i, j \in DOMAIN Append(r, w) : i < j => ~Overlaps(Append(r, w)[j], Append(r, w)[i])
  <2> SUFFICES ASSUME NEW i \in DOMAIN Append(r, w), NEW j \in DOMAIN Append(r, w), i < j
               PROVE  ~Overlaps(Append(r, w)[j], Append(r, w)[i])
    OBVIOUS
  <2>1. i \in DOMAIN r
    BY <1>2, <1>4
  <2>2. CASE j \in DOMAIN r
    BY <1>2, <2>1, <2>2 DEF Sound
  <2>3. CASE j = Len(r) + 1
    BY <1>2, <1>3, <2>1, <2>3
  <2> QED
    BY <1>2, <2>2, <2>3
<1>6. \A i \in DOMAIN Append(r, w) : Append(r, w)[i].base = 0 => Append(r, w)[i] = LowWindow
  BY <1>2 DEF Sound, Askable
<1> QED
  BY <1>2, <1>5, <1>6 DEF Sound, Grown

LEMMA GrownTwice ==
  ASSUME NEW r, NEW s, NEW t, NEW W, Grown(r, s, W), Grown(s, t, W)
  PROVE  Grown(r, t, W)
  BY DEF Grown

\* The aliases and the companions are asked for in turn; the table that comes
\* out is the old one and behind it some of those that were to be had.
LEMMA AddAllIsGrown ==
  ASSUME NEW r, Sound(r), NEW W, NEW ws \in Seq(W), NEW none,
         \A w \in W : Askable(w)
  PROVE  Grown(r, AddAll(r, ws, none), W \ none)
<1> DEFINE Tables == {t \in Seq(Windows) : Grown(r, t, W \ none)}
           Turn(t, k) == IF ws[k] \notin none /\ AddStatus(t, ws[k]) = "success"
                         THEN Append(t, ws[k]) ELSE t
           turn == [p \in Tables \X Nat |-> IF p[2] \in 1 .. Len(ws) THEN Turn(p[1], p[2]) ELSE p[1]]
<1>1. Len(ws) \in Nat /\ \A k \in 1 .. Len(ws) : ws[k] \in W
  BY ElementOfSeq, LenProperties
<1>2. r \in Tables
  BY DEF Sound, Grown
<1>3. ASSUME NEW t \in Tables, NEW k \in 1 .. Len(ws)
      PROVE  Turn(t, k) \in Tables
  <2>1. Grown(r, t, W \ none) /\ Sound(t)
    BY DEF Grown
  <2>2. CASE ws[k] \notin none /\ AddStatus(t, ws[k]) = "success"
    <3>1. Askable(ws[k]) /\ ws[k] \in W \ none
      BY <1>1, <2>2
    <3>2. Grown(t, Append(t, ws[k]), {ws[k]})
      BY <2>1, <2>2, <3>1, AddedIsGrown
    <3>3. Grown(t, Append(t, ws[k]), W \ none)
      BY <3>1, <3>2 DEF Grown
    <3>4. Grown(r, Append(t, ws[k]), W \ none)
      BY <2>1, <3>3, GrownTwice
    <3>5. Append(t, ws[k]) \in Tables
      BY <3>4 DEF Grown, Sound
    <3> QED
      BY <2>2, <3>5
  <2>3. CASE ~(ws[k] \notin none /\ AddStatus(t, ws[k]) = "success")
    BY <2>3
  <2> QED
    BY <2>2, <2>3
<1>4. turn \in [Tables \X Nat -> Tables]
  <2> HIDE DEF Tables, Turn
  <2> QED
    BY <1>3
<1>5. PICK f \in [0 .. Len(ws) -> Tables] :
        /\ f[0] = r
        /\ \A k \in 1 .. Len(ws) : f[k] = turn[<<f[k - 1], k>>]
  <2> HIDE DEF Tables, turn
  <2>1. \E f : IsLoop(f, Tables, r, turn, Len(ws))
    BY <1>1, <1>2, <1>4, LoopExists
  <2> QED
    BY <2>1 DEF IsLoop
<1>6. ASSUME NEW k \in 1 .. Len(ws)
      PROVE  f[k] = Turn(f[k - 1], k)
  <2>1. k - 1 \in 0 .. Len(ws) /\ k \in Nat
    BY <1>1
  <2>2. f[k - 1] \in Tables
    BY <1>5, <2>1
  <2> HIDE DEF Tables, Turn
  <2> QED
    BY <1>5, <2>1, <2>2
<1> DEFINE Body(g) == [k \in 0 .. Len(ws) |-> IF k = 0 THEN r ELSE Turn(g[k - 1], k)]
<1>7. f = Body(f)
  <2>1. \A k \in 0 .. Len(ws) : k = 0 \/ k \in 1 .. Len(ws)
    BY <1>1
  <2> HIDE DEF Tables, Turn
  <2>2. \A k \in 0 .. Len(ws) : f[k] = IF k = 0 THEN r ELSE Turn(f[k - 1], k)
    BY <1>5, <1>6, <2>1
  <2> QED
    BY <1>5, <2>2
<1> DEFINE table == CHOOSE g : g = Body(g)
<1>8. table = Body(table)
  <2> HIDE DEF Body
  <2> QED
    BY <1>7
<1>9. AddAll(r, ws, none) = table[Len(ws)]
  BY DEF AddAll
<1>10. table[0] = r /\ \A k \in 1 .. Len(ws) : table[k] = Turn(table[k - 1], k)
  <2>1. 0 \in 0 .. Len(ws) /\ \A k \in 1 .. Len(ws) : k \in 0 .. Len(ws) /\ k # 0
    BY <1>1
  <2> HIDE DEF table, Turn
  <2>2. \A k \in 0 .. Len(ws) : table[k] = IF k = 0 THEN r ELSE Turn(table[k - 1], k)
    BY <1>8
  <2> QED
    BY <2>1, <2>2
<1> DEFINE T == {k \in Nat : k <= Len(ws) => table[k] \in Tables}
<1>11. 0 \in T /\ \A k \in Nat : k \in T => k + 1 \in T
  <2> HIDE DEF table, Turn, Tables
  <2>1. 0 \in T
    BY <1>2, <1>10
  <2>2. ASSUME NEW k \in Nat, k \in T, k + 1 <= Len(ws)
        PROVE  table[k + 1] \in Tables
    <3>1. k + 1 \in 1 .. Len(ws) /\ k <= Len(ws) /\ (k + 1) - 1 = k
      BY <1>1, <2>2
    <3>2. table[k] \in Tables
      BY <2>2, <3>1
    <3>3. table[k + 1] = Turn(table[k], k + 1)
      BY <1>10, <3>1
    <3> QED
      BY <1>3, <3>1, <3>2, <3>3
  <2> QED
    BY <2>1, <2>2
<1>12. Len(ws) \in T
  <2> HIDE DEF T
  <2> QED
    BY <1>1, <1>11, Induction
<1> QED
  BY <1>1, <1>9, <1>12

-----------------------------------------------------------------------------
(***************************************************************************)
(* The files of a folder.                                                  *)
(***************************************************************************)

\* The entries of some kinds are entries.
LEMMA OfKindType ==
  ASSUME NEW s \in Seq(File), NEW kinds
  PROVE  OfKind(s, kinds) \in Seq(File)
<1> DEFINE Turn(t, k) == IF s[k].kind \in kinds THEN Append(t, s[k]) ELSE t
           turn == [p \in Seq(File) \X Nat |-> IF p[2] \in 1 .. Len(s) THEN Turn(p[1], p[2]) ELSE p[1]]
           Body(g) == [k \in 0 .. Len(s) |-> IF k = 0 THEN <<>> ELSE Turn(g[k - 1], k)]
           chosen == CHOOSE g : g = Body(g)
<1>1. Len(s) \in Nat /\ \A k \in 1 .. Len(s) : s[k] \in File
  BY ElementOfSeq, LenProperties
<1>2. \A t \in Seq(File), k \in 1 .. Len(s) : Turn(t, k) \in Seq(File)
  BY <1>1, AppendProperties
<1>3. PICK f : IsLoop(f, Seq(File), <<>>, turn, Len(s))
  <2>1. turn \in [Seq(File) \X Nat -> Seq(File)]
    <3> HIDE DEF Turn
    <3> QED
      BY <1>2
  <2>2. <<>> \in Seq(File)
    OBVIOUS
  <2> HIDE DEF turn
  <2> QED
    BY <1>1, <2>1, <2>2, LoopExists
<1>4. \A k \in 0 .. Len(s) : f[k] = IF k = 0 THEN <<>> ELSE Turn(f[k - 1], k)
  <2> SUFFICES ASSUME NEW k \in 0 .. Len(s), k # 0
               PROVE  f[k] = Turn(f[k - 1], k)
    BY <1>3 DEF IsLoop
  <2>1. k \in 1 .. Len(s) /\ k - 1 \in 0 .. Len(s) /\ k \in Nat
    BY <1>1
  <2>2. f[k - 1] \in Seq(File) /\ f[k] = turn[<<f[k - 1], k>>]
    BY <1>3, <2>1 DEF IsLoop
  <2> HIDE DEF Turn
  <2> QED
    BY <2>1, <2>2
<1>5. chosen = Body(chosen)
  <2>1. f = Body(f)
    <3> HIDE DEF Turn
    <3> QED
      BY <1>3, <1>4 DEF IsLoop
  <2> HIDE DEF Body
  <2> QED
    BY <2>1
<1>6. OfKind(s, kinds) = chosen[Len(s)]
  BY DEF OfKind
<1>7. chosen[0] = <<>> /\ \A k \in 1 .. Len(s) : chosen[k] = Turn(chosen[k - 1], k)
  <2>1. 0 \in 0 .. Len(s) /\ \A k \in 1 .. Len(s) : k \in 0 .. Len(s) /\ k # 0
    BY <1>1
  <2> HIDE DEF chosen, Turn
  <2>2. \A k \in 0 .. Len(s) : chosen[k] = IF k = 0 THEN <<>> ELSE Turn(chosen[k - 1], k)
    BY <1>5
  <2> QED
    BY <2>1, <2>2
<1> DEFINE T == {k \in Nat : k <= Len(s) => chosen[k] \in Seq(File)}
<1>8. 0 \in T /\ \A k \in Nat : k \in T => k + 1 \in T
  <2> HIDE DEF chosen, Turn
  <2>1. 0 \in T
    BY <1>7, EmptySeq
  <2>2. ASSUME NEW k \in Nat, k \in T, k + 1 <= Len(s)
        PROVE  chosen[k + 1] \in Seq(File)
    <3>1. k + 1 \in 1 .. Len(s) /\ k <= Len(s) /\ (k + 1) - 1 = k
      BY <1>1, <2>2
    <3>2. chosen[k] \in Seq(File) /\ chosen[k + 1] = Turn(chosen[k], k + 1)
      BY <1>7, <2>2, <3>1
    <3> QED
      BY <1>2, <3>1, <3>2
  <2> QED
    BY <2>1, <2>2
<1>9. Len(s) \in T
  <2> HIDE DEF T
  <2> QED
    BY <1>1, <1>8, Induction
<1> QED
  BY <1>1, <1>6, <1>9

LEMMA PrefixType ==
  ASSUME NEW S, NEW s \in Seq(S), NEW n \in Nat
  PROVE  Prefix(s, n) \in Seq(S)
<1> DEFINE m == IF Len(s) < n THEN Len(s) ELSE n
<1>1. Len(s) \in Nat /\ m \in Nat /\ m <= Len(s)
  BY LenProperties
<1>2. \A i \in 1 .. m : s[i] \in S
  BY <1>1, ElementOfSeq
<1>3. SubSeq(s, 1, m) \in Seq(S)
  <2> HIDE DEF m
  <2> QED
    BY <1>1, <1>2, SubSeqProperties
<1> QED
  BY <1>3 DEF Prefix

\* What is enumerated as a driver is an entry of the folder.
LEMMA DriversType ==
  ASSUME NEW ext \in Seq(File), NEW n \in Nat
  PROVE  EspDrivers(ext, n) \in Seq(File) /\ DiscDrivers(ext) \in Seq(File)
<1>1. MaxDrivers \in Nat
  BY StagingAssumption
<1>2. EspDrivers(ext, n) \in Seq(File)
  BY <1>1, OfKindType, PrefixType DEF EspDrivers
<1>3. OfKind(ext, {"dir"}) \o OfKind(ext, {"file", "rom"}) \in Seq(File)
  <2>1. OfKind(ext, {"dir"}) \in Seq(File) /\ OfKind(ext, {"file", "rom"}) \in Seq(File)
    BY OfKindType
  <2> QED
    BY <2>1, ConcatProperties
<1>4. DiscDrivers(ext) \in Seq(File)
  BY <1>1, <1>3, OfKindType, PrefixType DEF DiscDrivers
<1> QED
  BY <1>2, <1>4

\* A size is rounded up (bootloader_impl.c, BootStageFile).
LEMMA AlignedIsUp ==
  ASSUME NEW n \in Nat
  PROVE  Aligned(n) \in Nat /\ Aligned(n) >= n
<1>1. Align \in Nat \ {0}
  BY StagingAssumption
<1>2. \A a \in Nat \ {0} : ((n + a - 1) \div a) * a >= n /\ ((n + a - 1) \div a) * a \in Int
  BY SMT
<1> QED
  BY <1>1, <1>2 DEF Aligned

-----------------------------------------------------------------------------
(***************************************************************************)
(* The records of the ROM and the pages.                                   *)
(***************************************************************************)
Buffering == {"identify", "decode", "map"}
RomSteps == {"low", "load"} \cup Buffering

RomRecord == [loaded : BOOLEAN, type : {"unknown", "new_world", "old_world"}, decoded : BOOLEAN,
              base : Nat, size : Nat, part : RomParts \cup {None}, from : {"esp", "disc", None}]
Buffer == [part : RomParts, size : Nat, image : Images, from : {"esp", "disc"}]

\* The buffer that is being worked on holds the file, or what it expands to.
BufferInv ==
  /\ buf \in Buffer
  /\ buf.size # 0
  /\ buf.part = "flat" <=> rom.decoded
  /\ buf.part # "flat" => buf.part = buf.from

RomIsShown ==
  \E i \in DOMAIN region : /\ region[i].base = rom.base
                           /\ region[i].size = rom.size
                           /\ region[i].part = rom.part
                           /\ region[i].ro <=> rom.type # "new_world"

RomInv ==
  /\ Sound(region)
  /\ media \in Media
  /\ rom \in RomRecord
  /\ pc \in RomSteps => ~rom.loaded
  /\ pc \in RomSteps \ {"map"} => ~rom.decoded
  /\ pc \in Buffering => BufferInv
  /\ pc = "alias" => rom.loaded
  /\ rom.loaded => rom.size # 0 /\ RomIsShown

MapTestIsRight ==
  pc = "prepare" =>
    LET sound == OnMap(LowWindow) /\ rom.loaded /\ Recognised /\ (mounted => media.disc.served)
    IN /\ mapTest = "pass" => sound
       /\ sound /\ mapTest # "pass" => mounted /\ faults > 0

CoreInv == RomInv /\ RecordsMatchMap /\ BuffersAreAccountedFor

\* N are the parts of the windows that a step puts on the map.
NewParts(N) ==
  /\ MappedParts' = MappedParts \cup N
  /\ held' = held \cup N

\* The windows of the boot may be asked for, and none of them shows a ROM.
LEMMA OrdinaryWindows ==
  /\ \A w \in {LowWindow, NkWindow, SystemWindow, DriverWindow} :
       Askable(w) /\ w.part \notin RomParts
  /\ \A w \in ToSet(Companions) : Askable(w) /\ w.part \notin RomParts
  /\ Companions \in Seq(ToSet(Companions))
<1>1. \A w \in {LowWindow, NkWindow, SystemWindow, DriverWindow} :
        Askable(w) /\ w.part \notin RomParts
  <2>1. Askable(LowWindow) /\ LowWindow.part \notin RomParts
    BY DEF LowWindow, Region, Askable, Windows, RomParts, OtherParts
  <2>2. Askable(NkWindow) /\ NkWindow.part \notin RomParts
    BY DEF NkWindow, LowWindow, Region, Askable, Windows, RomParts, OtherParts
  <2>3. Askable(SystemWindow) /\ SystemWindow.part \notin RomParts
    BY DEF SystemWindow, Region, Askable, Windows, RomParts, OtherParts
  <2>4. Askable(DriverWindow) /\ DriverWindow.part \notin RomParts
    BY DEF DriverWindow, Region, Askable, Windows, RomParts, OtherParts
  <2> QED
    BY <2>1, <2>2, <2>3, <2>4
<1> DEFINE c1 == Region("bank", 1036, 1, FALSE)
           c2 == Region("ramrom", 2064, 16, FALSE)
           c3 == Region("work", 1312, 16, FALSE)
           c4 == Region("globals", 2048, 16, FALSE)
           c5 == Region("cache", 16, 48, FALSE)
           C == {c1, c2, c3, c4, c5}
<1>2. \A w \in C : Askable(w) /\ w.part \notin RomParts
  <2>1. Askable(c1) /\ c1.part \notin RomParts
    BY DEF Region, Askable, Windows, RomParts, OtherParts
  <2>2. Askable(c2) /\ c2.part \notin RomParts
    BY DEF Region, Askable, Windows, RomParts, OtherParts
  <2>3. Askable(c3) /\ c3.part \notin RomParts
    BY DEF Region, Askable, Windows, RomParts, OtherParts
  <2>4. Askable(c4) /\ c4.part \notin RomParts
    BY DEF Region, Askable, Windows, RomParts, OtherParts
  <2>5. Askable(c5) /\ c5.part \notin RomParts
    BY DEF Region, Askable, Windows, RomParts, OtherParts
  <2> HIDE DEF c1, c2, c3, c4, c5
  <2> QED
    BY <2>1, <2>2, <2>3, <2>4, <2>5
<1>3. Companions = <<c1, c2, c3, c4, c5>>
  BY DEF Companions
<1> HIDE DEF c1, c2, c3, c4, c5
<1>4. /\ Companions \in Seq(C)
      /\ DOMAIN Companions = 1 .. 5
      /\ Len(Companions) = 5
  BY <1>3
<1>5. /\ Companions[1] = c1 /\ Companions[2] = c2 /\ Companions[3] = c3
      /\ Companions[4] = c4 /\ Companions[5] = c5
  BY <1>3
<1>6. ToSet(Companions) = C
  BY <1>4, <1>5 DEF ToSet
<1> QED
  BY <1>1, <1>2, <1>4, <1>6

LEMMA PagesStep ==
  ASSUME NEW w, Sound(region), Askable(w), InstallPages(w)
  PROVE  Grown(region, region', {w}) /\ \E N : NewParts(N)
<1>1. CASE UNCHANGED <<region, held>>
  <2>1. Grown(region, region', {w})
    BY <1>1 DEF Grown
  <2>2. NewParts({})
    BY <1>1 DEF NewParts, MappedParts
  <2> QED
    BY <2>1, <2>2
<1>2. CASE AddStatus(region, w) = "success" /\ region' = Append(region, w) /\ held' = held \cup {w.part}
  <2>1. Grown(region, region', {w})
    BY <1>2, AddedIsGrown
  <2>2. region \in Seq(Windows) /\ w \in Windows
    BY DEF Sound, Askable
  <2>3. /\ DOMAIN region' = DOMAIN region \cup {Len(region) + 1}
        /\ \A i \in DOMAIN region : region'[i] = region[i]
        /\ region'[Len(region) + 1] = w
    BY <1>2, <2>2, AppendPlaces
  <2>4. MappedParts' = MappedParts \cup {w.part}
    BY <2>3 DEF MappedParts
  <2> QED
    BY <1>2, <2>1, <2>4 DEF NewParts
<1> QED
  BY <1>1, <1>2 DEF InstallPages

\* A step that puts windows on the map which show no ROM, or none, before a
\* file is read or after it was dealt with.
LEMMA OrdinaryStep ==
  ASSUME CoreInv, NEW W, Grown(region, region', W), \A w \in W : w.part \notin RomParts,
         \E N : NewParts(N), UNCHANGED <<media, rom>>,
         pc \notin Buffering, pc' \notin Buffering, pc' # "alias",
         pc' \in RomSteps => pc \in RomSteps
  PROVE  CoreInv'
<1>1. /\ Sound(region') /\ DOMAIN region \subseteq DOMAIN region'
      /\ \A i \in DOMAIN region : region'[i] = region[i]
      /\ \A i \in DOMAIN region' : i \in DOMAIN region \/ region'[i].part \notin RomParts
  BY DEF Grown
<1>2. rom.loaded => RomIsShown'
  BY <1>1 DEF CoreInv, RomInv, RomIsShown
<1>3. RomInv'
  BY <1>1, <1>2 DEF CoreInv, RomInv, Buffering, RomSteps
<1>4. {i \in DOMAIN region' : region'[i].part \in RomParts}
        = {i \in DOMAIN region : region[i].part \in RomParts}
  BY <1>1
<1>5. RecordsMatchMap'
  BY <1>1, <1>4 DEF CoreInv, RecordsMatchMap, RomParts
<1>6. BuffersAreAccountedFor'
  BY DEF CoreInv, BuffersAreAccountedFor, NewParts, Buffering
<1> QED
  BY <1>3, <1>5, <1>6 DEF CoreInv

\* A step that leaves the map and the pages alone.
LEMMA QuietStep ==
  ASSUME CoreInv, UNCHANGED <<region, held, media, rom>>,
         pc \notin Buffering, pc' \notin Buffering, pc' # "alias",
         pc' \in RomSteps => pc \in RomSteps
  PROVE  CoreInv'
<1>1. Grown(region, region', {})
  BY DEF CoreInv, RomInv, Grown
<1>2. NewParts({})
  BY DEF NewParts, MappedParts
<1> QED
  BY <1>1, <1>2, OrdinaryStep

\* While the file is worked on no window shows it.
LEMMA NothingShown ==
  ASSUME CoreInv, pc \in RomSteps
  PROVE  \A i \in DOMAIN region : region[i].part \notin RomParts
  BY DEF CoreInv, RomInv, RecordsMatchMap, RomParts

\* main goes back to the first step of loading, or on to the self-test.
LEMMA ReturnGoes ==
  ASSUME NEW status, Return(status)
  PROVE  pc' \in {"load", "maptest"} /\ (status # "not_found" => pc' = "maptest")
  BY DEF Return

\* A file that was read is one of the media's, and has bytes.
LEMMA ReadIsRom ==
  ASSUME media \in Media
  PROVE  /\ \A o \in EspOutcomes : o.status = "success" =>
              \A f \in EspRead(o.faults) : f \in Rom /\ f.size # 0
         /\ \A d \in DiscOutcomes : d.status = "success" => DiscRom \in Rom /\ DiscRom.size # 0
<1>1. /\ {media.esp.rom, media.esp.macOsRom} \subseteq Rom \cup {None}
      /\ media.disc # None => media.disc.roms \subseteq Rom
  BY BootAssumption
<1>2. ASSUME NEW o \in EspOutcomes, o.status = "success", NEW f \in EspRead(o.faults)
      PROVE  f \in Rom /\ f.size # 0
  <2>1. EspRom # None /\ EspRom.size \in 1 .. RomMax
    BY <1>2 DEF EspOutcomes, Outcome
  <2>2. EspRom \in Rom /\ EspRom.size # 0
    BY <1>1, <2>1 DEF EspRom, RomMax
  <2> QED
    BY <1>2, <2>2 DEF EspRead, Rom
<1>3. ASSUME NEW d \in DiscOutcomes, d.status = "success"
      PROVE  DiscRom \in Rom /\ DiscRom.size # 0
  <2> DEFINE roms == IF media.disc = None THEN {} ELSE {f \in media.disc.roms : f.size # 0}
             largest == {f \in roms : \A g \in roms : g.size <= f.size}
  <2>1. DiscRom # None
    BY <1>3 DEF DiscOutcomes, Outcome
  <2>2. DiscRom = IF largest = {} THEN None ELSE CHOOSE f \in largest : TRUE
    BY DEF DiscRom
  <2>3. largest \subseteq roms
    OBVIOUS
  <2>4. roms \subseteq {f \in Rom : f.size # 0}
    BY <1>1
  <2> HIDE DEF largest, roms
  <2>5. DiscRom \in largest
    BY <2>1, <2>2
  <2> QED
    BY <2>3, <2>4, <2>5
<1> QED
  BY <1>2, <1>3

-----------------------------------------------------------------------------
(***************************************************************************)
(* One lemma for each step that works on the ROM.                          *)
(***************************************************************************)
LEMMA CoreLowMemory ==
  ASSUME CoreInv, InstallLowMemory
  PROVE  CoreInv'
<1>1. Grown(region, region', {LowWindow}) /\ \E N : NewParts(N)
  BY OrdinaryWindows, PagesStep DEF CoreInv, RomInv, InstallLowMemory
<1> QED
  BY <1>1, OrdinaryWindows, OrdinaryStep
     DEF InstallLowMemory, loadVars, romVars, Buffering, RomSteps

LEMMA CoreLoad ==
  ASSUME CoreInv, LoadRom
  PROVE  CoreInv'
<1>1. pc = "load" /\ UNCHANGED <<region, media, rom>>
  BY DEF LoadRom
<1>2. ASSUME NEW f, NEW from \in {"esp", "disc"}, f \in Rom, f.size # 0, Loaded(f, from)
      PROVE  CoreInv'
  <2>1. buf' = [part |-> from, size |-> f.size, image |-> f.image, from |-> from]
    BY <1>2 DEF Loaded
  <2>2. pc' = "identify" /\ held' = held \cup {from}
    BY <1>2 DEF Loaded
  <2>3. ~rom.loaded /\ ~rom.decoded
    BY <1>1 DEF CoreInv, RomInv, RomSteps
  <2>4. BufferInv'
    BY <1>1, <1>2, <2>1, <2>3 DEF BufferInv, Buffer, Rom, RomParts
  <2>5. RomInv'
    BY <1>1, <2>2, <2>3, <2>4 DEF CoreInv, RomInv, Buffering, RomSteps
  <2>6. RecordsMatchMap'
    BY <1>1 DEF CoreInv, RecordsMatchMap
  <2>7. BuffersAreAccountedFor'
    BY <1>1, <2>1, <2>2, <2>3 DEF CoreInv, BuffersAreAccountedFor, MappedParts
  <2> QED
    BY <2>5, <2>6, <2>7 DEF CoreInv
<1>3. ASSUME NEW status, NotLoaded(status)
      PROVE  CoreInv'
  <2>1. pc' \in {"load", "maptest"} /\ UNCHANGED held
    BY <1>3, ReturnGoes DEF NotLoaded
  <2> QED
    BY <1>1, <2>1, QuietStep DEF Buffering, RomSteps
<1>4. PICK o \in EspOutcomes :
        \/ IF o.status = "success" THEN \E f \in EspRead(o.faults) : Loaded(f, "esp")
                                   ELSE NotLoaded(o.status)
        \/ \E d \in DiscOutcomes :
             IF d.status = "success" THEN Loaded(DiscRom, "disc") ELSE NotLoaded(d.status)
  BY DEF LoadRom
<1>5. media \in Media
  BY DEF CoreInv, RomInv
<1> QED
  BY <1>2, <1>3, <1>4, <1>5, ReadIsRom

LEMMA CoreIdentify ==
  ASSUME CoreInv, IdentifyRom
  PROVE  CoreInv'
<1>1. /\ pc = "identify" /\ pc' = "decode"
      /\ UNCHANGED <<region, held, media, buf>>
  BY DEF IdentifyRom, mapVars
<1>2. rom \in RomRecord /\ ~rom.loaded /\ ~rom.decoded /\ BufferInv
  BY <1>1 DEF CoreInv, RomInv, RomSteps, Buffering
<1>3. /\ rom' \in RomRecord
      /\ ~rom'.loaded /\ ~rom'.decoded
  BY <1>2 DEF IdentifyRom, RomRecord
<1>4. BufferInv'
  BY <1>1, <1>2, <1>3 DEF BufferInv
<1>5. RomInv'
  BY <1>1, <1>3, <1>4 DEF CoreInv, RomInv, RomSteps, Buffering
<1>6. RecordsMatchMap'
  BY <1>1, <1>2, <1>3 DEF CoreInv, RecordsMatchMap
<1>7. BuffersAreAccountedFor'
  BY <1>1, <1>2, <1>3 DEF CoreInv, BuffersAreAccountedFor, MappedParts
<1> QED
  BY <1>5, <1>6, <1>7 DEF CoreInv

LEMMA CoreExpand ==
  ASSUME CoreInv, UNCHANGED <<pc, region, held, media, buf, rom>>
  PROVE  CoreInv'
<1>1. RomInv'
  BY DEF CoreInv, RomInv, BufferInv, RomIsShown
<1>2. RecordsMatchMap' /\ BuffersAreAccountedFor'
  BY DEF CoreInv, RecordsMatchMap, BuffersAreAccountedFor, MappedParts
<1> QED
  BY <1>1, <1>2 DEF CoreInv

\* The file's pages are given back, and are not those of any window.
LEMMA CoreDecode ==
  ASSUME CoreInv, DecodeRom
  PROVE  CoreInv'
<1>1. /\ pc = "decode" /\ pc' = "map"
      /\ UNCHANGED <<region, media>>
      /\ rom' = [rom EXCEPT !.decoded = step = "decoded"]
  BY DEF DecodeRom
<1>2. rom \in RomRecord /\ ~rom.loaded /\ ~rom.decoded /\ BufferInv
  BY <1>1 DEF CoreInv, RomInv, RomSteps, Buffering
<1>3. /\ rom' \in RomRecord
      /\ ~rom'.loaded
      /\ rom'.decoded <=> step = "decoded"
  BY <1>1, <1>2 DEF RomRecord
<1>4. buf.part \notin MappedParts
  BY <1>1, <1>2, NothingShown DEF RomSteps, Buffering, BufferInv, Buffer, MappedParts
<1>5. held = MappedParts \cup {buf.part} /\ MappedParts' = MappedParts
  BY <1>1, <1>2 DEF CoreInv, BuffersAreAccountedFor, MappedParts
<1>6. RecordsMatchMap'
  BY <1>1, <1>2, <1>3 DEF CoreInv, RecordsMatchMap
<1>7. BufferInv' /\ BuffersAreAccountedFor'
  <2>1. CASE step = "decoded"
    <3>1. /\ held' = (held \ {buf.part}) \cup {"flat", "slack"}
          /\ buf' = [buf EXCEPT !.part = "flat", !.size = RomMax]
      BY <2>1 DEF DecodeRom
    <3>2. buf' \in Buffer /\ buf'.size = 4 /\ buf'.part = "flat"
      BY <1>2, <3>1 DEF BufferInv, Buffer, RomMax, RomParts
    <3>3. BufferInv'
      BY <1>3, <2>1, <3>2 DEF BufferInv, RomParts
    <3>4. BuffersAreAccountedFor'
      BY <1>1, <1>3, <1>4, <1>5, <2>1, <3>1, <3>2 DEF BuffersAreAccountedFor
    <3> QED
      BY <3>3, <3>4
  <2>2. CASE step # "decoded"
    <3>1. UNCHANGED <<held, buf>>
      BY <2>2 DEF DecodeRom
    <3>2. BufferInv'
      BY <1>2, <1>3, <2>2, <3>1 DEF BufferInv
    <3>3. BuffersAreAccountedFor'
      BY <1>1, <1>3, <1>5, <2>2, <3>1 DEF BuffersAreAccountedFor
    <3> QED
      BY <3>2, <3>3
  <2> QED
    BY <2>1, <2>2
<1>8. RomInv'
  BY <1>1, <1>3, <1>7 DEF CoreInv, RomInv, RomSteps, Buffering
<1> QED
  BY <1>6, <1>7, <1>8 DEF CoreInv

\* The image goes on the map and on record, or its pages are given back.
LEMMA CoreMap ==
  ASSUME CoreInv, MapRom
  PROVE  CoreInv'
<1>1. pc = "map" /\ UNCHANGED <<media, buf>>
  BY DEF MapRom
<1>2. rom \in RomRecord /\ ~rom.loaded /\ BufferInv /\ Sound(region)
  BY <1>1 DEF CoreInv, RomInv, RomSteps, Buffering
<1>3. /\ \A i \in DOMAIN region : region[i].part \notin RomParts
      /\ buf.part \notin MappedParts
  BY <1>1, <1>2, NothingShown DEF RomSteps, Buffering, BufferInv, Buffer, MappedParts
<1>4. held = MappedParts \cup {buf.part} \cup (IF rom.decoded THEN {"slack"} ELSE {})
  BY <1>1 DEF CoreInv, BuffersAreAccountedFor
<1> DEFINE w == RomWindow
<1>5. /\ Askable(w)
      /\ w.part = buf.part /\ w.size = buf.size /\ w.base \in Nat
      /\ w.ro <=> rom.type # "new_world"
  BY <1>2 DEF RomWindow, Region, Askable, Windows, BufferInv, Buffer
<1> HIDE DEF w
<1>6. CASE AddStatus(region, w) = "success"
  <2>1. /\ region' = Append(region, w)
        /\ rom' = Recorded(w)
        /\ pc' = "alias"
        /\ UNCHANGED held
    BY <1>6 DEF MapRom, w
  <2>2. Grown(region, region', {w})
    BY <1>2, <1>5, <1>6, <2>1, AddedIsGrown
  <2>3. region \in Seq(Windows) /\ w \in Windows
    BY <1>2, <1>5 DEF Sound, Askable
  <2>4. /\ DOMAIN region' = DOMAIN region \cup {Len(region) + 1}
        /\ \A i \in DOMAIN region : region'[i] = region[i]
        /\ region'[Len(region) + 1] = w
    BY <2>1, <2>3, AppendPlaces
  <2>5. /\ rom' \in RomRecord
        /\ rom'.loaded
        /\ rom'.base = w.base /\ rom'.size = w.size /\ rom'.part = w.part
        /\ rom'.from = buf.from /\ rom'.type = rom.type /\ rom'.decoded = rom.decoded
    BY <1>2, <1>5, <2>1 DEF Recorded, RomRecord, BufferInv, Buffer
  <2>6. RomIsShown'
    BY <1>5, <2>4, <2>5 DEF RomIsShown
  <2>7. RomInv'
    BY <1>1, <1>2, <1>5, <2>1, <2>2, <2>5, <2>6
       DEF CoreInv, RomInv, RomSteps, Buffering, Grown, BufferInv
  <2>8. RecordsMatchMap'
    <3>1. {i \in DOMAIN region' : region'[i].part \in {"esp", "disc", "flat"}} = {Len(region) + 1}
      BY <1>2, <1>3, <1>5, <2>4 DEF BufferInv, Buffer, RomParts
    <3>2. rom'.part = "flat" <=> rom'.decoded
      BY <1>2, <1>5, <2>5 DEF BufferInv
    <3>3. rom'.part # "flat" => rom'.part = rom'.from
      BY <1>2, <1>5, <2>5 DEF BufferInv
    <3> QED
      BY <2>4, <2>5, <3>1, <3>2, <3>3 DEF RecordsMatchMap
  <2>9. MappedParts' = MappedParts \cup {buf.part}
    BY <1>5, <2>4 DEF MappedParts
  <2>10. BuffersAreAccountedFor'
    BY <1>4, <2>1, <2>5, <2>9 DEF BuffersAreAccountedFor
  <2> QED
    BY <2>7, <2>8, <2>10 DEF CoreInv
<1>7. CASE AddStatus(region, w) # "success"
  <2>1. /\ held' = held \ {buf.part}
        /\ Return(AddStatus(region, w))
        /\ UNCHANGED <<region, rom>>
    BY <1>7 DEF MapRom, w
  <2>2. pc' = "maptest"
    <3>1. AddStatus(region, w) # "not_found"
      BY DEF AddStatus
    <3> QED
      BY <2>1, <3>1, ReturnGoes
  <2>3. RomInv'
    BY <1>1, <1>2, <2>1, <2>2 DEF CoreInv, RomInv, RomSteps, Buffering, RomIsShown
  <2>4. RecordsMatchMap'
    BY <2>1 DEF CoreInv, RecordsMatchMap
  <2>5. BuffersAreAccountedFor'
    <3>1. MappedParts' = MappedParts /\ buf.part # "slack"
      BY <1>2, <2>1 DEF MappedParts, BufferInv, Buffer, RomParts
    <3> QED
      BY <1>3, <1>4, <2>1, <2>2, <3>1 DEF BuffersAreAccountedFor
  <2> QED
    BY <2>3, <2>4, <2>5 DEF CoreInv
<1> QED
  BY <1>6, <1>7

\* Every alias shows the ROM's pages in full; the companions have pages of
\* their own.
LEMMA CoreAliases ==
  ASSUME CoreInv, InstallAliases
  PROVE  CoreInv'
<1>1. pc = "alias" /\ UNCHANGED <<media, buf, rom>>
  BY DEF InstallAliases
<1>2. pc' \in {"load", "maptest"} /\ pc' = "maptest"
  BY ReturnGoes DEF InstallAliases
<1>3. rom \in RomRecord /\ rom.loaded /\ rom.size # 0 /\ RomIsShown /\ Sound(region)
  BY <1>1 DEF CoreInv, RomInv
<1>4. CASE UNCHANGED <<region, held>>
  <2>1. RomInv'
    BY <1>1, <1>2, <1>4 DEF CoreInv, RomInv, RomSteps, Buffering, RomIsShown
  <2>2. RecordsMatchMap' /\ BuffersAreAccountedFor'
    BY <1>1, <1>2, <1>4 DEF CoreInv, RecordsMatchMap, BuffersAreAccountedFor, MappedParts
  <2> QED
    BY <2>1, <2>2 DEF CoreInv
<1>5. CASE rom.type = "new_world" /\ rom.size = RomMax
  <2> DEFINE C == ToSet(Companions)
             a1 == Region(rom.part, 4092, rom.size, FALSE)
             a2 == Region(rom.part, 4080, rom.size, TRUE)
             a3 == Region(rom.part, 4084, rom.size, TRUE)
             a4 == Region(rom.part, 4088, rom.size, TRUE)
             A == {a1, a2, a3, a4}
  <2>1. PICK none \in SUBSET C :
          /\ region' = AddAll(region, Aliases \o Companions, none)
          /\ held' = held \cup {w.part : w \in (C \ none) \cap ToSet(region')}
    BY <1>5 DEF InstallAliases
  <2>2. rom.part \in RomParts
    BY <1>3 DEF CoreInv, RecordsMatchMap, RomParts
  <2>3. \A w \in A : w.part = rom.part /\ w.size = rom.size /\ Askable(w)
    <3> DEFINE Alias(w) == w.part = rom.part /\ w.size = rom.size /\ Askable(w)
    <3>1. rom.size \in Nat
      BY <1>3 DEF RomRecord
    <3>2. Alias(a1)
      BY <2>2, <3>1 DEF Region, Askable, Windows, RomParts
    <3>3. Alias(a2)
      BY <2>2, <3>1 DEF Region, Askable, Windows, RomParts
    <3>4. Alias(a3)
      BY <2>2, <3>1 DEF Region, Askable, Windows, RomParts
    <3>5. Alias(a4)
      BY <2>2, <3>1 DEF Region, Askable, Windows, RomParts
    <3> HIDE DEF a1, a2, a3, a4, Alias
    <3>6. \A w \in A : Alias(w)
      BY <3>2, <3>3, <3>4, <3>5
    <3> QED
      BY <3>6 DEF Alias
  <2>4. \A w \in C : Askable(w) /\ w.part \notin RomParts
    BY OrdinaryWindows
  <2>5. Aliases \o Companions \in Seq(A \cup C)
    <3>1. Aliases \in Seq(A)
      BY DEF Aliases
    <3> HIDE DEF A, C
    <3>2. Companions \in Seq(C)
      BY OrdinaryWindows DEF C
    <3>3. Aliases \in Seq(A \cup C) /\ Companions \in Seq(A \cup C)
      BY <3>1, <3>2, SeqDef
    <3> QED
      BY <3>3, ConcatProperties
  <2> HIDE DEF A, C
  <2>6. Grown(region, region', (A \cup C) \ none)
    BY <1>3, <2>1, <2>3, <2>4, <2>5, AddAllIsGrown
  <2>7. /\ Sound(region') /\ DOMAIN region \subseteq DOMAIN region'
        /\ \A i \in DOMAIN region : region'[i] = region[i]
        /\ \A i \in DOMAIN region' : \/ i \in DOMAIN region
                                     \/ region'[i] \in A
                                     \/ region'[i] \in C \ none
    BY <2>6 DEF Grown
  <2>8. RomInv'
    <3>1. RomIsShown'
      BY <1>1, <1>3, <2>7 DEF RomIsShown
    <3> QED
      BY <1>1, <1>2, <1>3, <2>7, <3>1 DEF CoreInv, RomInv, RomSteps, Buffering
  <2>9. RecordsMatchMap'
    <3>1. \A i \in DOMAIN region : region[i].part \in RomParts =>
            region[i].part = rom.part /\ region[i].size = rom.size
      BY DEF CoreInv, RecordsMatchMap, RomParts
    <3>2. \A i \in DOMAIN region' : region'[i].part \in RomParts =>
            region'[i].part = rom.part /\ region'[i].size = rom.size
      BY <2>3, <2>4, <2>7, <3>1
    <3>3. /\ \E i \in DOMAIN region : region[i].part \in RomParts /\ region[i].base = rom.base
          /\ rom.part = "flat" <=> rom.decoded
          /\ rom.part # "flat" => rom.part = rom.from
      BY <1>3 DEF CoreInv, RecordsMatchMap, RomParts
    <3>4. \E i \in DOMAIN region' : region'[i].part \in RomParts /\ region'[i].base = rom.base
      BY <2>7, <3>3
    <3> QED
      BY <1>1, <1>3, <3>2, <3>3, <3>4 DEF RecordsMatchMap, RomParts
  <2>10. MappedParts' = MappedParts \cup {w.part : w \in (C \ none) \cap ToSet(region')}
    <3>1. rom.part \in MappedParts
      BY <1>3 DEF RomIsShown, MappedParts
    <3>2. ToSet(region') = {region'[i] : i \in DOMAIN region'}
      BY DEF ToSet
    <3>3. MappedParts' \subseteq MappedParts \cup {w.part : w \in (C \ none) \cap ToSet(region')}
      BY <2>3, <2>7, <3>1, <3>2 DEF MappedParts
    <3>4. MappedParts \subseteq MappedParts'
      BY <2>7 DEF MappedParts
    <3>5. {w.part : w \in (C \ none) \cap ToSet(region')} \subseteq MappedParts'
      BY <3>2 DEF MappedParts
    <3> QED
      BY <3>3, <3>4, <3>5
  <2>11. BuffersAreAccountedFor'
    BY <1>1, <1>2, <2>1, <2>10 DEF CoreInv, BuffersAreAccountedFor
  <2> QED
    BY <2>8, <2>9, <2>11 DEF CoreInv
<1> QED
  BY <1>4, <1>5 DEF InstallAliases

\* The steps after the ROM was dealt with ask for windows of their own, if for
\* any.
LaterSteps ==
  {"maptest", "prepare", "kernel", "runtime", "guest", "locate", "files", "stage system",
   "scan", "drivers", "stage driver", "selftest", "done"}

LEMMA LaterPages ==
  ASSUME CoreInv, pc \in LaterSteps, pc' \in LaterSteps, UNCHANGED <<media, rom>>,
         \/ UNCHANGED <<region, held>>
         \/ \E w \in {LowWindow, NkWindow, SystemWindow, DriverWindow} : InstallPages(w)
  PROVE  CoreInv'
<1>1. \A p \in LaterSteps : p \notin Buffering /\ p \notin RomSteps /\ p # "alias"
  BY DEF LaterSteps, Buffering, RomSteps
<1>2. CASE UNCHANGED <<region, held>>
  BY <1>1, <1>2, QuietStep
<1>3. ASSUME NEW w \in {LowWindow, NkWindow, SystemWindow, DriverWindow}, InstallPages(w)
      PROVE  CoreInv'
  <2>1. Askable(w) /\ w.part \notin RomParts
    BY OrdinaryWindows
  <2>2. Grown(region, region', {w}) /\ \E N : NewParts(N)
    BY <1>3, <2>1, PagesStep DEF CoreInv, RomInv
  <2> QED
    BY <1>1, <2>1, <2>2, OrdinaryStep
<1> QED
  BY <1>2, <1>3

\* The nanokernel's area is asked for once more, if it must be.
LEMMA CoreRuntime ==
  ASSUME CoreInv, StageOsRuntime
  PROVE  CoreInv'
<1>1. pc \in LaterSteps /\ pc' \in LaterSteps /\ UNCHANGED <<media, rom>>
  BY DEF StageOsRuntime, LaterSteps, romVars
<1>2. CASE UNCHANGED <<region, held>>
  BY <1>1, <1>2, LaterPages
<1>3. CASE /\ AddStatus(region, NkWindow) = "success"
           /\ region' = Append(region, NkWindow) /\ held' = held \cup {NkWindow.part}
  <2>1. Sound(region) /\ Askable(NkWindow) /\ NkWindow.part \notin RomParts
    BY OrdinaryWindows DEF CoreInv, RomInv
  <2>2. Grown(region, region', {NkWindow})
    BY <1>3, <2>1, AddedIsGrown
  <2>3. /\ DOMAIN region' = DOMAIN region \cup {Len(region) + 1}
        /\ \A i \in DOMAIN region : region'[i] = region[i]
        /\ region'[Len(region) + 1] = NkWindow
    BY <1>3, <2>1, AppendPlaces DEF Sound, Askable
  <2>4. NewParts({NkWindow.part})
    BY <1>3, <2>3 DEF NewParts, MappedParts
  <2>5. \A p \in LaterSteps : p \notin Buffering /\ p \notin RomSteps /\ p # "alias"
    BY DEF LaterSteps, Buffering, RomSteps
  <2> QED
    BY <1>1, <2>1, <2>2, <2>4, <2>5, OrdinaryStep
<1> QED
  BY <1>2, <1>3 DEF StageOsRuntime

LEMMA OpenPages ==
  ASSUME NEW a \in Area, NEW files, NEW after \in LaterSteps, OpenArea(a, files, after)
  PROVE  /\ pc' \in LaterSteps
         /\ \/ UNCHANGED <<region, held>>
            \/ \E w \in {LowWindow, NkWindow, SystemWindow, DriverWindow} : InstallPages(w)
<1>1. AreaWindow[a] \in {SystemWindow, DriverWindow}
  BY DEF Area, AreaWindow
<1>2. pc' \in LaterSteps
  BY DEF OpenArea, LaterSteps
<1>3. UNCHANGED mapVars \/ InstallPages(AreaWindow[a])
  BY DEF OpenArea, Ensured
<1> QED
  BY <1>1, <1>2, <1>3 DEF mapVars

LEMMA CoreInit ==
  ASSUME Init
  PROVE  CoreInv
<1>1. PICK mb \in RamSizes : region = <<RamWindow(mb)>>
  BY DEF Init, MapInit
<1>2. mb \in Nat
  BY BootAssumption
<1>3. RamWindow(mb) \in Windows /\ RamWindow(mb).base = 256 /\ RamWindow(mb).part = "ram"
  BY <1>2 DEF RamWindow, Region, Windows, OtherParts
<1>4. /\ region \in Seq(Windows)
      /\ DOMAIN region = {1}
      /\ region[1] = RamWindow(mb)
  BY <1>1, <1>3
<1>5. Sound(region)
  BY <1>3, <1>4 DEF Sound
<1>6. /\ pc = "low" /\ media \in Media /\ rom = NoRom /\ held = {"ram"}
  BY DEF Init, MapInit, RomInit
<1>7. rom \in RomRecord /\ ~rom.loaded /\ ~rom.decoded
  BY <1>6 DEF NoRom, RomRecord
<1>8. RomInv
  BY <1>5, <1>6, <1>7 DEF RomInv, RomSteps, Buffering
<1>9. \A i \in DOMAIN region : region[i].part \notin {"esp", "disc", "flat"}
  BY <1>3, <1>4
<1>10. RecordsMatchMap
  BY <1>7, <1>9 DEF RecordsMatchMap
<1>11. MappedParts = {"ram"}
  BY <1>3, <1>4 DEF MappedParts
<1>12. BuffersAreAccountedFor
  BY <1>6, <1>7, <1>11 DEF BuffersAreAccountedFor
<1> QED
  BY <1>8, <1>10, <1>12 DEF CoreInv

LEMMA CoreNext ==
  ASSUME CoreInv, [Next]_vars
  PROVE  CoreInv'
<1> USE DEF LaterSteps, loadVars, romVars
<1>1. CASE InstallLowMemory
  BY <1>1, CoreLowMemory
<1>2. CASE LoadRom
  BY <1>2, CoreLoad
<1>3. CASE MapRom
  BY <1>3, CoreMap
<1>4. CASE InstallAliases
  BY <1>4, CoreAliases
<1>5. CASE RunBootSelfTest
  BY <1>5, LaterPages DEF RunBootSelfTest, mapVars
<1>6. CASE PrepareLowMemory
  BY <1>6, LaterPages DEF PrepareLowMemory, mapVars
<1>7. CASE PrepareKernelArea
  BY <1>7, LaterPages DEF PrepareKernelArea
<1>8. CASE StageOsRuntime
  BY <1>8, CoreRuntime
<1>9. CASE IdentifyRom
  BY <1>9, CoreIdentify
<1>10. CASE ExpandRom
  BY <1>10, CoreExpand DEF ExpandRom
<1>11. CASE DecodeRom
  BY <1>11, CoreDecode
<1>12. CASE GuestRuns
  BY <1>12, LaterPages DEF GuestRuns, mapVars
<1>13. CASE LocateSystemFolder
  <2>1. pc \in LaterSteps /\ pc' \in LaterSteps
    BY <1>13 DEF LocateSystemFolder
  <2>2. UNCHANGED <<region, held, media, rom>>
    BY <1>13 DEF LocateSystemFolder
  <2> QED
    BY <2>1, <2>2, LaterPages
<1>14. CASE LoadSystemFiles
  <2>1. pc \in LaterSteps /\ UNCHANGED <<media, rom>> /\ OpenArea("system", SystemFiles, "scan")
    BY <1>14 DEF LoadSystemFiles
  <2> QED
    BY <2>1, OpenPages, LaterPages DEF Area
<1>15. CASE StageSystemFile
  <2>1. pc = "stage system" /\ UNCHANGED <<region, held, media, rom>>
    BY <1>15 DEF StageSystemFile
  <2>2. pc' \in {pc, "scan"}
    BY <1>15 DEF StageSystemFile, StageNext
  <2> QED
    BY <2>1, <2>2, LaterPages
<1>16. CASE ScanExtensions
  BY <1>16, LaterPages DEF ScanExtensions
<1>17. CASE LoadDrivers
  <2>1. pc \in LaterSteps /\ UNCHANGED <<media, rom>>
    BY <1>17 DEF LoadDrivers
  <2>2. \/ pc' = "selftest" /\ UNCHANGED <<region, held>>
        \/ OpenArea("driver", drivers, "selftest")
    BY <1>17 DEF LoadDrivers, mapVars
  <2> QED
    BY <2>1, <2>2, OpenPages, LaterPages DEF Area
<1>18. CASE StageDriver
  <2>1. pc = "stage driver" /\ UNCHANGED <<region, held, media, rom>>
    BY <1>18 DEF StageDriver
  <2>2. pc' \in {pc, "selftest"}
    BY <1>18 DEF StageDriver, StageNext
  <2> QED
    BY <2>1, <2>2, LaterPages
<1>19. CASE RunSystemFilesSelfTest
  BY <1>19, LaterPages DEF RunSystemFilesSelfTest, mapVars
<1>20. CASE UNCHANGED vars
  BY <1>20, CoreExpand DEF vars, mapVars
<1> QED
  BY <1>1, <1>2, <1>3, <1>4, <1>5, <1>6, <1>7, <1>8, <1>9, <1>10, <1>11, <1>12, <1>13, <1>14,
     <1>15, <1>16, <1>17, <1>18, <1>19, <1>20 DEF Next, MapStep, StagingStep, Returned

\* The window table, the ROM that is searched for and mapped, and the pages of
\* the host agree at every step of the boot (the invariant CoreInv).
THEOREM CoreIsInvariant == Spec => []CoreInv
  BY CoreInit, CoreNext, PTL DEF Spec

\* The record of the ROM describes a window, with the ROM's pages, and every
\* alias shows them in full (PpcInstallSystemRom, PpcAddGuestMemoryRegion).
THEOREM RomIsOnTheMap == Spec => []RecordsMatchMap
  BY CoreIsInvariant, PTL DEF CoreInv

\* No pages are lost on the way to the desktop, and none are given back that
\* the guest still sees, whichever firmware calls fail.
THEOREM PagesAreAccountedFor == Spec => []BuffersAreAccountedFor
  BY CoreIsInvariant, PTL DEF CoreInv

-----------------------------------------------------------------------------
(***************************************************************************)
(* The self-test of the map (PpcRunBootSelfTest): what a store does is     *)
(* decided by one window only.                                             *)
(***************************************************************************)
LEMMA LowIsWritable ==
  ASSUME Sound(region)
  PROVE  Writable(0) <=> OnMap(LowWindow)
<1>1. LowWindow.base = 0 /\ LowWindow.size = 16 /\ ~LowWindow.ro
  BY DEF LowWindow, Region
<1>2. \A i \in DOMAIN region : region[i] \in Windows
  BY ElementOfSeq, LenProperties DEF Sound
<1>3. ASSUME NEW i \in DOMAIN region, 0 \in region[i].base .. region[i].base + region[i].size - 1
      PROVE  region[i] = LowWindow
  <2>1. region[i].base = 0
    BY <1>2, <1>3 DEF Windows
  <2> QED
    BY <2>1 DEF Sound
<1>4. \A i \in DOMAIN region : region[i] = LowWindow =>
        0 \in region[i].base .. region[i].base + region[i].size - 1 /\ ~region[i].ro
  BY <1>1
<1> QED
  BY <1>3, <1>4 DEF Writable, OnMap

LEMMA RomIsWritable ==
  ASSUME RomInv, rom.loaded
  PROVE  Writable(rom.base) <=> rom.type = "new_world"
<1>1. PICK i \in DOMAIN region : /\ region[i].base = rom.base
                                 /\ region[i].size = rom.size
                                 /\ region[i].ro <=> rom.type # "new_world"
  BY DEF RomInv, RomIsShown
<1>2. /\ \A k \in DOMAIN region : region[k] \in Windows /\ k \in Nat
      /\ rom.base \in Nat /\ rom.size \in Nat /\ rom.size # 0
  BY ElementOfSeq, LenProperties DEF RomInv, Sound, RomRecord
<1>3. ASSUME NEW j \in DOMAIN region,
             rom.base \in region[j].base .. region[j].base + region[j].size - 1
      PROVE  j = i
  <2>1. /\ region[j].base \in Nat /\ region[j].size \in Nat
        /\ region[j].base <= rom.base /\ rom.base < region[j].base + region[j].size
    BY <1>2, <1>3 DEF Windows
  <2>2. Overlaps(region[i], region[j]) /\ Overlaps(region[j], region[i])
    BY <1>1, <1>2, <2>1 DEF Overlaps
  <2>3. ~(i < j) /\ ~(j < i)
    BY <2>2 DEF RomInv, Sound
  <2> QED
    BY <1>2, <2>3
<1>4. rom.base \in region[i].base .. region[i].base + region[i].size - 1
  BY <1>1, <1>2
<1> QED
  BY <1>1, <1>3, <1>4 DEF Writable

LEMMA MapTestStep ==
  ASSUME CoreInv, RunBootSelfTest, UNCHANGED imageVars, faults \in Nat
  PROVE  MapTestIsRight'
<1>1. UNCHANGED <<region, rom, media, mounted>>
  BY DEF RunBootSelfTest, romVars
<1>2. Recognised' = Recognised
  BY <1>1 DEF Recognised, EntryWord, imageVars, lzssVars
<1> DEFINE Stores == Writable(0) /\ (Writable(rom.base) <=> rom.type = "new_world")
           Rest(failed) == /\ rom.loaded /\ Recognised
                           /\ mounted => media.disc.served /\ ~failed
<1>3. PICK failed \in BOOLEAN :
        /\ failed => mounted
        /\ Fails(IF failed THEN 1 ELSE 0)
        /\ mapTest' = IF Stores /\ Rest(failed) THEN "pass" ELSE "fail"
  <2>1. PICK failed \in BOOLEAN :
          /\ failed => mounted /\ media.disc.served
          /\ Fails(IF failed THEN 1 ELSE 0)
          /\ mapTest' = IF /\ Writable(0)
                           /\ rom.loaded
                           /\ Recognised
                           /\ Writable(rom.base) <=> rom.type = "new_world"
                           /\ mounted => media.disc.served /\ ~failed
                        THEN "pass" ELSE "fail"
    BY DEF RunBootSelfTest
  <2> QED
    BY <2>1
<1>4. rom.loaded => (Stores <=> OnMap(LowWindow))
  BY LowIsWritable, RomIsWritable DEF CoreInv, RomInv
<1>5. failed => mounted /\ faults' > 0
  BY <1>3 DEF Fails
<1> HIDE DEF Stores
<1>6. mapTest' = "pass" <=> OnMap(LowWindow) /\ Rest(failed)
  BY <1>3, <1>4
<1>7. OnMap(LowWindow)' <=> OnMap(LowWindow)
  BY <1>1 DEF OnMap
<1> QED
  BY <1>1, <1>2, <1>5, <1>6, <1>7 DEF MapTestIsRight

-----------------------------------------------------------------------------
(***************************************************************************)
(* The staged files.                                                       *)
(***************************************************************************)
Sized == File \cup [name : {"System", "Finder"}, size : Nat]
Record == [on : {"esp", "disc", None}, name : {f.name : f \in Sized}, size : Nat, at : Nat,
           got : Nat]
FolderRecord ==
  [scanned : BOOLEAN, on : {"esp", "disc", None}, system : BOOLEAN, finder : BOOLEAN]

StageSteps == {"files", "stage system", "scan", "drivers", "stage driver", "selftest", "done"}

FolderOf(F) == IF F.on = "esp" THEN media.esp.folder ELSE media.disc.folder

\* A folder that is staged from was scanned, and its files have sizes.
Shown(F) ==
  /\ F \in FolderRecord
  /\ F.on # None => F.scanned /\ FolderOf(F) \in SystemFolder
  /\ F.system => F.on # None /\ FolderOf(F).system \in Nat
  /\ F.finder => F.on # None /\ FolderOf(F).finder \in Nat

FolderInv == Shown(folder)

\* A file of the disc on record came whole.
CameWith(r) == r.got <= r.size /\ (r.on = "disc" => r.got = r.size)

\* Behind the cursor lie the files on record, one after the other.
Intact(a, i) ==
  LET r == staged[a][i]
  IN /\ r.on = folder.on
     /\ r.at + r.size <= cursor[a]
     /\ CameWith(r)
     /\ \A n \in 0 .. r.got - 1 : cell[a][r.at + n] = <<r.on, r.name, n>>
     /\ \A j \in 1 .. i - 1 : staged[a][j].at + staged[a][j].size <= r.at

AreaInv(a) ==
  /\ DOMAIN cell[a] = 0 .. AreaWindow[a].size - 1
  /\ cursor[a] \in 0 .. AreaWindow[a].size
  /\ staged[a] \in Seq(Record)
  /\ \A i \in DOMAIN staged[a] : Intact(a, i)

\* A file needs no more care: it is empty, staged, or too large for what is left.
Settled(a, f) ==
  \/ f.size = 0
  \/ \E i \in DOMAIN staged[a] : staged[a][i].name = f.name /\ staged[a][i].size = f.size
  \/ cursor[a] + Aligned(f.size) > AreaWindow[a].size

\* Each file of area a is yet to come, or settled.
NoneMissed(a) ==
  \A i \in DOMAIN Registered(a) :
    \/ \E k \in DOMAIN todo : todo[k] = Registered(a)[i]
    \/ Settled(a, Registered(a)[i])

AllSettled(a) ==
  OnMap(AreaWindow[a]) => \A i \in DOMAIN Registered(a) : Settled(a, Registered(a)[i])

AreasInv ==
  /\ DOMAIN cell = Area /\ DOMAIN cursor = Area /\ DOMAIN staged = Area
  /\ \A a \in Area : AreaInv(a)

\* Nothing is staged into an area before it is opened.
OpenInv ==
  /\ pc \notin StageSteps => staged["system"] = <<>>
  /\ pc \in StageSteps \ {"selftest", "done"} => Found
  /\ pc \in {"files"} => staged["system"] = <<>>
  /\ pc \notin {"stage driver", "selftest", "done"} => staged["driver"] = <<>>
  /\ pc = "stage system" => OnMap(SystemWindow)
  /\ pc = "stage driver" => OnMap(DriverWindow)
  /\ \A a \in Area : staged[a] # <<>> => OnMap(AreaWindow[a])

\* There are not more drivers on record than were enumerated.
CountInv ==
  /\ drivers \in Seq(File) /\ todo \in Seq(Sized)
  /\ pc = "stage driver" => Len(staged["driver"]) + Len(todo) <= Len(drivers)
  /\ Len(staged["driver"]) <= Len(drivers)

MarkInv ==
  /\ pc \in StageSteps \ {"files"} /\ Found => (magic <=> OnMap(LowWindow))
  /\ pc = "done" /\ Found /\ OnMap(LowWindow) => verdict = "pass"

LeftInv ==
  faults = 0 =>
    /\ pc = "stage system" => NoneMissed("system")
    /\ pc \in {"scan", "drivers", "stage driver", "selftest", "done"} /\ Found => AllSettled("system")
    /\ pc = "stage driver" => NoneMissed("driver")
    /\ pc \in {"selftest", "done"} /\ Found => AllSettled("driver")

StageInv ==
  /\ CoreInv /\ MapTestIsRight /\ faults \in Nat
  /\ FolderInv /\ AreasInv /\ OpenInv /\ CountInv /\ MarkInv /\ LeftInv

\* The calls that failed are counted: their number never goes down.
Counts == faults' \in Nat /\ faults' >= faults

LEMMA CompanionsAreFinite ==
  \A none \in SUBSET ToSet(Companions) : Cardinality(none) \in Nat
<1>1. Companions \in Seq(ToSet(Companions))
  BY OrdinaryWindows
<1>2. Len(Companions) \in Nat /\ DOMAIN Companions = 1 .. Len(Companions)
  BY <1>1, LenProperties
<1> DEFINE f == [i \in 1 .. Len(Companions) |-> Companions[i]]
<1>3. f \in Surjection(1 .. Len(Companions), ToSet(Companions))
  BY <1>2 DEF Surjection, ToSet
<1>4. IsFiniteSet(1 .. Len(Companions))
  BY <1>2, FS_Interval
<1>5. IsFiniteSet(ToSet(Companions))
  <2> HIDE DEF f
  <2> QED
    BY <1>3, <1>4, FS_Surjection
<1> QED
  BY <1>5, FS_Subset, FS_CardinalityType

LEMMA FaultsCount ==
  ASSUME faults \in Nat, [Next]_vars
  PROVE  Counts
<1>1. ASSUME NEW n \in Nat, Fails(n)
      PROVE  Counts
  BY <1>1 DEF Fails, Counts
<1>2. ASSUME faults' = faults
      PROVE  Counts
  BY <1>2 DEF Counts
<1>3. ASSUME NEW w, InstallPages(w)
      PROVE  Counts
  BY <1>1, <1>3 DEF InstallPages
<1>4. ASSUME NEW a, NEW b
      PROVE  /\ Cardinality({}) \in Nat /\ Cardinality({a}) \in Nat
             /\ Cardinality({a, b}) \in Nat
  <2>1. IsFiniteSet({a}) /\ {a, b} = {a} \cup {b}
    BY FS_Singleton
  <2> QED
    BY <2>1, FS_EmptySet, FS_AddElement, FS_CardinalityType
<1>5. CASE InstallLowMemory
  BY <1>3, <1>5 DEF InstallLowMemory
<1>6. CASE LoadRom
  <2>1. \A o \in EspOutcomes \cup DiscOutcomes : o.faults \in Nat
    BY DEF EspOutcomes, DiscOutcomes, Reads, Outcome
  <2> QED
    BY <1>1, <1>6, <2>1 DEF LoadRom
<1>7. CASE MapRom
  BY <1>1, <1>7 DEF MapRom
<1>8. CASE InstallAliases
  BY <1>1, <1>8, CompanionsAreFinite DEF InstallAliases
<1>9. CASE GuestRuns \/ IdentifyRom \/ DecodeRom \/ RunSystemFilesSelfTest
  BY <1>2, <1>9 DEF GuestRuns, IdentifyRom, DecodeRom, RunSystemFilesSelfTest, mapVars
<1>10. CASE PrepareLowMemory \/ PrepareKernelArea
  BY <1>2, <1>3, <1>10 DEF PrepareLowMemory, PrepareKernelArea, mapVars
<1>11. CASE StageOsRuntime
  <2>1. \A failed \in {{}, {"mount"}, {"area"}, {"read"}, {"area", "read"}} :
          Cardinality(failed) \in Nat
    BY <1>4
  <2> QED
    BY <1>1, <1>11, <2>1 DEF StageOsRuntime
<1>12. CASE ExpandRom
  BY <1>1, <1>12 DEF ExpandRom
<1>13. CASE LocateSystemFolder
  <2>1. IsFiniteSet({"system", "finder", "mount"})
    <3>1. {"system", "finder", "mount"} = ({"system"} \cup {"finder"}) \cup {"mount"}
      OBVIOUS
    <3>2. IsFiniteSet({"system"} \cup {"finder"})
      BY FS_Singleton, FS_AddElement
    <3> QED
      BY <3>1, <3>2, FS_AddElement
  <2>2. \A failed \in SUBSET {"system", "finder", "mount"} : Cardinality(failed) \in Nat
    BY <2>1, FS_Subset, FS_CardinalityType
  <2>3. PICK n \in Nat : Fails(n)
    BY <1>13, <2>2 DEF LocateSystemFolder
  <2> QED
    BY <1>1, <2>3
<1>14. ASSUME NEW a, NEW files, NEW after, OpenArea(a, files, after)
       PROVE  Counts
  BY <1>2, <1>3, <1>14 DEF OpenArea, Ensured, mapVars
<1>15. CASE LoadSystemFiles \/ LoadDrivers
  BY <1>2, <1>14, <1>15 DEF LoadSystemFiles, LoadDrivers, mapVars
<1>16. CASE StageSystemFile \/ StageDriver
  BY <1>1, <1>16 DEF StageSystemFile, StageDriver, StageNext, StageFile, NotStaged,
                    StagingFails, ComesShort
<1>17. CASE ScanExtensions
  <2>1. PICK n \in {0, 1} : Fails(n)
    BY <1>17 DEF ScanExtensions
  <2> QED
    BY <1>1, <2>1
<1>18. CASE UNCHANGED vars
  BY <1>2, <1>18 DEF vars, mapVars
<1>19. CASE RunBootSelfTest
  BY <1>1, <1>19 DEF RunBootSelfTest
<1> QED
  BY <1>5, <1>6, <1>7, <1>8, <1>9, <1>10, <1>11, <1>12, <1>13, <1>15, <1>16, <1>17, <1>18, <1>19
     DEF Next, MapStep, StagingStep, Returned

\* What is on the map stays there, and a step adds no other window than the
\* one it asks for.
LEMMA PagesKeep ==
  ASSUME Sound(region), NEW w, Askable(w), UNCHANGED region \/ InstallPages(w)
  PROVE  \A v : /\ OnMap(v) => OnMap(v)'
                /\ OnMap(v)' => OnMap(v) \/ v = w
<1>1. CASE UNCHANGED region
  BY <1>1 DEF OnMap
<1>2. CASE InstallPages(w)
  <2>1. Grown(region, region', {w})
    BY <1>2, PagesStep
  <2> QED
    BY <2>1 DEF Grown, OnMap
<1> QED
  BY <1>1, <1>2

\* Before a folder is known nothing is staged.
LEMMA EarlyStage ==
  ASSUME StageInv, CoreInv', MapTestIsRight', faults' \in Nat,
         pc \notin StageSteps, pc' \notin StageSteps, UNCHANGED <<stageVars, media>>
  PROVE  StageInv'
<1>1. UNCHANGED <<folder, drivers, todo, cell, cursor, staged, media>>
  BY DEF stageVars, areaVars
<1>2. FolderInv' /\ AreasInv'
  BY <1>1 DEF StageInv, FolderInv, AreasInv, AreaInv, Intact, Shown, FolderOf
<1>3. /\ staged["system"] = <<>> /\ staged["driver"] = <<>>
      /\ \A p \in {"files", "stage system", "scan", "drivers", "stage driver", "selftest", "done"} :
           p # pc /\ p # pc'
  BY DEF StageInv, OpenInv, StageSteps
<1>4. OpenInv'
  BY <1>1, <1>3 DEF OpenInv, StageSteps, Area
<1>5. CountInv'
  BY <1>1, <1>3 DEF StageInv, CountInv
<1>6. MarkInv' /\ LeftInv'
  BY <1>3 DEF MarkInv, LeftInv, StageSteps
<1> QED
  BY <1>2, <1>4, <1>5, <1>6 DEF StageInv

LEMMA EspIsShown ==
  ASSUME media \in Media, NEW unread
  PROVE  Shown(EspFolder(unread))
<1>1. None # "esp" /\ media.esp.folder \in SystemFolder \cup {None}
  BY BootAssumption
<1>2. CASE media.esp.folder = None
  <2>1. EspFolder(unread) = [scanned |-> TRUE, on |-> None, system |-> FALSE, finder |-> FALSE]
    BY <1>2 DEF EspFolder, NoFolder
  <2> QED
    BY <2>1 DEF Shown, FolderRecord
<1>3. CASE media.esp.folder # None
  <2>1. EspFolder(unread) =
          [scanned |-> TRUE, on |-> "esp",
           system |-> "system" \notin unread /\ Holds(media.esp.folder.system),
           finder |-> "finder" \notin unread /\ Holds(media.esp.folder.finder)]
    BY <1>3 DEF EspFolder
  <2>2. media.esp.folder.system \in Nat \cup {None} /\ media.esp.folder.finder \in Nat \cup {None}
    BY <1>1, <1>3 DEF SystemFolder
  <2>3. EspFolder(unread) \in FolderRecord
    BY <2>1 DEF FolderRecord
  <2>4. /\ EspFolder(unread).on = "esp" /\ EspFolder(unread).scanned
        /\ EspFolder(unread).system => Holds(media.esp.folder.system)
        /\ EspFolder(unread).finder => Holds(media.esp.folder.finder)
    <3> DEFINE s == "system" \notin unread /\ Holds(media.esp.folder.system)
               f == "finder" \notin unread /\ Holds(media.esp.folder.finder)
    <3>1. EspFolder(unread) = [scanned |-> TRUE, on |-> "esp", system |-> s, finder |-> f]
      BY <2>1
    <3> HIDE DEF s, f
    <3>2. /\ EspFolder(unread).on = "esp" /\ EspFolder(unread).scanned
          /\ EspFolder(unread).system = s /\ EspFolder(unread).finder = f
      BY <3>1
    <3> QED
      BY <3>2 DEF s, f
  <2>5. FolderOf(EspFolder(unread)) = media.esp.folder
    BY <2>4 DEF FolderOf
  <2> QED
    BY <1>1, <1>3, <2>2, <2>3, <2>4, <2>5 DEF Shown, Holds
<1> QED
  BY <1>2, <1>3

LEMMA DiscIsShown ==
  ASSUME media \in Media, NEW seen, Shown(seen)
  PROVE  Shown(DiscFolder(seen))
<1>1. CASE media.disc = None
  BY <1>1 DEF DiscFolder
<1>2. CASE media.disc # None /\ (media.disc.folder = None \/ media.disc.folder.system = None)
  BY <1>2 DEF DiscFolder
<1>3. CASE media.disc # None /\ media.disc.folder # None /\ media.disc.folder.system # None
  <2>1. media.disc.folder \in SystemFolder
    BY <1>3, BootAssumption
  <2>2. DiscFolder(seen) = [scanned |-> TRUE, on |-> "disc", system |-> TRUE,
                            finder |-> media.disc.folder.finder # None]
    BY <1>3 DEF DiscFolder
  <2>3. media.disc.folder.system \in Nat /\ media.disc.folder.finder \in Nat \cup {None}
    BY <1>3, <2>1 DEF SystemFolder
  <2>4. "disc" # None
    BY BootAssumption
  <2>5. DiscFolder(seen) \in FolderRecord
    BY <2>2 DEF FolderRecord
  <2>6. /\ DiscFolder(seen).on = "disc" /\ DiscFolder(seen).scanned
        /\ DiscFolder(seen).finder => media.disc.folder.finder # None
    <3> DEFINE f == media.disc.folder.finder # None
    <3>1. DiscFolder(seen) = [scanned |-> TRUE, on |-> "disc", system |-> TRUE, finder |-> f]
      BY <2>2
    <3> HIDE DEF f
    <3>2. /\ DiscFolder(seen).on = "disc" /\ DiscFolder(seen).scanned
          /\ DiscFolder(seen).finder = f
      BY <3>1
    <3> QED
      BY <3>2 DEF f
  <2>7. FolderOf(DiscFolder(seen)) = media.disc.folder
    BY <2>6 DEF FolderOf
  <2> QED
    BY <2>1, <2>3, <2>4, <2>5, <2>6, <2>7 DEF Shown
<1> QED
  BY <1>1, <1>2, <1>3

\* main goes on with a folder, or past everything that needs one.
LEMMA LocateStage ==
  ASSUME StageInv, LocateSystemFolder, CoreInv'
  PROVE  FolderInv' /\ AreasInv' /\ OpenInv' /\ CountInv' /\ MarkInv' /\ LeftInv'
<1>1. /\ pc = "locate" /\ pc' = IF folder'.on = None THEN "selftest" ELSE "files"
      /\ UNCHANGED <<media, drivers, todo, cell, cursor, staged>>
  BY DEF LocateSystemFolder, areaVars
<1>2. media \in Media /\ Shown(folder)
  BY DEF StageInv, CoreInv, RomInv, FolderInv
<1>3. Shown(folder')
  <2>1. CASE folder' = folder
    BY <1>2, <2>1
  <2>2. ASSUME NEW failed, folder' = EspFolder(failed) \/ folder' = DiscFolder(EspFolder(failed))
        PROVE  Shown(folder')
    BY <1>2, <2>2, EspIsShown, DiscIsShown
  <2>3. folder' = folder \/ \E failed : \/ folder' = EspFolder(failed)
                                        \/ folder' = DiscFolder(EspFolder(failed))
    BY DEF LocateSystemFolder
  <2> QED
    BY <2>1, <2>2, <2>3
<1>4. FolderInv'
  BY <1>1, <1>3 DEF FolderInv, Shown, FolderOf
<1>5. staged["system"] = <<>> /\ staged["driver"] = <<>>
  BY <1>1 DEF StageInv, OpenInv, StageSteps
<1>6. \A a \in Area : staged[a] = <<>>
  BY <1>5 DEF Area
<1>7. AreasInv'
  BY <1>1, <1>6 DEF StageInv, AreasInv, AreaInv
<1>8. OpenInv'
  BY <1>1, <1>5, <1>6 DEF OpenInv, Found, StageSteps
<1>9. CountInv'
  BY <1>1, <1>5 DEF StageInv, CountInv
<1>10. MarkInv' /\ LeftInv'
  BY <1>1 DEF MarkInv, LeftInv, Found
<1> QED
  BY <1>4, <1>7, <1>8, <1>9, <1>10

LEMMA SystemFilesType ==
  ASSUME FolderInv
  PROVE  SystemFiles \in Seq(Sized)
<1> DEFINE S == [name |-> "System", size |-> Folder.system]
           F == [name |-> "Finder", size |-> Folder.finder]
<1>1. /\ folder.system => S \in Sized
      /\ folder.finder => F \in Sized
  BY DEF FolderInv, Shown, FolderOf, Folder, Sized
<1> HIDE DEF S, F
<1>2. (IF folder.system THEN <<S>> ELSE <<>>) \in Seq(Sized)
  BY <1>1
<1>3. (IF folder.finder THEN <<F>> ELSE <<>>) \in Seq(Sized)
  BY <1>1
<1>4. (IF folder.system THEN <<S>> ELSE <<>>) \o (IF folder.finder THEN <<F>> ELSE <<>>) \in Seq(Sized)
  BY <1>2, <1>3, ConcatProperties
<1> QED
  BY <1>4 DEF SystemFiles, S, F

LEMMA RegisteredType ==
  ASSUME FolderInv, CountInv, NEW a \in Area
  PROVE  Registered(a) \in Seq(Sized)
<1>1. drivers \in Seq(Sized)
  BY SeqMonotonic DEF CountInv, Sized
<1> QED
  BY <1>1, SystemFilesType DEF Registered

\* A size is a number, and an area has one.
LEMMA SizedHasSize ==
  /\ \A f \in Sized : f.size \in Nat /\ Aligned(f.size) \in Nat /\ Aligned(f.size) >= f.size
  /\ \A a \in Area : AreaWindow[a].size \in Nat
<1>1. \A f \in Sized : f.size \in Nat
  BY DEF Sized, File
<1>2. \A a \in Area : AreaWindow[a].size \in Nat
  BY DEF Area, AreaWindow, SystemWindow, DriverWindow, Region
<1> QED
  BY <1>1, <1>2, AlignedIsUp

\* A copy begins at the cursor and leaves what lies before it.
LEMMA CopyIsBehind ==
  ASSUME AreasInv, NEW a \in Area, NEW f \in Sized, NEW n \in 0 .. f.size, Fits(a, f)
  PROVE  /\ DOMAIN Copied(a, f, n) = Area
         /\ \A b \in Area : DOMAIN Copied(a, f, n)[b] = DOMAIN cell[b]
         /\ \A b \in Area \ {a} : Copied(a, f, n)[b] = cell[b]
         /\ \A i \in DOMAIN cell[a] : i < cursor[a] => Copied(a, f, n)[a][i] = cell[a][i]
         /\ \A k \in 0 .. n - 1 : Copied(a, f, n)[a][cursor[a] + k] = <<folder.on, f.name, k>>
<1> DEFINE at == cursor[a]
           New(i) == IF i \in at .. at + n - 1 THEN <<folder.on, f.name, i - at>>
                     ELSE IF n = f.size /\ folder.on = "disc" /\ i \in at + n .. at + Aligned(n) - 1
                       THEN None
                     ELSE cell[a][i]
           c == Copied(a, f, n)
<1>1. DOMAIN cell = Area
  BY DEF AreasInv
<1>2. c = [cell EXCEPT ![a] = [i \in DOMAIN cell[a] |-> New(i)]]
  BY DEF Copied
<1>3. /\ DOMAIN cell[a] = 0 .. AreaWindow[a].size - 1 /\ at \in Nat
      /\ f.size \in Nat /\ n \in Nat /\ n <= f.size /\ Aligned(f.size) \in Nat
      /\ Aligned(f.size) >= f.size /\ AreaWindow[a].size \in Nat
      /\ at + Aligned(f.size) <= AreaWindow[a].size
  BY SizedHasSize DEF AreasInv, AreaInv, Fits
<1>4. \A k \in 0 .. n - 1 : /\ at + k \in DOMAIN cell[a] /\ at + k \in at .. at + n - 1
                            /\ (at + k) - at = k
  BY <1>3
<1>5. \A i \in DOMAIN cell[a] : i < at => /\ i \notin at .. at + n - 1
                                          /\ i \notin at + n .. at + Aligned(n) - 1
  BY <1>3
<1>6. \A k \in 0 .. n - 1 : New(at + k) = <<folder.on, f.name, k>>
  BY <1>4
<1>7. \A i \in DOMAIN cell[a] : i < at => New(i) = cell[a][i]
  BY <1>5
<1> HIDE DEF New, c
<1>8. DOMAIN c = Area /\ \A b \in Area \ {a} : c[b] = cell[b]
  BY <1>1, <1>2
<1>9. c[a] = [i \in DOMAIN cell[a] |-> New(i)]
  BY <1>1, <1>2
<1> HIDE DEF at
<1>10. /\ DOMAIN c[a] = DOMAIN cell[a]
       /\ \A i \in DOMAIN cell[a] : i < at => c[a][i] = cell[a][i]
       /\ \A k \in 0 .. n - 1 : c[a][at + k] = <<folder.on, f.name, k>>
  BY <1>4, <1>6, <1>7, <1>9
<1> QED
  BY <1>8, <1>10 DEF c, at

\* Files on record stay intact when bytes are written behind the cursor.
LEMMA CopyKeepsRecords ==
  ASSUME AreasInv, NEW a \in Area, NEW f \in Sized, NEW n \in 0 .. f.size, Fits(a, f),
         NEW i \in DOMAIN staged[a]
  PROVE  LET r == staged[a][i]
         IN \A m \in 0 .. r.got - 1 : Copied(a, f, n)[a][r.at + m] = <<r.on, r.name, m>>
<1> DEFINE r == staged[a][i]
<1>1. AreaInv(a) /\ AreaWindow[a].size \in Nat
  BY SizedHasSize DEF AreasInv
<1>2. r \in Record /\ r.at + r.size <= cursor[a] /\ cursor[a] <= AreaWindow[a].size
  BY <1>1, ElementOfSeq, LenProperties DEF AreaInv, Intact
<1>3. r.at \in Nat /\ r.size \in Nat /\ r.got \in Nat /\ r.got <= r.size /\ cursor[a] \in Nat
  BY <1>1, <1>2 DEF Record, AreaInv, Intact, CameWith
<1>4. \A m \in 0 .. r.got - 1 : r.at + m \in DOMAIN cell[a] /\ r.at + m < cursor[a]
  <2>1. DOMAIN cell[a] = 0 .. AreaWindow[a].size - 1
    BY <1>1 DEF AreaInv
  <2> HIDE DEF r
  <2> QED
    BY <1>1, <1>2, <1>3, <2>1
<1>5. \A m \in 0 .. r.got - 1 : cell[a][r.at + m] = <<r.on, r.name, m>>
  BY <1>1 DEF AreaInv, Intact
<1> HIDE DEF r
<1>6. \A m \in 0 .. r.got - 1 : Copied(a, f, n)[a][r.at + m] = cell[a][r.at + m]
  BY <1>4, CopyIsBehind
<1>7. \A m \in 0 .. r.got - 1 : Copied(a, f, n)[a][r.at + m] = <<r.on, r.name, m>>
  BY <1>5, <1>6
<1> QED
  BY <1>7 DEF r

\* An area in which nothing is put on record.
LEMMA SameRecords ==
  ASSUME AreasInv, UNCHANGED <<folder, cursor, staged>>, DOMAIN cell' = Area,
         \A a \in Area : DOMAIN cell'[a] = DOMAIN cell[a],
         \A a \in Area : \A i \in DOMAIN staged[a] : \A m \in 0 .. staged[a][i].got - 1 :
           cell'[a][staged[a][i].at + m] = <<staged[a][i].on, staged[a][i].name, m>>
  PROVE  AreasInv'
<1>1. ASSUME NEW a \in Area
      PROVE  AreaInv(a)'
  <2>1. AreaInv(a)
    BY DEF AreasInv
  <2>2. \A i \in DOMAIN staged[a] : Intact(a, i)'
    BY <2>1 DEF AreaInv, Intact
  <2> QED
    BY <2>1, <2>2 DEF AreaInv
<1> QED
  BY <1>1 DEF AreasInv

\* f is settled after the step.
SettledThen(a, f) ==
  \/ f.size = 0
  \/ \E i \in DOMAIN staged'[a] : staged'[a][i].name = f.name /\ staged'[a][i].size = f.size
  \/ cursor'[a] + Aligned(f.size) > AreaWindow[a].size

\* What StageFile does to the records.
StageResult(a, f) ==
  /\ DOMAIN staged' = Area /\ DOMAIN cursor' = Area
  /\ \A b \in Area \ {a} : staged'[b] = staged[b] /\ cursor'[b] = cursor[b]
  /\ cursor'[a] >= cursor[a]
  /\ \/ staged'[a] = staged[a]
     \/ \E r \in Record : staged'[a] = Append(staged[a], r)
  /\ faults' = faults => SettledThen(a, f)

LEMMA PartialCopy ==
  ASSUME AreasInv, FolderInv, NEW a \in Area, NEW f \in Sized, Fits(a, f), UNCHANGED folder,
         NEW n \in 0 .. f.size, cell' = Copied(a, f, n), UNCHANGED <<cursor, staged>>
  PROVE  AreasInv'
<1>1. /\ DOMAIN cell' = Area
      /\ \A b \in Area : DOMAIN cell'[b] = DOMAIN cell[b]
      /\ \A b \in Area \ {a} : cell'[b] = cell[b]
  BY CopyIsBehind
<1>2. ASSUME NEW b \in Area, NEW i \in DOMAIN staged[b], NEW m \in 0 .. staged[b][i].got - 1
      PROVE  cell'[b][staged[b][i].at + m] = <<staged[b][i].on, staged[b][i].name, m>>
  <2>1. CASE b = a
    BY <2>1, CopyKeepsRecords
  <2>2. CASE b # a
    <3>1. Intact(b, i)
      BY DEF AreasInv, AreaInv
    <3> QED
      BY <1>1, <2>2, <3>1 DEF Intact
  <2> QED
    BY <2>1, <2>2
<1> QED
  BY <1>1, <1>2, SameRecords

LEMMA RecordedCopy ==
  ASSUME AreasInv, FolderInv, NEW a \in Area, NEW f \in Sized, Fits(a, f), UNCHANGED folder,
         NEW n \in 0 .. f.size, Kept(a, f, n), folder.on = "disc" => n = f.size
  PROVE  AreasInv' /\ StageResult(a, f)
<1> DEFINE r == [on |-> folder.on, name |-> f.name, size |-> f.size, at |-> cursor[a], got |-> n]
           s == staged[a]
<1>1. /\ cursor' = [cursor EXCEPT ![a] = cursor[a] + Aligned(f.size)]
      /\ staged' = [staged EXCEPT ![a] = Append(s, r)]
      /\ cell' = Copied(a, f, n)
  BY DEF Kept
<1>2. /\ DOMAIN cell = Area /\ DOMAIN cursor = Area /\ DOMAIN staged = Area
      /\ \A b \in Area : AreaInv(b)
  BY DEF AreasInv
<1>3. /\ f.size \in Nat /\ Aligned(f.size) \in Nat /\ Aligned(f.size) >= f.size
      /\ n \in Nat /\ n <= f.size
      /\ AreaWindow[a].size \in Nat /\ cursor[a] \in Nat
      /\ cursor[a] + Aligned(f.size) <= AreaWindow[a].size
  BY <1>2, SizedHasSize DEF AreaInv, Fits
<1>4. r \in Record
  BY <1>3 DEF FolderInv, Shown, FolderRecord, Record
<1>5. s \in Seq(Record)
  BY <1>2 DEF AreaInv
<1>6. /\ DOMAIN cursor' = Area /\ DOMAIN staged' = Area
      /\ \A b \in Area \ {a} : staged'[b] = staged[b] /\ cursor'[b] = cursor[b]
      /\ cursor'[a] = cursor[a] + Aligned(f.size) /\ staged'[a] = Append(s, r)
  <2> HIDE DEF r, s
  <2> QED
    BY <1>1, <1>2
<1>7. /\ Append(s, r) \in Seq(Record)
      /\ DOMAIN Append(s, r) = DOMAIN s \cup {Len(s) + 1}
      /\ \A i \in DOMAIN s : Append(s, r)[i] = s[i] /\ i < Len(s) + 1
      /\ Append(s, r)[Len(s) + 1] = r
  <2> HIDE DEF r, s
  <2> QED
    BY <1>4, <1>5, AppendPlaces
<1>8. /\ DOMAIN cell' = Area
      /\ \A b \in Area : DOMAIN cell'[b] = DOMAIN cell[b]
      /\ \A b \in Area \ {a} : cell'[b] = cell[b]
      /\ \A k \in 0 .. n - 1 : cell'[a][cursor[a] + k] = <<folder.on, f.name, k>>
  <2>1. /\ DOMAIN Copied(a, f, n) = Area
        /\ \A b \in Area : DOMAIN Copied(a, f, n)[b] = DOMAIN cell[b]
        /\ \A b \in Area \ {a} : Copied(a, f, n)[b] = cell[b]
        /\ \A k \in 0 .. n - 1 : Copied(a, f, n)[a][cursor[a] + k] = <<folder.on, f.name, k>>
    BY CopyIsBehind
  <2> QED
    BY <1>1, <2>1
<1>9. Len(s) \in Nat /\ DOMAIN s = 1 .. Len(s)
  BY <1>5, LenProperties
<1>10. ASSUME NEW b \in Area \ {a}
       PROVE  AreaInv(b)'
  <2>1. staged'[b] = staged[b] /\ cursor'[b] = cursor[b] /\ cell'[b] = cell[b] /\ AreaInv(b)
    BY <1>2, <1>6, <1>8
  <2>2. \A i \in DOMAIN staged[b] : Intact(b, i)'
    BY <2>1 DEF AreaInv, Intact
  <2> QED
    BY <2>1, <2>2 DEF AreaInv
<1>11. ASSUME NEW i \in DOMAIN s
       PROVE  Intact(a, i)'
  <2>1. Intact(a, i) /\ s[i] \in Record
    BY <1>2, <1>5, <1>9, ElementOfSeq DEF AreaInv
  <2>2. staged'[a][i] = s[i] /\ \A j \in 1 .. i - 1 : staged'[a][j] = s[j]
    BY <1>6, <1>7, <1>9
  <2>3. \A m \in 0 .. s[i].got - 1 : cell'[a][s[i].at + m] = <<s[i].on, s[i].name, m>>
    BY <1>1, CopyKeepsRecords
  <2>4. s[i].at \in Nat /\ s[i].size \in Nat
    BY <2>1 DEF Record
  <2>5. /\ s[i].on = folder.on /\ s[i].at + s[i].size <= cursor[a] /\ CameWith(s[i])
        /\ \A j \in 1 .. i - 1 : s[j].at + s[j].size <= s[i].at
    BY <2>1 DEF Intact
  <2> HIDE DEF r, s
  <2>6. s[i].at + s[i].size <= cursor'[a]
    BY <1>3, <1>6, <2>4, <2>5
  <2>7. \A j \in 1 .. i - 1 : staged'[a][j].at + staged'[a][j].size <= staged'[a][i].at
    BY <2>2, <2>5
  <2> QED
    BY <2>2, <2>3, <2>5, <2>6, <2>7 DEF Intact, CameWith
<1>12. ASSUME NEW k, k = Len(s) + 1
       PROVE  Intact(a, k)'
  <2>1. staged'[a][k] = r
    BY <1>6, <1>7, <1>12
  <2>2. /\ r.on = folder.on /\ r.at = cursor[a] /\ r.size = f.size /\ r.name = f.name
        /\ r.got = n
    OBVIOUS
  <2>3. \A j \in 1 .. Len(s) : staged'[a][j] = s[j] /\ s[j].at + s[j].size <= cursor[a]
    BY <1>2, <1>6, <1>7, <1>9 DEF AreaInv, Intact
  <2>4. \A j \in 1 .. k - 1 : j \in 1 .. Len(s)
    BY <1>9, <1>12
  <2> HIDE DEF r, s
  <2>5. r.at + r.size <= cursor'[a]
    BY <1>3, <1>6, <2>2
  <2>6. \A m \in 0 .. r.got - 1 : cell'[a][r.at + m] = <<r.on, r.name, m>>
    BY <1>8, <2>2
  <2>8. CameWith(r)
    BY <1>3, <2>2 DEF CameWith
  <2>7. \A j \in 1 .. k - 1 : staged'[a][j].at + staged'[a][j].size <= r.at
    BY <2>2, <2>3, <2>4
  <2> QED
    BY <2>1, <2>2, <2>5, <2>6, <2>7, <2>8 DEF Intact, CameWith
<1>13. AreaInv(a)'
  <2>1. cursor'[a] \in 0 .. AreaWindow[a].size
    BY <1>3, <1>6
  <2>2. \A i \in DOMAIN staged'[a] : Intact(a, i)'
    BY <1>6, <1>7, <1>11, <1>12
  <2>3. DOMAIN cell'[a] = 0 .. AreaWindow[a].size - 1
    BY <1>2, <1>8 DEF AreaInv
  <2> QED
    BY <1>6, <1>7, <2>1, <2>2, <2>3 DEF AreaInv
<1>14. AreasInv'
  BY <1>6, <1>8, <1>10, <1>13 DEF AreasInv
<1>15. SettledThen(a, f)
  <2>1. Len(s) + 1 \in DOMAIN staged'[a] /\ staged'[a][Len(s) + 1] = r
    BY <1>6, <1>7
  <2> QED
    BY <2>1 DEF SettledThen
<1> QED
  BY <1>3, <1>4, <1>6, <1>14, <1>15 DEF StageResult

\* A file is staged and put on record, or no record changes.
LEMMA StageFileKeeps ==
  ASSUME AreasInv, FolderInv, NEW a \in Area, NEW f \in Sized, StageFile(a, f), UNCHANGED folder,
         faults \in Nat
  PROVE  AreasInv' /\ StageResult(a, f)
<1>1. DOMAIN cursor = Area /\ DOMAIN staged = Area /\ cursor[a] \in Nat /\ f.size \in Nat
  BY SizedHasSize DEF AreasInv, AreaInv
<1>2. CASE ~Room(a, f) /\ UNCHANGED areaVars
  <2>1. AreasInv'
    BY <1>2 DEF areaVars, AreasInv, AreaInv, Intact
  <2>2. SettledThen(a, f)
    BY <1>1, <1>2, SizedHasSize DEF areaVars, SettledThen, Room, Fits
  <2> QED
    BY <1>1, <1>2, <2>1, <2>2 DEF StageResult, areaVars
<1>3. CASE /\ Fits(a, f) /\ Fails(1) /\ UNCHANGED <<cursor, staged>>
           /\ \E n \in 0 .. f.size - 1 : cell' = Copied(a, f, n)
  <2>1. PICK n \in 0 .. f.size : cell' = Copied(a, f, n)
    BY <1>1, <1>3
  <2>2. AreasInv'
    BY <1>3, <2>1, PartialCopy
  <2>3. faults' # faults
    BY <1>3 DEF Fails
  <2> QED
    BY <1>1, <1>3, <2>2, <2>3 DEF StageResult
<1>4. CASE Fits(a, f) /\ Kept(a, f, f.size)
  BY <1>1, <1>4, RecordedCopy
<1>5. CASE Fits(a, f) /\ folder.on = "esp" /\ \E n \in 0 .. f.size - 1 : Kept(a, f, n)
  <2>1. PICK n \in 0 .. f.size : Kept(a, f, n)
    BY <1>1, <1>5
  <2> QED
    BY <1>5, <2>1, RecordedCopy
<1> QED
  BY <1>2, <1>3, <1>4, <1>5 DEF StageFile, NotStaged, StagingFails, ComesShort, Room

-----------------------------------------------------------------------------
(***************************************************************************)
(* One lemma for each step that stages.                                    *)
(***************************************************************************)

\* What was settled stays so while the area fills.
LEMMA StaysSettled ==
  ASSUME AreasInv, CountInv, FolderInv, NEW a \in Area, NEW f \in Sized, StageResult(a, f),
         NEW g \in Sized, Settled(a, g), AreasInv'
  PROVE  Settled(a, g)'
<1>1. /\ staged[a] \in Seq(Record) /\ cursor[a] \in Nat /\ cursor'[a] \in Nat
      /\ cursor'[a] >= cursor[a] /\ Aligned(g.size) \in Nat /\ AreaWindow[a].size \in Nat
  BY SizedHasSize DEF AreasInv, AreaInv, StageResult
<1>2. \A i \in DOMAIN staged[a] : i \in DOMAIN staged'[a] /\ staged'[a][i] = staged[a][i]
  BY <1>1, AppendPlaces DEF StageResult
<1>3. CASE cursor[a] + Aligned(g.size) > AreaWindow[a].size
  BY <1>1, <1>3 DEF Settled
<1>4. CASE \E i \in DOMAIN staged[a] : staged[a][i].name = g.name /\ staged[a][i].size = g.size
  BY <1>2, <1>4 DEF Settled
<1>5. CASE g.size = 0
  BY <1>5 DEF Settled
<1> QED
  BY <1>3, <1>4, <1>5 DEF Settled

StageNextResult(a, after) ==
  /\ FolderInv' /\ AreasInv'
  /\ todo' \in Seq(Sized)
  /\ \A b \in Area \ {a} : staged'[b] = staged[b] /\ cursor'[b] = cursor[b]
  /\ Len(staged'[a]) + Len(todo') <= Len(staged[a]) + Len(todo)
  /\ faults' = 0 /\ NoneMissed(a) => NoneMissed(a)'
  /\ pc' = pc \/ (pc' = after /\ todo' = <<>>)

LEMMA StageNextDoes ==
  ASSUME StageInv, NEW a \in Area, NEW after, StageNext(a, after), Counts,
         UNCHANGED <<folder, drivers, media>>
  PROVE  StageNextResult(a, after)
<1>1. /\ FolderInv /\ AreasInv /\ CountInv /\ faults \in Nat
      /\ todo \in Seq(Sized) /\ staged[a] \in Seq(Record)
  BY DEF StageInv, CountInv, AreasInv, AreaInv
<1>2. FolderInv'
  BY <1>1 DEF FolderInv, Shown, FolderOf
<1>3. Registered(a)' = Registered(a) /\ Registered(a) \in Seq(Sized)
  BY <1>1, RegisteredType DEF Registered, SystemFiles, Folder
<1>4. \A i \in DOMAIN Registered(a) : Registered(a)[i] \in Sized
  BY <1>3, ElementOfSeq, LenProperties
<1>5. CASE todo = <<>>
  <2>1. pc' = after /\ UNCHANGED <<todo, areaVars>>
    BY <1>5 DEF StageNext
  <2>2. AreasInv'
    BY <1>1, <2>1 DEF AreasInv, AreaInv, Intact, areaVars
  <2>3. NoneMissed(a) => NoneMissed(a)'
    BY <1>3, <2>1 DEF NoneMissed, Settled, areaVars
  <2>4. Len(staged[a]) \in Nat /\ Len(todo) \in Nat
    BY <1>1, LenProperties
  <2> QED
    BY <1>1, <1>2, <1>5, <2>1, <2>2, <2>3, <2>4 DEF StageNextResult, areaVars
<1>6. CASE todo # <<>>
  <2> PICK f : f = todo[1]
    OBVIOUS
  <2>1. /\ f \in Sized /\ Tail(todo) \in Seq(Sized) /\ Len(Tail(todo)) = Len(todo) - 1
        /\ \A i \in 1 .. Len(Tail(todo)) : Tail(todo)[i] = todo[i + 1]
        /\ Len(todo) \in Nat \ {0} /\ DOMAIN todo = 1 .. Len(todo)
        /\ DOMAIN Tail(todo) = 1 .. Len(Tail(todo))
    <3>1. Len(todo) \in Nat \ {0} /\ DOMAIN todo = 1 .. Len(todo)
      BY <1>1, <1>6, EmptySeq, LenProperties
    <3>2. 1 \in 1 .. Len(todo)
      BY <3>1
    <3>3. f \in Sized
      BY <1>1, <3>2, ElementOfSeq
    <3>4. /\ Tail(todo) \in Seq(Sized) /\ Len(Tail(todo)) = Len(todo) - 1
          /\ \A i \in 1 .. Len(Tail(todo)) : Tail(todo)[i] = todo[i + 1]
      BY <1>1, <1>6, HeadTailProperties
    <3>5. DOMAIN Tail(todo) = 1 .. Len(Tail(todo))
      BY <3>4, LenProperties
    <3> QED
      BY <3>1, <3>3, <3>4, <3>5
  <2>2. StageFile(a, f) /\ todo' = Tail(todo) /\ pc' = pc
    BY <1>6 DEF StageNext
  <2>3. AreasInv' /\ StageResult(a, f)
    BY <1>1, <2>1, <2>2, StageFileKeeps
  <2>4. Len(staged'[a]) <= Len(staged[a]) + 1 /\ Len(staged'[a]) \in Nat /\ Len(staged[a]) \in Nat
    <3>1. CASE staged'[a] = staged[a]
      BY <1>1, <3>1, LenProperties
    <3>2. ASSUME NEW r \in Record, staged'[a] = Append(staged[a], r)
          PROVE  Len(staged'[a]) = Len(staged[a]) + 1
      BY <1>1, <3>2, AppendProperties
    <3>3. Len(staged[a]) \in Nat
      BY <1>1, LenProperties
    <3> QED
      BY <2>3, <3>1, <3>2, <3>3 DEF StageResult
  <2>5. ASSUME faults' = 0, NoneMissed(a)
        PROVE  NoneMissed(a)'
    <3>1. faults' = faults
      BY <1>1, <2>5 DEF Counts
    <3>2. Settled(a, f)'
      BY <2>3, <3>1 DEF StageResult, SettledThen, Settled
    <3>3. ASSUME NEW i \in DOMAIN Registered(a)
          PROVE  \/ \E k \in DOMAIN todo' : todo'[k] = Registered(a)[i]
                 \/ Settled(a, Registered(a)[i])'
      <4> PICK g \in Sized : g = Registered(a)[i]
        BY <1>4
      <4>1. ASSUME Settled(a, g)
            PROVE  Settled(a, g)'
        BY <1>1, <2>1, <2>3, <4>1, StaysSettled
      <4>2. ASSUME NEW k \in DOMAIN todo, todo[k] = g
            PROVE  \/ \E m \in DOMAIN todo' : todo'[m] = g
                   \/ Settled(a, g)'
        <5>1. CASE k = 1
          BY <3>2, <4>2, <5>1
        <5>2. CASE k # 1
          <6>1. k - 1 \in DOMAIN Tail(todo) /\ Tail(todo)[k - 1] = todo[k]
            BY <2>1, <5>2
          <6> QED
            BY <2>2, <4>2, <6>1
        <5> QED
          BY <5>1, <5>2
      <4>3. \/ \E k \in DOMAIN todo : todo[k] = g
            \/ Settled(a, g)
        BY <2>5 DEF NoneMissed
      <4>4. (\E m \in DOMAIN todo' : todo'[m] = g) \/ Settled(a, g)'
        BY <4>1, <4>2, <4>3
      <4> QED
        BY <1>3, <4>4 DEF Settled
    <3> QED
      BY <1>3, <3>3 DEF NoneMissed
  <2> QED
    BY <1>2, <2>1, <2>2, <2>3, <2>4, <2>5 DEF StageNextResult, StageResult
<1> QED
  BY <1>5, <1>6

\* Nothing of the map, the ROM or the media changes in the steps that stage.
LEMMA StagesOfArea ==
  ASSUME StageInv, CoreInv', Counts, NEW a \in Area, NEW after, StageNext(a, after),
         UNCHANGED <<region, media, folder, drivers>>
  PROVE  /\ StageNextResult(a, after)
         /\ \A v : OnMap(v)' <=> OnMap(v)
         /\ \A b \in Area : Registered(b)' = Registered(b)
         /\ faults' = 0 => faults = 0
<1>1. StageNextResult(a, after)
  BY StageNextDoes
<1> QED
  BY <1>1 DEF OnMap, Registered, SystemFiles, Folder, StageInv, Counts

LEMMA StageSystem ==
  ASSUME StageInv, CoreInv', Counts, StageSystemFile
  PROVE  StageInv'
<1>1. /\ pc = "stage system"
      /\ UNCHANGED <<region, media, folder, drivers, magic, verdict, rom, mapTest>>
      /\ StageNext("system", "scan")
  BY DEF StageSystemFile, loadVars, romVars
<1>2. /\ StageNextResult("system", "scan")
      /\ \A v : OnMap(v)' <=> OnMap(v)
      /\ \A b \in Area : Registered(b)' = Registered(b)
      /\ faults' = 0 => faults = 0
  BY <1>1, StagesOfArea DEF Area
<1>3. /\ FolderInv' /\ AreasInv' /\ todo' \in Seq(Sized)
      /\ staged'["driver"] = staged["driver"] /\ cursor'["driver"] = cursor["driver"]
      /\ faults' = 0 /\ NoneMissed("system") => NoneMissed("system")'
      /\ pc' = "stage system" \/ (pc' = "scan" /\ todo' = <<>>)
  BY <1>1, <1>2 DEF StageNextResult, Area
<1>4. staged["driver"] = <<>> /\ OnMap(SystemWindow) /\ Found
  BY <1>1 DEF StageInv, OpenInv, StageSteps
<1>5. OpenInv'
  <2>1. \A a \in Area : staged'[a] # <<>> => OnMap(AreaWindow[a])'
    <3>1. AreaWindow["system"] = SystemWindow /\ OnMap(AreaWindow["system"])'
      BY <1>1, <1>4 DEF AreaWindow, OnMap
    <3> QED
      BY <1>3, <1>4, <3>1 DEF Area
  <2> QED
    BY <1>1, <1>2, <1>3, <1>4, <2>1 DEF OpenInv, Found, StageSteps
<1>6. CountInv'
  BY <1>1, <1>3, <1>4 DEF StageInv, CountInv
<1>7. MarkInv'
  BY <1>1, <1>2, <1>3 DEF StageInv, MarkInv, StageSteps, Found
<1>8. LeftInv'
  <2>1. faults' = 0 => NoneMissed("system")'
    BY <1>1, <1>2, <1>3 DEF StageInv, LeftInv
  <2>2. todo' = <<>> /\ NoneMissed("system")' => AllSettled("system")'
    BY DEF NoneMissed, AllSettled
  <2> QED
    BY <1>3, <2>1, <2>2 DEF LeftInv
<1>9. MapTestIsRight'
  BY <1>3 DEF MapTestIsRight
<1> QED
  BY <1>3, <1>5, <1>6, <1>7, <1>8, <1>9 DEF StageInv, Counts

LEMMA StageDrivers ==
  ASSUME StageInv, CoreInv', Counts, StageDriver
  PROVE  StageInv'
<1>1. /\ pc = "stage driver"
      /\ UNCHANGED <<region, media, folder, drivers, magic, verdict, rom, mapTest>>
      /\ StageNext("driver", "selftest")
  BY DEF StageDriver, loadVars, romVars
<1>2. /\ StageNextResult("driver", "selftest")
      /\ \A v : OnMap(v)' <=> OnMap(v)
      /\ \A b \in Area : Registered(b)' = Registered(b)
      /\ faults' = 0 => faults = 0
  BY <1>1, StagesOfArea DEF Area
<1>3. /\ FolderInv' /\ AreasInv' /\ todo' \in Seq(Sized)
      /\ staged'["system"] = staged["system"] /\ cursor'["system"] = cursor["system"]
      /\ Len(staged'["driver"]) + Len(todo') <= Len(staged["driver"]) + Len(todo)
      /\ faults' = 0 /\ NoneMissed("driver") => NoneMissed("driver")'
      /\ pc' = "stage driver" \/ (pc' = "selftest" /\ todo' = <<>>)
  BY <1>1, <1>2 DEF StageNextResult, Area
<1>4. OnMap(DriverWindow) /\ Found
  BY <1>1 DEF StageInv, OpenInv, StageSteps
<1>5. OpenInv'
  <2>1. staged["system"] # <<>> => OnMap(AreaWindow["system"])
    BY DEF StageInv, OpenInv, Area
  <2>2. \A a \in Area : staged'[a] # <<>> => OnMap(AreaWindow[a])'
    <3>1. AreaWindow["driver"] = DriverWindow /\ OnMap(AreaWindow["driver"])'
      BY <1>1, <1>4 DEF AreaWindow, OnMap
    <3>2. staged'["system"] # <<>> => OnMap(AreaWindow["system"])'
      BY <1>1, <1>3, <2>1 DEF OnMap
    <3> QED
      BY <3>1, <3>2 DEF Area
  <2> QED
    BY <1>1, <1>2, <1>3, <1>4, <2>2 DEF OpenInv, Found, StageSteps
<1>6. CountInv'
  <2>1. Len(staged'["driver"]) \in Nat /\ Len(todo') \in Nat /\ Len(drivers) \in Nat
    <3>1. staged'["driver"] \in Seq(Record)
      BY <1>3 DEF AreasInv, AreaInv, Area
    <3>2. drivers \in Seq(File)
      BY DEF StageInv, CountInv
    <3> QED
      BY <1>3, <3>1, <3>2, LenProperties
  <2>2. Len(staged["driver"]) + Len(todo) <= Len(drivers) /\ drivers \in Seq(File)
    BY <1>1 DEF StageInv, CountInv
  <2>3. Len(staged["driver"]) \in Nat /\ Len(todo) \in Nat
    <3>1. staged["driver"] \in Seq(Record) /\ todo \in Seq(Sized)
      BY DEF StageInv, CountInv, AreasInv, AreaInv, Area
    <3> QED
      BY <3>1, LenProperties
  <2>4. Len(staged'["driver"]) + Len(todo') <= Len(drivers)
    <3>1. Len(staged'["driver"]) + Len(todo') <= Len(staged["driver"]) + Len(todo)
      BY <1>3
    <3>2. \A i, j, k, l, m \in Nat : i + j <= k + l /\ k + l <= m => i + j <= m
      OBVIOUS
    <3> QED
      BY <2>1, <2>2, <2>3, <3>1, <3>2
  <2>5. Len(staged'["driver"]) <= Len(drivers)
    BY <2>1, <2>4
  <2> QED
    BY <1>1, <1>3, <2>2, <2>4, <2>5 DEF CountInv
<1>7. MarkInv'
  BY <1>1, <1>2, <1>3 DEF StageInv, MarkInv, StageSteps, Found
<1>8. LeftInv'
  <2>1. faults' = 0 => NoneMissed("driver")'
    BY <1>1, <1>2, <1>3 DEF StageInv, LeftInv
  <2>2. todo' = <<>> /\ NoneMissed("driver")' => AllSettled("driver")'
    BY DEF NoneMissed, AllSettled
  <2>3. AllSettled("system") => AllSettled("system")'
    BY <1>2, <1>3 DEF AllSettled, Settled, Area
  <2>4. faults' = 0 => AllSettled("system")'
    BY <1>1, <1>2, <1>4, <2>3 DEF StageInv, LeftInv
  <2> QED
    BY <1>3, <2>1, <2>2, <2>4 DEF LeftInv
<1>9. MapTestIsRight'
  BY <1>3 DEF MapTestIsRight
<1> QED
  BY <1>3, <1>5, <1>6, <1>7, <1>8, <1>9 DEF StageInv, Counts

\* What an area's opening leaves and what it brings.
LEMMA OpenDoes ==
  ASSUME StageInv, Counts, NEW a \in Area, NEW files, NEW after, OpenArea(a, files, after)
  PROVE  /\ \A v : OnMap(v) => OnMap(v)'
         /\ \A v : OnMap(v)' => OnMap(v) \/ v = AreaWindow[a]
         /\ pc' = IF OnMap(AreaWindow[a])' THEN (IF a = "system" THEN "stage system" ELSE "stage driver")
                  ELSE after
         /\ todo' = IF OnMap(AreaWindow[a])' THEN files ELSE todo
         /\ faults' = 0 => faults = 0
<1>1. Askable(AreaWindow[a])
  BY OrdinaryWindows DEF Area, AreaWindow
<1>2. UNCHANGED region \/ InstallPages(AreaWindow[a])
  BY DEF OpenArea, Ensured, mapVars
<1>3. Sound(region)
  BY DEF StageInv, CoreInv, RomInv
<1>4. \A v : /\ OnMap(v) => OnMap(v)'
             /\ OnMap(v)' => OnMap(v) \/ v = AreaWindow[a]
  BY <1>1, <1>2, <1>3, PagesKeep
<1>5. OnMap(AreaWindow[a])' <=> \E i \in DOMAIN region' : region'[i] = AreaWindow[a]
  BY DEF OnMap
<1> DEFINE open == \E i \in DOMAIN region' : region'[i] = AreaWindow[a]
<1>6. /\ pc' = IF open THEN (IF a = "system" THEN "stage system" ELSE "stage driver") ELSE after
      /\ todo' = IF open THEN files ELSE todo
  BY DEF OpenArea
<1>7. faults' = 0 => faults = 0
  BY DEF StageInv, Counts
<1> QED
  BY <1>4, <1>5, <1>6, <1>7

LEMMA WindowsDiffer ==
  /\ LowWindow # SystemWindow /\ LowWindow # DriverWindow /\ SystemWindow # DriverWindow
<1>1. LowWindow.base = 0 /\ SystemWindow.base = 512 /\ DriverWindow.base = 528
  BY DEF LowWindow, SystemWindow, DriverWindow, Region
<1> QED
  BY <1>1

\* Nothing is on record and the folder is known when the first area is opened.
LEMMA OpenSystem ==
  ASSUME StageInv, CoreInv', Counts, LoadSystemFiles
  PROVE  StageInv'
<1>1. /\ pc = "files" /\ magic' = OnMap(LowWindow)
      /\ UNCHANGED <<media, folder, drivers, cell, cursor, staged, verdict>>
      /\ OpenArea("system", SystemFiles, "scan")
  BY DEF LoadSystemFiles, areaVars
<1>2. AreaWindow["system"] = SystemWindow /\ AreaWindow["driver"] = DriverWindow
  BY DEF AreaWindow
<1>3. /\ OnMap(LowWindow) => OnMap(LowWindow)'
      /\ OnMap(LowWindow)' => OnMap(LowWindow)
      /\ pc' = IF OnMap(SystemWindow)' THEN "stage system" ELSE "scan"
      /\ todo' = IF OnMap(SystemWindow)' THEN SystemFiles ELSE todo
  BY <1>1, <1>2, OpenDoes, WindowsDiffer DEF Area
<1>4. staged["system"] = <<>> /\ staged["driver"] = <<>> /\ Found
  BY <1>1 DEF StageInv, OpenInv, StageSteps
<1>5. FolderInv' /\ AreasInv'
  BY <1>1 DEF StageInv, FolderInv, Shown, FolderOf, AreasInv, AreaInv, Intact
<1>6. OpenInv'
  <2>1. \A a \in Area : staged'[a] = <<>>
    BY <1>1, <1>4 DEF Area
  <2> QED
    BY <1>1, <1>3, <1>4, <2>1 DEF OpenInv, Found, StageSteps
<1>7. CountInv'
  BY <1>1, <1>3, <1>4, SystemFilesType DEF StageInv, CountInv
<1>8. MarkInv'
  <2>1. magic' <=> OnMap(LowWindow)'
    BY <1>1, <1>3
  <2> QED
    BY <1>3, <2>1 DEF MarkInv
<1>9. LeftInv'
  <2>1. SystemFiles' = SystemFiles
    BY <1>1 DEF SystemFiles, Folder
  <2>2. CASE OnMap(SystemWindow)'
    <3>1. pc' = "stage system" /\ todo' = Registered("system")'
      BY <1>3, <2>1, <2>2 DEF Registered
    <3>2. NoneMissed("system")'
      BY <3>1 DEF NoneMissed
    <3> QED
      BY <3>1, <3>2 DEF LeftInv
  <2>3. CASE ~OnMap(SystemWindow)'
    <3>1. AllSettled("system")'
      BY <1>2, <2>3 DEF AllSettled
    <3> QED
      BY <1>3, <2>3, <3>1 DEF LeftInv
  <2> QED
    BY <2>2, <2>3
<1>10. MapTestIsRight'
  BY <1>3 DEF MapTestIsRight
<1> QED
  BY <1>5, <1>6, <1>7, <1>8, <1>9, <1>10 DEF StageInv, Counts

LEMMA EnumerateDrivers ==
  ASSUME StageInv, CoreInv', Counts, ScanExtensions
  PROVE  StageInv'
<1>1. /\ pc = "scan" /\ pc' = "drivers"
      /\ UNCHANGED <<region, media, folder, todo, cell, cursor, staged, magic, verdict>>
  BY DEF ScanExtensions, loadVars, areaVars
<1>2. staged["driver"] = <<>> /\ Found
  BY <1>1 DEF StageInv, OpenInv, StageSteps
<1>3. FolderInv' /\ AreasInv'
  BY <1>1 DEF StageInv, FolderInv, Shown, FolderOf, AreasInv, AreaInv, Intact
<1>4. drivers' \in Seq(File)
  <2>1. Folder \in SystemFolder
    BY <1>2 DEF StageInv, FolderInv, Shown, FolderOf, Folder, Found
  <2>2. CASE UNCHANGED drivers
    BY <2>2 DEF StageInv, CountInv
  <2>3. CASE /\ Folder.extensions # None
             /\ \/ drivers' = DiscDrivers(Folder.extensions)
                \/ \E n \in 0 .. Len(Folder.extensions) : drivers' = EspDrivers(Folder.extensions, n)
    <3>1. Folder.extensions \in Seq(File)
      BY <2>1, <2>3 DEF SystemFolder
    <3>2. \A n \in 0 .. Len(Folder.extensions) : n \in Nat
      BY <3>1, LenProperties
    <3> QED
      BY <2>3, <3>1, <3>2, DriversType
  <2> QED
    BY <2>2, <2>3 DEF ScanExtensions
<1>5. OpenInv'
  BY <1>1, <1>2 DEF StageInv, OpenInv, Found, StageSteps, OnMap
<1>6. CountInv'
  <2>1. Len(drivers') \in Nat
    BY <1>4, LenProperties
  <2> QED
    BY <1>1, <1>2, <1>4, <2>1 DEF StageInv, CountInv
<1>7. MarkInv'
  BY <1>1 DEF StageInv, MarkInv, StageSteps, Found, OnMap
<1>8. LeftInv'
  <2>1. faults' = 0 => AllSettled("system")
    BY <1>1, <1>2 DEF StageInv, LeftInv, Counts
  <2>2. AllSettled("system") => AllSettled("system")'
    BY <1>1 DEF AllSettled, Settled, OnMap, Registered, SystemFiles, Folder
  <2> QED
    BY <1>1, <2>1, <2>2 DEF LeftInv
<1>9. MapTestIsRight'
  BY <1>1 DEF MapTestIsRight
<1> QED
  BY <1>3, <1>5, <1>6, <1>7, <1>8, <1>9 DEF StageInv, Counts

LEMMA OpenDrivers ==
  ASSUME StageInv, CoreInv', Counts, LoadDrivers
  PROVE  StageInv'
<1>1. /\ pc = "drivers"
      /\ UNCHANGED <<media, folder, drivers, cell, cursor, staged, magic, verdict>>
  BY DEF LoadDrivers, loadVars, areaVars
<1>2. AreaWindow["system"] = SystemWindow /\ AreaWindow["driver"] = DriverWindow
  BY DEF AreaWindow
<1>3. /\ OnMap(LowWindow) <=> OnMap(LowWindow)'
      /\ OnMap(SystemWindow) <=> OnMap(SystemWindow)'
      /\ \/ pc' = "selftest" /\ drivers = <<>> /\ UNCHANGED todo
         \/ pc' = "selftest" /\ ~OnMap(DriverWindow)' /\ UNCHANGED todo
         \/ pc' = "stage driver" /\ OnMap(DriverWindow)' /\ todo' = drivers
  <2>1. CASE drivers = <<>>
    <3>1. pc' = "selftest" /\ UNCHANGED <<region, todo>>
      BY <2>1 DEF LoadDrivers, mapVars
    <3> QED
      BY <2>1, <3>1 DEF OnMap
  <2>2. CASE drivers # <<>>
    <3>1. OpenArea("driver", drivers, "selftest")
      BY <2>2 DEF LoadDrivers
    <3>2. /\ OnMap(LowWindow) => OnMap(LowWindow)'
          /\ OnMap(LowWindow)' => OnMap(LowWindow)
          /\ OnMap(SystemWindow) => OnMap(SystemWindow)'
          /\ OnMap(SystemWindow)' => OnMap(SystemWindow)
          /\ pc' = IF OnMap(DriverWindow)' THEN "stage driver" ELSE "selftest"
          /\ todo' = IF OnMap(DriverWindow)' THEN drivers ELSE todo
      BY <1>2, <3>1, OpenDoes, WindowsDiffer DEF Area
    <3> QED
      BY <3>2
  <2> QED
    BY <2>1, <2>2
<1>4. staged["driver"] = <<>> /\ Found /\ (staged["system"] # <<>> => OnMap(SystemWindow))
  BY <1>1, <1>2 DEF StageInv, OpenInv, StageSteps, Area
<1>5. FolderInv' /\ AreasInv'
  BY <1>1 DEF StageInv, FolderInv, Shown, FolderOf, AreasInv, AreaInv, Intact
<1>6. OpenInv'
  <2>1. \A a \in Area : staged'[a] # <<>> => OnMap(AreaWindow[a])'
    <3>1. staged'["system"] # <<>> => OnMap(AreaWindow["system"])'
      BY <1>1, <1>2, <1>3, <1>4
    <3>2. staged'["driver"] = <<>>
      BY <1>1, <1>4
    <3> QED
      BY <3>1, <3>2 DEF Area
  <2> QED
    BY <1>1, <1>3, <1>4, <2>1 DEF OpenInv, Found, StageSteps
<1>7. CountInv'
  <2>1. drivers \in Seq(File) /\ drivers \in Seq(Sized) /\ todo \in Seq(Sized)
    BY SeqMonotonic DEF StageInv, CountInv, Sized
  <2>2. Len(drivers) \in Nat /\ Len(<<>>) = 0
    BY <2>1, LenProperties
  <2>3. todo' \in Seq(Sized) /\ (pc' = "stage driver" => todo' = drivers)
    BY <1>3, <2>1
  <2>4. Len(staged'["driver"]) = 0
    BY <1>1, <1>4, <2>2
  <2>5. /\ Len(staged'["driver"]) <= Len(drivers)
        /\ pc' = "stage driver" => Len(staged'["driver"]) + Len(todo') <= Len(drivers)
    <3>1. pc' = "stage driver" => Len(todo') = Len(drivers)
      BY <2>3
    <3>2. \A m, n \in Nat : m = 0 => m <= n /\ m + n <= n
      OBVIOUS
    <3> QED
      BY <2>2, <2>4, <3>1, <3>2
  <2> QED
    BY <1>1, <2>1, <2>3, <2>5 DEF CountInv
<1>8. MarkInv'
  BY <1>1, <1>3 DEF StageInv, MarkInv, StageSteps, Found
<1>9. LeftInv'
  <2>1. faults' = 0 => AllSettled("system")
    BY <1>1, <1>4 DEF StageInv, LeftInv, Counts
  <2>2. AllSettled("system") => AllSettled("system")'
    <3>1. OnMap(AreaWindow["system"]) <=> OnMap(AreaWindow["system"])'
      BY <1>2, <1>3
    <3>2. Registered("system")' = Registered("system")
      BY <1>1 DEF Registered, SystemFiles, Folder
    <3>3. \A f : Settled("system", f)' <=> Settled("system", f)
      BY <1>1 DEF Settled
    <3> QED
      BY <3>1, <3>2, <3>3 DEF AllSettled
  <2>3. drivers = <<>> => AllSettled("driver")'
    BY <1>1 DEF AllSettled, Registered
  <2>4. ~OnMap(DriverWindow)' => AllSettled("driver")'
    BY <1>2 DEF AllSettled
  <2>5. todo' = drivers => NoneMissed("driver")'
    BY <1>1 DEF NoneMissed, Registered
  <2> QED
    BY <1>3, <2>1, <2>2, <2>3, <2>4, <2>5 DEF LeftInv
<1>10. MapTestIsRight'
  BY <1>3 DEF MapTestIsRight
<1> QED
  BY <1>5, <1>6, <1>7, <1>8, <1>9, <1>10 DEF StageInv, Counts

\* What is settled or missed depends on the folder, the records, the cursors
\* and the map.
LEMMA SettledSame ==
  ASSUME UNCHANGED <<region, media, folder, drivers, todo, cursor, staged>>
  PROVE  \A a \in Area : /\ AllSettled(a) => AllSettled(a)'
                         /\ NoneMissed(a) => NoneMissed(a)'
<1> TAKE a \in Area
<1>1. OnMap(AreaWindow[a])' <=> OnMap(AreaWindow[a])
  BY DEF OnMap
<1>2. Registered(a)' = Registered(a)
  BY DEF Registered, SystemFiles, Folder
<1>3. \A f : Settled(a, f)' <=> Settled(a, f)
  BY DEF Settled
<1>4. AllSettled(a) => AllSettled(a)'
  BY <1>1, <1>2, <1>3 DEF AllSettled
<1>5. NoneMissed(a) => NoneMissed(a)'
  BY <1>1, <1>2, <1>3 DEF NoneMissed
<1> QED
  BY <1>4, <1>5

LEMMA TestFiles ==
  ASSUME StageInv, CoreInv', Counts, RunSystemFilesSelfTest
  PROVE  StageInv'
<1>1. /\ pc = "selftest" /\ pc' = "done"
      /\ UNCHANGED <<region, media, folder, drivers, todo, cell, cursor, staged, magic, faults>>
  BY DEF RunSystemFilesSelfTest, loadVars, areaVars, mapVars
<1>2. FolderInv' /\ AreasInv'
  BY <1>1 DEF StageInv, FolderInv, Shown, FolderOf, AreasInv, AreaInv, Intact
<1>3. OpenInv' /\ CountInv'
  BY <1>1 DEF StageInv, OpenInv, CountInv, Found, StageSteps, OnMap
<1>4. MarkInv'
  <2>1. ASSUME Found, OnMap(LowWindow)
        PROVE  verdict' = "pass"
    <3>1. folder.scanned
      BY <2>1 DEF StageInv, FolderInv, Shown, Found
    <3>2. \A a \in Area : ReadsBack(a)
      <4>1. SUFFICES ASSUME NEW a \in Area, NEW i \in DOMAIN staged[a]
                     PROVE  OnMap(AreaWindow[a])
        BY DEF ReadsBack
      <4>2. staged[a] # <<>>
        OBVIOUS
      <4> QED
        BY <4>2 DEF StageInv, OpenInv
    <3>3. Len(staged["driver"]) <= Len(drivers) /\ magic
      BY <1>1, <2>1 DEF StageInv, CountInv, MarkInv, StageSteps
    <3> QED
      BY <3>1, <3>2, <3>3 DEF RunSystemFilesSelfTest
  <2> QED
    BY <1>1, <2>1 DEF StageInv, MarkInv, StageSteps, Found, OnMap
<1>5. LeftInv'
  <2>1. \A a \in Area : AllSettled(a) => AllSettled(a)'
    BY <1>1, SettledSame
  <2>2. AllSettled("system") => AllSettled("system")'
    BY <2>1 DEF Area
  <2>3. AllSettled("driver") => AllSettled("driver")'
    BY <2>1 DEF Area
  <2> QED
    BY <1>1, <2>2, <2>3 DEF StageInv, LeftInv, Found
<1>6. MapTestIsRight'
  BY <1>1 DEF MapTestIsRight
<1> QED
  BY <1>2, <1>3, <1>4, <1>5, <1>6 DEF StageInv, Counts

LEMMA StageInit ==
  ASSUME Init
  PROVE  StageInv
<1>1. CoreInv
  BY CoreInit
<1>2. /\ pc = "low" /\ faults = 0 /\ folder = NoFolder /\ drivers = <<>> /\ todo = <<>>
      /\ cell = [a \in Area |-> [i \in 0 .. AreaWindow[a].size - 1 |-> None]]
      /\ cursor = [a \in Area |-> 0]
      /\ staged = [a \in Area |-> <<>>]
  BY DEF Init, MapInit, RomInit, StagingInit
<1>3. FolderInv
  BY <1>2 DEF FolderInv, Shown, NoFolder, FolderRecord
<1>4. AreasInv
  <2>1. ASSUME NEW a \in Area
        PROVE  AreaInv(a)
    <3>1. staged[a] = <<>> /\ cursor[a] = 0 /\ DOMAIN cell[a] = 0 .. AreaWindow[a].size - 1
      BY <1>2
    <3>2. <<>> \in Seq(Record) /\ DOMAIN <<>> = {}
      OBVIOUS
    <3>3. AreaWindow[a].size \in Nat
      BY SizedHasSize
    <3> QED
      BY <3>1, <3>2, <3>3 DEF AreaInv
  <2> QED
    BY <1>2, <2>1 DEF AreasInv
<1>5. OpenInv
  BY <1>2 DEF OpenInv, Area, StageSteps
<1>6. CountInv
  BY <1>2 DEF CountInv, Area
<1>7. MarkInv /\ LeftInv /\ MapTestIsRight
  BY <1>2 DEF MarkInv, LeftInv, MapTestIsRight, StageSteps
<1> QED
  BY <1>1, <1>2, <1>3, <1>4, <1>5, <1>6, <1>7 DEF StageInv

LEMMA StageSame ==
  ASSUME StageInv, CoreInv', Counts, UNCHANGED vars
  PROVE  StageInv'
<1>1. UNCHANGED <<pc, region, faults, media, rom, mapTest, magic, folder, drivers, todo, cell,
                  cursor, staged, verdict>>
  BY DEF vars, mapVars, loadVars, romVars, stageVars, areaVars
<1>2. FolderInv' /\ AreasInv'
  BY <1>1 DEF StageInv, FolderInv, Shown, FolderOf, AreasInv, AreaInv, Intact
<1>3. OpenInv' /\ CountInv' /\ MarkInv' /\ MapTestIsRight'
  <2>1. UNCHANGED <<mounted, file, dest>>
    BY DEF vars, loadVars, imageVars, lzssVars
  <2> QED
    BY <1>1, <2>1 DEF StageInv, OpenInv, CountInv, MarkInv, MapTestIsRight, Recognised, EntryWord,
                      Found, OnMap
<1>4. \A a \in Area : /\ AllSettled(a) => AllSettled(a)'
                      /\ NoneMissed(a) => NoneMissed(a)'
  BY <1>1, SettledSame
<1>5. LeftInv'
  <2>1. /\ AllSettled("system") => AllSettled("system")'
        /\ NoneMissed("system") => NoneMissed("system")'
    BY <1>4 DEF Area
  <2>2. /\ AllSettled("driver") => AllSettled("driver")'
        /\ NoneMissed("driver") => NoneMissed("driver")'
    BY <1>4 DEF Area
  <2> QED
    BY <1>1, <2>1, <2>2 DEF StageInv, LeftInv, Found
<1> QED
  BY <1>2, <1>3, <1>5 DEF StageInv, Counts

LEMMA StageNextStep ==
  ASSUME StageInv, [Next]_vars
  PROVE  StageInv'
<1>1. CoreInv'
  BY CoreNext DEF StageInv
<1>2. Counts
  BY FaultsCount DEF StageInv
<1>3. ASSUME pc \notin StageSteps, pc' \notin StageSteps \cup {"prepare"},
             UNCHANGED <<stageVars, media>>
      PROVE  StageInv'
  BY <1>1, <1>2, <1>3, EarlyStage DEF MapTestIsRight, Counts
<1>4. CASE MapStep /\ UNCHANGED <<imageVars, stageVars>>
  <2>1. CASE RunBootSelfTest
    <3>1. MapTestIsRight'
      BY <1>4, <2>1, MapTestStep DEF StageInv
    <3>2. pc = "maptest" /\ pc' = "prepare" /\ UNCHANGED media
      BY <2>1 DEF RunBootSelfTest
    <3> QED
      BY <1>1, <1>2, <1>4, <3>1, <3>2, EarlyStage DEF Counts, StageSteps
  <2>2. CASE InstallLowMemory
    BY <1>3, <1>4, <2>2 DEF InstallLowMemory, loadVars, StageSteps
  <2>3. CASE LoadRom
    <3>1. pc = "load" /\ UNCHANGED media
      BY <2>3 DEF LoadRom
    <3>2. pc' \in {"load", "identify", "maptest"}
      BY <2>3 DEF LoadRom, Loaded, NotLoaded, Return
    <3> QED
      BY <1>3, <1>4, <3>1, <3>2 DEF StageSteps
  <2>4. CASE MapRom
    <3>1. pc = "map" /\ pc' \in {"load", "alias", "maptest"} /\ UNCHANGED media
      BY <2>4 DEF MapRom, Return
    <3> QED
      BY <1>3, <1>4, <3>1 DEF StageSteps
  <2>5. CASE InstallAliases
    <3>1. pc = "alias" /\ pc' \in {"load", "maptest"} /\ UNCHANGED media
      BY <2>5 DEF InstallAliases, Return
    <3> QED
      BY <1>3, <1>4, <3>1 DEF StageSteps
  <2>6. CASE PrepareLowMemory
    BY <1>3, <1>4, <2>6 DEF PrepareLowMemory, loadVars, StageSteps
  <2>7. CASE PrepareKernelArea
    BY <1>3, <1>4, <2>7 DEF PrepareKernelArea, loadVars, StageSteps
  <2>8. CASE StageOsRuntime
    BY <1>3, <1>4, <2>8 DEF StageOsRuntime, StageSteps
  <2> QED
    BY <1>4, <2>1, <2>2, <2>3, <2>4, <2>5, <2>6, <2>7, <2>8 DEF MapStep
<1>5. CASE (IdentifyRom \/ ExpandRom \/ DecodeRom) /\ UNCHANGED stageVars
  <2>1. UNCHANGED media
    BY <1>5 DEF IdentifyRom, ExpandRom, DecodeRom, loadVars
  <2>2. pc \in {"identify", "decode"} /\ pc' \in {"decode", "map"}
    BY <1>5 DEF IdentifyRom, ExpandRom, DecodeRom
  <2> QED
    BY <1>3, <1>5, <2>1, <2>2 DEF StageSteps
<1>6. CASE GuestRuns
  BY <1>3, <1>6 DEF GuestRuns, StageSteps
<1>7. CASE LocateSystemFolder
  <2>1. MapTestIsRight'
    BY <1>7 DEF LocateSystemFolder, MapTestIsRight
  <2> QED
    BY <1>1, <1>2, <1>7, <2>1, LocateStage DEF StageInv, Counts
<1>8. CASE LoadSystemFiles
  BY <1>1, <1>2, <1>8, OpenSystem
<1>9. CASE StageSystemFile
  BY <1>1, <1>2, <1>9, StageSystem
<1>10. CASE ScanExtensions
  BY <1>1, <1>2, <1>10, EnumerateDrivers
<1>11. CASE LoadDrivers
  BY <1>1, <1>2, <1>11, OpenDrivers
<1>12. CASE StageDriver
  BY <1>1, <1>2, <1>12, StageDrivers
<1>13. CASE RunSystemFilesSelfTest
  BY <1>1, <1>2, <1>13, TestFiles
<1>14. CASE UNCHANGED vars
  BY <1>1, <1>2, <1>14, StageSame
<1> QED
  BY <1>4, <1>5, <1>6, <1>7, <1>8, <1>9, <1>10, <1>11, <1>12, <1>13, <1>14
     DEF Next, StagingStep, Returned

\* So do the files on record, the bytes and the cursors of the two areas, and
\* the answers of the self-tests (the invariant StageInv).
THEOREM StageIsInvariant == Spec => []StageInv
  BY StageInit, StageNextStep, PTL DEF Spec

\* As long as no call went wrong every file on record came whole.
CameInv ==
  faults = 0 => \A a \in Area : \A i \in DOMAIN staged[a] : staged[a][i].got = staged[a][i].size

LEMMA CameStep ==
  ASSUME StageInv, CameInv, [Next]_vars
  PROVE  CameInv'
<1>1. Counts /\ faults \in Nat
  BY FaultsCount DEF StageInv
<1>2. SUFFICES ASSUME faults' = 0
               PROVE  \A a \in Area : \A i \in DOMAIN staged'[a] :
                        staged'[a][i].got = staged'[a][i].size
  BY DEF CameInv
<1>3. faults = 0
  BY <1>1, <1>2 DEF Counts
<1>4. CASE staged' = staged
  BY <1>3, <1>4 DEF CameInv
<1>5. ASSUME NEW a \in Area, NEW f, StageFile(a, f), staged' # staged
      PROVE  \A b \in Area : \A i \in DOMAIN staged'[b] : staged'[b][i].got = staged'[b][i].size
  <2> DEFINE r == [on |-> folder.on, name |-> f.name, size |-> f.size, at |-> cursor[a],
                   got |-> f.size]
  <2>1. Kept(a, f, f.size)
    BY <1>2, <1>3, <1>5 DEF StageFile, NotStaged, StagingFails, ComesShort, Fails, areaVars
  <2>2. staged' = [staged EXCEPT ![a] = Append(staged[a], r)]
    BY <2>1 DEF Kept
  <2>3. r.got = r.size
    OBVIOUS
  <2>4. DOMAIN staged = Area /\ staged[a] \in Seq(Record)
    BY DEF StageInv, AreasInv, AreaInv
  <2> HIDE DEF r
  <2>5. staged[a] \in Seq(Record \cup {r})
    BY <2>4, SeqMonotonic
  <2>6. /\ DOMAIN Append(staged[a], r) = DOMAIN staged[a] \cup {Len(staged[a]) + 1}
        /\ \A i \in DOMAIN staged[a] : Append(staged[a], r)[i] = staged[a][i]
        /\ Append(staged[a], r)[Len(staged[a]) + 1] = r
    BY <2>5, AppendPlaces
  <2>7. /\ staged'[a] = Append(staged[a], r)
        /\ \A b \in Area \ {a} : staged'[b] = staged[b]
    BY <2>2, <2>4
  <2>8. \A i \in DOMAIN staged'[a] : staged'[a][i].got = staged'[a][i].size
    BY <1>3, <2>3, <2>6, <2>7 DEF CameInv
  <2> QED
    BY <1>3, <2>7, <2>8 DEF CameInv
<1>6. CASE StageSystemFile \/ StageDriver
  <2>1. UNCHANGED staged \/ \E a \in Area : \E f : StageFile(a, f)
    BY <1>6 DEF StageSystemFile, StageDriver, StageNext, areaVars, Area
  <2> QED
    BY <1>4, <1>5, <2>1
<1>7. CASE UNCHANGED stageVars \/ UNCHANGED vars
  BY <1>4, <1>7 DEF vars, stageVars, areaVars
<1>8. CASE /\ StagingStep
           /\ ~(StageSystemFile \/ StageDriver)
  BY <1>4, <1>8 DEF StagingStep, GuestRuns, LocateSystemFolder, LoadSystemFiles, ScanExtensions,
                    LoadDrivers, RunSystemFilesSelfTest, stageVars, areaVars
<1> QED
  BY <1>6, <1>7, <1>8 DEF Next, Returned

LEMMA ExactFollows ==
  ASSUME StageInv, CameInv
  PROVE  StagedIsExact
<1>1. SUFFICES ASSUME NEW a \in Area, NEW i \in DOMAIN staged[a]
               PROVE  /\ OnMap(AreaWindow[a])
                      /\ Intact(a, i)
                      /\ faults = 0 => staged[a][i].got = staged[a][i].size
  BY DEF StagedIsExact, Intact, CameWith
<1>2. AreaInv(a)
  BY DEF StageInv, AreasInv
<1>3. staged[a] # <<>>
  OBVIOUS
<1> QED
  BY <1>2, <1>3 DEF StageInv, OpenInv, AreaInv, CameInv

LEMMA NothingLeftFollows ==
  ASSUME StageInv
  PROVE  NothingIsLeftOut
<1>1. SUFFICES ASSUME pc = "done", faults = 0, Found, NEW a \in Area, OnMap(AreaWindow[a]),
                      NEW f \in ToSet(Registered(a))
               PROVE  Settled(a, f)
  BY DEF NothingIsLeftOut, Settled
<1>2. AllSettled(a)
  BY <1>1 DEF StageInv, LeftInv, Area
<1>3. PICK i \in DOMAIN Registered(a) : f = Registered(a)[i]
  BY DEF ToSet
<1> QED
  BY <1>1, <1>2, <1>3 DEF AllSettled

LEMMA TestsFollow ==
  ASSUME StageInv
  PROVE  SelfTestsAreRight
  BY DEF StageInv, MarkInv, MapTestIsRight, SelfTestsAreRight

\* What is on record as staged is in guest memory in a place of its own: a file
\* of the disc to the last byte, one of the boot volume as far as the volume gave
\* its bytes, which is whole as long as no call goes wrong (BootStageFile,
\* BootStageHfsFile).
THEOREM StagedFilesAreExact == Spec => []StagedIsExact
<1>1. Init => CameInv
  BY DEF Init, StagingInit, CameInv
<1>2. StageInv /\ CameInv /\ [Next]_vars => CameInv'
  BY CameStep
<1> QED
  BY <1>1, <1>2, StageIsInvariant, ExactFollows, PTL DEF Spec

\* As long as no firmware call fails, no file that fits is left out
\* (PpcLoadSystemFiles, PpcLoadDrivers).
THEOREM NoFileIsLeftOut == Spec => []NothingIsLeftOut
  BY StageIsInvariant, NothingLeftFollows, PTL

\* The self-test of the map passes when low memory and a recognised ROM are
\* there and a mounted disc is the boot drive's, and not otherwise, unless that
\* disc could not be read; that of the staged files passes when a folder was staged
\* from and low memory is there (PpcRunBootSelfTest, PpcRunSystemFilesSelfTest).
THEOREM BothTestsAreRight == Spec => []SelfTestsAreRight
  BY StageIsInvariant, TestsFollow, PTL

-----------------------------------------------------------------------------
(***************************************************************************)
(* The decoder, for every size of the bytes, of the dictionary and of the  *)
(* image, and every file.                                                  *)
(***************************************************************************)
Places == 0 .. DictSize - 1

\* What a step of the decoder relies on: places lie in the ring, and what is
\* left of the input is bytes.
LzssInv ==
  /\ src \in Seq(Byte)
  /\ dict \in [Places -> Byte]
  /\ idx \in Places
  /\ run \in [start : Places, left : Nat]
  /\ dest \in Seq(Byte)

ImageInv ==
  /\ LzssInv
  /\ offset \in Nat
  /\ step # "start" => file \in Images

\* What is expanded is one of the files.
BootInv ==
  /\ ImageInv
  /\ media \in Media
  /\ pc = "identify" => buf.image \in Images

\* A remainder is a place of the ring (bootloader_impl.c:1202, the & 0xFFF).
LEMMA Remainder ==
  ASSUME NEW x \in Int, NEW m \in Nat \ {0}
  PROVE  x % m \in 0 .. m - 1
  BY SMT

\* The place behind a place is one of the ring's (bootloader_impl.c:1192).
LEMMA FollowsIsPlace ==
  ASSUME NEW i \in Places
  PROVE  Follows(i) \in Places
  BY LzssAssumption DEF Follows, Places

\* Between 1 and DictSize bytes ago a place was written.
LEMMA BackIsReach ==
  ASSUME LzssInv, NEW i \in Places
  PROVE  /\ Back(i) \in 1 .. DictSize
         /\ Ago(Back(i)) = dict[i]
  BY LzssAssumption DEF LzssInv, Back, Ago, Places

\* A copy that follows the ring keeps its distance, also when either place
\* goes past the end.
LEMMA BackIsKept ==
  ASSUME LzssInv, NEW i \in Places, idx' = Follows(idx)
  PROVE  Back(Follows(i))' = Back(i)
  BY LzssAssumption DEF LzssInv, Back, Follows, Places

\* A byte that is put into the ring becomes the last one of the text.
LEMMA EmitWrites ==
  ASSUME LzssInv, NEW c \in Byte, Emit(c)
  PROVE  Window!Write(c)
<1>1. idx \in Places /\ idx' = Follows(idx) /\ dict' = [dict EXCEPT ![idx] = c]
  BY DEF LzssInv, Emit
<1>2. ASSUME NEW d \in 1 .. DictSize
      PROVE  Ago(d)' = IF d = 1 THEN c ELSE Ago(d - 1)
  <2>1. CASE d = 1
    BY <1>1, <2>1, LzssAssumption DEF LzssInv, Ago, Follows, Places
  <2>2. CASE d # 1
    BY <1>1, <2>2, LzssAssumption DEF LzssInv, Ago, Follows, Places
  <2> QED
    BY <2>1, <2>2
<1>3. \A d \in 1 .. DictSize : d # 1 => d - 1 \in 1 .. DictSize
  BY LzssAssumption
<1>4. [d \in 1 .. DictSize |-> Ago(d)]' =
        [d \in 1 .. DictSize |->
           IF d = 1 THEN c ELSE [e \in 1 .. DictSize |-> Ago(e)][d - 1]]
  BY <1>2, <1>3
<1>5. dest' = IF Len(dest) < DestSize THEN Append(dest, c) ELSE dest
  BY DEF Emit
<1> QED
  BY <1>4, <1>5 DEF Window!Write

\* A byte put into the ring keeps what a step relies on.
LEMMA EmitKeeps ==
  ASSUME LzssInv, NEW c \in Byte, Emit(c)
  PROVE  /\ dict' \in [Places -> Byte]
         /\ idx' \in Places
         /\ dest' \in Seq(Byte)
<1>1. dict' \in [Places -> Byte]
  BY DEF LzssInv, Emit
<1>2. idx' \in Places
  BY FollowsIsPlace DEF LzssInv, Emit
<1>3. dest' \in Seq(Byte)
  BY DEF LzssInv, Emit
<1> QED
  BY <1>1, <1>2, <1>3

-----------------------------------------------------------------------------
\* A flag byte is read: nothing of the text changes.
LEMMA FlagsStep ==
  ASSUME LzssInv, TakeFlags
  PROVE  LzssInv' /\ UNCHANGED Window!vars
<1>1. LzssInv'
  BY DEF LzssInv, TakeFlags
<1>2. UNCHANGED <<dict, idx, run, dest>>
  BY DEF TakeFlags
<1> QED
  BY <1>1, <1>2 DEF Window!vars, Ago, Back, Idle

\* A verbatim byte is a single byte of the text.
LEMMA VerbatimStep ==
  ASSUME LzssInv, Verbatim
  PROVE  LzssInv' /\ \E c \in Byte : Window!Literal(c)
<1>1. Head(src) \in Byte /\ src' \in Seq(Byte)
  BY DEF LzssInv, Verbatim
<1>2. Emit(Head(src)) /\ Idle /\ UNCHANGED run
  BY DEF Verbatim
<1>3. LzssInv'
  BY <1>1, <1>2, EmitKeeps DEF LzssInv
<1>4. Window!Write(Head(src))
  BY <1>1, <1>2, EmitWrites
<1>5. Window!Literal(Head(src))
  BY <1>2, <1>4 DEF Window!Literal, Idle
<1> QED
  BY <1>1, <1>3, <1>5

\* The place and the length of a copy begin a copy of the text from a
\* distance within reach (bootloader_impl.c:1202-1203).
LEMMA StartRunStep ==
  ASSUME LzssInv, StartRun
  PROVE  /\ LzssInv'
         /\ \E d \in 1 .. DictSize, n \in MinRun .. MinRun + HalfSize - 1 : Window!StartCopy(d, n)
<1> DEFINE start == (src[1] + ByteSize * (src[2] \div HalfSize)) % DictSize
           left == (src[2] % HalfSize) + MinRun
<1>1. src[1] \in Int /\ src[2] \in Int
  <2>1. src \in Seq(Byte) /\ Len(src) >= 2 /\ Len(src) \in Nat
    BY DEF LzssInv, StartRun
  <2>2. src[1] \in Byte /\ src[2] \in Byte
    BY <2>1, ElementOfSeq
  <2> QED
    BY <2>2, LzssAssumption DEF Byte
<1>2. start \in Places
  <2>1. src[2] \div HalfSize \in Int
    BY <1>1, LzssAssumption
  <2>2. src[1] + ByteSize * (src[2] \div HalfSize) \in Int
    BY <1>1, <2>1, LzssAssumption
  <2> QED
    BY <2>2, Remainder, LzssAssumption DEF Places
<1>3. left \in MinRun .. MinRun + HalfSize - 1
  <2>1. src[2] % HalfSize \in 0 .. HalfSize - 1
    BY <1>1, Remainder, LzssAssumption
  <2> QED
    BY <2>1, LzssAssumption DEF MinRun
<1>4. run' = [start |-> start, left |-> left] /\ Idle /\ UNCHANGED <<dict, idx, dest>>
  BY DEF StartRun
<1>5. src' \in Seq(Byte)
  <2>1. src \in Seq(Byte) /\ Len(src) >= 2 /\ Len(src) \in Nat /\ src' = Tail(Tail(src))
    BY DEF LzssInv, StartRun
  <2>2. src # <<>>
    BY <2>1
  <2>3. Tail(src) \in Seq(Byte) /\ Len(Tail(src)) = Len(src) - 1
    BY <2>1, <2>2, HeadTailProperties
  <2>4. Tail(src) # <<>>
    <3>1. Len(Tail(src)) # Len(<<>>)
      BY <2>1, <2>3
    <3> QED
      BY <3>1
  <2> QED
    BY <2>1, <2>3, <2>4, HeadTailProperties
<1>6. left \in Nat /\ left > 0
  BY <1>3, LzssAssumption DEF MinRun
<1> HIDE DEF start, left
<1>7. LzssInv'
  BY <1>2, <1>4, <1>5, <1>6 DEF LzssInv
<1>8. Back(start) \in 1 .. DictSize
  BY <1>2, BackIsReach
<1>9. Window!StartCopy(Back(start), left)
  <2>1. ~Idle' /\ run'.start = start /\ run'.left = left
    BY <1>4, <1>6 DEF Idle
  <2>2. Back(run.start)' = Back(start)
    BY <1>4, <2>1 DEF Back
  <2>3. UNCHANGED [d \in 1 .. DictSize |-> Ago(d)]
    BY <1>4 DEF Ago
  <2> QED
    BY <1>4, <2>1, <2>2, <2>3 DEF Window!StartCopy, Idle
<1> QED
  BY <1>3, <1>7, <1>8, <1>9

\* A byte of a copy in the ring is one of the copy in the text.
LEMMA RunByteStep ==
  ASSUME LzssInv, RunByte
  PROVE  LzssInv' /\ Window!CopyByte
<1>1. run.start \in Places /\ run.left \in Nat /\ run.left > 0 /\ ~Idle
  BY DEF LzssInv, RunByte, Idle
<1>2. dict[run.start] \in Byte /\ Emit(dict[run.start]) /\ UNCHANGED src
  BY <1>1 DEF LzssInv, RunByte
<1>3. run' \in [start : Places, left : Nat]
  <2>1. 0 \in Places /\ Follows(run.start) \in Places
    BY <1>1, FollowsIsPlace, LzssAssumption DEF Places
  <2>2. run.left - 1 \in Nat
    BY <1>1
  <2> QED
    BY <2>1, <2>2 DEF RunByte, NoRun
<1>4. LzssInv'
  BY <1>2, <1>3, EmitKeeps DEF LzssInv
<1>5. Back(run.start) \in 1 .. DictSize /\ Ago(Back(run.start)) = dict[run.start]
  BY <1>1, BackIsReach
<1>6. Window!Write([d \in 1 .. DictSize |-> Ago(d)][Back(run.start)])
  BY <1>2, <1>5, EmitWrites
<1>7. (IF Idle THEN [back |-> 1, left |-> 0]
              ELSE [back |-> Back(run.start), left |-> run.left])'
        = IF run.left = 1 THEN [back |-> 1, left |-> 0]
                          ELSE [back |-> Back(run.start), left |-> run.left - 1]
  <2>1. CASE run.left = 1
    BY <2>1 DEF RunByte, NoRun, Idle
  <2>2. CASE run.left # 1
    <3>1. run'.start = Follows(run.start) /\ run'.left = run.left - 1 /\ ~Idle'
      BY <1>1, <2>2 DEF RunByte, Idle
    <3>2. PICK i \in Places : i = run.start
      BY <1>1
    <3>3. Back(Follows(i))' = Back(i)
      <4>1. idx' = Follows(idx)
        BY <1>2 DEF Emit
      <4> QED
        BY <4>1, BackIsKept
    <3> QED
      BY <2>2, <3>1, <3>2, <3>3 DEF Back
  <2> QED
    BY <2>1, <2>2
<1>8. Window!CopyByte
  BY <1>1, <1>6, <1>7 DEF Window!CopyByte, Window!NoCopy, Idle
<1> QED
  BY <1>4, <1>8

\* A step of the decoder is a step of the sliding window, or changes nothing
\* of it.
LEMMA DecodeStep ==
  ASSUME LzssInv, Decode
  PROVE  LzssInv' /\ [Window!Next]_(Window!vars)
<1>1. CASE TakeFlags
  BY <1>1, FlagsStep
<1>2. CASE Verbatim
  BY <1>2, VerbatimStep DEF Window!Next
<1>3. CASE StartRun
  BY <1>3, StartRunStep DEF Window!Next
<1>4. CASE RunByte
  BY <1>4, RunByteStep DEF Window!Next
<1> QED
  BY <1>1, <1>2, <1>3, <1>4 DEF Decode

\* A part of a row of bytes is a row of bytes.
LEMMA PartIsBytes ==
  ASSUME NEW body \in Seq(Byte), NEW from \in Int, NEW to \in Int,
         from >= 1, to <= Len(body)
  PROVE  SubSeq(body, from, to) \in Seq(Byte)
<1>1. Len(body) \in Nat
  BY LenProperties
<1>2. \A i \in from .. to : i \in 1 .. Len(body)
  BY <1>1
<1>3. \A i \in from .. to : body[i] \in Byte
  BY <1>2, ElementOfSeq
<1> QED
  BY <1>3, SubSeqProperties

\* Where the packed bytes lie among those behind a parcel's header.
LEMMA PackedPart ==
  ASSUME NEW at \in Nat, NEW lzss \in Nat, NEW next \in Nat, NEW length \in Nat,
         lzss >= HeaderSize, at + HeaderSize + length >= next
  PROVE  /\ lzss - HeaderSize + 1 \in Int /\ lzss - HeaderSize + 1 >= 1
         /\ next - at - HeaderSize \in Int /\ next - at - HeaderSize <= length
  BY DEF HeaderSize

\* What is expanded is bytes of the file (bootloader_impl.c:1253-1261).
LEMMA PayloadIsBytes ==
  ASSUME ImageInv, step = "walk", Parcel.type = "rom ",
         offset + Parcel.lzss <= Parcel.next
  PROVE  Payload \in Seq(Byte)
<1>1. offset \in DOMAIN file.parcels /\ Parcel = file.parcels[offset]
  BY DEF Parcel, Nothing
<1>2. /\ Parcel.body \in Seq(Byte)
      /\ Parcel.next \in Nat /\ Parcel.lzss \in Nat
      /\ Parcel.lzss >= HeaderSize
      /\ offset + HeaderSize + Len(Parcel.body) >= Parcel.next
      /\ offset \in Nat
  BY <1>1, ImageAssumption DEF ImageInv
<1>3. Len(Parcel.body) \in Nat
  BY <1>2, LenProperties
<1>4. /\ Parcel.lzss - HeaderSize + 1 \in Int
      /\ Parcel.lzss - HeaderSize + 1 >= 1
      /\ Parcel.next - offset - HeaderSize \in Int
      /\ Parcel.next - offset - HeaderSize <= Len(Parcel.body)
  BY <1>2, <1>3, PackedPart
<1> QED
  BY <1>2, <1>4, PartIsBytes DEF Payload

\* Where the decoder stands still, so does the sliding window.
LEMMA ImageStutter ==
  ASSUME ImageInv, UNCHANGED imageVars
  PROVE  ImageInv' /\ UNCHANGED Window!vars
<1>1. UNCHANGED <<file, step, offset, src, dict, idx, run, dest>>
  BY DEF imageVars, lzssVars
<1> QED
  BY <1>1 DEF ImageInv, LzssInv, Window!vars, Ago, Back, Idle

\* Every step of the image decoder keeps the invariant and maps to a step of
\* the sliding window or to none.
LEMMA ImageStep ==
  ASSUME ImageInv, DecodeImage
  PROVE  ImageInv' /\ [Window!Next]_(Window!vars)
<1>1. ASSUME UNCHANGED <<file, offset, lzssVars>>, step # "start"
      PROVE  ImageInv' /\ UNCHANGED Window!vars
  <2>1. UNCHANGED <<file, offset, src, dict, idx, run, dest>>
    BY <1>1 DEF lzssVars
  <2> QED
    BY <1>1, <2>1 DEF ImageInv, LzssInv, Window!vars, Ago, Back, Idle
<1>2. CASE ReadText
  BY <1>1, <1>2 DEF ReadText
<1>3. CASE WalkParcels
  <2>1. UNCHANGED <<file, dict, idx, run, dest>> /\ step = "walk"
    BY <1>3 DEF WalkParcels
  <2>2. UNCHANGED Window!vars
    BY <2>1 DEF Window!vars, Ago, Back, Idle
  <2>3. src' \in Seq(Byte) /\ offset' \in Nat
    <3>1. CASE UNCHANGED <<offset, src>>
      BY <3>1 DEF ImageInv, LzssInv
    <3>2. CASE RomParcel
      BY <2>1, <3>2, PayloadIsBytes DEF RomParcel, ImageInv, LzssInv
    <3>3. CASE OtherParcel
      <4>1. Parcel.next \in Nat
        BY <2>1, ImageAssumption DEF Parcel, Nothing, ImageInv
      <4> QED
        BY <3>3, <4>1 DEF OtherParcel, ImageInv, LzssInv
    <3> QED
      BY <1>3, <3>1, <3>2, <3>3 DEF WalkParcels
  <2> QED
    BY <2>1, <2>2, <2>3 DEF ImageInv, LzssInv
<1>4. CASE Expand
  BY <1>4, DecodeStep DEF Expand, ImageInv
<1>5. CASE Expanded
  BY <1>1, <1>5 DEF Expanded
<1> QED
  BY <1>2, <1>3, <1>4, <1>5 DEF DecodeImage

\* Before the first byte, the ring is as long a row of zeros as a copy can
\* reach.
LEMMA ImageStart ==
  ASSUME ImageInit
  PROVE  ImageInv /\ Window!Init
<1>1. idx \in Places /\ dict = [i \in Places |-> 0] /\ 0 \in Places /\ 0 \in Byte
  BY LzssAssumption DEF ImageInit, DecodeInit, Places, Byte
<1>2. ImageInv
  BY <1>1, EmptySeq DEF ImageInit, DecodeInit, NoRun, ImageInv, LzssInv, FirstParcel
<1>3. \A d \in 1 .. DictSize : Ago(d) = 0
  BY <1>1, LzssAssumption DEF Ago, Places
<1>4. Window!Init
  BY <1>3 DEF Window!Init, Window!NoCopy, ImageInit, DecodeInit, NoRun, Idle
<1> QED
  BY <1>2, <1>4

-----------------------------------------------------------------------------
\* The file on the boot volume and the one on the disc are ROM files.
LEMMA LoadedIsRom ==
  ASSUME media \in Media
  PROVE  /\ EspRom # None => \A n, f : f \in EspRead(n) => f.image \in Images
         /\ DiscRom # None => DiscRom.image \in Images
<1>1. EspRom # None => EspRom \in Rom
  BY BootAssumption DEF EspRom
<1>2. DiscRom # None => DiscRom \in Rom
  BY BootAssumption DEF DiscRom
<1> QED
  BY <1>1, <1>2 DEF Rom, EspRead

\* A file that was loaded is one of the files (bootloader_impl.c:1484-1497).
LEMMA LoadStep ==
  ASSUME BootInv, LoadRom
  PROVE  pc' = "identify" => buf'.image \in Images
<1>1. ASSUME NEW status, NotLoaded(status)
      PROVE  pc' # "identify"
  BY <1>1 DEF NotLoaded, Return
<1>2. ASSUME NEW o \in EspOutcomes, o.status = "success"
      PROVE  EspRom # None
  BY <1>2 DEF EspOutcomes, Outcome
<1>3. ASSUME NEW d \in DiscOutcomes, d.status = "success"
      PROVE  DiscRom # None
  BY <1>3 DEF DiscOutcomes, Outcome
<1>4. ASSUME NEW f, NEW from, Loaded(f, from), f.image \in Images
      PROVE  buf'.image \in Images
  BY <1>4 DEF Loaded
<1> QED
  BY <1>1, <1>2, <1>3, <1>4, LoadedIsRom DEF LoadRom, BootInv

\* No step of the boot but the loading of a file leads to its identification.
LEMMA MapSteps ==
  ASSUME MapStep, ~LoadRom
  PROVE  pc' # "identify" /\ UNCHANGED media
  BY DEF MapStep, InstallLowMemory, MapRom, InstallAliases, RunBootSelfTest, PrepareLowMemory,
         PrepareKernelArea, StageOsRuntime, Return, loadVars

LEMMA StagingSteps ==
  ASSUME StagingStep
  PROVE  pc' # "identify" /\ UNCHANGED media
<1>1. ASSUME NEW a, NEW files, OpenArea(a, files, "scan") \/ OpenArea(a, files, "selftest")
      PROVE  pc' # "identify"
  BY <1>1 DEF OpenArea
<1>2. CASE GuestRuns \/ LocateSystemFolder
  BY <1>2 DEF GuestRuns, LocateSystemFolder
<1>3. CASE LoadSystemFiles
  BY <1>1, <1>3 DEF LoadSystemFiles
<1>4. CASE StageSystemFile
  BY <1>4 DEF StageSystemFile, StageNext, loadVars
<1>5. CASE ScanExtensions
  BY <1>5 DEF ScanExtensions, loadVars
<1>6. CASE LoadDrivers
  BY <1>1, <1>6 DEF LoadDrivers, loadVars
<1>7. CASE StageDriver
  BY <1>7 DEF StageDriver, StageNext, loadVars
<1>8. CASE RunSystemFilesSelfTest
  BY <1>8 DEF RunSystemFilesSelfTest, loadVars
<1> QED
  BY <1>2, <1>3, <1>4, <1>5, <1>6, <1>7, <1>8 DEF StagingStep

\* Every step of the boot keeps the invariant, and is one of the sliding window
\* or changes nothing of it.
LEMMA BootStep ==
  ASSUME BootInv, [Next]_vars
  PROVE  BootInv' /\ [Window!Next]_(Window!vars)
<1>1. ASSUME UNCHANGED imageVars, UNCHANGED media, pc' = "identify" => buf'.image \in Images
      PROVE  BootInv' /\ [Window!Next]_(Window!vars)
  BY <1>1, ImageStutter DEF BootInv
<1>2. CASE MapStep /\ UNCHANGED <<imageVars, stageVars>>
  <2>1. CASE LoadRom
    <3>1. UNCHANGED media
      BY <2>1 DEF LoadRom
    <3> QED
      BY <1>1, <1>2, <2>1, <3>1, LoadStep
  <2>2. CASE ~LoadRom
    BY <1>1, <1>2, <2>2, MapSteps
  <2> QED
    BY <2>1, <2>2
<1>3. CASE IdentifyRom
  <2>1. /\ buf.image \in Images /\ file' = buf.image
        /\ UNCHANGED <<offset, lzssVars>>
        /\ pc' = "decode" /\ UNCHANGED media
    BY <1>3 DEF IdentifyRom, StartImage, BootInv
  <2>2. UNCHANGED <<offset, src, dict, idx, run, dest>>
    BY <2>1 DEF lzssVars
  <2>3. UNCHANGED Window!vars
    BY <2>2 DEF Window!vars, Ago, Back, Idle
  <2> QED
    BY <2>1, <2>2, <2>3 DEF BootInv, ImageInv, LzssInv
<1>4. CASE ExpandRom
  <2>1. UNCHANGED <<pc, media, buf>> /\ DecodeImage
    BY <1>4 DEF ExpandRom, loadVars, romVars
  <2> QED
    BY <2>1, ImageStep DEF BootInv
<1>5. CASE DecodeRom
  BY <1>1, <1>5 DEF DecodeRom
<1>6. CASE StagingStep /\ UNCHANGED imageVars
  BY <1>1, <1>6, StagingSteps
<1>7. CASE Returned \/ UNCHANGED vars
  <2>1. UNCHANGED <<imageVars, media, pc, buf>>
    BY <1>7 DEF Returned, vars, loadVars, romVars
  <2> QED
    BY <1>1, <2>1 DEF BootInv
<1> QED
  BY <1>2, <1>3, <1>4, <1>5, <1>6, <1>7 DEF Next

\* BootLzssDecode expands what the format says, for every size of the ring, of
\* the image and of a byte, every file, and wherever the boot found it: a copy
\* is taken from a fixed distance back in the output.
THEOREM BootImplementsSlidingWindow == Spec => ImplementsSlidingWindow
<1>1. Init => BootInv /\ Window!Init
  BY ImageStart DEF Init, MapInit, RomInit, BootInv
<1>2. BootInv /\ [Next]_vars => BootInv' /\ [Window!Next]_(Window!vars)
  BY BootStep
<1> QED
  BY <1>1, <1>2, PTL DEF Spec, ImplementsSlidingWindow, Window!Spec
=============================================================================
