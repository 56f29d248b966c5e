------------------------- MODULE GuestMemory_proofs -------------------------
(***************************************************************************)
(* The memory map of GuestMemory.tla, for every address space, every       *)
(* number of regions and whatever windows the boot code asks for: its      *)
(* type, that no address belongs to two windows, and that block copies are *)
(* exact.  The first two are proved together: a lookup has a well-defined  *)
(* answer because the windows are disjoint, and copies and stores stay     *)
(* inside their buffers because of what the lookup answers.                *)
(***************************************************************************)
EXTENDS GuestMemory, TLAPS

MapInv == TypeOK /\ RegionsDisjoint

(* What a search of the map answers for a mapped address.                  *)
ResolvedAt(a) ==
  /\ WindowOf(a) \in Region
  /\ Covers(WindowOf(a), a)
  /\ CellOf(a).buf \in Buffer
  /\ CellOf(a).buf = WindowOf(a).buf
  /\ CellOf(a).off = a - WindowOf(a).base
  /\ CellOf(a).off \in 0 .. BufSize - 1
  /\ CellOf(a).off + Run(a) <= BufSize
  /\ Run(a) \in Nat \ {0}

LEMMA Lookup ==
  ASSUME MapInv, NEW a \in Addr, Mapped(a)
  PROVE  ResolvedAt(a)
<1>1. PICK i \in Slot : Covers(region[i], a)
  BY DEF Mapped
<1>2. \A j \in Slot : Covers(region[j], a) => i = j
  BY <1>1 DEF MapInv, RegionsDisjoint
<1>3. i <= i
  BY DEF Slot
<1>4. \A j \in Slot : Covers(region[j], a) => i <= j
  BY <1>2, <1>3
<1>5. PICK m \in Slot :
        /\ Covers(region[m], a)
        /\ WindowOf(a) = region[m]
  BY <1>1, <1>4 DEF WindowOf
<1>6. region[m] \in Region
  BY <1>5 DEF MapInv, TypeOK, Covers
<1> DEFINE r == WindowOf(a)
<1>7. r \in Region /\ Covers(r, a)
  BY <1>5, <1>6
<1>8. /\ r.buf \in Buffer /\ r.base \in Addr /\ r.size \in 1 .. BufSize
      /\ r.base <= a /\ a - r.base < r.size
  BY <1>7 DEF Region, Covers
<1>9. BufSize \in Nat \ {0} /\ Top \in Nat \ {0}
  BY MemoryAssumption
<1> HIDE DEF r
<1>10. /\ a - r.base \in 0 .. BufSize - 1
       /\ r.size - (a - r.base) \in Nat \ {0}
       /\ (a - r.base) + (r.size - (a - r.base)) <= BufSize
  BY <1>8, <1>9 DEF Addr
<1> QED
  BY <1>7, <1>8, <1>10 DEF r, ResolvedAt, CellOf, Run

LEMMA InitMap == Init => MapInv
<1> SUFFICES ASSUME Init PROVE MapInv
  OBVIOUS
<1>1. TypeOK
  BY MemoryAssumption DEF Init, TypeOK
<1>2. RegionsDisjoint
  BY DEF Init, RegionsDisjoint, Covers
<1> QED
  BY <1>1, <1>2 DEF MapInv

(* The overlap test of PpcAddGuestMemoryRegion (interpreter.c:903) lets no *)
(* two windows through that share an address.                              *)
LEMMA OverlapTest ==
  ASSUME NEW r \in Region, NEW s \in Region \cup {Free}, ~Overlaps(r, s),
         NEW a \in Addr
  PROVE  ~(Covers(r, a) /\ Covers(s, a))
<1> SUFFICES ASSUME Covers(r, a), Covers(s, a) PROVE FALSE
  OBVIOUS
<1>1. s \in Region /\ s # Free
  BY DEF Covers
<1>2. /\ r.base \in Nat /\ s.base \in Nat /\ a \in Nat
      /\ r.size \in Nat /\ s.size \in Nat
  BY <1>1, MemoryAssumption DEF Region, Addr
<1>3. /\ r.base <= a /\ a - r.base < r.size
      /\ s.base <= a /\ a - s.base < s.size
  BY DEF Covers
<1>4. IF r.base < s.base THEN r.base + r.size <= s.base
                         ELSE r.base - s.base >= s.size
  BY <1>1, <1>2 DEF Overlaps
<1> QED
  BY <1>2, <1>3, <1>4

LEMMA AddKeepsMap ==
  ASSUME MapInv, NEW r \in Candidate, AddRegion(r)
  PROVE  MapInv'
<1>1. r \in Region
  BY MemoryAssumption
<1>2. PICK n \in Slot : region[n] = Free /\ region' = [region EXCEPT ![n] = r]
  BY DEF AddRegion
<1>3. region \in [Slot -> Region \cup {Free}]
  BY DEF MapInv, TypeOK
<1>4. TypeOK'
  BY <1>1, <1>2, <1>3 DEF AddRegion, MapInv, TypeOK
<1>5. RegionsDisjoint'
  <2> SUFFICES ASSUME NEW i \in Slot, NEW j \in Slot, NEW a \in Addr,
                      Covers(region'[i], a), Covers(region'[j], a)
               PROVE  i = j
    BY DEF RegionsDisjoint
  <2>1. \A k \in Slot : region'[k] = IF k = n THEN r ELSE region[k]
    BY <1>2, <1>3
  <2>2. \A k \in Slot : ~(Covers(r, a) /\ Covers(region[k], a))
    BY <1>1, <1>3, OverlapTest DEF AddRegion
  <2>3. CASE i = n \/ j = n
    BY <2>1, <2>2, <2>3
  <2>4. CASE i # n /\ j # n
    BY <2>1, <2>4 DEF MapInv, RegionsDisjoint
  <2> QED
    BY <2>3, <2>4
<1> QED
  BY <1>4, <1>5 DEF MapInv

(* Steps that leave the table alone leave the windows disjoint.            *)
LEMMA SameTable ==
  ASSUME MapInv, region' = region, TypeOK'
  PROVE  MapInv'
  BY DEF MapInv, RegionsDisjoint

LEMMA WriteKeepsMap ==
  ASSUME MapInv, NEW a \in Addr, NEW v \in Byte, WriteByte(a, v)
  PROVE  MapInv'
<1>1. ResolvedAt(a)
  BY Lookup DEF WriteByte
<1>2. host \in [Buffer -> [0 .. BufSize - 1 -> Byte]]
  BY DEF MapInv, TypeOK
<1>3. host' \in [Buffer -> [0 .. BufSize - 1 -> Byte]]
  BY <1>1, <1>2 DEF WriteByte, ResolvedAt
<1> QED
  BY <1>3, SameTable DEF WriteByte, MapInv, TypeOK

LEMMA ReadKeepsMap ==
  ASSUME MapInv, NEW a \in Addr, ReadByte(a)
  PROVE  MapInv'
<1>1. Contents(a) \in Byte
  <2>1. CASE Mapped(a)
    BY <2>1, Lookup DEF Contents, ResolvedAt, MapInv, TypeOK
  <2>2. CASE ~Mapped(a)
    BY <2>2, MemoryAssumption DEF Contents
  <2> QED BY <2>1, <2>2
<1>2. rdata' \in Byte
  BY <1>1 DEF ReadByte
<1> QED
  BY <1>2, SameTable DEF ReadByte, MapInv, TypeOK

LEMMA BeginKeepsMap ==
  ASSUME MapInv, NEW d \in Addr, NEW s \in Addr, NEW n \in 1 .. Top,
         CopyBegin(d, s, n)
  PROVE  MapInv'
<1>1. n \in Nat
  BY MemoryAssumption
<1>2. job' \in Job
  BY <1>1 DEF CopyBegin, Job, MapInv, TypeOK
<1> QED
  BY <1>2, SameTable DEF CopyBegin, MapInv, TypeOK

(* A run is never longer than what is left and what both windows hold.     *)
LEMMA LeastOfThree ==
  ASSUME NEW x \in Nat, NEW y \in Nat, NEW z \in Nat
  PROVE  LET m == Min({x, y, z})
         IN m \in {x, y, z} /\ m <= x /\ m <= y /\ m <= z
<1> DEFINE S == {x, y, z}
<1>1. \E m \in S : \A k \in S : m <= k
  <2>1. CASE x <= y /\ x <= z
    BY <2>1
  <2>2. CASE y <= x /\ y <= z
    BY <2>2
  <2>3. CASE z <= x /\ z <= y
    BY <2>3
  <2> QED BY <2>1, <2>2, <2>3
<1>2. Min(S) \in S /\ \A k \in S : Min(S) <= k
  <2> HIDE DEF S
  <2> QED BY <1>1 DEF Min
<1> QED
  BY <1>2

ChunkBounds ==
  /\ job.off \in Nat /\ job.size \in Nat /\ job.off < job.size
  /\ job.src \in Addr /\ job.dst \in Addr
  /\ SrcAt(job.off) \in Addr /\ Mapped(SrcAt(job.off)) /\ ResolvedAt(SrcAt(job.off))
  /\ DstAt(job.off) \in Addr /\ Mapped(DstAt(job.off)) /\ ResolvedAt(DstAt(job.off))
  /\ Chunk \in Nat /\ Chunk <= job.size - job.off
  /\ Chunk <= Run(SrcAt(job.off)) /\ Chunk <= Run(DstAt(job.off))

LEMMA ChunkIsBounded ==
  ASSUME MapInv, CopyChunk
  PROVE  ChunkBounds
<1>1. job \in Job
  BY DEF MapInv, TypeOK, CopyChunk
<1>2. /\ job.off \in Nat /\ job.size \in Nat /\ job.off < job.size
      /\ job.src \in Addr /\ job.dst \in Addr
  BY <1>1 DEF Job, CopyChunk
<1>3. SrcAt(job.off) \in Addr /\ DstAt(job.off) \in Addr
  BY <1>2, MemoryAssumption DEF SrcAt, DstAt, Addr
<1>4. Mapped(SrcAt(job.off)) /\ Mapped(DstAt(job.off))
  BY DEF CopyChunk, NoRun
<1>5. ResolvedAt(SrcAt(job.off)) /\ ResolvedAt(DstAt(job.off))
  BY <1>3, <1>4, Lookup
<1>6. /\ Chunk \in Nat /\ Chunk <= job.size - job.off
      /\ Chunk <= Run(SrcAt(job.off)) /\ Chunk <= Run(DstAt(job.off))
  <2>1. job.size - job.off \in Nat
    BY <1>2
  <2>2. Run(SrcAt(job.off)) \in Nat /\ Run(DstAt(job.off)) \in Nat
    BY <1>5 DEF ResolvedAt
  <2> QED BY <2>1, <2>2, LeastOfThree DEF Chunk
<1> QED
  BY <1>2, <1>3, <1>4, <1>5, <1>6 DEF ChunkBounds

LEMMA ChunkKeepsMap ==
  ASSUME MapInv, CopyChunk
  PROVE  MapInv'
<1> DEFINE sa == SrcAt(job.off)
           da == DstAt(job.off)
           n == Chunk
           s == CellOf(sa)
           d == CellOf(da)
<1>1. job \in Job
  BY DEF MapInv, TypeOK, CopyChunk
<1>2. /\ job.off \in Nat
      /\ ResolvedAt(sa) /\ ResolvedAt(da)
      /\ n \in Nat /\ n <= Run(sa) /\ n <= Run(da)
  BY ChunkIsBounded DEF ChunkBounds
<1>3. job' \in Job
  <2>1. job' = [job EXCEPT !.off = @ + n]
    BY DEF CopyChunk
  <2> HIDE DEF n
  <2> QED BY <1>1, <1>2, <2>1 DEF Job
<1>4. host \in [Buffer -> [0 .. BufSize - 1 -> Byte]]
  BY DEF MapInv, TypeOK
<1>5. /\ s.buf \in Buffer /\ d.buf \in Buffer
      /\ s.off \in 0 .. BufSize - 1 /\ d.off \in 0 .. BufSize - 1
      /\ s.off + n <= BufSize
      /\ BufSize \in Nat \ {0}
  <2>1. s.off + Run(sa) <= BufSize /\ Run(sa) \in Nat
    BY <1>2 DEF ResolvedAt
  <2>2. s.off \in 0 .. BufSize - 1 /\ BufSize \in Nat \ {0}
    BY <1>2, MemoryAssumption DEF ResolvedAt
  <2> HIDE DEF s, sa, n
  <2>3. s.off + n <= BufSize
    BY <1>2, <2>1, <2>2
  <2> QED BY <1>2, <2>2, <2>3 DEF ResolvedAt, s, sa
<1>6. \A k \in 0 .. BufSize - 1 :
         (IF k \in d.off .. d.off + n - 1
            THEN host[s.buf][s.off + k - d.off]
            ELSE host[d.buf][k]) \in Byte
  <2> HIDE DEF s, d, n
  <2> SUFFICES ASSUME NEW k \in 0 .. BufSize - 1, k \in d.off .. d.off + n - 1
               PROVE  host[s.buf][s.off + k - d.off] \in Byte
    BY <1>4, <1>5
  <2>1. s.off + k - d.off \in 0 .. BufSize - 1
    BY <1>2, <1>5
  <2> QED BY <1>4, <1>5, <2>1
<1>7. host' \in [Buffer -> [0 .. BufSize - 1 -> Byte]]
  <2>1. host' = [host EXCEPT ![d.buf] =
                   [k \in 0 .. BufSize - 1 |->
                      IF k \in d.off .. d.off + n - 1
                        THEN host[s.buf][s.off + k - d.off]
                        ELSE host[d.buf][k]]]
    BY DEF CopyChunk
  <2> HIDE DEF s, d, n
  <2> QED BY <1>4, <1>5, <1>6, <2>1
<1>8. region' = region /\ rdata' = rdata
  BY DEF CopyChunk
<1>9. TypeOK'
  BY <1>3, <1>7, <1>8 DEF MapInv, TypeOK
<1> QED
  BY <1>8, <1>9, SameTable

LEMMA StepMap == MapInv /\ [Next]_vars => MapInv'
<1> SUFFICES ASSUME MapInv, [Next]_vars PROVE MapInv'
  OBVIOUS
<1>1. CASE \E r \in Candidate : AddRegion(r)
  BY <1>1, AddKeepsMap
<1>2. CASE \E a \in Addr, v \in Byte : WriteByte(a, v)
  BY <1>2, WriteKeepsMap
<1>3. CASE \E a \in Addr : ReadByte(a)
  BY <1>3, ReadKeepsMap
<1>4. CASE \E dst, src \in Addr, size \in 1 .. Top : CopyBegin(dst, src, size)
  BY <1>4, BeginKeepsMap
<1>5. CASE CopyChunk
  BY <1>5, ChunkKeepsMap
<1>6. CASE CopyEnd
  <2>1. TypeOK' /\ region' = region
    BY <1>6 DEF CopyEnd, MapInv, TypeOK
  <2> QED BY <2>1, SameTable
<1>7. CASE UNCHANGED vars
  <2>1. TypeOK' /\ region' = region
    BY <1>7 DEF vars, MapInv, TypeOK
  <2> QED BY <2>1, SameTable
<1> QED
  BY <1>1, <1>2, <1>3, <1>4, <1>5, <1>6, <1>7 DEF Next

LEMMA MapHolds == Spec => []MapInv
  BY InitMap, StepMap, PTL DEF Spec

(* The table, the buffers and a running copy keep their types; no load,    *)
(* store or run of a copy leaves the buffer its window shows.              *)
THEOREM TypeCorrect == Spec => []TypeOK
<1>1. MapInv => TypeOK
  BY DEF MapInv
<1> QED
  BY <1>1, MapHolds, PTL

(* No address ever belongs to two windows.                                 *)
THEOREM WindowsDisjoint == Spec => []RegionsDisjoint
<1>1. MapInv => RegionsDisjoint
  BY DEF MapInv
<1> QED
  BY <1>1, MapHolds, PTL

-----------------------------------------------------------------------------
(* The copy.  A run stays inside one window of the source and one of the   *)
(* destination, so that the host bytes it reads and writes follow each     *)
(* other as the guest addresses do; the bytes it reads are as they were    *)
(* when the copy began, for they are none of the destination's.            *)

(* Windows end below the top, and a copy is not longer than the address    *)
(* space: an address computed for it wraps at most once.                   *)
CopyBounds ==
  /\ \A i \in Slot : region[i] # Free => region[i].base + region[i].size <= Top
  /\ job # Idle => job.off <= job.size /\ job.size <= Top

(* The places of the copy that were written to byte k of buffer b.         *)
Hits(b, k) ==
  {i \in 0 .. job.off - 1 :
     Mapped(DstAt(i)) /\ CellOf(DstAt(i)) = [buf |-> b, off |-> k]}

(* A byte that was hit is what the last place that hit it had to deliver.  *)
ExactAt(b, k) ==
  \/ Hits(b, k) = {} /\ host[b][k] = job.before[b][k]
  \/ \E i \in Hits(b, k) :
       /\ \A j \in Hits(b, k) : j <= i
       /\ host[b][k] = job.before[CellOf(SrcAt(i)).buf][CellOf(SrcAt(i)).off]

Apart == DstCells \cap SrcCells = {}

CopyInv ==
  /\ MapInv
  /\ CopyBounds
  /\ job # Idle /\ Apart => \A b \in Buffer, k \in 0 .. BufSize - 1 : ExactAt(b, k)

LEMMA TheWindow ==
  ASSUME MapInv, NEW a \in Addr, NEW m \in Slot, Covers(region[m], a)
  PROVE  WindowOf(a) = region[m]
<1>1. \A j \in Slot : Covers(region[j], a) => j = m
  BY DEF MapInv, RegionsDisjoint
<1>2. m <= m
  BY DEF Slot
<1>3. \A j \in Slot : Covers(region[j], a) => m <= j
  BY <1>1, <1>2
<1> QED
  BY <1>1, <1>3 DEF WindowOf

(* The addresses of a run lie in one window, at cells that follow.         *)
LEMMA AlongTheWindow ==
  ASSUME MapInv, CopyBounds, NEW a \in Addr, Mapped(a), NEW t \in Nat, t < Run(a)
  PROVE  /\ a + t \in Addr
         /\ Mapped(a + t)
         /\ CellOf(a + t) = [buf |-> CellOf(a).buf, off |-> CellOf(a).off + t]
<1>1. PICK m \in Slot : Covers(region[m], a)
  BY DEF Mapped
<1>2. WindowOf(a) = region[m]
  BY <1>1, TheWindow
<1> DEFINE r == region[m]
<1>3. /\ r \in Region /\ r # Free /\ r.base + r.size <= Top
      /\ r.base <= a /\ a - r.base < r.size
      /\ t < r.size - (a - r.base)
  BY <1>1, <1>2 DEF MapInv, TypeOK, Covers, CopyBounds, Run
<1>4. r.base \in Nat /\ r.size \in Nat /\ a \in Nat /\ Top \in Nat
  BY <1>3, MemoryAssumption DEF Region, Addr
<1> HIDE DEF r
<1>5. a + t \in Addr /\ Covers(r, a + t) /\ (a + t) - r.base = (a - r.base) + t
  BY <1>3, <1>4 DEF Addr, Covers
<1>6. WindowOf(a + t) = r /\ Mapped(a + t)
  BY <1>5, TheWindow DEF r, Mapped
<1> QED
  BY <1>2, <1>5, <1>6 DEF CellOf, r

(* The addresses of a copy wrap at the top as those of a single window do. *)
LEMMA Wrapped ==
  ASSUME NEW n \in Nat \ {0}, NEW x \in 0 .. 2 * n - 1
  PROVE  x % n = IF x < n THEN x ELSE x - n
  OBVIOUS

LEMMA NextAddress ==
  ASSUME NEW b \in Addr, NEW k \in Nat, NEW t \in Nat, k + t < Top,
         ((b + k) % Top) + t \in Addr
  PROVE  (b + (k + t)) % Top = ((b + k) % Top) + t
<1>1. /\ Top \in Nat \ {0} /\ b \in Nat /\ b < Top
      /\ ((b + k) % Top) + t < Top
  BY MemoryAssumption DEF Addr
<1>2. b + k \in 0 .. 2 * Top - 1 /\ b + (k + t) \in 0 .. 2 * Top - 1
  BY <1>1
<1>3. \A x \in 0 .. 2 * Top - 1 : x % Top = IF x < Top THEN x ELSE x - Top
  BY <1>1, Wrapped
<1>4. (b + k) % Top = IF b + k < Top THEN b + k ELSE b + k - Top
  <2>1. PICK x \in 0 .. 2 * Top - 1 : x = b + k
    BY <1>2
  <2>2. x % Top = IF x < Top THEN x ELSE x - Top
    BY <1>3
  <2> QED BY <1>1, <2>1, <2>2
<1>5. (b + (k + t)) % Top = IF b + (k + t) < Top THEN b + (k + t) ELSE b + (k + t) - Top
  <2>1. PICK x \in 0 .. 2 * Top - 1 : x = b + (k + t)
    BY <1>2
  <2>2. x % Top = IF x < Top THEN x ELSE x - Top
    BY <1>3
  <2> QED BY <1>1, <2>1, <2>2
<1> QED
  BY <1>1, <1>4, <1>5

(* The cells of one run: those of the destination follow each other from   *)
(* the first one on, and so do those of the source.                        *)
LEMMA CellsOfTheRun ==
  ASSUME CopyInv, CopyChunk, NEW t \in 0 .. Chunk - 1
  PROVE  /\ job.off + t \in 0 .. job.size - 1
         /\ Mapped(SrcAt(job.off + t)) /\ Mapped(DstAt(job.off + t))
         /\ CellOf(SrcAt(job.off + t)) =
              [buf |-> CellOf(SrcAt(job.off)).buf, off |-> CellOf(SrcAt(job.off)).off + t]
         /\ CellOf(DstAt(job.off + t)) =
              [buf |-> CellOf(DstAt(job.off)).buf, off |-> CellOf(DstAt(job.off)).off + t]
<1>1. ChunkBounds /\ MapInv /\ CopyBounds
  BY ChunkIsBounded DEF CopyInv
<1>2. /\ job.off \in Nat /\ job.size \in Nat /\ job.size <= Top
      /\ Chunk \in Nat /\ Chunk <= job.size - job.off
      /\ t \in Nat /\ t < Chunk /\ Top \in Nat
  BY <1>1, MemoryAssumption DEF ChunkBounds, CopyBounds, CopyChunk
<1>3. job.off + t \in 0 .. job.size - 1 /\ job.off + t < Top
  BY <1>2
<1>4. t < Run(SrcAt(job.off)) /\ t < Run(DstAt(job.off))
  <2>1. Run(SrcAt(job.off)) \in Nat /\ Run(DstAt(job.off)) \in Nat
    BY <1>1 DEF ChunkBounds, ResolvedAt
  <2> QED BY <1>1, <1>2, <2>1 DEF ChunkBounds
<1>5. /\ SrcAt(job.off) + t \in Addr /\ Mapped(SrcAt(job.off) + t)
      /\ CellOf(SrcAt(job.off) + t) =
           [buf |-> CellOf(SrcAt(job.off)).buf, off |-> CellOf(SrcAt(job.off)).off + t]
  BY <1>1, <1>2, <1>4, AlongTheWindow DEF ChunkBounds
<1>6. /\ DstAt(job.off) + t \in Addr /\ Mapped(DstAt(job.off) + t)
      /\ CellOf(DstAt(job.off) + t) =
           [buf |-> CellOf(DstAt(job.off)).buf, off |-> CellOf(DstAt(job.off)).off + t]
  BY <1>1, <1>2, <1>4, AlongTheWindow DEF ChunkBounds
<1>7. SrcAt(job.off + t) = SrcAt(job.off) + t
  BY <1>1, <1>2, <1>3, <1>5, NextAddress DEF SrcAt, ChunkBounds
<1>8. DstAt(job.off + t) = DstAt(job.off) + t
  BY <1>1, <1>2, <1>3, <1>6, NextAddress DEF DstAt, ChunkBounds
<1> QED
  BY <1>3, <1>5, <1>6, <1>7, <1>8

LEMMA GreatestOf ==
  ASSUME NEW S \in SUBSET Int, NEW m \in S, \A i \in S : i <= m
  PROVE  Max(S) = m
<1>1. Max(S) \in S /\ \A i \in S : i <= Max(S)
  BY DEF Max
<1>2. Max(S) <= m /\ m <= Max(S)
  BY <1>1
<1>3. Max(S) \in Int /\ m \in Int
  BY <1>1
<1> QED
  BY <1>2, <1>3

LEMMA ExactnessSuffices == CopyInv => CopyIsExact
<1> SUFFICES ASSUME CopyInv, job # Idle, Apart, NEW b \in Buffer, NEW k \in 0 .. BufSize - 1
             PROVE  IF Hits(b, k) = {} THEN host[b][k] = job.before[b][k]
                    ELSE LET s == CellOf(SrcAt(Max(Hits(b, k))))
                         IN host[b][k] = job.before[s.buf][s.off]
  BY DEF CopyIsExact, Apart, Hits
<1>1. ExactAt(b, k)
  BY DEF CopyInv
<1>2. CASE Hits(b, k) = {}
  BY <1>1, <1>2 DEF ExactAt
<1>3. CASE Hits(b, k) # {}
  <2>1. PICK i \in Hits(b, k) :
          /\ \A j \in Hits(b, k) : j <= i
          /\ host[b][k] = job.before[CellOf(SrcAt(i)).buf][CellOf(SrcAt(i)).off]
    BY <1>1, <1>3 DEF ExactAt
  <2>2. Hits(b, k) \in SUBSET Int
    BY DEF Hits
  <2>3. Max(Hits(b, k)) = i
    BY <2>1, <2>2, GreatestOf
  <2> QED
    BY <1>3, <2>1, <2>3
<1> QED
  BY <1>2, <1>3

(* What the addresses of a copy resolve to does not change while it runs.  *)
LEMMA SamePlaces ==
  ASSUME region' = region, job'.dst = job.dst, job'.src = job.src, NEW i
  PROVE  /\ Mapped(DstAt(i))' = Mapped(DstAt(i)) /\ CellOf(DstAt(i))' = CellOf(DstAt(i))
         /\ Mapped(SrcAt(i))' = Mapped(SrcAt(i)) /\ CellOf(SrcAt(i))' = CellOf(SrcAt(i))
  BY DEF CellOf, WindowOf, Covers, Mapped, DstAt, SrcAt

LEMMA SameHits ==
  ASSUME region' = region, job'.dst = job.dst, NEW b, NEW k, NEW i
  PROVE  i \in Hits(b, k)' <=>
           /\ i \in 0 .. job'.off - 1
           /\ Mapped(DstAt(i)) /\ CellOf(DstAt(i)) = [buf |-> b, off |-> k]
  BY DEF Hits, CellOf, WindowOf, Covers, Mapped, DstAt

(* A byte that a step neither writes nor hits stays as exact as it was.    *)
LEMMA StillExact ==
  ASSUME NEW b, NEW k, ExactAt(b, k),
         region' = region, job'.dst = job.dst, job'.src = job.src,
         job'.before = job.before, Hits(b, k)' = Hits(b, k), host'[b][k] = host[b][k]
  PROVE  ExactAt(b, k)'
<1>1. CASE Hits(b, k) = {} /\ host[b][k] = job.before[b][k]
  BY <1>1 DEF ExactAt
<1>2. CASE \E i \in Hits(b, k) :
             /\ \A j \in Hits(b, k) : j <= i
             /\ host[b][k] = job.before[CellOf(SrcAt(i)).buf][CellOf(SrcAt(i)).off]
  <2>1. PICK i \in Hits(b, k) :
             /\ \A j \in Hits(b, k) : j <= i
             /\ host[b][k] = job.before[CellOf(SrcAt(i)).buf][CellOf(SrcAt(i)).off]
    BY <1>2
  <2>2. CellOf(SrcAt(i))' = CellOf(SrcAt(i))
    BY SamePlaces
  <2> QED
    BY <2>1, <2>2 DEF ExactAt
<1> QED
  BY <1>1, <1>2 DEF ExactAt

LEMMA SameCopy ==
  ASSUME region' = region, job'.dst = job.dst, job'.src = job.src, job'.size = job.size
  PROVE  Apart' = Apart
<1>1. DstCells' = DstCells
  BY SamePlaces DEF DstCells
<1>2. SrcCells' = SrcCells
  BY SamePlaces DEF SrcCells
<1> QED
  BY <1>1, <1>2 DEF Apart

(* A run delivers to its destination what its source held, and the source  *)
(* of a copy whose ranges are apart holds what it held at the beginning.   *)
LEMMA ChunkIsExact ==
  ASSUME CopyInv, CopyChunk, Apart, NEW b \in Buffer, NEW k \in 0 .. BufSize - 1
  PROVE  ExactAt(b, k)'
<1> DEFINE o == job.off
           n == Chunk
           s == CellOf(SrcAt(o))
           d == CellOf(DstAt(o))
           here == b = d.buf /\ k \in d.off .. d.off + n - 1
<1>1. /\ ChunkBounds /\ job # Idle /\ job \in Job
      /\ host \in [Buffer -> [0 .. BufSize - 1 -> Byte]]
  BY ChunkIsBounded DEF CopyInv, CopyChunk, MapInv, TypeOK
<1>2. /\ job'.off = o + n /\ job'.before = job.before
      /\ job'.dst = job.dst /\ job'.src = job.src /\ job'.size = job.size
      /\ region' = region
  <2>1. job' = [job EXCEPT !.off = @ + n] /\ region' = region
    BY DEF CopyChunk
  <2> HIDE DEF n
  <2> QED BY <1>1, <2>1 DEF Job
<1>3. /\ o \in Nat /\ n \in Nat /\ d.off \in Nat /\ s.off \in Nat /\ BufSize \in Nat
      /\ s.buf \in Buffer /\ d.buf \in Buffer
      /\ s.off + n <= BufSize
  <2>1. /\ s.off + Run(SrcAt(o)) <= BufSize /\ n <= Run(SrcAt(o))
        /\ Run(SrcAt(o)) \in Nat /\ n \in Nat
    BY <1>1 DEF ChunkBounds, ResolvedAt
  <2>2. /\ o \in Nat /\ d.off \in 0 .. BufSize - 1 /\ s.off \in 0 .. BufSize - 1
        /\ s.buf \in Buffer /\ d.buf \in Buffer /\ BufSize \in Nat
    BY <1>1, MemoryAssumption DEF ChunkBounds, ResolvedAt
  <2> HIDE DEF o, n, s, d
  <2> QED BY <2>1, <2>2
<1>4. host'[b][k] = IF here THEN host[s.buf][s.off + k - d.off] ELSE host[b][k]
  <2>1. host' = [host EXCEPT ![d.buf] =
                   [j \in 0 .. BufSize - 1 |->
                      IF j \in d.off .. d.off + n - 1
                        THEN host[s.buf][s.off + j - d.off]
                        ELSE host[d.buf][j]]]
    BY DEF CopyChunk
  <2> HIDE DEF s, d, n
  <2> QED BY <1>1, <1>3, <2>1
<1>5. \A i : i \in Hits(b, k)' <=>
              /\ i \in 0 .. o + n - 1
              /\ Mapped(DstAt(i)) /\ CellOf(DstAt(i)) = [buf |-> b, off |-> k]
  <2> TAKE i
  <2>1. i \in Hits(b, k)' <=>
           /\ i \in 0 .. job'.off - 1
           /\ Mapped(DstAt(i)) /\ CellOf(DstAt(i)) = [buf |-> b, off |-> k]
    BY <1>2, SameHits
  <2>2. o \in Nat /\ n \in Nat /\ job'.off = o + n
    BY <1>2, <1>3
  <2> HIDE DEF o, n
  <2>3. i \in 0 .. job'.off - 1 <=> i \in 0 .. o + n - 1
    BY <2>2
  <2> QED BY <2>1, <2>3
<1>6. \A t \in 0 .. n - 1 :
        /\ o + t \in 0 .. job.size - 1
        /\ Mapped(SrcAt(o + t)) /\ Mapped(DstAt(o + t))
        /\ CellOf(SrcAt(o + t)) = [buf |-> s.buf, off |-> s.off + t]
        /\ CellOf(DstAt(o + t)) = [buf |-> d.buf, off |-> d.off + t]
  BY CellsOfTheRun
<1>7. job.size \in Nat /\ o < job.size
  BY <1>1 DEF ChunkBounds
<1>8. \A c \in Buffer, j \in 0 .. BufSize - 1 : ExactAt(c, j)
  BY <1>1 DEF CopyInv
<1> HIDE DEF n, s, d
<1>9. CASE here
  <2> DEFINE t == k - d.off
  <2>1. t \in 0 .. n - 1 /\ d.off + t = k /\ s.off + k - d.off = s.off + t
        /\ s.off + t \in 0 .. BufSize - 1
    BY <1>3, <1>9
  <2> HIDE DEF t
  <2>2. /\ o + t \in 0 .. job.size - 1
        /\ Mapped(SrcAt(o + t)) /\ Mapped(DstAt(o + t))
        /\ CellOf(SrcAt(o + t)) = [buf |-> s.buf, off |-> s.off + t]
        /\ CellOf(DstAt(o + t)) = [buf |-> d.buf, off |-> d.off + t]
    BY <1>6, <2>1
  <2>3. o + t \in Hits(b, k)'
    BY <1>3, <1>5, <1>9, <2>1, <2>2
  <2>4. \A i \in Hits(b, k)' : i <= o + t
    <3> SUFFICES ASSUME NEW i \in Hits(b, k)', i > o + t PROVE FALSE
      BY <1>3, <1>5, <2>1
    <3>1. i \in 0 .. o + n - 1 /\ CellOf(DstAt(i)) = [buf |-> b, off |-> k]
      BY <1>5
    <3>2. PICK u \in 0 .. n - 1 : i = o + u
      <4>1. i - o \in 0 .. n - 1 /\ i = o + (i - o)
        BY <1>3, <2>1, <3>1
      <4> QED BY <4>1
    <3>3. CellOf(DstAt(i)) = [buf |-> d.buf, off |-> d.off + u]
      BY <1>6, <3>2
    <3>4. d.off + u = d.off + t
      BY <2>1, <3>1, <3>3
    <3> QED BY <1>3, <2>1, <3>2, <3>4
  <2>5. Hits(s.buf, s.off + t) = {}
    <3> SUFFICES ASSUME NEW i \in Hits(s.buf, s.off + t) PROVE FALSE
      OBVIOUS
    <3>1. /\ i \in 0 .. o - 1 /\ Mapped(DstAt(i))
          /\ CellOf(DstAt(i)) = [buf |-> s.buf, off |-> s.off + t]
      BY DEF Hits
    <3>2. i \in 0 .. job.size - 1
      BY <1>3, <1>7, <3>1
    <3>3. CellOf(DstAt(i)) \in DstCells
      BY <3>1, <3>2 DEF DstCells
    <3>4. CellOf(SrcAt(o + t)) \in SrcCells
      BY <2>2 DEF SrcCells
    <3> QED BY <2>2, <3>1, <3>3, <3>4 DEF Apart
  <2>6. host[s.buf][s.off + t] = job.before[s.buf][s.off + t]
    BY <1>3, <1>8, <2>1, <2>5 DEF ExactAt
  <2>7. PICK p \in Nat : p = o + t
    BY <1>3, <2>1
  <2>8. host'[b][k] = job'.before[CellOf(SrcAt(p)).buf][CellOf(SrcAt(p)).off]
    BY <1>2, <1>4, <1>9, <2>1, <2>2, <2>6, <2>7
  <2>9. CellOf(SrcAt(p))' = CellOf(SrcAt(p))
    BY <1>2, SamePlaces
  <2>10. /\ p \in Hits(b, k)' /\ \A j \in Hits(b, k)' : j <= p
         /\ host'[b][k] = job'.before[CellOf(SrcAt(p))'.buf][CellOf(SrcAt(p))'.off]
    BY <2>3, <2>4, <2>7, <2>8, <2>9
  <2> QED
    BY <2>10 DEF ExactAt
<1>10. CASE ~here
  <2>1. Hits(b, k)' = Hits(b, k)
    <3>1. ASSUME NEW i \in 0 .. o + n - 1, CellOf(DstAt(i)) = [buf |-> b, off |-> k]
          PROVE  i \in 0 .. o - 1
      <4> SUFFICES ASSUME i >= o PROVE FALSE
        BY <1>3
      <4>1. PICK u \in 0 .. n - 1 : i = o + u
        <5>1. i - o \in 0 .. n - 1 /\ i = o + (i - o)
          BY <1>3
        <5> QED BY <5>1
      <4>2. CellOf(DstAt(i)) = [buf |-> d.buf, off |-> d.off + u]
        BY <1>6, <4>1
      <4>3. b = d.buf /\ k = d.off + u
        BY <3>1, <4>2
      <4>4. k \in d.off .. d.off + n - 1
        BY <1>3, <4>1, <4>3
      <4> QED BY <1>10, <4>3, <4>4
    <3>2. \A i \in 0 .. o - 1 : i \in 0 .. o + n - 1
      BY <1>3
    <3> QED
      BY <1>5, <3>1, <3>2 DEF Hits
  <2>2. host'[b][k] = host[b][k]
    BY <1>4, <1>10
  <2> QED
    BY <1>2, <1>8, <2>1, <2>2, StillExact
<1> QED
  BY <1>9, <1>10

LEMMA InitCopy == Init => CopyInv
<1> SUFFICES ASSUME Init PROVE CopyInv
  OBVIOUS
<1>1. CopyBounds
  BY DEF Init, CopyBounds
<1> QED
  BY <1>1, InitMap DEF Init, CopyInv

(* While no copy runs there is nothing to be exact about.                  *)
LEMMA NoCopy ==
  ASSUME CopyInv, MapInv', job' = Idle,
         \A i \in Slot : region'[i] # Free => region'[i].base + region'[i].size <= Top
  PROVE  CopyInv'
  BY DEF CopyInv, CopyBounds

LEMMA SameState ==
  ASSUME CopyInv, UNCHANGED vars
  PROVE  CopyInv'
<1>1. MapInv'
  BY SameTable DEF CopyInv, MapInv, TypeOK, vars
<1>2. region' = region /\ host' = host /\ job' = job
  BY DEF vars
<1>3. Apart' = Apart
  BY <1>2, SameCopy
<1>4. ASSUME job # Idle, Apart, NEW b \in Buffer, NEW k \in 0 .. BufSize - 1
      PROVE  ExactAt(b, k)'
  <2>1. ExactAt(b, k)
    BY <1>4 DEF CopyInv
  <2>2. \A i : i \in Hits(b, k)' <=> i \in Hits(b, k)
    BY <1>2, SameHits DEF Hits
  <2>3. Hits(b, k)' = Hits(b, k)
    BY <2>2
  <2> QED
    BY <1>2, <2>1, <2>3, StillExact
<1> QED
  BY <1>1, <1>2, <1>3, <1>4 DEF CopyInv, CopyBounds

LEMMA BeginIsExact ==
  ASSUME CopyInv, NEW dst \in Addr, NEW src \in Addr, NEW size \in 1 .. Top,
         CopyBegin(dst, src, size)
  PROVE  CopyInv'
<1>1. MapInv'
  BY BeginKeepsMap DEF CopyInv
<1>2. /\ job' = [dst |-> dst, src |-> src, size |-> size, off |-> 0, before |-> host]
      /\ host' = host /\ region' = region
  BY DEF CopyBegin
<1>3. CopyBounds'
  <2>1. size \in Nat /\ size <= Top /\ Top \in Nat
    BY MemoryAssumption
  <2> QED BY <1>2, <2>1 DEF CopyInv, CopyBounds
<1>4. ASSUME NEW b \in Buffer, NEW k \in 0 .. BufSize - 1
      PROVE  ExactAt(b, k)'
  <2>1. Hits(b, k)' = {}
    BY <1>2 DEF Hits
  <2> QED
    BY <1>2, <2>1 DEF ExactAt
<1> QED
  BY <1>1, <1>3, <1>4 DEF CopyInv

LEMMA ChunkKeepsCopy ==
  ASSUME CopyInv, CopyChunk
  PROVE  CopyInv'
<1>1. MapInv' /\ ChunkBounds
  BY ChunkKeepsMap, ChunkIsBounded DEF CopyInv
<1>2. /\ job \in Job /\ job # Idle
      /\ job' = [job EXCEPT !.off = @ + Chunk] /\ region' = region
  BY DEF CopyInv, MapInv, TypeOK, CopyChunk
<1>3. /\ job'.off = job.off + Chunk /\ job'.size = job.size
      /\ job'.dst = job.dst /\ job'.src = job.src
  BY <1>2 DEF Job
<1>4. CopyBounds'
  BY <1>1, <1>2, <1>3 DEF CopyInv, CopyBounds, ChunkBounds
<1>5. Apart' = Apart
  BY <1>2, <1>3, SameCopy
<1>6. Apart => \A b \in Buffer, k \in 0 .. BufSize - 1 : ExactAt(b, k)'
  BY ChunkIsExact
<1> QED
  BY <1>1, <1>4, <1>5, <1>6 DEF CopyInv

LEMMA StepCopy == CopyInv /\ [Next]_vars => CopyInv'
<1> SUFFICES ASSUME CopyInv, [Next]_vars PROVE CopyInv'
  OBVIOUS
<1>0. MapInv'
  BY StepMap DEF CopyInv
<1>1. CASE \E r \in Candidate : AddRegion(r)
  <2> PICK r \in Candidate : AddRegion(r)
    BY <1>1
  <2>1. PICK n \in Slot : region' = [region EXCEPT ![n] = r]
    BY DEF AddRegion
  <2>2. r.base + r.size <= Top
    BY MemoryAssumption
  <2>3. region \in [Slot -> Region \cup {Free}]
    BY DEF CopyInv, MapInv, TypeOK
  <2>4. \A i \in Slot : region'[i] = IF i = n THEN r ELSE region[i]
    BY <2>1, <2>3
  <2> QED
    BY <1>0, <2>2, <2>4, NoCopy DEF AddRegion, CopyInv, CopyBounds
<1>2. CASE \E a \in Addr, v \in Byte : WriteByte(a, v)
  BY <1>0, <1>2, NoCopy DEF WriteByte, CopyInv, CopyBounds
<1>3. CASE \E a \in Addr : ReadByte(a)
  BY <1>0, <1>3, NoCopy DEF ReadByte, CopyInv, CopyBounds
<1>4. CASE \E dst, src \in Addr, size \in 1 .. Top : CopyBegin(dst, src, size)
  BY <1>4, BeginIsExact
<1>5. CASE CopyChunk
  BY <1>5, ChunkKeepsCopy
<1>6. CASE CopyEnd
  BY <1>0, <1>6, NoCopy DEF CopyEnd, CopyInv, CopyBounds
<1>7. CASE UNCHANGED vars
  BY <1>7, SameState
<1> QED
  BY <1>1, <1>2, <1>3, <1>4, <1>5, <1>6, <1>7 DEF Next

(* A copy into writable windows whose ranges share no host byte is exact,  *)
(* whatever the windows that it crosses: PpcCopyGuestMemory                *)
(* (interpreter.c:988 to 1033).                                            *)
THEOREM CopiesAreExact == Spec => []CopyIsExact
<1>1. Spec => []CopyInv
  BY InitCopy, StepCopy, PTL DEF Spec
<1> QED
  BY <1>1, ExactnessSuffices, PTL
=============================================================================
