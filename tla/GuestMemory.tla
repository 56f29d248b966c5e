---------------------------- MODULE GuestMemory ----------------------------
(***************************************************************************)
(* The guest's physical memory map (src/cpu/interpreter.c): a table of     *)
(* regions, each a window of guest addresses on a host buffer, installed   *)
(* by the boot code and never removed; byte loads and stores through it;   *)
(* and PpcCopyGuestMemory, which serves the guest's BlockMove and resolves *)
(* host pointers itself, one contiguous run at a time.                     *)
(*                                                                         *)
(* Several windows may show the same buffer: the New World ROM image is    *)
(* mapped at five places (bootloader_impl.c:1529).  The device registers   *)
(* that shadow the map are those of module SccFifo; here their reads       *)
(* answer anything.                                                        *)
(***************************************************************************)
EXTENDS Naturals, FiniteSetsExt

CONSTANTS
  Top,         \* 2^32: guest addresses are 0 .. Top - 1 and wrap
  MaxRegions,  \* PPC_MAX_GUEST_REGIONS
  Buffer,      \* the host allocations
  BufSize,     \* how many bytes each holds
  Byte,
  Candidate,   \* the windows the boot code may ask for
  DevRead,     \* the SCC registers, served before the map is searched
  DevSink,     \* the SCC registers whose stores do not reach the map
  Free,        \* a slot whose Active flag is off
  Idle         \* no copy is running

Addr == 0 .. Top - 1
Slot == 1 .. MaxRegions
Region == [buf : Buffer, base : Addr, size : 1 .. BufSize, ro : BOOLEAN]

ASSUME MemoryAssumption ==
  /\ Top \in Nat \ {0}
  /\ MaxRegions \in Nat
  /\ BufSize \in Nat \ {0}
  /\ Byte \subseteq Nat /\ 0 \in Byte
  /\ Candidate \subseteq Region
  /\ \A r \in Candidate : r.base + r.size <= Top
  /\ DevRead \subseteq Addr
  /\ DevSink \subseteq Addr
  /\ Free \notin Region

Job == [dst : Addr, src : Addr, size : Nat, off : Nat,
        before : [Buffer -> [0 .. BufSize - 1 -> Byte]]]

ASSUME IdleAssumption == Idle \notin Job

VARIABLES
  region,  \* g_GuestRegions: a window or Free
  host,    \* the bytes of the host buffers
  rdata,   \* the value the last load returned
  job      \* the running PpcCopyGuestMemory; before: host when it began

vars == <<region, host, rdata, job>>

TypeOK ==
  /\ region \in [Slot -> Region \cup {Free}]
  /\ host \in [Buffer -> [0 .. BufSize - 1 -> Byte]]
  /\ rdata \in Byte
  /\ job \in Job \cup {Idle}

Init ==
  /\ region = [i \in Slot |-> Free]
  /\ host \in [Buffer -> [0 .. BufSize - 1 -> Byte]]
  /\ rdata = 0
  /\ job = Idle

Covers(r, a) == r # Free /\ r.base <= a /\ a - r.base < r.size

Mapped(a) == \E i \in Slot : Covers(region[i], a)

\* Lookup is in insertion order; the first region that contains a wins.
WindowOf(a) == region[CHOOSE i \in Slot :
                        /\ Covers(region[i], a)
                        /\ \A j \in Slot : Covers(region[j], a) => i <= j]

CellOf(a) == [buf |-> WindowOf(a).buf, off |-> a - WindowOf(a).base]

\* Mutant of Overlaps: only the base of the new window is looked up.
OverlapsAtBase(r, s) == s # Free /\ s.base <= r.base /\ r.base - s.base < s.size

Overlaps(r, s) ==
  s # Free /\ IF r.base < s.base THEN r.base + r.size > s.base
                                 ELSE r.base - s.base < s.size

-----------------------------------------------------------------------------
\* A window that overlaps an installed one is refused, as is one too many.
AddRegion(r) ==
  /\ job = Idle
  /\ \A i \in Slot : ~Overlaps(r, region[i])
  /\ \E i \in Slot : /\ region[i] = Free
                     /\ \A j \in Slot : region[j] = Free => i <= j
                     /\ region' = [region EXCEPT ![i] = r]
  /\ UNCHANGED <<host, rdata, job>>

\* A store to a read-only window, to a register or to a hole is dropped.
WriteByte(a, v) ==
  /\ job = Idle
  /\ a \in Addr \ DevSink
  /\ Mapped(a)
  /\ ~WindowOf(a).ro
  /\ host' = [host EXCEPT ![CellOf(a).buf][CellOf(a).off] = v]
  /\ UNCHANGED <<region, rdata, job>>

\* What the guest finds at an address of the map; a hole reads as zero.
Contents(a) == IF Mapped(a) THEN host[CellOf(a).buf][CellOf(a).off] ELSE 0

ReadByte(a) ==
  /\ job = Idle
  /\ rdata' \in IF a \in DevRead THEN Byte ELSE {Contents(a)}
  /\ UNCHANGED <<region, host, job>>

-----------------------------------------------------------------------------
(* PpcCopyGuestMemory(dst, src, size).                                     *)

CopyBegin(dst, src, size) ==
  /\ job = Idle
  /\ job' = [dst |-> dst, src |-> src, size |-> size, off |-> 0, before |-> host]
  /\ UNCHANGED <<region, host, rdata>>

DstAt(k) == (job.dst + k) % Top
SrcAt(k) == (job.src + k) % Top

\* How many bytes of its window follow a, a included.
Run(a) == WindowOf(a).size - (a - WindowOf(a).base)

\* Mutant of Chunk: the destination's window is not looked at.
ChunkOfSource == Min({job.size - job.off, Run(SrcAt(job.off))})

\* Mutant of Chunk: an off-by-one in the run that is left.
ChunkShort == Min({job.size - job.off, Run(SrcAt(job.off)) - 1, Run(DstAt(job.off)) - 1})

Chunk == Min({job.size - job.off, Run(SrcAt(job.off)), Run(DstAt(job.off))})

NoRun == Mapped(SrcAt(job.off)) /\ Mapped(DstAt(job.off)) => Chunk = 0

\* One turn of the loop.  CopyMem copies as if through a temporary; neither
\* the read-only flag nor the device registers are looked at.
CopyChunk ==
  /\ job # Idle
  /\ job.off < job.size
  /\ ~NoRun
  /\ LET n == Chunk
         s == CellOf(SrcAt(job.off))
         d == CellOf(DstAt(job.off))
     IN /\ host' = [host EXCEPT ![d.buf] =
                      [k \in 0 .. BufSize - 1 |->
                         IF k \in d.off .. d.off + n - 1
                           THEN host[s.buf][s.off + k - d.off]
                           ELSE @[k]]]
        /\ job' = [job EXCEPT !.off = @ + n]
  /\ UNCHANGED <<region, rdata>>

\* Everything is copied, or there is no run at this offset: one side has no
\* region there, or the run is empty.
CopyEnd ==
  /\ job # Idle
  /\ job.off < job.size => NoRun
  /\ job' = Idle
  /\ UNCHANGED <<region, host, rdata>>

Next == \/ \E r \in Candidate : AddRegion(r)
        \/ \E a \in Addr, v \in Byte : WriteByte(a, v)
        \/ \E a \in Addr : ReadByte(a)
        \/ \E dst, src \in Addr, size \in 1 .. Top : CopyBegin(dst, src, size)
        \/ CopyChunk
        \/ CopyEnd

\* The loop of PpcCopyGuestMemory keeps turning.
Spec == Init /\ [][Next]_vars /\ WF_vars(CopyChunk \/ CopyEnd)

-----------------------------------------------------------------------------
(* No address belongs to two windows, so that the order of insertion,      *)
(* which decides what a load, a store and a copy resolve to, never         *)
(* matters, and a window cannot shadow one the host keeps pointers into.   *)
RegionsDisjoint ==
  \A i, j \in Slot : \A a \in Addr :
    Covers(region[i], a) /\ Covers(region[j], a) => i = j

DstCells == {CellOf(DstAt(k)) : k \in {k \in 0 .. job.size - 1 : Mapped(DstAt(k))}}
SrcCells == {CellOf(SrcAt(k)) : k \in {k \in 0 .. job.size - 1 : Mapped(SrcAt(k))}}

\* What the copy is to write lies in no read-only window.
ToWritable == \A k \in 0 .. job.size - 1 : Mapped(DstAt(k)) => ~WindowOf(DstAt(k)).ro

(* A copy into writable windows, between ranges that share no host byte,   *)
(* delivers after any of its runs exactly the source bytes as they were    *)
(* when it began, however the two ranges are cut into windows, aliased or  *)
(* wrapped at the top of the address space, and it touches no byte outside *)
(* the destination.  Copies into a read-only window are not spoken of:     *)
(* PpcCopyGuestMemory stores there (interpreter.c:1030), where the map is  *)
(* meant to enforce the flag (ARCHITECTURE.md:161).                        *)
CopyIsExact ==
  job # Idle /\ ToWritable /\ DstCells \cap SrcCells = {} =>
    \A b \in Buffer, k \in 0 .. BufSize - 1 :
      LET hits == {i \in 0 .. job.off - 1 :
                     Mapped(DstAt(i)) /\ CellOf(DstAt(i)) = [buf |-> b, off |-> k]}
      IN IF hits = {} THEN host[b][k] = job.before[b][k]
         ELSE LET s == CellOf(SrcAt(Max(hits))) IN host[b][k] = job.before[s.buf][s.off]

(* Every copy ends, and one whose two ranges have no hole ends only when   *)
(* all of it is copied: the loop leaves early for a hole alone.            *)
CopyTerminates ==
  /\ job # Idle ~> job = Idle
  /\ (job # Idle /\ \A k \in 0 .. job.size - 1 : Mapped(SrcAt(k)) /\ Mapped(DstAt(k)))
       ~> (job # Idle /\ job.off = job.size)
=============================================================================
