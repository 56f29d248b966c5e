----------------------------- MODULE HfsVolume -----------------------------
(***************************************************************************)
(* The HFS and HFS+ reader (src/fs/hfs.c): mounting a volume on one of the *)
(* enumerated block devices, and reading a file's data fork through the    *)
(* extents of its catalog record and, on a classic volume, through the     *)
(* records of the extents-overflow index.                                  *)
(*                                                                         *)
(* A volume is what its structures on disk say: the catalog's files, the   *)
(* overflow records in the order of their leaf nodes, and how much of the  *)
(* catalog file the extents in the volume header cover.  A byte of a file  *)
(* is identified by its device and its place on it.  Names and folders are *)
(* left out.  Devices may fail at any read.                                *)
(***************************************************************************)
EXTENDS Integers, Sequences, SequencesExt

CONSTANTS
  Devices,    \* how many block devices are enumerated
  Disks,      \* what the devices may hold: for each a volume or NoVolume
  NoVolume,
  AlBlk,      \* bytes in an allocation block
  MaxOvf,     \* PPC_HFS_MAX_OVF
  Capacity,   \* the buffer sizes callers pass
  AutoDevice, \* PPC_HFS_AUTO_DEVICE
  Idle        \* no read is running; no volume was ever mounted

Device == 0 .. Devices - 1
Volume == (UNION {{d[i] : i \in Device} : d \in Disks}) \ {NoVolume}
Entry == UNION {v.entries : v \in Volume}

\* What the code keeps of a catalog record and of an overflow record: extents
\* that are not empty.
Run == [block : Nat, count : Nat \ {0}]
CatalogFile == [id : Nat, size : Nat, exts : Seq(Run)]
OvfRecord == [id : Nat, fabn : Nat, exts : Seq(Run)]

\* The extents say the truth about the fork from block first up to last.
Truthful(fork, first, last, exts) ==
  \E start \in [1 .. Len(exts) + 1 -> 0 .. last] :
    /\ start[1] = first /\ start[Len(exts) + 1] = last
    /\ \A j \in 1 .. Len(exts) :
         /\ start[j + 1] = start[j] + exts[j].count
         /\ \A o \in 1 .. exts[j].count : fork[start[j] + o] = exts[j].block + o - 1

\* They do, and what else describes the file begins at one of rest, behind them.
Describes(fork, first, exts, rest) ==
  \E last \in 0 .. Len(fork) :
    Truthful(fork, first, last, exts) /\ \A b \in rest : last <= b

\* A volume whose records agree with the forks they describe.
Consistent(v) ==
  /\ v.kind \in {"classic", "plus"}
  /\ v.entries \subseteq CatalogFile /\ v.ovf \in Seq(OvfRecord)
  /\ \A id \in DOMAIN v.fork : v.fork[id] \in Seq(Nat) /\ IsInjective(v.fork[id])
  /\ \A e \in v.entries :
       /\ e.id \in DOMAIN v.fork
       /\ e.size <= AlBlk * Len(v.fork[e.id])
       /\ Describes(v.fork[e.id], 0, e.exts,
                    {v.ovf[n].fabn : n \in {n \in DOMAIN v.ovf : v.ovf[n].id = e.id}})
  /\ \A m \in DOMAIN v.ovf :
       /\ v.ovf[m].id \in DOMAIN v.fork
       /\ Describes(v.fork[v.ovf[m].id], v.ovf[m].fabn, v.ovf[m].exts,
                    {v.ovf[n].fabn : n \in {n \in DOMAIN v.ovf :
                       n # m /\ v.ovf[n].id = v.ovf[m].id /\ v.ovf[m].fabn <= v.ovf[n].fabn}})

ASSUME VolumeAssumption ==
  /\ Devices \in Nat \ {0}
  /\ AlBlk \in Nat \ {0}
  /\ MaxOvf \in Nat
  /\ Capacity \subseteq Nat
  /\ AutoDevice \notin Device
  /\ Idle \notin Device
  /\ \A d \in Disks : DOMAIN d = Device
  /\ \A v \in Volume : Consistent(v)

VARIABLES
  disk,     \* what the devices hold
  pref,     \* g_HfsPreferredDevice
  dev,      \* g_HfsDeviceIndex, the device every read goes to
  vol,      \* g_HfsVolume: its device and kind
  mounted,  \* g_HfsMounted
  tables,   \* which of the arrays are allocated
  catalog,  \* g_HfsFiles
  index,    \* g_HfsOvf
  rd        \* the running or last read of a file

vars == <<disk, pref, dev, vol, mounted, tables, catalog, index, rd>>

Init ==
  /\ disk \in Disks
  /\ pref \in Device \cup {AutoDevice}
  /\ dev = 0
  /\ vol = Idle
  /\ mounted = FALSE
  /\ tables = {}
  /\ catalog = {}
  /\ index = <<>>
  /\ rd = Idle

Smaller(a, b) == IF a < b THEN a ELSE b

-----------------------------------------------------------------------------
(* Mounting.  The callers mount only when no volume is mounted.            *)

\* The devices are tried in this order: the pinned one, then the others.
Before(a, b) == IF pref \in {a, b} THEN a = pref ELSE a < b

Readable(d, bad) == disk[d] # NoVolume /\ d \notin bad

First(d, bad) ==
  /\ Readable(d, bad)
  /\ \A c \in Device : c # d /\ Before(c, d) => ~Readable(c, bad)

LastTried == CHOOSE d \in Device : \A c \in Device : c # d => Before(c, d)

\* Mutant of Found: the other devices are tried as well.
FoundAndOn(d, bad) == First(d, bad) /\ dev' = LastTried

\* The first device that holds a volume and can be read; detecting leaves
\* the device index at the last one tried.
Found(d, bad) == First(d, bad) /\ dev' = d

\* No device answers, or none holds a volume.
MountFindsNothing ==
  /\ ~mounted
  /\ \E bad \in SUBSET Device :
       \A d \in Device : ~Readable(d, bad)
  /\ dev' = LastTried
  /\ UNCHANGED <<disk, pref, vol, mounted, tables, catalog, index, rd>>

\* An allocation fails after the old arrays are freed.
MountRunsOut ==
  /\ ~mounted
  /\ \E d \in Device, bad \in SUBSET Device : Found(d, bad)
  /\ tables' \in {{}, {"dirs"}}
  /\ UNCHANGED <<disk, pref, vol, mounted, catalog, index, rd>>

\* The volume header or one of the B-trees cannot be read.
MountFailsToLoad ==
  /\ ~mounted
  /\ \E d \in Device, bad \in SUBSET Device :
       /\ Found(d, bad)
       /\ vol' = [device |-> d, kind |-> disk[d].kind]
       /\ tables' \in {{"dirs", "files"}} \cup
            (IF disk[d].kind = "classic" THEN {{"dirs", "files", "xof"}} ELSE {})
  /\ UNCHANGED <<disk, pref, mounted, catalog, index, rd>>

OvfBefore(r, s) == IF r.id = s.id THEN r.fabn < s.fabn ELSE r.id < s.id

\* r goes behind the last record that does not belong after it.
Inserted(s, r) ==
  InsertAt(s, 1 + Max({0} \cup {n \in DOMAIN s : ~OvfBefore(r, s[n])}), r)

\* The first n records, in order.
Sorted(s, n) ==
  LET sorted[m \in 0 .. n] == IF m = 0 THEN <<>> ELSE Inserted(sorted[m - 1], s[m])
  IN  sorted[n]

\* Mutant of Indexed: the records stay in the order of their leaf nodes.
IndexedUnsorted(v) == SubSeq(v.ovf, 1, Smaller(Len(v.ovf), MaxOvf))

\* The first MaxOvf records the leaf nodes hold, sorted.
Indexed(v) == Sorted(v.ovf, Smaller(Len(v.ovf), MaxOvf))

\* What the extents of the volume header do not cover is never read: the
\* parser then finds in the rest of the buffer whatever was there.
Parsed(v) == IF v.catSize <= v.catRoom THEN {v.entries} ELSE SUBSET Entry

Mount ==
  /\ ~mounted
  /\ \E d \in Device, bad \in SUBSET Device :
       /\ Found(d, bad)
       /\ vol' = [device |-> d, kind |-> disk[d].kind]
       /\ tables' = {"dirs", "files", "cat"} \cup
            (IF disk[d].kind = "classic" THEN {"xof"} ELSE {})
       /\ catalog' \in Parsed(disk[d])
       /\ index' = IF disk[d].kind = "classic" THEN Indexed(disk[d]) ELSE index
  /\ mounted' = TRUE
  /\ UNCHANGED <<disk, pref, rd>>

-----------------------------------------------------------------------------
(* Reading a file.                                                         *)

Running == rd # Idle /\ rd.status = "running"

ReadBegin(e, cap) ==
  /\ mounted
  /\ ~Running
  /\ rd' = [entry |-> e, cap |-> cap, want |-> Smaller(e.size, cap),
            exts |-> e.exts, logical |-> 0, pos |-> 1, buf |-> <<>>,
            status |-> "running"]
  /\ UNCHANGED <<disk, pref, dev, vol, mounted, tables, catalog, index>>

More == Running /\ Len(rd.buf) < rd.want

\* Mutant of Piece: the extent is read whole.
PieceWhole(x) == x.count * AlBlk

\* How much of an extent is read.
Piece(x) == Smaller(x.count * AlBlk, rd.want - Len(rd.buf))

\* The head of the extents is read into the buffer.
TakeExtent ==
  /\ More
  /\ rd.exts # <<>>
  /\ LET x == Head(rd.exts)
     IN rd' = [rd EXCEPT
                 !.exts = Tail(@),
                 !.logical = @ + x.count,
                 !.buf = @ \o [i \in 1 .. Piece(x) |-> <<dev, x.block * AlBlk + i - 1>>]]
  /\ UNCHANGED <<disk, pref, dev, vol, mounted, tables, catalog, index>>

Finish(status) ==
  /\ rd' = [rd EXCEPT !.status = status]
  /\ UNCHANGED <<disk, pref, dev, vol, mounted, tables, catalog, index>>

ReadFails == More /\ rd.exts # <<>> /\ Finish("device_error")

\* The next record of the file in the index, or one past its end.
NextRecord ==
  IF \E i \in rd.pos .. Len(index) : index[i].id = rd.entry.id
    THEN CHOOSE i \in rd.pos .. Len(index) :
           /\ index[i].id = rd.entry.id
           /\ \A j \in rd.pos .. i - 1 : index[j].id # rd.entry.id
    ELSE Len(index) + 1

\* Mutant of Continues: a record further down the file is taken as well.
ContinuesAnywhere(i) == i <= Len(index)

Continues(i) == i <= Len(index) /\ index[i].fabn <= rd.logical

PullOverflow ==
  /\ More
  /\ rd.exts = <<>>
  /\ vol.kind = "classic"
  /\ Continues(NextRecord)
  /\ rd' = [rd EXCEPT !.exts = index[NextRecord].exts, !.pos = NextRecord + 1]
  /\ UNCHANGED <<disk, pref, dev, vol, mounted, tables, catalog, index>>

\* Mutant of ReadRunsOut: the search is tried again.
ReadTriesAgain ==
  /\ More
  /\ rd.exts = <<>>
  /\ vol.kind = "plus" \/ ~Continues(NextRecord)
  /\ UNCHANGED vars

\* Nothing continues the file here: the overflow records are used up, the
\* next one belongs further down, or the volume has none.
ReadRunsOut ==
  /\ More
  /\ rd.exts = <<>>
  /\ vol.kind = "plus" \/ ~Continues(NextRecord)
  /\ Finish("end_of_media")

ReadEnd ==
  /\ Running
  /\ Len(rd.buf) >= rd.want
  /\ Finish(IF rd.entry.size > rd.cap THEN "too_small" ELSE "success")

ReadStep == TakeExtent \/ ReadFails \/ PullOverflow \/ ReadRunsOut \/ ReadEnd

Next == \/ MountFindsNothing \/ MountRunsOut \/ MountFailsToLoad \/ Mount
        \/ \E e \in catalog, cap \in Capacity : ReadBegin(e, cap)
        \/ ReadStep

\* The loops of a read keep turning.
Spec == Init /\ [][Next]_vars /\ WF_vars(ReadStep)

-----------------------------------------------------------------------------
TheVolume == disk[vol.device]

ByteAt(fork, k) == fork[(k \div AlBlk) + 1] * AlBlk + (k % AlBlk)

(* Every byte that a read has delivered, whether it goes on, ended or      *)
(* failed, is the byte of the file at that place: however the fork is cut  *)
(* into extents and overflow records, in whatever order their leaf nodes   *)
(* hold them, with records of other files between them, and when the index *)
(* had no room for some of them; and the buffer is never overrun.          *)
ReadIsExact ==
  rd # Idle =>
    /\ Len(rd.buf) <= rd.want /\ rd.want <= rd.cap
    /\ \A i \in 1 .. Len(rd.buf) :
         rd.buf[i] = <<vol.device, ByteAt(TheVolume.fork[rd.entry.id], i - 1)>>

RangeOf(s) == {s[i] : i \in 1 .. Len(s)}

Extents(v, e) == RangeOf(e.exts) \cup
                 UNION {RangeOf(r.exts) : r \in {r \in RangeOf(v.ovf) : r.id = e.id}}

(* A file whose every block is described by a record that fits the index   *)
(* is read to its end: end of media is only reported when something is     *)
(* missing.                                                                *)
DescribedFilesAreRead ==
  rd # Idle /\ rd.status = "end_of_media" =>
    \/ Len(TheVolume.ovf) > MaxOvf
    \/ \E b \in RangeOf(TheVolume.fork[rd.entry.id]) :
         \A x \in Extents(TheVolume, rd.entry) : b \notin x.block .. x.block + x.count - 1

(* What the reader uses once a mount has succeeded is all of one volume,   *)
(* whatever earlier attempts on other devices left behind: the device the  *)
(* reads go to, the kind that selects the fork's layout, and the index.    *)
MountedIsOneVolume ==
  mounted =>
    /\ dev = vol.device
    /\ disk[dev] # NoVolume
    /\ vol.kind = TheVolume.kind
    /\ {"dirs", "files", "cat"} \subseteq tables
    /\ RangeOf(index) \subseteq RangeOf(TheVolume.ovf)

(* Every read ends.                                                        *)
ReadsEnd == Running ~> ~Running
=============================================================================
