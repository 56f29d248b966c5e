------------------------------ MODULE EmulOps ------------------------------
(***************************************************************************)
(* The host services the guest reaches through EMUL_OP selectors           *)
(* (EmulOpDispatch, src/src/cpu/emul_op.c), over the clock and timers of   *)
(* HostTimers and the devices of HostDevices: the battery-backed memory    *)
(* with its two windows XPRAM and NVRAM, the clipboard, and the disk       *)
(* driver's Prime call, which reads the second block device of the host.   *)
(***************************************************************************)
EXTENDS HostTimers, HostDevices

CONSTANTS NvramSize,    \* bytes of g_Xpram, 0x2000
          XpramBase,    \* where the XPRAM window lies in it, 0x300
          XpramSize,    \* its bytes, 0x100
          LocalTalk,    \* 0x13E0, the first of four cells with a default
          ScrapSize,    \* bytes of g_Scrap
          ScrapWindow,  \* bytes one GET_SCRAP delivers at most, 512
          SectorMax,    \* the Sector buffer, 2048
          Align,        \* 0x100: the low part of ioPosOffset is ignored
          Volume,       \* what the HFS reader may have mounted: [device, base, bytes]
          Buffer,       \* where the guest wants data, 0 included
          Scratch,      \* where it wants bytes of the battery or the clipboard
          Bytes,        \* strings of bytes the guest hands over
          Colour, Sample, Corner, Extent, Index, Count, Offset, RefNum,
          MaxStores,    \* bound on what one behaviour of a family has stored
          MaxPrimes     \* bound on the disk calls of one behaviour

ASSUME ServiceAssumption ==
  /\ {NvramSize, XpramBase, LocalTalk, ScrapSize, ScrapWindow} \subseteq Nat
  /\ {XpramSize, Align, SectorMax, Word} \subseteq Nat \ {0}
  /\ XpramBase + XpramSize <= NvramSize
  /\ LocalTalk + 3 < NvramSize

\* What the guest may ask for; its buffers are in its RAM.
ASSUME RequestAssumption ==
  /\ Volume \subseteq [device : Nat \union {-1}, base : Nat, bytes : Nat]
  /\ Bytes \subseteq Seq(Nat)
  /\ Colour \subseteq Nat \X Nat \X Nat \X Nat /\ Sample \subseteq Nat \X Nat
  /\ Corner \union Extent \subseteq 0 .. Word - 1
  /\ Index \union Count \union Offset \union RefNum \subseteq Nat
  /\ Buffer \subseteq Nat /\ \A b \in Buffer, n \in Count : b + n <= RamSize
  /\ Scratch \subseteq Nat
  /\ \A a \in Scratch : a + ScrapWindow <= RamSize /\ \A n \in Extent : a + n <= RamSize

VARIABLES xpram,     \* g_Xpram
          scrap,     \* g_Scrap
          scrapLen,  \* g_ScrapLen
          volume,    \* the mounted HFS volume, its device -1 when there is none
          actCount,  \* ioActCount of the last Prime call
          request,   \* history: that call
          family     \* the services a behaviour uses, as its bound

serviceVars == <<xpram, scrap, scrapLen, volume, actCount, request>>
vars == <<timerVars, deviceVars, serviceVars, family>>

Lower(a, b) == IF a < b THEN a ELSE b

\* The places of a run of bytes, stored one after the other.
StoredBytes(before, Place(_), bytes) ==
  drawn' = before \o [i \in DOMAIN bytes |->
                       [places |-> {Place(i - 1)}, value |-> bytes[i]]]
\* What is read goes to the history as well.
Answers(Place(_), bytes) ==
  answer' = {[place |-> Place(i - 1), value |-> bytes[i]] : i \in DOMAIN bytes}

-----------------------------------------------------------------------------
(* Battery-backed memory *)

Cell(k) == <<"nvram", k>>

\* A fresh battery; the code fills the array before its first use.
EmulXpramInit == [k \in 0 .. NvramSize - 1 |-> IF k = LocalTalk + 3 THEN 10 ELSE 0]

\* Mutant of XpramCell: the offset is not wrapped.
XpramCellUnwrapped(ofs) == (XpramBase + ofs) % NvramSize
XpramCell(ofs) == (ofs % XpramSize) + XpramBase

\* The last of the bytes that falls on a cell stays there.
Xpram1Write(ofs, bytes) ==
  /\ xpram' = [k \in DOMAIN xpram |->
                 LET hits == {i \in DOMAIN bytes : XpramCell(ofs + i - 1) = k}
                 IN  IF hits = {} THEN xpram[k]
                     ELSE bytes[CHOOSE i \in hits : \A j \in hits : j <= i]]
  /\ StoredBytes(drawn, LAMBDA i : Cell(XpramBase + ((ofs + i) % XpramSize)), bytes)
  /\ answer' = {}
  /\ UNCHANGED <<d0, ram>>

Xpram1Read(ofs, n, adr) ==
  /\ ram' = Fill(ram, adr, n, [i \in 0 .. n - 1 |-> xpram[XpramCell(ofs + i)]])
  /\ Answers(LAMBDA i : Cell(XpramBase + ((ofs + i) % XpramSize)),
             [i \in 1 .. n |-> ram'[adr + i - 1]])
  /\ UNCHANGED <<xpram, d0, drawn>>

\* The byte goes to D1.
Xpram2(d1) == /\ answer' = {[place |-> Cell(XpramBase + (d1 % XpramSize)),
                             value |-> xpram[XpramCell(d1)]]}
              /\ UNCHANGED <<xpram, d0, ram, drawn>>

StoresCell(k, meant, v) == /\ xpram' = [xpram EXCEPT ![k] = v]
                           /\ StoredBytes(drawn, LAMBDA i : Cell(meant), <<v>>)
                           /\ answer' = {}
                           /\ UNCHANGED ram

Xpram3(d1, v) == /\ StoresCell(XpramCell(d1), XpramBase + (d1 % XpramSize), v)
                 /\ UNCHANGED d0

\* While the first two LocalTalk cells are zero the four answer defaults,
\* whatever was stored in the other two.
Unset == xpram[LocalTalk] = 0 /\ xpram[LocalTalk + 1] = 0
Fallback(k) == <<0, 1, 0, 10>>[k - LocalTalk + 1]

Nvram1(ofs) ==
  LET k == ofs % NvramSize
      dflt == ofs \in LocalTalk .. LocalTalk + 3 /\ Unset
  IN  /\ d0' = IF dflt THEN Fallback(ofs) ELSE xpram[k]
      /\ answer' = IF dflt THEN {} ELSE {[place |-> Cell(k), value |-> d0']}
      /\ UNCHANGED <<xpram, ram, drawn>>

Nvram2(ofs, v) == /\ StoresCell(ofs % NvramSize, ofs % NvramSize, v)
                  /\ UNCHANGED d0

Nvram3Read(d4) == LET k == (d4 + XpramBase) % NvramSize
                  IN  /\ d0' = xpram[k]
                      /\ answer' = {[place |-> Cell(k), value |-> d0']}
                      /\ UNCHANGED <<xpram, ram, drawn>>

Nvram3Write(d4, v) == LET k == (d4 + XpramBase) % NvramSize
                      IN  /\ StoresCell(k, k, v)
                          /\ d0' = 0

-----------------------------------------------------------------------------
(* The clipboard *)

\* In the history a new text first takes the old one away, all of it.
NoByte == -1
TextGone == Append(drawn, [places |-> {<<"scrap", k>> : k \in 0 .. ScrapSize - 1}, value |-> NoByte])

\* The bytes stay where they are.
ZeroScrap == /\ scrapLen' = 0
             /\ drawn' = TextGone
             /\ answer' = {}
             /\ UNCHANGED <<ram, scrap>>

\* Mutant of PutScrap: a shorter text leaves the length of the one before.
PutScrapGrows(bytes) ==
  LET n == Lower(Len(bytes), ScrapSize)
  IN  /\ scrap' = [k \in DOMAIN scrap |-> IF k < n THEN bytes[k + 1] ELSE scrap[k]]
      /\ scrapLen' = IF n < scrapLen THEN scrapLen ELSE n
      /\ StoredBytes(TextGone, LAMBDA i : <<"scrap", i>>, SubSeq(bytes, 1, n))
      /\ answer' = {}
      /\ UNCHANGED ram
PutScrap(bytes) ==
  LET n == Lower(Len(bytes), ScrapSize)
  IN  /\ scrap' = [k \in DOMAIN scrap |-> IF k < n THEN bytes[k + 1] ELSE scrap[k]]
      /\ scrapLen' = n
      /\ StoredBytes(TextGone, LAMBDA i : <<"scrap", i>>, SubSeq(bytes, 1, n))
      /\ answer' = {}
      /\ UNCHANGED ram

\* Nothing is delivered past the end; the guest is not told how much was.
GetScrap(ofs, dst) ==
  LET n == Lower(scrapLen - ofs, ScrapWindow)
  IN  /\ \/ /\ n > 0
            /\ ram' = Fill(ram, dst, n, [i \in 0 .. n - 1 |-> scrap[ofs + i]])
            /\ Answers(LAMBDA i : <<"scrap", ofs + i>>,
                       [i \in 1 .. n |-> ram'[dst + i - 1]])
         \/ /\ n <= 0
            /\ answer' = {}
            /\ UNCHANGED ram
      /\ UNCHANGED <<scrap, scrapLen, drawn>>

-----------------------------------------------------------------------------
(* The disk driver *)

\* Result codes of the File Manager, as the code spells them.
WritePermission == 46
NoDrive == 64
ReadError == 51

\* Drives 0 and 1 are the second device of the host; no other drive exists.
EmulDriveToDevice(drive) == IF drive \in {0, 1} THEN 1 ELSE -1

\* One turn of the loop: a block is read into Sector, and the part of it that
\* was asked for goes to the guest.
Transfer(device, size, t, lba) ==
  IF ~ t.ok THEN t
  ELSE IF ~ PpcReadDiskBlock(device, lba, size) THEN [t EXCEPT !.ok = FALSE]
  ELSE LET off == t.pos % size
           n == Lower(size - off, t.left)
       IN  [ok |-> TRUE,
            m |-> Fill(t.m, t.buffer, n,
                       [k \in 0 .. n - 1 |-> MediaByte(devices[device + 1], lba * size + off + k)]),
            buffer |-> t.buffer + n, pos |-> t.pos + n, left |-> t.left - n]

\* The loop over the blocks that hold the left bytes from a position on.
Turns(size, pos, left, buffer) ==
  IF left <= 0 \/ buffer = 0 THEN 0 ELSE ((pos + left - 1) \div size) - (pos \div size) + 1
Blocks(device, size, pos, left, buffer) ==
  LET n == Turns(size, pos, left, buffer)
      turn[i \in 0 .. n] ==
        IF i = 0 THEN [ok |-> TRUE, m |-> ram, buffer |-> buffer, pos |-> pos, left |-> left]
        ELSE Transfer(device, size, turn[i - 1], (pos \div size) + (i - 1))
  IN  turn[n]

\* The bytes to read at a position: a volume mounted on the device bounds them
\* by its length.  Positions count from the start of the medium, and where the
\* volume begins on it is not looked at.
Bounded(device) == volume.device = device
\* Mutant of Clipped: the end of the volume is not looked at.
NotClipped(device, pos, count) == count
Clipped(device, pos, count) ==
  IF Bounded(device) /\ pos + count > volume.bytes THEN volume.bytes - pos ELSE count

EmulDiskPrimeTransfer(ref, isWrite, buffer, count, offset) ==
  LET device == EmulDriveToDevice(ref)
      pos == (offset \div Align) * Align
      left == Clipped(device, pos, count)
      size == Lower(DeviceAt(device).block, SectorMax)
      end == Blocks(device, size, pos, left, buffer)
  IN  /\ \/ /\ isWrite
            /\ d0' = WritePermission
            /\ UNCHANGED <<ram, actCount>>
         \/ /\ ~ isWrite
            /\ device = -1 \/ ~ PpcGetBlockDeviceInfo(device)
            /\ d0' = NoDrive
            /\ UNCHANGED <<ram, actCount>>
         \/ /\ ~ isWrite /\ device # -1 /\ PpcGetBlockDeviceInfo(device)
            /\ ram' = end.m
            /\ d0' = IF end.ok THEN NoError ELSE ReadError
            /\ actCount' = IF ~ end.ok THEN actCount
                           ELSE IF Bounded(device) /\ pos + count > volume.bytes
                                   /\ pos >= volume.bytes THEN 0
                           ELSE count
      /\ request' = [device |-> device, buffer |-> buffer, count |-> count,
                     offset |-> offset, nth |-> request.nth + 1]
      /\ answer' = {}

-----------------------------------------------------------------------------
Families == {"time", "battery", "scrap", "disk", "screen", "sound"}

Init == /\ TimersInit
        /\ DevicesInit
        /\ xpram = EmulXpramInit
        /\ scrap = [k \in 0 .. ScrapSize - 1 |-> 0]
        /\ scrapLen = 0
        /\ volume \in Volume
        /\ actCount = 0
        /\ request = [device |-> -1, buffer |-> 0, count |-> 0, offset |-> 0, nth |-> 0]
        /\ family \in Families
        /\ family # "disk" => volume.device = -1

Short == Len(drawn) < MaxStores[family]

Timekeeping == /\ family = "time"
               /\ TimersNext
               /\ UNCHANGED <<deviceVars, serviceVars>>

\* Selectors leave the clock and the devices that are not theirs alone.
OthersOfBattery == <<micros, nextVbl, nextAdb, flags, timers, popped, mode, fb, audio,
                     devices, present, status, scrap, scrapLen, volume, actCount, request>>
BatteryStore == \/ \E k \in Offset, s \in Bytes : Xpram1Write(k, s)
                \/ \E k \in Offset, s \in Bytes :
                     s # <<>> /\ (Xpram3(k, s[1]) \/ Nvram2(k, s[1]) \/ Nvram3Write(k, s[1]))
Battery == /\ family = "battery"
           /\ \/ Short /\ BatteryStore
              \/ \E k \in Offset, n \in Extent, a \in Scratch : Xpram1Read(k, n, a)
              \/ \E k \in Offset : Xpram2(k) \/ Nvram1(k) \/ Nvram3Read(k)
           /\ UNCHANGED OthersOfBattery

Clipboard == /\ family = "scrap"
             /\ \/ Short /\ \E s \in Bytes : PutScrap(s)
                \/ Short /\ ZeroScrap
                \/ \E k \in Index, a \in Scratch : GetScrap(k, a)
             /\ UNCHANGED <<timerVars, mode, fb, audio, devices, present, status,
                            xpram, volume, actCount, request>>

Prime == \E ref \in RefNum, w \in BOOLEAN, b \in Buffer, n \in Count, k \in Offset :
           EmulDiskPrimeTransfer(ref, w, b, n, k)
Disk == /\ family = "disk"
        /\ \/ /\ request.nth < MaxPrimes
              /\ Prime
              /\ UNCHANGED <<mode, fb, audio, devices, present, status, drawn,
                             xpram, scrap, scrapLen, volume,
                             micros, nextVbl, nextAdb, flags, timers, popped>>
           \/ /\ PpcInitializeBlockIo \/ \E i \in DOMAIN Handle : MediumChanges(i)
              /\ UNCHANGED <<timerVars, serviceVars>>

Drawing == /\ family \in {"screen", "sound"}
           /\ UNCHANGED <<timerVars, serviceVars>>
           /\ \/ \E m \in Mode : Short /\ PpcInitializeGraphics(m)
              \/ PpcInitializeHardwareAbstraction
              \/ Short /\ family = "screen" /\ \E c \in Colour :
                   \/ PpcGraphicsClear(c)
                   \/ \E x, y \in Corner : PpcGraphicsSetPixel(x, y, c)
                   \/ \E x, y \in Corner, w, h \in Extent : PpcGraphicsDrawRect(x, y, w, h, c)
              \/ family = "screen" /\ PpcGraphicsBlitToDisplay

Sounding == /\ family = "sound"
            /\ UNCHANGED <<timerVars, serviceVars>>
            /\ \/ Short /\ (PpcInitializeAudio \/ PpcAudioReset)
               \/ Short /\ \E i \in Index, v \in Sample :
                    PpcAudioWriteSample(i, v) \/ GuestStoresSample(i, v)
               \/ \E i \in Index : PpcAudioReadSample(i) \/ PpcAudioAdvancePlayback(i)

Next == /\ Timekeeping \/ Battery \/ Clipboard \/ Disk \/ Drawing \/ Sounding
        /\ UNCHANGED family

Spec == Init /\ [][Next]_vars

-----------------------------------------------------------------------------
\* What was last stored at a place; a place never stored holds its initial
\* value.
Initial(place) == CASE place[1] = "nvram" -> IF place[2] = LocalTalk + 3 THEN 10 ELSE 0
                    [] place[1] = "scrap" -> NoByte
                    [] place[1] = "pixel" -> <<0, 0, 0>>
                    [] OTHER -> <<0, 0>>
Latest(place) ==
  LET at == {i \in DOMAIN drawn : place \in drawn[i].places}
  IN  IF at = {} THEN Initial(place)
      ELSE drawn[CHOOSE i \in at : \A j \in at : j <= i].value

\* A framebuffer larger than the gap below the ring covers part of it; no
\* shape drawn so far was as large as that.
PixelsIn(places) == Cardinality({p \in places : p[1] = "pixel"})
WindowsApart == \A i \in DOMAIN drawn : FbBase + 4 * PixelsIn(drawn[i].places) <= AudioBase

\* Whatever mix of selectors and calls stored them, a cell of the battery
\* memory, a byte of the clipboard, an audio sample or a pixel shown is the
\* one stored last: the two windows of the battery memory are one memory, the
\* clipboard never answers bytes of an older, longer text, and a shape drawn
\* partly off the screen colours the pixels it covers and no others.  Two cases
\* are not claimed: a LocalTalk cell that answers its default is no answer
\* (emul_op.c:484), and of a rectangle whose far corner wraps at 2^32 the code
\* draws nothing, which is what the history has for it (abstraction_impl.c:1202).
HostGivesBack == WindowsApart => \A r \in answer : r.value = Latest(r.place)

\* A disk read changes guest memory only inside the buffer and only to the
\* bytes of the medium at the aligned position, counted from the start of the
\* medium, and when it reports no error has delivered all of them that are
\* within reach (EmulDiskPrimeTransfer).  On a drive with a volume mounted that
\* begins with the medium these are the bytes of the volume.  Of a volume that
\* begins further on, as behind a partition map, that is not so: what the code
\* lets through are the positions below its length, the map in front of it
\* included, and its last bytes are out of reach.
Within(device, pos) ==
  volume.device = device =>
    IF volume.base = 0 THEN pos \in volume.base .. volume.base + volume.bytes - 1
    ELSE pos < volume.bytes
DeliversMedium(q) ==
  LET from == q.offset - (q.offset % Align)
      Meant(k) == MediaByte(devices[q.device + 1], from + k)
  IN  /\ \A a \in DOMAIN ram : ram'[a] # ram[a] =>
           /\ a - q.buffer \in 0 .. q.count - 1 /\ Within(q.device, from + (a - q.buffer))
           /\ ram'[a] = Meant(a - q.buffer)
      /\ d0' = NoError /\ q.buffer # 0 =>
           \A k \in 0 .. q.count - 1 :
             Within(q.device, from + k) => ram'[q.buffer + k] = Meant(k)
DiskReadsAreExact == [][request' # request => DeliversMedium(request')]_vars
=============================================================================
