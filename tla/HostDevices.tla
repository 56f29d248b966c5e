---------------------------- MODULE HostDevices ----------------------------
(***************************************************************************)
(* The devices the host shows to the guest (src/src/hardware/              *)
(* abstraction_impl.c): a framebuffer and a ring of audio samples, both    *)
(* windows of guest RAM, and the block devices of the firmware.            *)
(*                                                                         *)
(* A pixel is four bytes, big-endian 0xRRGGBB00, and a sample two.  The    *)
(* firmware's list of Block I/O handles is fixed; its media may come and   *)
(* go.  Guest RAM starts at guest address 0.                               *)
(***************************************************************************)
EXTENDS Integers, Sequences, FiniteSets, SequencesExt

CONSTANTS RamSize,     \* bytes of guest RAM
          FbBase,      \* PPC_GRAPHICS_FRAMEBUFFER_GUEST_BASE
          AudioBase,   \* PPC_AUDIO_BUFFER_GUEST_BASE
          AudioSize,   \* PPC_AUDIO_BUFFER_SIZE
          Mode,        \* modes of the display, as <<width, height>>
          Handle,      \* Block I/O handles: [block, blocks, bad]
          Word         \* 2^32: coordinates wrap at it

ASSUME WindowAssumption == /\ {RamSize, FbBase, AudioBase, AudioSize} \subseteq Nat
                           /\ AudioBase + AudioSize <= RamSize
                           /\ Mode \subseteq Nat \X Nat
ASSUME HandleAssumption ==
  Handle \in Seq([block : Nat \ {0}, blocks : Nat, bad : SUBSET Nat])

VARIABLES ram,         \* guest RAM, byte by byte
          mode,        \* the mode the display is in, <<>> when there is none
          fb,          \* the guest's framebuffer: [w, h], <<0, 0>> when not mapped
          audio,       \* [inited, write, play]: g_AudioInited and the cursors
          devices,     \* g_BlockDevices, as indexes of Handle
          present,     \* the handles whose medium is present
          status,      \* what the last call returned
          drawn,       \* history: what was stored where, in order
          answer       \* history: what the last call read from where

deviceVars == <<ram, mode, fb, audio, devices, present, status, drawn, answer>>

Success == "success"
NotReady == "not ready"
OutOfResources == "out of resources"
NotFound == "not found"
DeviceError == "device error"

DevicesInit == /\ ram = [a \in 0 .. RamSize - 1 |-> 0]
               /\ mode = <<0, 0>>
               /\ fb = <<0, 0>>
               /\ audio = [inited |-> FALSE, write |-> 0, play |-> 0]
               /\ devices = <<>>
               /\ present = DOMAIN Handle
               /\ status = Success
               /\ drawn = <<>>
               /\ answer = {}

-----------------------------------------------------------------------------
\* Places the histories speak of.
PixelsOf(w, h) == {<<"pixel", x, y>> : x \in 0 .. w - 1, y \in 0 .. h - 1}
Samples == {<<"sample", i>> : i \in 0 .. AudioSize \div 2 - 1}
Stored(places, value) == drawn' = Append(drawn, [places |-> places, value |-> value])

Black == <<0, 0, 0, 0>>
Shown(c) == <<c[1], c[2], c[3]>>

\* Guest RAM with the bytes of the window of n bytes at base given by f.
Fill(m, base, n, f) == [a \in DOMAIN m |-> IF a \in base .. base + n - 1
                                           THEN f[a - base] ELSE m[a]]

-----------------------------------------------------------------------------
(* Graphics *)

\* The display takes the mode asked for, and the guest a framebuffer of its
\* size when that much guest RAM is left; otherwise the guest keeps what it had.
PpcInitializeGraphics(m) ==
  LET size == m[1] * m[2] * 4
  IN  /\ mode' = m
      /\ IF FbBase + size <= RamSize
         THEN /\ fb' = m
              /\ ram' = Fill(ram, FbBase, size, [k \in 0 .. size - 1 |-> 0])
              /\ Stored(PixelsOf(m[1], m[2]), Shown(Black))
         ELSE UNCHANGED <<fb, ram, drawn>>
      /\ status' = Success
      /\ answer' = {}
      /\ UNCHANGED <<audio, devices, present>>

\* A second initialisation of the layer forgets the framebuffer, not the
\* audio state.
PpcInitializeHardwareAbstraction ==
  /\ fb' = <<0, 0>>
  /\ status' = Success
  /\ answer' = {}
  /\ UNCHANGED <<ram, mode, audio, devices, present, drawn>>

PixelAt(x, y) == LET a == FbBase + 4 * (y * fb[1] + x)
                 IN  IF x >= fb[1] \/ y >= fb[2] THEN Black
                     ELSE <<ram[a], ram[a + 1], ram[a + 2], ram[a + 3]>>

\* Mutant of Painted: a pixel past the end of its row lands in the next one.
PaintedUnclipped(shape, c) ==
  [a \in DOMAIN ram |->
     LET k == (a - FbBase) \div 4
     IN  IF /\ a >= FbBase /\ fb # <<0, 0>>
            /\ \E p \in shape : p[2] * fb[1] + p[1] = k
         THEN c[((a - FbBase) % 4) + 1] ELSE ram[a]]

\* Guest RAM after colour c was written to the pixels of a shape; pixels off
\* the screen are dropped.
Painted(shape, c) ==
  [a \in DOMAIN ram |->
     LET k == (a - FbBase) \div 4
     IN  IF /\ a \in FbBase .. FbBase + 4 * fb[1] * fb[2] - 1
            /\ <<k % fb[1], k \div fb[1]>> \in shape
         THEN c[((a - FbBase) % 4) + 1] ELSE ram[a]]

Draws(shape, meant, c) ==
  /\ \/ /\ fb # <<0, 0>>
        /\ ram' = Painted(shape, c)
        /\ Stored({<<"pixel", p[1], p[2]>> : p \in meant}, Shown(c))
        /\ status' = Success
     \/ /\ fb = <<0, 0>>
        /\ status' = NotReady
        /\ UNCHANGED <<ram, drawn>>
  /\ answer' = {}
  /\ UNCHANGED <<mode, fb, audio, devices, present>>

Screen == (0 .. fb[1] - 1) \X (0 .. fb[2] - 1)

PpcGraphicsClear(c) == Draws(Screen, Screen, c)
PpcGraphicsSetPixel(x, y, c) == Draws({<<x, y>>}, {<<x, y>>}, c)

\* The corner opposite to x, y is computed modulo the word, so a rectangle
\* that reaches past the last coordinate draws nothing.
Between(from, size) == from .. ((from + size) % Word) - 1
PpcGraphicsDrawRect(x, y, w, h, c) ==
  Draws(Between(x, w) \X Between(y, h),
        IF x + w < Word /\ y + h < Word
        THEN {p \in Screen : p[1] >= x /\ p[1] < x + w /\ p[2] >= y /\ p[2] < y + h}
        ELSE {},
        c)

\* The display shows the three channels of each pixel, in the order its
\* format has them; the histories record the colour it shows.
PpcGraphicsBlitToDisplay ==
  /\ \/ /\ fb # <<0, 0>>
        /\ answer' = {[place |-> <<"pixel", p[1], p[2]>>, value |-> Shown(PixelAt(p[1], p[2]))]
                        : p \in Screen}
        /\ status' = Success
     \/ /\ fb = <<0, 0>>
        /\ status' = NotReady
        /\ answer' = {}
  /\ UNCHANGED <<ram, mode, fb, audio, devices, present, drawn>>

-----------------------------------------------------------------------------
(* Audio *)

ZeroAudio == Fill(ram, AudioBase, AudioSize, [k \in 0 .. AudioSize - 1 |-> 0])

PpcInitializeAudio == /\ audio' = [inited |-> TRUE, write |-> 0, play |-> 0]
                      /\ ram' = ZeroAudio
                      /\ Stored(Samples, <<0, 0>>)
                      /\ status' = Success
                      /\ answer' = {}
                      /\ UNCHANGED <<mode, fb, devices, present>>

\* A sample is <<high byte, low byte>>, and RAM holds the high byte first.
PpcAudioWriteSample(i, v) ==
  /\ \/ /\ audio.inited
        /\ 2 * i + 2 <= AudioSize
        /\ ram' = Fill(ram, AudioBase + 2 * i, 2, [k \in 0 .. 1 |-> v[k + 1]])
        /\ audio' = [audio EXCEPT !.write = IF @ < i + 1 THEN i + 1 ELSE @]
        /\ Stored({<<"sample", i>>}, v)
        /\ status' = Success
     \/ /\ ~ (audio.inited /\ 2 * i + 2 <= AudioSize)
        /\ status' = IF audio.inited THEN OutOfResources ELSE NotReady
        /\ UNCHANGED <<ram, audio, drawn>>
  /\ answer' = {}
  /\ UNCHANGED <<mode, fb, devices, present>>

PpcAudioReadSample(i) ==
  /\ \/ /\ audio.inited
        /\ 2 * i + 2 <= AudioSize
        /\ answer' = {[place |-> <<"sample", i>>,
                       value |-> <<ram[AudioBase + 2 * i], ram[AudioBase + 2 * i + 1]>>]}
        /\ status' = Success
     \/ /\ ~ (audio.inited /\ 2 * i + 2 <= AudioSize)
        /\ answer' = {}
        /\ status' = IF audio.inited THEN OutOfResources ELSE NotReady
  /\ UNCHANGED <<ram, mode, fb, audio, devices, present, drawn>>

\* The play cursor is bounded by the buffer, not by the write cursor.
PpcAudioAdvancePlayback(n) ==
  /\ \/ /\ audio.inited
        /\ audio.play + n <= AudioSize \div 2
        /\ audio' = [audio EXCEPT !.play = @ + n]
        /\ status' = Success
     \/ /\ ~ (audio.inited /\ audio.play + n <= AudioSize \div 2)
        /\ status' = IF audio.inited THEN OutOfResources ELSE NotReady
        /\ UNCHANGED audio
  /\ answer' = {}
  /\ UNCHANGED <<ram, mode, fb, devices, present, drawn>>

PpcAudioReset ==
  /\ \/ /\ audio.inited
        /\ audio' = [audio EXCEPT !.write = 0, !.play = 0]
        /\ ram' = ZeroAudio
        /\ Stored(Samples, <<0, 0>>)
        /\ status' = Success
     \/ /\ ~ audio.inited
        /\ status' = NotReady
        /\ UNCHANGED <<audio, ram, drawn>>
  /\ answer' = {}
  /\ UNCHANGED <<mode, fb, devices, present>>

\* Guest code fills the ring by plain stores.
GuestStoresSample(i, v) ==
  /\ 2 * i + 2 <= AudioSize
  /\ ram' = Fill(ram, AudioBase + 2 * i, 2, [k \in 0 .. 1 |-> v[k + 1]])
  /\ Stored({<<"sample", i>>}, v)
  /\ answer' = {}
  /\ UNCHANGED <<mode, fb, audio, devices, present, status>>

-----------------------------------------------------------------------------
(* Block devices *)

\* The handles that have a medium now, in the order of the firmware's list.
Listed ==
  LET list[n \in 0 .. Len(Handle)] ==
        IF n = 0 THEN <<>>
        ELSE IF n \in present THEN Append(list[n - 1], n) ELSE list[n - 1]
  IN  list[Len(Handle)]

\* The list is rebuilt, so that a device's index may change.  When the firmware
\* does not say what it has the old list stays; when no memory is left for a new
\* one the old one is gone.
PpcInitializeBlockIo ==
  /\ \/ /\ devices' = Listed
        /\ status' = IF present = {} THEN NotFound ELSE Success
     \/ /\ status' \in {NotFound, DeviceError}
        /\ UNCHANGED devices
     \/ /\ devices' = <<>>
        /\ status' = OutOfResources
  /\ answer' = {}
  /\ UNCHANGED <<ram, mode, fb, audio, present, drawn>>

MediumChanges(i) ==
  /\ present' = IF i \in present THEN present \ {i} ELSE present \union {i}
  /\ UNCHANGED <<ram, mode, fb, audio, devices, status, drawn, answer>>

\* Device numbers count from 0.
PpcGetBlockDeviceInfo(index) == index < Len(devices)
DeviceAt(index) == Handle[devices[index + 1]]

\* The byte a medium holds at a position.
MediaByte(handle, pos) == ((7 * handle + pos) % 128) + 1

\* ReadBlocks of the firmware takes whole blocks of a medium that is present.
PpcReadDiskBlock(index, lba, size) ==
  LET d == DeviceAt(index)
      n == size \div d.block
  IN  /\ devices[index + 1] \in present
      /\ size % d.block = 0
      /\ lba + n <= d.blocks
      /\ \A b \in lba .. lba + n - 1 : b \notin d.bad
=============================================================================
