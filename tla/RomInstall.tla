----------------------------- MODULE RomInstall -----------------------------
(***************************************************************************)
(* How the boot (src/boot/bootloader_impl.c, called from src/main.c) finds *)
(* a ROM and puts it on the guest's map: low memory, PpcInstallSystemRom   *)
(* for one path and then for another, the windows it opens beside the      *)
(* image, and what PpcPrepareSystemForBoot puts there.  What its steps     *)
(* share is the table of guest windows, which only grows, and the pages    *)
(* that back them.  Addresses and sizes are in megabytes; the image in a   *)
(* ROM file is RomImage's, which has its own scale.                        *)
(***************************************************************************)
EXTENDS RomImage, SequencesExt, FiniteSetsExt

CONSTANTS
  RamSizes,    \* the sizes of guest RAM the setup menu offers
  EntryPlace,  \* PPC_NANOKERNEL_BOOT_OFFSET, in an expanded image
  MaxRegions,  \* PPC_MAX_GUEST_REGIONS
  Media        \* what the boot volume and the disc may hold, and a bound:
               \* how many firmware calls may fail in a boot from them

\* A ROM file: its size, what is in it, and what the pages it was read into
\* show when the boot volume ends it early.
Rom == [size : Nat, image : Images, cut : SUBSET Images]

\* A System Folder: the sizes of its System and Finder, and the entries of its
\* Extensions folder in the order they are read in.
File == [name : STRING, size : Nat, kind : {"file", "dir", "rom"}]
SystemFolder ==
  [system : Nat \cup {None}, finder : Nat \cup {None}, extensions : Seq(File) \cup {None}]

ASSUME BootAssumption ==
  /\ RamSizes \subseteq Nat \ {0}
  /\ MaxRegions \in Nat \ {0}
  /\ EntryPlace \in Nat
  /\ None \notin {"esp", "disc"}
  /\ \A m \in Media :
       /\ m.faults \in Nat
       /\ {m.esp.rom, m.esp.macOsRom} \subseteq Rom \cup {None}
       /\ m.esp.folder \in SystemFolder \cup {None}
       /\ m.disc # None => /\ m.disc.roms \subseteq Rom
                          /\ m.disc.folder \in SystemFolder \cup {None}

VARIABLES
  pc,      \* how far main is
  region,  \* g_GuestRegions, in the order of installation
  held,    \* the page allocations that were not given back
  faults,  \* how many firmware calls failed
  media,   \* the boot volume and the disc
  mounted, \* g_HfsMounted
  call,    \* which of main's two calls of PpcInstallSystemRom is running
  buf,     \* its Buffer and Size, and where the file came from
  rom,     \* g_BootContext.Rom...
  mapTest, \* what the self-test of the map said
  runtime, \* how much of the System is staged at PPC_OS_RUNTIME_GUEST_BASE
  magic    \* does low memory hold the marker of the boot info block?

mapVars == <<region, held, faults>>
romVars == <<call, buf, rom>>
loadVars == <<media, mounted, romVars, mapTest, runtime, magic>>

Region(part, base, size, ro) ==
  [part |-> part, base |-> base, size |-> size, ro |-> ro]

RamWindow(size) == Region("ram", 256, size, FALSE)
LowWindow == Region("low", 0, 16, FALSE)
NkWindow == Region("nk", 1664, 128, FALSE)
SystemWindow == Region("system", 512, 16, FALSE)
DriverWindow == Region("driver", 528, 32, FALSE)

Overlaps(w, v) == IF w.base < v.base THEN w.base + w.size > v.base
                                     ELSE w.base - v.base < v.size

\* What PpcAddGuestMemoryRegion answers to w when the table is r.
AddStatus(r, w) ==
  IF \E i \in DOMAIN r : Overlaps(w, r[i]) THEN "already_started"
  ELSE IF Len(r) = MaxRegions THEN "out_of_resources"
  ELSE "success"

OnMap(w) == \E i \in DOMAIN region : region[i] = w

\* n firmware calls fail in this step.
Fails(n) == faults + n <= media.faults /\ faults' = faults + n

\* Pages are allocated and mapped; they are given back when the map refuses.
InstallPages(w) ==
  \/ /\ Fails(1)
     /\ UNCHANGED <<region, held>>
  \/ /\ AddStatus(region, w) = "success"
     /\ region' = Append(region, w)
     /\ held' = held \cup {w.part}
     /\ Fails(0)
  \/ /\ AddStatus(region, w) # "success"
     /\ Fails(0)
     /\ UNCHANGED <<region, held>>

MapInit ==
  /\ pc = "low"
  /\ \E mb \in RamSizes : region = <<RamWindow(mb)>>
  /\ held = {"ram"}
  /\ faults = 0

-----------------------------------------------------------------------------

RomMax == 4
NoRom == [loaded |-> FALSE, type |-> "unknown", decoded |-> FALSE,
          base |-> 0, size |-> 0, part |-> None, from |-> None]

RomInit ==
  /\ media \in Media
  /\ mounted \in IF media.disc = None THEN {FALSE} ELSE BOOLEAN
  /\ call = 1
  /\ buf = None
  /\ rom = NoRom
  /\ mapTest = None
  /\ runtime = None
  /\ magic = FALSE

Outcome(status, n) == [status |-> status, faults |-> n]

\* The calls that may fail once there is a file to read and a place for it.
Reads == {Outcome("success", 0), Outcome("out_of_resources", 1), Outcome("load_error", 1)}

-----------------------------------------------------------------------------
InstallLowMemory ==
  /\ pc = "low"
  /\ InstallPages(LowWindow)
  /\ pc' = "load"
  /\ UNCHANGED loadVars

EspRom == IF call = 1 THEN media.esp.rom ELSE media.esp.macOsRom

\* A file that the boot volume ends early counts as read.
EspOutcomes ==
  {Outcome("device_error", 1)} \cup
  IF EspRom = None THEN {Outcome("not_found", 0)}
  ELSE IF EspRom.size \notin 1 .. RomMax THEN {Outcome("load_error", 0)}
  ELSE Reads \cup {Outcome("success", 1)}

\* What it was read as: the file, or what there was of it.
EspRead(faulty) ==
  IF faulty = 0 THEN {EspRom} ELSE {[EspRom EXCEPT !.image = g] : g \in EspRom.cut}

\* The largest "Mac OS ROM" of the disc's catalog.
DiscRom ==
  LET roms == IF media.disc = None THEN {} ELSE {f \in media.disc.roms : f.size # 0}
      largest == {f \in roms : \A g \in roms : g.size <= f.size}
  IN IF largest = {} THEN None ELSE CHOOSE f \in largest : TRUE

\* The disc may fail to be mounted, unless it is.
DiscOutcomes ==
  (IF mounted \/ media.disc = None THEN {} ELSE {Outcome("device_error", 1)}) \cup
  IF DiscRom = None THEN {Outcome("not_found", 0)}
  ELSE IF DiscRom.size > RomMax THEN {Outcome("load_error", 0)}
  ELSE Reads

\* Back in main, which tries the second path when nothing was found.
Return(status) ==
  IF call = 1 /\ status = "not_found"
    THEN call' = 2 /\ pc' = "load"
    ELSE call' = call /\ pc' = "maptest"

Loaded(f, from) ==
  /\ buf' = [part |-> from, size |-> f.size, image |-> f.image, from |-> from]
  /\ held' = held \cup {from}
  /\ pc' = "identify"
  /\ UNCHANGED call

NotLoaded(status) == Return(status) /\ UNCHANGED <<buf, held>>

\* The boot volume first, and the disc when the volume has no such file.
LoadRom ==
  /\ pc = "load"
  /\ \E o \in EspOutcomes :
       \/ /\ o.status # "not_found"
          /\ Fails(o.faults)
          /\ IF o.status = "success" THEN \E f \in EspRead(o.faults) : Loaded(f, "esp")
                                     ELSE NotLoaded(o.status)
          /\ UNCHANGED mounted
       \/ /\ o.status = "not_found"
          /\ \E d \in DiscOutcomes :
               /\ Fails(d.faults)
               /\ mounted' = (media.disc # None /\ d.status # "device_error")
               /\ IF d.status = "success" THEN Loaded(DiscRom, "disc")
                                          ELSE NotLoaded(d.status)
  /\ UNCHANGED <<region, media, rom, mapTest, runtime, magic>>

\* The type is taken from the file's first bytes, before it is expanded.
IdentifyRom ==
  /\ pc = "identify"
  /\ pc' = "decode"
  /\ rom' = [rom EXCEPT !.type = IF buf.image.marker THEN "new_world" ELSE "old_world",
                        !.decoded = FALSE]
  /\ StartImage(buf.image)
  /\ UNCHANGED <<mapVars, media, mounted, call, buf, mapTest, runtime, magic>>

ExpandRom ==
  /\ pc = "decode"
  /\ DecodeImage
  /\ Fails(IF step' = "no pages" THEN 1 ELSE 0)
  /\ UNCHANGED <<pc, region, held, loadVars>>

\* Mutant of DecodeRom: the compressed file is kept.
DecodeRomKeepsFile ==
  /\ pc = "decode"
  /\ Answered
  /\ pc' = "map"
  /\ rom' = [rom EXCEPT !.decoded = step = "decoded"]
  /\ IF step = "decoded"
       THEN /\ held' = held \cup {"flat", "slack"}
            /\ buf' = [buf EXCEPT !.part = "flat", !.size = RomMax]
       ELSE UNCHANGED <<held, buf>>
  /\ UNCHANGED <<region, faults, media, mounted, call, mapTest, runtime, magic, imageVars>>

\* An image is expanded into pages of its own, a little more than the window,
\* and the file's pages are given back.
DecodeRom ==
  /\ pc = "decode"
  /\ Answered
  /\ pc' = "map"
  /\ rom' = [rom EXCEPT !.decoded = step = "decoded"]
  /\ IF step = "decoded"
       THEN /\ held' = (held \ {buf.part}) \cup {"flat", "slack"}
            /\ buf' = [buf EXCEPT !.part = "flat", !.size = RomMax]
       ELSE UNCHANGED <<held, buf>>
  /\ UNCHANGED <<region, faults, media, mounted, call, mapTest, runtime, magic, imageVars>>

RomWindow ==
  IF rom.type = "new_world" THEN Region(buf.part, 1032, buf.size, FALSE)
                            ELSE Region(buf.part, 4095, buf.size, TRUE)

\* The record of an installed image.
Recorded(w) == [rom EXCEPT !.loaded = TRUE, !.base = w.base, !.size = w.size,
                           !.part = w.part, !.from = buf.from]

\* Mutant of MapRom: the image is recorded before it is known to be mapped.
MapRomRecordedFirst ==
  /\ pc = "map"
  /\ Fails(0)
  /\ rom' = Recorded(RomWindow)
  /\ IF AddStatus(region, RomWindow) = "success"
       THEN /\ region' = Append(region, RomWindow)
            /\ pc' = "alias"
            /\ UNCHANGED <<held, call>>
       ELSE /\ held' = held \ {buf.part}
            /\ Return(AddStatus(region, RomWindow))
            /\ UNCHANGED region
  /\ UNCHANGED <<media, mounted, buf, mapTest, runtime, magic>>

\* When the map refuses the image, Size bytes of the buffer are given back,
\* which is not the slack behind a decoded one.
MapRom ==
  /\ pc = "map"
  /\ Fails(0)
  /\ IF AddStatus(region, RomWindow) = "success"
       THEN /\ region' = Append(region, RomWindow)
            /\ rom' = Recorded(RomWindow)
            /\ pc' = "alias"
            /\ UNCHANGED <<held, call>>
       ELSE /\ held' = held \ {buf.part}
            /\ Return(AddStatus(region, RomWindow))
            /\ UNCHANGED <<region, rom>>
  /\ UNCHANGED <<media, mounted, buf, mapTest, runtime, magic>>

\* The image again, at the four ends of the 0xFF half.
Aliases == << Region(rom.part, 4092, rom.size, FALSE), Region(rom.part, 4080, rom.size, TRUE),
              Region(rom.part, 4084, rom.size, TRUE), Region(rom.part, 4088, rom.size, TRUE) >>

\* The emulator's bank behind the image, the RAM-Rom, the two workspaces and
\* the translation cache of the 68K emulator.
Companions == << Region("bank", 1036, 1, FALSE), Region("ramrom", 2064, 16, FALSE),
                 Region("work", 1312, 16, FALSE), Region("globals", 2048, 16, FALSE),
                 Region("cache", 16, 48, FALSE) >>

\* The table r after each of ws, but those of none, was asked for in turn.
AddAll(r, ws, none) ==
  LET table[k \in 0 .. Len(ws)] ==
        IF k = 0 THEN r
        ELSE IF ws[k] \notin none /\ AddStatus(table[k - 1], ws[k]) = "success"
             THEN Append(table[k - 1], ws[k])
             ELSE table[k - 1]
  IN table[Len(ws)]

\* Each companion has pages of its own, which may not be had, and which are
\* given back when the map refuses them.
InstallAliases ==
  /\ pc = "alias"
  /\ IF rom.type = "new_world" /\ rom.size = RomMax
       THEN \E none \in SUBSET ToSet(Companions) :
              /\ Fails(Cardinality(none))
              /\ region' = AddAll(region, Aliases \o Companions, none)
              /\ held' = held \cup {w.part : w \in (ToSet(Companions) \ none) \cap ToSet(region')}
       ELSE Fails(0) /\ UNCHANGED <<region, held>>
  /\ Return("success")
  /\ UNCHANGED <<media, mounted, buf, rom, mapTest, runtime, magic>>

\* Is a byte stored at address a read back?
Writable(a) ==
  \E i \in DOMAIN region : /\ a \in region[i].base .. region[i].base + region[i].size - 1
                           /\ ~region[i].ro

\* What a New World ROM shows: the word the guest is entered at, in an expanded
\* image, which ends in zeros; or the marker with a carriage return behind it,
\* which a file is not identified by.
EntryWord == IF EntryPlace < Len(dest) THEN dest[EntryPlace + 1] ELSE 0
Recognised == rom.type = "new_world" => IF rom.decoded THEN EntryWord # 0 ELSE file.signed

\* Mutant of RunBootSelfTest: an expanded image is tested for the signature too.
RunBootSelfTestOfText ==
  /\ pc = "maptest"
  /\ \E failed \in BOOLEAN :
       /\ failed => mounted /\ media.disc.served
       /\ Fails(IF failed THEN 1 ELSE 0)
       /\ mapTest' = IF /\ Writable(0)
                        /\ rom.loaded
                        /\ rom.type = "new_world" => file.signed /\ ~rom.decoded
                        /\ Writable(rom.base) <=> rom.type = "new_world"
                        /\ mounted => media.disc.served /\ ~failed
                     THEN "pass" ELSE "fail"
  /\ pc' = "prepare"
  /\ UNCHANGED <<region, held, media, mounted, romVars, runtime, magic>>

\* PpcRunBootSelfTest: low memory takes a store, there is a ROM, one of the New
\* World is recognised, and the ROM's first byte takes a store if and only if it
\* is such a one; and a block of a mounted disc is read through the boot drive,
\* which may fail (PpcRunDiskMediaSelfTest).
RunBootSelfTest ==
  /\ pc = "maptest"
  /\ \E failed \in BOOLEAN :
       /\ failed => mounted /\ media.disc.served
       /\ Fails(IF failed THEN 1 ELSE 0)
       /\ mapTest' = IF /\ Writable(0)
                        /\ rom.loaded
                        /\ Recognised
                        /\ Writable(rom.base) <=> rom.type = "new_world"
                        /\ mounted => media.disc.served /\ ~failed
                     THEN "pass" ELSE "fail"
  /\ pc' = "prepare"
  /\ UNCHANGED <<region, held, media, mounted, romVars, runtime, magic>>

-----------------------------------------------------------------------------
(* PpcPrepareSystemForBoot.                                                *)

\* Low memory is asked for again if it could not be had.
PrepareLowMemory ==
  /\ pc = "prepare"
  /\ IF OnMap(LowWindow) THEN UNCHANGED mapVars ELSE InstallPages(LowWindow)
  /\ pc' = "kernel"
  /\ UNCHANGED loadVars

PrepareKernelArea ==
  /\ pc = "kernel"
  /\ InstallPages(NkWindow)
  /\ pc' = "runtime"
  /\ UNCHANGED loadVars

DiscSystem == IF media.disc = None \/ media.disc.folder = None THEN 0
              ELSE media.disc.folder.system

OsRuntimeMax == 16
OsRuntimeBase == 1678

\* The boot info block is written, and the disc's System is copied into the
\* nanokernel's area, which is asked for again if it could not be had.  Its
\* bytes fall where they may: they are gone when that area is missing.
StageOsRuntime ==
  /\ pc = "runtime"
  /\ pc' = "guest"
  /\ magic' = OnMap(LowWindow)
  /\ \E failed \in {{}, {"mount"}, {"area"}, {"read"}, {"area", "read"}} :
       LET found == "mount" \notin failed /\ DiscSystem \in 1 .. OsRuntimeMax
           opens == found /\ "area" \notin failed /\ AddStatus(region, NkWindow) = "success"
       IN /\ "mount" \in failed => ~mounted /\ media.disc # None
          /\ "read" \in failed => found
          /\ "area" \in failed => found /\ ~OnMap(NkWindow)
          /\ Fails(Cardinality(failed))
          /\ mounted' = (media.disc # None /\ "mount" \notin failed)
          /\ region' = IF opens THEN Append(region, NkWindow) ELSE region
          /\ held' = IF opens THEN held \cup {NkWindow.part} ELSE held
          /\ runtime' = IF found /\ "read" \notin failed THEN DiscSystem ELSE runtime
  /\ UNCHANGED <<media, romVars, mapTest>>
=============================================================================
