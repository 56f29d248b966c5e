---------------------------- MODULE BootSequence ----------------------------
(***************************************************************************)
(* The System Folder of the boot volume or of the disc: how it is found,   *)
(* how its files are copied into two areas of guest memory, and what the   *)
(* self-test makes of them (src/boot/bootloader_impl.c), and the order of  *)
(* main (src/main.c), from the guest's windows to that self-test.  A file  *)
(* is its size, and its bytes are numbered.                                *)
(***************************************************************************)
EXTENDS RomInstall

CONSTANTS
  MaxDrivers,  \* PPC_MAX_DRIVERS
  Align        \* staged files begin at multiples of it

ASSUME StagingAssumption ==
  /\ MaxDrivers \in Nat \ {0}
  /\ Align \in Nat \ {0}

VARIABLES
  folder,   \* g_BootContext.SystemFolder... and the presence flags
  answer,   \* what the calls that stage and enumerate returned
  drivers,  \* g_BootContext.Drivers as enumerated
  todo,     \* the files the running call has still to stage
  cell,     \* the bytes of the two areas
  cursor,   \* their cursors, from the start of the area
  staged,   \* the records of the files that are loaded
  verdict   \* the self-test's

areaVars == <<cell, cursor, staged>>
stageVars == <<folder, answer, drivers, todo, areaVars, verdict>>

Area == {"system", "driver"}
AreaWindow == [system |-> SystemWindow, driver |-> DriverWindow]
NoFolder == [scanned |-> FALSE, on |-> None, system |-> FALSE, finder |-> FALSE]
Found == folder.on # None

StagingInit ==
  /\ folder = NoFolder
  /\ answer = [system |-> None, scan |-> None, driver |-> None]
  /\ drivers = <<>>
  /\ todo = <<>>
  /\ cell = [a \in Area |-> [i \in 0 .. AreaWindow[a].size - 1 |-> None]]
  /\ cursor = [a \in Area |-> 0]
  /\ staged = [a \in Area |-> <<>>]
  /\ verdict = None

\* The folder that is staged from.
Folder == IF folder.on = "esp" THEN media.esp.folder ELSE media.disc.folder

-----------------------------------------------------------------------------
\* An installed ROM is run.  The nanokernel clears low memory when it starts.
GuestRuns ==
  /\ pc = "guest"
  /\ magic' \in IF rom.loaded THEN {FALSE, magic} ELSE {magic}
  /\ pc' = "locate"
  /\ UNCHANGED <<mapVars, media, mounted, romVars, mapTest, runtime, stageVars>>

Holds(size) == size # None /\ size > 0

\* What the boot volume's folder shows; a file that cannot be opened is taken
\* for missing.
EspFolder(unread) ==
  IF media.esp.folder = None THEN [NoFolder EXCEPT !.scanned = TRUE]
  ELSE [scanned |-> TRUE, on |-> "esp",
        system |-> "system" \notin unread /\ Holds(media.esp.folder.system),
        finder |-> "finder" \notin unread /\ Holds(media.esp.folder.finder)]

\* What is known once the disc was asked as well: its folder, if it has a
\* System, in place of all that was seen before.
DiscFolder(seen) ==
  IF media.disc = None \/ media.disc.folder = None THEN seen
  ELSE IF media.disc.folder.system = None THEN seen
  ELSE [scanned |-> TRUE, on |-> "disc", system |-> TRUE,
        finder |-> media.disc.folder.finder # None]

LocateSystemFolder ==
  /\ pc = "locate"
  /\ \/ /\ Fails(1) \* the folder's presence is not known
        /\ UNCHANGED <<folder, mounted>>
     \/ \E failed \in SUBSET {"system", "finder", "mount"} :
          LET seen == EspFolder(failed)
              asks == seen.on = None \/ ~seen.system \/ ~seen.finder
          IN /\ media.esp.folder = None => failed \subseteq {"mount"}
             /\ "mount" \in failed => asks /\ ~mounted /\ media.disc # None
             /\ Fails(Cardinality(failed))
             /\ mounted' = (mounted \/ (asks /\ media.disc # None /\ "mount" \notin failed))
             /\ folder' = IF asks /\ "mount" \notin failed THEN DiscFolder(seen) ELSE seen
  /\ pc' = IF folder'.on = None THEN "selftest" ELSE "files"
  /\ UNCHANGED <<region, held, media, romVars, mapTest, runtime, magic>>
  /\ UNCHANGED <<answer, drivers, todo, areaVars, verdict>>

-----------------------------------------------------------------------------
\* Is the window w there for a call that needs it?
Ensured(w) == IF OnMap(w) THEN UNCHANGED mapVars ELSE InstallPages(w)

SystemFiles ==
  (IF folder.system THEN <<[name |-> "System", size |-> Folder.system]>> ELSE <<>>) \o
  (IF folder.finder THEN <<[name |-> "Finder", size |-> Folder.finder]>> ELSE <<>>)

\* Area a is opened for files, which are staged next; or it cannot be, and main
\* goes on at after.
OpenArea(a, files, after) ==
  LET open == \E i \in DOMAIN region' : region'[i] = AreaWindow[a]
  IN /\ Ensured(AreaWindow[a])
     /\ pc' = IF open THEN (IF a = "system" THEN "stage system" ELSE "stage driver") ELSE after
     /\ todo' = IF open THEN files ELSE todo
     /\ answer' = IF open THEN answer
                  ELSE [answer EXCEPT ![a] = IF faults' # faults THEN "out_of_resources"
                                             ELSE AddStatus(region, AreaWindow[a])]

\* Mutant of LoadSystemFiles: the marker is left as the guest left it.
LoadSystemFilesUnarmed ==
  /\ pc = "files"
  /\ magic' = magic
  /\ OpenArea("system", SystemFiles, "scan")
  /\ UNCHANGED <<media, mounted, romVars, mapTest, runtime, folder, drivers, areaVars, verdict>>

LoadSystemFiles ==
  /\ pc = "files"
  /\ magic' = OnMap(LowWindow) \* the marker is written again
  /\ OpenArea("system", SystemFiles, "scan")
  /\ UNCHANGED <<media, mounted, romVars, mapTest, runtime, folder, drivers, areaVars, verdict>>

Aligned(n) == ((n + Align - 1) \div Align) * Align

\* Mutant of Fits: the last place of the area stays empty.
FitsBelow(a, f) == cursor[a] + Aligned(f.size) < AreaWindow[a].size

Fits(a, f) == cursor[a] + Aligned(f.size) <= AreaWindow[a].size

\* Area a with n bytes of f from its cursor on; the tail up to the next
\* multiple is cleared when the file came whole from the disc.
Copied(a, f, n) ==
  LET at == cursor[a]
  IN [cell EXCEPT ![a] = [i \in DOMAIN cell[a] |->
        IF i \in at .. at + n - 1 THEN <<folder.on, f.name, i - at>>
        ELSE IF n = f.size /\ folder.on = "disc" /\ i \in at + n .. at + Aligned(n) - 1 THEN None
        ELSE cell[a][i]]]

\* n bytes of f are at the cursor.  The file is on record with its full size,
\* and the cursor is behind that; n itself is not recorded by the code.
Kept(a, f, n) ==
  /\ cell' = Copied(a, f, n)
  /\ cursor' = [cursor EXCEPT ![a] = @ + Aligned(f.size)]
  /\ staged' = [staged EXCEPT ![a] =
       Append(@, [on |-> folder.on, name |-> f.name, size |-> f.size, at |-> cursor[a], got |-> n])]

Room(a, f) == f.size > 0 /\ Fits(a, f)

\* Nothing to copy, or no room for it.
NotStaged(a, f) ==
  /\ ~Room(a, f)
  /\ Fails(0)
  /\ UNCHANGED areaVars

\* A file that could not be opened, or not be read to its end.
StagingFails(a, f) ==
  /\ Room(a, f)
  /\ Fails(1)
  /\ \E n \in 0 .. f.size - 1 : cell' = Copied(a, f, n)
  /\ UNCHANGED <<cursor, staged>>

\* Mutant of ComesShort: the disc's count is not looked at either.
ComesShortAnywhere(a, f) ==
  /\ Room(a, f)
  /\ Fails(1)
  /\ \E n \in 0 .. f.size - 1 : Kept(a, f, n)

\* The boot volume ends the file before its size, without an error: how many
\* bytes came is not looked at, as it is for a file of the disc.
ComesShort(a, f) ==
  /\ Room(a, f)
  /\ folder.on = "esp"
  /\ Fails(1)
  /\ \E n \in 0 .. f.size - 1 : Kept(a, f, n)

\* BootStageFile and BootStageHfsFile.
StageFile(a, f) ==
  \/ NotStaged(a, f)
  \/ StagingFails(a, f)
  \/ ComesShort(a, f)
  \/ Room(a, f) /\ Fails(0) /\ Kept(a, f, f.size)

\* The next file, or the answer when there is none.
StageNext(a, after) ==
  IF todo # <<>>
    THEN StageFile(a, Head(todo)) /\ todo' = Tail(todo) /\ UNCHANGED <<pc, answer>>
    ELSE /\ pc' = after
         /\ answer' = [answer EXCEPT ![a] = IF staged[a] # <<>> THEN "success" ELSE "not_found"]
         /\ Fails(0)
         /\ UNCHANGED <<todo, areaVars>>

StageSystemFile ==
  /\ pc = "stage system"
  /\ StageNext("system", "scan")
  /\ UNCHANGED <<region, held, loadVars, folder, drivers, verdict>>

-----------------------------------------------------------------------------
\* The entries of s that are of one of the kinds, in their order.
OfKind(s, kinds) ==
  LET chosen[n \in 0 .. Len(s)] ==
        IF n = 0 THEN <<>>
        ELSE IF s[n].kind \in kinds THEN Append(chosen[n - 1], s[n]) ELSE chosen[n - 1]
  IN chosen[Len(s)]

Prefix(s, n) == SubSeq(s, 1, IF Len(s) < n THEN Len(s) ELSE n)

\* The boot volume's directory as far as it was read: its files, up to the
\* number there is room for.
EspDrivers(ext, n) == Prefix(OfKind(Prefix(ext, n), {"file"}), MaxDrivers)

\* The first entries of the disc's folder, its folders before its files: of
\* the entries there is room for, those that are files.
DiscDrivers(ext) ==
  OfKind(Prefix(OfKind(ext, {"dir"}) \o OfKind(ext, {"file", "rom"}), MaxDrivers), {"file"})

ScanExtensions ==
  /\ pc = "scan"
  /\ pc' = "drivers"
  /\ \/ /\ Fails(1) \* no volume, or no memory for its entries
        /\ answer' = [answer EXCEPT !.scan = "out_of_resources"]
        /\ UNCHANGED drivers
     \/ /\ Folder.extensions = None
        /\ Fails(0)
        /\ answer' = [answer EXCEPT !.scan = "not_found"]
        /\ UNCHANGED drivers
     \/ /\ Folder.extensions # None
        /\ answer' = [answer EXCEPT !.scan = "success"]
        /\ IF folder.on = "disc"
             THEN Fails(0) /\ drivers' = DiscDrivers(Folder.extensions)
             ELSE \E n \in 0 .. Len(Folder.extensions) : \* the rest cannot be read
                    /\ Fails(IF n = Len(Folder.extensions) THEN 0 ELSE 1)
                    /\ drivers' = EspDrivers(Folder.extensions, n)
  /\ UNCHANGED <<region, held, loadVars, folder, todo, areaVars, verdict>>

LoadDrivers ==
  /\ pc = "drivers"
  /\ IF drivers = <<>>
       THEN /\ pc' = "selftest"
            /\ answer' = [answer EXCEPT !["driver"] = "not_found"]
            /\ UNCHANGED <<mapVars, todo>>
       ELSE OpenArea("driver", drivers, "selftest")
  /\ UNCHANGED <<loadVars, folder, drivers, areaVars, verdict>>

StageDriver ==
  /\ pc = "stage driver"
  /\ StageNext("driver", "selftest")
  /\ UNCHANGED <<region, held, loadVars, folder, drivers, verdict>>

\* The first byte of a loaded file is compared with what the guest reads there.
ReadsBack(a) == \A i \in DOMAIN staged[a] : OnMap(AreaWindow[a])

RunSystemFilesSelfTest ==
  /\ pc = "selftest"
  /\ pc' = "done"
  /\ verdict' = IF /\ folder.scanned
                   /\ \A a \in Area : ReadsBack(a)
                   /\ Len(staged["driver"]) <= Len(drivers)
                   /\ magic
                THEN "pass" ELSE "fail"
  /\ UNCHANGED <<mapVars, loadVars, folder, answer, drivers, todo, areaVars>>

-----------------------------------------------------------------------------
(* The order of main (src/main.c, lines 586 to 640 and 832 to 877).          *)

vars == <<pc, mapVars, loadVars, imageVars, stageVars>>

Init == MapInit /\ RomInit /\ ImageInit /\ StagingInit

MapStep ==
  \/ InstallLowMemory
  \/ LoadRom
  \/ MapRom
  \/ InstallAliases
  \/ RunBootSelfTest
  \/ PrepareLowMemory
  \/ PrepareKernelArea
  \/ StageOsRuntime

StagingStep ==
  \/ GuestRuns
  \/ LocateSystemFolder
  \/ LoadSystemFiles
  \/ StageSystemFile
  \/ ScanExtensions
  \/ LoadDrivers
  \/ StageDriver
  \/ RunSystemFilesSelfTest

\* main has returned.
Returned == pc = "done" /\ UNCHANGED vars

Next ==
  \/ MapStep /\ UNCHANGED <<imageVars, stageVars>>
  \/ (IdentifyRom \/ ExpandRom \/ DecodeRom) /\ UNCHANGED stageVars
  \/ StagingStep /\ UNCHANGED imageVars
  \/ Returned

Spec == Init /\ [][Next]_vars

-----------------------------------------------------------------------------
(* Properties.                                                             *)

MappedParts == {region[i].part : i \in DOMAIN region}

\* Whatever call fails, no pages are lost and none are given back that the
\* guest still sees: what is held backs a window, or is the buffer being
\* worked on.  The pages behind an expanded ROM are the exception: they are
\* kept with it, and are lost if the map refuses it.
BuffersAreAccountedFor ==
  held = MappedParts
         \cup (IF pc \in {"identify", "decode", "map"} THEN {buf.part} ELSE {})
         \cup (IF rom.decoded THEN {"slack"} ELSE {})

\* The record of the ROM, which main enters the guest by, describes a window:
\* one with the ROM's pages, at that address, of that size.  Every alias shows
\* the same pages in full, and no window shows a ROM that is not on record.
RecordsMatchMap ==
  LET shown == {i \in DOMAIN region : region[i].part \in {"esp", "disc", "flat"}}
  IN /\ rom.loaded <=> shown # {}
     /\ \A i \in shown : region[i].part = rom.part /\ region[i].size = rom.size
     /\ rom.loaded => /\ \E i \in shown : region[i].base = rom.base
                      /\ rom.part = "flat" <=> rom.decoded
                      /\ rom.part # "flat" => rom.part = rom.from

\* What is on record as staged is in guest memory, in a place of its own that
\* no later file, whole or given up half-way, writes into, and comes from the
\* folder that was found.  A file of the disc is there to the last byte; one of
\* the boot volume as far as the volume gave its bytes (BootStageFile records
\* the size of its directory entry, also when a read ended early without an
\* error), which is all of them as long as no call goes wrong.
StagedIsExact ==
  \A a \in Area : \A i \in DOMAIN staged[a] :
    LET r == staged[a][i]
        there == IF r.on = "disc" \/ faults = 0 THEN r.size ELSE r.got
    IN /\ OnMap(AreaWindow[a])
       /\ r.on = folder.on
       /\ \A n \in 0 .. there - 1 : cell[a][r.at + n] = <<r.on, r.name, n>>
       /\ \A j \in 1 .. i - 1 : staged[a][j].at + staged[a][j].size <= r.at

Registered(a) == IF a = "system" THEN SystemFiles ELSE drivers

\* As long as no call fails, a file with bytes that was seen is staged, unless
\* there is no room for it or its area could not be mapped.
NothingIsLeftOut ==
  pc = "done" /\ faults = 0 /\ Found =>
    \A a \in Area : OnMap(AreaWindow[a]) =>
      \A f \in ToSet(Registered(a)) :
        \/ f.size = 0
        \/ \E i \in DOMAIN staged[a] : staged[a][i].name = f.name /\ staged[a][i].size = f.size
        \/ cursor[a] + Aligned(f.size) > AreaWindow[a].size

\* The two self-tests are right.  That of the map (PpcRunBootSelfTest) passes
\* when low memory is there, a ROM is on record that can be entered or shows its
\* signature, and the disc, if one is mounted, is the boot drive's; and not
\* otherwise, unless a read of that disc failed.  That the windows are writable
\* or not as they should be follows.  The test of the staged files passes when
\* a folder was staged from and low memory is there, whatever the guest did
\* before, and whatever could not be staged.
SelfTestsAreRight ==
  /\ pc = "prepare" =>
       LET sound == OnMap(LowWindow) /\ rom.loaded /\ Recognised /\ (mounted => media.disc.served)
       IN /\ mapTest = "pass" => sound
          /\ sound /\ mapTest # "pass" => mounted /\ faults > 0
  /\ pc = "done" /\ Found /\ OnMap(LowWindow) => verdict = "pass"
=============================================================================
