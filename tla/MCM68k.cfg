SPECIFICATION Spec
CONSTANTS
  B = 4
  Ram <- MCRam
  Code <- MCCode
  RomAlias <- MCRomAlias
  Vec <- MCVec
  Guards <- MCGuards
  VectorGuard <- MCVectorGuard
  LowVectors <- MCLowVectors
  FirstPage <- MCFirstPage
  LowMemory <- MCLowRam
  LowRam <- MCLowRam
  RomCode <- MCRomCode
  DrZone <- MCDrZone
  DrThunk <- MCDrThunk
  PingPongGap = 128
  Site <- MCSite
  NativeZone <- MCNativeZone
  ZeroTrap <- MCZeroTrap
  TrapTable <- MCTrapTable
  Arena <- MCArena
  Rom <- MCRom
  Programs <- MCPrograms
  CodeZones <- MCCodeZones
  Tick = 2304
  Remembered = 1
  SpinLimit = 2
INVARIANTS
  CompareDecides
  BracketsRestore
CHECK_DEADLOCK FALSE
