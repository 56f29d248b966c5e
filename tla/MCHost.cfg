SPECIFICATION Spec
CONSTANTS
  Task = {1, 2, 3}
  Slots = 2
  VblUs = 3
  AdbUs = 2
  Step = {1, 2}
  Delay = {0, 2}
  MaxMicros = 4
  RamSize = 40
  FbBase = 0
  AudioBase = 16
  AudioSize = 8
  Word = 8
  Mode <- MCModes
  Handle <- MCHandles
  NvramSize = 16
  XpramBase = 4
  XpramSize = 4
  LocalTalk = 12
  ScrapSize = 3
  ScrapWindow = 2
  SectorMax = 8
  Align = 2
  Volume <- MCVolumes
  Buffer = {0, 25}
  Scratch = {24}
  Bytes <- MCBytes
  Colour <- MCColours
  Sample <- MCSamples
  Corner = {0, 1, 3}
  Extent = {2, 7}
  Index = {0, 1, 4}
  Count = {0, 3, 9}
  Offset = {0, 3, 13}
  RefNum = {1, 2}
  MaxStores <- MCStores
  MaxPrimes = 1
INVARIANT
  HostGivesBack
PROPERTIES
  ImplementsTimeManager
  DiskReadsAreExact
