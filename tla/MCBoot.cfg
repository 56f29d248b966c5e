SPECIFICATION Spec
CONSTANTS
  None = None
  RamSizes = {256, 512, 1024}
  MaxRegions = 20
  EntryPlace = 4
  Media <- MCMedia
  MaxDrivers = 3
  Align = 2
  ByteSize = 4
  HalfSize = 2
  DictSize = 8
  Origin = 4
  DestSize = 6
  Word = 256
  Images <- MCImages
INVARIANTS
  BuffersAreAccountedFor
  RecordsMatchMap
  StagedIsExact
  NothingIsLeftOut
  
  ImageIsWhatWasPacked
PROPERTY
  ImplementsSlidingWindow
