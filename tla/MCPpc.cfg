SPECIFICATION Spec
CONSTANTS
  B = 5
  Ram <- MCRam
  GuardWords <- MCGuardWords
  GuardTop = 256
  SegShift = 16
  PageShift = 6
  ApiShift = 4
  VsidBits = 12
  HashLow = 4
  HashBits = 10
  BlockShift = 8
  BlockBits = 3
  ConsolePoll = 72
  ConsolePut <- MCConsolePut
  ConsoleDevice = 8
  Programs <- MCPrograms
INVARIANTS
  SequencesAreExact
  BranchesFollowComparisons
  MemoryGivesBack
  TranslationFollowsTables
CHECK_DEADLOCK FALSE
