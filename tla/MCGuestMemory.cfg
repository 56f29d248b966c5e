SPECIFICATION Spec
CONSTANTS
  Top = 5
  MaxRegions = 3
  Buffer <- MCBuffer
  BufSize = 2
  Byte = {0, 1}
  Candidate <- MCCandidate
  DevRead = {1}
  DevSink = {1}
  Free = Free
  Idle = Idle
INVARIANTS
  RegionsDisjoint
  CopyIsExact
PROPERTY
  CopyTerminates
