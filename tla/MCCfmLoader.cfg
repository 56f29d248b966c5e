SPECIFICATION Spec
CONSTANTS
  Forks <- MCForks
  Handler <- MCHandlers
  None = None
  More = More
  NewPtr = NewPtr
  EntryBase = 88
  EntryCode = 78
  DataBump = 200
  MaxExports = 4
  MaxStubs = 3
INVARIANTS
  PlacedApart
  ImportsFindTheirExport
  CallsReachTheirTarget
