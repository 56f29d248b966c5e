SPECIFICATION Spec
CONSTANTS
  Addr <- MCAddr
  StubAddr <- MCStubAddr
  HookAddr <- MCHookAddr
  CellAddr <- MCCellAddr
  RettaskAddr = "rettask"
  IcdAddr = "icd"
  ZeroAddr = "zero"
  YieldAddr = "hook"
  DispatchAddr = "stub"
  DrStart = "task"
  Entry <- MCEntry
  Following <- MCFollowing
  DecMod = 4
  Scale = 1
  DecStart = 1
  Burst = 2
INVARIANTS
  InterruptsNeedEnabling
  DueInterruptIsPending
  BootIsNotPreempted
CHECK_DEADLOCK FALSE
PROPERTIES
  InterruptsAreTaken
  TimerIsServed
