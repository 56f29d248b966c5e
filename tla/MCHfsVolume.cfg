SPECIFICATION Spec
CONSTANTS
  Devices = 2
  Disks <- MCDisks
  NoVolume = NoVolume
  AlBlk = 2
  MaxOvf = 3
  Capacity = {0, 3, 9}
  AutoDevice = AutoDevice
  Idle = Idle
INVARIANTS
  ReadIsExact
  DescribedFilesAreRead
  MountedIsOneVolume
PROPERTY
  ReadsEnd
