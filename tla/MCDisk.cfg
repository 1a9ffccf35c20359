SPECIFICATION MCSpec
CONSTANTS
  FAT_ENTRIES = 6
  FAT_SECTOR = 2
  EOC_MIN = 5
  EOC = 5
  CLUSTERS = 3
  MIN_CLUSTERS = 3
  MAX_CLUSTERS = 5
  SECTORS_PER_CLUSTER = 2
  ROOT_SECTORS = 2
  SLOTS = 2
  Dirs = {"APPS", "KERNEL"}
  Files = {"KERNEL.ELF", "LONG", "EMPTY"}
  FORMATS = 2
  CLIENT_FORMATS = 1
  ClientNames = {"APPS", "LONG"}
  FAT_FAILURES = 2
  CLIENT_FAILURES = 1
  Junk = {0, 3, 5}
  Faults <- FaultKinds
  SizeOf <- MCSizeOf
  Tree <- MCTree
INVARIANTS
  TypeOK
  ChainsSound
  MadeForGood
  OldFilesGone
  FatsInSync
  InstalledRoot
  InstalledTree
PROPERTY RootKept
