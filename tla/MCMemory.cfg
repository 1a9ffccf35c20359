SPECIFICATION MemorySpec
CONSTANTS
  MAX_PAGES = 8
  PAGE_SIZE = 16
  KERNEL_END = 5
  MemoryMaps <- MCMaps
  HDR = 8
  ALIGNMENT = 4
  MIN_SPLIT_SIZE = 4
  HEAP_INITIAL_PAGES = 2
  WORD = 256
  Requests <- MCRequests
  SPAN = 256
  EHDR = 3
  Images <- MCImages
  SYSCALL_TEST_ALLOC_SIZE = 6
  VFS_NODE_SIZE = 4
  VFS_BOOT_NODES = 2
  Addresses <- MCAddresses
INVARIANTS
  HeapInv
  FreeCountExact
  AddressOrdered
  GrantsDisjoint
  UsedExact
  NoPageLeak
  BlocksInUsableRam
  Coalesced
  NothingLeaks
  WritesInBuffer
  LoadedRight
PROPERTIES
  LiveUntouched
CHECK_DEADLOCK FALSE
