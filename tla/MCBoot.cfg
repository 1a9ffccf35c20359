SPECIFICATION FairSpec
CONSTANTS
  PAGE_SIZE = 4
  ENTRIES_PER_TABLE = 3
  IDENTITY_MAP = 24
  MAX_MANAGED_MEMORY = 24
INVARIANTS
  TypeOK
  NoStrayInterrupt
  IdentityMapped
PROPERTY KeyboardAlive
