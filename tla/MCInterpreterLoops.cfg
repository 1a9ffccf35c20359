SPECIFICATION FairSpec
CONSTANTS
  VFS_MAX_CHILDREN = 3
  Names <- MCNames
  NameCopy <- MCNameCopy
  ROOM = 4
  Lines <- LoopLines
  KEYS = 2
  NewNames = {}
PROPERTY AnyKeyStops
CHECK_DEADLOCK FALSE
