SPECIFICATION Spec
CONSTANTS
  VFS_MAX_CHILDREN = 3
  Names <- MCNames
  NameCopy <- MCNameCopy
  ROOM = 7
  Lines <- MCLines
  KEYS = 2
  NewNames = {"kernel", "kernelspace"}
INVARIANTS
  TypeOK
  PathLeadsHome
  RunsAsEntered
  FreshKeysStop
CHECK_DEADLOCK FALSE
