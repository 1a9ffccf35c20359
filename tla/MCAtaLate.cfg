SPECIFICATION FairSpec
CONSTANTS
  Lbas <- MCLbas
  Requests <- MCLbas
  LBA_LIMIT = 3
  Data = {1, 2}
  Identity = 3
  POLLS = 2
PROPERTY ReadsAsAsked
