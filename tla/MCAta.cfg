SPECIFICATION FairSpec
CONSTANTS
  Lbas <- MCLbas
  Requests <- MCRequests
  LBA_LIMIT = 3
  Data = {1, 2}
  Identity = 3
  POLLS = 2
PROPERTIES
  IsStore
  EveryCallReturns
