SPECIFICATION FairSpec
CONSTANTS
  KEY_BUFFER_SIZE = 4
  Chars <- MCChars
  EOI = 2
PROPERTIES
  QueueUnlessStruck
  EveryKeyRead
