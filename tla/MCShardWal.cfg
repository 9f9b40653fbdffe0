SPECIFICATION FairSpec
CONSTANTS
  Writes = {w1, w2}
  NumParts = 1
  RecsPerFile = 1
  MemLimit = 2
  MaxNames = 2
INVARIANTS
  TypeOK
  Durable
  Readable
  PartitionOrder
  TokensKept
PROPERTIES
  CallsReturn
  AckedIsFlushed
