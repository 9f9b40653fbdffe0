SPECIFICATION Spec
CONSTANTS
  Writes = {w1, w2}
  NumParts = 2
  RecsPerFile = 2
  MemLimit = 2
  MaxNames = 2
INVARIANT LastWriteWins
