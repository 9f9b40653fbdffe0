SPECIFICATION Spec
CONSTANTS
  MaxNumEntries = 2
  Large = {2}
  Shards = {s1}
  MaxIndex = 4
  MaxTerm = 2
  MaxBatch = 2
  MaxExtra = 1
  MaxClears = 1
INVARIANT CommittedDataKept
