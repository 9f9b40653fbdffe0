CONSTANTS
    Procs = {q1, q2, q3}
    Costs = {0, 2, 3}
    Total = 3
    OutOfLimitOnce = FALSE
    ShardNums = {1, 3}
    ShardTotal = 3
    Threshold = 4
    MinAllocNum = 2
    SeriesLimit = 2
    ExceptQueries = TRUE
SPECIFICATION Spec
SYMMETRY Symmetry
INVARIANTS
    BucketTypeOK
    NoLostWakeup
    BucketInv
    ShardsKept
    QueriesReturnAll
    ParallelismInRange
    SomebodyRuns
PROPERTIES
    ShardsRefined
