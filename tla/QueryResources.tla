--------------------------- MODULE QueryResources ---------------------------
(***************************************************************************)
(* What the queries of a store take before they run: parallelism from the  *)
(* counter of a BaseResAllocator together with shards from a bucket that   *)
(* one query may overdraw (ShardParallelismAllocator, taken for the whole  *)
(* query by Select.process), and series from a bucket that nobody may      *)
(* overdraw (SeriesResAllocator, taken for each cursor while               *)
(* shard.CreateCursor scans the index).  The series are the bucket of      *)
(* ResourceBucket itself (Procs are the queries, Costs the series a scan   *)
(* may find), the shards another instance of it.                           *)
(***************************************************************************)
EXTENDS ResourceBucket

CONSTANTS
    ShardNums,      \* how many shards a query may have
    ShardTotal,     \* MaxShardsParallelismNum * PtNumPerNode
    Threshold,      \* BaseResAllocator.threshold (ShardTotal / 8 in the code)
    MinAllocNum,    \* BaseResAllocator.minAllocNum
    SeriesLimit,    \* query-series-limit if EnableWhenExceed is off; 0 is none
    ExceptQueries   \* whether there are queries that group by "except"

ASSUME SeriesAssumption == OutOfLimitOnce = FALSE
ASSUME ShardsAssumption == ShardNums \subseteq Nat /\ ShardTotal \in Nat
ASSUME ThresholdAssumption == Threshold \in Nat \ {0} /\ MinAllocNum \in Nat \ {0}

VARIABLES
    shFree, shBlock, shPc, shCost, shChan,    \* sharedParallelismPool
    aliveCount,     \* BaseResAllocator.aliveCount
    qpc,            \* where a query is
    internal,       \* it is a query of the database _internal
    num,            \* how many shards it has
    seen,           \* the aliveCount it has loaded
    par,            \* the parallelism it got
    leaked          \* history: series that scans took and did not report

shVars == <<shFree, shBlock, shPc, shCost, shChan>>
queryVars == <<aliveCount, qpc, internal, num, seen, par>>
seriesVars == <<bucketVars, leaked>>
vars == <<shVars, seriesVars, queryVars>>

Shards == INSTANCE ResourceBucket WITH
    Costs <- ShardNums, Total <- ShardTotal,
    OutOfLimitOnce <- TRUE, freeResource <- shFree, blockExecutor <- shBlock,
    pc <- shPc, cost <- shCost, chan <- shChan

Init ==
    /\ Shards!BucketInit /\ BucketInit /\ leaked = 0
    /\ aliveCount = 0
    /\ qpc = [q \in Procs |-> "idle"]
    /\ internal = [q \in Procs |-> FALSE]
    /\ num = [q \in Procs |-> 0]
    /\ seen = [q \in Procs |-> 0]
    /\ par = [q \in Procs |-> 0]

-----------------------------------------------------------------------------
(* BaseResAllocator.                                                       *)

\* The loop of gradientDescAllocation: r is halved until it is at most half of
\* what is free, or the minimum.
Halved(freeNum, allocNum) ==
    LET h[r \in 0..allocNum] ==
            IF r > freeNum \div 2 /\ r > MinAllocNum THEN h[r \div 2] ELSE r
    IN  h[allocNum]

\* Mutant: the result is not raised to the minimum again.
GradientDescAllocationUnraised(aliveNum, allocNum) ==
    LET freeNum == Threshold - aliveNum
    IN  IF allocNum < MinAllocNum THEN allocNum
        ELSE IF freeNum < MinAllocNum THEN MinAllocNum
        ELSE Halved(freeNum, allocNum)

\* gradientDescAllocation: not below the minimum, which the last halving may miss.
GradientDescAllocation(aliveNum, allocNum) ==
    LET freeNum == Threshold - aliveNum
    IN  IF allocNum < MinAllocNum THEN allocNum
        ELSE IF freeNum < MinAllocNum \/ Halved(freeNum, allocNum) < MinAllocNum
        THEN MinAllocNum
        ELSE Halved(freeNum, allocNum)

\* Select.process; BaseResAllocator.Alloc loads aliveCount ...
LoadAliveCount(q) ==
    /\ qpc[q] = "idle"
    /\ \E n \in ShardNums, b \in BOOLEAN :
           num' = [num EXCEPT ![q] = n] /\ internal' = [internal EXCEPT ![q] = b]
    /\ seen' = [seen EXCEPT ![q] = aliveCount]
    /\ qpc' = [qpc EXCEPT ![q] = "load"]
    /\ UNCHANGED <<shVars, seriesVars, aliveCount, par>>

\* ... and adds to it what it computes from the value it loaded.  Then
\* ShardParallelismAllocator.Alloc asks for the shards, unless the query is
\* internal (AllocParallelism).
AddAliveCount(q) ==
    LET n == GradientDescAllocation(seen[q], num[q]) IN
    /\ qpc[q] = "load"
    /\ aliveCount' = aliveCount + n
    /\ par' = [par EXCEPT ![q] = n]
    /\ seen' = [seen EXCEPT ![q] = 0]
    /\ IF internal[q] THEN qpc' = [qpc EXCEPT ![q] = "run"] /\ UNCHANGED shVars
       ELSE qpc' = [qpc EXCEPT ![q] = "shards"] /\ Shards!GetResource(q, num[q])
    /\ UNCHANGED <<seriesVars, internal, num>>

\* getResImpl and ReleaseResource of the shards.
ShardsProceed(q) ==
    Shards!Proceed(q) /\ UNCHANGED <<seriesVars, queryVars>>

\* The query has what Select.process takes.
Runs(q) == qpc[q] = "run" \/ (qpc[q] = "shards" /\ shPc[q] = "hold")

-----------------------------------------------------------------------------
(* CreateCursor.                                                           *)

\* SearchSeriesWithOpts calls DefaultSeriesAllocateFunc with the series found.
AllocSeries(q) ==
    /\ Runs(q)
    /\ \E n \in Costs : GetResource(q, n)
    /\ UNCHANGED <<shVars, queryVars, leaked>>

\* getResImpl and ReleaseResource of the series.
SeriesProceed(q) ==
    Proceed(q) /\ UNCHANGED <<shVars, queryVars, leaked>>

\* The number of series that SearchSeriesWithOpts reports after it has taken n
\* of them: 0 when there are more than the limit, the number of groups if the
\* query groups by "except".
SeriesReported(n) ==
    IF SeriesLimit > 0 /\ n > SeriesLimit THEN {0}
    ELSE IF ExceptQueries THEN 0..n
    ELSE {n}

\* The deferred FreeRes of CreateCursor gives the reported number back: 0 also
\* when the series were not to be had in time or the index knows none.
FreeSeries(q) ==
    /\ Runs(q)
    /\ \E n \in SeriesReported(cost[q]) :
           ReleaseResource(q, n) /\ leaked' = leaked + cost[q] - n
    /\ UNCHANGED <<shVars, queryVars>>

-----------------------------------------------------------------------------
(* The end of a query.                                                     *)

\* Mutant: the parallelism is given back in place of the shards.
FreeShardsAsParallelism(q) ==
    /\ Runs(q) /\ pc[q] = "idle"
    /\ IF internal[q] THEN UNCHANGED shVars ELSE Shards!ReleaseResource(q, par[q])
    /\ qpc' = [qpc EXCEPT ![q] = "free"]
    /\ UNCHANGED <<seriesVars, aliveCount, internal, num, seen, par>>

\* FreeRes / FreeParallelismRes: the shards first ...
FreeShards(q) ==
    /\ Runs(q) /\ pc[q] = "idle"
    /\ IF internal[q] THEN UNCHANGED shVars ELSE Shards!ReleaseResource(q, num[q])
    /\ qpc' = [qpc EXCEPT ![q] = "free"]
    /\ UNCHANGED <<seriesVars, aliveCount, internal, num, seen, par>>

\* Mutant: a query that gets no shards keeps its parallelism.
FreeAliveCountOfRuns(q) ==
    /\ \/ qpc[q] = "shards" /\ Shards!GiveUp(q)
       \/ qpc[q] = "free" /\ shPc[q] = "idle" /\ UNCHANGED shVars
    /\ aliveCount' = IF qpc[q] = "free" THEN aliveCount - par[q] ELSE aliveCount
    /\ qpc' = [qpc EXCEPT ![q] = "idle"]
    /\ internal' = [internal EXCEPT ![q] = FALSE]
    /\ num' = [num EXCEPT ![q] = 0]
    /\ par' = [par EXCEPT ![q] = 0]
    /\ UNCHANGED <<seriesVars, seen>>

\* ... then the parallelism; also when there were no shards in time
\* (ShardBucketLacks).
FreeAliveCount(q) ==
    /\ \/ qpc[q] = "shards" /\ Shards!GiveUp(q)
       \/ qpc[q] = "free" /\ shPc[q] = "idle" /\ UNCHANGED shVars
    /\ aliveCount' = aliveCount - par[q]
    /\ qpc' = [qpc EXCEPT ![q] = "idle"]
    /\ internal' = [internal EXCEPT ![q] = FALSE]
    /\ num' = [num EXCEPT ![q] = 0]
    /\ par' = [par EXCEPT ![q] = 0]
    /\ UNCHANGED <<seriesVars, seen>>

Next ==
    \E q \in Procs :
        \/ LoadAliveCount(q) \/ AddAliveCount(q) \/ ShardsProceed(q)
        \/ AllocSeries(q) \/ SeriesProceed(q) \/ FreeSeries(q)
        \/ FreeShards(q) \/ FreeAliveCount(q)

Spec == Init /\ [][Next]_vars

-----------------------------------------------------------------------------
(* Properties.                                                             *)

\* When no query runs, everything that queries took is back, the series that
\* SearchSeriesWithOpts took and did not report excepted, and nothing else is
\* missing: refusals, timeouts and failed scans keep nothing.
QueriesReturnAll ==
    (\A q \in Procs : qpc[q] = "idle") =>
        shFree = ShardTotal /\ freeResource + leaked = Total /\ aliveCount = 0

\* What the deferred FreeRes of CreateCursor is there for.  The code does not
\* keep it: scans may report fewer series than they took.
SeriesReturned == (\A q \in Procs : qpc[q] = "idle") => freeResource = Total

\* However the loads and adds of aliveCount interleave, a query gets at least the
\* smaller of the minimum and its number of shards, and never more than that
\* number.
ParallelismInRange ==
    \A q \in Procs : qpc[q] \notin {"idle", "load"} =>
        /\ par[q] <= num[q]
        /\ par[q] >= num[q] \/ par[q] >= MinAllocNum

\* A query waits for a channel that nobody has closed yet.
Blocked(q) ==
    \/ shPc[q] = "wait" /\ shChan[q] # "closed"
    \/ pc[q] = "wait" /\ chan[q] # "closed"

\* Queries hold shards while they wait for series.  Still they never all wait
\* for each other until their timers fire, as long as no scan finds more
\* series than there are left of the total: what has leaked is lost to all.
SomebodyRuns ==
    (\A q \in Procs : cost[q] <= Total - leaked) =>
        \A q \in Procs : Blocked(q) =>
            \E r \in Procs : qpc[r] # "idle" /\ ~Blocked(r)

\* The shards are overdrawn by one query at most, and no query waits for shards
\* that it could have.
ShardsKept == Shards!LimitKept /\ Shards!NoLostWakeup

\* Queries use the shards as ResourceBucket demands: who gets tokens gives the
\* same number back, although the parallelism it got is another number.
ShardsRefined == Shards!BucketSpec
==============================================================================
