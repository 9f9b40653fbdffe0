------------------------- MODULE QueryResourcesProofs -------------------------
(***************************************************************************)
(* For any number of queries, any requests and any limits: the queries use *)
(* the shards as ResourceBucket demands, so that what is proved of it      *)
(* holds of them; gradientDescAllocation stays within its bounds;          *)
(* everything comes back but the series that scans did not report; and the *)
(* queries never all wait for each other.                                  *)
(***************************************************************************)
EXTENDS QueryResources, ResourceBucketProofs, WellFoundedInduction

-----------------------------------------------------------------------------
(* gradientDescAllocation.                                                 *)

\* A nonempty set of natural numbers has a least element: what takes the place
\* of induction below.
LEMMA LeastElement ==
  ASSUME NEW T, T \subseteq Nat, T # {}
  PROVE  \E x \in T : \A y \in T : x <= y
<1> DEFINE R == OpToRel(<, Nat)
<1>1. IsWellFoundedOn(R, Nat)
  BY NatLessThanWellFounded
<1> HIDE DEF R
<1>2. PICK x \in T : \A y \in T : ~(<<y, x>> \in R)
  BY <1>1, WFMin
<1>3. ASSUME NEW y \in T
      PROVE  x <= y
  <2>1. ~(<<y, x>> \in R) /\ x \in Nat /\ y \in Nat
    BY <1>2
  <2>2. ~(y < x)
    BY <2>1 DEF R, OpToRel
  <2> QED
    BY <2>1, <2>2
<1> QED
  BY <1>2, <1>3

\* h is the function that the loop computes for requests up to n.
IsHalving(h, f, n) ==
  h = [r \in 0..n |-> IF r > f \div 2 /\ r > MinAllocNum THEN h[r \div 2] ELSE r]

LEMMA HalfIsLess ==
  ASSUME NEW r \in Nat, r > MinAllocNum
  PROVE  r \div 2 \in 0..(r - 1)
<1>1. MinAllocNum \in Nat /\ MinAllocNum > 0
  BY ThresholdAssumption
<1> QED
  BY <1>1

\* The loop ends: there is such a function.
LEMMA HalvingExists ==
  ASSUME NEW f \in Int, NEW n \in Nat
  PROVE  \E h : IsHalving(h, f, n)
<1> DEFINE T == {m \in Nat : ~ \E h : IsHalving(h, f, m)}
<1>1. SUFFICES ASSUME T # {} PROVE FALSE
  OBVIOUS
<1>2. PICK m \in T : \A y \in T : m <= y
  BY <1>1, LeastElement
<1>3. m \in Nat /\ ~ \E h : IsHalving(h, f, m)
  OBVIOUS
<1>4. m # 0
  <2>1. SUFFICES ASSUME m = 0 PROVE FALSE
    OBVIOUS
  <2> DEFINE g == [r \in 0..0 |-> r]
  <2>2. ~(0 > MinAllocNum)
    BY ThresholdAssumption
  <2>3. IsHalving(g, f, 0)
    BY <2>2 DEF IsHalving
  <2> QED
    BY <1>3, <2>1, <2>3
<1>5. m - 1 \in Nat /\ m - 1 \notin T
  BY <1>2, <1>3, <1>4
<1>6. PICK h : IsHalving(h, f, m - 1)
  BY <1>5
<1> DEFINE g == [r \in 0..m |->
                   IF r # m THEN h[r]
                   ELSE IF m > f \div 2 /\ m > MinAllocNum THEN h[m \div 2] ELSE m]
<1>7. ASSUME NEW r \in 0..m
      PROVE  g[r] = IF r > f \div 2 /\ r > MinAllocNum THEN g[r \div 2] ELSE r
  <2>1. r \in Nat
    BY <1>3
  <2>2. r > MinAllocNum => r \div 2 \in 0..(m - 1) /\ r \div 2 # m /\ r \div 2 \in 0..m
    BY <1>3, <2>1, HalfIsLess
  <2>3. r > MinAllocNum => g[r \div 2] = h[r \div 2]
    BY <2>2
  <2>4. CASE r = m
    BY <2>3, <2>4
  <2>5. CASE r # m
    <3>1. r \in 0..(m - 1)
      BY <1>3, <2>5
    <3>2. h[r] = IF r > f \div 2 /\ r > MinAllocNum THEN h[r \div 2] ELSE r
      BY <1>6, <3>1 DEF IsHalving
    <3> QED
      BY <2>3, <2>5, <3>2
  <2> QED
    BY <2>4, <2>5
<1>8. IsHalving(g, f, m)
  BY <1>7 DEF IsHalving
<1> QED
  BY <1>3, <1>8

\* It never returns more than was asked for, and goes on as long as it returns
\* more than the minimum and more than half of what is free.
LEMMA HalvingBound ==
  ASSUME NEW f \in Int, NEW n \in Nat, NEW h, IsHalving(h, f, n)
  PROVE  h[n] \in 0..n /\ (h[n] <= f \div 2 \/ h[n] <= MinAllocNum)
<1>0. \A r \in 0..n :
        h[r] = IF r > f \div 2 /\ r > MinAllocNum THEN h[r \div 2] ELSE r
  BY Zenon DEF IsHalving
<1> DEFINE Good(r) == h[r] \in 0..r /\ (h[r] <= f \div 2 \/ h[r] <= MinAllocNum)
           T == {r \in 0..n : ~Good(r)}
<1>1. SUFFICES ASSUME T # {} PROVE FALSE
  OBVIOUS
<1>2. PICK m \in T : \A y \in T : m <= y
  <2>1. T \subseteq Nat
    OBVIOUS
  <2> HIDE DEF T
  <2> QED
    BY <1>1, <2>1, LeastElement
<1>3. m \in 0..n /\ m \in Nat /\ ~Good(m)
  OBVIOUS
<1>4. h[m] = IF m > f \div 2 /\ m > MinAllocNum THEN h[m \div 2] ELSE m
  BY <1>0, <1>3
<1>5. m > MinAllocNum /\ h[m] = h[m \div 2]
  BY <1>3, <1>4, ThresholdAssumption
<1>6. m \div 2 \in 0..(m - 1) /\ m \div 2 \in 0..n
  BY <1>3, <1>5, HalfIsLess
<1>7. m \div 2 \notin T
  BY <1>2, <1>3, <1>6
<1>8. Good(m \div 2)
  BY <1>6, <1>7
<1> QED
  BY <1>3, <1>5, <1>6, <1>8

LEMMA HalvedBound ==
  ASSUME NEW f \in Int, NEW n \in Nat
  PROVE  Halved(f, n) \in 0..n /\ (Halved(f, n) <= f \div 2 \/ Halved(f, n) <= MinAllocNum)
<1> DEFINE H == CHOOSE h : IsHalving(h, f, n)
<1>1. IsHalving(H, f, n)
  BY HalvingExists, Zenon
<1>2. H[n] \in 0..n /\ (H[n] <= f \div 2 \/ H[n] <= MinAllocNum)
  BY <1>1, HalvingBound
<1>3. Halved(f, n) = H[n]
  BY DEF Halved, IsHalving
<1> QED
  BY <1>2, <1>3

\* What gradientDescAllocation returns: at most the request, at least the smaller
\* of the request and the minimum, and more than the minimum only if it is at
\* most half of what is free.
LEMMA AllocationBounds ==
  ASSUME NEW a \in Int, NEW n \in Nat
  PROVE  LET r == GradientDescAllocation(a, n) IN
         /\ r \in 0..n
         /\ r >= n \/ r >= MinAllocNum
         /\ r <= MinAllocNum \/ r <= (Threshold - a) \div 2
<1>1. Threshold - a \in Int /\ MinAllocNum \in Nat
  BY ThresholdAssumption
<1>2. /\ Halved(Threshold - a, n) \in 0..n
      /\ \/ Halved(Threshold - a, n) <= (Threshold - a) \div 2
         \/ Halved(Threshold - a, n) <= MinAllocNum
  BY <1>1, HalvedBound
<1> QED
  BY <1>1, <1>2 DEF GradientDescAllocation

-----------------------------------------------------------------------------
(* The inductive invariant.                                                *)

\* What ResourceBucketProofs shows, for the bucket of the shards.
ShP == INSTANCE ResourceBucketProofs WITH
    Costs <- ShardNums, Total <- ShardTotal,
    OutOfLimitOnce <- TRUE, freeResource <- shFree, blockExecutor <- shBlock,
    pc <- shPc, cost <- shCost, chan <- shChan

QTypeOK ==
  /\ aliveCount \in Int
  /\ qpc \in [Procs -> {"idle", "load", "shards", "run", "free"}]
  /\ internal \in [Procs -> BOOLEAN]
  /\ num \in [Procs -> Nat]
  /\ seen \in [Procs -> Int]
  /\ par \in [Procs -> Nat]

\* Where a query is in both buckets: it calls for series only when it runs, and
\* the shards that it is charged for are the ones it will give back.
QCtl(q) ==
  /\ pc[q] # "idle" => Runs(q)
  /\ shPc[q] \in {"try", "wait", "lacks", "hold"} <=> qpc[q] = "shards"
  /\ shPc[q] = "close" => qpc[q] = "free"
  /\ shPc[q] \in {"try", "wait", "hold"} => shCost[q] = num[q]
  /\ qpc[q] = "run" => internal[q]
  /\ qpc[q] = "shards" => ~internal[q]
  /\ qpc[q] # "idle" => num[q] \in ShardNums
  /\ qpc[q] \in {"idle", "load"} => par[q] = 0

QCtlInv == \A q \in Procs : QCtl(q)

\* aliveCount is the parallelism of all queries together.
AliveInv == IsFiniteSet(Tokens(par)) /\ aliveCount = Cardinality(Tokens(par))

\* The part about the queries, and the part about the series: they are free,
\* held by queries, or leaked by scans that reported fewer than they took.
QueryInv == QTypeOK /\ QCtlInv /\ ParallelismInRange /\ AliveInv
SeriesInv == BucketInv /\ CostInv /\ leaked \in Nat /\ Account(Total - leaked)

IInv == QueryInv /\ SeriesInv /\ ShP!FullInv

-----------------------------------------------------------------------------
(* The queries use the shards as a bucket is used.                         *)

LEMMA SameShards ==
  /\ Shards!BucketInit <=> ShP!BucketInit
  /\ \A q \in Procs :
       /\ \A c : Shards!GetResource(q, c) <=> ShP!GetResource(q, c)
       /\ Shards!Proceed(q) <=> ShP!Proceed(q)
       /\ Shards!GiveUp(q) <=> ShP!GiveUp(q)
       /\ \A n : Shards!ReleaseResource(q, n) <=> ShP!ReleaseResource(q, n)
<1>1. Shards!BucketInit <=> ShP!BucketInit
  BY DEF Shards!BucketInit, ShP!BucketInit
<1>2. ASSUME NEW q \in Procs
      PROVE  /\ \A c : Shards!GetResource(q, c) <=> ShP!GetResource(q, c)
             /\ Shards!GiveUp(q) <=> ShP!GiveUp(q)
             /\ \A n : Shards!ReleaseResource(q, n) <=> ShP!ReleaseResource(q, n)
  BY DEF Shards!GetResource, ShP!GetResource, Shards!GiveUp, ShP!GiveUp,
         Shards!ReleaseResource, ShP!ReleaseResource
<1>3. ASSUME NEW q \in Procs
      PROVE  Shards!Proceed(q) <=> ShP!Proceed(q)
  BY DEF Shards!Proceed, ShP!Proceed, Shards!Try, ShP!Try, Shards!Admits, ShP!Admits,
         Shards!Wake, ShP!Wake, Shards!TimeOut, ShP!TimeOut, Shards!Close, ShP!Close
<1> QED
  BY <1>1, <1>2, <1>3

\* The tokens of ShP, and the assumptions under which its lemmas hold.
LEMMA ShardsAssumptions ==
  /\ ShP!IsFiniteSet(Procs) /\ Procs \cap {"none", "current", "closed"} = {}
  /\ ShardNums \subseteq Nat /\ ShardTotal \in Nat
BY ProcsAssumption, ShardsAssumption DEF IsFiniteSet, ShP!IsFiniteSet

\* What a step does to the shards.
ShardsMove ==
  \/ \E q \in Procs :
       \/ \E c \in ShardNums : Shards!GetResource(q, c)
       \/ Shards!Proceed(q)
       \/ Shards!GiveUp(q)
       \/ Shards!ReleaseResource(q, shCost[q])
  \/ UNCHANGED shVars

LEMMA ShardsSimulated == QCtlInv /\ [Next]_vars => ShardsMove
<1> SUFFICES ASSUME QCtlInv, [Next]_vars PROVE ShardsMove
  OBVIOUS
<1>1. ASSUME NEW q \in Procs, AddAliveCount(q) PROVE ShardsMove
  BY <1>1 DEF AddAliveCount, ShardsMove, QCtlInv, QCtl
<1>2. ASSUME NEW q \in Procs, ShardsProceed(q) PROVE ShardsMove
  BY <1>2 DEF ShardsProceed, ShardsMove
<1>3. ASSUME NEW q \in Procs, FreeShards(q) PROVE ShardsMove
  <2>1. CASE internal[q]
    BY <1>3, <2>1 DEF FreeShards, ShardsMove
  <2>2. CASE ~internal[q]
    <3>1. shCost[q] = num[q]
      BY <1>3, <2>2 DEF FreeShards, Runs, QCtlInv, QCtl
    <3> QED
      BY <1>3, <2>2, <3>1 DEF FreeShards, ShardsMove
  <2> QED
    BY <2>1, <2>2
<1>4. ASSUME NEW q \in Procs, FreeAliveCount(q) PROVE ShardsMove
  BY <1>4 DEF FreeAliveCount, ShardsMove
<1>5. ASSUME NEW q \in Procs,
             \/ LoadAliveCount(q) \/ AllocSeries(q) \/ SeriesProceed(q) \/ FreeSeries(q)
      PROVE  ShardsMove
  BY <1>5 DEF LoadAliveCount, AllocSeries, SeriesProceed, FreeSeries, ShardsMove
<1>6. CASE UNCHANGED vars
  BY <1>6 DEF vars, ShardsMove
<1> QED
  BY <1>1, <1>2, <1>3, <1>4, <1>5, <1>6 DEF Next

LEMMA ShardsStep == IInv /\ [Next]_vars => ShP!FullInv'
<1> SUFFICES ASSUME IInv, [Next]_vars PROVE ShP!FullInv'
  OBVIOUS
<1>1. ShardsMove
  BY ShardsSimulated DEF IInv, QueryInv
<1>2. [ShP!BucketNext]_(ShP!bucketVars)
  BY <1>1, SameShards DEF ShardsMove, ShP!BucketNext, ShP!bucketVars, shVars
<1>3. ShP!FullInv
  BY DEF IInv
<1> QED
  BY <1>2, <1>3, ShardsAssumptions, ShP!StepFull
-----------------------------------------------------------------------------
(* The series.                                                             *)

LEMMA SeriesSame ==
  ASSUME SeriesInv, UNCHANGED seriesVars
  PROVE  SeriesInv'
<1>1. BucketInv'
  BY DEF SeriesInv, BucketInv, BucketTypeOK, BlockInv, ChanInv, NoLostWakeup,
         LimitKept, Admits, seriesVars, bucketVars
<1>2. CostInv' /\ leaked' = leaked /\ Account(Total - leaked)'
  BY DEF SeriesInv, CostInv, Account, Tokens, Held, seriesVars, bucketVars
<1> QED
  BY <1>1, <1>2 DEF SeriesInv

\* What a scan reports is a number and at most what it took.
LEMMA ReportedSeries ==
  ASSUME NEW n \in Nat, NEW k \in SeriesReported(n)
  PROVE  k \in Nat /\ n - k \in Nat
BY DEF SeriesReported

LEMMA SeriesStep == SeriesInv /\ [Next]_vars => SeriesInv'
<1> SUFFICES ASSUME SeriesInv, [Next]_vars PROVE SeriesInv'
  OBVIOUS
<1>0. BucketInv /\ BucketTypeOK /\ CostInv /\ leaked \in Nat
  BY DEF SeriesInv, BucketInv
<1>a. PICK t \in Int : t = Total - leaked
  BY <1>0, TotalAssumption
<1>b. Account(t)
  BY <1>a DEF SeriesInv
<1>c. ASSUME Account(t)', leaked' = leaked PROVE Account(Total - leaked)'
  BY <1>a, <1>c DEF Account
<1>1. ASSUME NEW q \in Procs, AllocSeries(q) PROVE SeriesInv'
  <2>1. leaked' = leaked /\ \E n \in Costs : GetResource(q, n)
    BY <1>1 DEF AllocSeries
  <2>2. PICK n \in Costs : GetResource(q, n)
    BY <2>1
  <2>3. BucketInv'
    BY <1>0, <2>2, GetResourceInv
  <2>4. CostInv' /\ Account(t)'
    BY <1>0, <1>b, <2>2, GetResourceTokens
  <2> QED
    BY <1>0, <1>c, <2>1, <2>3, <2>4 DEF SeriesInv
<1>2. ASSUME NEW q \in Procs, SeriesProceed(q) PROVE SeriesInv'
  <2>1. Proceed(q) /\ leaked' = leaked
    BY <1>2 DEF SeriesProceed
  <2>2. BucketInv'
    BY <1>0, <2>1, ProceedInv
  <2>3. CostInv' /\ Account(t)'
    BY <1>0, <1>b, <2>1, ProceedTokens
  <2> QED
    BY <1>0, <1>c, <2>1, <2>2, <2>3 DEF SeriesInv
<1>3. ASSUME NEW q \in Procs, FreeSeries(q) PROVE SeriesInv'
  <2>1. PICK n \in SeriesReported(cost[q]) :
          ReleaseResource(q, n) /\ leaked' = leaked + cost[q] - n
    BY <1>3 DEF FreeSeries
  <2>2. cost[q] \in Nat
    BY <1>0 DEF BucketTypeOK
  <2>3. n \in Nat /\ cost[q] - n \in Nat
    BY <2>2, ReportedSeries
  <2>4. PICK d \in Nat : d = cost[q] - n
    BY <2>3
  <2>5. BucketInv'
    BY <1>0, <2>1, <2>3, ReleaseInv, SeriesAssumption
  <2>6. CostInv'
    BY <1>0, <2>1, ReleaseCost
  <2>7. Account(t - d)'
    BY <1>0, <1>b, <2>1, <2>3, <2>4, ReleaseTokens
  <2>8. leaked' = leaked + d
    BY <1>0, <2>1, <2>2, <2>3, <2>4
  <2>9. leaked' \in Nat /\ t - d = Total - leaked'
    BY <1>0, <1>a, <2>8, TotalAssumption
  <2>10. Account(Total - leaked)'
    BY <2>7, <2>9 DEF Account
  <2> QED
    BY <2>5, <2>6, <2>9, <2>10 DEF SeriesInv
<1>4. ASSUME NEW q \in Procs,
             \/ LoadAliveCount(q) \/ AddAliveCount(q) \/ ShardsProceed(q)
             \/ FreeShards(q) \/ FreeAliveCount(q)
      PROVE  SeriesInv'
  BY <1>4, SeriesSame
  DEF LoadAliveCount, AddAliveCount, ShardsProceed, FreeShards, FreeAliveCount
<1>5. CASE UNCHANGED vars
  BY <1>5, SeriesSame DEF vars
<1> QED
  BY <1>1, <1>2, <1>3, <1>4, <1>5 DEF Next

-----------------------------------------------------------------------------
(* The queries.                                                            *)

LEMMA AliveSame ==
  ASSUME AliveInv, UNCHANGED <<aliveCount, par>>
  PROVE  AliveInv'
BY DEF AliveInv, Tokens

\* The types of the two buckets, as far as the queries need them.
BucketTypes ==
  /\ pc \in [Procs -> {"idle", "try", "wait", "lacks", "hold", "close"}]
  /\ shPc \in [Procs -> {"idle", "try", "wait", "lacks", "hold", "close"}]
  /\ shCost \in [Procs -> Nat]

LEMMA TypesOfBuckets == IInv => BucketTypes
BY DEF IInv, SeriesInv, BucketInv, BucketTypeOK, ShP!FullInv, ShP!BucketInv,
       ShP!BucketTypeOK, BucketTypes

LEMMA LoadStep ==
  ASSUME QueryInv, BucketTypes, NEW q \in Procs, LoadAliveCount(q)
  PROVE  QueryInv'
<1> USE DEF QueryInv
<1>1. PICK n \in ShardNums, b \in BOOLEAN :
        /\ qpc[q] = "idle" /\ qpc' = [qpc EXCEPT ![q] = "load"]
        /\ num' = [num EXCEPT ![q] = n] /\ internal' = [internal EXCEPT ![q] = b]
        /\ seen' = [seen EXCEPT ![q] = aliveCount]
        /\ UNCHANGED <<shPc, shCost, pc, aliveCount, par>>
  BY DEF LoadAliveCount, shVars, seriesVars, bucketVars
<1>2. QTypeOK'
  BY <1>1, ShardsAssumption DEF QTypeOK
<1>3. QCtlInv'
  BY <1>1 DEF QCtlInv, QCtl, Runs, QTypeOK, BucketTypes
<1>4. ParallelismInRange'
  BY <1>1 DEF ParallelismInRange, QTypeOK
<1> QED
  BY <1>1, <1>2, <1>3, <1>4, AliveSame

LEMMA AddStep ==
  ASSUME QueryInv, BucketTypes, NEW q \in Procs, AddAliveCount(q)
  PROVE  QueryInv'
<1> USE DEF QueryInv
<1> DEFINE n == GradientDescAllocation(seen[q], num[q])
<1>1. seen[q] \in Int /\ num[q] \in Nat /\ qpc[q] = "load"
  BY DEF QTypeOK, AddAliveCount
<1>2. n \in Nat /\ n <= num[q] /\ (n >= num[q] \/ n >= MinAllocNum)
  <2>1. n \in 0..num[q] /\ (n >= num[q] \/ n >= MinAllocNum)
    BY <1>1, AllocationBounds
  <2> QED
    BY <1>1, <2>1
<1>3. /\ aliveCount' = aliveCount + n /\ par' = [par EXCEPT ![q] = n]
      /\ seen' = [seen EXCEPT ![q] = 0]
      /\ UNCHANGED <<pc, internal, num>>
  BY DEF AddAliveCount, seriesVars, bucketVars
<1>4. IF internal[q] THEN qpc' = [qpc EXCEPT ![q] = "run"] /\ UNCHANGED <<shPc, shCost>>
      ELSE /\ qpc' = [qpc EXCEPT ![q] = "shards"]
           /\ shPc[q] = "idle"
           /\ shPc' = [shPc EXCEPT ![q] = "try"]
           /\ shCost' = [shCost EXCEPT ![q] = num[q]]
  BY DEF AddAliveCount, shVars, Shards!GetResource
<1> HIDE DEF n
<1>5. QTypeOK'
  BY <1>2, <1>3, <1>4 DEF QTypeOK
<1>6. QCtlInv'
  <2>1. CASE internal[q]
    BY <1>1, <1>3, <1>4, <2>1 DEF QCtlInv, QCtl, Runs, QTypeOK, BucketTypes
  <2>2. CASE ~internal[q]
    BY <1>1, <1>3, <1>4, <2>2 DEF QCtlInv, QCtl, Runs, QTypeOK, BucketTypes
  <2> QED
    BY <2>1, <2>2
<1>7. ParallelismInRange'
  <2>1. \A r \in Procs : r # q => qpc'[r] = qpc[r] /\ par'[r] = par[r] /\ num'[r] = num[r]
    BY <1>3, <1>4 DEF QTypeOK
  <2>2. par'[q] = n /\ num'[q] = num[q]
    BY <1>3 DEF QTypeOK
  <2> QED
    BY <1>2, <2>1, <2>2 DEF ParallelismInRange
<1>8. AliveInv'
  <2>1. par[q] = 0 /\ par'[q] = n /\ \A r \in Procs \ {q} : par'[r] = par[r]
    BY <1>1, <1>3 DEF QTypeOK, QCtlInv, QCtl
  <2>2. IsFiniteSet(Tokens(par))
    BY DEF AliveInv
  <2>3. IsFiniteSet(Tokens(par')) /\ Cardinality(Tokens(par')) = Cardinality(Tokens(par)) + n
    BY <1>2, <2>1, <2>2, TokensAdded, Zenon
  <2>4. (Tokens(par))' = Tokens(par')
    BY DEF Tokens
  <2> QED
    BY <1>3, <2>3, <2>4 DEF AliveInv
<1> QED
  BY <1>5, <1>6, <1>7, <1>8

\* Steps inside one of the buckets: getResImpl, and ReleaseResource of the series.
LEMMA ShardsProceedStep ==
  ASSUME QueryInv, BucketTypes, NEW q \in Procs, ShardsProceed(q)
  PROVE  QueryInv'
<1> USE DEF QueryInv
<1>1. UNCHANGED <<pc, aliveCount, qpc, internal, num, seen, par>>
  BY DEF ShardsProceed, seriesVars, bucketVars, queryVars
<1>2. QTypeOK' /\ ParallelismInRange'
  BY <1>1 DEF QTypeOK, ParallelismInRange
<1>3. \/ /\ shPc[q] = "try" /\ shPc' \in {[shPc EXCEPT ![q] = "hold"], [shPc EXCEPT ![q] = "wait"]}
         /\ UNCHANGED shCost
      \/ /\ shPc[q] = "wait" /\ shPc' = [shPc EXCEPT ![q] = "try"] /\ UNCHANGED shCost
      \/ /\ shPc[q] = "wait" /\ shPc' = [shPc EXCEPT ![q] = "lacks"]
         /\ shCost' = [shCost EXCEPT ![q] = 0]
      \/ /\ shPc[q] = "close" /\ shPc' = [shPc EXCEPT ![q] = "idle"] /\ UNCHANGED shCost
  BY DEF ShardsProceed, Shards!Proceed, Shards!Try, Shards!Wake, Shards!TimeOut, Shards!Close
<1>4. QCtlInv'
  BY <1>1, <1>3 DEF QCtlInv, QCtl, Runs, BucketTypes
<1> QED
  BY <1>1, <1>2, <1>4, AliveSame

LEMMA SeriesMoveStep ==
  ASSUME QueryInv, BucketTypes, NEW q \in Procs,
         AllocSeries(q) \/ SeriesProceed(q) \/ FreeSeries(q)
  PROVE  QueryInv'
<1> USE DEF QueryInv
<1>1. UNCHANGED <<shPc, shCost, aliveCount, qpc, internal, num, seen, par>>
  BY DEF AllocSeries, SeriesProceed, FreeSeries, shVars, queryVars
<1>2. QTypeOK' /\ ParallelismInRange'
  BY <1>1 DEF QTypeOK, ParallelismInRange
<1>3. /\ \A r \in Procs : r # q => pc'[r] = pc[r]
      /\ Runs(q) \/ pc[q] # "idle"
  BY DEF AllocSeries, SeriesProceed, FreeSeries, GetResource, Proceed, Try, Wake,
         TimeOut, Close, ReleaseResource, BucketTypes
<1>4. QCtlInv'
  BY <1>1, <1>3 DEF QCtlInv, QCtl, Runs
<1> QED
  BY <1>1, <1>2, <1>4, AliveSame

LEMMA FreeShardsStep ==
  ASSUME QueryInv, BucketTypes, NEW q \in Procs, FreeShards(q)
  PROVE  QueryInv'
<1> USE DEF QueryInv
<1>1. /\ Runs(q) /\ pc[q] = "idle"
      /\ qpc' = [qpc EXCEPT ![q] = "free"]
      /\ UNCHANGED <<pc, aliveCount, internal, num, seen, par>>
      /\ \/ internal[q] /\ UNCHANGED <<shPc, shCost>>
         \/ /\ ~internal[q]
            /\ shPc' \in {[shPc EXCEPT ![q] = "close"], [shPc EXCEPT ![q] = "idle"]}
            /\ shCost' = [shCost EXCEPT ![q] = 0]
  BY DEF FreeShards, Shards!ReleaseResource, shVars, seriesVars, bucketVars
<1>2. QTypeOK'
  BY <1>1 DEF QTypeOK
<1>3. QCtlInv'
  BY <1>1 DEF QCtlInv, QCtl, Runs, QTypeOK, BucketTypes
<1>4. ParallelismInRange'
  BY <1>1 DEF ParallelismInRange, QTypeOK, Runs
<1> QED
  BY <1>1, <1>2, <1>3, <1>4, AliveSame

LEMMA FreeAliveStep ==
  ASSUME QueryInv, BucketTypes, NEW q \in Procs, FreeAliveCount(q)
  PROVE  QueryInv'
<1> USE DEF QueryInv
<1>1. /\ aliveCount' = aliveCount - par[q]
      /\ qpc' = [qpc EXCEPT ![q] = "idle"]
      /\ internal' = [internal EXCEPT ![q] = FALSE]
      /\ num' = [num EXCEPT ![q] = 0]
      /\ par' = [par EXCEPT ![q] = 0]
      /\ UNCHANGED <<pc, seen, shCost>>
      /\ \/ qpc[q] = "shards" /\ shPc[q] = "lacks" /\ shPc' = [shPc EXCEPT ![q] = "idle"]
         \/ qpc[q] = "free" /\ shPc[q] = "idle" /\ UNCHANGED shPc
  BY DEF FreeAliveCount, Shards!GiveUp, shVars, seriesVars, bucketVars
<1>2. QTypeOK'
  BY <1>1 DEF QTypeOK
<1>3. QCtlInv'
  BY <1>1 DEF QCtlInv, QCtl, Runs, QTypeOK, BucketTypes
<1>4. ParallelismInRange'
  BY <1>1 DEF ParallelismInRange, QTypeOK
<1>5. AliveInv'
  <2>1. par \in [Procs -> Nat] /\ par[q] \in Nat
    BY DEF QTypeOK
  <2>2. IsFiniteSet(Tokens(par))
    BY DEF AliveInv
  <2>3. IsFiniteSet(Tokens(par')) /\ Cardinality(Tokens(par')) = Cardinality(Tokens(par)) - par[q]
    BY <1>1, <2>1, <2>2, TokensRemoved, Zenon
  <2>4. (Tokens(par))' = Tokens(par')
    BY DEF Tokens
  <2> QED
    BY <1>1, <2>3, <2>4 DEF AliveInv
<1> QED
  BY <1>2, <1>3, <1>4, <1>5

LEMMA QueryStep == IInv /\ [Next]_vars => QueryInv'
<1> SUFFICES ASSUME IInv, [Next]_vars PROVE QueryInv'
  OBVIOUS
<1>1. QueryInv /\ BucketTypes
  BY TypesOfBuckets DEF IInv
<1>2. CASE UNCHANGED vars
  <2>1. UNCHANGED <<pc, shPc, shCost, aliveCount, qpc, internal, num, seen, par>>
    BY <1>2 DEF vars, shVars, seriesVars, bucketVars, queryVars
  <2> QED
    BY <1>1, <2>1, AliveSame DEF QueryInv, QTypeOK, QCtlInv, QCtl, Runs, ParallelismInRange
<1> QED
  BY <1>1, <1>2, LoadStep, AddStep, ShardsProceedStep, SeriesMoveStep, FreeShardsStep,
     FreeAliveStep
  DEF Next

LEMMA InitIInv == Init => IInv
<1> SUFFICES ASSUME Init PROVE IInv
  OBVIOUS
<1>1. ShP!FullInv
  BY SameShards, ShardsAssumptions, ShP!InitFull DEF Init
<1>2. SeriesInv
  <2>1. BucketInv /\ CostInv /\ TokensInv /\ leaked = 0
    BY InitInv, InitTokens DEF Init
  <2>2. Total - leaked = Total
    BY <2>1, TotalAssumption
  <2> QED
    BY <2>1, <2>2 DEF SeriesInv, TokensInv
<1>3. QTypeOK /\ QCtlInv /\ ParallelismInRange
  BY DEF Init, Shards!BucketInit, BucketInit, QTypeOK, QCtlInv, QCtl, ParallelismInRange
<1>4. AliveInv
  BY NoTokens DEF Init, AliveInv
<1> QED
  BY <1>1, <1>2, <1>3, <1>4 DEF IInv, QueryInv

\* The inductive invariant of query admission: where every query is in both
\* buckets, what it is charged for, and both buckets' own invariants.
THEOREM Invariant == Spec => []IInv
<1>1. IInv /\ [Next]_vars => IInv'
  BY ShardsStep, SeriesStep, QueryStep DEF IInv
<1> QED
  BY <1>1, InitIInv, PTL DEF Spec

-----------------------------------------------------------------------------
(* What follows.                                                           *)

\* Select.process and its error paths use the shards as a bucket is used: who
\* gets shards gives the same number back, who gets none gives none back.
THEOREM ShardsAreABucket == Spec => ShardsRefined
<1>1. Init => Shards!BucketInit
  BY DEF Init
<1>2. IInv /\ [Next]_vars => [Shards!BucketNext]_(Shards!bucketVars)
  <2> SUFFICES ASSUME IInv, [Next]_vars
               PROVE  [Shards!BucketNext]_(Shards!bucketVars)
    OBVIOUS
  <2>1. ShardsMove
    BY ShardsSimulated DEF IInv, QueryInv
  <2> QED
    BY <2>1 DEF ShardsMove, Shards!BucketNext, Shards!bucketVars, shVars
<1> QED
  BY <1>1, <1>2, Invariant, PTL DEF Spec, ShardsRefined, Shards!BucketSpec

\* One query at most overdraws the shards, and none waits for shards that it
\* could have.
THEOREM ShardsAreKept == Spec => []ShardsKept
<1>1. IInv => ShardsKept
  BY DEF IInv, ShP!FullInv, ShP!BucketInv, ShP!LimitKept, ShP!NoLostWakeup, ShP!Admits,
         ShardsKept, Shards!LimitKept, Shards!NoLostWakeup, Shards!Admits
<1> QED
  BY <1>1, Invariant, PTL

\* The series lose no wakeup either, even when scans report fewer than they took.
THEOREM SeriesWakeupsKept == Spec => []NoLostWakeup
<1>1. IInv => NoLostWakeup
  BY DEF IInv, SeriesInv, BucketInv
<1> QED
  BY <1>1, Invariant, PTL

\* BaseResAllocator computes with a value of aliveCount that may be stale when it
\* adds to it: the parallelism is in its range all the same.
THEOREM ParallelismKept == Spec => []ParallelismInRange
<1>1. IInv => ParallelismInRange
  BY DEF IInv, QueryInv
<1> QED
  BY <1>1, Invariant, PTL

\* The shards and the parallelism are back when no query runs, and of the series
\* all but those that scans took and did not report.
THEOREM AllReturned == Spec => []QueriesReturnAll
<1>1. IInv => QueriesReturnAll
  <2> SUFFICES ASSUME IInv, \A q \in Procs : qpc[q] = "idle"
               PROVE  shFree = ShardTotal /\ freeResource + leaked = Total /\ aliveCount = 0
    BY DEF QueriesReturnAll
  <2>1. \A q \in Procs : pc[q] # "hold" /\ shPc[q] # "hold" /\ par[q] = 0
    BY DEF IInv, QueryInv, QCtlInv, QCtl, Runs
  <2>2. shFree = ShardTotal
    <3>1. ShP!CostInv /\ ShP!TokensInv
      BY DEF IInv, ShP!FullInv
    <3>2. ShP!AllBack
      BY <3>1, ShardsAssumptions, ShP!TokensBack
    <3> QED
      BY <2>1, <3>2 DEF ShP!AllBack
  <2>3. freeResource + leaked = Total
    <3>1. leaked \in Nat /\ Total - leaked \in Int /\ Account(Total - leaked)
      BY TotalAssumption DEF IInv, SeriesInv
    <3>2. freeResource = Total - leaked
      BY <2>1, <3>1, AccountBack
    <3> QED
      BY <3>1, <3>2, TotalAssumption
  <2>4. aliveCount = 0
    BY <2>1, NoTokens DEF IInv, QueryInv, AliveInv
  <2> QED
    BY <2>2, <2>3, <2>4
<1> QED
  BY <1>1, Invariant, PTL

\* A query that waits for series waits for one that runs.
LEMMA SeriesWaitEnds ==
  ASSUME IInv, NEW q \in Procs, pc[q] = "wait", chan[q] # "closed",
         cost[q] <= Total - leaked
  PROVE  \E r \in Procs : qpc[r] # "idle" /\ ~Blocked(r)
<1>0. BucketInv /\ BucketTypeOK /\ BucketTypes /\ QCtlInv
  BY TypesOfBuckets DEF IInv, SeriesInv, BucketInv, QueryInv
<1>1. \A r \in Procs : pc[r] \in {"hold", "close"} => qpc[r] # "idle" /\ ~Blocked(r)
  BY <1>0 DEF QCtlInv, QCtl, Runs, Blocked
<1>2. CASE chan[q] \in Procs
  <2>1. pc[chan[q]] = "close"
    BY <1>0, <1>2 DEF BucketInv, ChanInv
  <2> QED
    BY <1>1, <1>2, <2>1
<1>3. CASE chan[q] = "current"
  <2>1. ~Admits(cost[q])
    BY <1>0, <1>3 DEF BucketInv, NoLostWakeup
  <2>2. cost[q] \in Nat /\ freeResource \in Int
    BY <1>0 DEF BucketTypeOK
  <2>3. leaked \in Nat /\ Total - leaked \in Int /\ Account(Total - leaked)
    BY TotalAssumption DEF IInv, SeriesInv
  <2>4. freeResource # Total - leaked
    BY <2>1, <2>2, <2>3, SeriesAssumption DEF Admits
  <2>5. PICK r \in Procs : pc[r] = "hold"
    BY <2>3, <2>4, AccountBack
  <2> QED
    BY <1>1, <2>5
<1> QED
  BY <1>0, <1>2, <1>3 DEF BucketInv, BucketTypeOK, ChanInv

\* Queries hold shards while they wait for series, and never all wait for each
\* other, as long as each asks for no more series than leaks have left.
THEOREM NoStandstill == Spec => []SomebodyRuns
<1>1. IInv => SomebodyRuns
  <2> SUFFICES ASSUME IInv, \A p \in Procs : cost[p] <= Total - leaked,
                      NEW q \in Procs, Blocked(q)
               PROVE  \E r \in Procs : qpc[r] # "idle" /\ ~Blocked(r)
    BY DEF SomebodyRuns
  <2>0. BucketTypes /\ QCtlInv /\ ShP!BucketInv /\ ShP!BucketTypeOK
    BY TypesOfBuckets DEF IInv, QueryInv, ShP!FullInv, ShP!BucketInv
  <2>1. CASE pc[q] = "wait" /\ chan[q] # "closed"
    BY <2>1, SeriesWaitEnds
  <2>2. CASE shPc[q] = "wait" /\ shChan[q] \in Procs
    <3>1. shPc[shChan[q]] = "close"
      BY <2>0, <2>2 DEF ShP!BucketInv, ShP!ChanInv
    <3>2. qpc[shChan[q]] = "free" /\ pc[shChan[q]] = "idle"
      BY <2>0, <2>2, <3>1 DEF QCtlInv, QCtl, Runs
    <3>3. qpc[shChan[q]] # "idle" /\ ~Blocked(shChan[q])
      BY <3>1, <3>2 DEF Blocked
    <3> QED
      BY <2>2, <3>3
  <2>3. CASE shPc[q] = "wait" /\ shChan[q] = "current"
    <3>1. shFree < 0
      <4>1. ~(shFree >= 0) /\ shFree \in Int
        BY <2>0, <2>3 DEF ShP!BucketInv, ShP!BucketTypeOK, ShP!NoLostWakeup, ShP!Admits
      <4> QED
        BY <4>1
    <3>2. PICK h \in Procs : shPc[h] = "hold"
      BY <2>0, <3>1 DEF ShP!BucketInv, ShP!LimitKept
    <3>3. qpc[h] # "idle" /\ shPc[h] # "wait"
      BY <2>0, <3>2 DEF QCtlInv, QCtl
    <3>4. CASE pc[h] = "wait" /\ chan[h] # "closed"
      BY <3>4, SeriesWaitEnds
    <3>5. CASE ~(pc[h] = "wait" /\ chan[h] # "closed")
      BY <3>3, <3>5 DEF Blocked
    <3> QED
      BY <3>4, <3>5
  <2>4. shPc[q] = "wait" /\ shChan[q] # "closed" => shChan[q] \in Procs \cup {"current"}
    BY <2>0 DEF ShP!BucketInv, ShP!BucketTypeOK, ShP!ChanInv
  <2> QED
    BY <2>1, <2>2, <2>3, <2>4 DEF Blocked
<1> QED
  BY <1>1, Invariant, PTL

=============================================================================
